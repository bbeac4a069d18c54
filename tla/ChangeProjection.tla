--------------------------- MODULE ChangeProjection ---------------------------
(***************************************************************************)
(* The Change projection: what a set of recorded facts says about each     *)
(* Change (its members, the replacement graph between them, its topology,  *)
(* its lifecycle and its open obligations), and the replacement view that  *)
(* thread readers and the attention queue take from all Changes together.  *)
(* The fold is a function of the SET of facts: arrival order, time and     *)
(* actor never choose a winner.                                            *)
(*                                                                         *)
(* A fact is the part of an event the fold reads, a record whose `kind` is *)
(*   revision  [event, rev, hash, supersedes]  a proposed Revision         *)
(*   declared  [event, claim, change, root]    root may be None            *)
(*   joined    [event, claim, change, rev]     a membership claim          *)
(*   left      [event, claim]                  its withdrawal              *)
(*   related   [event, claim, change, succ, succHash, pred, predHash]      *)
(*   unrelated [event, claim]                  its withdrawal              *)
(*   linked    [event, claim, left, right]     a link between two Changes  *)
(*   assessed  [event, rev, id, accepting, replaces]                       *)
(*   requested [event, request, rev]           an operative input request  *)
(*   responded [event, request, rev]           rev may be None             *)
(*   ported    [event, port, origin, originRev, originHash, target,        *)
(*              targetRev, targetHash, context]  context may be None       *)
(* `event` is the event id, a number because the fold compares ids. Claim  *)
(* and request ids are derived from what they name, so one id never names  *)
(* two things. A declaration whose id is not the one its descriptor        *)
(* derives never becomes a fact: the payload is validated first. Only the  *)
(* ports that carry a request open (CarriedOpenAs) reach the fold.         *)
(***************************************************************************)
EXTENDS Integers, FiniteSets

Of(F, kind) == {f \in F : f.kind = kind}

-----------------------------------------------------------------------------
(* Graphs over Revisions: an edge <<s, p>> says that s replaces p.         *)

\* The least subset of V that contains S and is closed under the edges E.
Closure(E, V, S) ==
    {x \in V : \A T \in SUBSET V :
        (S \subseteq T /\ \A e \in E : e[1] \in T => e[2] \in T) => x \in T}

\* revision_graph_has_cycle: a finite graph has a cycle when some nonempty set
\* of its nodes has no node that nothing in the set replaces.
HasCycle(E, V) ==
    \E S \in SUBSET V : /\ S # {}
                        /\ \A p \in S : \E s \in S : <<s, p>> \in E

Ancestors(E, V, r) == Closure(E, V, {p \in V : <<r, p>> \in E})

\* replacement_heads_diverge: two heads have a common ancestor.
HeadsDiverge(E, V, heads) ==
    \E a, b \in heads :
        a # b /\ Ancestors(E, V, a) \cap Ancestors(E, V, b) # {}

-----------------------------------------------------------------------------
(* project_changes_from_facts, one Change at a time.                       *)

Known(F) == {f.rev : f \in Of(F, "revision")}

Hashes(F, r) == {f.hash : f \in {g \in Of(F, "revision") : g.rev = r}}

\* Two proposals bind one Revision to different object artifacts.
Contested(F, r) == \E h, k \in Hashes(F, r) : h # k

Claimed(F, kind, c) == {f \in Of(F, kind) : f.change = c}

Withdrawn(F, kind, claim) == \E w \in Of(F, kind) : w.claim = claim

Memberships(F, c) ==
    {m \in Claimed(F, "joined", c) : ~Withdrawn(F, "left", m.claim)}

Relations(F, c) ==
    {e \in Claimed(F, "related", c) : ~Withdrawn(F, "unrelated", e.claim)}

ChangeIds(F) ==
    {f.change : f \in Of(F, "declared") \cup Of(F, "joined") \cup Of(F, "related")}

Members(F, c) == {m.rev : m \in {n \in Memberships(F, c) : n.rev \in Known(F)}}

\* Both ends of a relation are bound to exactly the artifact it names.
Exact(F, e) ==
    Hashes(F, e.succ) = {e.succHash} /\ Hashes(F, e.pred) = {e.predHash}

EndContested(F, e) == Contested(F, e.succ) \/ Contested(F, e.pred)

\* A relation claim replaces nothing unless both of its ends are members.
Supersedes(F, c) ==
    {<<e.succ, e.pred>> : e \in
        {g \in Relations(F, c) :
            Exact(F, g) /\ {g.succ, g.pred} \subseteq Members(F, c)}}

CurrentRevisions(F, c) ==
    {r \in Members(F, c) : ~\E e \in Supersedes(F, c) : e[2] = r}

Cyclic(F, c) == HasCycle(Supersedes(F, c), Members(F, c))

Divergent(F, c) ==
    /\ ~Cyclic(F, c)
    /\ HeadsDiverge(Supersedes(F, c), Members(F, c), CurrentRevisions(F, c))

\* What makes a Change incomplete.
Gaps(F, c) ==
    [declarationMissing |-> Claimed(F, "declared", c) = {},
     memberUnknown      |-> \E m \in Memberships(F, c) : m.rev \notin Known(F),
     noMember           |-> Members(F, c) = {},
     relationUnbound    |-> \E e \in Relations(F, c) :
                                ~EndContested(F, e) /\ ~Exact(F, e),
     relationOutside    |-> \E e \in Relations(F, c) :
                                /\ ~EndContested(F, e) /\ Exact(F, e)
                                /\ ~({e.succ, e.pred} \subseteq Members(F, c))]

Incomplete(F, c) ==
    LET g == Gaps(F, c)
    IN  \/ g.declarationMissing \/ g.memberUnknown \/ g.noMember
        \/ g.relationUnbound \/ g.relationOutside

RevisionConflict(F, c) ==
    \/ \E r \in Members(F, c) : Contested(F, r)
    \/ \E e \in Relations(F, c) : EndContested(F, e)

Topology(F, c) ==
    LET E == Supersedes(F, c)
        current == CurrentRevisions(F, c)
        replacedBy(r) == {e \in E : e[1] = r}
    IN  CASE Incomplete(F, c) -> "incomplete"
          [] ~Incomplete(F, c) /\ Cyclic(F, c) -> "cycle_conflicted"
          [] ~Incomplete(F, c) /\ Divergent(F, c) -> "replacement_divergent"
          [] OTHER ->
                IF E = {} THEN IF Cardinality(current) <= 1
                               THEN "initial" ELSE "parallel_current"
                ELSE IF Cardinality(current) # 1 THEN "mixed"
                ELSE IF \E r \in current : Cardinality(replacedBy(r)) > 1
                     THEN "consolidation" ELSE "replacement"

\* The assessments of a Revision, one per id: the one of the least event id.
Records(F, r) ==
    {a \in Of(F, "assessed") : a.rev = r /\
        ~\E b \in Of(F, "assessed") :
            b.rev = r /\ b.id = a.id /\ b.event < a.event}

HasOneAcceptingAssessment(F, r) ==
    LET standing == {a \in Records(F, r) : ~\E b \in Records(F, r) : a.id \in b.replaces}
    IN  \E a \in standing : standing = {a} /\ a.accepting

Qualified(F, c) == {r \in CurrentRevisions(F, c) : HasOneAcceptingAssessment(F, r)}

Responses(F, q) == {f \in Of(F, "responded") : f.request = q}

Operative(F, q, r) == \E f \in Of(F, "requested") : f.request = q /\ f.rev = r

\* The Revisions a request was carried open to, each by a port whose target
\* request is operative on the Revision the port names.
CarriedTo(F, q) ==
    {p.targetRev : p \in
        {x \in Of(F, "ported") : x.origin = q /\ Operative(F, x.target, x.targetRev)}}

\* operative_obligation_status: one response answers a request, two leave it
\* open and ambiguous, none leaves it open unless it was carried to exactly the
\* current Revisions.
Obligations(F, c) ==
    {f.request : f \in
        {g \in Of(F, "requested") :
            /\ g.rev \in Members(F, c)
            /\ LET answers == Responses(F, g.request)
               IN  \/ \E x, y \in answers : x # y
                   \/ answers = {} /\ CarriedTo(F, g.request) # CurrentRevisions(F, c)}}

Ambiguous(F, c) ==
    \E g \in Of(F, "requested") :
        /\ g.rev \in Members(F, c)
        /\ \E x, y \in Responses(F, g.request) : x # y

Lifecycle(F, c) ==
    IF Incomplete(F, c) THEN "incomplete"
    ELSE IF Cyclic(F, c) \/ Divergent(F, c) \/ RevisionConflict(F, c) THEN "conflicted"
    ELSE IF \/ CurrentRevisions(F, c) = {}
            \/ Qualified(F, c) # CurrentRevisions(F, c)
            \/ Obligations(F, c) # {}
         THEN "in_progress" ELSE "accepted"

View(F, c) ==
    [members     |-> Members(F, c),
     current     |-> CurrentRevisions(F, c),
     supersedes  |-> Supersedes(F, c),
     topology    |-> Topology(F, c),
     lifecycle   |-> Lifecycle(F, c),
     qualified   |-> Qualified(F, c),
     obligations |-> Obligations(F, c),
     diagnostics |-> <<Gaps(F, c), RevisionConflict(F, c), Ambiguous(F, c)>>]

-----------------------------------------------------------------------------
(* change_aware_supersession: the one replacement graph of the store.      *)

\* A cyclic Change is trusted all the same.
UsableUnlessCyclic(F, c) == ~Incomplete(F, c)

\* is_usable: an incomplete or cyclic Change says nothing reliable.
Usable(F, c) == ~Incomplete(F, c) /\ ~Cyclic(F, c)

\* A Revision some Change still holds current, or may.
CurrentSomewhere(F, r) ==
    \E c \in ChangeIds(F) :
        /\ r \in Members(F, c)
        /\ ~Usable(F, c) \/ r \in CurrentRevisions(F, c)

\* The edges every Change that holds the replaced Revision agrees to.
AdmittedEdges(F) ==
    {e \in UNION {Supersedes(F, c) : c \in {d \in ChangeIds(F) : Usable(F, d)}} :
        ~CurrentSomewhere(F, e[2])}

\* The proposals' own edges, used while the store holds no Change claim.
ProposedEdges(F) ==
    UNION {{<<f.rev, r>> : r \in f.supersedes} : f \in Of(F, "revision")}

ReplacementEdges(F) ==
    IF ChangeIds(F) = {} THEN ProposedEdges(F) ELSE AdmittedEdges(F)

\* SupersessionView::from_edges: heads, and the threads, which are the connected
\* components of the known Revisions.
Superseded(F) ==
    {r \in Known(F) : \E s \in Known(F) : <<s, r>> \in ReplacementEdges(F)}

Heads(F) == Known(F) \ Superseded(F)

Thread(F, r) ==
    LET E == {e \in ReplacementEdges(F) : {e[1], e[2]} \subseteq Known(F)}
    IN  Closure(E \cup {<<e[2], e[1]>> : e \in E}, Known(F), {r})
=============================================================================

----------------------------- MODULE ChangeIndex -----------------------------
(***************************************************************************)
(* The derived store's index of facts by Change, kept up to date as events *)
(* are applied in batches, and the read that uses it: `change show` selects*)
(* the facts correlated with one Change and folds only those, where the    *)
(* list folds every fact of the store.                                     *)
(*                                                                         *)
(* A fact is correlated with a Change directly (it names the Change, or    *)
(* withdraws a claim on it) or historically (it references a Revision that *)
(* some claim of the Change names). Claims, withdrawals and referencing    *)
(* facts arrive in any order, so each batch both inserts its own rows and  *)
(* refreshes rows of facts that arrived before it.                         *)
(***************************************************************************)
EXTENDS ChangeProjection

CONSTANTS
    Changes,    \* the Change ids a reader may ask for
    None,
    Histories,  \* each the facts of one store: those stored when its generation
                \* is built, and those recorded later
    MaxBatch    \* the most facts one delta applies

ASSUME BatchAssumption == MaxBatch \in Nat \ {0}

\* require_fact: a port is written only when its origin request was opened on the
\* Revision it names as its origin.
PortsNameTheirOrigin(F) ==
    \A p \in Of(F, "ported"), q \in Of(F, "requested") :
        p.origin = q.request => p.originRev = q.rev

\* A claim always names its Revisions.
ClaimsNameRevisions(F) ==
    /\ \A m \in Of(F, "joined") : m.rev # None
    /\ \A e \in Of(F, "related") : e.succ # None /\ e.pred # None

ASSUME HistoryAssumption ==
    \A h \in Histories : /\ PortsNameTheirOrigin(h.stored \cup h.recorded)
                         /\ ClaimsNameRevisions(h.stored \cup h.recorded)

VARIABLES
    history,    \* the store's facts, [stored, recorded]
    log,        \* the facts applied so far (semantic_change_fact)
    refs,       \* product_history_revision_reference
    corr,       \* product_history_change_correlation
    answer      \* what the last read returned, until the next delta

vars == <<history, log, refs, corr, answer>>

NoAnswer == [kind |-> "none"]

-----------------------------------------------------------------------------
(* ProductHistoryFact::from_event: the rows a fact brings by itself.       *)

Reference(f, source, role, r, hash, eligible) ==
    [fact |-> f, source |-> source, role |-> role, rev |-> r,
     hash |-> hash, eligible |-> eligible]

Candidate(f, source, r, eligible) ==
    Reference(f, source, "candidate", r, None, eligible)

\* The Revision a membership claim names, as a reference of the fact f.
MembershipReference(f, claim) == Candidate(f, "membership_claim", claim.rev, FALSE)

\* The two ends a relation claim names, as references of the fact f.
RelationEnds(f, claim) ==
    {Reference(f, "relation_successor", "direct", claim.succ, claim.succHash, FALSE),
     Reference(f, "relation_predecessor", "direct", claim.pred, claim.predHash, FALSE)}

References(f) ==
    CASE f.kind = "revision" ->
           {Reference(f, "proposal", "direct", f.rev, f.hash, TRUE)}
             \cup {Candidate(f, "supersedes", r, TRUE) : r \in f.supersedes}
      [] f.kind = "declared" ->
           IF f.root = None THEN {} ELSE {Candidate(f, "declaration_root", f.root, FALSE)}
      [] f.kind = "joined" -> {MembershipReference(f, f)}
      [] f.kind = "related" -> RelationEnds(f, f)
      [] f.kind \in {"assessed", "requested", "responded"} ->
           IF f.rev = None THEN {} ELSE {Candidate(f, "review_target", f.rev, TRUE)}
      [] f.kind = "ported" ->
           {Reference(f, "fact_port_origin", "direct", f.originRev, f.originHash, TRUE),
            Reference(f, "fact_port_target", "direct", f.targetRev, f.targetHash, TRUE)}
      [] OTHER -> {}

ReferencesIn(F) == UNION {References(f) : f \in F}

Row(f, c, role, source, id) ==
    [fact |-> f, change |-> c, role |-> role, source |-> source, id |-> id]

\* insert_direct_change_correlation: the Changes a fact names itself.
DirectRows(f) ==
    CASE f.kind = "declared" -> {Row(f, f.change, "direct", "declaration", f.claim)}
      [] f.kind = "joined" -> {Row(f, f.change, "direct", "membership_claim", f.claim)}
      [] f.kind = "related" -> {Row(f, f.change, "direct", "relation_claim", f.claim)}
      [] f.kind = "linked" ->
           {Row(f, c, "direct", "link_claim", f.claim) : c \in {f.left, f.right}}
      [] f.kind = "ported" ->
           IF f.context = None THEN {}
           ELSE {Row(f, f.context, "direct", "fact_port_context", f.port)}
      [] OTHER -> {}

DirectRowsIn(F) == UNION {DirectRows(f) : f \in F}

-----------------------------------------------------------------------------
(* The rows a fact gets from a claim that is another fact.                 *)

Claims(F, kinds) == {f.claim : f \in {g \in F : g.kind \in kinds}}

Asserted(F, kind, claims) == {m \in Of(F, kind) : m.claim \in claims}

Withdrawing(F, kind, m) == {w \in Of(F, kind) : w.claim = m.claim}

\* A withdrawal belongs to the Change of the claim it withdraws.
WithdrawalRows(F, withdrawal, claim, source, claims) ==
    UNION {{Row(w, m.change, "direct", source, m.claim) :
              w \in Withdrawing(F, withdrawal, m)} : m \in Asserted(F, claim, claims)}

MembershipWithdrawalReferences(F, claims) ==
    UNION {{MembershipReference(w, m) : w \in Withdrawing(F, "left", m)} :
              m \in Asserted(F, "joined", claims)}

RelationWithdrawalReferences(F, claims) ==
    UNION {UNION {RelationEnds(w, m) : w \in Withdrawing(F, "unrelated", m)} :
              m \in Asserted(F, "related", claims)}

\* The facts whose eligible references, among R, name a Revision of a claim.
MembershipHistory(F, R, claims) ==
    UNION {{Row(x.fact, m.change, "historical", "membership_claim", m.claim) :
              x \in {y \in R : y.eligible /\ y.rev = m.rev}} :
                m \in Asserted(F, "joined", claims)}

RelationHistory(F, R, claims) ==
    UNION {{Row(x.fact, m.change, "historical", "relation_claim", m.claim) :
              x \in {y \in R : y.eligible /\ y.rev \in {m.succ, m.pred}}} :
                m \in Asserted(F, "related", claims)}

\* refresh_candidate_revision_resolution: a candidate is exact when every
\* proposal of its Revision binds the same artifact.
Resolution(F, r) ==
    IF \E h \in Hashes(F, r) : Hashes(F, r) = {h}
    THEN CHOOSE h \in Hashes(F, r) : Hashes(F, r) = {h} ELSE None

Resolved(F, x) ==
    IF x.role = "candidate"
    THEN Reference(x.fact, x.source, x.role, x.rev, Resolution(F, x.rev), x.eligible)
    ELSE x

-----------------------------------------------------------------------------
(* insert_product_history_facts: one batch, applied in one transaction.    *)

\* Only a withdrawal refreshes: a claim that arrives after it is forgotten.
AffectedByWithdrawal(batch) == Claims(batch, {"left"})

\* The claims a batch asserts or withdraws: their rows are refreshed.
AffectedMemberships(batch) == Claims(batch, {"joined", "left"})

AffectedRelations(batch) == Claims(batch, {"related", "unrelated"})

\* The Revisions whose candidate references are resolved again.
TouchedRevisions(F, batch) ==
    Known(batch)
      \cup {x.rev : x \in {y \in ReferencesIn(batch) : y.role = "candidate"}}
      \cup {m.rev : m \in {n \in Of(F, "joined") : n.claim \in AffectedMemberships(batch)}}

RefreshedReferences(F, batch) ==
    LET mine == AffectedMemberships(batch)
        ours == AffectedRelations(batch)
        stale(x) == \/ x.fact.kind = "left" /\ x.fact.claim \in mine
                    \/ x.fact.kind = "unrelated" /\ x.fact.claim \in ours
        kept == {x \in refs \cup ReferencesIn(batch) : ~stale(x)}
                  \cup MembershipWithdrawalReferences(F, mine)
                  \cup RelationWithdrawalReferences(F, ours)
    IN  {IF x.rev \in TouchedRevisions(F, batch) THEN Resolved(F, x) ELSE x : x \in kept}

\* A new reference is correlated with the claims already there.
HistoricalRows(F, batch) ==
    MembershipHistory(F, ReferencesIn(batch), Claims(F, {"joined"}))
      \cup RelationHistory(F, ReferencesIn(batch), Claims(F, {"related"}))

RefreshedCorrelations(F, batch, R) ==
    LET mine == AffectedMemberships(batch)
        ours == AffectedRelations(batch)
        stale(x) ==
          \/ /\ x.source = "membership_claim" /\ x.id \in mine
             /\ x.role = "historical" \/ x.fact.kind = "left"
          \/ /\ x.source = "relation_claim" /\ x.id \in ours
             /\ x.role = "historical" \/ x.fact.kind = "unrelated"
    IN  {x \in corr \cup DirectRowsIn(batch) : ~stale(x)}
          \cup WithdrawalRows(F, "left", "joined", "membership_claim", mine)
          \cup WithdrawalRows(F, "unrelated", "related", "relation_claim", ours)
          \cup MembershipHistory(F, R, mine) \cup RelationHistory(F, R, ours)
          \cup HistoricalRows(F, batch)

ApplyDelta(batch) ==
    LET F == log \cup batch
        R == RefreshedReferences(F, batch)
    IN  /\ log' = F
        /\ refs' = R
        /\ corr' = RefreshedCorrelations(F, batch, R)
        /\ answer' = NoAnswer
        /\ UNCHANGED history

\* populate_bootstrap: a new generation is filled from the stored facts.
Populate ==
    /\ log = {} /\ history.stored # {}
    /\ ApplyDelta(history.stored)

\* catch_up_to_head: facts recorded since are applied, a bounded batch at a time.
CatchUp ==
    /\ history.stored \subseteq log
    /\ \E batch \in SUBSET (history.recorded \ log) :
          /\ batch # {} /\ Cardinality(batch) <= MaxBatch
          /\ ApplyDelta(batch)

-----------------------------------------------------------------------------
(* The seek: change_document_facts_for_change, prepare_narrowed_facade.    *)

Correlated(c) == {x.fact : x \in {y \in corr : y.change = c}}

\* The responses are taken only when they name a Revision of the Change.
SelectedUnclosed(c) == Correlated(c)

\* The facts correlated with c and every response to a request among them.
Selected(c) ==
    LET S == Correlated(c)
    IN  S \cup {f \in Of(log, "responded") :
                  \E q \in Of(S, "requested") : q.request = f.request}

\* validate_narrowed_seek_scope: a seek that folds another Change, or selects
\* rows that do not show the Change it is for, fails closed; one that selects no
\* row is a lookup miss.
SeekOutcome(S, c) ==
    IF ChangeIds(S) \ {c} # {} THEN "foreign"
    ELSE IF c \in ChangeIds(S) THEN "ready"
    ELSE IF S = {} THEN "unavailable" ELSE "invalid"

\* `change show` of one Change, over one snapshot of the tables.
ShowChange(c) ==
    /\ answer = NoAnswer
    /\ answer' = [kind |-> "change", change |-> c,
                  outcome |-> SeekOutcome(Selected(c), c), view |-> View(Selected(c), c)]
    /\ UNCHANGED <<history, log, refs, corr>>

\* The threads and their heads, from the fold over every fact.
ReadThreads ==
    /\ answer = NoAnswer /\ log # {}
    /\ answer' = [kind |-> "threads", heads |-> Heads(log),
                  threads |-> {Thread(log, r) : r \in Known(log)}]
    /\ UNCHANGED <<history, log, refs, corr>>

Init ==
    /\ history \in Histories
    /\ log = {} /\ refs = {} /\ corr = {}
    /\ answer = NoAnswer

Next ==
    \/ Populate \/ CatchUp
    \/ \E c \in Changes : ShowChange(c)
    \/ ReadThreads

Spec == Init /\ [][Next]_vars

-----------------------------------------------------------------------------
(* Properties.                                                             *)

\* What the two tables should hold for the facts F, whatever their order.
ReferencesOf(F) ==
    {Resolved(F, x) : x \in
        ReferencesIn(F)
          \cup MembershipWithdrawalReferences(F, Claims(F, {"left"}))
          \cup RelationWithdrawalReferences(F, Claims(F, {"unrelated"}))}

CorrelationOf(F) ==
    DirectRowsIn(F)
      \cup WithdrawalRows(F, "left", "joined", "membership_claim", Claims(F, {"joined"}))
      \cup WithdrawalRows(F, "unrelated", "related", "relation_claim", Claims(F, {"related"}))
      \cup MembershipHistory(F, ReferencesIn(F), Claims(F, {"joined"}))
      \cup RelationHistory(F, ReferencesIn(F), Claims(F, {"related"}))

\* The index depends on the facts only, never on the order or the batches in
\* which they were applied: a withdrawal that arrived before its claim, a fact
\* about a Revision that joined a Change later, and a candidate reference whose
\* proposal arrived after it (or was contradicted by a second one) all have the
\* rows a rebuild from nothing would give them.
IndexIsExact == corr = CorrelationOf(log) /\ refs = ReferencesOf(log)

ClaimedRevisions(c) ==
    {m.rev : m \in Claimed(log, "joined", c)}
      \cup (UNION {{e.succ, e.pred} : e \in Claimed(log, "related", c)})

\* The requests that were carried open to a Revision no claim of c names: the
\* request that carries them there is not among the rows of c.
CarriedAway(c) ==
    {q \in {f.request : f \in Of(log, "requested")} :
        ~(CarriedTo(log, q) \subseteq ClaimedRevisions(c))}

\* `change show` and the list agree on every Change: the narrowed fold never
\* folds another Change, and its members, heads, topology, accepted Revisions
\* and diagnostics are those of the fold over the whole store. It never reports
\* an obligation the full fold does not, and it misses only those that
\* CarriedAway names.
SeekAgrees ==
    answer.kind = "change" =>
        LET c == answer.change
            mine == answer.view
            full == View(log, c)
        IN  IF c \notin ChangeIds(log) THEN answer.outcome \in {"unavailable", "invalid"}
            ELSE /\ answer.outcome = "ready"
                 /\ mine.members = full.members /\ mine.current = full.current
                 /\ mine.supersedes = full.supersedes /\ mine.topology = full.topology
                 /\ mine.qualified = full.qualified /\ mine.diagnostics = full.diagnostics
                 /\ mine.obligations \subseteq full.obligations
                 /\ full.obligations \ mine.obligations \subseteq CarriedAway(c)
                 /\ mine.obligations = full.obligations => mine.lifecycle = full.lifecycle

\* Once a store has a Change claim, every thread has a head: although the
\* histories of two Changes can cross and make a loop in the union of their
\* graphs, a Revision is superseded only when every Change that holds it has
\* moved on, so leaving out the cycle guard never leaves a thread with no
\* Revision to judge.
EveryThreadHasHead ==
    answer.kind = "threads" /\ ChangeIds(log) # {} =>
        \A t \in answer.threads : t \cap answer.heads # {}
=============================================================================

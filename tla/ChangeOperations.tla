-------------------------- MODULE ChangeOperations --------------------------
(***************************************************************************)
(* The operations that write Change claims: `change create`, `join`,       *)
(* `relate`, `link` and their withdrawals, and the captures that found or  *)
(* advance a Change.  Each call has an operation id; it retains a plan (a  *)
(* capture first a checkpoint) under that id, compares the graph with the  *)
(* one it was planned on, and appends the plan's events one by one.  A     *)
(* call may be refused or killed anywhere and repeated.                    *)
(* src/src/session/workflow/change.rs,                                     *)
(* src/src/session/workflow/{capture,review_cursor}.rs.                    *)
(*                                                                         *)
(* The store is at L2 and has native records only, so a Revision has one   *)
(* artifact.  Appending one event, and reading all of them, is one step.   *)
(* Plan and checkpoint are files made with create_new and then written.    *)
(* Looking for a plan and making one is one step: what a process could see *)
(* in between only makes it fail.                                          *)
(***************************************************************************)
EXTENDS ChangeProjection

CONSTANTS
    Scenarios,  \* each [log, commands]: what is stored, and what its users call
    Procs,      \* processes
    Changes,
    Revs,       \* Revisions a capture may find in the worktree
    None

\* A command is [op, kind] with the inputs of its kind: change, rev, succ, pred,
\* claim, other, also.  It stands for the request hash.
Commands == UNION {s.commands : s \in Scenarios}
Ops == {m.op : m \in Commands}

Advances == {"replace", "parallel"}
Captures == Advances \cup {"initial"}
Kinds == Captures \cup {"create", "join", "leave", "relate", "unrelate", "link"}

\* The operation ids are ones that no stored event used.
ASSUME ScenarioAssumption ==
    \A m \in Commands :
        /\ m.kind \in Kinds
        /\ m.op # None
        /\ \A s \in Scenarios : \A f \in s.log : f.event.op # m.op

VARIABLES
    commands,   \* the commands of this store's users
    log,        \* the facts of the recorded events
    plan,       \* each operation's plan file
    checkpoint, \* each operation's capture checkpoint
    cursor,     \* the review cursor each command is called with
    source,     \* the Revision a capture of the worktree would find
    at,         \* each process: the step of its call,
    cmd,        \* the command it was called with,
    basis,      \* the graph, predecessors and members it goes by,
    rev,        \* the Revision its capture found,
    todo,       \* the events it has still to append
    overtaken,  \* history: calls during which another one appended
    captured,   \* history: <<operation, Revision>> of every proposal made
    done        \* history: operations answered complete

inputs == <<commands, cursor, source>>
files == <<plan, checkpoint>>
call == <<at, cmd, basis, rev, todo>>
history == <<overtaken, captured, done>>
vars == <<inputs, log, files, call, history>>

\* A plan or checkpoint file: none, one whose writer died before it was written,
\* or a whole one.
Absent == [state |-> "absent"]
Torn == [state |-> "torn"]

NoBasis == [pre |-> {}, preds |-> {}, held |-> {}]

-----------------------------------------------------------------------------
(* Events: the key is the operation id and the step.                       *)

Key(o, step, r) == [op |-> o, step |-> step, rev |-> r]

Declared(o, c) ==
    LET k == Key(o, "declaration", None)
    IN  [kind |-> "declared", event |-> k, claim |-> k, change |-> c, root |-> None]
Joined(o, c, r) ==
    LET k == Key(o, "membership", None)
    IN  [kind |-> "joined", event |-> k, claim |-> k, change |-> c, rev |-> r]
Related(o, c, s, p) ==
    LET k == Key(o, "relation", p)
    IN  [kind |-> "related", event |-> k, claim |-> k, change |-> c,
         succ |-> s, succHash |-> s, pred |-> p, predHash |-> p]
Withdrawal(o, kind, claim) ==
    [kind |-> kind, event |-> Key(o, kind, None), claim |-> claim]
Linked(o, c, d) ==
    LET k == Key(o, "link", None)
    IN  [kind |-> "linked", event |-> k, claim |-> k, left |-> c, right |-> d]
Proposal(r) ==
    [kind |-> "revision", event |-> Key(None, "proposal", r), rev |-> r, hash |-> r,
     supersedes |-> {}]

\* What the plan of a command appends; a capture has found the Revision r.
Events(m, r, preds) ==
    CASE m.kind = "create" -> {Declared(m.op, m.change)}
      [] m.kind = "join" -> {Joined(m.op, m.change, m.rev)}
      [] m.kind = "leave" -> {Withdrawal(m.op, "left", m.claim)}
      [] m.kind = "relate" -> {Related(m.op, m.change, m.succ, m.pred)}
      [] m.kind = "unrelate" -> {Withdrawal(m.op, "unrelated", m.claim)}
      [] m.kind = "link" -> {Linked(m.op, m.change, m.other)}
      [] m.kind = "initial" -> {Declared(m.op, m.change), Joined(m.op, m.change, r)}
      [] OTHER -> {Joined(m.op, m.change, r)}
                    \cup {Related(m.op, m.change, r, p) : p \in preds}

\* The order of a plan's events.
Rank(e) == IF e.kind = "declared" THEN 1 ELSE IF e.kind = "joined" THEN 2 ELSE 3

-----------------------------------------------------------------------------
(* What a call reads: ready_for_mutation and the checks on it.             *)

\* change_graph_token.
Token(F, c) ==
    [members |-> Members(F, c), supersedes |-> Supersedes(F, c),
     current |-> CurrentRevisions(F, c), gaps |-> Gaps(F, c),
     conflict |-> RevisionConflict(F, c)]

\* graph_precondition.
Precondition(F, c) == [change |-> c, token |-> Token(F, c)]

\* change_for_single_state_mutation.
SingleState(F, c) ==
    /\ c \in ChangeIds(F)
    /\ ~Incomplete(F, c) /\ ~RevisionConflict(F, c)
    /\ ~Cyclic(F, c) /\ ~Divergent(F, c)

\* require_exact_revision.
ExactRevision(F, r) == Hashes(F, r) = {r}

\* The claim a withdrawal names has to be active.
ActiveClaims(F, kind, withdrawal) ==
    {f \in Of(F, kind) : ~Withdrawn(F, withdrawal, f.claim)}

\* The Changes whose graph an operation is planned on, once it is admitted.
Guarded(m, F) ==
    CASE m.kind \in {"join", "relate"} -> {m.change}
      [] m.kind = "link" -> {m.change, m.other}
      [] m.kind = "leave" -> {f.change : f \in {g \in Of(F, "joined") : g.claim = m.claim}}
      [] m.kind = "unrelate" -> {f.change : f \in {g \in Of(F, "related") : g.claim = m.claim}}
      [] OTHER -> {}

\* join_revision_to_change, assert_change_revision_relation, link_changes and the
\* withdrawals check the present state before they look for a plan.
Admits(m, F) ==
    /\ Guarded(m, F) \subseteq ChangeIds(F)
    /\ m.kind = "join" => ExactRevision(F, m.rev)
    /\ m.kind = "leave" => \E f \in ActiveClaims(F, "joined", "left") : f.claim = m.claim
    /\ m.kind = "unrelate" =>
          \E f \in ActiveClaims(F, "related", "unrelated") : f.claim = m.claim
    /\ m.kind = "relate" =>
          /\ SingleState(F, m.change)
          /\ ExactRevision(F, m.succ) /\ ExactRevision(F, m.pred)
          /\ {m.succ, m.pred} \subseteq Members(F, m.change)
          /\ m.succ \in CurrentRevisions(F, m.change)
          /\ m.succ # m.pred

\* select_review_cursor: the user picks a current Revision of a Change whose state
\* is resolved, and the command is called with that cursor from then on.
Select(m) ==
    /\ m \in commands /\ m.kind \in Advances /\ cursor[m] = None
    /\ SingleState(log, m.change)
    /\ \E r \in CurrentRevisions(log, m.change) :
          cursor' = [cursor EXCEPT ![m] = [rev |-> r, token |-> Token(log, m.change)]]
    /\ UNCHANGED <<commands, source, log, files, call, history>>

-----------------------------------------------------------------------------
(* Calls.                                                                  *)

Goto(p, step) == at' = [at EXCEPT ![p] = step]

\* The call is over, and what it held in memory is gone.
End(p) ==
    /\ Goto(p, "idle")
    /\ cmd' = [cmd EXCEPT ![p] = None]
    /\ basis' = [basis EXCEPT ![p] = NoBasis]
    /\ rev' = [rev EXCEPT ![p] = None]
    /\ todo' = [todo EXCEPT ![p] = {}]
    /\ overtaken' = overtaken \ {p}

Start(p, m) ==
    /\ at[p] = "idle" /\ m \in commands
    /\ m.kind \in Advances => cursor[m] # None
    /\ Goto(p, IF m.kind \in Captures THEN "lookup"
               ELSE IF m.kind = "create" THEN "plan" ELSE "ready")
    /\ cmd' = [cmd EXCEPT ![p] = m]
    /\ UNCHANGED <<inputs, log, files, basis, rev, todo, history>>

Ready(p) ==
    LET m == cmd[p] IN
    /\ at[p] = "ready" /\ m.kind \notin Captures
    /\ Admits(m, log)
    /\ Goto(p, "plan")
    /\ basis' = [basis EXCEPT ![p] =
           [pre |-> {Precondition(log, c) : c \in Guarded(m, log)}, preds |-> {}, held |-> {}]]
    /\ UNCHANGED <<inputs, log, files, cmd, rev, todo, history>>

\* A capture looks for its plan before anything else.
LookUp(p) ==
    LET found == plan[cmd[p].op] IN
    /\ at[p] = "lookup"
    /\ \/ found.state = "absent" /\ Goto(p, "ready")
       \/ found.state = "whole" /\ found.req = cmd[p] /\ Goto(p, "validate")
    /\ UNCHANGED <<inputs, log, files, cmd, basis, rev, todo, history>>

-----------------------------------------------------------------------------
(* capture_change_revision, up to its plan.                                *)

\* capture_transition_inputs.
Predecessors(m) == IF m.kind = "replace" THEN {cursor[m].rev} \cup m.also ELSE {}

TransitionAdmits(m) ==
    m.kind \in Advances =>
        /\ SingleState(log, m.change)
        /\ cursor[m].token = Token(log, m.change)
        /\ \A r \in Predecessors(m) :
              ExactRevision(log, r) /\ r \in CurrentRevisions(log, m.change)

Transition(m) ==
    [pre |-> IF m.kind = "initial" THEN {} ELSE {Precondition(log, m.change)},
     preds |-> Predecessors(m), held |-> Members(log, m.change)]

\* From the checkpoint when there is one: the graph is compared for no planned
\* event at all, so the comparison always passes.
CaptureReady(p) ==
    LET m == cmd[p]
        made == checkpoint[m.op]
    IN
    /\ at[p] = "ready" /\ m.kind \in Captures
    /\ \/ /\ made.state = "absent" /\ TransitionAdmits(m)
          /\ basis' = [basis EXCEPT ![p] = Transition(m)]
       \/ /\ made.state = "whole" /\ made.req = m
          /\ basis' = [basis EXCEPT ![p] = [pre |-> made.pre, preds |-> made.preds,
                                            held |-> Members(log, m.change)]]
    /\ Goto(p, "prepare")
    /\ UNCHANGED <<inputs, log, files, cmd, rev, todo, history>>

Prepare(p) ==
    /\ at[p] = "prepare"
    /\ Goto(p, "checkpoint")
    /\ rev' = [rev EXCEPT ![p] = source]
    /\ UNCHANGED <<inputs, log, files, cmd, basis, todo, history>>

CheckpointOf(p) ==
    [state |-> "whole", req |-> cmd[p], rev |-> rev[p],
     pre |-> basis[p].pre, preds |-> basis[p].preds]

CheckpointCreate(p) ==
    /\ at[p] = "checkpoint" /\ checkpoint[cmd[p].op].state = "absent"
    /\ checkpoint' = [checkpoint EXCEPT ![cmd[p].op] = Torn]
    /\ Goto(p, "checkpointing")
    /\ UNCHANGED <<inputs, log, plan, cmd, basis, rev, todo, history>>

CheckpointWrite(p) ==
    /\ at[p] = "checkpointing"
    /\ checkpoint' = [checkpoint EXCEPT ![cmd[p].op] = CheckpointOf(p)]
    /\ Goto(p, "recheck")
    /\ UNCHANGED <<inputs, log, plan, cmd, basis, rev, todo, history>>

\* Mutant: a checkpoint of the same request will do.
CheckpointFindsRequest(p) ==
    LET found == checkpoint[cmd[p].op] IN
    /\ at[p] = "checkpoint"
    /\ found.state = "whole" /\ found.req = cmd[p]
    /\ Goto(p, "recheck")
    /\ UNCHANGED <<inputs, log, files, cmd, basis, rev, todo, history>>

\* A checkpoint that is there has to be the same one.
CheckpointFinds(p) ==
    /\ at[p] = "checkpoint"
    /\ checkpoint[cmd[p].op] = CheckpointOf(p)
    /\ Goto(p, "recheck")
    /\ UNCHANGED <<inputs, log, files, cmd, basis, rev, todo, history>>

\* The worktree is read again before anything is appended.
Recheck(p) ==
    /\ at[p] = "recheck" /\ source = rev[p]
    /\ Goto(p, "propose")
    /\ UNCHANGED <<inputs, log, files, cmd, basis, rev, todo, history>>

\* The calls under way that see the event e appear.
Overtake(p, e) ==
    IF e \in log THEN overtaken ELSE overtaken \cup {q \in Procs \ {p} : at[q] # "idle"}

\* The Revision is proposed unless it is there.
Propose(p) ==
    /\ at[p] = "propose"
    /\ log' = log \cup {Proposal(rev[p])}
    /\ overtaken' = Overtake(p, Proposal(rev[p]))
    /\ captured' = captured \cup {<<cmd[p].op, rev[p]>>}
    /\ Goto(p, "proposed")
    /\ UNCHANGED <<inputs, files, cmd, basis, rev, todo, done>>

\* A Revision that the Change held when the call began, or that is to be
\* replaced, is refused: such a call can only quit.
Advance(p) ==
    /\ at[p] = "proposed"
    /\ rev[p] \notin basis[p].held \cup basis[p].preds
    /\ Goto(p, "plan")
    /\ UNCHANGED <<inputs, log, files, cmd, basis, rev, todo, history>>

-----------------------------------------------------------------------------
(* The plan and its execution.                                             *)

PlanOf(p) ==
    [state |-> "whole", req |-> cmd[p], rev |-> rev[p], pre |-> basis[p].pre,
     events |-> Events(cmd[p], rev[p], basis[p].preds)]

\* Mutant: the events are appended before the plan is written.
PlanCreateUnwritten(p) ==
    /\ at[p] = "plan" /\ plan[cmd[p].op].state = "absent"
    /\ plan' = [plan EXCEPT ![cmd[p].op] = Torn]
    /\ Goto(p, "append")
    /\ todo' = [todo EXCEPT ![p] = PlanOf(p).events]
    /\ UNCHANGED <<inputs, log, checkpoint, cmd, basis, rev, history>>

PlanCreate(p) ==
    /\ at[p] = "plan" /\ plan[cmd[p].op].state = "absent"
    /\ plan' = [plan EXCEPT ![cmd[p].op] = Torn]
    /\ Goto(p, "planning")
    /\ UNCHANGED <<inputs, log, checkpoint, cmd, basis, rev, todo, history>>

PlanWrite(p) ==
    /\ at[p] = "planning"
    /\ plan' = [plan EXCEPT ![cmd[p].op] = PlanOf(p)]
    /\ Goto(p, "validate")
    /\ UNCHANGED <<inputs, log, checkpoint, cmd, basis, rev, todo, history>>

\* A retained plan of the same request is used as it is; a capture has already
\* looked, and goes on only when the plan made meanwhile is its own.
PlanFinds(p) ==
    LET found == plan[cmd[p].op] IN
    /\ at[p] = "plan"
    /\ found.state = "whole" /\ found.req = cmd[p]
    /\ cmd[p].kind \in Captures => found = PlanOf(p)
    /\ Goto(p, "validate")
    /\ UNCHANGED <<inputs, log, files, cmd, basis, rev, todo, history>>

\* The events of a plan are known by their keys.
Recorded(F, e) == \E f \in F : f.event = e.event
Baseline(F, E) == {f \in F : ~\E e \in E : e.event = f.event}

Unchanged(F, x) == x.change \in ChangeIds(F) /\ Token(F, x.change) = x.token

\* Mutant: one event of the plan that is there vouches for the others.
PreconditionsHoldForSome(F, pl) ==
    \/ pl.pre = {}
    \/ \E e \in pl.events : Recorded(F, e)
    \/ \A x \in pl.pre : Unchanged(Baseline(F, pl.events), x)

\* validate_graph_precondition_values: every event of the plan is there, or the
\* graph without them is the one the operation was planned on.
PreconditionsHold(F, pl) ==
    \/ pl.pre = {}
    \/ \A e \in pl.events : Recorded(F, e)
    \/ \A x \in pl.pre : Unchanged(Baseline(F, pl.events), x)

Validate(p) ==
    LET retained == plan[cmd[p].op] IN
    /\ at[p] = "validate"
    /\ PreconditionsHold(log, retained)
    /\ Goto(p, "append")
    /\ todo' = [todo EXCEPT ![p] = retained.events]
    /\ UNCHANGED <<inputs, log, files, cmd, basis, rev, history>>

\* record_change_event_once for one event after the other.
Append(p) ==
    /\ at[p] = "append"
    /\ \E e \in todo[p] :
          /\ \A f \in todo[p] : Rank(e) <= Rank(f)
          /\ \A f \in log : f.event = e.event => f = e
          /\ log' = log \cup {e}
          /\ overtaken' = Overtake(p, e)
          /\ todo' = [todo EXCEPT ![p] = @ \ {e}]
    /\ UNCHANGED <<inputs, files, at, cmd, basis, rev, captured, done>>

Answer(p) ==
    /\ at[p] = "append" /\ todo[p] = {}
    /\ End(p)
    /\ done' = done \cup {cmd[p].op}
    /\ UNCHANGED <<inputs, log, files, captured>>

\* The call is refused, fails or is killed, at whatever step; files stay.
Quit(p) ==
    /\ at[p] # "idle"
    /\ End(p)
    /\ UNCHANGED <<inputs, log, files, captured, done>>

\* The worktree is edited.
Edit ==
    /\ source' \in Revs
    /\ UNCHANGED <<commands, cursor, log, files, call, history>>

-----------------------------------------------------------------------------
Init ==
    /\ \E s \in Scenarios : commands = s.commands /\ log = s.log
    /\ cursor = [m \in Commands |-> None]
    /\ source \in Revs
    /\ plan = [o \in Ops |-> Absent]
    /\ checkpoint = [o \in Ops |-> Absent]
    /\ at = [p \in Procs |-> "idle"]
    /\ cmd = [p \in Procs |-> None]
    /\ basis = [p \in Procs |-> NoBasis]
    /\ rev = [p \in Procs |-> None]
    /\ todo = [p \in Procs |-> {}]
    /\ overtaken = {} /\ captured = {} /\ done = {}

CaptureStep(p) ==
    \/ LookUp(p) \/ CaptureReady(p) \/ Prepare(p)
    \/ CheckpointCreate(p) \/ CheckpointWrite(p) \/ CheckpointFinds(p)
    \/ Recheck(p) \/ Propose(p) \/ Advance(p)

PlanStep(p) ==
    \/ Ready(p) \/ PlanCreate(p) \/ PlanWrite(p) \/ PlanFinds(p)
    \/ Validate(p) \/ Append(p) \/ Answer(p)

Next ==
    \/ \E m \in Commands : Select(m)
    \/ \E p \in Procs, m \in Commands : Start(p, m)
    \/ \E p \in Procs : CaptureStep(p) \/ PlanStep(p) \/ Quit(p)
    \/ Edit

Spec == Init /\ [][Next]_vars

-----------------------------------------------------------------------------
(* Properties.                                                             *)

\* "Retrying the retained operation never silently adopts a different source
\* snapshot": however often a capture is repeated, by however many processes at
\* once and while the worktree is edited, one operation proposes one Revision,
\* and what it joins to its Change is that Revision.
OneSnapshotPerOperation ==
    /\ \A x, y \in captured : x[1] = y[1] => x[2] = y[2]
    /\ \A o \in Ops : plan[o].state = "whole" /\ plan[o].req.kind \in Captures =>
          \A f \in Of(log, "joined") : f.event.op = o => <<o, f.rev>> \in captured

\* What an operation has recorded, in full or in part, is what its retained plan
\* says, so that a repeated call can only complete it; and an operation that was
\* answered complete is in the log to the last event.
PlanGoverns ==
    \A o \in Ops :
        LET mine == {f \in log : f.event.op = o}
            retained == plan[o].state = "whole"
        IN  /\ mine # {} => retained
            /\ retained => mine \subseteq plan[o].events
            /\ o \in done => retained /\ plan[o].events \subseteq log

ActiveRelations(F, c) == {<<e.succ, e.pred>> : e \in Relations(F, c)}

\* A plan for a Revision that the Change held when the operation was planned.
Recaptures(pl) == \E x \in pl.pre : pl.rev \in x.token.members

\* The checks before the append keep the replacement graph free of cycles: one
\* arises only when another call appended while this one was under way, or when
\* a capture is retried from a checkpoint whose Revision was already a member.
CyclesNeedOvertaking ==
    [][\A c \in Changes :
          HasCycle(ActiveRelations(log', c), Revs)
          /\ ~HasCycle(ActiveRelations(log, c), Revs) =>
             \E p \in Procs : /\ at[p] = "append" /\ todo'[p] # todo[p]
                              /\ p \in overtaken \/ Recaptures(plan[cmd[p].op])]_vars
=============================================================================

------------------------ MODULE ChangeOperationsProofs ------------------------
(***************************************************************************)
(* Proofs about ChangeOperations, for any stores, commands, processes and  *)
(* Revisions: one operation captures one snapshot, what it records is what *)
(* its retained plan says, and the graph checks keep the replacement graph *)
(* free of cycles unless a call is overtaken.                              *)
(***************************************************************************)
EXTENDS ChangeOperations, TLAPS

-----------------------------------------------------------------------------
(* The inductive invariant.                                                *)

CaptureOnly == {"lookup", "prepare", "checkpoint", "checkpointing", "recheck",
                "propose", "proposed"}

\* The steps that go by the basis.
Based == {"prepare", "checkpoint", "checkpointing", "recheck", "propose", "proposed",
          "plan", "planning"}

\* A graph in which every active relation is one between members.
Clean(token) ==
    ~token.gaps.relationUnbound /\ ~token.gaps.relationOutside /\ ~token.conflict

\* What the checks on the present state leave behind in the preconditions.
Sound(m, pre) ==
    m.kind \in Advances \cup {"relate"} =>
        /\ pre # {}
        /\ \A x \in pre :
              /\ x.change = m.change
              /\ Clean(x.token)
              /\ m.kind = "relate" => m.succ \in x.token.current /\ m.succ # m.pred

Checkpointed(p) ==
    \/ at[p] \in {"recheck", "propose", "proposed"}
    \/ at[p] \in {"plan", "planning"} /\ cmd[p].kind \in Captures

Proposed(p) == Checkpointed(p) /\ at[p] \notin {"recheck", "propose"}

Domains ==
    /\ DOMAIN plan = Ops /\ DOMAIN checkpoint = Ops
    /\ DOMAIN at = Procs /\ DOMAIN cmd = Procs /\ DOMAIN basis = Procs
    /\ DOMAIN rev = Procs /\ DOMAIN todo = Procs
    /\ commands \subseteq Commands

CallBased(p) ==
    /\ at[p] # "idle" => cmd[p] \in Commands
    /\ at[p] \in CaptureOnly => cmd[p].kind \in Captures
    /\ at[p] \in Based => Sound(cmd[p], basis[p].pre)
    /\ at[p] \in {"plan", "planning"} /\ cmd[p].kind \in Advances =>
          rev[p] \notin basis[p].preds

CallFiles(p) ==
    /\ at[p] = "checkpointing" => checkpoint[cmd[p].op].state = "torn"
    /\ Checkpointed(p) => checkpoint[cmd[p].op] = CheckpointOf(p)
    /\ Proposed(p) => <<cmd[p].op, rev[p]>> \in captured
    /\ at[p] = "planning" => plan[cmd[p].op].state = "torn"
    /\ at[p] \in {"validate", "append"} =>
          plan[cmd[p].op].state = "whole" /\ plan[cmd[p].op].req = cmd[p]

CallLog(p) ==
    at[p] = "append" =>
        /\ todo[p] \subseteq plan[cmd[p].op].events
        /\ plan[cmd[p].op].events \ todo[p] \subseteq log
        /\ p \notin overtaken => PreconditionsHold(log, plan[cmd[p].op])

\* One process at a time writes a file.
Alone(p, q) ==
    p # q /\ at[p] = at[q] /\ at[p] \in {"checkpointing", "planning"} =>
        cmd[p].op # cmd[q].op

\* The relations of a capture's plan do not name its own Revision as replaced.
PlanShape(pl) ==
    \E preds : /\ pl.events = Events(pl.req, pl.rev, preds)
               /\ pl.req.kind \in Advances => pl.rev \notin preds

PlanOK(o) ==
    plan[o].state = "whole" =>
        /\ plan[o].req \in Commands /\ plan[o].req.op = o
        /\ Sound(plan[o].req, plan[o].pre)
        /\ PlanShape(plan[o])
        /\ plan[o].req.kind \in Captures => <<o, plan[o].rev>> \in captured

CheckpointOK(o) ==
    checkpoint[o].state = "whole" =>
        /\ checkpoint[o].req.op = o
        /\ Sound(checkpoint[o].req, checkpoint[o].pre)

LogOK ==
    \A f \in log : f.event.op \in Ops =>
        plan[f.event.op].state = "whole" /\ f \in plan[f.event.op].events

HistoryOK ==
    /\ \A x \in captured : /\ x[1] \in Ops
                           /\ checkpoint[x[1]].state = "whole"
                           /\ checkpoint[x[1]].rev = x[2]
    /\ \A o \in done : /\ o \in Ops
                       /\ plan[o].state = "whole"
                       /\ plan[o].events \subseteq log

IInv ==
    /\ Domains
    /\ \A p \in Procs : CallBased(p)
    /\ \A p \in Procs : CallFiles(p)
    /\ \A p \in Procs : CallLog(p)
    /\ \A p, q \in Procs : Alone(p, q)
    /\ \A o \in Ops : PlanOK(o)
    /\ \A o \in Ops : CheckpointOK(o)
    /\ LogOK
    /\ HistoryOK

-----------------------------------------------------------------------------
(* Plans and their events.                                                 *)

\* The events of a plan carry its operation id and have keys of their own.
LEMMA EventKeys ==
    ASSUME NEW m, NEW r, NEW preds
    PROVE  /\ \A e \in Events(m, r, preds) : e.event.op = m.op
           /\ \A e, f \in Events(m, r, preds) : e.event = f.event => e = f
BY DEF Events, Declared, Joined, Related, Withdrawal, Linked, Key

\* What a capture's plan joins to its Change is the Revision it captured.
LEMMA JoinedRevision ==
    ASSUME NEW m, NEW r, NEW preds, m.kind \in Captures,
           NEW e \in Events(m, r, preds), e.kind = "joined"
    PROVE  e.rev = r
BY DEF Events, Declared, Joined, Related, Withdrawal, Linked, Key, Captures, Advances

\* Only relations and advancing captures plan relations.
LEMMA PlannedRelation ==
    ASSUME NEW m, NEW r, NEW preds, m.kind \in Kinds,
           NEW e \in Events(m, r, preds), e.kind = "related"
    PROVE  /\ m.kind \in Advances \cup {"relate"}
           /\ e.change = m.change
           /\ m.kind = "relate" => e.succ = m.succ /\ e.pred = m.pred
           /\ m.kind \in Advances => e.succ = r /\ e.pred \in preds
<1> USE DEF Declared, Joined, Related, Withdrawal, Linked, Key, Captures, Advances, Kinds
<1>1. CASE m.kind \in Advances
  BY <1>1 DEF Events
<1>2. CASE m.kind = "relate"
  BY <1>2 DEF Events
<1>3. CASE m.kind \notin Advances \cup {"relate"}
  BY <1>3 DEF Events
<1> QED BY <1>1, <1>2, <1>3

-----------------------------------------------------------------------------
(* Preservation: what a step leaves alone.                                 *)

\* q is at the same point of the same call.
Same(q) ==
    /\ at'[q] = at[q] /\ cmd'[q] = cmd[q] /\ basis'[q] = basis[q]
    /\ rev'[q] = rev[q] /\ todo'[q] = todo[q]

\* Nothing is stored.
Quiet == UNCHANGED <<log, files, captured, done>>

LEMMA StoredKept ==
    ASSUME IInv, Quiet
    PROVE  /\ \A o \in Ops : PlanOK(o)'
           /\ \A o \in Ops : CheckpointOK(o)'
           /\ LogOK'
           /\ HistoryOK'
<1>1. \A o \in Ops : PlanOK(o)'
  BY DEF IInv, Quiet, files, PlanOK
<1>2. \A o \in Ops : CheckpointOK(o)'
  BY DEF IInv, Quiet, files, CheckpointOK
<1>3. LogOK'
  BY DEF IInv, Quiet, files, LogOK
<1>4. HistoryOK'
  BY DEF IInv, Quiet, files, HistoryOK
<1> QED BY <1>1, <1>2, <1>3, <1>4

LEMMA CallKept ==
    ASSUME IInv, NEW q \in Procs, Same(q),
           UNCHANGED <<log, files, captured>>, q \in overtaken => q \in overtaken'
    PROVE  CallBased(q)' /\ CallFiles(q)' /\ CallLog(q)'
<1>1. CallBased(q) /\ CallFiles(q) /\ CallLog(q)
  BY DEF IInv
<1>2. CallBased(q)'
  BY <1>1 DEF CallBased, Same
<1>3. CallFiles(q)'
  BY <1>1 DEF CallFiles, Same, files, Checkpointed, Proposed, CheckpointOf
<1>4. CallLog(q)'
  BY <1>1 DEF CallLog, Same, files
<1> QED BY <1>2, <1>3, <1>4

\* A step of p that stores nothing and starts no file: what is left to show is
\* that p's own call is in order.
LEMMA QuietStep ==
    ASSUME IInv, Quiet, Domains', NEW p \in Procs,
           \A q \in Procs \ {p} : Same(q) /\ (q \in overtaken => q \in overtaken'),
           at'[p] \notin {"checkpointing", "planning"},
           CallBased(p)', CallFiles(p)', CallLog(p)'
    PROVE  IInv'
<1>1. \A q \in Procs \ {p} : CallBased(q)' /\ CallFiles(q)' /\ CallLog(q)'
  BY CallKept DEF Quiet
<1>2. ASSUME NEW q \in Procs, NEW r \in Procs
      PROVE  Alone(q, r)'
  <2>1. Alone(q, r)
    BY DEF IInv
  <2> QED BY <2>1 DEF Alone, Same
<1> QED BY <1>1, <1>2, StoredKept DEF IInv

-----------------------------------------------------------------------------
(* Preservation: the steps that store nothing.                             *)

LEMMA SelectKeeps ==
    ASSUME IInv, NEW m, Select(m)
    PROVE  IInv'
<1>1. Quiet /\ Domains' /\ UNCHANGED <<call, overtaken>>
  BY DEF Select, Quiet, history, files, call, IInv, Domains
<1>2. \A q \in Procs : Same(q)
  BY <1>1 DEF call, Same
<1>3. \A q \in Procs : CallBased(q)' /\ CallFiles(q)' /\ CallLog(q)'
  BY <1>1, <1>2, CallKept DEF Quiet
<1>4. \A q, r \in Procs : Alone(q, r)'
  BY <1>2 DEF IInv, Alone, Same
<1> QED BY <1>1, <1>3, <1>4, StoredKept DEF IInv

LEMMA EditKeeps ==
    ASSUME IInv, Edit
    PROVE  IInv'
<1>1. Quiet /\ Domains' /\ UNCHANGED <<call, overtaken>>
  BY DEF Edit, Quiet, history, files, call, IInv, Domains
<1>2. \A q \in Procs : Same(q)
  BY <1>1 DEF call, Same
<1>3. \A q \in Procs : CallBased(q)' /\ CallFiles(q)' /\ CallLog(q)'
  BY <1>1, <1>2, CallKept DEF Quiet
<1>4. \A q, r \in Procs : Alone(q, r)'
  BY <1>2 DEF IInv, Alone, Same
<1> QED BY <1>1, <1>3, <1>4, StoredKept DEF IInv

LEMMA StartKeeps ==
    ASSUME IInv, NEW p \in Procs, NEW m, Start(p, m)
    PROVE  IInv'
<1> USE DEF Start, Goto, history, inputs, files
<1>1. Quiet /\ Domains' /\ \A q \in Procs \ {p} : Same(q) /\ (q \in overtaken => q \in overtaken')
  BY DEF Quiet, Same, IInv, Domains
<1>2. /\ cmd'[p] = m /\ m \in Commands
      /\ m.kind \in Captures => at'[p] = "lookup"
      /\ m.kind \notin Captures => (at'[p] = "plan" /\ m.kind = "create") \/ at'[p] = "ready"
  BY DEF IInv, Domains
<1>3. CallBased(p)'
  BY <1>2 DEF CallBased, CaptureOnly, Based, Sound, Captures, Advances
<1>4. CallFiles(p)' /\ CallLog(p)'
  BY <1>2 DEF CallFiles, CallLog, Checkpointed, Proposed, Captures, Advances
<1> QED BY <1>1, <1>2, <1>3, <1>4, QuietStep

LEMMA QuitKeeps ==
    ASSUME IInv, NEW p \in Procs, Quit(p)
    PROVE  IInv'
<1>1. Quiet /\ Domains' /\ \A q \in Procs \ {p} : Same(q) /\ (q \in overtaken => q \in overtaken')
  BY DEF Quit, End, Goto, inputs, files, Quiet, Same, IInv, Domains
<1>2. at'[p] = "idle"
  BY DEF Quit, End, Goto, IInv, Domains
<1>3. CallBased(p)' /\ CallFiles(p)' /\ CallLog(p)'
  BY <1>2 DEF CallBased, CaptureOnly, Based, CallFiles, CallLog, Checkpointed, Proposed
<1> QED BY <1>1, <1>2, <1>3, QuietStep

\* An admitted operation has sound preconditions.
LEMMA AdmittedSound ==
    ASSUME NEW m, NEW F, m.kind \notin Captures, Admits(m, F)
    PROVE  Sound(m, {Precondition(F, c) : c \in Guarded(m, F)})
<1> SUFFICES ASSUME m.kind = "relate"
             PROVE  Sound(m, {Precondition(F, c) : c \in Guarded(m, F)})
  BY DEF Sound, Captures
<1>1. Guarded(m, F) = {m.change}
  BY DEF Guarded
<1>2. /\ Precondition(F, m.change).change = m.change
      /\ Precondition(F, m.change).token = Token(F, m.change)
  BY DEF Precondition
<1>3. Token(F, m.change).current = CurrentRevisions(F, m.change)
  BY DEF Token
<1>4. ~Incomplete(F, m.change) /\ ~RevisionConflict(F, m.change)
  BY DEF Admits, SingleState
<1>5. Clean(Token(F, m.change))
  BY <1>4, Zenon DEF Token, Clean, Incomplete
<1>6. m.succ \in CurrentRevisions(F, m.change) /\ m.succ # m.pred
  BY DEF Admits
<1> QED BY <1>1, <1>2, <1>3, <1>5, <1>6 DEF Sound

LEMMA TransitionSound ==
    ASSUME NEW m, m.kind \in Captures, TransitionAdmits(m)
    PROVE  Sound(m, Transition(m).pre)
<1> SUFFICES ASSUME m.kind \in Advances
             PROVE  Sound(m, Transition(m).pre)
  BY DEF Sound, Captures, Advances
<1>1. Transition(m).pre = {Precondition(log, m.change)}
  BY DEF Transition, Advances
<1>2. /\ Precondition(log, m.change).change = m.change
      /\ Precondition(log, m.change).token = Token(log, m.change)
  BY DEF Precondition
<1>3. ~Incomplete(log, m.change) /\ ~RevisionConflict(log, m.change)
  BY DEF TransitionAdmits, SingleState
<1>4. Clean(Token(log, m.change))
  BY <1>3, Zenon DEF Token, Clean, Incomplete
<1>5. m.kind # "relate"
  BY DEF Advances
<1> QED BY <1>1, <1>2, <1>4, <1>5 DEF Sound

LEMMA ReadyKeeps ==
    ASSUME IInv, NEW p \in Procs, Ready(p)
    PROVE  IInv'
<1>1. Quiet /\ Domains' /\ \A q \in Procs \ {p} : Same(q) /\ (q \in overtaken => q \in overtaken')
  BY DEF Ready, Goto, inputs, files, history, Quiet, Same, IInv, Domains
<1>2. /\ at'[p] = "plan" /\ cmd'[p] = cmd[p]
      /\ basis'[p].pre = {Precondition(log, c) : c \in Guarded(cmd[p], log)}
  BY DEF Ready, Goto, IInv, Domains
<1>3. cmd[p] \in Commands /\ cmd[p].kind \notin Captures /\ Admits(cmd[p], log)
  BY DEF Ready, IInv, CallBased
<1>4. Sound(cmd[p], basis'[p].pre)
  BY <1>2, <1>3, AdmittedSound
<1>5. CallBased(p)'
  BY <1>2, <1>3, <1>4 DEF CallBased, CaptureOnly, Captures
<1>6. CallFiles(p)' /\ CallLog(p)'
  BY <1>2, <1>3 DEF CallFiles, CallLog, Checkpointed, Proposed
<1> QED BY <1>1, <1>2, <1>5, <1>6, QuietStep

LEMMA LookUpKeeps ==
    ASSUME IInv, NEW p \in Procs, LookUp(p)
    PROVE  IInv'
<1>1. Quiet /\ Domains' /\ \A q \in Procs \ {p} : Same(q) /\ (q \in overtaken => q \in overtaken')
  BY DEF LookUp, Goto, inputs, files, history, Quiet, Same, IInv, Domains
<1>2. /\ cmd'[p] = cmd[p] /\ cmd[p] \in Commands
      /\ \/ at'[p] = "ready"
         \/ /\ at'[p] = "validate"
            /\ plan'[cmd[p].op].state = "whole" /\ plan'[cmd[p].op].req = cmd[p]
  BY DEF LookUp, Goto, IInv, Domains, CallBased, files
<1>3. CallBased(p)'
  BY <1>2 DEF CallBased, CaptureOnly, Based
<1>4. CallFiles(p)' /\ CallLog(p)'
  BY <1>2 DEF CallFiles, CallLog, Checkpointed, Proposed
<1> QED BY <1>1, <1>2, <1>3, <1>4, QuietStep

LEMMA CaptureReadyKeeps ==
    ASSUME IInv, NEW p \in Procs, CaptureReady(p)
    PROVE  IInv'
<1>1. Quiet /\ Domains' /\ \A q \in Procs \ {p} : Same(q) /\ (q \in overtaken => q \in overtaken')
  BY DEF CaptureReady, Goto, inputs, files, history, Quiet, Same, IInv, Domains
<1>2. /\ at'[p] = "prepare" /\ cmd'[p] = cmd[p]
      /\ cmd[p] \in Commands /\ cmd[p].kind \in Captures
  BY DEF CaptureReady, Goto, IInv, Domains, CallBased
<1>3. Sound(cmd[p], basis'[p].pre)
  <2>1. CASE TransitionAdmits(cmd[p]) /\ basis' = [basis EXCEPT ![p] = Transition(cmd[p])]
    BY <1>2, <2>1, TransitionSound DEF IInv, Domains
  <2>2. CASE /\ checkpoint[cmd[p].op].state = "whole" /\ checkpoint[cmd[p].op].req = cmd[p]
             /\ basis'[p].pre = checkpoint[cmd[p].op].pre
    BY <1>2, <2>2 DEF IInv, CheckpointOK, Ops
  <2> QED BY <2>1, <2>2 DEF CaptureReady, IInv, Domains
<1>4. CallBased(p)'
  BY <1>2, <1>3 DEF CallBased
<1>5. CallFiles(p)' /\ CallLog(p)'
  BY <1>2 DEF CallFiles, CallLog, Checkpointed, Proposed
<1> QED BY <1>1, <1>2, <1>4, <1>5, QuietStep

LEMMA PrepareKeeps ==
    ASSUME IInv, NEW p \in Procs, Prepare(p)
    PROVE  IInv'
<1>1. Quiet /\ Domains' /\ \A q \in Procs \ {p} : Same(q) /\ (q \in overtaken => q \in overtaken')
  BY DEF Prepare, Goto, inputs, files, history, Quiet, Same, IInv, Domains
<1>2. at'[p] = "checkpoint" /\ cmd'[p] = cmd[p] /\ basis'[p] = basis[p]
  BY DEF Prepare, Goto, IInv, Domains
<1>3. CallBased(p)'
  BY <1>2 DEF Prepare, IInv, CallBased, CaptureOnly, Based
<1>4. CallFiles(p)' /\ CallLog(p)'
  BY <1>2 DEF CallFiles, CallLog, Checkpointed, Proposed
<1> QED BY <1>1, <1>2, <1>3, <1>4, QuietStep

LEMMA CheckpointFindsKeeps ==
    ASSUME IInv, NEW p \in Procs, CheckpointFinds(p)
    PROVE  IInv'
<1>1. Quiet /\ Domains' /\ \A q \in Procs \ {p} : Same(q) /\ (q \in overtaken => q \in overtaken')
  BY DEF CheckpointFinds, Goto, inputs, files, history, Quiet, Same, IInv, Domains
<1>2. at'[p] = "recheck" /\ cmd'[p] = cmd[p] /\ basis'[p] = basis[p] /\ rev'[p] = rev[p]
  BY DEF CheckpointFinds, Goto, IInv, Domains
<1>3. CallBased(p)'
  BY <1>2 DEF CheckpointFinds, IInv, CallBased, CaptureOnly, Based
<1>4. CallFiles(p)' /\ CallLog(p)'
  BY <1>2 DEF CheckpointFinds, CheckpointOf, CallFiles, CallLog, Checkpointed, Proposed, files
<1> QED BY <1>1, <1>2, <1>3, <1>4, QuietStep

LEMMA RecheckKeeps ==
    ASSUME IInv, NEW p \in Procs, Recheck(p)
    PROVE  IInv'
<1>1. Quiet /\ Domains' /\ \A q \in Procs \ {p} : Same(q) /\ (q \in overtaken => q \in overtaken')
  BY DEF Recheck, Goto, inputs, files, history, Quiet, Same, IInv, Domains
<1>2. at'[p] = "propose" /\ cmd'[p] = cmd[p] /\ basis'[p] = basis[p] /\ rev'[p] = rev[p]
  BY DEF Recheck, Goto, IInv, Domains
<1>3. CallBased(p)'
  BY <1>2 DEF Recheck, IInv, CallBased, CaptureOnly, Based
<1>4. CallFiles(p)' /\ CallLog(p)'
  BY <1>2 DEF Recheck, CheckpointOf, IInv, CallFiles, CallLog, Checkpointed, Proposed, files
<1> QED BY <1>1, <1>2, <1>3, <1>4, QuietStep

LEMMA AdvanceKeeps ==
    ASSUME IInv, NEW p \in Procs, Advance(p)
    PROVE  IInv'
<1>1. Quiet /\ Domains' /\ \A q \in Procs \ {p} : Same(q) /\ (q \in overtaken => q \in overtaken')
  BY DEF Advance, Goto, inputs, files, history, Quiet, Same, IInv, Domains
<1>2. at'[p] = "plan" /\ cmd'[p] = cmd[p] /\ basis'[p] = basis[p] /\ rev'[p] = rev[p]
  BY DEF Advance, Goto, IInv, Domains
<1>3. CallBased(p)'
  BY <1>2 DEF Advance, IInv, CallBased, CaptureOnly, Based
<1>4. CallFiles(p)' /\ CallLog(p)'
  BY <1>2 DEF Advance, CheckpointOf, IInv, CallFiles, CallLog, Checkpointed, Proposed, files, history
<1> QED BY <1>1, <1>2, <1>3, <1>4, QuietStep

LEMMA PlanFindsKeeps ==
    ASSUME IInv, NEW p \in Procs, PlanFinds(p)
    PROVE  IInv'
<1>1. Quiet /\ Domains' /\ \A q \in Procs \ {p} : Same(q) /\ (q \in overtaken => q \in overtaken')
  BY DEF PlanFinds, Goto, inputs, files, history, Quiet, Same, IInv, Domains
<1>2. /\ at'[p] = "validate" /\ cmd'[p] = cmd[p] /\ cmd[p] \in Commands
      /\ plan'[cmd[p].op].state = "whole" /\ plan'[cmd[p].op].req = cmd[p]
  BY DEF PlanFinds, Goto, IInv, Domains, CallBased, files
<1>3. CallBased(p)'
  BY <1>2 DEF CallBased, CaptureOnly, Based
<1>4. CallFiles(p)' /\ CallLog(p)'
  BY <1>2 DEF CallFiles, CallLog, Checkpointed, Proposed
<1> QED BY <1>1, <1>2, <1>3, <1>4, QuietStep

LEMMA ValidateKeeps ==
    ASSUME IInv, NEW p \in Procs, Validate(p)
    PROVE  IInv'
<1>1. Quiet /\ Domains' /\ \A q \in Procs \ {p} : Same(q) /\ (q \in overtaken => q \in overtaken')
  BY DEF Validate, Goto, inputs, files, history, Quiet, Same, IInv, Domains
<1>2. /\ at'[p] = "append" /\ cmd'[p] = cmd[p] /\ cmd[p] \in Commands
      /\ todo'[p] = plan[cmd[p].op].events
      /\ plan'[cmd[p].op].state = "whole" /\ plan'[cmd[p].op].req = cmd[p]
  BY DEF Validate, Goto, IInv, Domains, CallBased, CallFiles, files
<1>3. CallBased(p)'
  BY <1>2 DEF CallBased, CaptureOnly, Based
<1>4. CallFiles(p)'
  BY <1>2 DEF CallFiles, Checkpointed, Proposed
<1>5. CallLog(p)'
  BY <1>2 DEF Validate, CallLog, files
<1> QED BY <1>1, <1>2, <1>3, <1>4, <1>5, QuietStep

-----------------------------------------------------------------------------
(* Preservation: the steps that write files or append events.              *)

LEMMA CheckpointCreateKeeps ==
    ASSUME IInv, NEW p \in Procs, CheckpointCreate(p)
    PROVE  IInv'
<1> DEFINE o == cmd[p].op
<1> USE DEF CheckpointCreate, Goto
<1>1. Domains' /\ \A q \in Procs \ {p} : Same(q)
  BY DEF Same, IInv, Domains, inputs
<1>2. /\ at'[p] = "checkpointing" /\ cmd'[p] = cmd[p] /\ basis'[p] = basis[p]
      /\ o \in Ops /\ checkpoint[o].state = "absent" /\ checkpoint'[o].state = "torn"
      /\ \A x \in Ops \ {o} : checkpoint'[x] = checkpoint[x]
      /\ UNCHANGED <<log, plan, captured, done, overtaken>>
  BY DEF IInv, Domains, CallBased, Ops, Torn, history
<1> HIDE DEF CheckpointCreate, o
<1>3. ASSUME NEW q \in Procs
      PROVE  CallBased(q)' /\ CallFiles(q)' /\ CallLog(q)'
  <2>1. CallBased(q) /\ CallFiles(q) /\ CallLog(q)
    BY DEF IInv
  <2>2. CASE q = p
    BY <1>2, <2>1, <2>2 DEF CheckpointCreate, o, CallBased, CallFiles, CallLog, Checkpointed,
                            Proposed, CaptureOnly, Based
  <2>3. CASE q # p
    <3>1. CallBased(q)'
      BY <1>1, <2>1, <2>3 DEF CallBased, Same
    <3>2. CallFiles(q)'
      <4>1. CASE cmd[q].op = o
        BY <1>1, <1>2, <2>1, <2>3, <4>1 DEF CallFiles, Same, Checkpointed, Proposed, CheckpointOf
      <4>2. CASE cmd[q].op # o /\ at[q] # "idle"
        <5>1. cmd[q].op \in Ops \ {o}
          BY <4>2, <2>1 DEF CallBased, Ops
        <5> QED BY <1>1, <1>2, <2>1, <2>3, <5>1 DEF CallFiles, Same, Checkpointed, Proposed, CheckpointOf
      <4> QED BY <1>1, <2>3, <4>1, <4>2 DEF CallFiles, Same, Checkpointed, Proposed
    <3>3. CallLog(q)'
      BY <1>1, <1>2, <2>1, <2>3 DEF CallLog, Same
    <3> QED BY <3>1, <3>2, <3>3
  <2> QED BY <2>2, <2>3
<1>4. ASSUME NEW q \in Procs, NEW r \in Procs
      PROVE  Alone(q, r)'
  <2>1. Alone(q, r) /\ CallFiles(q) /\ CallFiles(r)
    BY DEF IInv
  <2> QED BY <1>1, <1>2, <2>1 DEF Alone, Same, CallFiles, o
<1>5. \A x \in Ops : PlanOK(x)'
  BY <1>2 DEF IInv, PlanOK
<1>6. \A x \in Ops : CheckpointOK(x)'
  BY <1>2 DEF IInv, CheckpointOK
<1>7. LogOK' /\ HistoryOK'
  BY <1>2 DEF IInv, LogOK, HistoryOK
<1> QED BY <1>1, <1>3, <1>4, <1>5, <1>6, <1>7 DEF IInv

LEMMA CheckpointWriteKeeps ==
    ASSUME IInv, NEW p \in Procs, CheckpointWrite(p)
    PROVE  IInv'
<1> DEFINE o == cmd[p].op
<1> USE DEF CheckpointWrite, Goto
<1>1. Domains' /\ \A q \in Procs \ {p} : Same(q)
  BY DEF Same, IInv, Domains, inputs
<1>2. /\ at'[p] = "recheck" /\ cmd'[p] = cmd[p] /\ basis'[p] = basis[p] /\ rev'[p] = rev[p]
      /\ o \in Ops /\ checkpoint[o].state = "torn" /\ checkpoint'[o] = CheckpointOf(p)
      /\ \A x \in Ops \ {o} : checkpoint'[x] = checkpoint[x]
      /\ UNCHANGED <<log, plan, captured, done, overtaken>>
  BY DEF IInv, Domains, CallBased, CallFiles, Ops, history
<1>3. CheckpointOf(p).state = "whole" /\ CheckpointOf(p).req = cmd[p] /\ CheckpointOf(p).pre = basis[p].pre
  BY DEF CheckpointOf
<1>4. CheckpointOf(p)' = CheckpointOf(p)
  BY <1>2 DEF CheckpointOf
<1>5. at[p] = "checkpointing"
  OBVIOUS
<1> HIDE DEF CheckpointWrite, o
<1>6. ASSUME NEW q \in Procs
      PROVE  CallBased(q)' /\ CallFiles(q)' /\ CallLog(q)'
  <2>1. CallBased(q) /\ CallFiles(q) /\ CallLog(q) /\ Alone(p, q)
    BY DEF IInv
  <2>2. CASE q = p
    BY <1>2, <1>4, <1>5, <2>1, <2>2 DEF o, CallBased, CallFiles, CallLog, Checkpointed,
                            Proposed, CaptureOnly, Based
  <2>3. CASE q # p
    <3>1. CallBased(q)'
      BY <1>1, <2>1, <2>3 DEF CallBased, Same
    <3>2. CallFiles(q)'
      <4>1. CASE cmd[q].op = o
        <5>1. ~Checkpointed(q) /\ at[q] # "checkpointing"
          BY <1>2, <1>5, <2>1, <2>3, <4>1 DEF CallFiles, CheckpointOf, Alone, o
        <5> QED BY <1>1, <1>2, <2>1, <2>3, <5>1 DEF CallFiles, Same, Checkpointed, Proposed
      <4>2. CASE cmd[q].op # o /\ at[q] # "idle"
        <5>1. cmd[q].op \in Ops \ {o}
          BY <4>2, <2>1 DEF CallBased, Ops
        <5> QED BY <1>1, <1>2, <2>1, <2>3, <5>1 DEF CallFiles, Same, Checkpointed, Proposed, CheckpointOf
      <4> QED BY <1>1, <2>3, <4>1, <4>2 DEF CallFiles, Same, Checkpointed, Proposed
    <3>3. CallLog(q)'
      BY <1>1, <1>2, <2>1, <2>3 DEF CallLog, Same
    <3> QED BY <3>1, <3>2, <3>3
  <2> QED BY <2>2, <2>3
<1>7. ASSUME NEW q \in Procs, NEW r \in Procs
      PROVE  Alone(q, r)'
  <2>1. Alone(q, r)
    BY DEF IInv
  <2> QED BY <1>1, <1>2, <2>1 DEF Alone, Same
<1>8. \A x \in Ops : PlanOK(x)'
  BY <1>2 DEF IInv, PlanOK
<1>9. Sound(cmd[p], basis[p].pre)
  BY <1>5 DEF IInv, CallBased, Based
<1>10. \A x \in Ops : CheckpointOK(x)'
  BY <1>2, <1>3, <1>9 DEF IInv, CheckpointOK, o
<1>11. LogOK' /\ HistoryOK'
  BY <1>2 DEF IInv, LogOK, HistoryOK
<1> QED BY <1>1, <1>6, <1>7, <1>8, <1>10, <1>11 DEF IInv

LEMMA PlanCreateKeeps ==
    ASSUME IInv, NEW p \in Procs, PlanCreate(p)
    PROVE  IInv'
<1> DEFINE o == cmd[p].op
<1> USE DEF PlanCreate, Goto
<1>1. Domains' /\ \A q \in Procs \ {p} : Same(q)
  BY DEF Same, IInv, Domains, inputs
<1>2. /\ at'[p] = "planning" /\ cmd'[p] = cmd[p] /\ basis'[p] = basis[p] /\ rev'[p] = rev[p]
      /\ o \in Ops /\ plan[o].state = "absent" /\ plan'[o].state = "torn"
      /\ \A x \in Ops \ {o} : plan'[x] = plan[x]
      /\ UNCHANGED <<log, checkpoint, captured, done, overtaken>>
  BY DEF IInv, Domains, CallBased, Ops, Torn, history
<1>3. at[p] = "plan"
  OBVIOUS
<1> HIDE DEF PlanCreate, o
<1>4. ASSUME NEW q \in Procs
      PROVE  CallBased(q)' /\ CallFiles(q)' /\ CallLog(q)'
  <2>1. CallBased(q) /\ CallFiles(q) /\ CallLog(q)
    BY DEF IInv
  <2>2. CASE q = p
    BY <1>2, <1>3, <2>1, <2>2 DEF o, CallBased, CallFiles, CallLog, Checkpointed,
                            Proposed, CaptureOnly, Based, CheckpointOf
  <2>3. CASE q # p
    <3>1. CallBased(q)'
      BY <1>1, <2>1, <2>3 DEF CallBased, Same
    <3>2. CallFiles(q)' /\ CallLog(q)'
      <4>1. CASE at[q] \in {"planning", "validate", "append"}
        <5>1. cmd[q].op \in Ops \ {o}
          BY <1>2, <2>1, <4>1 DEF CallBased, CallFiles, Ops
        <5> QED BY <1>1, <1>2, <2>1, <2>3, <5>1 DEF CallFiles, CallLog, Same, Checkpointed, Proposed, CheckpointOf
      <4>2. CASE at[q] \notin {"planning", "validate", "append"}
        BY <1>1, <1>2, <2>1, <2>3, <4>2 DEF CallFiles, CallLog, Same, Checkpointed, Proposed, CheckpointOf
      <4> QED BY <4>1, <4>2
    <3> QED BY <3>1, <3>2
  <2> QED BY <2>2, <2>3
<1>5. ASSUME NEW q \in Procs, NEW r \in Procs
      PROVE  Alone(q, r)'
  <2>1. Alone(q, r) /\ CallFiles(q) /\ CallFiles(r)
    BY DEF IInv
  <2> QED BY <1>1, <1>2, <2>1 DEF Alone, Same, CallFiles, o
<1>6. \A x \in Ops : PlanOK(x)'
  BY <1>2 DEF IInv, PlanOK
<1>7. \A x \in Ops : CheckpointOK(x)'
  BY <1>2 DEF IInv, CheckpointOK
<1>8. LogOK' /\ HistoryOK'
  BY <1>2 DEF IInv, LogOK, HistoryOK
<1> QED BY <1>1, <1>4, <1>5, <1>6, <1>7, <1>8 DEF IInv

LEMMA PlanWriteKeeps ==
    ASSUME IInv, NEW p \in Procs, PlanWrite(p)
    PROVE  IInv'
<1> DEFINE o == cmd[p].op
<1> USE DEF PlanWrite, Goto
<1>1. Domains' /\ \A q \in Procs \ {p} : Same(q)
  BY DEF Same, IInv, Domains, inputs
<1>2. /\ at'[p] = "validate" /\ cmd'[p] = cmd[p]
      /\ o \in Ops /\ plan[o].state = "torn" /\ plan'[o] = PlanOf(p)
      /\ \A x \in Ops \ {o} : plan'[x] = plan[x]
      /\ UNCHANGED <<log, checkpoint, captured, done, overtaken>>
  BY DEF IInv, Domains, CallBased, CallFiles, Ops, history
<1>3. at[p] = "planning"
  OBVIOUS
<1>4. /\ PlanOf(p).state = "whole" /\ PlanOf(p).req = cmd[p] /\ PlanOf(p).rev = rev[p]
      /\ PlanOf(p).pre = basis[p].pre
      /\ PlanOf(p).events = Events(cmd[p], rev[p], basis[p].preds)
  BY DEF PlanOf
<1> HIDE DEF PlanWrite, o
<1>5. ASSUME NEW q \in Procs
      PROVE  CallBased(q)' /\ CallFiles(q)' /\ CallLog(q)'
  <2>1. CallBased(q) /\ CallFiles(q) /\ CallLog(q) /\ Alone(p, q)
    BY DEF IInv
  <2>2. CASE q = p
    BY <1>2, <1>3, <1>4, <2>1, <2>2 DEF o, CallBased, CallFiles, CallLog, Checkpointed,
                            Proposed, CaptureOnly, Based
  <2>3. CASE q # p
    <3>1. CallBased(q)'
      BY <1>1, <2>1, <2>3 DEF CallBased, Same
    <3>2. CallFiles(q)' /\ CallLog(q)'
      <4>1. CASE at[q] \in {"planning", "validate", "append"}
        <5>1. cmd[q].op \in Ops \ {o}
          BY <1>2, <1>3, <2>1, <2>3, <4>1 DEF CallBased, CallFiles, Ops, Alone, o
        <5> QED BY <1>1, <1>2, <2>1, <2>3, <5>1 DEF CallFiles, CallLog, Same, Checkpointed, Proposed, CheckpointOf
      <4>2. CASE at[q] \notin {"planning", "validate", "append"}
        BY <1>1, <1>2, <2>1, <2>3, <4>2 DEF CallFiles, CallLog, Same, Checkpointed, Proposed, CheckpointOf
      <4> QED BY <4>1, <4>2
    <3> QED BY <3>1, <3>2
  <2> QED BY <2>2, <2>3
<1>6. ASSUME NEW q \in Procs, NEW r \in Procs
      PROVE  Alone(q, r)'
  <2>1. Alone(q, r)
    BY DEF IInv
  <2> QED BY <1>1, <1>2, <2>1 DEF Alone, Same
<1>7. CallBased(p) /\ CallFiles(p) /\ cmd[p] \in Commands
  BY <1>3 DEF IInv, CallBased
<1>8. PlanShape(PlanOf(p)) /\ Sound(cmd[p], basis[p].pre)
  BY <1>3, <1>4, <1>7 DEF PlanShape, CallBased, Based
<1>9. cmd[p].kind \in Captures => <<o, rev[p]>> \in captured
  BY <1>3, <1>7 DEF CallFiles, Proposed, Checkpointed, o
<1>10. \A x \in Ops : PlanOK(x)'
  BY <1>2, <1>4, <1>7, <1>8, <1>9 DEF IInv, PlanOK, o
<1>11. \A x \in Ops : CheckpointOK(x)'
  BY <1>2 DEF IInv, CheckpointOK
<1>12. LogOK' /\ HistoryOK'
  BY <1>2 DEF IInv, LogOK, HistoryOK
<1> QED BY <1>1, <1>5, <1>6, <1>10, <1>11, <1>12 DEF IInv

\* A call that is not overtaken by an append sees no new event.
LEMMA NotOvertaken ==
    ASSUME NEW p \in Procs, NEW q \in Procs, q # p, NEW e, at[q] # "idle",
           q \notin Overtake(p, e)
    PROVE  q \notin overtaken /\ log \cup {e} = log
BY DEF Overtake

LEMMA ProposeKeeps ==
    ASSUME IInv, NEW p \in Procs, Propose(p)
    PROVE  IInv'
<1> DEFINE o == cmd[p].op
           e == Proposal(rev[p])
<1> USE DEF Propose, Goto
<1>1. Domains' /\ \A q \in Procs \ {p} : Same(q)
  BY DEF Same, IInv, Domains, inputs, files
<1>2. /\ at[p] = "propose" /\ at'[p] = "proposed"
      /\ cmd'[p] = cmd[p] /\ basis'[p] = basis[p] /\ rev'[p] = rev[p]
      /\ o \in Ops /\ UNCHANGED <<plan, checkpoint, done>>
      /\ log' = log \cup {e} /\ captured' = captured \cup {<<o, rev[p]>>}
      /\ overtaken' = Overtake(p, e)
  BY DEF IInv, Domains, CallBased, Ops, files
<1>3. CallBased(p) /\ CallFiles(p) /\ checkpoint[o] = CheckpointOf(p)
  BY <1>2 DEF IInv, CallFiles, Checkpointed
<1>4. checkpoint[o].state = "whole" /\ checkpoint[o].rev = rev[p]
  BY <1>3 DEF CheckpointOf
<1>5. e.event.op \notin Ops
  BY ScenarioAssumption DEF Proposal, Key, Ops
<1> HIDE DEF Propose, o, e
<1>6. ASSUME NEW q \in Procs
      PROVE  CallBased(q)' /\ CallFiles(q)' /\ CallLog(q)'
  <2>1. CallBased(q) /\ CallFiles(q) /\ CallLog(q)
    BY DEF IInv
  <2>2. CASE q = p
    <3>1. CallBased(p)'
      BY <1>2, <1>3 DEF CallBased, CaptureOnly, Based
    <3>2. CallFiles(p)'
      BY <1>2, <1>3 DEF o, CallFiles, Checkpointed, Proposed, CheckpointOf
    <3>3. CallLog(p)'
      BY <1>2 DEF CallLog
    <3> QED BY <2>2, <3>1, <3>2, <3>3
  <2>3. CASE q # p
    <3>1. CallBased(q)'
      BY <1>1, <2>1, <2>3 DEF CallBased, Same
    <3>2. CallFiles(q)'
      BY <1>1, <1>2, <2>1, <2>3 DEF CallFiles, Same, Checkpointed, Proposed, CheckpointOf
    <3>3. CallLog(q)'
      BY <1>1, <1>2, <2>1, <2>3, NotOvertaken DEF CallLog, Same
    <3> QED BY <3>1, <3>2, <3>3
  <2> QED BY <2>2, <2>3
<1>7. ASSUME NEW q \in Procs, NEW r \in Procs
      PROVE  Alone(q, r)'
  <2>1. Alone(q, r)
    BY DEF IInv
  <2> QED BY <1>1, <1>2, <2>1 DEF Alone, Same
<1>8. \A x \in Ops : PlanOK(x)'
  BY <1>2 DEF IInv, PlanOK
<1>9. \A x \in Ops : CheckpointOK(x)'
  BY <1>2 DEF IInv, CheckpointOK
<1>10. LogOK'
  BY <1>2, <1>5 DEF IInv, LogOK
<1>11. HistoryOK'
  BY <1>2, <1>4 DEF IInv, HistoryOK
<1> QED BY <1>1, <1>6, <1>7, <1>8, <1>9, <1>10, <1>11 DEF IInv

\* The graph without a plan's events does not change as they are appended.
LEMMA OwnAppend ==
    ASSUME NEW F, NEW pl, NEW e \in pl.events, PreconditionsHold(F, pl)
    PROVE  PreconditionsHold(F \cup {e}, pl)
<1>1. Baseline(F \cup {e}, pl.events) = Baseline(F, pl.events)
  BY DEF Baseline
<1>2. \A x : Recorded(F, x) => Recorded(F \cup {e}, x)
  BY DEF Recorded
<1> QED BY <1>1, <1>2 DEF PreconditionsHold

LEMMA AppendKeeps ==
    ASSUME IInv, NEW p \in Procs, Append(p)
    PROVE  IInv'
<1> DEFINE o == cmd[p].op
<1>1. PICK e \in todo[p] :
          /\ log' = log \cup {e} /\ overtaken' = Overtake(p, e)
          /\ todo' = [todo EXCEPT ![p] = @ \ {e}]
  BY DEF Append
<1>2. Domains' /\ \A q \in Procs \ {p} : Same(q)
  BY <1>1 DEF Append, Same, IInv, Domains, inputs, files
<1>3. /\ at[p] = "append" /\ at'[p] = at[p] /\ cmd'[p] = cmd[p]
      /\ todo'[p] = todo[p] \ {e}
      /\ o \in Ops /\ UNCHANGED <<plan, checkpoint, captured, done>>
  BY <1>1 DEF Append, IInv, Domains, CallBased, Ops, files
<1>4. CallBased(p) /\ CallFiles(p) /\ CallLog(p) /\ PlanOK(o)
  BY <1>3 DEF IInv
<1>5. plan[o].state = "whole" /\ e \in plan[o].events
  BY <1>3, <1>4 DEF CallFiles, CallLog
<1>6. e.event.op = o
  BY <1>4, <1>5, EventKeys DEF PlanOK, PlanShape
<1> HIDE DEF o
<1>7. ASSUME NEW q \in Procs
      PROVE  CallBased(q)' /\ CallFiles(q)' /\ CallLog(q)'
  <2>1. CallBased(q) /\ CallFiles(q) /\ CallLog(q)
    BY DEF IInv
  <2>2. CASE q = p
    <3>1. CallBased(p)' /\ CallFiles(p)'
      BY <1>3, <1>4 DEF CallBased, CallFiles, CaptureOnly, Based, Checkpointed, Proposed
    <3>2. p \notin overtaken' => p \notin overtaken
      BY <1>1 DEF Overtake
    <3>3. CallLog(p)'
      BY <1>1, <1>3, <1>4, <1>5, <3>2, OwnAppend DEF CallLog, o
    <3> QED BY <2>2, <3>1, <3>3
  <2>3. CASE q # p
    <3>1. CallBased(q)'
      BY <1>2, <2>1, <2>3 DEF CallBased, Same
    <3>2. CallFiles(q)'
      <4>1. /\ at'[q] = at[q] /\ cmd'[q] = cmd[q] /\ rev'[q] = rev[q]
            /\ CheckpointOf(q)' = CheckpointOf(q)
        BY <1>2, <2>3 DEF Same, CheckpointOf
      <4> QED
        BY <1>3, <2>1, <4>1 DEF CallFiles, Checkpointed, Proposed
    <3>3. CallLog(q)'
      <4>1. at'[q] = at[q] /\ cmd'[q] = cmd[q] /\ todo'[q] = todo[q]
        BY <1>2, <2>3 DEF Same
      <4>2. at[q] # "idle" /\ q \notin overtaken' => q \notin overtaken /\ log' = log
        BY <1>1, <2>3, NotOvertaken
      <4>3. log \subseteq log' /\ plan' = plan
        BY <1>1, <1>3
      <4> QED
        BY <2>1, <4>1, <4>2, <4>3 DEF CallLog
    <3> QED BY <3>1, <3>2, <3>3
  <2> QED BY <2>2, <2>3
<1>8. ASSUME NEW q \in Procs, NEW r \in Procs
      PROVE  Alone(q, r)'
  <2>1. Alone(q, r)
    BY DEF IInv
  <2> QED BY <1>2, <1>3, <2>1 DEF Alone, Same
<1>9. \A x \in Ops : PlanOK(x)'
  BY <1>3 DEF IInv, PlanOK
<1>10. \A x \in Ops : CheckpointOK(x)'
  BY <1>3 DEF IInv, CheckpointOK
<1>11. LogOK'
  BY <1>1, <1>3, <1>5, <1>6 DEF IInv, LogOK
<1>12. HistoryOK'
  BY <1>1, <1>3 DEF IInv, HistoryOK
<1> QED BY <1>2, <1>7, <1>8, <1>9, <1>10, <1>11, <1>12 DEF IInv

LEMMA AnswerKeeps ==
    ASSUME IInv, NEW p \in Procs, Answer(p)
    PROVE  IInv'
<1> DEFINE o == cmd[p].op
<1> USE DEF Answer, End, Goto
<1>1. Domains' /\ \A q \in Procs \ {p} : Same(q) /\ (q \in overtaken => q \in overtaken')
  BY DEF Same, IInv, Domains, inputs, files
<1>2. /\ at[p] = "append" /\ todo[p] = {} /\ at'[p] = "idle" /\ done' = done \cup {o}
      /\ UNCHANGED <<log, files, captured>> /\ UNCHANGED <<plan, checkpoint>>
  BY DEF IInv, Domains, files
<1>3. o \in Ops /\ plan[o].state = "whole" /\ plan[o].events \subseteq log
  BY <1>2 DEF IInv, CallBased, CallFiles, CallLog, Ops
<1> HIDE DEF Answer, o
<1>4. CallBased(p)' /\ CallFiles(p)' /\ CallLog(p)'
  BY <1>2 DEF CallBased, CaptureOnly, Based, CallFiles, CallLog, Checkpointed, Proposed
<1>5. \A q \in Procs \ {p} : CallBased(q)' /\ CallFiles(q)' /\ CallLog(q)'
  BY <1>1, <1>2, CallKept
<1>6. ASSUME NEW q \in Procs, NEW r \in Procs
      PROVE  Alone(q, r)'
  <2>1. Alone(q, r)
    BY DEF IInv
  <2> QED BY <1>1, <1>2, <2>1 DEF Alone, Same
<1>7. (\A x \in Ops : PlanOK(x)') /\ (\A x \in Ops : CheckpointOK(x)') /\ LogOK'
  BY <1>2 DEF IInv, PlanOK, CheckpointOK, LogOK
<1>8. HistoryOK'
  BY <1>2, <1>3 DEF IInv, HistoryOK
<1> QED BY <1>1, <1>4, <1>5, <1>6, <1>7, <1>8 DEF IInv

-----------------------------------------------------------------------------
(* The invariant and what follows from it.                                 *)

\* Every reachable state satisfies the inductive invariant.
THEOREM OperationsInvariant == Spec => []IInv
<1>1. Init => IInv
  <2> SUFFICES ASSUME Init PROVE IInv
    OBVIOUS
  <2>1. Domains
    BY DEF Init, Domains, Commands
  <2>2. \A p \in Procs : CallBased(p) /\ CallFiles(p) /\ CallLog(p)
    BY DEF Init, CallBased, CallFiles, CallLog, CaptureOnly, Based, Checkpointed, Proposed
  <2>3. \A p, q \in Procs : Alone(p, q)
    BY DEF Init, Alone
  <2>4. \A o \in Ops : PlanOK(o) /\ CheckpointOK(o)
    BY DEF Init, Absent, PlanOK, CheckpointOK
  <2>5. LogOK
    BY ScenarioAssumption DEF Init, LogOK, Ops
  <2>6. HistoryOK
    BY DEF Init, HistoryOK
  <2> QED BY <2>1, <2>2, <2>3, <2>4, <2>5, <2>6 DEF IInv
<1>2. IInv /\ [Next]_vars => IInv'
  <2> SUFFICES ASSUME IInv, [Next]_vars PROVE IInv'
    OBVIOUS
  <2>1. CASE UNCHANGED vars
    BY <2>1 DEF vars, inputs, files, call, history, IInv, Domains, CallBased, CallFiles,
                CallLog, Alone, PlanOK, CheckpointOK, LogOK, HistoryOK, Checkpointed,
                Proposed, CheckpointOf
  <2>2. ASSUME NEW m \in Commands, Select(m) PROVE IInv'
    BY <2>2, SelectKeeps
  <2>3. ASSUME NEW p \in Procs, NEW m \in Commands, Start(p, m) PROVE IInv'
    BY <2>3, StartKeeps
  <2>4. ASSUME NEW p \in Procs, CaptureStep(p) PROVE IInv'
    BY <2>4, LookUpKeeps, CaptureReadyKeeps, PrepareKeeps, CheckpointCreateKeeps,
       CheckpointWriteKeeps, CheckpointFindsKeeps, RecheckKeeps, ProposeKeeps,
       AdvanceKeeps DEF CaptureStep
  <2>5. ASSUME NEW p \in Procs, PlanStep(p) PROVE IInv'
    BY <2>5, ReadyKeeps, PlanCreateKeeps, PlanWriteKeeps, PlanFindsKeeps, ValidateKeeps,
       AppendKeeps, AnswerKeeps DEF PlanStep
  <2>6. ASSUME NEW p \in Procs, Quit(p) PROVE IInv'
    BY <2>6, QuitKeeps
  <2>7. ASSUME Edit PROVE IInv'
    BY <2>7, EditKeeps
  <2> QED BY <2>1, <2>2, <2>3, <2>4, <2>5, <2>6, <2>7 DEF Next
<1> QED BY <1>1, <1>2, PTL DEF Spec

\* However often a capture is repeated and whatever happens to the worktree, one
\* operation proposes one Revision, and joins that one.
THEOREM OneSnapshot == Spec => []OneSnapshotPerOperation
<1>1. IInv => OneSnapshotPerOperation
  <2> SUFFICES ASSUME IInv PROVE OneSnapshotPerOperation
    OBVIOUS
  <2>1. \A x, y \in captured : x[1] = y[1] => x[2] = y[2]
    BY DEF IInv, HistoryOK
  <2>2. ASSUME NEW o \in Ops, plan[o].state = "whole", plan[o].req.kind \in Captures,
               NEW f \in Of(log, "joined"), f.event.op = o
        PROVE  <<o, f.rev>> \in captured
    <3>1. PlanOK(o) /\ f \in plan[o].events /\ f.kind = "joined"
      BY <2>2 DEF IInv, LogOK, Of
    <3>2. f.rev = plan[o].rev
      BY <2>2, <3>1, JoinedRevision DEF PlanOK, PlanShape
    <3> QED BY <2>2, <3>1, <3>2 DEF PlanOK
  <2> QED BY <2>1, <2>2 DEF OneSnapshotPerOperation
<1> QED BY <1>1, OperationsInvariant, PTL

\* What an operation records is what its retained plan says, and a completed one
\* is recorded to the last event.
THEOREM PlansGovern == Spec => []PlanGoverns
<1>1. IInv => PlanGoverns
  BY DEF IInv, LogOK, HistoryOK, PlanGoverns
<1> QED BY <1>1, OperationsInvariant, PTL

-----------------------------------------------------------------------------
(* Cycles.                                                                 *)

\* Edges that leave a node nothing replaces close no cycle.
LEMMA NoCycleFromTop ==
    ASSUME NEW E, NEW D, NEW V, NEW s,
           HasCycle(D, V),
           \A u, v : <<u, v>> \in D => v # s,
           \A u, v : <<u, v>> \in D /\ u # s => <<u, v>> \in E
    PROVE  HasCycle(E, V)
<1>1. PICK S \in SUBSET V : S # {} /\ \A x \in S : \E y \in S : <<y, x>> \in D
  BY DEF HasCycle
<1>2. s \notin S
  BY <1>1
<1>3. \A x \in S : \E y \in S : <<y, x>> \in E
  BY <1>1, <1>2
<1> QED BY <1>1, <1>3 DEF HasCycle

LEMMA FewerEdges ==
    ASSUME NEW E, NEW D, NEW V, D \subseteq E, HasCycle(D, V)
    PROVE  HasCycle(E, V)
BY DEF HasCycle

\* In a clean graph every active relation is an edge between members.
LEMMA CleanRelations ==
    ASSUME NEW F, NEW c, Clean(Token(F, c)), NEW e \in Relations(F, c)
    PROVE  /\ e.succ \in Members(F, c) /\ e.pred \in Members(F, c)
           /\ <<e.succ, e.pred>> \in Supersedes(F, c)
<1>1. /\ ~RevisionConflict(F, c)
      /\ ~Gaps(F, c).relationUnbound /\ ~Gaps(F, c).relationOutside
  BY Zenon DEF Clean, Token
<1>2. ~EndContested(F, e)
  BY <1>1 DEF RevisionConflict
<1>3. Exact(F, e)
  BY <1>1, <1>2, Zenon DEF Gaps
<1>4. {e.succ, e.pred} \subseteq Members(F, c)
  BY <1>1, <1>2, <1>3, Zenon DEF Gaps
<1> QED BY <1>3, <1>4 DEF Supersedes

\* What is not withdrawn in the longer log was not in the shorter one.
LEMMA RelationsBack ==
    ASSUME NEW F, NEW G, F \subseteq G, NEW c, NEW e \in Relations(G, c), e \in F
    PROVE  e \in Relations(F, c)
BY DEF Relations, Claimed, Of, Withdrawn

\* The append of a planned event on the graph of the plan closes no cycle.
LEMMA PlannedAppend ==
    ASSUME IInv, NEW p \in Procs, at[p] = "append", NEW e \in todo[p],
           \A f \in log : f.event = e.event => f = e,
           p \notin overtaken, ~Recaptures(plan[cmd[p].op]),
           NEW c, HasCycle(ActiveRelations(log \cup {e}, c), Revs)
    PROVE  HasCycle(ActiveRelations(log, c), Revs)
<1> DEFINE o == cmd[p].op
           pl == plan[o]
           m == pl.req
           F == Baseline(log, pl.events)
           G == log \cup {e}
<1>1. /\ o \in Ops /\ pl.state = "whole" /\ m = cmd[p] /\ m \in Commands
      /\ e \in pl.events /\ PreconditionsHold(log, pl)
  BY DEF IInv, CallBased, CallFiles, CallLog, Ops
<1>2. Sound(m, pl.pre) /\ PlanShape(pl) /\ m.op = o
  BY <1>1 DEF IInv, PlanOK
<1>3. PICK preds : pl.events = Events(m, pl.rev, preds) /\ (m.kind \in Advances => pl.rev \notin preds)
  BY <1>2 DEF PlanShape
<1>4. m.kind \in Kinds
  BY <1>1, ScenarioAssumption
<1>5. CASE e \in log
  <2>1. log \cup {e} = log
    BY <1>5
  <2> QED BY <2>1
<1>6. CASE e \notin Relations(G, c)
  <2>1. \A f \in Relations(G, c) : f \in log
    BY <1>6 DEF Relations, Claimed, Of
  <2>2. \A f \in Relations(G, c) : f \in Relations(log, c)
    BY <2>1, RelationsBack
  <2>3. ActiveRelations(G, c) \subseteq ActiveRelations(log, c)
    BY <2>2 DEF ActiveRelations
  <2> QED BY <2>3, FewerEdges
<1>7. CASE e \notin log /\ e \in Relations(G, c)
  <2>1. e.kind = "related" /\ e.change = c
    BY <1>7 DEF Relations, Claimed, Of
  <2>2. /\ m.kind \in Advances \cup {"relate"} /\ e.change = m.change
        /\ m.kind = "relate" => e.succ = m.succ /\ e.pred = m.pred
        /\ m.kind \in Advances => e.succ = pl.rev /\ e.pred \in preds
    BY <1>1, <1>3, <1>4, <2>1, PlannedRelation
  <2>3. PICK x \in pl.pre :
            /\ x.change = m.change /\ Clean(x.token)
            /\ m.kind = "relate" => m.succ \in x.token.current /\ m.succ # m.pred
    BY <1>2, <2>2 DEF Sound
  <2>4. ~Recorded(log, e)
    BY <1>7 DEF Recorded
  <2>5. Token(F, c) = x.token
    BY <1>1, <2>1, <2>2, <2>3, <2>4 DEF PreconditionsHold, Unchanged
  <2>6. /\ x.token.current = CurrentRevisions(F, c)
        /\ x.token.members = Members(F, c)
    BY <2>5 DEF Token
  <2>7. pl.rev \notin Members(F, c)
    BY <2>3, <2>6 DEF Recaptures
  <2>8. ASSUME NEW f \in Relations(G, c), f \notin F PROVE f \in pl.events
    <3>1. f \in G /\ \E g \in pl.events : g.event = f.event
      BY <2>8, <1>1 DEF Relations, Claimed, Of, Baseline
    <3>2. f.event.op = o
      BY <3>1, <1>2, <1>3, EventKeys
    <3>3. CASE f \in log
      BY <3>2, <3>3, <1>1 DEF IInv, LogOK
    <3> QED BY <3>1, <3>3, <1>1
  <2>9. F \subseteq G
    BY DEF Baseline
  <2>10. ASSUME NEW f \in Relations(G, c) PROVE f.pred # e.succ
    <3>1. CASE f \in F
      <4>1. f \in Relations(F, c)
        BY <3>1, <2>9, RelationsBack
      <4>2. f.pred \in Members(F, c) /\ <<f.succ, f.pred>> \in Supersedes(F, c)
        BY <4>1, <2>3, <2>5, CleanRelations
      <4>3. f.pred \notin CurrentRevisions(F, c)
        BY <4>2 DEF CurrentRevisions
      <4> QED BY <4>2, <4>3, <2>2, <2>3, <2>6, <2>7
    <3>2. CASE f \notin F
      <4>1. f \in pl.events /\ f.kind = "related"
        BY <3>2, <2>8 DEF Relations, Claimed, Of
      <4>2. /\ m.kind = "relate" => f.pred = m.pred
            /\ m.kind \in Advances => f.pred \in preds
        BY <4>1, <1>3, <1>4, PlannedRelation
      <4> QED BY <4>2, <1>3, <2>2, <2>3
    <3> QED BY <3>1, <3>2
  <2>11. ASSUME NEW u, NEW v, <<u, v>> \in ActiveRelations(G, c)
         PROVE  v # e.succ /\ (u # e.succ => <<u, v>> \in ActiveRelations(log, c))
    <3>1. PICK f \in Relations(G, c) : u = f.succ /\ v = f.pred
      BY <2>11 DEF ActiveRelations
    <3>2. v # e.succ
      BY <3>1, <2>10
    <3>3. ASSUME u # e.succ PROVE <<u, v>> \in ActiveRelations(log, c)
      <4>1. f \in log
        BY <3>1, <3>3 DEF Relations, Claimed, Of
      <4>2. f \in Relations(log, c)
        BY <4>1, RelationsBack
      <4> QED BY <3>1, <4>2 DEF ActiveRelations
    <3> QED BY <3>2, <3>3
  <2> HIDE DEF G
  <2>12. HasCycle(ActiveRelations(G, c), Revs)
    BY DEF G
  <2> QED BY <2>11, <2>12, NoCycleFromTop
<1> QED BY <1>5, <1>6, <1>7

\* A proposal changes no relation.
LEMMA ProposalNoRelation ==
    ASSUME NEW F, NEW r, NEW c
    PROVE  ActiveRelations(F \cup {Proposal(r)}, c) = ActiveRelations(F, c)
<1>1. Proposal(r).kind = "revision"
  BY DEF Proposal
<1>2. Relations(F \cup {Proposal(r)}, c) = Relations(F, c)
  BY <1>1 DEF Relations, Claimed, Of, Withdrawn
<1> QED BY <1>2 DEF ActiveRelations

\* The checks before the append let a cycle arise only in a call that another one
\* overtook, or in the retry of a capture whose Revision was already a member.
THEOREM CyclesOnlyWhenOvertaken == Spec => CyclesNeedOvertaking
<1> DEFINE Excused ==
        \A c \in Changes :
          HasCycle(ActiveRelations(log', c), Revs)
          /\ ~HasCycle(ActiveRelations(log, c), Revs) =>
             \E p \in Procs : /\ at[p] = "append" /\ todo'[p] # todo[p]
                              /\ p \in overtaken \/ Recaptures(plan[cmd[p].op])
<1>1. ASSUME IInv, [Next]_vars PROVE Excused
  <2>1. ASSUME log' = log PROVE Excused
    BY <2>1
  <2>2. ASSUME NEW p \in Procs, Propose(p) PROVE Excused
    BY <2>2, ProposalNoRelation DEF Propose
  <2>3. ASSUME NEW p \in Procs, Append(p), NEW c \in Changes,
               HasCycle(ActiveRelations(log', c), Revs),
               ~HasCycle(ActiveRelations(log, c), Revs)
        PROVE  /\ at[p] = "append" /\ todo'[p] # todo[p]
               /\ p \in overtaken \/ Recaptures(plan[cmd[p].op])
    <3>1. PICK e \in todo[p] :
              /\ \A f \in log : f.event = e.event => f = e
              /\ log' = log \cup {e}
              /\ todo' = [todo EXCEPT ![p] = @ \ {e}]
      BY <2>3 DEF Append
    <3>2. at[p] = "append" /\ todo'[p] # todo[p]
      BY <1>1, <2>3, <3>1 DEF Append, IInv, Domains
    <3> QED BY <1>1, <2>3, <3>1, <3>2, PlannedAppend
  <2>4. ASSUME UNCHANGED vars PROVE log' = log
    BY <2>4 DEF vars
  <2>5. ASSUME NEW m \in Commands, Select(m) PROVE log' = log
    BY <2>5 DEF Select
  <2>6. ASSUME NEW p \in Procs, NEW m \in Commands, Start(p, m) PROVE log' = log
    BY <2>6 DEF Start
  <2>7. ASSUME NEW p \in Procs, CaptureStep(p), ~Propose(p) PROVE log' = log
    BY <2>7 DEF CaptureStep, LookUp, CaptureReady, Prepare, CheckpointCreate,
                CheckpointWrite, CheckpointFinds, Recheck, Advance
  <2>8. ASSUME NEW p \in Procs, PlanStep(p), ~Append(p) PROVE log' = log
    BY <2>8 DEF PlanStep, Ready, PlanCreate, PlanWrite, PlanFinds, Validate, Answer
  <2>9. ASSUME NEW p \in Procs, Quit(p) PROVE log' = log
    BY <2>9 DEF Quit
  <2>10. ASSUME Edit PROVE log' = log
    BY <2>10 DEF Edit
  <2>11. \/ log' = log
         \/ \E p \in Procs : Propose(p)
         \/ \E p \in Procs : Append(p)
    BY <1>1, <2>4, <2>5, <2>6, <2>7, <2>8, <2>9, <2>10 DEF Next
  <2> QED BY <2>1, <2>2, <2>3, <2>11
<1>2. IInv /\ [Next]_vars => [Excused]_vars
  BY <1>1
<1> QED BY <1>2, OperationsInvariant, PTL DEF Spec, CyclesNeedOvertaking
===============================================================================

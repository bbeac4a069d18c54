-------------------------- MODULE ChangeMigration --------------------------
(***************************************************************************)
(* The activation of the Change cohort: `change migrate` takes one store   *)
(* from L0 (no capability) through M1 (activation record, part of the      *)
(* reserved adoption records) to L2 (completion record), from an approved  *)
(* dry run, with an external backup and a retained plan, beside writers    *)
(* that the capability records admit or refuse; and `change                *)
(* migrate-restore` of that backup.                                        *)
(* src/src/session/workflow/change_migration.rs,                           *)
(* src/src/session/store/capabilities.rs, src/src/session/store/           *)
(* event_store.rs, src/src/session/workflow/ingest.rs.                     *)
(*                                                                         *)
(* One exclusive create is one step, as EventStore justifies.  A journal   *)
(* record is told apart by its key and by whether its bytes are the ones   *)
(* its author wrote or a copy that ingest stamped on the way in.           *)
(***************************************************************************)
EXTENDS Naturals

CONSTANTS
    Products,    \* legacy events: revisions to be adopted
    Captures,    \* those captured here: an artifact of the same name goes first
    Changes,     \* native Change records
    OldTypes,    \* records an older version left, of event types since retired
    OldForms,    \* and in envelopes since retired, of types that are known
    Leftovers,   \* the sets of those that a store may have
    Ops,         \* migrate commands: operation id, dry run and backup directory
    Times,       \* what the clock may say when a plan is signed
    Writers,     \* processes that append events
    Migration,   \* the running migrate call, as holder of the authority lock
    PeerKeys,    \* keys of the events a peer forwards to ingest
    CrashBound,  \* number of times a running call may die
    None         \* nobody, nothing

ProductKeys == {"product"} \X Products
AdoptionKeys == {"adoption"} \X Products
NativeKeys == {"change"} \X Changes
ChangeKeys == AdoptionKeys \cup NativeKeys
OldTypeKeys == {"oldtype"} \X OldTypes
RetiredKeys == OldTypeKeys \cup ({"oldform"} \X OldForms)
LegacyKeys == ProductKeys \cup RetiredKeys
Keys == LegacyKeys \cup ChangeKeys

ASSUME ChangeMigrationAssumption ==
    /\ Captures \subseteq Products
    /\ Leftovers \subseteq SUBSET RetiredKeys
    /\ PeerKeys \subseteq ProductKeys \cup ChangeKeys
    /\ CrashBound \in Nat
    /\ Migration \notin Writers
    /\ None \notin Writers \cup {Migration} \cup Ops

\* A durable file of the store: its family, its name and its bytes.
Artifacts == {"artifact"} \X Captures \X {"own"}
Events == {<<k[1], k[2], b>> : k \in Keys, b \in {"own", "stamped"}}
Files == Artifacts \cup Events

VARIABLES
    artifacts,   \* captures whose artifact is in the store
    journal,     \* key -> "absent", or the bytes of the event record
    activation,  \* the record at the root activation key
    completions, \* the completion records
    dryrun,      \* op -> authority cursor of its approved dry run
    copied,      \* op -> files under its backup's store/ directory
    manifest,    \* op -> its backup manifest
    receipt,     \* op -> the backup's receipt is written
    plan,        \* op -> its retained execution plan
    final,       \* op -> its completion receipt is written
    holder,      \* who holds the authority lock
    admitted,    \* writer -> the route it was admitted to
    call,        \* the running migrate call
    target,      \* files of the store a backup is restored into
    restoring,   \* op whose backup is being restored
    crashes      \* calls that have died

store == <<artifacts, journal, activation, completions>>
backup == <<copied, manifest, receipt, plan, final>>
recovery == <<target, restoring>>
vars == <<store, dryrun, backup, holder, admitted, call, recovery, crashes>>

IdleCall == [op |-> None, pc |-> "idle", initial |-> None, before |-> {}, left |-> {}]

Statuses == {"MigrationRequired", "MigrationInProgress", "Ready", "Refused"}
Cursors == SUBSET Events
Plans == [op : Ops, source : Cursors, at : Times]
Manifests == [source : Cursors, entries : SUBSET Files]

\* The absent cursor, plan and manifest are none of the present ones.
ASSUME NoneAssumption ==
    (\A source \in Cursors : source # None) /\ None \notin Plans /\ None \notin Manifests

Calls == [op : Ops \cup {None},
          pc : {"idle", "inspect", "copy", "receipt", "plan", "execute", "activate",
                "check", "append", "verify", "finish"},
          initial : Statuses \cup {None},
          before : SUBSET Files,
          left : SUBSET AdoptionKeys]

\* Every variable keeps its shape; the lock holder is the running call or the
\* one admitted writer.
TypeOK ==
    /\ artifacts \subseteq Captures
    /\ journal \in [Keys -> {"absent", "own", "stamped"}]
    /\ activation \in Plans \cup {None}
    /\ completions \subseteq Plans
    /\ dryrun \in [Ops -> Cursors \cup {None}]
    /\ copied \in [Ops -> SUBSET Files]
    /\ manifest \in [Ops -> Manifests \cup {None}]
    /\ receipt \in [Ops -> BOOLEAN]
    /\ plan \in [Ops -> Plans \cup {None}]
    /\ final \in [Ops -> BOOLEAN]
    /\ holder \in Writers \cup {Migration, None}
    /\ admitted \in [Writers -> {"none", "product", "change"}]
    /\ call \in Calls
    /\ target \subseteq Files
    /\ restoring \in Ops \cup {None}
    /\ crashes \in 0..CrashBound
    /\ (holder = Migration) <=> (call.pc # "idle")
    /\ \A w \in Writers : (holder = w) <=> (admitted[w] # "none")

\* An L0 store with the records older versions left in it; ingest decodes what
\* it takes in, so nothing brings more of those.
Init ==
    /\ artifacts = {}
    /\ \E old \in Leftovers :
          journal = [k \in Keys |-> IF k \in old THEN "own" ELSE "absent"]
    /\ activation = None
    /\ completions = {}
    /\ dryrun = [o \in Ops |-> None]
    /\ copied = [o \in Ops |-> {}]
    /\ manifest = [o \in Ops |-> None]
    /\ receipt = [o \in Ops |-> FALSE]
    /\ plan = [o \in Ops |-> None]
    /\ final = [o \in Ops |-> FALSE]
    /\ holder = None
    /\ admitted = [w \in Writers |-> "none"]
    /\ call = IdleCall
    /\ target = {}
    /\ restoring = None
    /\ crashes = 0

-----------------------------------------------------------------------------
(* What the readers of the capability records see.                         *)

Present(k) == journal[k] # "absent"

\* The record set of an L0 journal, retired encodings included; its cursor is a
\* hash of exactly this.
Records(keys) == {<<k[1], k[2], journal[k]>> : k \in {x \in keys : Present(x)}}
Cursor == Records(Keys)

\* The adoption records a manifest over this authority reserves: planning is a
\* function of the legacy events and of decisions fixed in the dry run.
Reserved(source) == {<<"adoption", e[2]>> : e \in {f \in source : f[1] = "product"}}

\* activation_id and completion_id bind the operation and the manifest; the
\* time of signing is only in the bytes.
SameIdentity(a, b) == a.op = b.op /\ a.source = b.source

\* bounded_writer_capability_status: two point reads, no listing.
BoundedStatus ==
    IF activation = None THEN "MigrationRequired"
    ELSE IF \E c \in completions : SameIdentity(c, activation)
         THEN "Ready" ELSE "MigrationInProgress"

\* validate_event_probe knows no retired event type.
Outdated == \E k \in OldTypeKeys : Present(k)

\* route_journal_entries on an activated journal: every record is validated.
\* A retired envelope passes: the probe ignores the fields it does not know.
StrictStatus ==
    LET reserved == Reserved(activation.source)
        complete == /\ \E c \in completions : completions = {c} /\ SameIdentity(c, activation)
                    /\ \A k \in reserved : journal[k] = "own"
        prefix == \A k \in ChangeKeys : Present(k) => k \in reserved /\ journal[k] = "own"
    IN  IF Outdated THEN "Refused"
        ELSE IF completions # {} THEN IF complete THEN "Ready" ELSE "Refused"
        ELSE IF prefix THEN "MigrationInProgress" ELSE "Refused"

\* inspect_change_reader_journal_records: an unactivated journal is routed
\* leniently.  A retired type or envelope is counted and passed over; the
\* refusal of Change records is reached only for event codes this reader does
\* not know, and it knows all of them.
ReaderStatus == IF activation = None THEN "MigrationRequired" ELSE StrictStatus

-----------------------------------------------------------------------------
(* Writers.                                                                *)

\* A capture stores its artifact before it takes the authority lock.
StoreArtifact(p) ==
    /\ p \notin artifacts
    /\ artifacts' = artifacts \cup {p}
    /\ UNCHANGED <<journal, activation, completions, dryrun, backup, holder, admitted,
                   call, recovery, crashes>>

\* Mutant of AdmitProduct: the preflight of the capability records is dropped.
AdmitProductUnchecked(w) ==
    /\ holder = None
    /\ holder' = w
    /\ admitted' = [admitted EXCEPT ![w] = "product"]
    /\ UNCHANGED <<store, dryrun, backup, call, recovery, crashes>>

\* begin_current_product_batch: lock, then admission at L0 or L2.
AdmitProduct(w) ==
    /\ holder = None
    /\ BoundedStatus \in {"MigrationRequired", "Ready"}
    /\ holder' = w
    /\ admitted' = [admitted EXCEPT ![w] = "product"]
    /\ UNCHANGED <<store, dryrun, backup, call, recovery, crashes>>

\* record_change_event_once_acknowledged: lock, then admission at L2 only.
AdmitChange(w) ==
    /\ holder = None
    /\ BoundedStatus = "Ready"
    /\ holder' = w
    /\ admitted' = [admitted EXCEPT ![w] = "change"]
    /\ UNCHANGED <<store, dryrun, backup, call, recovery, crashes>>

\* publish_validated_event creates once and never overwrites.
Publish(k, bytes) ==
    /\ ~Present(k)
    /\ journal' = [journal EXCEPT ![k] = bytes]
    /\ UNCHANGED <<artifacts, activation, completions, dryrun, backup, holder, admitted,
                   call, recovery, crashes>>

AppendProduct(w, p) ==
    admitted[w] = "product" /\ p \in artifacts /\ Publish(<<"product", p>>, "own")

\* record_verified_events: a forwarded event is published with an ingest stamp,
\* whatever its type, on the product route.
Ingest(w, k) == admitted[w] = "product" /\ k \in PeerKeys /\ Publish(k, "stamped")

AppendChange(w, c) == admitted[w] = "change" /\ Publish(<<"change", c>>, "own")

\* The writer returns, or its process dies; either way the lock is free.
Release(w) ==
    /\ admitted[w] # "none"
    /\ holder' = None
    /\ admitted' = [admitted EXCEPT ![w] = "none"]
    /\ UNCHANGED <<store, dryrun, backup, call, recovery, crashes>>

-----------------------------------------------------------------------------
(* migrate_bulk_adoption.  Its steps run under the authority lock.         *)

\* dry_run_bulk_adoption, and the owner's approval of its document.
DryRun(o) ==
    /\ dryrun[o] = None
    /\ ReaderStatus = "MigrationRequired"
    /\ dryrun' = [dryrun EXCEPT ![o] = Cursor]
    /\ UNCHANGED <<store, backup, holder, admitted, call, recovery, crashes>>

Begin(o) ==
    /\ holder = None
    /\ dryrun[o] # None
    /\ holder' = Migration
    /\ call' = [IdleCall EXCEPT !.op = o, !.pc = "inspect"]
    /\ UNCHANGED <<store, dryrun, backup, admitted, recovery, crashes>>

Running(o, pc) == call.op = o /\ call.pc = pc
Goto(pc) == call' = [call EXCEPT !.pc = pc]
\* Mutant of EndCall: an early return that forgets the lock.
EndCallLocked == call' = IdleCall /\ holder' = holder

EndCall == call' = IdleCall /\ holder' = None

\* inventory_store_files of an L0 store, in path order: artifacts/ sorts before
\* events/.
StoreFiles == {<<"artifact", p, "own">> : p \in artifacts} \cup Cursor
Precedes(f, g) == f[1] = "artifact" /\ g[1] # "artifact"
\* Mutant of NextFiles: files in the order the directory gives them.
NextFilesUnsorted(left) == left

NextFiles(left) == {f \in left : \A g \in left : ~Precedes(g, f)}

\* verify_backup: manifest and receipt agree, and every listed file is there.
\* The source the manifest names must be the approved one.
BackupVerified(o) ==
    /\ receipt[o]
    /\ manifest[o] # None
    /\ manifest[o].entries \subseteq copied[o]

BackupApproved(o) == BackupVerified(o) /\ manifest[o].source = dryrun[o]

\* Mutant of InspectAdmits: the approved cursor is demanded at M1 too.
InspectAdmitsOnlyApproved(o) ==
    /\ ReaderStatus # "Refused"
    /\ Cursor = dryrun[o]
    /\ IF receipt[o] THEN BackupApproved(o)
                    ELSE plan[o] = None /\ ~final[o] /\ copied[o] \subseteq StoreFiles

\* What the call must find at L0: the approved cursor, and a backup that is
\* complete or an exact part of one.
InspectAdmits(o) ==
    \/ /\ ReaderStatus = "MigrationRequired"
       /\ Cursor = dryrun[o]
       /\ IF receipt[o] THEN BackupApproved(o)
                       ELSE plan[o] = None /\ ~final[o] /\ copied[o] \subseteq StoreFiles
    \/ ReaderStatus \in {"MigrationInProgress", "Ready"} /\ BackupApproved(o)

\* The first activation needs a signing key, and the command may have none.
KeyNeeded(o) == ReaderStatus = "MigrationRequired" /\ plan[o] = None

Inspect(o) ==
    /\ Running(o, "inspect")
    /\ InspectAdmits(o)
    /\ call' = [call EXCEPT !.pc = IF receipt[o] THEN "plan" ELSE "copy",
                           !.initial = ReaderStatus,
                           !.before = IF receipt[o] THEN {} ELSE StoreFiles]
    /\ UNCHANGED <<store, dryrun, backup, holder, admitted, recovery, crashes>>

CopyFile(o) ==
    /\ Running(o, "copy")
    /\ \E f \in NextFiles(call.before \ copied[o]) :
          copied' = [copied EXCEPT ![o] = @ \cup {f}]
    /\ UNCHANGED <<store, dryrun, manifest, receipt, plan, final, holder, admitted, call,
                   recovery, crashes>>

\* The manifest is written only if the store did not change while it was copied,
\* and must agree with one left by an earlier attempt.
ManifestOf(o) == [source |-> dryrun[o], entries |-> call.before]
CopyAdmits(o) == StoreFiles = call.before /\ manifest[o] \in {None, ManifestOf(o)}

WriteManifest(o) ==
    /\ Running(o, "copy")
    /\ call.before \subseteq copied[o]
    /\ CopyAdmits(o)
    /\ manifest' = [manifest EXCEPT ![o] = ManifestOf(o)]
    /\ call' = [call EXCEPT !.pc = "receipt", !.before = {}]
    /\ UNCHANGED <<store, dryrun, copied, receipt, plan, final, holder, admitted, recovery,
                   crashes>>

WriteReceipt(o) ==
    /\ Running(o, "receipt")
    /\ receipt' = [receipt EXCEPT ![o] = TRUE]
    /\ Goto("plan")
    /\ UNCHANGED <<store, dryrun, copied, manifest, plan, final, holder, admitted, recovery,
                   crashes>>

\* A retained plan is used as it stands if it matches the approved inputs; a new
\* one is signed only while the call began at L0 and the cursor still holds.
PlanMatches(o) == plan[o].op = o /\ plan[o].source = dryrun[o]
PlanAdmits(o) ==
    IF plan[o] # None THEN PlanMatches(o)
    ELSE /\ call.initial = "MigrationRequired"
         /\ ReaderStatus = "MigrationRequired"
         /\ Cursor = dryrun[o]

\* Mutant of RetainPlan: every attempt signs its plan anew.
RetainPlanResigned(o) ==
    /\ Running(o, "plan")
    /\ PlanAdmits(o)
    /\ \E t \in Times :
          plan' = [plan EXCEPT ![o] = [op |-> o, source |-> dryrun[o], at |-> t]]
    /\ Goto("execute")
    /\ UNCHANGED <<store, dryrun, copied, manifest, receipt, final, holder, admitted,
                   recovery, crashes>>

RetainPlan(o) ==
    /\ Running(o, "plan")
    /\ PlanAdmits(o)
    /\ \E t \in Times :
          plan' = [plan EXCEPT ![o] =
                     IF @ # None THEN @ ELSE [op |-> o, source |-> dryrun[o], at |-> t]]
    /\ Goto("execute")
    /\ UNCHANGED <<store, dryrun, copied, manifest, receipt, final, holder, admitted,
                   recovery, crashes>>

-----------------------------------------------------------------------------
(* execute_bulk_adoption_plan.                                             *)

ExecuteAdmits(o) ==
    /\ final[o] => call.initial = "Ready"
    /\ \/ ReaderStatus = "MigrationRequired" /\ Cursor = plan[o].source
       \/ /\ ReaderStatus \in {"MigrationInProgress", "Ready"}
          /\ SameIdentity(activation, plan[o])

Execute(o) ==
    /\ Running(o, "execute")
    /\ ExecuteAdmits(o)
    /\ Goto(IF ReaderStatus = "MigrationRequired" THEN "activate" ELSE "check")
    /\ UNCHANGED <<store, dryrun, backup, holder, admitted, recovery, crashes>>

\* publish_control_record: what create_record_once answered is not looked at.
Activate(o) ==
    /\ Running(o, "activate")
    /\ activation' = IF activation = None THEN plan[o] ELSE activation
    /\ Goto("check")
    /\ UNCHANGED <<artifacts, journal, completions, dryrun, backup, holder, admitted,
                   recovery, crashes>>

CheckAdmits(o) == StrictStatus \in {"MigrationInProgress", "Ready"}

\* Mutant of CheckActivated: an activation found by the call is taken for a
\* finished migration.
CheckActivatedDone(o) ==
    /\ Running(o, "check")
    /\ CheckAdmits(o)
    /\ call' = [call EXCEPT !.pc = IF call.initial = "MigrationRequired"
                                  THEN "append" ELSE "finish",
                           !.left = Reserved(plan[o].source)]
    /\ UNCHANGED <<store, dryrun, backup, holder, admitted, recovery, crashes>>

CheckActivated(o) ==
    /\ Running(o, "check")
    /\ CheckAdmits(o)
    /\ call' = [call EXCEPT !.pc = "append", !.left = Reserved(plan[o].source)]
    /\ UNCHANGED <<store, dryrun, backup, holder, admitted, recovery, crashes>>

AppendReserved(o) ==
    /\ Running(o, "append")
    /\ \E k \in call.left :
          /\ journal' = [journal EXCEPT ![k] = IF Present(k) THEN @ ELSE "own"]
          /\ call' = [call EXCEPT !.left = @ \ {k}]
    /\ UNCHANGED <<artifacts, activation, completions, dryrun, backup, holder, admitted,
                   recovery, crashes>>

\* Mutant of Complete: completion does not wait for the reserved records.
CompleteEarly(o) ==
    /\ Running(o, "append")
    /\ completions' = IF \E c \in completions : SameIdentity(c, plan[o])
                      THEN completions ELSE completions \cup {plan[o]}
    /\ Goto("verify")
    /\ UNCHANGED <<artifacts, journal, activation, dryrun, backup, holder, admitted,
                   recovery, crashes>>

Complete(o) ==
    /\ Running(o, "append")
    /\ call.left = {}
    /\ completions' = IF \E c \in completions : SameIdentity(c, plan[o])
                      THEN completions ELSE completions \cup {plan[o]}
    /\ Goto("verify")
    /\ UNCHANGED <<artifacts, journal, activation, dryrun, backup, holder, admitted,
                   recovery, crashes>>

VerifyAdmits(o) ==
    /\ StrictStatus = "Ready"
    /\ SameIdentity(activation, plan[o])
    /\ \A c \in completions : SameIdentity(c, plan[o])

Verify(o) ==
    /\ Running(o, "verify")
    /\ VerifyAdmits(o)
    /\ Goto("finish")
    /\ UNCHANGED <<store, dryrun, backup, holder, admitted, recovery, crashes>>

\* The receipt is written once a derived generation is published (or derived
\* access is off); a repeated command finds it and answers `existing`.
Finish(o) ==
    /\ Running(o, "finish")
    /\ final' = [final EXCEPT ![o] = TRUE]
    /\ EndCall
    /\ UNCHANGED <<store, dryrun, copied, manifest, receipt, plan, admitted, recovery,
                   crashes>>

\* An early return: the step the call is at does not admit it.
Refuse(o) ==
    /\ \/ Running(o, "inspect") /\ (KeyNeeded(o) \/ ~InspectAdmits(o))
       \/ Running(o, "copy") /\ call.before \subseteq copied[o] /\ ~CopyAdmits(o)
       \/ Running(o, "plan") /\ ~PlanAdmits(o)
       \/ Running(o, "execute") /\ ~ExecuteAdmits(o)
       \/ Running(o, "check") /\ ~CheckAdmits(o)
       \/ Running(o, "verify") /\ ~VerifyAdmits(o)
    /\ EndCall
    /\ UNCHANGED <<store, dryrun, backup, admitted, recovery, crashes>>

\* The process dies, or a file operation or the derived build fails: the call
\* ends where it is and the lock is free.
Crash ==
    /\ call.pc # "idle"
    /\ crashes < CrashBound
    /\ crashes' = crashes + 1
    /\ EndCall
    /\ UNCHANGED <<store, dryrun, backup, admitted, recovery>>

-----------------------------------------------------------------------------
(* restore_bulk_adoption_backup, under the target store's own lock.        *)

RestoreBegin(o) ==
    /\ restoring = None
    /\ BackupVerified(o)
    /\ target = {}
    /\ restoring' = o
    /\ UNCHANGED <<store, dryrun, backup, holder, admitted, call, target, crashes>>

RestoreFile(o) ==
    /\ restoring = o
    /\ \E f \in NextFiles(manifest[o].entries \ target) : target' = target \cup {f}
    /\ UNCHANGED <<store, dryrun, backup, holder, admitted, call, restoring, crashes>>

\* The restore is done, or it dies; what it leaves is then refused as a
\* destination that contains different files (or answered as existing).
RestoreEnd(o) ==
    /\ restoring = o
    /\ restoring' = None
    /\ UNCHANGED <<store, dryrun, backup, holder, admitted, call, target, crashes>>

-----------------------------------------------------------------------------
MigrateStep(o) ==
    \/ Inspect(o) \/ CopyFile(o) \/ WriteManifest(o) \/ WriteReceipt(o) \/ RetainPlan(o)
    \/ Execute(o) \/ Activate(o) \/ CheckActivated(o) \/ AppendReserved(o)
    \/ Complete(o) \/ Verify(o) \/ Finish(o) \/ Refuse(o)

WriterStep(w) ==
    \/ AdmitProduct(w) \/ AdmitChange(w) \/ Release(w)
    \/ \E p \in Captures : AppendProduct(w, p)
    \/ \E k \in PeerKeys : Ingest(w, k)
    \/ \E c \in Changes : AppendChange(w, c)

Next ==
    \/ \E p \in Captures : StoreArtifact(p)
    \/ \E w \in Writers : WriterStep(w)
    \/ \E o \in Ops : DryRun(o) \/ Begin(o) \/ MigrateStep(o)
    \/ \E o \in Ops : RestoreBegin(o) \/ RestoreFile(o) \/ RestoreEnd(o)
    \/ Crash

Spec == Init /\ [][Next]_vars

\* A call that has the lock goes on, a writer gives the lock back, and whoever
\* repeats a migrate command gets the contended lock in the end.
Fairness ==
    /\ \A o \in Ops : WF_vars(MigrateStep(o)) /\ SF_vars(Begin(o))
    /\ \A w \in Writers : WF_vars(Release(w))

FairSpec == Spec /\ Fairness

-----------------------------------------------------------------------------
(* Properties.                                                             *)

\* Writer admission reads two records and believes them; the reader validates
\* every record.  About an activated store they agree: no writer is let in on a
\* completion the strict router would not accept, and the migration does not
\* lead a store to where the strict router refuses it.  The one exception is a
\* store with a record of a retired event type, which the L0 router passes over:
\* the strict router refuses it from the activation on, and it stays at M1, so
\* no writer is ever let in again.
BoundedAgrees ==
    activation # None =>
        IF Outdated
          THEN BoundedStatus = "MigrationInProgress" /\ StrictStatus = "Refused"
          ELSE BoundedStatus = StrictStatus

\* From activation to completion the store holds exactly the approved legacy
\* events: none was appended after the cursor was approved, and none during M1.
LegacyRecords == Records(LegacyKeys)
ActivatedFromApproved ==
    BoundedStatus = "MigrationInProgress" => LegacyRecords = activation.source

\* An activation record is never in a store without what recovery needs, in the
\* backup directory of its operation: the retained plan with the same bytes, and
\* a verified copy of every event of the approved cursor with its artifact.
ActivationRecoverable ==
    activation # None =>
        LET o == activation.op
        IN  /\ plan[o] = activation
            /\ BackupVerified(o)
            /\ manifest[o].entries \cap Events = activation.source
            /\ \A f \in activation.source :
                  f[1] = "product" /\ f[3] = "own" => <<"artifact", f[2], "own">> \in copied[o]

\* A completion receipt is kept only beside the backup of the operation that the
\* store's own capability records name.
ReceiptNamesAuthority ==
    \A o \in Ops : final[o] =>
        /\ StrictStatus = "Ready"
        /\ activation = plan[o]
        /\ completions = {plan[o]}

\* However a restore stops, the fork has no event of a capture without its
\* artifact.
ForkHasArtifacts ==
    \A f \in target :
        f[1] = "product" /\ f[3] = "own" => <<"artifact", f[2], "own">> \in target

\* An interrupted transition is resumed: while its command is repeated, a store
\* that was activated becomes Ready, unless it has a record of a retired event
\* type (BoundedAgrees says where it is then left).
TransitionCompletes ==
    (activation # None /\ ~Outdated) ~> (activation # None /\ StrictStatus = "Ready")

\* What the comments of the reader and of the executor say: Change records
\* without an activation fail closed, so a migration that activates a store leaves
\* one its own strict inspection accepts, and repeating it converges.
ActivatedStoreRoutes == activation # None => StrictStatus # "Refused"
=============================================================================

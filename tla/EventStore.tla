----------------------------- MODULE EventStore -----------------------------
(***************************************************************************)
(* The authoritative store at the level of its file operations: the        *)
(* exclusive create of src/src/storage/mod.rs, the per-store authority     *)
(* lock, and the event writer of src/src/session/store/event_store.rs.     *)
(*                                                                         *)
(* Processes of any number write to one store directory.  Events are       *)
(* written under the authority lock, in batches; artifacts (objects, note  *)
(* bodies, proofs) are written without it, before the event that names     *)
(* them.  Every system call of create_file_exclusive is a step of its own, *)
(* so any other process, the temp sweep, a kill or a power loss can come   *)
(* between any two of them.                                                *)
(*                                                                         *)
(* A temp file a dead writer leaves behind is not kept in the state: every *)
(* later writer takes a fresh name, so all that can happen to it is to be  *)
(* swept.                                                                  *)
(*                                                                         *)
(* The directories the files are in are made by the writers too, and only  *)
(* a file's own directory is ever fsynced, never the one above it: what is *)
(* in a directory that is itself new can go with it when the power does.   *)
(***************************************************************************)
EXTENDS FiniteSets

CONSTANTS
    Procs,          \* the processes (threads) that write to the store
    Keys,           \* idempotency keys; each names one file under events/
    Blobs,          \* content-addressed artifact paths
    Pays,           \* payload hashes
    Envs,           \* what eventRecordHash covers beside the payload
    Sigs,           \* signer and signature bindings
    Needs,          \* Needs[k]: the artifacts an event under key k refers to
    PowerLoss,      \* TRUE when the machine may lose power
    NoProc, Absent, Partial

Record == [pay : Pays, env : Envs, sig : Sigs]
Paths == Keys \cup Blobs

\* What may be written at a path: any record under a key; an artifact's path
\* is the hash of its bytes, so the path stands for the one body it can have.
Body(f) == IF f \in Keys THEN Record ELSE {f}
Bodies == Record \cup Blobs

ASSUME NeedsAssumption == Needs \in [Keys -> SUBSET Blobs]
ASSUME PathAssumption == Keys \cap Blobs = {}
ASSUME MarkAssumption ==
    /\ Absent \notin Bodies \cup Keys \cup {Partial}
    /\ Partial \notin Bodies
    /\ NoProc \notin Procs
ASSUME PowerAssumption == PowerLoss \in BOOLEAN

VARIABLES
    files,          \* the file visible at each final path
    durable,        \* the paths whose directory entry has been fsynced
    dirs,           \* the directories themselves
    temp,           \* each process's temp file, as the directory has it
    authority,      \* who holds the store's authority lock
    pc,             \* where each process is
    target,         \* the path of its create_file_exclusive call
    bytes,          \* the bytes of that call
    staged,         \* the artifacts its workflow has stored so far
    reply,          \* the answer to its last event write
    created         \* history: paths some call has answered Created for, in
                    \* their directory as it is now

vars == <<files, durable, dirs, temp, authority, pc, target, bytes, staged,
          reply, created>>
disk == <<files, durable, dirs>>
call == <<target, bytes>>

Steps == {"idle", "waiting", "admit", "batch",
          "exists", "open", "write", "link", "sync", "readback"}

Replies == {"none", "Created", "Existing", "ExistingDivergentSignature", "Conflict"}

\* Where a call to create_file_exclusive, or the read-back after it, is under way.
InCreate(p) == pc[p] \in {"exists", "open", "write", "link", "sync", "readback"}

Present == {f \in Paths : files[f] # Absent}

\* Each directory stands for the whole way to it: it is "fresh" while the entry
\* of any directory on that way has not been fsynced.
Dirs == {"events", "artifacts"}
Directory(f) == IF f \in Keys THEN "events" ELSE "artifacts"
Entries(d) == {f \in Paths : Directory(f) = d}

\* The type of every variable, and that a process has call arguments, fit for
\* their path, exactly while it is inside create_file_exclusive.
TypeOK ==
    /\ files \in [Paths -> Bodies \cup {Absent, Partial}]
    /\ durable \subseteq Paths
    /\ dirs \in [Dirs -> {"absent", "fresh", "durable"}]
    /\ temp \in [Procs -> Bodies \cup {Absent, Partial}]
    /\ authority \in Procs \cup {NoProc}
    /\ pc \in [Procs -> Steps]
    /\ target \in [Procs -> Paths \cup {Absent}]
    /\ bytes \in [Procs -> Bodies \cup {Absent}]
    /\ staged \in [Procs -> SUBSET Blobs]
    /\ reply \in [Procs -> Replies]
    /\ created \subseteq Paths
    /\ \A p \in Procs :
          /\ InCreate(p) <=> target[p] \in Paths
          /\ InCreate(p) => bytes[p] \in Body(target[p])

\* A new store, or one whose directories have been there for long.
Init ==
    /\ files = [f \in Paths |-> Absent]
    /\ durable = {}
    /\ dirs \in [Dirs -> {"absent", "durable"}]
    /\ temp = [p \in Procs |-> Absent]
    /\ authority = NoProc
    /\ pc = [p \in Procs |-> "idle"]
    /\ target = [p \in Procs |-> Absent]
    /\ bytes = [p \in Procs |-> Absent]
    /\ staged = [p \in Procs |-> {}]
    /\ reply = [p \in Procs |-> "none"]
    /\ created = {}

(***************************************************************************)
(* How a call to create_file_exclusive begins and ends.                    *)
(***************************************************************************)
Call(p, f, b) ==
    /\ target' = [target EXCEPT ![p] = f]
    /\ bytes' = [bytes EXCEPT ![p] = b]
    /\ pc' = [pc EXCEPT ![p] = "exists"]

\* Mutant: the arguments of the call before are kept.
NoCallStale(p) ==
    /\ target' = target
    /\ bytes' = [bytes EXCEPT ![p] = Absent]

NoCall(p) ==
    /\ target' = [target EXCEPT ![p] = Absent]
    /\ bytes' = [bytes EXCEPT ![p] = Absent]

\* The lock handle is dropped with the batch, or closed by the OS at a kill.
Unlock(p) == authority' = IF authority = p THEN NoProc ELSE authority

\* The call returns success: an event writer goes on with its batch, an
\* artifact writer with its workflow.
Succeed(p, out) ==
    /\ NoCall(p)
    /\ IF target[p] \in Keys
          THEN /\ pc' = [pc EXCEPT ![p] = "batch"]
               /\ reply' = [reply EXCEPT ![p] = out]
               /\ UNCHANGED staged
          ELSE /\ pc' = [pc EXCEPT ![p] = "idle"]
               /\ staged' = [staged EXCEPT ![p] = @ \cup {target[p]}]
               /\ UNCHANGED reply
    /\ created' = IF out = "Created" THEN created \cup {target[p]} ELSE created
    /\ UNCHANGED authority

\* Mutant: an error path that forgets the lock handle instead of dropping it.
AbortKeepsLock(p, out) ==
    /\ NoCall(p)
    /\ pc' = [pc EXCEPT ![p] = "idle"]
    /\ staged' = [staged EXCEPT ![p] = {}]
    /\ reply' = [reply EXCEPT ![p] = out]
    /\ UNCHANGED <<authority, created>>

\* The error is propagated: the batch is dropped and the workflow ends.
Abort(p, out) ==
    /\ NoCall(p)
    /\ pc' = [pc EXCEPT ![p] = "idle"]
    /\ staged' = [staged EXCEPT ![p] = {}]
    /\ reply' = [reply EXCEPT ![p] = out]
    /\ Unlock(p)
    /\ UNCHANGED created

\* create_dir_all makes what is missing of a directory; nothing syncs the entry
\* of what it makes.
CreateDirAll(d) ==
    dirs' = [dirs EXCEPT ![d] = IF @ = "absent" THEN "fresh" ELSE @]

(***************************************************************************)
(* The workflow: artifacts first, then a batch of events under the lock.   *)
(***************************************************************************)

\* prepare_store_writer_at, at the start of a workflow: ensure_store_dirs makes
\* the directories of the store, one after the other.
EnsureStoreDirs(p, d) ==
    /\ pc[p] = "idle"
    /\ dirs[d] = "absent"
    /\ CreateDirAll(d)
    /\ UNCHANGED <<files, durable, temp, authority, pc, call, staged, reply, created>>

\* ContentStore::put_once, called with no lock held.
PutOnce(p, b) ==
    /\ pc[p] = "idle"
    /\ Call(p, b, b)
    /\ reply' = [reply EXCEPT ![p] = "none"]
    /\ UNCHANGED <<disk, temp, authority, staged, created>>

\* StoreAuthorityLock::acquire opens the lock file and blocks on it.
BeginBatch(p) ==
    /\ pc[p] = "idle"
    /\ pc' = [pc EXCEPT ![p] = "waiting"]
    /\ reply' = [reply EXCEPT ![p] = "none"]
    /\ UNCHANGED <<disk, temp, authority, call, staged, created>>

\* Mutant: the lock is taken without looking at who has it.
AcquireShared(p) ==
    /\ pc[p] = "waiting"
    /\ authority' = p
    /\ pc' = [pc EXCEPT ![p] = "admit"]
    /\ UNCHANGED <<disk, temp, call, staged, reply, created>>

Acquire(p) ==
    /\ pc[p] = "waiting"
    /\ authority = NoProc
    /\ authority' = p
    /\ pc' = [pc EXCEPT ![p] = "admit"]
    /\ UNCHANGED <<disk, temp, call, staged, reply, created>>

\* preflight_current_product, under the lock: the store's capability state
\* admits the writer or refuses it.
Admit(p) ==
    /\ pc[p] = "admit"
    /\ pc' = [pc EXCEPT ![p] = "batch"]
    /\ UNCHANGED <<disk, temp, authority, call, staged, reply, created>>

Refuse(p) ==
    /\ pc[p] = "admit"
    /\ Abort(p, "none")
    /\ UNCHANGED <<disk, temp>>

\* Mutant: the event is recorded without its artifacts having been stored.
RecordEventEarly(p, k, r) ==
    /\ pc[p] = "batch"
    /\ Call(p, k, r)
    /\ reply' = [reply EXCEPT ![p] = "none"]
    /\ UNCHANGED <<disk, temp, authority, staged, created>>

\* EventWriteBatch::record_event_once: the next event of the batch.  Its
\* artifacts have been stored by this workflow before.
RecordEvent(p, k, r) ==
    /\ pc[p] = "batch"
    /\ Needs[k] \subseteq staged[p]
    /\ Call(p, k, r)
    /\ reply' = [reply EXCEPT ![p] = "none"]
    /\ UNCHANGED <<disk, temp, authority, staged, created>>

\* The batch is dropped; the workflow goes on, or ends with it.
EndBatch(p) ==
    /\ pc[p] = "batch"
    /\ pc' = [pc EXCEPT ![p] = "idle"]
    /\ \E rest \in {staged[p], {}} : staged' = [staged EXCEPT ![p] = rest]
    /\ Unlock(p)
    /\ UNCHANGED <<disk, temp, call, reply, created>>

(***************************************************************************)
(* create_file_exclusive, one system call at a time.                       *)
(***************************************************************************)

\* path.try_exists(): an existing path is answered for at once.
CheckExists(p) ==
    /\ pc[p] = "exists"
    /\ pc' = [pc EXCEPT ![p] = IF files[target[p]] = Absent THEN "open" ELSE "readback"]
    /\ UNCHANGED <<disk, temp, authority, call, staged, reply, created>>

\* Mutant: the temp file is published before it has been written.
OpenTempUnwritten(p) ==
    /\ pc[p] = "open"
    /\ CreateDirAll(Directory(target[p]))
    /\ temp' = [temp EXCEPT ![p] = Partial]
    /\ pc' = [pc EXCEPT ![p] = "link"]
    /\ UNCHANGED <<files, durable, authority, call, staged, reply, created>>

\* write_temp_file: create_dir_all of the directory, create_new under a fresh
\* name in it ...
OpenTemp(p) ==
    /\ pc[p] = "open"
    /\ CreateDirAll(Directory(target[p]))
    /\ temp' = [temp EXCEPT ![p] = Partial]
    /\ pc' = [pc EXCEPT ![p] = "write"]
    /\ UNCHANGED <<files, durable, authority, call, staged, reply, created>>

\* ... write_all and sync_all through the open handle, which works on even
\* when the name has been swept away.
WriteTemp(p) ==
    /\ pc[p] = "write"
    /\ temp' = [temp EXCEPT ![p] = IF @ = Absent THEN Absent ELSE bytes[p]]
    /\ pc' = [pc EXCEPT ![p] = "link"]
    /\ UNCHANGED <<disk, authority, call, staged, reply, created>>

\* fs::hard_link, then removal of the temp name: the link is refused when the
\* final path exists, and fails when the temp name is gone.
LinkCreates(p) ==
    /\ pc[p] = "link"
    /\ temp[p] # Absent
    /\ files[target[p]] = Absent
    /\ files' = [files EXCEPT ![target[p]] = temp[p]]
    /\ temp' = [temp EXCEPT ![p] = Absent]
    /\ pc' = [pc EXCEPT ![p] = "sync"]
    /\ UNCHANGED <<durable, dirs, authority, call, staged, reply, created>>

LinkFindsExisting(p) ==
    /\ pc[p] = "link"
    /\ temp[p] # Absent
    /\ files[target[p]] # Absent
    /\ temp' = [temp EXCEPT ![p] = Absent]
    /\ pc' = [pc EXCEPT ![p] = "readback"]
    /\ UNCHANGED <<disk, authority, call, staged, reply, created>>

LinkFindsNoTemp(p) ==
    /\ pc[p] = "link"
    /\ temp[p] = Absent
    /\ Abort(p, "none")
    /\ UNCHANGED <<disk, temp>>

\* Mutant: the directory is not synced before the answer.
SyncParentSkipped(p) ==
    /\ pc[p] = "sync"
    /\ Succeed(p, "Created")
    /\ UNCHANGED <<disk, temp>>

\* sync_parent_directory: fsync of the directory makes all its entries durable,
\* not its own entry in the directory above.
SyncParent(p) ==
    /\ pc[p] = "sync"
    /\ durable' = durable \cup (Present \cap Entries(Directory(target[p])))
    /\ Succeed(p, "Created")
    /\ UNCHANGED <<files, dirs, temp>>

(***************************************************************************)
(* AlreadyExists: the stored file is read and compared.                    *)
(***************************************************************************)
SignatureBindingMatches(e, r) == e.sig = r.sig
EventRecordHash(e) == [pay |-> e.pay, env |-> e.env]

\* Mutant: the record hashes are compared before the signature bindings.
ExistingOutcomeHashFirst(e, r) ==
    IF EventRecordHash(e) = EventRecordHash(r)
      THEN "ExistingDivergentSignature" ELSE "Existing"

ExistingOutcome(e, r) ==
    IF SignatureBindingMatches(e, r) THEN "Existing"
    ELSE IF EventRecordHash(e) = EventRecordHash(r) THEN "ExistingDivergentSignature"
    ELSE "Existing"

\* publish_validated_event: a different payload under the key is an error.
ReadBackEvent(p) ==
    /\ pc[p] = "readback"
    /\ target[p] \in Keys
    /\ LET existing == files[target[p]] IN
         IF existing.pay = bytes[p].pay
           THEN Succeed(p, ExistingOutcome(existing, bytes[p]))
           ELSE Abort(p, "Conflict")
    /\ UNCHANGED <<disk, temp>>

\* put_object, put_note_body: the same path holds the same bytes, or the store
\* has been tampered with.
ReadBackArtifact(p) ==
    /\ pc[p] = "readback"
    /\ target[p] \in Blobs
    /\ IF files[target[p]] = bytes[p]
          THEN Succeed(p, "Existing")
          ELSE Abort(p, "none")
    /\ UNCHANGED <<disk, temp>>

(***************************************************************************)
(* What goes wrong.                                                        *)
(***************************************************************************)

\* Any call of create_file_exclusive, or the read after it, may return an
\* error, the directory fsync included.
IoError(p) ==
    /\ InCreate(p)
    /\ Abort(p, "none")
    /\ temp' = [temp EXCEPT ![p] = Absent]
    /\ UNCHANGED disk

\* sweep_stale_temp_files runs at the start of a workflow, with no lock, and
\* goes by age alone: the temp file of a writer stalled for a minute goes too.
SweepTemp(p, q) ==
    /\ pc[p] = "idle"
    /\ temp[q] # Absent
    /\ temp' = [temp EXCEPT ![q] = Absent]
    /\ UNCHANGED <<disk, authority, pc, call, staged, reply, created>>

\* The process is killed; the OS closes its files, and with them the lock.
Crash(p) ==
    /\ pc[p] # "idle"
    /\ Abort(p, "none")
    /\ temp' = [temp EXCEPT ![p] = Absent]
    /\ UNCHANGED disk

\* The machine stops.  A directory entry that was not fsynced may be gone, that
\* of a directory with everything in it; what is there afterwards stays.
LosePower ==
    /\ PowerLoss
    /\ \E gone \in SUBSET {d \in Dirs : dirs[d] = "fresh"},
          unsynced \in SUBSET (Present \ durable) :
          LET lost == unsynced \cup UNION {Entries(d) : d \in gone} IN
          /\ files' = [f \in Paths |-> IF f \in lost THEN Absent ELSE files[f]]
          /\ durable' = Present \ lost
          /\ dirs' = [d \in Dirs |-> IF d \in gone \/ dirs[d] = "absent"
                                       THEN "absent" ELSE "durable"]
          /\ created' = {f \in created : Directory(f) \notin gone}
    /\ temp' = [p \in Procs |-> Absent]
    /\ authority' = NoProc
    /\ pc' = [p \in Procs |-> "idle"]
    /\ target' = [p \in Procs |-> Absent]
    /\ bytes' = [p \in Procs |-> Absent]
    /\ staged' = [p \in Procs |-> {}]
    /\ reply' = [p \in Procs |-> "none"]

CreateStep(p) ==
    \/ CheckExists(p)
    \/ OpenTemp(p)
    \/ WriteTemp(p)
    \/ LinkCreates(p)
    \/ LinkFindsExisting(p)
    \/ LinkFindsNoTemp(p)
    \/ SyncParent(p)
    \/ ReadBackEvent(p)
    \/ ReadBackArtifact(p)

Next ==
    \/ \E p \in Procs :
          \/ \E d \in Dirs : EnsureStoreDirs(p, d)
          \/ \E b \in Blobs : PutOnce(p, b)
          \/ BeginBatch(p)
          \/ Acquire(p)
          \/ Admit(p)
          \/ Refuse(p)
          \/ \E k \in Keys, r \in Record : RecordEvent(p, k, r)
          \/ EndBatch(p)
          \/ CreateStep(p)
          \/ IoError(p)
          \/ \E q \in Procs : SweepTemp(p, q)
          \/ Crash(p)
    \/ LosePower

Spec == Init /\ [][Next]_vars

(***************************************************************************)
(* Fairness.  A process that is not killed is scheduled, so a step it can  *)
(* take on its own is taken; a caller hands a batch finitely many events,  *)
(* so it does not return to the batch for ever without ending it.          *)
(* Nothing is assumed of which waiter the OS gives a free lock to.         *)
(***************************************************************************)
Fairness ==
    \A p \in Procs :
        /\ WF_vars(CreateStep(p))
        /\ WF_vars(Admit(p) \/ Refuse(p))
        /\ SF_vars(EndBatch(p))

FairSpec == Spec /\ Fairness

(***************************************************************************)
(* Properties.                                                             *)
(***************************************************************************)

\* No reader ever finds an empty, partial or misplaced file at a final path:
\* create_file_exclusive publishes only what was written in full for it.
NoPartialVisible == \A f \in Paths : files[f] \in Body(f) \cup {Absent}

\* Under the authority lock the existence check of create_file_exclusive is
\* never stale: from the check to the link nobody else has created the event,
\* so an event write never loses the link race that artifact writes can lose.
ExistsCheckNeverStale ==
    \A p \in Procs :
        (pc[p] \in {"open", "write", "link"} /\ target[p] \in Keys)
            => authority = p /\ files[target[p]] = Absent

\* An event in the log has every artifact it names: the workflows store the
\* artifacts before the event, and a crash in between leaves at most an
\* artifact no event names.  (Without power loss.)
EventHasItsArtifacts ==
    \A k \in Keys : files[k] # Absent => \A b \in Needs[k] : files[b] # Absent

\* What some call has answered Created for is never lost again, whatever is
\* killed and whenever the power goes, with one exception: it goes with its
\* directory when that was made since the power was last lost, because
\* create_dir_all's own entry is never fsynced.
CreatedSurvives ==
    [][\A f \in created :
          \/ f \in Present'
          \/ dirs[Directory(f)] = "fresh" /\ dirs'[Directory(f)] = "absent"]_vars

\* The lock is always given back: whoever holds it ends its batch, fails or
\* is killed.
HolderReleases == \A p \in Procs : authority = p ~> authority # p

(***************************************************************************)
(* The store implements the abstract log.  A call is stored from the link  *)
(* on and answered when it returns; everything a process does before and   *)
(* after, artifacts and the temp sweep included, is invisible.             *)
(***************************************************************************)
logView == [k \in Keys |-> IF files[k] = Absent THEN <<>> ELSE <<files[k]>>]
reqView ==
    [p \in Procs |->
        IF InCreate(p) /\ target[p] \in Keys
          THEN <<target[p], bytes[p], IF pc[p] = "sync" THEN "stored" ELSE "busy">>
          ELSE <<>>]

Log == INSTANCE EventLog
         WITH Clients <- Procs, log <- logView, req <- reqView, reply <- reply

\* Every answer agrees with the log, Created goes to the one writer whose own
\* record was stored, and no stored record is ever replaced, with any number
\* of writers, failing calls, the temp sweep and kills at any point.
ImplementsEventLog == Log!Spec
=============================================================================

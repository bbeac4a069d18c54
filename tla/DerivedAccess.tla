--------------------------- MODULE DerivedAccess ----------------------------
(***************************************************************************)
(* Derived access: a disposable SQLite generation beside the event files,  *)
(* kept in step by governed writers, rebuilt from truth when it falls      *)
(* behind, and served only while the events directory still has the stamp  *)
(* the generation is bound to.                                             *)
(* src/src/session/derived_access/{writer,lifecycle}.rs,                   *)
(* src/src/session/derived_access/sqlite/{cursor,writer_lock}.rs,          *)
(* src/src/session/store/backend/local.rs.                                 *)
(*                                                                         *)
(* One event write is one step here (EventStore has its system calls), and *)
(* so is one SQLite transaction.  A stamp is only ever compared with the   *)
(* directory's present one, so a saved stamp is modelled by whether the    *)
(* two are still equal; that every change of the directory moves its stamp *)
(* is an assumption about the clock of the file system.                    *)
(***************************************************************************)
EXTENDS Naturals, FiniteSets

CONSTANTS
    Keys,           \* idempotency keys
    Pays,           \* event bytes
    Digest,         \* Digest[k]: where the file of k comes in a listing
    Writers,        \* DerivedWriteCoordinators, one per process
    Rebuilders,     \* whoever rebuilds the generation
    Platform,       \* "linux" or "macos": how one create is proved alone
    Foreign,        \* TRUE when older versions create events with no lock
    MaxTemps,       \* bound on the stale temp files in events/
    Nothing

Procs == Writers \cup Rebuilders

ASSUME KeysAssumption == IsFiniteSet(Keys)
ASSUME DigestAssumption ==
    /\ Digest \in [Keys -> Nat]
    /\ \A j, k \in Keys : Digest[j] = Digest[k] => j = k
ASSUME ProcAssumption == Writers \cap Rebuilders = {} /\ Nothing \notin Procs
ASSUME PayAssumption == Nothing \notin Pays
ASSUME ModeAssumption ==
    /\ Platform \in {"linux", "macos"}
    /\ Foreign \in BOOLEAN
    /\ MaxTemps \in Nat

VARIABLES
    truth,          \* the bytes stored under each key
    temps,          \* stale temp files in events/
    gen,            \* the published generation
    staging,        \* the candidate generation of a rebuild
    authority,      \* who holds the store's authority lock
    wlock,          \* who holds the derived writer lock
    lease,          \* who holds the rebuild lease
    at,             \* where each writer and rebuilder is
    want,           \* each writer's event
    out,            \* what its publication has come to
    watch,          \* its create watcher has seen somebody else's file
    cap,            \* the stamp it captured after its create is still current
    mode,           \* the coordinator's DerivedWriteMode
    reply           \* the answer to its last write

vars == <<truth, temps, gen, staging, authority, wlock, lease, at, want, out,
          watch, cap, mode, reply>>
events == <<truth, temps>>
locks == <<authority, wlock, lease>>
append == <<out, watch, cap>>
caller == <<want, mode, reply>>

Event == [key : Keys, pay : Pays]
Stored == {k \in Keys : truth[k] # Nothing}

WriterSteps == {"idle", "admit", "open", "recover", "intent", "publish", "published",
                "failed", "commit", "retire", "degrade", "catchup", "loose"}
RebuildSteps == {"idle", "bootstrap", "list", "project", "verify", "check", "promote",
                 "maintain"}

(***************************************************************************)
(* A generation: its cursor ledger, and how far its projections have got.  *)
(*   head      the last sequence number                                    *)
(*   seq, wit  the receipt of each key: its sequence (0: none) and witness *)
(*   intent    the append under way                                        *)
(*   bad       bootstrap_state = 'quarantined'                             *)
(*   fresh     the bound authority stamp is the directory's present one    *)
(*   count     the number of directory entries in that stamp (macOS)       *)
(*   applied   the locator checkpoint                                      *)
(***************************************************************************)
Generation ==
    [head : 0..Cardinality(Keys),
     seq : [Keys -> 0..Cardinality(Keys)],
     wit : [Keys -> Pays \cup {Nothing}],
     intent : [key : Keys, pay : Pays, seq : 1..(Cardinality(Keys) + 1)] \cup {Nothing},
     bad : BOOLEAN,
     fresh : BOOLEAN,
     count : 0..(Cardinality(Keys) + MaxTemps),
     applied : 0..Cardinality(Keys)]

ASSUME GenerationAssumption == Nothing \notin Generation

Receipted(g) == {k \in Keys : g.seq[k] # 0}

\* The directory as its stamp describes it; only macOS counts the entries.
EntryCount == IF Platform = "macos" THEN Cardinality(Stored) + temps ELSE 0

Init ==
    /\ truth = [k \in Keys |-> Nothing]
    /\ temps = 0
    /\ gen = Nothing
    /\ staging = Nothing
    /\ authority = Nothing
    /\ wlock = Nothing
    /\ lease = Nothing
    /\ at = [p \in Procs |-> "idle"]
    /\ want = [w \in Writers |-> Nothing]
    /\ out = [w \in Writers |-> "none"]
    /\ watch = [w \in Writers |-> FALSE]
    /\ cap = [w \in Writers |-> FALSE]
    /\ mode = [w \in Writers |-> "AdmissionEligible"]
    /\ reply = [w \in Writers |-> "none"]

(***************************************************************************)
(* The events directory.  Whatever changes it leaves every saved stamp     *)
(* behind; a new file besides shows in the watchers of the other writers.  *)
(***************************************************************************)
Stale(g) == IF g = Nothing THEN Nothing ELSE [g EXCEPT !.fresh = FALSE]

Touched ==
    /\ gen' = Stale(gen)
    /\ staging' = Stale(staging)
    /\ cap' = [w \in Writers |-> FALSE]

\* The file of key k appears: a LinuxCreateWatcher that expects another name
\* is contended.
NewFile(k, b) ==
    /\ truth' = [truth EXCEPT ![k] = b]
    /\ watch' = [w \in Writers |->
                    \/ watch[w]
                    \/ at[w] \in {"publish", "published"} /\ want[w].key # k]
    /\ Touched

Goto(p, s) == at' = [at EXCEPT ![p] = s]

Release(p) ==
    /\ authority' = IF authority = p THEN Nothing ELSE authority
    /\ wlock' = IF wlock = p THEN Nothing ELSE wlock
    /\ lease' = IF lease = p THEN Nothing ELSE lease

\* The write returns, and with it the batch that held the authority lock ends.
Return(w, answer) ==
    /\ Goto(w, "idle")
    /\ reply' = [reply EXCEPT ![w] = answer]
    /\ Release(w)

(***************************************************************************)
(* A governed write.  The event store already holds the authority lock.    *)
(***************************************************************************)

\* record_event_once_acknowledged: a degraded coordinator stays degraded.
BeginWrite(w, e) ==
    /\ at[w] = "idle"
    /\ authority = Nothing
    /\ authority' = w
    /\ want' = [want EXCEPT ![w] = e]
    /\ out' = [out EXCEPT ![w] = "none"]
    /\ reply' = [reply EXCEPT ![w] = "none"]
    /\ Goto(w, IF mode[w] = "DegradedLoose" THEN "loose" ELSE "admit")
    /\ UNCHANGED <<events, gen, staging, wlock, lease, watch, cap, mode>>

\* Mutant: the writer lock is kept for the loose publication.
GoLooseLocked(w) ==
    /\ mode' = [mode EXCEPT ![w] = "DegradedLoose"]
    /\ Goto(w, "loose")
    /\ UNCHANGED wlock

\* record_unavailable: the event is published without the generation.
GoLoose(w) ==
    /\ mode' = [mode EXCEPT ![w] = "DegradedLoose"]
    /\ Goto(w, "loose")
    /\ wlock' = IF wlock = w THEN Nothing ELSE wlock

\* Mutant: the writer waits for the lock.
TryWriterLockWaits(w) ==
    /\ at[w] = "admit"
    /\ wlock = Nothing
    /\ wlock' = w
    /\ Goto(w, "open")
    /\ UNCHANGED <<events, gen, staging, authority, lease, want, append, mode, reply>>

\* StoreWriterLock::try_acquire never waits.
TryWriterLock(w) ==
    /\ at[w] = "admit"
    /\ IF wlock = Nothing
          THEN /\ wlock' = w
               /\ Goto(w, "open")
               /\ UNCHANGED mode
          ELSE GoLoose(w)
    /\ UNCHANGED <<events, gen, staging, authority, lease, want, append, reply>>

\* Only a generation that is sound and still bound to the directory's stamp
\* is opened.
Servable(g) == g # Nothing /\ ~g.bad /\ g.fresh

\* Mutant: the generation is opened although its stamp is stale.
OpenCurrentUnstamped(w) ==
    /\ at[w] = "open"
    /\ \/ /\ gen # Nothing
          /\ ~gen.bad
          /\ Goto(w, "recover")
          /\ UNCHANGED <<wlock, mode>>
       \/ GoLoose(w)
    /\ UNCHANGED <<events, gen, staging, authority, lease, want, append, reply>>

\* open_current_for_write_locked; it may fail.
OpenCurrentForWrite(w) ==
    /\ at[w] = "open"
    /\ \/ /\ Servable(gen)
          /\ Goto(w, "recover")
          /\ UNCHANGED <<wlock, mode>>
       \/ GoLoose(w)
    /\ UNCHANGED <<events, gen, staging, authority, lease, want, append, reply>>

\* A step on the ledger, the watcher or the carrier fails; the error is
\* handled in Degrade.
LedgerFails(w) ==
    /\ at[w] \in {"recover", "intent", "published", "commit", "retire"}
    /\ Goto(w, "degrade")
    /\ UNCHANGED <<events, gen, staging, locks, append, caller>>

(***************************************************************************)
(* capture_created_authority_stamp: after a crash, one create may be bound *)
(* when it accounts for all that has changed.                              *)
(***************************************************************************)
OneCreateProved(g, expected) ==
    \/ g.fresh
    \/ Platform = "linux" /\ Cardinality(Stored) = expected
    \/ Platform = "macos" /\ EntryCount = g.count + 1

AddReceipt(g, e, fresh) ==
    [g EXCEPT !.head = g.head + 1,
              !.seq = [g.seq EXCEPT ![e.key] = g.head + 1],
              !.wit = [g.wit EXCEPT ![e.key] = e.pay],
              !.fresh = fresh,
              !.count = EntryCount]

\* recover_locked, before the append: an intent left by a writer that died is
\* retired, or published when its carrier is there and proved alone.
RecoverRetires(w) ==
    /\ at[w] = "recover"
    /\ gen # Nothing
    /\ gen.intent # Nothing => gen.intent.key \notin Stored \ Receipted(gen)
    /\ gen' = [gen EXCEPT !.intent = Nothing]
    /\ Goto(w, "intent")
    /\ UNCHANGED <<events, staging, locks, append, caller>>

\* Mutant: the carrier's bytes are not compared with the intent's witness.
RecoverPublishesUnwitnessed(w) ==
    /\ at[w] = "recover"
    /\ gen # Nothing
    /\ gen.intent # Nothing
    /\ gen.intent.key \in Stored \ Receipted(gen)
    /\ LET i == gen.intent IN
         /\ i.seq = gen.head + 1
         /\ OneCreateProved(gen, i.seq)
         /\ gen' = [AddReceipt(gen, i, TRUE) EXCEPT !.intent = Nothing]
    /\ Goto(w, "intent")
    /\ UNCHANGED <<events, staging, locks, append, caller>>

RecoverPublishes(w) ==
    /\ at[w] = "recover"
    /\ gen # Nothing
    /\ gen.intent # Nothing
    /\ gen.intent.key \in Stored \ Receipted(gen)
    /\ LET i == gen.intent IN
         /\ truth[i.key] = i.pay
         /\ i.seq = gen.head + 1
         /\ OneCreateProved(gen, i.seq)
         /\ gen' = [AddReceipt(gen, i, TRUE) EXCEPT !.intent = Nothing]
    /\ Goto(w, "intent")
    /\ UNCHANGED <<events, staging, locks, append, caller>>

RecoverRefuses(w) ==
    /\ at[w] = "recover"
    /\ gen # Nothing
    /\ gen.intent # Nothing
    /\ gen.intent.key \in Stored \ Receipted(gen)
    /\ LET i == gen.intent IN
         IF truth[i.key] = i.pay /\ i.seq = gen.head + 1
           THEN ~OneCreateProved(gen, i.seq) /\ UNCHANGED gen
           ELSE gen' = [gen EXCEPT !.bad = TRUE]
    /\ Goto(w, "degrade")
    /\ UNCHANGED <<events, staging, locks, append, caller>>

\* begin_created_transition, then the transaction that records the intent.
CommitIntent(w) ==
    /\ at[w] = "intent"
    /\ gen # Nothing
    /\ gen' = [gen EXCEPT !.intent =
                 [key |-> want[w].key, pay |-> want[w].pay, seq |-> gen.head + 1]]
    /\ watch' = [watch EXCEPT ![w] = FALSE]
    /\ Goto(w, "publish")
    /\ UNCHANGED <<events, staging, locks, out, cap, caller>>
(***************************************************************************)
(* The publisher: EventStore's record_event_once.                          *)
(***************************************************************************)
PublishCreates(w) ==
    /\ at[w] = "publish"
    /\ want[w].key \notin Stored
    /\ NewFile(want[w].key, want[w].pay)
    /\ out' = [out EXCEPT ![w] = "Created"]
    /\ Goto(w, "published")
    /\ UNCHANGED <<temps, locks, caller>>

PublishFinds(w) ==
    /\ at[w] = "publish"
    /\ truth[want[w].key] = want[w].pay
    /\ out' = [out EXCEPT ![w] = "Existing"]
    /\ Goto(w, "published")
    /\ UNCHANGED <<events, gen, staging, locks, watch, cap, caller>>

\* A conflict, with a receipt for the key or without, retires the intent; if
\* that fails the caller sees the ledger's error instead.
PublishConflicts(w) ==
    /\ at[w] = "publish"
    /\ want[w].key \in Stored
    /\ truth[want[w].key] # want[w].pay
    /\ \/ gen' = [gen EXCEPT !.intent = Nothing] /\ Return(w, "conflict")
       \/ UNCHANGED gen /\ Return(w, "error")
    /\ UNCHANGED <<events, staging, append, want, mode>>

\* The event could not be stored, or its directory not be synced: an error is
\* returned, the file may be there, and the directory has changed.
PublishFails(w) ==
    /\ at[w] \in {"publish", "loose"}
    /\ want[w].key \notin Stored
    /\ \/ NewFile(want[w].key, want[w].pay)
       \/ Touched /\ UNCHANGED <<truth, watch>>
    /\ IF at[w] = "publish"
          THEN Goto(w, "failed") /\ UNCHANGED <<locks, reply>>
          ELSE Return(w, "error")
    /\ UNCHANGED <<temps, out, want, mode>>

\* retire_intent, which may fail too, then the error: nothing is degraded.
PublishFailed(w) ==
    /\ at[w] = "failed"
    /\ gen' \in {gen, [gen EXCEPT !.intent = Nothing]}
    /\ Return(w, "error")
    /\ UNCHANGED <<events, staging, append, want, mode>>

(***************************************************************************)
(* After the publication.                                                  *)
(***************************************************************************)

\* Mutant: an event that has its receipt gets another.
FinishExistingAgain(w) ==
    /\ at[w] = "published"
    /\ want[w].key \in Receipted(gen)
    /\ out[w] = "Existing"
    /\ gen' = AddReceipt(gen, want[w], gen.fresh)
    /\ Goto(w, "retire")
    /\ UNCHANGED <<events, staging, locks, append, caller>>

\* The key has its receipt already: nothing to add.  (A receipted carrier that
\* is created again quarantines the ledger; no event file is ever removed, so
\* that branch is not modelled.)
FinishExisting(w) ==
    /\ at[w] = "published"
    /\ want[w].key \in Receipted(gen)
    /\ out[w] = "Existing"
    /\ Goto(w, "retire")
    /\ UNCHANGED <<events, gen, staging, locks, append, caller>>

\* A carrier that was there before and has no receipt: the ledger has missed it.
FinishUnreceipted(w) ==
    /\ at[w] = "published"
    /\ want[w].key \notin Receipted(gen)
    /\ out[w] = "Existing"
    /\ gen' = [gen EXCEPT !.bad = TRUE]
    /\ Goto(w, "degrade")
    /\ UNCHANGED <<events, staging, locks, append, caller>>

\* Was this create the only one since the generation's stamp?  Linux asks the
\* watcher, which has watched since the intent; macOS counts the entries.
Accepted(w) ==
    \/ Platform = "linux" /\ ~watch[w]
    \/ Platform = "macos" /\ EntryCount = gen.count + 1

\* finish_created_transition captures the stamp the receipt will be bound to.
FinishCreated(w) ==
    /\ at[w] = "published"
    /\ out[w] = "Created"
    /\ IF Accepted(w)
          THEN cap' = [cap EXCEPT ![w] = TRUE] /\ Goto(w, "commit")
          ELSE Goto(w, "degrade") /\ UNCHANGED cap
    /\ watch' = [watch EXCEPT ![w] = FALSE]
    /\ UNCHANGED <<events, gen, staging, locks, out, caller>>

\* Mutant: the receipt is bound to the stamp the directory has by now.
CommitReceiptRebound(w) ==
    /\ at[w] = "commit"
    /\ gen' = AddReceipt(gen, want[w], TRUE)
    /\ cap' = [cap EXCEPT ![w] = FALSE]
    /\ Goto(w, "retire")
    /\ UNCHANGED <<events, staging, locks, out, watch, caller>>

\* One transaction: the receipt, the head and the stamp.
CommitReceipt(w) ==
    /\ at[w] = "commit"
    /\ gen' = AddReceipt(gen, want[w], cap[w])
    /\ cap' = [cap EXCEPT ![w] = FALSE]
    /\ Goto(w, "retire")
    /\ UNCHANGED <<events, staging, locks, out, watch, caller>>

RetireIntent(w) ==
    /\ at[w] = "retire"
    /\ gen' = [gen EXCEPT !.intent = Nothing]
    /\ wlock' = Nothing
    /\ Goto(w, "catchup")
    /\ UNCHANGED <<events, staging, authority, lease, append, caller>>

\* catch_up_to_head applies the receipts in batches, and may fail after any.
CaughtUp(g) == {[g EXCEPT !.applied = n] : n \in g.applied .. g.head}

\* The writer lock is tried again for the catch-up; a busy one, or an error,
\* leaves the generation CatchingUp.
CatchUp(w) ==
    /\ at[w] = "catchup"
    /\ \/ UNCHANGED gen
       \/ /\ wlock = Nothing
          /\ gen # Nothing
          /\ gen' \in CaughtUp(gen)
    /\ Return(w, "ok")
    /\ UNCHANGED <<events, staging, append, want, mode>>

(***************************************************************************)
(* Degradation: the generation is renamed aside if it can be; the event is *)
(* published if it was not, and the write succeeds all the same.           *)
(***************************************************************************)
\* Mutant: the write succeeds although its event was never published.
DegradeUnpublished(w) ==
    /\ at[w] = "degrade"
    /\ \/ gen' = Nothing /\ staging' = Nothing
       \/ UNCHANGED <<gen, staging>>
    /\ mode' = [mode EXCEPT ![w] = "DegradedLoose"]
    /\ Return(w, "ok")
    /\ UNCHANGED <<events, append, want>>

Degrade(w) ==
    /\ at[w] = "degrade"
    /\ \/ gen' = Nothing /\ staging' = Nothing
       \/ UNCHANGED <<gen, staging>>
    /\ \/ /\ out[w] = "none"
          /\ GoLoose(w)
          /\ UNCHANGED <<authority, lease, reply>>
       \/ /\ out[w] # "none"
          /\ mode' = [mode EXCEPT ![w] = "DegradedLoose"]
          /\ Return(w, "ok")
    /\ UNCHANGED <<events, append, want>>

\* publish_degraded, with the authority lock alone.
PublishLoose(w) ==
    /\ at[w] = "loose"
    /\ \/ /\ want[w].key \notin Stored
          /\ NewFile(want[w].key, want[w].pay)
          /\ Return(w, "ok")
       \/ /\ truth[want[w].key] = want[w].pay
          /\ Return(w, "ok")
          /\ UNCHANGED <<truth, gen, staging, watch, cap>>
       \/ /\ want[w].key \in Stored
          /\ truth[want[w].key] # want[w].pay
          /\ Return(w, "conflict")
          /\ UNCHANGED <<truth, gen, staging, watch, cap>>
    /\ UNCHANGED <<temps, out, want, mode>>

\* The process is killed: its locks go, the ledger stays as it is.  Amid its
\* event write it may leave a temp file.  The next process starts eligible.
CrashWriter(w) ==
    /\ at[w] # "idle"
    /\ \/ UNCHANGED <<temps, gen, staging, cap>>
       \/ /\ at[w] \in {"publish", "loose"}
          /\ temps < MaxTemps
          /\ temps' = temps + 1
          /\ Touched
    /\ mode' = [mode EXCEPT ![w] = "AdmissionEligible"]
    /\ Return(w, "none")
    /\ UNCHANGED <<truth, want, out, watch>>

(***************************************************************************)
(* Others at the events directory.                                         *)
(***************************************************************************)

\* An older version creates an event; it knows neither lock.
ForeignCreate(e) ==
    /\ Foreign
    /\ e.key \notin Stored
    /\ NewFile(e.key, e.pay)
    /\ UNCHANGED <<temps, locks, at, out, caller>>

\* The startup sweep of any process removes a stale temp file.
SweepTemp ==
    /\ temps > 0
    /\ temps' = temps - 1
    /\ Touched
    /\ UNCHANGED <<truth, locks, at, out, watch, caller>>
(***************************************************************************)
(* rebuild_with_execution.  A background rebuild gives the authority lock  *)
(* back while it projects and tries for it again; a synchronous one keeps  *)
(* it.  Cancellation, a busy lock and every error end in AbandonRebuild.   *)
(***************************************************************************)
StartRebuild(r) ==
    /\ at[r] = "idle"
    /\ authority = Nothing
    /\ lease = Nothing
    /\ authority' = r
    /\ lease' = r
    /\ staging' = Nothing
    /\ Goto(r, "bootstrap")
    /\ UNCHANGED <<events, gen, wlock, append, caller>>

\* bootstrap_population_from_truth: the stamp, under the writer lock ...
BootstrapStamp(r) ==
    /\ at[r] = "bootstrap"
    /\ wlock = Nothing
    /\ wlock' = r
    /\ staging' = [head |-> 0, seq |-> [k \in Keys |-> 0], wit |-> [k \in Keys |-> Nothing],
                   intent |-> Nothing, bad |-> FALSE, fresh |-> TRUE,
                   count |-> EntryCount, applied |-> 0]
    /\ Goto(r, "list")
    /\ UNCHANGED <<events, gen, authority, lease, append, caller>>

\* ... then one receipt per listed event, in listing order ...
Rank(k) == Cardinality({j \in Stored : Digest[j] <= Digest[k]})

\* ... when the directory has not changed meanwhile.
BootstrapList(r) ==
    /\ at[r] = "list"
    /\ staging.fresh
    /\ staging' = [staging EXCEPT !.head = Cardinality(Stored),
                                  !.seq = [k \in Keys |-> IF k \in Stored THEN Rank(k) ELSE 0],
                                  !.wit = truth]
    /\ wlock' = Nothing
    /\ authority' \in {authority, Nothing}
    /\ Goto(r, "project")
    /\ UNCHANGED <<events, gen, lease, append, caller>>

\* The projections are populated, and the authority lock is there again.
Project(r) ==
    /\ at[r] = "project"
    /\ staging # Nothing
    /\ authority \in {r, Nothing}
    /\ staging' = [staging EXCEPT !.applied = staging.head]
    /\ authority' = r
    /\ Goto(r, "verify")
    /\ UNCHANGED <<events, gen, wlock, lease, append, caller>>

\* validate_candidate: a strict replay of truth gives the same rows.
Verify(r) ==
    /\ at[r] = "verify"
    /\ staging # Nothing
    /\ staging.wit = truth
    /\ Goto(r, "check")
    /\ UNCHANGED <<events, gen, staging, locks, append, caller>>

\* pre_publication_authority_check, under the writer lock.
CheckAuthority(r) ==
    /\ at[r] = "check"
    /\ staging # Nothing
    /\ wlock = Nothing
    /\ staging.fresh
    /\ wlock' = r
    /\ Goto(r, "promote")
    /\ UNCHANGED <<events, gen, staging, authority, lease, append, caller>>

\* promote_staging, publish, retire_prior_publications.
Promote(r) ==
    /\ at[r] = "promote"
    /\ gen' = staging
    /\ staging' = Nothing
    /\ Goto(r, "idle")
    /\ Release(r)
    /\ UNCHANGED <<events, append, caller>>

AbandonRebuild(r) ==
    /\ at[r] \notin {"idle", "maintain"}
    /\ staging' = Nothing
    /\ Goto(r, "idle")
    /\ Release(r)
    /\ UNCHANGED <<events, gen, append, caller>>

CrashRebuild(r) ==
    /\ at[r] # "idle"
    /\ Goto(r, "idle")
    /\ Release(r)
    /\ UNCHANGED <<events, gen, staging, append, caller>>

(***************************************************************************)
(* Maintenance and status, under the writer lock alone.                    *)
(***************************************************************************)

\* maintain_current_generation: a busy lock is reported, not waited for.
StartMaintain(r) ==
    /\ at[r] = "idle"
    /\ wlock = Nothing
    /\ Servable(gen)
    /\ wlock' = r
    /\ Goto(r, "maintain")
    /\ UNCHANGED <<events, gen, staging, authority, lease, append, caller>>

Maintain(r) ==
    /\ at[r] = "maintain"
    /\ gen' \in CaughtUp(gen)
    /\ Goto(r, "idle")
    /\ Release(r)
    /\ UNCHANGED <<events, staging, append, caller>>

\* quarantine_status: with no rebuild under way, a quarantined ledger is
\* renamed aside, root and all.
StatusQuarantines ==
    /\ gen # Nothing
    /\ gen.bad
    /\ staging = Nothing
    /\ wlock = Nothing
    /\ gen' = Nothing
    /\ UNCHANGED <<events, staging, locks, at, append, caller>>

WriterStep(w) ==
    \/ TryWriterLock(w)
    \/ OpenCurrentForWrite(w)
    \/ RecoverRetires(w)
    \/ RecoverPublishes(w)
    \/ RecoverRefuses(w)
    \/ CommitIntent(w)
    \/ PublishCreates(w)
    \/ PublishFinds(w)
    \/ PublishConflicts(w)
    \/ PublishFailed(w)
    \/ FinishExisting(w)
    \/ FinishUnreceipted(w)
    \/ FinishCreated(w)
    \/ CommitReceipt(w)
    \/ RetireIntent(w)
    \/ CatchUp(w)
    \/ Degrade(w)
    \/ PublishLoose(w)

RebuildStep(r) ==
    \/ StartRebuild(r)
    \/ BootstrapStamp(r)
    \/ BootstrapList(r)
    \/ Project(r)
    \/ Verify(r)
    \/ CheckAuthority(r)
    \/ Promote(r)
    \/ AbandonRebuild(r)
    \/ CrashRebuild(r)
    \/ StartMaintain(r)
    \/ Maintain(r)

Next ==
    \/ \E w \in Writers :
          \/ \E e \in Event : BeginWrite(w, e)
          \/ WriterStep(w)
          \/ LedgerFails(w)
          \/ PublishFails(w)
          \/ CrashWriter(w)
    \/ \E r \in Rebuilders : RebuildStep(r)
    \/ \E e \in Event : ForeignCreate(e)
    \/ SweepTemp
    \/ StatusQuarantines

Spec == Init /\ [][Next]_vars

\* A writer that is not killed goes on; nothing is assumed of rebuilds and
\* maintenance, which may take arbitrarily long.
FairSpec == Spec /\ \A w \in Writers : WF_vars(WriterStep(w))

(***************************************************************************)
(* Properties.                                                             *)
(***************************************************************************)

\* The type of every variable, and that each lock is held only by a process
\* that is at a step of holding it.
TypeOK ==
    /\ truth \in [Keys -> Pays \cup {Nothing}]
    /\ temps \in 0..MaxTemps
    /\ gen \in Generation \cup {Nothing}
    /\ staging \in Generation \cup {Nothing}
    /\ authority \in Procs \cup {Nothing}
    /\ wlock \in Procs \cup {Nothing}
    /\ lease \in Rebuilders \cup {Nothing}
    /\ at \in [Procs -> WriterSteps \cup RebuildSteps]
    /\ want \in [Writers -> Event \cup {Nothing}]
    /\ out \in [Writers -> {"none", "Created", "Existing"}]
    /\ watch \in [Writers -> BOOLEAN]
    /\ cap \in [Writers -> BOOLEAN]
    /\ mode \in [Writers -> {"AdmissionEligible", "DegradedLoose"}]
    /\ reply \in [Writers -> {"none", "ok", "conflict", "error"}]
    /\ \A w \in Writers : at[w] # "idle" <=> authority = w
    /\ wlock \in Writers => at[wlock] \in WriterSteps \ {"idle", "admit", "catchup", "loose"}
    /\ lease # Nothing => at[lease] \in RebuildSteps \ {"idle", "maintain"}

\* A generation that may be served has every event of the log, and no other:
\* whoever crashed where, whatever was published loose meanwhile, and however
\* long a rebuild ran beside the writers.  "No state silently serves stale
\* derived rows as current."
CurrentIsExact ==
    Servable(gen) => Receipted(gen) = Stored /\ gen.wit = truth

\* Even a generation that has fallen behind never holds an event that is not
\* in the log, and its sequence numbers are 1 to the head, each used once.
LedgerSound ==
    gen # Nothing =>
        /\ \A k \in Receipted(gen) : truth[k] # Nothing /\ gen.wit[k] = truth[k]
        /\ {gen.seq[k] : k \in Receipted(gen)} = 1..gen.head
        /\ Cardinality(Receipted(gen)) = gen.head
        /\ gen.applied <= gen.head

\* The cursor an acknowledgement names stays the event's own for as long as
\* the generation lives: only a rebuilt one numbers the events anew.
CursorIsPermanent ==
    [][\/ gen = Nothing
       \/ gen' = Nothing
       \/ \E r \in Rebuilders : at[r] = "promote" /\ at'[r] = "idle"
       \/ \A k \in Receipted(gen) : gen'.seq[k] = gen.seq[k]]_vars

\* A derived failure neither loses a write nor fails it: a write that reports
\* success has stored its event, through the ledger or loose, and a conflict
\* is reported only against different stored bytes.
AnswersAgreeWithTruth ==
    \A w \in Writers :
        /\ reply[w] = "ok" => truth[want[w].key] = want[w].pay
        /\ reply[w] = "conflict" => truth[want[w].key] \notin {Nothing, want[w].pay}

\* A write never waits for derived access: once begun it ends, although a
\* rebuild or a maintenance run may keep the writer lock for ever.
WriteEnds == \A w \in Writers : at[w] # "idle" ~> at[w] = "idle"
=============================================================================

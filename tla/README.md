# Pointbreak Review: verification project

Pointbreak Review keeps a review record as an append-only log of small event
files beside content-addressed artifacts, on the local file system, written by
any number of processes that share nothing but that directory. This project
models how records are stored, how content is removed, how clones share a store
and retire their own, how the disposable SQLite index is kept, published and kept
honest, how a store is migrated to the Change cohort, and how Changes are
written, projected and read.
Paths below are relative to the repository root, which is `src/` here.

## 1. The system

### Components, their state and their operations

| Component | State | Operations | Source |
|---|---|---|---|
| Exclusive create | files, temp files, directory entries | `create_file_exclusive`, temp sweep | `src/storage/mod.rs` |
| Authority lock | one OS file lock per store | `acquire`, `try_acquire`, drop | `src/session/store/authority_lock.rs` |
| Event store | `events/<sha256(key)>.json` | `record_event_once`, batches, `list_events` | `src/session/store/event_store.rs` |
| Artifact store | `artifacts/{objects,notes,proofs}` | `put_object`, `put_note_body`, `remove` | `src/session/store/content.rs` |
| Content removal | `ArtifactRemoved` events | `remove_content`, `compact_store`, body reads | `src/session/workflow/artifact_removal`, `src/session/projection/{artifact_removal,body_content}.rs` |
| Store link, retirement | clone and family stores, bindings | fold, verify, delete, register, bind, unlink | `src/session/workflow/store_link.rs`, `src/session/store/{source_retirement,bundle}.rs` |
| Family stores | `family.json`, `registry.json` | register, deregister, liveness, forget | `src/session/store/user_level.rs`, `src/session/workflow/store_family.rs` |
| Derived access, writes | cursor ledger (intent, receipts, head, stamp), writer mode | `record_event_once_acknowledged`, recovery, degradation | `src/session/derived_access/{writer,sqlite/cursor}.rs` |
| Derived access, generations | staging, published and moved-aside generations, lease files | open, rebuild, publish, sweep, reclaim, quarantine, delete, purge, transition | `src/session/derived_access/{lifecycle,generation,layout}.rs` |
| Change observation | directory stamp, inotify watch, entry count | `change_stamp`, `begin/finish_created_transition` | `src/session/store/backend/local.rs` |
| Capabilities and migration | control records, retained plan and backup | `migrate_bulk_adoption`, restore | `src/session/store/capabilities.rs`, `src/session/workflow/change_migration.rs` |
| Change operations | retained plans and checkpoints per operation id | create, join, withdraw, relate, link, capture | `src/session/workflow/change.rs` |
| Change projections | none: functions of the event set | topology, lifecycle, threads and heads | `src/session/projection/{change,supersession}.rs`, `src/session/workflow/attention/effective.rs` |
| Derived projections | product-history tables | apply a delta, narrowed seek | `src/session/derived_access/sqlite/semantic.rs` |
| Review cursor | none: a token the caller keeps | select, validate | `src/session/workflow/review_cursor.rs` |
| CLI, inspect server, editor extension | none of their own | presentation | `src/cli`, `extensions/vscode` |

`PROJECT.json` lists them all, with what is modelled of each.

### How they interact

A workflow resolves its store, stores its artifacts without any lock, then takes the
authority lock and records its events in a batch. Each event goes through the derived
write coordinator: with the derived writer lock in hand the event is announced in the
cursor ledger (the intent), published by the event store, and finalised (receipt,
head and directory stamp in one transaction). Whatever goes wrong with derived
access, the event is published all the same and the generation is put aside.
Rebuilds read the whole log into a staging generation and publish it if the
directory still has the stamp the rebuild began with; readers pin a generation by a
shared lock on a lease file, and a rebuild reclaims what nobody has pinned. `store
remove` is one more event; `store compact` deletes bytes later, with no lock at all.
`store link` copies a clone's store into a family store and may then delete the
source. A Change command retains its plan under its operation id, validates the graph
it was planned on and appends the events of the plan; readers fold the events, all of
them or the rows the index correlates with one Change. Older versions of the program
know neither lock, and create events beside all of this.

### What is hard

Interleavings of system calls between processes; kills between any two of them;
directory entries that are not durable yet; a sweep that goes by age; listings
that are stale when they are acted on; locks on files that no longer have a name; an
index that must never be served when it lacks an event, although nobody tells it of
the events created beside it, and that is refreshed piece by piece as facts arrive in
any order; checks of the graph that are over before the append begins; retries.
The hazards in `PROJECT.json` name the lines.

## 2. Modules

| Module | Models |
|---|---|
| `EventLog` | What the event store promises: first writer wins per key, answers agree with the log |
| `EventStore` | Exclusive create, authority lock, batches and event outcomes, one system call per step |
| `EventStoreProofs` | Type correctness and safety of `EventStore`; it implements `EventLog` |
| `ContentRemoval`, `ContentRemovalProofs` | Removal claims, compaction, artifact writers, folds, endorsements, readers |
| `StoreLink`, `StoreLinkProofs` | `store link` and `unlink`, fold, retirement of the source, writers beside them |
| `FamilyForget` | `store forget` beside all of `StoreLink` (extends it) |
| `DerivedAccess`, `DerivedAccessProofs` | Governed and loose writes, ledger, recovery, rebuild, maintenance, quarantine |
| `Generations`, `GenerationsProofs` | Leases, publication, sweep, reclaiming, quarantine, purge, move of the legacy root |
| `ChangeMigration`, `ChangeMigrationProofs` | `change migrate` from dry run to receipt, the writers admitted meanwhile, restore |
| `ChangeProjection` | The pure functions: a Change's topology, obligations, lifecycle; threads and heads |
| `ChangeIndex`, `ChangeIndexProofs` | The index of facts by Change, its deltas, `change show` (extends `ChangeProjection`) |
| `ChangeOperations`, `ChangeOperationsProofs` | The Change commands, their plans, checkpoints and retries (extends `ChangeProjection`) |
| `MC...` | Instances for TLC |

Each module takes the one below as given: the modules above `EventStore`
treat one exclusive create and one event write as one step, which is what
`EventStoreProofs` proves of them (`StoreImplementsLog`). `DerivedAccess` is about what a generation
holds, `Generations` about which one is open and whether its files stay.
`ChangeProjection` is shared by the module that writes Changes and the one that reads
them.

### EventStore

`files` is what is visible at the final paths, `durable` the entries that have
been fsynced, `dirs` the directories they are in, `temp` each process's temp file.
A directory is absent, fresh (made, by `ensure_store_dirs` at the start of a workflow
or by `write_temp_file`, and no fsync of the directory above since) or durable; each
stands for the whole way to it, and `artifacts` for both of its subdirectories. `pc`
walks through `create_file_exclusive`: `exists` (the early `try_exists`), `open` and
`write` (`write_temp_file`, `create_dir_all` included), `link` (`hard_link`), `sync` (the directory), `readback`
(`AlreadyExists`: the stored file is read and compared). `waiting`, `admit` and
`batch` are the authority lock, the capability preflight and the event batch.
An event's identity is split into what the outcomes depend on: payload hash,
the rest of the record hash, signature binding. An artifact's path is the hash of
its bytes, so the path stands for its body.

Environment: any call may fail (`IoError`), any process may be killed (`Crash`),
the sweep may take any temp file (`SweepTemp`), and where `PowerLoss` is `TRUE`
the machine may lose any entries that are not durable, and any fresh directory with
all that is in it (`LosePower`). The temp
file of a dead process is left out: its name is never used again.

### ContentRemoval

`claim[h]` is the one `ArtifactRemoved` event a hash can have: its key is the
hash. A claim has a signature status and the ingest stamp; `endorsed` says that a
trusted co-signature of it is in the log. `Operative` is the projection's rule
(possession, or trust, over the integrity floor). A sweeper keeps the listing it
judges by (`seen`), the blobs it found (`left`) and the one in hand; a reader its
listing and the hash. All readers share one trust set. Drift (bytes that do not
match their hash) is there from the start or not at all: nothing in the program
causes it, and what rots between the read and the removal of a blob no program
can see.

### DerivedAccess

A generation is its cursor ledger: `seq` and `wit` are the receipts, `intent` the
append under way, `bad` the quarantine mark, `applied` how far the projections
have got. Saved directory stamps are only ever compared with the present one, so
each is a Boolean: is it still equal? `Touched` makes them stale. On macOS a stamp
also holds the number of entries. **Assumption:** every change of the directory
moves its stamp; a file system whose timestamps are coarser breaks it.

A governed write goes `admit`, `open`, `recover`, `intent`, `publish`,
`published`, `commit`, `retire`, `catchup`; every failure before or after the
publication goes through `degrade` to `loose` or home. A rebuild goes
`bootstrap`, `list`, `project`, `verify`, `check`, `promote`; the authority lock
may be given back from `list` to `project` (a background rebuild). Crashes may
come at every step. `Foreign` lets older versions create events with no lock.

The recovery branch for a receipt above the head is left out: receipt and head are
one transaction. So is the branch for a receipted event that is created anew: no
event is ever deleted.

### ChangeMigration

A store is at L0 (no capability record), M1 (activation) or L2 (completion).
`journal[k]` says whether the record of a key is absent, as its author wrote it or
a copy stamped by ingest; keys are legacy events (`product`), the adoption records
that the migration reserves, native Change records, and records that older versions
left in encodings since retired: of an event type that is no longer known (`oldtype`),
or of a known type in a retired envelope (`oldform`). Ingest decodes what it takes in,
so retired encodings are there from the start or not at all (`Leftovers`). An authority
cursor is a hash of the record set, retired encodings included, so here it is that set. Planning is a function of the
approved cursor: `Reserved` keeps only that every legacy event gets an adoption
record. A control record is the plan it came from (operation, source, time); two
with the same identity may differ in their time.

Three readers of one state: `BoundedStatus` (writer admission, two point reads),
`StrictStatus` (the router of an activated journal, every record) and
`ReaderStatus` (lenient at L0, strict after). At L0 both retired encodings are counted
and passed over (`capabilities.rs:1079`); the strict router refuses a retired type
(`Outdated`, `:1454`) and reads a retired envelope, whose extra fields its probe ignores.

| Step of `call.pc` | Code |
|---|---|
| `inspect` | lock taken; status, cursor, key, backup |
| `copy`, `receipt` | `ensure_backup`: files in path order, manifest, receipt |
| `plan` | retained plan used or a new one signed and retained |
| `execute`, `activate` | `execute_bulk_adoption_plan` up to the activation record |
| `check`, `append` | strict inspection, reserved records, completion |
| `verify`, `finish` | strict inspection, derived build, completion receipt |

`Refuse` is the early return of whichever step does not admit the call, `Crash` a
death or a failed file operation at any step. Each operation of `Ops` is one
approved command with its own backup directory, to be repeated at will. Writers
take the same lock: `AdmitProduct` at L0 and L2, `AdmitChange` at L2 only; `Ingest`
publishes any event type on the product route. `RestoreBegin/File/End` copy a
verified backup into an empty store, and may stop anywhere.

### StoreLink and FamilyForget

A record is an event together with the content it refers to. `events` and `arts` are
what each store holds, clone-local or family; `link[p]` is one command: scaffold,
admission (the source's authority lock, only with `--retire-source`), manifest, reads,
commits of artifacts and then events, verification, scan, deletion file by file
(artifacts before events), registry read and write, binding. A link without
`--retire-source` takes no lock on the source, and a writer may have resolved its store
before the binding changed. `owed` is what the link read and found whole: a record
whose content is absent from the source is carried without it, as the code documents.
Every command may die at every step. `FamilyForget` adds the liveness test and the
deletion, again file by file; its history variable `linked` says which clones a user
would call linked. `migrate_store_to_common_dir` runs the same fold and retirement
between other directories and has no actions of its own. The CLI says of `store link`
that its writer "is not executable in this build" (`docs/cli-reference.md`); the
library workflow is what is modelled.

### Generations

A lease name is bound to an inode, and locks are on inodes, so a lock on an unlinked
lease file is a state of the model. A reader resolves the namespace, selects the
publication, opens and locks the lease and confirms both (`Attempts` rounds); a
governed write does the same with the writer lock in hand. A keeper runs one of:
rebuild (lease, staging, promotion, publication, retirement of older publications,
sweep of orphaned leases, reclaiming), aside (quarantine and retire), delete, purge,
transition of a legacy root. A directory listing is one step, and so are the try-locks
that a transition or a removal takes on several leases: all or none. A rebuild in the
background lets the authority lock go while it projects (`lifecycle.rs:742`) and tries
for it again before it verifies (825), although the comment at 650 says that every
rebuild "holds it through publication"; what it keeps throughout is its rebuild lock.
So its root may be moved aside or away at any time up to its own writer lock, and the
promotion, the publication and the reclaim are renames and deletions that fail when the
directory they need is not there: the root's `whole` says that `ensure_scaffold`'s
directories are, `there` only that something is. Where the code returns an error the
rebuild ends, with or without discarding what it staged. `retire`, `delete`
and `purge_disposable_root` have callers in tests only; they are modelled because they
are public to the crate. Seen on the way: a rebuild keeps the paths it was given, so
`ensure_scaffold` (`generation.rs:216`) or the staging of a candidate makes a legacy
root again after another process has moved it; both roots exist then and the namespace
is in conflict until an operator acts. No property is about it, and the proofs show that
it costs no reader its generation.

### ChangeProjection and ChangeIndex

A fact is the part of an event that the projection reads. `ChangeProjection` has the
operators of `project_changes_from_facts` (claims, withdrawals, contested bindings,
topology, qualification, obligations, lifecycle) and of the Change-aware supersession
of attention. `ChangeIndex` applies facts in batches of up to `MaxBatch`: `refs` and
`corr` are the two tables, `ApplyDelta` inserts the rows of the batch and refreshes
those it finds affected, `Populate` builds them from all stored facts (in one batch
where `service.rs:423` goes in chunks; batching is what `ApplyDelta` is checked for),
`ShowChange`
selects the facts correlated with one Change and folds only these, `ReadThreads`
computes threads and heads. The assumptions on a history are what the writers
guarantee: a port names the Revision its request was opened on, and claims name
Revisions. A row leaves out `support_sequence`, so two events that support one claim
are one row; no property depends on how many there are.

The list and `change show` may disagree in one case: a request that ports carry to the
heads of two Changes is answered for one of them, and the other's fact is not among the
selected ones, so `change show` may say accepted where the list says in progress.
`SeekAgrees` states exactly this exception and nothing more.

### ChangeOperations

`log` is the set of facts, `plan[o]` and `checkpoint[o]` the two files of an operation
id, each absent, torn (created and not yet written, or left so by a death) or whole.
A call walks `lookup`, `ready`, `prepare`, `checkpoint`, `checkpointing`, `recheck`,
`propose`, `proposed`, `plan`, `planning`, `validate`, `append`; commands other than
captures start at `ready`, creation at `plan`. `Edit` changes the worktree between any
two of these. `basis` is what a call read before it planned; a graph token is the part
of the projection that the code hashes. `Quit` is any refusal, failure or death.
`overtaken` (history) collects the calls that another call appended beside, between
their validation and their own last append. Calls die but the power does not go, and
relations that ingest brings are not in the model.

What the model shows of the code, beyond its properties: a retry of a completed
withdrawal is refused, because the active claim is looked for before the plan
(`change.rs:544`, against `docs/cli-reference.md:352`); the preconditions of a
checkpoint are validated against no planned keys at all (`change.rs:757`); a torn plan
or checkpoint blocks its operation id; a half-applied plan is refused for good once the
graph has changed; a retried capture whose Revision has become a member in the meantime
may close a cycle (the exception `CyclesNeedOvertaking` names).

## 3. What the runs check

| Run | Instance | Shows |
|---|---|---|
| `store_log` | 2 processes, 1 key with 8 candidate records, 1 artifact | types, the existence check under the lock, artifacts before events, refinement of `EventLog`; the authority lock is always given back |
| `store_power` | 2 processes, 2 keys, 1 artifact, power loss | no partial file; `Created` is durable, but for what goes with a new directory |
| `removal_race` | 1 hash, 1 writer, 2 sweepers, 1 reader, all log steps | compaction erases only removed content, facts keep their artifacts, eligibility is permanent, drift is kept, a read from an old listing is honest |
| `link_retire` | 1 clone, 1 family, 2 commands, 1 writer, 2 records of one content | nothing acknowledged is lost, a link carries what it owes, an interrupted retirement looks populated |
| `family_forgotten` | 2 clones, 1 family, 1 forget | **violation**: the family of a linked clone is taken for an orphan |
| `derived_linux` | 2 writers, 1 rebuilder, 2 keys, a stale temp | a servable generation is exactly the log |
| `derived_macos` | 1 writer, 1 rebuilder, 2 keys with 2 payloads, foreign creates | the same, ledgers are sound, answers agree with truth, cursors are permanent, and a write ends whatever happens to the writer lock |
| `generation_leases` | 1 reader or governed writer, 1 keeper, 2 generations, both namespaces | an open generation stays, its lease stays linked, what is current is whole, a transition spares readers, everyone ends |
| `migration_resume` | 2 operations, 1 writer, 1 captured and 1 forwarded revision, 1 native Change record, 1 death; with and without records in retired encodings | admission by two reads is sound, only the approved is activated, an activation is recoverable, receipts name the authority, a fork has its artifacts; an activated store becomes Ready, or is stuck at M1 by a retired event type |
| `migration_forwarded` | 1 operation, a peer that forwards Change records | **violation**: the activated store refuses itself |
| `change_index` | 4 histories of 10 to 16 facts, batches of 1 and 2 | the index is that of a rebuild, `change show` agrees with the list, every thread has a head |
| `change_operations` | 2 processes, 2 Revisions, 5 stores with their commands | one snapshot per operation, the plan governs, cycles need an overtaken call |

The two violations are disagreements between the code and what the repository
says of it; `PROJECT.json` quotes the lines under "findings".

Limits of the properties, seen with TLC. *Durability*: an answer `Existing` comes without an
fsync, so a write that was acknowledged so can still be lost with the power
(`docs/storage-model.md:1020` acknowledges "durable truth"); `CreatedSurvives` is about
`Created`. Nor is `Created` durable without exception: only the file's own directory is
fsynced (`storage/mod.rs:149`), and not the directory above one that `create_dir_all`
has just made (`:254`, `store_init.rs:41`), so on a file system that does not order the
two, the first records of a new store can be lost with their directory;
`CreatedSurvives` states the exception. *Migration*: a store with a record of a retired
event type passes the dry run, the backup, the plan and the activation, because the L0
router passes over it (`capabilities.rs:1079`). From the activation on only the strict
router is used, which refuses it (`:1454`): the call fails at `change_migration.rs:1767`
and every repetition at its first inspection, although the comment at `:1716` says that
"Retrying the same plan converges". The completion is never written, so every reader is
refused and no writer is admitted, for good; what is left is the backup.
`BoundedAgrees` says exactly this of such a store, and `TransitionCompletes` is about
all others. *Answers*: `AnswersAgreeWithTruth` says that an answer is true, not that
trouble with derived access never fails a write. *Removal*: one key per hash means that a native removal re-issued after an
unsigned one was folded in finds that event and changes nothing (`cli/store.rs:983`
advises it); `EligibilityIsPermanent` is about removals that are operative. A read that
listed before a removal may report missing what is removed
(`docs/storage-model.md:663`); `StaleReadsStandUp` says that this is all that can
happen. *Index*: with an older version that creates events without the lock,
`CurrentIsExact` fails on Linux (an event between the stamp check and the start of the
watch), and on macOS as soon as a stale temp file is swept in the same append; the
runs have the one without the other.

Bounds. Two processes are enough for every pairwise race over one path; the third
party of a race (the sweep, the power, a fold, an older version) is an action of
its own. One key suffices for the log because paths do not interact but through
the lock, and two are needed where an event and an artifact differ. One hash suffices
for removal: hashes do not interact. In `StoreLink` two records of one content are what
lets a record come to a content that is being deleted. Two keys in
`DerivedAccess` give a duplicate, a missed and a foreign event; sequence numbers
reach 2, so a gap, a repetition and an off-by-one all show. `MaxTemps` bounds the
stale temp files. In `Generations` two generations give an old and a new one; a
second keeper adds overlapping rebuilds, which the proofs cover for any number. In
`ChangeMigration` two operations give every conflict over the
activation, two revisions a partly appended cohort, two times a plan that is signed
anew, and `CrashBound` = 1 one death at any step (the proofs cover any number). The
store starts without retired encodings or with one of each; that a retired envelope
alone does no harm is left to the proofs, which take any `Leftovers`.
`migration_resume` lets peers forward legacy events only,
which `migration_forwarded` shows to be needed. The histories of `change_index` are
chosen so that claims come before and after what they are about, two Changes cross,
and obligations are carried, answered and shared; a fifth kind of history would add
facts, not interactions between tables, and the proofs cover all. Symmetry is used over
interchangeable processes and values only, in runs without liveness.

Fairness. In `EventStore` a process that is not killed takes the steps it can take
alone (weak), and a batch has finitely many events (strong fairness of its end);
nothing is assumed of the lock's queue. In `DerivedAccess` only writers are fair:
a rebuild or a maintenance run may stall for ever with the writer lock in hand. In
`Generations` every process that runs goes on (weak), and a file lock that comes free
again and again is given in the end to whoever waits for it in a blocking call
(strong); nothing is assumed of try-locks. In
`ChangeMigration` a call that has the lock goes on and a writer gives it back
(weak), and whoever repeats a migrate command gets the contended lock in the end
(strong fairness of `Begin`: the operator tries again and the lock has no owner
for ever). Refusals do not count as progress: a repeated call may be refused again
and again, and the property says that this cannot last.

Deadlock is checked in every run but `change_index`, where a store to which nothing
more is recorded has nothing left to do.

## 4. What is proved

All theorems hold for every value of the constants that satisfies the modules'
assumptions (marks are distinct from values, key and artifact paths are disjoint).

`EventStoreProofs`. The safety invariants rest on `StoreInv`: `LockInv` (only the
holder is inside a batch), `TempInv` (a temp file holds the call's own bytes once
written, and whoever links has written), `SyncInv` (who is about to sync has its
file in place) and `DurableInv`
(what was answered `Created` has its entry synced). From it follow `NeverPartial`,
`CheckedUnderLock` and, with `CreatedKept` (an answer is forgotten only with its
directory), `CreatedIsDurable`. `ArtifactsComeFirst` adds `StagedInv`:
what a workflow has staged is on disk, which a power loss would break.

The same module proves the refinement, `StoreImplementsLog`: under the mapping `logView`,
`reqView`, every step is a step of `EventLog` or a stutter. `CallInv` says what a
process in each step knows of its key (for instance that a record is there at
`readback`); `OutcomeIsVerdict` that the code's chain of comparisons computes the
one right answer.

`ContentRemovalProofs`. `EligibleForGood` is the heart: whatever a listing finds
operative stays so, because the claim of a hash is never replaced and
endorsements only accumulate. `SweepInv` (a listing in hand is an earlier state of
the log; the blob about to be erased is eligible in it) and `WriterInv` (a writer
about to record has an intact blob, or the hash is removed) make `RemovalInv`
inductive, and the four safety theorems follow. `ReaderInv` says the same of a reader's
listing; with it `StaleReadsAreHonest` follows.

`StoreLinkProofs`. Two things carry the argument: family stores only grow, so what was
verified there stays there while the source is deleted; and a link that retires holds
the source's lock from its first read to its last deletion. `LinkInv` says what each
step of a link knows (which records and contents are carried, kept in the source or
verified), `WriterInv` that a writer past `put_object` has its content in some store.
`NoDrop` (no step takes anything out of the last store that has it) and `Spared` (what
a link relies on from the steps of others) reduce the proof to one lemma per action.

`DerivedAccessProofs`. Steps are sorted by what they do to log and ledger (look, log,
mark, add a receipt, fill a candidate), and each kind has one lemma. `IInv` has the
control part (what each step holds), `Ledgers` (generation and candidate agree with the
log: receipts only for stored events, numbered 1 to the head), `Present`, `Published`
(what a writer past its publication knows, and what it answered, stays true) and
`Listed` (a candidate whose stamp stands holds the whole log). `AttachedAlone`: while a
writer is at work on the generation nobody else adds a receipt. `RankNumbers`: the
digests number a listing 1 to its size, whatever the size. `CurrentGenerationIsExact`
needs more, `Exact`: what a writer knows on its way to a receipt. It rests on
`LogStands`, that the log does not change behind a writer whose stamp still stands, and
so it has the hypothesis `Guarded`: no older version creates events, or the platform
counts entries and no stale temp file is about. Both runs are instances of it, and the
limits under section 3 are why it cannot go. The other theorems hold without it. Of the
constants it is assumed that there are finitely many keys and that `Nothing` is no
generation.

`GenerationsProofs`. Two facts carry the argument. `Links`: while a generation is in a
root, a lock on its lease is a lock on the file that has the name, so trying the lock
means something. `LiveShrinks`: a generation that has left the roots never comes back, so
nobody can confirm it afterwards; what is about to be unlinked, erased or removed was
without open readers when it was tried and stays so (`Dooms`, `NoOpenKept`).
`Births` and `Places` say that nobody but its rebuild knows of a candidate and that a
generation is in one place. `Heads` and `Rebuilds` give `CurrentStaysWhole`: a rebuild
publishes above what is published, because nobody else publishes in that root while it
has the rebuild lock, whether or not it has the authority lock. `Opens` is what both
reader theorems read off, and `Moves` (a transition that moves has every lease there is)
gives `TransitionsSpareReaders`. One lemma says what each step does to the roots
(`RootEffects`) and one what a step leaves of the operations of others
(`OtherOperations`). The runs have one keeper; the theorems hold for any number, so also
for two rebuilds and a quarantine that interleave. Assumed are finitely many readers and
keepers, so that a created lease file has an inode that nobody refers to.

`ChangeIndexProofs`. The invariant is that the two tables are the fold of the facts
applied so far, in the terms of a rebuild. A delta keeps it because every row that the
new facts change is among those it finds affected: one lemma per kind of row (direct,
historical, withdrawal, resolution). `ThreadsHaveHeads` follows the comment in
`effective.rs`: a Revision is superseded only where every Change that holds it has moved
on, and a usable Change is acyclic, so it ends at a Revision that nothing supersedes.
For `SeekAgreesWithFold`, the selected facts are closed under what the fold of one Change
reads, so the two folds agree but for obligations carried elsewhere.

`ChangeOperationsProofs`. `IInv` has one part per thing that a call counts on: what its
basis says (`CallBased`), which files it has written (`CallFiles`), which of its events
are recorded (`CallLog`), that one process writes a file (`Alone`), what a whole plan or
checkpoint says (`PlanOK`, `CheckpointOK`), that every recorded event of an operation is
in its plan (`LogOK`), and the history (`HistoryOK`). For cycles: a token without gaps
means that every active relation is one between members; the appended relations start
at a Revision that nothing replaces or that is not a member yet, so they close nothing;
own appends do not change the baseline, and appends of others make the call overtaken.

`ChangeMigrationProofs`. `TypeCorrect` needs `Grounded`: what a running call counts
on from its earlier steps. The other theorems assume `ForwardsLegacyOnly` (peers
forward no Change record) and rest on `IInv`: `L0Inv` (no Change record before
activation), `AuthorityInv` (the activation is a retained plan; before completion
the journal is the approved one and reserved records, after it every reserved
record is in place and no event type is retired), `PlanInv` and `BackupInv` (a plan is signed only over a
complete backup of the approved cursor, closed under artifacts), `CallInv` (what
each step knows under the lock) and `WriterInv` (an admission stays true while its
writer holds the lock). `LegacyFrame` is why reserved appends do not disturb the
approved set. The strict inspection after the activation (`CheckAdmits`) is what keeps
a store with a retired event type from its completion; nobody writes such a record
(`RetiredApart`), so what was found there stays true. `IInv` itself was checked by
TLC on the instance of `migration_resume` before it was proved.

Only model-checked: `HolderReleases`, `WriteEnds`, `EveryoneEnds` and
`TransitionCompletes` (liveness is out of this prover's reach). Every safety property of
a passing run is a theorem. `HasCycle` walks the graph as the code does; that it
agrees with reachability is checked by TLC on every graph over three Revisions
(`CycleReference`), since induction over data is out of the prover's reach too.

## 5. What is not modelled

Cryptography, JSON encodings, git, HTTP and user interfaces are inputs or
presentation. The NTFS journal, Windows (where fsync of a directory is a no-op)
and the in-memory backend are left out. SQLite transactions are taken as atomic
and durable; with `synchronous=NORMAL` a power loss may undo the last one of the
locator, which a rebuild repairs. In `DerivedAccess` projection rows are reduced to how
far they have been applied; `ChangeIndex` has the rows of the Change tables, and the
locator, timeline and revision tables, with their paging and ranking, are left out. The
planning of a bulk adoption (connected components, anomalies, owner decisions) is taken
as a function of its approved inputs, and the Change records that peers forward are left
out of `migration_resume`. Tasks are left out.

Most of the repository's lines are not the modelled kind: about 329,000 lines of Rust
and TypeScript are dominated by tests beside the code, the benchmark harness
(`src/bench_support`), the inspect server and its API types, the command line, and
serialization. They keep no state of their own, so the share of lines that the map
covers stays small although the parts that keep state are nearly all there.

## 6. Plan

1. Done: `EventStore`, `ContentRemoval`, `StoreLink`, `ChangeMigration`,
   `ChangeIndex`, `ChangeProjection`, `ChangeOperations`, `DerivedAccess` and
   `Generations` with proofs; `FamilyForget` checked.
2. What a family keeps when registrations of its clones do not overlap, proved as the
   positive side of `family_forgotten`.
3. `ChangeMigration` with Change records forwarded to a store that is Ready.
4. The task projections, and the owner decisions of a bulk adoption.

----------------------------- MODULE Generations -----------------------------
(***************************************************************************)
(* The generations of derived access on disk: how a rebuild publishes one  *)
(* and reclaims the others, how readers pin one with a lease, and how the  *)
(* whole root is moved aside, deleted, or moved from the legacy to the     *)
(* stable namespace.  DerivedAccess is about what a generation holds; this *)
(* module is about which one is open and whether its files stay.           *)
(* src/src/session/derived_access/{generation,lifecycle,layout}.rs and     *)
(* src/src/session/derived_access/sqlite/writer_lock.rs.                   *)
(*                                                                         *)
(* A lease is a shared flock on a file named after the generation.  Lease  *)
(* files are unlinked, and a process may hold a lock on a file that no     *)
(* longer has a name: a name is bound to an inode here, and locks are on   *)
(* inodes.  Writer and rebuild lock files are never unlinked.  A listing   *)
(* of a directory is one step.                                             *)
(***************************************************************************)
EXTENDS Naturals, FiniteSets

CONSTANTS
    Gens,       \* generation ids: a fresh one for each rebuild
    Readers,    \* readers and governed writers, one open generation each
    Keepers,    \* rebuilds, transitions, quarantines, deletions under way
    Attempts,   \* STABLE_PUBLICATION_ATTEMPTS
    None

ASSUME GenerationsAssumption ==
    /\ Attempts \in Nat \ {0}
    /\ Readers \cap Keepers = {}
    /\ \A x \in Gens \cup Readers \cup Keepers : x # None
    /\ IsFiniteSet(Readers) /\ IsFiniteSet(Keepers)

Publications == [seq : Nat, gen : Gens]
ASSUME PublicationAssumption == None \notin Publications

Namespaces == {"legacy", "stable"}
Leases == Namespaces \X Gens
Inodes == 1 .. (Cardinality(Readers) + Cardinality(Keepers) + 1)

VARIABLES
    root,       \* the derived root of each namespace
    aside,      \* quarantined and retired roots
    used,       \* generation ids given so far
    file,       \* the inode each lease name is bound to (0: no such file)
    wlock,      \* holder of each namespace's writer lock
    rlock,      \* holder of each namespace's rebuild lock
    authority,  \* holder of the store authority lock
    reader,     \* each reader
    keeper      \* each maintenance operation

disk == <<root, aside, used>>
locks == <<wlock, rlock, authority>>
vars == <<disk, file, locks, reader, keeper>>

NoRoot == [there |-> FALSE, whole |-> FALSE, pubs |-> {}, gens |-> {}, staged |-> {}]
IdleReader == [at |-> "idle", ns |-> "stable", lockns |-> "stable", pub |-> None,
               ino |-> 0, tries |-> 0]
IdleKeeper == [at |-> "idle", op |-> "rebuild", ns |-> "stable", lockns |-> "stable",
               gen |-> None, seq |-> 0, todo |-> {}, cur |-> None, exc |-> {},
               dir |-> None, round |-> 1]

\* A fresh store, or one an older version left with a legacy generation.
Init ==
    /\ \/ root = [n \in Namespaces |-> NoRoot] /\ used = {}
       \/ \E g \in Gens :
             /\ root = [n \in Namespaces |->
                    IF n = "stable" THEN NoRoot
                    ELSE [there |-> TRUE, whole |-> TRUE, staged |-> {}, gens |-> {g},
                          pubs |-> {[seq |-> 1, gen |-> g]}]]
             /\ used = {g}
    /\ aside = {}
    /\ file = [l \in Leases |-> 0]
    /\ wlock = [n \in Namespaces |-> None]
    /\ rlock = [n \in Namespaces |-> None]
    /\ authority = None
    /\ reader = [r \in Readers |-> IdleReader]
    /\ keeper = [k \in Keepers |-> IdleKeeper]

\* DerivedStorageLayout::discover.
Resolve ==
    IF root["stable"].there /\ root["legacy"].there THEN "conflict"
    ELSE IF root["legacy"].there THEN "legacy" ELSE "stable"

\* current_publication: the one with the highest sequence.
Current(n) ==
    IF root[n].pubs = {} THEN None
    ELSE CHOOSE p \in root[n].pubs : \A q \in root[n].pubs : q.seq <= p.seq

\* Locks on the inodes that have borne the name l.
Leased == {"confirm", "reading", "attach", "writing"}
LeaseOf(r) == <<reader[r].ns, reader[r].pub.gen>>
Handles(l, i) == {r \in Readers : reader[r].ino = i /\ i # 0 /\ LeaseOf(r) = l}
Shared(l, i) == {r \in Handles(l, i) : reader[r].at \in Leased}
Exclusive(l, i) == {k \in Keepers : <<l, i>> \in keeper[k].exc}
Idle(l, i) == Shared(l, i) = {} /\ Exclusive(l, i) = {}

\* open_lock_file creates the file when it is not there, with an inode nobody
\* refers to.
Opened(l) ==
    IF file[l] # 0 THEN file[l]
    ELSE CHOOSE i \in Inodes : Handles(l, i) = {} /\ Exclusive(l, i) = {}
OpenedAll(ls) == [l \in Leases |-> IF l \in ls THEN Opened(l) ELSE file[l]]

Released(held, p) == [n \in Namespaces |-> IF held[n] = p THEN None ELSE held[n]]

LetGo(p) ==
    /\ wlock' = Released(wlock, p)
    /\ rlock' = Released(rlock, p)
    /\ authority' = IF authority = p THEN None ELSE authority

(***************************************************************************)
(* Readers: open_current                                                   *)
(***************************************************************************)
ReaderIs(r, state) == reader' = [reader EXCEPT ![r] = state]

ReaderStart(r) ==
    /\ reader[r].at = "idle"
    /\ reader' = [reader EXCEPT ![r].at = "select"]
    /\ UNCHANGED <<disk, file, locks, keeper>>

\* Both roots present is an error, no publication is an absent generation.
ReaderSelect(r) ==
    /\ reader[r].at = "select"
    /\ IF Resolve = "conflict" \/ Current(Resolve) = None
       THEN ReaderIs(r, IdleReader)
       ELSE ReaderIs(r, [reader[r] EXCEPT !.at = "open", !.ns = Resolve,
                                          !.pub = Current(Resolve)])
    /\ UNCHANGED <<disk, file, locks, keeper>>

ReaderOpen(r) ==
    LET l == LeaseOf(r) IN
    /\ reader[r].at = "open"
    /\ file' = [file EXCEPT ![l] = Opened(l)]
    /\ ReaderIs(r, [reader[r] EXCEPT !.at = "lock", !.ino = Opened(l)])
    /\ UNCHANGED <<disk, locks, keeper>>

\* lock_shared waits for an exclusive holder.
ReaderLock(r) ==
    /\ reader[r].at = "lock"
    /\ Exclusive(LeaseOf(r), reader[r].ino) = {}
    /\ reader' = [reader EXCEPT ![r].at = "confirm"]
    /\ UNCHANGED <<disk, file, locks, keeper>>

\* Mutant: the lease is trusted without a second look at the publication.
ReaderConfirmBlindly(r) ==
    /\ reader[r].at = "confirm"
    /\ reader' = [reader EXCEPT ![r].at = "reading"]
    /\ UNCHANGED <<disk, file, locks, keeper>>

\* The namespace and the publication are looked up again; when either has
\* changed the lease is dropped and the reader starts over, Attempts times.
ReaderConfirm(r) ==
    LET again == reader[r].tries + 1 IN
    /\ reader[r].at = "confirm"
    /\ IF Resolve = reader[r].ns /\ Current(Resolve) = reader[r].pub
       THEN reader' = [reader EXCEPT ![r].at = "reading"]
       ELSE IF Resolve = "conflict" \/ again = Attempts
       THEN ReaderIs(r, IdleReader)
       ELSE ReaderIs(r, [IdleReader EXCEPT !.at = "select", !.tries = again])
    /\ UNCHANGED <<disk, file, locks, keeper>>

(***************************************************************************)
(* Governed writers: open_current_for_write_locked                         *)
(***************************************************************************)

\* The lifecycle fixes its paths when it is built.
GovernedStart(r) ==
    /\ reader[r].at = "idle" /\ Resolve # "conflict"
    /\ ReaderIs(r, [IdleReader EXCEPT !.at = "wresolve", !.ns = Resolve])
    /\ UNCHANGED <<disk, file, locks, keeper>>

\* StoreWriterLock::acquire finds the lock file, then waits for it.
GovernedResolve(r) ==
    /\ reader[r].at = "wresolve"
    /\ IF Resolve = "conflict" THEN ReaderIs(r, IdleReader)
       ELSE ReaderIs(r, [reader[r] EXCEPT !.at = "wlock", !.lockns = Resolve])
    /\ UNCHANGED <<disk, file, locks, keeper>>

GovernedLock(r) ==
    /\ reader[r].at = "wlock"
    /\ wlock[reader[r].lockns] = None
    /\ wlock' = [wlock EXCEPT ![reader[r].lockns] = r]
    /\ reader' = [reader EXCEPT ![r].at = "wselect"]
    /\ UNCHANGED <<disk, file, rlock, authority, keeper>>

\* Mutant: the early return keeps the writer lock.
GovernedSelectKeeps(r) ==
    LET n == reader[r].ns IN
    /\ reader[r].at = "wselect"
    /\ IF Current(n) = None
       THEN ReaderIs(r, IdleReader)
       ELSE ReaderIs(r, [reader[r] EXCEPT !.at = "wopen", !.pub = Current(n)])
    /\ UNCHANGED <<disk, file, locks, keeper>>

GovernedSelect(r) ==
    LET n == reader[r].ns IN
    /\ reader[r].at = "wselect"
    /\ IF Current(n) = None
       THEN ReaderIs(r, IdleReader) /\ LetGo(r)
       ELSE /\ ReaderIs(r, [reader[r] EXCEPT !.at = "wopen", !.pub = Current(n)])
            /\ UNCHANGED locks
    /\ UNCHANGED <<disk, file, keeper>>

GovernedOpen(r) ==
    LET l == LeaseOf(r) IN
    /\ reader[r].at = "wopen"
    /\ file' = [file EXCEPT ![l] = Opened(l)]
    /\ ReaderIs(r, [reader[r] EXCEPT !.at = "wlease", !.ino = Opened(l)])
    /\ UNCHANGED <<disk, locks, keeper>>

\* The publication is not looked up again: the writer lock keeps it.
GovernedLease(r) ==
    /\ reader[r].at = "wlease"
    /\ Exclusive(LeaseOf(r), reader[r].ino) = {}
    /\ reader' = [reader EXCEPT ![r].at = "attach"]
    /\ UNCHANGED <<disk, file, locks, keeper>>

\* Descriptor and databases are opened by path; without them the write is
\* refused.
GovernedAttach(r) ==
    /\ reader[r].at = "attach"
    /\ IF reader[r].pub.gen \in root[reader[r].ns].gens
       THEN reader' = [reader EXCEPT ![r].at = "writing"] /\ UNCHANGED locks
       ELSE ReaderIs(r, IdleReader) /\ LetGo(r)
    /\ UNCHANGED <<disk, file, keeper>>

ReaderDone(r) ==
    /\ reader[r].at \in {"reading", "writing"}
    /\ ReaderIs(r, IdleReader) /\ LetGo(r)
    /\ UNCHANGED <<disk, file, keeper>>

\* Locks die with the process.
ReaderCrash(r) ==
    /\ reader[r].at \notin {"idle", "reading", "writing"}
    /\ ReaderIs(r, IdleReader) /\ LetGo(r)
    /\ UNCHANGED <<disk, file, keeper>>

(***************************************************************************)
(* Keepers: rebuild_with_execution                                         *)
(***************************************************************************)
KeeperIs(k, state) == keeper' = [keeper EXCEPT ![k] = state]
KeeperAt(k, step) == keeper' = [keeper EXCEPT ![k].at = step]
End(k) == KeeperIs(k, IdleKeeper) /\ LetGo(k)

\* A keeper's lifecycle fixes its paths; a background worker keeps them for as
\* long as it retries.
KeeperStart(k, op) ==
    /\ keeper[k].at = "idle" /\ Resolve # "conflict"
    /\ op = "rebuild" => used # Gens
    /\ KeeperIs(k, [IdleKeeper EXCEPT !.at = "begin", !.op = op, !.ns = Resolve])
    /\ UNCHANGED <<disk, file, locks, reader>>

\* The authority lock and the rebuild lock are tried; either busy ends it.
RebuildLease(k) ==
    LET n == keeper[k].ns IN
    /\ keeper[k].at = "begin" /\ keeper[k].op = "rebuild"
    /\ IF authority = None /\ rlock[n] = None
       THEN /\ authority' = k /\ rlock' = [rlock EXCEPT ![n] = k]
            /\ KeeperAt(k, "scaffold")
       ELSE UNCHANGED <<authority, rlock>> /\ KeeperIs(k, IdleKeeper)
    /\ UNCHANGED <<disk, file, wlock, reader>>

\* ensure_scaffold, discard_all_staging, next_generation.
RebuildScaffold(k) ==
    LET n == keeper[k].ns IN
    /\ keeper[k].at = "scaffold"
    /\ \E g \in Gens \ used :
          /\ used' = used \cup {g}
          /\ KeeperIs(k, [keeper[k] EXCEPT !.at = "populate", !.gen = g,
                 !.seq = IF Current(n) = None THEN 1 ELSE Current(n).seq + 1])
    /\ root' = [root EXCEPT ![n] = [@ EXCEPT !.there = TRUE, !.whole = TRUE, !.staged = {}]]
    /\ UNCHANGED <<aside, file, locks, reader>>

\* The candidate is built in staging/, whose directories are made again when
\* the root went in the meantime.  The writer lock, looked up by namespace, is
\* only tried.  A background rebuild lets the authority lock go here.
RebuildPopulate(k) ==
    /\ keeper[k].at = "populate"
    /\ Resolve # "conflict" /\ wlock[Resolve] = None
    /\ root' = [root EXCEPT ![keeper[k].ns] =
                   [@ EXCEPT !.there = TRUE, !.staged = {keeper[k].gen}]]
    /\ KeeperAt(k, "finalize")
    /\ authority' \in {k, None}
    /\ UNCHANGED <<aside, used, file, wlock, rlock, reader>>

\* A failed, cancelled or refused candidate: discard_staging.  The error of a
\* publication or a retirement ends the rebuild too, with nothing staged.
RebuildAbandon(k) ==
    /\ \/ keeper[k].at \in {"populate", "finalize", "promote", "publish", "retire"}
       \/ keeper[k].at = "await" /\ keeper[k].op = "rebuild"
    /\ root' = [root EXCEPT ![keeper[k].ns].staged = {}]
    /\ End(k)
    /\ UNCHANGED <<aside, used, file, reader>>

\* A background rebuild tries the authority lock again.  The writer lock is
\* found once more; it is waited for in the foreground and held to the end.
RebuildFinalize(k) ==
    /\ keeper[k].at = "finalize"
    /\ authority \in {k, None} /\ Resolve # "conflict"
    /\ authority' = k
    /\ KeeperIs(k, [keeper[k] EXCEPT !.at = "await", !.lockns = Resolve])
    /\ UNCHANGED <<disk, file, wlock, rlock, reader>>

\* The rename needs the candidate and a generations/ directory.
RebuildPromote(k) ==
    LET n == keeper[k].ns IN
    /\ keeper[k].at = "promote"
    /\ root[n].whole /\ keeper[k].gen \in root[n].staged
    /\ root' = [root EXCEPT ![n] = [root[n] EXCEPT !.staged = {},
                                                   !.gens = @ \cup {keeper[k].gen}]]
    /\ KeeperAt(k, "publish")
    /\ UNCHANGED <<aside, used, file, locks, reader>>

\* The publication is renamed into publications/, which is there or not.
RebuildPublish(k) ==
    /\ keeper[k].at = "publish" /\ root[keeper[k].ns].whole
    /\ root' = [root EXCEPT ![keeper[k].ns].pubs =
                   @ \cup {[seq |-> keeper[k].seq, gen |-> keeper[k].gen]}]
    /\ KeeperAt(k, "retire")
    /\ UNCHANGED <<aside, used, file, locks, reader>>

Listed == {l \in Leases : file[l] # 0}

\* Mutant: the publications are retired from the newest on.
RebuildRetireAll(k) ==
    LET n == keeper[k].ns IN
    /\ keeper[k].at = "retire"
    /\ \/ \E p \in root[n].pubs :
             /\ Cardinality(root[n].pubs) > 1
             /\ root' = [root EXCEPT ![n].pubs = @ \ {p}]
             /\ UNCHANGED keeper
       \/ /\ Cardinality(root[n].pubs) <= 1
          /\ KeeperIs(k, [keeper[k] EXCEPT !.at = "sweep", !.todo = Listed])
          /\ UNCHANGED root
    /\ UNCHANGED <<aside, used, file, locks, reader>>

\* retire_prior_publications, then the first sweep lists the lease files.
RebuildRetire(k) ==
    LET n == keeper[k].ns
        prior == {p \in root[n].pubs : p.seq < keeper[k].seq}
    IN
    /\ keeper[k].at = "retire" /\ root[n].whole
    /\ \/ \E p \in prior :
             /\ root' = [root EXCEPT ![n].pubs = @ \ {p}]
             /\ UNCHANGED keeper
       \/ /\ prior = {}
          /\ KeeperIs(k, [keeper[k] EXCEPT !.at = "sweep", !.todo = Listed])
          /\ UNCHANGED root
    /\ UNCHANGED <<aside, used, file, locks, reader>>

(***************************************************************************)
(* Keepers: sweep_orphaned_generation_leases, reclaim_inactive_generations *)
(***************************************************************************)

\* Mutant: a lease is taken for orphaned without trying its lock.
SweepProbeBlindly(k, l) ==
    /\ keeper[k].at = "sweep" /\ l \in keeper[k].todo
    /\ KeeperIs(k, IF l[2] \in root[keeper[k].ns].gens
                   THEN [keeper[k] EXCEPT !.todo = @ \ {l}]
                   ELSE [keeper[k] EXCEPT !.at = "unlink", !.cur = l])
    /\ UNCHANGED <<disk, file, locks, reader>>

\* A lease whose generation is in this root is kept, and so is one that is
\* held.  The lock is let go before the file is unlinked.
SweepProbe(k, l) ==
    /\ keeper[k].at = "sweep" /\ l \in keeper[k].todo
    /\ IF file[l] = 0 /\ l[2] \notin root[keeper[k].ns].gens
       THEN End(k)
       ELSE /\ KeeperIs(k, IF l[2] \in root[keeper[k].ns].gens \/ ~Idle(l, file[l])
                           THEN [keeper[k] EXCEPT !.todo = @ \ {l}]
                           ELSE [keeper[k] EXCEPT !.at = "unlink", !.cur = l])
            /\ UNCHANGED locks
    /\ UNCHANGED <<disk, file, reader>>

\* remove_file goes by name, whichever inode has it now.
Unlink(k) ==
    LET l == keeper[k].cur IN
    /\ keeper[k].at = "unlink"
    /\ file' = [file EXCEPT ![l] = 0]
    /\ KeeperIs(k, [keeper[k] EXCEPT !.at = IF keeper[k].op = "rebuild" THEN "sweep" ELSE "drop",
                                     !.todo = @ \ {l}, !.cur = None])
    /\ UNCHANGED <<disk, locks, reader>>

\* Swept before and after the reclaim, which needs a generations/ directory.
SweepDone(k) ==
    LET n == keeper[k].ns IN
    /\ keeper[k].at = "sweep" /\ keeper[k].todo = {}
    /\ IF keeper[k].round = 2 \/ ~root[n].whole THEN End(k)
       ELSE /\ KeeperIs(k, [keeper[k] EXCEPT !.at = "reclaim",
                   !.todo = {<<n, g>> : g \in root[n].gens \ {keeper[k].gen}}])
            /\ UNCHANGED locks
    /\ UNCHANGED <<disk, file, reader>>

\* A generation whose lease is held is retained by its readers.
ReclaimProbe(k, l) ==
    LET i == Opened(l) IN
    /\ keeper[k].at = "reclaim" /\ l \in keeper[k].todo
    /\ file' = [file EXCEPT ![l] = i]
    /\ KeeperIs(k, IF Idle(l, i)
                   THEN [keeper[k] EXCEPT !.at = "erase", !.cur = l, !.exc = {<<l, i>>}]
                   ELSE [keeper[k] EXCEPT !.todo = @ \ {l}])
    /\ UNCHANGED <<disk, locks, reader>>

\* remove_dir_all; the error of one that is not there ends the reclaim.
ReclaimErase(k) ==
    LET l == keeper[k].cur
        n == keeper[k].ns
    IN
    /\ keeper[k].at = "erase"
    /\ IF l[2] \in root[n].gens
       THEN /\ root' = [root EXCEPT ![n].gens = @ \ {l[2]}]
            /\ KeeperIs(k, [keeper[k] EXCEPT !.at = "reclaim", !.todo = @ \ {l},
                                             !.cur = None, !.exc = {}])
            /\ UNCHANGED locks
       ELSE UNCHANGED root /\ End(k)
    /\ UNCHANGED <<aside, used, file, reader>>

ReclaimDone(k) ==
    /\ keeper[k].at = "reclaim" /\ keeper[k].todo = {}
    /\ KeeperIs(k, [keeper[k] EXCEPT !.at = "sweep", !.round = 2, !.todo = Listed])
    /\ UNCHANGED <<disk, file, locks, reader>>

(***************************************************************************)
(* Keepers: quarantine, retire, delete, purge_disposable_root              *)
(***************************************************************************)

\* delete tries the rebuild lock first.
DeleteLease(k) ==
    LET n == keeper[k].ns IN
    /\ keeper[k].at = "begin" /\ keeper[k].op = "delete"
    /\ IF rlock[n] = None
       THEN rlock' = [rlock EXCEPT ![n] = k] /\ KeeperAt(k, "resolve")
       ELSE UNCHANGED rlock /\ KeeperIs(k, IdleKeeper)
    /\ UNCHANGED <<disk, file, wlock, authority, reader>>

\* StoreWriterLock::acquire: the lock file is found, then waited for.
KeeperResolve(k) ==
    /\ \/ keeper[k].at = "begin" /\ keeper[k].op = "aside"
       \/ keeper[k].at = "resolve"
    /\ IF Resolve = "conflict" THEN End(k)
       ELSE /\ KeeperIs(k, [keeper[k] EXCEPT !.at = "await", !.lockns = Resolve])
            /\ UNCHANGED locks
    /\ UNCHANGED <<disk, file, reader>>

KeeperLock(k) ==
    /\ keeper[k].at = "await"
    /\ wlock[keeper[k].lockns] = None
    /\ wlock' = [wlock EXCEPT ![keeper[k].lockns] = k]
    /\ KeeperAt(k, CASE keeper[k].op = "aside" -> "rename"
                     [] keeper[k].op = "delete" -> "leases"
                     [] OTHER -> "promote")
    /\ UNCHANGED <<disk, file, rlock, authority, reader>>

\* GenerationLayout::quarantine and retire rename the whole root, leases or
\* not; files that are open stay open.
AsideRename(k) ==
    LET n == keeper[k].ns IN
    /\ keeper[k].at = "rename"
    /\ IF root[n].there
       THEN /\ aside' = aside \cup {[ns |-> n, gens |-> root[n].gens]}
            /\ root' = [root EXCEPT ![n] = NoRoot]
       ELSE UNCHANGED <<aside, root>>
    /\ End(k)
    /\ UNCHANGED <<used, file, reader>>

\* purge_disposable_root takes no lock but the leases.
PurgeStart(k, a) ==
    /\ keeper[k].at = "idle" /\ a \in aside
    /\ KeeperIs(k, [IdleKeeper EXCEPT !.at = "leases", !.op = "purge", !.dir = a])
    /\ UNCHANGED <<disk, file, locks, reader>>

\* remove_root_and_generation_leases: every lease is tried before anything is
\* deleted; one that is held is GenerationInUse.
Doomed(k) ==
    IF keeper[k].op = "purge"
    THEN {<<a.ns, g>> : a \in aside \cap {keeper[k].dir}, g \in keeper[k].dir.gens}
    ELSE {<<keeper[k].ns, g>> : g \in root[keeper[k].ns].gens}

RemoveLeases(k) ==
    LET f == OpenedAll(Doomed(k)) IN
    /\ keeper[k].at = "leases"
    /\ IF \A l \in Doomed(k) : Idle(l, file[l])
       THEN /\ file' = f
            /\ KeeperIs(k, [keeper[k] EXCEPT !.at = "remove", !.todo = Doomed(k),
                                             !.exc = {<<l, f[l]>> : l \in Doomed(k)}])
            /\ UNCHANGED locks
       ELSE UNCHANGED file /\ End(k)
    /\ UNCHANGED <<disk, reader>>

RemoveRoot(k) ==
    /\ keeper[k].at = "remove"
    /\ IF keeper[k].op = "purge"
       THEN aside' = aside \ {keeper[k].dir} /\ UNCHANGED root
       ELSE root' = [root EXCEPT ![keeper[k].ns] = NoRoot] /\ UNCHANGED aside
    /\ KeeperIs(k, [keeper[k] EXCEPT !.at = "drop", !.dir = None])
    /\ UNCHANGED <<used, file, locks, reader>>

\* One lease after the other: unlocked, then unlinked.
RemoveDrop(k) ==
    /\ keeper[k].at = "drop"
    /\ \/ \E l \in keeper[k].todo :
             /\ KeeperIs(k, [keeper[k] EXCEPT !.at = "unlink", !.cur = l,
                                              !.exc = {e \in @ : e[1] # l}])
             /\ UNCHANGED locks
       \/ keeper[k].todo = {} /\ End(k)
    /\ UNCHANGED <<disk, file, reader>>

(***************************************************************************)
(* Keepers: transition_legacy                                              *)
(***************************************************************************)
Movable == root["legacy"].there \/ \E a \in aside : a.ns = "legacy"

\* Every generation with a directory or a lease file.
Known ==
    {l[2] : l \in Listed} \cup (UNION {a.gens : a \in aside})
    \cup root["legacy"].gens \cup root["stable"].gens

\* Nothing to move, or a conflict, ends it; so does a lock that is held, with
\* the transition deferred.
TransitionLocks(k) ==
    /\ keeper[k].at = "begin" /\ keeper[k].op = "transition"
    /\ IF Movable /\ Resolve # "conflict"
          /\ \A n \in Namespaces : wlock[n] = None /\ rlock[n] = None
       THEN /\ wlock' = [n \in Namespaces |-> k] /\ rlock' = [n \in Namespaces |-> k]
            /\ KeeperAt(k, "tleases")
       ELSE UNCHANGED <<wlock, rlock>> /\ KeeperIs(k, IdleKeeper)
    /\ UNCHANGED <<disk, file, authority, reader>>

\* Mutant: only the names of the stable namespace are tried.
TransitionLeasesStable(k) ==
    LET ls == {"stable"} \X Known
        f == OpenedAll(ls) IN
    /\ keeper[k].at = "tleases"
    /\ IF \A l \in ls : Idle(l, file[l])
       THEN /\ file' = f
            /\ KeeperIs(k, [keeper[k] EXCEPT !.at = "move", !.exc = {<<l, f[l]>> : l \in ls}])
            /\ UNCHANGED locks
       ELSE UNCHANGED file /\ End(k)
    /\ UNCHANGED <<disk, reader>>

\* The leases of every known generation, under both of its names.
TransitionLeases(k) ==
    LET ls == Namespaces \X Known
        f == OpenedAll(ls) IN
    /\ keeper[k].at = "tleases"
    /\ IF \A l \in ls : Idle(l, file[l])
       THEN /\ file' = f
            /\ KeeperIs(k, [keeper[k] EXCEPT !.at = "move", !.exc = {<<l, f[l]>> : l \in ls}])
            /\ UNCHANGED locks
       ELSE UNCHANGED file /\ End(k)
    /\ UNCHANGED <<disk, reader>>

\* The roots set aside move first, the root that is the namespace's marker last.
TransitionMove(k) ==
    LET left == {a \in aside : a.ns = "legacy"} IN
    /\ keeper[k].at = "move"
    /\ \/ \E a \in left :
             /\ aside' = (aside \ {a}) \cup {[a EXCEPT !.ns = "stable"]}
             /\ UNCHANGED <<root, keeper, locks>>
       \/ /\ left = {}
          /\ root' = IF root["legacy"].there
                     THEN [n \in Namespaces |-> IF n = "stable" THEN root["legacy"] ELSE NoRoot]
                     ELSE root
          /\ UNCHANGED aside
          /\ End(k)
    /\ UNCHANGED <<used, file, reader>>

\* The process dies; locks go with it, files stay.
KeeperCrash(k) ==
    /\ keeper[k].at # "idle"
    /\ End(k)
    /\ UNCHANGED <<disk, file, reader>>

(***************************************************************************)
(* Specification                                                           *)
(***************************************************************************)
ReaderStep(r) ==
    \/ ReaderSelect(r) \/ ReaderOpen(r) \/ ReaderLock(r) \/ ReaderConfirm(r)
    \/ GovernedResolve(r) \/ GovernedLock(r) \/ GovernedSelect(r) \/ GovernedOpen(r)
    \/ GovernedLease(r) \/ GovernedAttach(r) \/ ReaderDone(r)

RebuildStep(k) ==
    \/ RebuildLease(k) \/ RebuildScaffold(k) \/ RebuildPopulate(k) \/ RebuildAbandon(k)
    \/ RebuildFinalize(k) \/ RebuildPromote(k) \/ RebuildPublish(k) \/ RebuildRetire(k)
    \/ (\E l \in Leases : SweepProbe(k, l)) \/ Unlink(k) \/ SweepDone(k)
    \/ (\E l \in Leases : ReclaimProbe(k, l)) \/ ReclaimErase(k) \/ ReclaimDone(k)

RemoveStep(k) ==
    \/ DeleteLease(k) \/ KeeperResolve(k) \/ KeeperLock(k) \/ AsideRename(k)
    \/ RemoveLeases(k) \/ RemoveRoot(k) \/ RemoveDrop(k)

TransitionStep(k) == TransitionLocks(k) \/ TransitionLeases(k) \/ TransitionMove(k)

KeeperStep(k) == RebuildStep(k) \/ RemoveStep(k) \/ TransitionStep(k)

Operations == {"rebuild", "aside", "delete", "transition"}

Next ==
    \/ \E r \in Readers : ReaderStart(r) \/ GovernedStart(r) \/ ReaderStep(r) \/ ReaderCrash(r)
    \/ \E k \in Keepers : KeeperStep(k) \/ KeeperCrash(k)
    \/ \E k \in Keepers, op \in Operations : KeeperStart(k, op)
    \/ \E k \in Keepers, a \in aside : PurgeStart(k, a)

\* A process that is running runs on, and a file lock that comes free again and
\* again is given in the end to whoever waits for it.
Fairness ==
    /\ \A r \in Readers : /\ WF_vars(ReaderStep(r))
                          /\ SF_vars(ReaderLock(r) \/ GovernedLease(r) \/ GovernedLock(r))
    /\ \A k \in Keepers : WF_vars(KeeperStep(k)) /\ SF_vars(KeeperLock(k))

Spec == Init /\ [][Next]_vars /\ Fairness

(***************************************************************************)
(* Properties                                                              *)
(***************************************************************************)
Open == {"reading", "writing"}

\* The files of an open generation are never deleted: they may be moved aside
\* with their root, but no reclaim, delete or purge takes them while the lease
\* is held, in whatever order publication, lease and deletion come.
OpenGenerationStays ==
    \A r \in Readers : reader[r].at \in Open =>
        \/ \E n \in Namespaces : reader[r].pub.gen \in root[n].gens
        \/ \E a \in aside : reader[r].pub.gen \in a.gens

\* The sweep never unlinks "a lease that protects a live generation": the name
\* of an open generation's lease is bound to the file its reader has locked.
LeaseStaysLinked ==
    \A r \in Readers : reader[r].at \in Open =>
        file[LeaseOf(r)] = reader[r].ino

\* Wherever a rebuild dies, what a reader would select is one whole generation.
CurrentIsWhole ==
    \A n \in Namespaces : root[n].pubs # {} =>
        /\ Current(n).gen \in root[n].gens
        /\ \A p, q \in root[n].pubs : p.seq = q.seq => p = q

\* A namespace transition takes no generation from under a reader: one that
\* moves from the legacy to the stable root has nobody in it.
TransitionSparesReaders ==
    [][ \A r \in Readers : reader[r].at \in Open =>
            reader[r].pub.gen \notin root["legacy"].gens \cap root'["stable"].gens ]_vars

\* Nobody waits forever: leases are waited for and writer locks are waited for,
\* and yet every open and every maintenance operation comes to an end.
EveryoneEnds ==
    /\ \A r \in Readers : reader[r].at # "idle" ~> reader[r].at = "idle"
    /\ \A k \in Keepers : keeper[k].at # "idle" ~> keeper[k].at = "idle"
=============================================================================

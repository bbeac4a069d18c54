------------------------- MODULE GenerationsProofs --------------------------
(***************************************************************************)
(* Proofs about Generations, for any number of readers, writers, keepers   *)
(* and generations.  Two facts carry the argument.  A lease name stays     *)
(* bound to its file for as long as the generation is in a root (Links),   *)
(* so whoever has it locked, shared or exclusively, has the file everybody *)
(* else would open.  And a generation that has left the roots never comes  *)
(* back (LiveShrinks), so no reader can confirm it afterwards: what is     *)
(* unlinked, erased or removed was without readers when it was tried, and  *)
(* stays without them (NoOpenKept).                                        *)
(***************************************************************************)
EXTENDS Generations, FiniteSetTheorems, TLAPS

(***************************************************************************)
(* The stages of an operation and what is said of a generation.            *)
(***************************************************************************)
Is(k, op, steps) == keeper[k].op = op /\ keeper[k].at \in steps

Candidate == {"populate", "finalize", "await", "promote"}
Sweeping == {"sweep", "unlink", "reclaim", "erase"}
Final == {"await", "promote", "publish", "retire"} \cup Sweeping
Building == {"scaffold", "populate", "finalize"} \cup Final
Removing == {"resolve", "await", "leases", "remove", "drop", "unlink"}
Held == {"lock", "confirm", "reading", "wlease", "attach", "writing"}
Aware == Held \cup {"open", "wopen"}
ReaderSteps == Aware \cup {"idle", "select", "wresolve", "wlock", "wselect"}
KeeperSteps == Building \cup Removing \cup {"idle", "begin", "rename", "tleases", "move"}

Other(n) == IF n = "legacy" THEN "stable" ELSE "legacy"
Asides == [ns : Namespaces, gens : SUBSET Gens]

\* A generation id that was given, and that no candidate has to itself.
Born == {g \in used : \A k \in Keepers : Is(k, "rebuild", Candidate) => keeper[k].gen # g}
Live(g) == \E n \in Namespaces : g \in root[n].gens
Stored(n, g) == g \in root[n].gens \/ \E a \in aside : a.ns = n /\ g \in a.gens
NoOpen(l) == \A r \in Readers : reader[r].at \in Open => LeaseOf(r) # l
Own(k) == [seq |-> keeper[k].seq, gen |-> keeper[k].gen]

(***************************************************************************)
(* The inductive invariant.                                                *)
(***************************************************************************)
Roots == [there : BOOLEAN, whole : BOOLEAN, pubs : SUBSET Publications,
          gens : SUBSET Gens, staged : SUBSET Gens]
ReaderRecords ==
    [at : ReaderSteps, ns : Namespaces, lockns : Namespaces, pub : Publications \cup {None},
     ino : Inodes \cup {0}, tries : Nat]
KeeperRecords ==
    [at : KeeperSteps, op : Operations \cup {"purge"}, ns : Namespaces, lockns : Namespaces,
     gen : Gens \cup {None}, seq : Nat, todo : SUBSET Leases, cur : Leases \cup {None},
     exc : SUBSET (Leases \X Inodes), dir : Asides \cup {None}, round : {1, 2}]

Types ==
    /\ root \in [Namespaces -> Roots]
    /\ aside \in SUBSET Asides
    /\ used \in SUBSET Gens
    /\ file \in [Leases -> Inodes \cup {0}]
    /\ rlock \in [Namespaces -> Readers \cup Keepers \cup {None}]
    /\ reader \in [Readers -> ReaderRecords]
    /\ keeper \in [Keepers -> KeeperRecords]

\* What is set at each step of a reader.
ReaderShape ==
    \A r \in Readers :
        /\ reader[r].at \in Aware => reader[r].pub \in Publications
        /\ reader[r].at \in Held => reader[r].ino \in Inodes

\* Which operation is at which step, and what is set there.
KeeperShape(k) ==
    /\ keeper[k].at \in Building \ {"await", "unlink"} => keeper[k].op = "rebuild"
    /\ keeper[k].at = "resolve" => keeper[k].op = "delete"
    /\ keeper[k].at = "await" => keeper[k].op \in {"aside", "delete", "rebuild"}
    /\ keeper[k].at = "rename" => keeper[k].op = "aside"
    /\ keeper[k].at \in {"leases", "remove", "drop"} => keeper[k].op \in {"delete", "purge"}
    /\ keeper[k].at \in {"tleases", "move"} => keeper[k].op = "transition"
    /\ keeper[k].at = "unlink" => keeper[k].op \in {"rebuild", "delete", "purge"}
    /\ Is(k, "rebuild", Building \ {"scaffold"}) => keeper[k].gen \in Gens
    /\ keeper[k].at \in {"unlink", "erase"} => keeper[k].cur \in Leases
    /\ Is(k, "purge", {"leases", "remove"}) => keeper[k].dir \in Asides

\* The locks an operation holds: a rebuild has its rebuild lock throughout, and
\* the authority lock but for the time it populates and verifies.
Guarded(k) ==
    /\ Is(k, "rebuild", Building) => rlock[keeper[k].ns] = k
    /\ Is(k, "rebuild", {"scaffold", "populate"} \cup Final) => authority = k
    /\ Is(k, "delete", Removing) => rlock[keeper[k].ns] = k
    /\ Is(k, "transition", {"tleases", "move"}) => \A n \in Namespaces : rlock[n] = k

\* Nobody but its rebuild knows of a candidate.
Births ==
    /\ \A n \in Namespaces : root[n].gens \subseteq Born
    /\ \A a \in aside : a.gens \subseteq Born
    /\ \A l \in Leases : file[l] # 0 => l[2] \in Born
    /\ \A r \in Readers : reader[r].at \in Aware => reader[r].pub.gen \in Born
    /\ \A k \in Keepers :
          /\ Is(k, "rebuild", Candidate) => keeper[k].gen \in used
          /\ \A l \in keeper[k].todo : l[2] \in Born
          /\ \A e \in keeper[k].exc : e[1][2] \in Born
          /\ keeper[k].at \in {"unlink", "erase"} => keeper[k].cur[2] \in Born
    /\ \A j, k \in Keepers :
          j # k /\ Is(j, "rebuild", Candidate) /\ Is(k, "rebuild", Candidate)
              => keeper[j].gen # keeper[k].gen

\* A generation is in one place, and in a root only where it was scaffolded.
Places ==
    /\ \A m, n \in Namespaces : m # n => root[m].gens \cap root[n].gens = {}
    /\ \A n \in Namespaces : \A a \in aside : a.gens \cap root[n].gens = {}
    /\ \A a, b \in aside : a # b => a.gens \cap b.gens = {}
    /\ \A n \in Namespaces : root[n].gens # {} => root[n].whole
    /\ \A n \in Namespaces : root[n].whole => root[n].there

\* The publications of a root name generations it has, one has the highest
\* sequence, and no two the same.
Whole(r) ==
    /\ \A p \in r.pubs : p.gen \in r.gens
    /\ \A p, q \in r.pubs : p.seq = q.seq => p = q
    /\ r.pubs # {} => \E p \in r.pubs : \A q \in r.pubs : q.seq <= p.seq
Heads == \A n \in Namespaces : Whole(root[n])

\* A rebuild publishes above what is published, and once it has found the
\* writer lock of its own namespace the other one has no generation.
Rebuilds(k) ==
    LET n == keeper[k].ns IN
    /\ Is(k, "rebuild", Candidate \cup {"publish"}) =>
          \A p \in root[n].pubs : p.seq < keeper[k].seq
    /\ Is(k, "rebuild", {"publish"}) /\ root[n].whole => keeper[k].gen \in root[n].gens
    /\ Is(k, "rebuild", {"retire"}) =>
          /\ \A p \in root[n].pubs : p.seq < keeper[k].seq \/ p = Own(k)
          /\ root[n].pubs # {} => Own(k) \in root[n].pubs
    /\ Is(k, "rebuild", Sweeping) => root[n].pubs \subseteq {Own(k)}
    /\ Is(k, "rebuild", {"await", "promote"}) /\ root[n].whole => root[Other(n)].gens = {}
    /\ Is(k, "rebuild", Final \ {"await", "promote"}) => root[Other(n)].gens = {}

\* While a generation is in a root, a lock on its lease is a lock on the file
\* that has the name.
Links ==
    /\ \A r \in Readers : reader[r].at \in Held /\ Live(reader[r].pub.gen) =>
          file[LeaseOf(r)] = reader[r].ino
    /\ \A k \in Keepers : \A e \in keeper[k].exc : Live(e[1][2]) => file[e[1]] = e[2]

\* Shared and exclusive locks exclude each other.
Excludes ==
    /\ \A r \in Readers, k \in Keepers : reader[r].at \in Leased =>
          <<LeaseOf(r), reader[r].ino>> \notin keeper[k].exc
    /\ \A k \in Keepers : \A d, e \in keeper[k].exc : d[1] = e[1] => d = e

\* An open generation is in a root or an aside of its reader's namespace.
Opens ==
    \A r \in Readers : reader[r].at \in Open =>
        /\ file[LeaseOf(r)] = reader[r].ino
        /\ Stored(reader[r].ns, reader[r].pub.gen)

\* What an operation is about to unlink or erase has no reader.
Dooms(k) ==
    LET n == keeper[k].ns
        todo == keeper[k].todo
        cur == keeper[k].cur
    IN
    /\ keeper[k].at = "unlink" => NoOpen(cur) /\ ~Live(cur[2])
    /\ keeper[k].at \in {"reclaim", "erase"} => \A l \in todo : l[1] = n /\ l[2] # keeper[k].gen
    /\ keeper[k].at = "erase" => /\ NoOpen(cur) /\ cur[1] = n /\ cur[2] # keeper[k].gen
                                 /\ \E i \in Inodes : <<cur, i>> \in keeper[k].exc
    /\ keeper[k].op # "rebuild" /\ keeper[k].at \in {"remove", "drop", "unlink"} =>
          \A l \in todo : NoOpen(l)
    /\ Is(k, "delete", {"drop", "unlink"}) => \A l \in todo : ~Live(l[2])
    /\ Is(k, "purge", {"remove", "drop", "unlink"}) => \A l \in todo : ~Live(l[2])
    /\ Is(k, "delete", {"remove"}) =>
          /\ \A l \in todo : /\ l[1] = n /\ l[2] \notin root[Other(n)].gens
                             /\ \E i \in Inodes : <<l, i>> \in keeper[k].exc
          /\ \A g \in root[n].gens : <<n, g>> \in todo

\* A purge is of a root that was set aside, and stays aside if it stays at all.
Purges(k) ==
    LET dir == keeper[k].dir IN
    Is(k, "purge", {"leases", "remove"}) =>
        /\ \A g \in dir.gens : g \in Born /\ ~Live(g)
        /\ \A a \in aside : \/ a = dir
                            \/ a.gens \cap dir.gens = {}
                            \/ a.ns = "stable" /\ dir.ns = "legacy"
        /\ keeper[k].at = "remove" /\ dir \in aside =>
              \A g \in dir.gens : <<dir.ns, g>> \in keeper[k].todo

\* A transition that moves has every lease there is.
Moves(k) ==
    Is(k, "transition", {"move"}) =>
        /\ \A r \in Readers : reader[r].at \notin Open
        /\ \A n \in Namespaces : \A g \in root[n].gens :
              \E i \in Inodes : <<<<n, g>>, i>> \in keeper[k].exc

IInv ==
    /\ Types /\ ReaderShape /\ Births /\ Places /\ Heads /\ Links /\ Excludes /\ Opens
    /\ \A k \in Keepers : /\ KeeperShape(k) /\ Guarded(k) /\ Rebuilds(k)
                          /\ Dooms(k) /\ Purges(k) /\ Moves(k)

(***************************************************************************)
(* Lease files: the inode of a name that is opened.                        *)
(***************************************************************************)
LEMMA InodeCount ==
    /\ Inodes \subseteq Nat \ {0}
    /\ IsFiniteSet(Inodes)
    /\ Cardinality(Inodes) = Cardinality(Readers) + Cardinality(Keepers) + 1
<1> DEFINE c == Cardinality(Readers) + Cardinality(Keepers) + 1
<1>1. c \in Nat /\ 1 <= c
    BY GenerationsAssumption, FS_CardinalityType
<1>2. IsFiniteSet(1..c) /\ Cardinality(1..c) = c
    <2>1. 1 \in Int /\ c \in Int /\ ~(1 > c)
        BY <1>1
    <2>2. IsFiniteSet(1..c) /\ Cardinality(1..c) = IF 1 > c THEN 0 ELSE c - 1 + 1
        BY <2>1, FS_Interval
    <2> QED
        BY <1>1, <2>1, <2>2
<1>3. 1..c \subseteq Nat \ {0}
    BY <1>1
<1> QED
    BY <1>2, <1>3 DEF Inodes

\* Every user of the lease l refers to one inode of it at most, and there are
\* more inodes than users.
LEMMA FreshInode ==
    ASSUME Types, Excludes, NEW l \in Leases
    PROVE  \E i \in Inodes : Handles(l, i) = {} /\ Exclusive(l, i) = {}
<1> DEFINE Users == Readers \cup Keepers
           of(k) == CHOOSE e \in keeper[k].exc : e[1] = l
           f == [u \in Users |-> IF u \in Readers THEN reader[u].ino ELSE of(u)[2]]
           S == {f[u] : u \in Users}
<1>1. IsFiniteSet(Users) /\ Cardinality(Users) <= Cardinality(Readers) + Cardinality(Keepers)
    <2>1. Readers \cap Keepers = {} /\ IsFiniteSet(Readers) /\ IsFiniteSet(Keepers)
        BY GenerationsAssumption
    <2>2. /\ Cardinality(Readers) \in Nat /\ Cardinality(Keepers) \in Nat
          /\ Cardinality(Readers \cap Keepers) = 0
        BY <2>1, FS_CardinalityType, FS_EmptySet
    <2>3. /\ IsFiniteSet(Users)
          /\ Cardinality(Users) = Cardinality(Readers) + Cardinality(Keepers)
                                      - Cardinality(Readers \cap Keepers)
        BY <2>1, FS_Union
    <2> HIDE DEF Users
    <2> QED
        BY <2>2, <2>3
<1>2. IsFiniteSet(S) /\ Cardinality(S) <= Cardinality(Users)
    <2>1. f \in Surjection(Users, S)
        BY DEF Surjection
    <2> HIDE DEF f, S, Users
    <2> QED
        BY <1>1, <2>1, FS_Surjection
<1>3. PICK i \in Inodes : i \notin S
    <2>1. SUFFICES ASSUME Inodes \subseteq S PROVE FALSE
        OBVIOUS
    <2> HIDE DEF S, Users
    <2>2. Cardinality(Inodes) <= Cardinality(S)
        BY <1>2, <2>1, FS_Subset
    <2>3. /\ Cardinality(S) \in Nat /\ Cardinality(Users) \in Nat /\ Cardinality(Inodes) \in Nat
          /\ Cardinality(Readers) \in Nat /\ Cardinality(Keepers) \in Nat
        BY <1>1, <1>2, InodeCount, GenerationsAssumption, FS_CardinalityType
    <2> QED
        BY <1>1, <1>2, <2>2, <2>3, InodeCount
<1>4. Handles(l, i) = {}
    BY <1>3 DEF Handles
<1>5. ASSUME NEW k \in Keepers, <<l, i>> \in keeper[k].exc
      PROVE  FALSE
    <2>1. of(k) = <<l, i>>
        BY <1>5 DEF Excludes
    <2>2. k \notin Readers
        BY GenerationsAssumption
    <2> QED
        BY <1>3, <2>1, <2>2
<1> QED
    BY <1>4, <1>5 DEF Exclusive

\* A file that is there is opened; a new one has no other handle.
LEMMA OpenedFile ==
    ASSUME Types, Excludes, NEW l \in Leases
    PROVE  /\ Opened(l) \in Inodes
           /\ file[l] # 0 => Opened(l) = file[l]
           /\ file[l] = 0 => /\ \A r \in Readers : LeaseOf(r) = l => reader[r].ino # Opened(l)
                             /\ \A k \in Keepers : <<l, Opened(l)>> \notin keeper[k].exc
<1>1. CASE file[l] # 0
    BY <1>1 DEF Opened, Types
<1>2. CASE file[l] = 0
    <2> DEFINE Free(i) == Handles(l, i) = {} /\ Exclusive(l, i) = {}
               j == CHOOSE i \in Inodes : Free(i)
    <2>1. j \in Inodes /\ Free(j)
        <3>1. \E i \in Inodes : Free(i)
            BY FreshInode
        <3> HIDE DEF Free
        <3> QED
            BY <3>1
    <2>2. Opened(l) = j
        BY <1>2 DEF Opened
    <2>3. j # 0
        BY <2>1, InodeCount
    <2>4. j \in Inodes /\ Handles(l, j) = {} /\ Exclusive(l, j) = {}
        BY <2>1
    <2> HIDE DEF j
    <2> QED
        BY <1>2, <2>2, <2>3, <2>4 DEF Handles, Exclusive
<1> QED
    BY <1>1, <1>2

(***************************************************************************)
(* Kinds of steps.                                                         *)
(***************************************************************************)
ReaderNext(r) == ReaderStart(r) \/ GovernedStart(r) \/ ReaderStep(r) \/ ReaderCrash(r)
KeeperNext(k) ==
    \/ KeeperStep(k) \/ KeeperCrash(k)
    \/ \E op \in Operations : KeeperStart(k, op)
    \/ \E a \in aside : PurgeStart(k, a)

\* Every step is one of a reader or of a keeper.
LEMMA Steps ==
    ASSUME Next
    PROVE  (\E r \in Readers : ReaderNext(r)) \/ (\E k \in Keepers : KeeperNext(k))
BY DEF Next, ReaderNext, KeeperNext

\* The publication a reader selects.
LEMMA CurrentIsHighest ==
    ASSUME Types, Heads, NEW n \in Namespaces
    PROVE  /\ Current(n) # None =>
                 /\ Current(n) \in root[n].pubs /\ Current(n) \in Publications
                 /\ Current(n).gen \in root[n].gens
                 /\ \A q \in root[n].pubs : q.seq <= Current(n).seq
           /\ Current(n) = None => root[n].pubs = {}
<1>1. CASE root[n].pubs = {}
    BY <1>1 DEF Current
<1>2. CASE root[n].pubs # {}
    <2>1. \E p \in root[n].pubs : \A q \in root[n].pubs : q.seq <= p.seq
        BY <1>2 DEF Heads, Whole
    <2>2. Current(n) = CHOOSE p \in root[n].pubs : \A q \in root[n].pubs : q.seq <= p.seq
        BY <1>2 DEF Current
    <2>3. /\ Current(n) \in root[n].pubs
          /\ \A q \in root[n].pubs : q.seq <= Current(n).seq
        BY <2>1, <2>2
    <2>4. root[n].pubs \subseteq Publications
        BY DEF Types, Roots
    <2>5. Current(n).gen \in root[n].gens
        BY <2>3 DEF Heads, Whole
    <2> QED
        BY <2>3, <2>4, <2>5, PublicationAssumption
<1> QED
    BY <1>1, <1>2

\* What a step of a reader does to it: it goes to a step where it has no
\* publication, selects one, opens its lease, locks it, or enters.
Forgets(r, s) == s.at \notin Aware /\ file' = file
Selects(r, s) ==
    /\ s.at \in Aware \ Held /\ file' = file
    /\ \E n \in Namespaces : Current(n) # None /\ s.pub = Current(n)
Takes(r, s) ==
    /\ reader[r].at \in Aware /\ s.at \in Held \ Leased
    /\ s.ns = reader[r].ns /\ s.pub = reader[r].pub /\ s.ino = Opened(LeaseOf(r))
    /\ file' = [file EXCEPT ![LeaseOf(r)] = Opened(LeaseOf(r))]
Locks(r, s) ==
    /\ reader[r].at \in Held /\ s.at \in Leased \ Open
    /\ s.ns = reader[r].ns /\ s.pub = reader[r].pub /\ s.ino = reader[r].ino
    /\ \A k \in Keepers : <<LeaseOf(r), reader[r].ino>> \notin keeper[k].exc
    /\ file' = file
Enters(r, s) ==
    /\ reader[r].at \in Leased /\ s.at \in Open
    /\ s.ns = reader[r].ns /\ s.pub = reader[r].pub /\ s.ino = reader[r].ino
    /\ reader[r].pub.gen \in root[reader[r].ns].gens
    /\ file' = file

ReaderKind(r, s) ==
    Forgets(r, s) \/ Selects(r, s) \/ Takes(r, s) \/ Locks(r, s) \/ Enters(r, s)

\* The locks of everybody else stay.
LEMMA Releases ==
    ASSUME Types, NEW p, LetGo(p)
    PROVE  /\ rlock' \in [Namespaces -> Readers \cup Keepers \cup {None}]
           /\ \A n \in Namespaces : rlock[n] # p => rlock'[n] = rlock[n]
           /\ authority # p => authority' = authority
BY DEF LetGo, Released, Types

\* A reader changes its own record and the lease files, and gives back its own
\* locks at most.
LEMMA ReaderKinds ==
    ASSUME Types, ReaderShape, Heads, Excludes, NEW r \in Readers, ReaderNext(r)
    PROVE  /\ UNCHANGED <<root, aside, used, keeper>>
           /\ rlock' \in [Namespaces -> Readers \cup Keepers \cup {None}]
           /\ \A n \in Namespaces : rlock[n] # r => rlock'[n] = rlock[n]
           /\ authority # r => authority' = authority
           /\ \E s \in ReaderRecords : reader' = [reader EXCEPT ![r] = s] /\ ReaderKind(r, s)
<1> USE DEF ReaderKind, Forgets, Selects, Takes, Locks, Enters, Held, Aware, Leased, Open,
           ReaderSteps
<1>t. /\ reader[r] \in ReaderRecords
      /\ root \in [Namespaces -> Roots]
      /\ rlock \in [Namespaces -> Readers \cup Keepers \cup {None}]
    BY DEF Types
<1>i. IdleReader \in ReaderRecords
    BY DEF IdleReader, ReaderRecords, Namespaces
<1>r. Resolve # "conflict" => Resolve \in Namespaces
    BY DEF Resolve, Namespaces
<1>l. reader[r].at \in Aware => LeaseOf(r) \in Leases
    BY <1>t DEF ReaderShape, LeaseOf, Leases, Publications, ReaderRecords
<1>1. CASE ReaderStart(r)
    <2> DEFINE s == [reader[r] EXCEPT !.at = "select"]
    <2>1. s \in ReaderRecords /\ s.at = "select"
        BY <1>t DEF ReaderRecords
    <2>2. reader' = [reader EXCEPT ![r] = s]
        BY <1>1 DEF ReaderStart
    <2> QED
        BY <1>1, <1>t, <2>1, <2>2 DEF ReaderStart, disk, locks
<1>2. CASE GovernedStart(r)
    <2> DEFINE s == [IdleReader EXCEPT !.at = "wresolve", !.ns = Resolve]
    <2>1. s \in ReaderRecords /\ s.at = "wresolve"
        BY <1>2, <1>i, <1>r DEF ReaderRecords, GovernedStart
    <2>2. reader' = [reader EXCEPT ![r] = s]
        BY <1>2 DEF GovernedStart, ReaderIs
    <2> QED
        BY <1>2, <1>t, <2>1, <2>2 DEF GovernedStart, disk, locks
<1>3. CASE ReaderSelect(r)
    <2>1. CASE Resolve = "conflict" \/ Current(Resolve) = None
        BY <1>3, <1>t, <1>i, <2>1 DEF ReaderSelect, ReaderIs, disk, locks, IdleReader
    <2>2. CASE ~(Resolve = "conflict" \/ Current(Resolve) = None)
        <3> DEFINE s == [reader[r] EXCEPT !.at = "open", !.ns = Resolve, !.pub = Current(Resolve)]
        <3>1. Current(Resolve) \in Publications /\ Resolve \in Namespaces
            BY <2>2, <1>r, CurrentIsHighest
        <3>2. s \in ReaderRecords /\ s.at = "open" /\ s.pub = Current(Resolve)
            BY <1>t, <3>1 DEF ReaderRecords
        <3>3. reader' = [reader EXCEPT ![r] = s]
            BY <1>3, <2>2 DEF ReaderSelect, ReaderIs
        <3> QED
            BY <1>3, <1>t, <2>2, <3>1, <3>2, <3>3 DEF ReaderSelect, disk, locks
    <2> QED
        BY <2>1, <2>2
<1>4. CASE ReaderOpen(r)
    <2> DEFINE s == [reader[r] EXCEPT !.at = "lock", !.ino = Opened(LeaseOf(r))]
    <2>1. Opened(LeaseOf(r)) \in Inodes
        BY <1>4, <1>l, OpenedFile DEF ReaderOpen
    <2>2. /\ s \in ReaderRecords /\ s.at = "lock" /\ s.ino = Opened(LeaseOf(r))
          /\ s.ns = reader[r].ns /\ s.pub = reader[r].pub
        BY <1>t, <2>1 DEF ReaderRecords
    <2>3. reader' = [reader EXCEPT ![r] = s]
        BY <1>4 DEF ReaderOpen, ReaderIs
    <2> QED
        BY <1>4, <1>t, <2>2, <2>3 DEF ReaderOpen, disk, locks
<1>5. CASE ReaderLock(r)
    <2> DEFINE s == [reader[r] EXCEPT !.at = "confirm"]
    <2>1. /\ s \in ReaderRecords /\ s.at = "confirm" /\ s.ino = reader[r].ino
          /\ s.ns = reader[r].ns /\ s.pub = reader[r].pub
        BY <1>t DEF ReaderRecords
    <2>2. reader' = [reader EXCEPT ![r] = s]
        BY <1>5 DEF ReaderLock
    <2>3. \A k \in Keepers : <<LeaseOf(r), reader[r].ino>> \notin keeper[k].exc
        BY <1>5 DEF ReaderLock, Exclusive
    <2> QED
        BY <1>5, <1>t, <2>1, <2>2, <2>3 DEF ReaderLock, disk, locks
<1>6. CASE ReaderConfirm(r)
    <2>1. CASE Resolve = reader[r].ns /\ Current(Resolve) = reader[r].pub
        <3> DEFINE s == [reader[r] EXCEPT !.at = "reading"]
        <3>1. /\ s \in ReaderRecords /\ s.at = "reading" /\ s.ino = reader[r].ino
              /\ s.ns = reader[r].ns /\ s.pub = reader[r].pub
            BY <1>t DEF ReaderRecords
        <3>2. reader' = [reader EXCEPT ![r] = s]
            BY <1>6, <2>1 DEF ReaderConfirm
        <3>3. reader[r].at = "confirm" /\ reader[r].pub \in Publications
            BY <1>6 DEF ReaderConfirm, ReaderShape
        <3>4. reader[r].pub.gen \in root[reader[r].ns].gens
            BY <1>t, <2>1, <3>3, PublicationAssumption, CurrentIsHighest DEF ReaderRecords
        <3> QED
            BY <1>6, <1>t, <3>1, <3>2, <3>3, <3>4 DEF ReaderConfirm, disk, locks
    <2>2. CASE ~(Resolve = reader[r].ns /\ Current(Resolve) = reader[r].pub)
        <3> DEFINE again == reader[r].tries + 1
                   s == IF Resolve = "conflict" \/ again = Attempts THEN IdleReader
                        ELSE [IdleReader EXCEPT !.at = "select", !.tries = again]
        <3>1. s \in ReaderRecords /\ s.at \in {"idle", "select"}
            <4>1. again \in Nat
                BY <1>t DEF ReaderRecords
            <4>2. /\ [IdleReader EXCEPT !.at = "select", !.tries = again] \in ReaderRecords
                  /\ [IdleReader EXCEPT !.at = "select", !.tries = again].at = "select"
                BY <1>i, <4>1 DEF ReaderRecords
            <4> QED
                BY <1>i, <4>2 DEF IdleReader
        <3>2. reader' = [reader EXCEPT ![r] = s]
            BY <1>6, <2>2 DEF ReaderConfirm, ReaderIs
        <3> QED
            BY <1>6, <1>t, <3>1, <3>2 DEF ReaderConfirm, disk, locks
    <2> QED
        BY <2>1, <2>2
<1>7. CASE GovernedResolve(r)
    <2> DEFINE s == IF Resolve = "conflict" THEN IdleReader
                    ELSE [reader[r] EXCEPT !.at = "wlock", !.lockns = Resolve]
    <2>1. s \in ReaderRecords /\ s.at \in {"idle", "wlock"}
        BY <1>t, <1>i, <1>r DEF ReaderRecords, IdleReader
    <2>2. reader' = [reader EXCEPT ![r] = s]
        BY <1>7 DEF GovernedResolve, ReaderIs
    <2> QED
        BY <1>7, <1>t, <2>1, <2>2 DEF GovernedResolve, disk, locks
<1>8. CASE GovernedLock(r)
    <2> DEFINE s == [reader[r] EXCEPT !.at = "wselect"]
    <2>1. s \in ReaderRecords /\ s.at = "wselect"
        BY <1>t DEF ReaderRecords
    <2>2. reader' = [reader EXCEPT ![r] = s]
        BY <1>8 DEF GovernedLock
    <2> QED
        BY <1>8, <1>t, <2>1, <2>2 DEF GovernedLock, disk
<1>9. CASE GovernedSelect(r)
    <2>n. reader[r].ns \in Namespaces
        BY <1>t DEF ReaderRecords
    <2>1. CASE Current(reader[r].ns) = None
        BY <1>9, <1>i, <2>1, Releases DEF GovernedSelect, ReaderIs, disk, IdleReader
    <2>2. CASE Current(reader[r].ns) # None
        <3> DEFINE s == [reader[r] EXCEPT !.at = "wopen", !.pub = Current(reader[r].ns)]
        <3>1. Current(reader[r].ns) \in Publications
            BY <2>2, <2>n, CurrentIsHighest
        <3>2. s \in ReaderRecords /\ s.at = "wopen" /\ s.pub = Current(reader[r].ns)
            BY <1>t, <3>1 DEF ReaderRecords
        <3>3. reader' = [reader EXCEPT ![r] = s]
            BY <1>9, <2>2 DEF GovernedSelect, ReaderIs
        <3> QED
            BY <1>9, <1>t, <2>n, <2>2, <3>2, <3>3 DEF GovernedSelect, disk, locks
    <2> QED
        BY <2>1, <2>2
<1>10. CASE GovernedOpen(r)
    <2> DEFINE s == [reader[r] EXCEPT !.at = "wlease", !.ino = Opened(LeaseOf(r))]
    <2>1. Opened(LeaseOf(r)) \in Inodes
        BY <1>10, <1>l, OpenedFile DEF GovernedOpen
    <2>2. /\ s \in ReaderRecords /\ s.at = "wlease" /\ s.ino = Opened(LeaseOf(r))
          /\ s.ns = reader[r].ns /\ s.pub = reader[r].pub
        BY <1>t, <2>1 DEF ReaderRecords
    <2>3. reader' = [reader EXCEPT ![r] = s]
        BY <1>10 DEF GovernedOpen, ReaderIs
    <2> QED
        BY <1>10, <1>t, <2>2, <2>3 DEF GovernedOpen, disk, locks
<1>11. CASE GovernedLease(r)
    <2> DEFINE s == [reader[r] EXCEPT !.at = "attach"]
    <2>1. /\ s \in ReaderRecords /\ s.at = "attach" /\ s.ino = reader[r].ino
          /\ s.ns = reader[r].ns /\ s.pub = reader[r].pub
        BY <1>t DEF ReaderRecords
    <2>2. reader' = [reader EXCEPT ![r] = s]
        BY <1>11 DEF GovernedLease
    <2>3. \A k \in Keepers : <<LeaseOf(r), reader[r].ino>> \notin keeper[k].exc
        BY <1>11 DEF GovernedLease, Exclusive
    <2> QED
        BY <1>11, <1>t, <2>1, <2>2, <2>3 DEF GovernedLease, disk, locks
<1>12. CASE GovernedAttach(r)
    <2>1. CASE reader[r].pub.gen \in root[reader[r].ns].gens
        <3> DEFINE s == [reader[r] EXCEPT !.at = "writing"]
        <3>1. /\ s \in ReaderRecords /\ s.at = "writing" /\ s.ino = reader[r].ino
              /\ s.ns = reader[r].ns /\ s.pub = reader[r].pub
            BY <1>t DEF ReaderRecords
        <3>2. reader' = [reader EXCEPT ![r] = s]
            BY <1>12, <2>1 DEF GovernedAttach
        <3> QED
            BY <1>12, <1>t, <2>1, <3>1, <3>2 DEF GovernedAttach, disk, locks
    <2>2. CASE reader[r].pub.gen \notin root[reader[r].ns].gens
        BY <1>12, <1>i, <2>2, Releases DEF GovernedAttach, ReaderIs, disk, IdleReader
    <2> QED
        BY <2>1, <2>2
<1>13. CASE ReaderDone(r)
    BY <1>13, <1>i, Releases DEF ReaderDone, ReaderIs, disk, IdleReader
<1>14. CASE ReaderCrash(r)
    BY <1>14, <1>i, Releases DEF ReaderCrash, ReaderIs, disk, IdleReader
<1> QED
    BY <1>1, <1>2, <1>3, <1>4, <1>5, <1>6, <1>7, <1>8, <1>9, <1>10, <1>11, <1>12, <1>13, <1>14
       DEF ReaderNext, ReaderStep

(***************************************************************************)
(* Steps of a keeper: what they do to the roots and to everybody else.     *)
(***************************************************************************)
Touches(k) ==
    /\ Is(k, "rebuild", Building) /\ aside' = aside
    /\ \E x \in Roots :
          /\ root' = [root EXCEPT ![keeper[k].ns] = x]
          /\ x.gens = root[keeper[k].ns].gens /\ x.pubs = root[keeper[k].ns].pubs
          /\ root[keeper[k].ns].whole => x.whole
          /\ keeper[k].at # "scaffold" => x.whole = root[keeper[k].ns].whole
          /\ root[keeper[k].ns].there \/ x.whole => x.there

RootKind(k) ==
    \/ UNCHANGED <<root, aside>>
    \/ Touches(k)
    \/ RebuildPromote(k) \/ RebuildPublish(k) \/ RebuildRetire(k) \/ ReclaimErase(k)
    \/ AsideRename(k) \/ RemoveRoot(k) \/ TransitionMove(k)

\* Which steps of a keeper change roots and asides.
LEMMA RootKinds ==
    ASSUME Types, Places, NEW k \in Keepers, KeeperShape(k), KeeperNext(k)
    PROVE  RootKind(k)
<1> USE DEF RootKind
<1>t. keeper[k] \in KeeperRecords /\ root \in [Namespaces -> Roots] /\ used \in SUBSET Gens
    BY DEF Types
<1>n. keeper[k].ns \in Namespaces
    BY <1>t DEF KeeperRecords
<1>r. root[keeper[k].ns] \in Roots
    BY <1>t, <1>n
<1>1. CASE RebuildScaffold(k)
    <2> DEFINE n == keeper[k].ns
               x == [root[n] EXCEPT !.there = TRUE, !.whole = TRUE, !.staged = {}]
    <2>1. /\ x \in Roots /\ x.gens = root[n].gens /\ x.pubs = root[n].pubs
          /\ x.there /\ x.whole
        BY <1>r DEF Roots
    <2>2. root' = [root EXCEPT ![n] = x] /\ aside' = aside
        BY <1>1 DEF RebuildScaffold
    <2>3. Is(k, "rebuild", Building) /\ keeper[k].at = "scaffold"
        BY <1>1 DEF RebuildScaffold, KeeperShape, Is, Building
    <2> QED
        BY <2>1, <2>2, <2>3 DEF Touches
<1>2. CASE RebuildPopulate(k)
    <2> DEFINE n == keeper[k].ns
               x == [root[n] EXCEPT !.there = TRUE, !.staged = {keeper[k].gen}]
    <2>1. CASE keeper[k].gen \in Gens
        <3>1. /\ x \in Roots /\ x.gens = root[n].gens /\ x.pubs = root[n].pubs
              /\ x.there /\ x.whole = root[n].whole
            BY <1>r, <2>1 DEF Roots
        <3>2. root' = [root EXCEPT ![n] = x] /\ aside' = aside
            BY <1>2 DEF RebuildPopulate
        <3>3. Is(k, "rebuild", Building) /\ keeper[k].at = "populate"
            BY <1>2 DEF RebuildPopulate, KeeperShape, Is, Building
        <3> QED
            BY <3>1, <3>2, <3>3 DEF Touches
    <2>2. keeper[k].gen \in Gens
        BY <1>2 DEF RebuildPopulate, KeeperShape, Is, Building, Final, Sweeping
    <2> QED
        BY <2>1, <2>2
<1>3. CASE RebuildAbandon(k)
    <2> DEFINE n == keeper[k].ns
               x == [root[n] EXCEPT !.staged = {}]
    <2>1. /\ x \in Roots /\ x.gens = root[n].gens /\ x.pubs = root[n].pubs
          /\ x.there = root[n].there /\ x.whole = root[n].whole
        BY <1>r DEF Roots
    <2>2. root' = [root EXCEPT ![n] = x] /\ aside' = aside
        BY <1>3 DEF RebuildAbandon
    <2>3. Is(k, "rebuild", Building) /\ keeper[k].at # "scaffold"
        BY <1>3 DEF RebuildAbandon, KeeperShape, Is, Building, Final, Sweeping
    <2>4. root[n].whole => root[n].there
        BY <1>n DEF Places
    <2> QED
        BY <2>1, <2>2, <2>3, <2>4 DEF Touches
<1>4. CASE RebuildLease(k)
    BY <1>4 DEF RebuildLease, disk
<1>5. CASE RebuildFinalize(k)
    BY <1>5 DEF RebuildFinalize, disk
<1>6. CASE \E l \in Leases : SweepProbe(k, l)
    BY <1>6 DEF SweepProbe, disk
<1>7. CASE Unlink(k)
    BY <1>7 DEF Unlink, disk
<1>8. CASE SweepDone(k)
    BY <1>8 DEF SweepDone, disk
<1>9. CASE \E l \in Leases : ReclaimProbe(k, l)
    BY <1>9 DEF ReclaimProbe, disk
<1>10. CASE ReclaimDone(k)
    BY <1>10 DEF ReclaimDone, disk
<1>11. CASE DeleteLease(k)
    BY <1>11 DEF DeleteLease, disk
<1>12. CASE KeeperResolve(k)
    BY <1>12 DEF KeeperResolve, disk
<1>13. CASE KeeperLock(k)
    BY <1>13 DEF KeeperLock, disk
<1>14. CASE RemoveLeases(k)
    BY <1>14 DEF RemoveLeases, disk
<1>15. CASE RemoveDrop(k)
    BY <1>15 DEF RemoveDrop, disk
<1>16. CASE TransitionLocks(k)
    BY <1>16 DEF TransitionLocks, disk
<1>17. CASE TransitionLeases(k)
    BY <1>17 DEF TransitionLeases, disk
<1>18. CASE KeeperCrash(k)
    BY <1>18 DEF KeeperCrash, disk
<1>19. CASE \E op \in Operations : KeeperStart(k, op)
    BY <1>19 DEF KeeperStart, disk
<1>20. CASE \E a \in aside : PurgeStart(k, a)
    BY <1>20 DEF PurgeStart, disk
<1> QED
    BY <1>1, <1>2, <1>3, <1>4, <1>5, <1>6, <1>7, <1>8, <1>9, <1>10, <1>11, <1>12, <1>13, <1>14,
       <1>15, <1>16, <1>17, <1>18, <1>19, <1>20
       DEF KeeperNext, KeeperStep, RebuildStep, RemoveStep, TransitionStep

\* What a step of k leaves to the others: their records, and their locks.
Leaves(k) ==
    /\ reader' = reader
    /\ keeper' \in [Keepers -> KeeperRecords]
    /\ \A j \in Keepers : j # k => keeper'[j] = keeper[j]
    /\ rlock' \in [Namespaces -> Readers \cup Keepers \cup {None}]
    /\ \A j \in Keepers, n \in Namespaces : j # k /\ rlock[n] = j => rlock'[n] = j
    /\ \A j \in Keepers : j # k /\ authority = j => authority' = j

LEMMA IdleKeeperType ==
    IdleKeeper \in KeeperRecords
BY DEF IdleKeeper, KeeperRecords, KeeperSteps, Operations, Namespaces

\* An operation that ends holds no lock and has no lock of others released.
LEMMA Ends ==
    ASSUME Types, NEW k \in Keepers, End(k), reader' = reader
    PROVE  Leaves(k) /\ keeper' = [keeper EXCEPT ![k] = IdleKeeper]
BY Releases, IdleKeeperType DEF End, KeeperIs, Leaves, Types

\* An operation that goes on takes only locks that were free.
LEMMA Proceeds ==
    ASSUME Types, NEW k \in Keepers, NEW s \in KeeperRecords,
           keeper' = [keeper EXCEPT ![k] = s], reader' = reader,
           rlock' \in [Namespaces -> Readers \cup Keepers \cup {None}],
           \A n \in Namespaces : rlock[n] \in {k, None} \/ rlock'[n] = rlock[n],
           authority \in {k, None} \/ authority' = authority
    PROVE  Leaves(k)
BY GenerationsAssumption DEF Leaves, Types

\* Updates of a keeper's record that keep its type.
LEMMA Updates ==
    ASSUME NEW s \in KeeperRecords, NEW x \in KeeperSteps, NEW t \in SUBSET Leases,
           NEW c \in Leases \cup {None}, NEW e \in SUBSET (Leases \X Inodes)
    PROVE  /\ [s EXCEPT !.at = x] \in KeeperRecords
           /\ [s EXCEPT !.todo = t] \in KeeperRecords
           /\ [s EXCEPT !.at = x, !.cur = c] \in KeeperRecords
           /\ [s EXCEPT !.at = x, !.todo = t] \in KeeperRecords
           /\ [s EXCEPT !.at = x, !.exc = e] \in KeeperRecords
           /\ [s EXCEPT !.at = x, !.todo = t, !.cur = c] \in KeeperRecords
           /\ [s EXCEPT !.at = x, !.todo = t, !.exc = e] \in KeeperRecords
           /\ [s EXCEPT !.at = x, !.cur = c, !.exc = e] \in KeeperRecords
           /\ [s EXCEPT !.at = x, !.todo = t, !.cur = c, !.exc = e] \in KeeperRecords
BY DEF KeeperRecords

\* A keeper leaves the records and the locks of all others alone.
LEMMA KeeperLeaves ==
    ASSUME Types, Heads, Excludes, NEW k \in Keepers, KeeperShape(k), Guarded(k), KeeperNext(k)
    PROVE  Leaves(k)
<1>t. /\ keeper \in [Keepers -> KeeperRecords] /\ keeper[k] \in KeeperRecords
      /\ rlock \in [Namespaces -> Readers \cup Keepers \cup {None}]
      /\ root \in [Namespaces -> Roots]
      /\ used \in SUBSET Gens /\ aside \in SUBSET Asides
      /\ file \in [Leases -> Inodes \cup {0}]
    BY DEF Types
<1>n. /\ keeper[k].ns \in Namespaces /\ keeper[k].seq \in Nat /\ keeper[k].todo \in SUBSET Leases
      /\ keeper[k].exc \in SUBSET (Leases \X Inodes)
    BY <1>t DEF KeeperRecords
<1>r. Resolve # "conflict" => Resolve \in Namespaces
    BY DEF Resolve, Namespaces
<1>s. \A x \in KeeperSteps : [keeper[k] EXCEPT !.at = x] \in KeeperRecords
    BY <1>t DEF KeeperRecords
<1>o. \A l \in Leases : Opened(l) \in Inodes
    BY OpenedFile
<1>g. \A n \in Namespaces : root[n].gens \in SUBSET Gens /\ root[n].pubs \in SUBSET Publications
    BY <1>t DEF Roots
<1> USE DEF KeeperIs, KeeperAt, KeeperSteps, Building, Removing, Final, Sweeping
<1>1. CASE RebuildScaffold(k)
    <2> DEFINE n == keeper[k].ns
               q == IF Current(n) = None THEN 1 ELSE Current(n).seq + 1
    <2>1. PICK g \in Gens \ used :
             keeper' = [keeper EXCEPT ![k] =
                            [keeper[k] EXCEPT !.at = "populate", !.gen = g, !.seq = q]]
        BY <1>1 DEF RebuildScaffold
    <2>2. q \in Nat
        BY <1>n, CurrentIsHighest DEF Publications
    <2> HIDE DEF q
    <2>3. [keeper[k] EXCEPT !.at = "populate", !.gen = g, !.seq = q] \in KeeperRecords
        BY <1>t, <2>2 DEF KeeperRecords
    <2> QED
        BY <1>1, <1>t, <2>1, <2>3, Proceeds DEF RebuildScaffold, locks
<1>2. CASE RebuildPopulate(k)
    <2>1. authority = k
        BY <1>2 DEF RebuildPopulate, Guarded, KeeperShape, Is
    <2> QED
        BY <1>2, <1>t, <1>s, <2>1, Proceeds DEF RebuildPopulate
<1>3. CASE RebuildAbandon(k)
    BY <1>3, Ends DEF RebuildAbandon
<1>4. CASE RebuildLease(k)
    <2>1. CASE authority = None /\ rlock[keeper[k].ns] = None
        <3>1. keeper' = [keeper EXCEPT ![k] = [keeper[k] EXCEPT !.at = "scaffold"]]
            BY <1>4, <2>1 DEF RebuildLease
        <3>2. [keeper[k] EXCEPT !.at = "scaffold"] \in KeeperRecords
            BY <1>s
        <3> QED
            <4>1. /\ rlock' \in [Namespaces -> Readers \cup Keepers \cup {None}]
                  /\ \A n \in Namespaces : rlock[n] \in {k, None} \/ rlock'[n] = rlock[n]
                BY <1>4, <1>t, <1>n, <2>1 DEF RebuildLease
            <4> QED
                BY <1>4, <2>1, <3>1, <3>2, <4>1, Proceeds DEF RebuildLease
    <2>2. CASE ~(authority = None /\ rlock[keeper[k].ns] = None)
        BY <1>4, <1>t, <2>2, IdleKeeperType, Proceeds DEF RebuildLease
    <2> QED
        BY <2>1, <2>2
<1>5. CASE RebuildFinalize(k)
    <2>1. [keeper[k] EXCEPT !.at = "await", !.lockns = Resolve] \in KeeperRecords
        BY <1>5, <1>t, <1>r DEF KeeperRecords, RebuildFinalize
    <2> QED
        BY <1>5, <1>t, <2>1, Proceeds DEF RebuildFinalize
<1>6. ASSUME NEW l \in Leases, SweepProbe(k, l)
      PROVE  Leaves(k)
    <2>1. /\ [keeper[k] EXCEPT !.todo = @ \ {l}] \in KeeperRecords
          /\ [keeper[k] EXCEPT !.at = "unlink", !.cur = l] \in KeeperRecords
        BY <1>t DEF KeeperRecords
    <2> QED
        BY <1>6, <1>t, <2>1, Proceeds, Ends DEF SweepProbe, locks
<1>7. CASE Unlink(k)
    <2> DEFINE x == IF keeper[k].op = "rebuild" THEN "sweep" ELSE "drop"
    <2>1. x \in KeeperSteps /\ keeper[k].todo \ {keeper[k].cur} \in SUBSET Leases
        BY <1>n
    <2>2. keeper' = [keeper EXCEPT ![k] = [keeper[k] EXCEPT !.at = x,
                         !.todo = keeper[k].todo \ {keeper[k].cur}, !.cur = None]]
        BY <1>7 DEF Unlink
    <2> HIDE DEF x
    <2>3. [keeper[k] EXCEPT !.at = x, !.todo = keeper[k].todo \ {keeper[k].cur}, !.cur = None]
             \in KeeperRecords
        BY <1>t, <2>1, Updates
    <2> QED
        BY <1>7, <1>t, <2>2, <2>3, Proceeds DEF Unlink, locks
<1>8. CASE SweepDone(k)
    <2> DEFINE x == {<<keeper[k].ns, g>> : g \in root[keeper[k].ns].gens \ {keeper[k].gen}}
    <2>1. x \in SUBSET Leases
        BY <1>n, <1>g DEF Leases
    <2>2. [keeper[k] EXCEPT !.at = "reclaim", !.todo = x] \in KeeperRecords
        BY <1>t, <2>1 DEF KeeperRecords
    <2> QED
        BY <1>8, <1>t, <2>2, Proceeds, Ends DEF SweepDone, locks
<1>9. ASSUME NEW l \in Leases, ReclaimProbe(k, l)
      PROVE  Leaves(k)
    <2> DEFINE i == Opened(l)
    <2>1. {<<l, i>>} \in SUBSET (Leases \X Inodes)
        BY <1>o
    <2>2. /\ [keeper[k] EXCEPT !.at = "erase", !.cur = l, !.exc = {<<l, i>>}] \in KeeperRecords
          /\ [keeper[k] EXCEPT !.todo = @ \ {l}] \in KeeperRecords
        <3>1. "erase" \in KeeperSteps /\ keeper[k].todo \ {l} \in SUBSET Leases
            BY <1>n
        <3> HIDE DEF KeeperSteps
        <3> QED
            BY <1>t, <2>1, <3>1, Updates
    <2> QED
        BY <1>9, <1>t, <2>2, Proceeds DEF ReclaimProbe, locks
<1>10. CASE ReclaimDone(k)
    <2>1. [keeper[k] EXCEPT !.at = "sweep", !.round = 2, !.todo = Listed] \in KeeperRecords
        BY <1>t DEF KeeperRecords, Listed
    <2> QED
        BY <1>10, <1>t, <2>1, Proceeds DEF ReclaimDone, locks
<1>11. CASE DeleteLease(k)
    BY <1>11, <1>t, <1>s, IdleKeeperType, Proceeds DEF DeleteLease
<1>12. CASE KeeperResolve(k)
    <2>1. CASE Resolve = "conflict"
        BY <1>12, <2>1, Ends DEF KeeperResolve
    <2>2. CASE Resolve # "conflict"
        <3>1. [keeper[k] EXCEPT !.at = "await", !.lockns = Resolve] \in KeeperRecords
            BY <1>t, <1>r, <2>2 DEF KeeperRecords
        <3> QED
            BY <1>12, <1>t, <2>2, <3>1, Proceeds DEF KeeperResolve, locks
    <2> QED
        BY <2>1, <2>2
<1>13. CASE KeeperLock(k)
    <2> DEFINE x == CASE keeper[k].op = "aside" -> "rename"
                      [] keeper[k].op = "delete" -> "leases"
                      [] OTHER -> "promote"
    <2>1. x \in KeeperSteps
        OBVIOUS
    <2>2. keeper' = [keeper EXCEPT ![k] = [keeper[k] EXCEPT !.at = x]]
        BY <1>13 DEF KeeperLock
    <2> HIDE DEF x
    <2> QED
        BY <1>13, <1>t, <1>s, <2>1, <2>2, Proceeds DEF KeeperLock
<1>14. CASE RemoveLeases(k)
    <2> DEFINE f == OpenedAll(Doomed(k))
    <2>1. CASE \A l \in Doomed(k) : Idle(l, file[l])
        <3>1. Doomed(k) \in SUBSET Leases
            BY <1>n, <1>g, <1>t, <1>14 DEF Doomed, Leases, Asides, RemoveLeases, KeeperShape, Is
        <3>2. \A l \in Doomed(k) : f[l] \in Inodes
            BY <3>1, <1>o DEF OpenedAll
        <3>3. {<<l, f[l]>> : l \in Doomed(k)} \in SUBSET (Leases \X Inodes)
            BY <3>1, <3>2
        <3>4. [keeper[k] EXCEPT !.at = "remove", !.todo = Doomed(k),
                                !.exc = {<<l, f[l]>> : l \in Doomed(k)}] \in KeeperRecords
            BY <1>t, <3>1, <3>3 DEF KeeperRecords
        <3> QED
            BY <1>14, <1>t, <2>1, <3>4, Proceeds DEF RemoveLeases, locks
    <2>2. CASE ~\A l \in Doomed(k) : Idle(l, file[l])
        BY <1>14, <2>2, Ends DEF RemoveLeases
    <2> QED
        BY <2>1, <2>2
<1>15. CASE RemoveDrop(k)
    <2>1. CASE keeper[k].todo = {} /\ End(k)
        BY <1>15, <2>1, Ends DEF RemoveDrop
    <2>2. ASSUME NEW l \in keeper[k].todo,
                 KeeperIs(k, [keeper[k] EXCEPT !.at = "unlink", !.cur = l,
                                               !.exc = {e \in @ : e[1] # l}]),
                 UNCHANGED locks
          PROVE  Leaves(k)
        <3>1. l \in Leases /\ {e \in keeper[k].exc : e[1] # l} \in SUBSET (Leases \X Inodes)
            BY <1>n
        <3>2. [keeper[k] EXCEPT !.at = "unlink", !.cur = l, !.exc = {e \in @ : e[1] # l}]
                 \in KeeperRecords
            BY <1>t, <3>1 DEF KeeperRecords
        <3> QED
            BY <1>15, <1>t, <2>2, <3>2, Proceeds DEF RemoveDrop, locks
    <2> QED
        BY <1>15, <2>1, <2>2 DEF RemoveDrop
<1>16. CASE TransitionLocks(k)
    <2>1. CASE UNCHANGED <<wlock, rlock>> /\ KeeperIs(k, IdleKeeper)
        BY <1>16, <1>t, <2>1, IdleKeeperType, Proceeds DEF TransitionLocks
    <2>2. CASE /\ \A n \in Namespaces : rlock[n] = None
               /\ rlock' = [n \in Namespaces |-> k]
               /\ KeeperAt(k, "tleases")
        BY <1>16, <1>t, <1>s, <2>2, Proceeds DEF TransitionLocks
    <2> QED
        BY <1>16, <2>1, <2>2 DEF TransitionLocks
<1>17. CASE TransitionLeases(k)
    <2> DEFINE ls == Namespaces \X Known
               f == OpenedAll(ls)
    <2>1. CASE \A l \in ls : Idle(l, file[l])
        <3>1. ls \in SUBSET Leases
            <4>1. {l[2] : l \in Listed} \subseteq Gens
                BY DEF Listed, Leases
            <4>2. UNION {a.gens : a \in aside} \subseteq Gens
                BY <1>t DEF Asides
            <4>3. root["legacy"].gens \subseteq Gens /\ root["stable"].gens \subseteq Gens
                BY <1>g DEF Namespaces
            <4> QED
                <5>1. Known \subseteq Gens
                    <6> DEFINE A == {l[2] : l \in Listed}
                               B == UNION {a.gens : a \in aside}
                    <6>1. Known = A \cup B \cup root["legacy"].gens \cup root["stable"].gens
                        BY DEF Known
                    <6>2. A \subseteq Gens /\ B \subseteq Gens
                        BY <4>1, <4>2
                    <6> HIDE DEF A, B
                    <6> QED
                        BY <4>3, <6>1, <6>2
                <5> QED
                    BY <5>1 DEF Leases
        <3>2. \A l \in ls : f[l] \in Inodes
            BY <3>1, <1>o DEF OpenedAll
        <3>3. {<<l, f[l]>> : l \in ls} \in SUBSET (Leases \X Inodes)
            BY <3>1, <3>2
        <3>4. [keeper[k] EXCEPT !.at = "move", !.exc = {<<l, f[l]>> : l \in ls}] \in KeeperRecords
            <4> DEFINE x == {<<l, f[l]>> : l \in ls}
            <4>1. x \in SUBSET (Leases \X Inodes)
                BY <3>3
            <4> HIDE DEF x
            <4>2. [keeper[k] EXCEPT !.at = "move", !.exc = x] \in KeeperRecords
                <5>1. "move" \in KeeperSteps
                    OBVIOUS
                <5> HIDE DEF KeeperSteps
                <5> QED
                    BY <1>t, <4>1, <5>1, Updates
            <4> QED
                BY <4>2 DEF x
        <3> QED
            BY <1>17, <1>t, <2>1, <3>4, Proceeds DEF TransitionLeases, locks
    <2>2. CASE ~\A l \in ls : Idle(l, file[l])
        BY <1>17, <2>2, Ends DEF TransitionLeases
    <2> QED
        BY <2>1, <2>2
<1>18. CASE KeeperCrash(k)
    BY <1>18, Ends DEF KeeperCrash
<1>19. ASSUME NEW op \in Operations, KeeperStart(k, op)
      PROVE  Leaves(k)
    <2>1. [IdleKeeper EXCEPT !.at = "begin", !.op = op, !.ns = Resolve] \in KeeperRecords
        BY <1>19, <1>r, IdleKeeperType DEF KeeperRecords, KeeperStart
    <2> QED
        BY <1>19, <1>t, <2>1, Proceeds DEF KeeperStart, locks
<1>20. ASSUME NEW a \in aside, PurgeStart(k, a)
      PROVE  Leaves(k)
    <2>1. [IdleKeeper EXCEPT !.at = "leases", !.op = "purge", !.dir = a] \in KeeperRecords
        BY <1>t, IdleKeeperType DEF KeeperRecords
    <2> QED
        BY <1>20, <1>t, <2>1, Proceeds DEF PurgeStart, locks
<1>21. CASE RebuildPromote(k)
    BY <1>21, <1>t, <1>s, Proceeds DEF RebuildPromote, locks
<1>22. CASE RebuildPublish(k)
    BY <1>22, <1>t, <1>s, Proceeds DEF RebuildPublish, locks
<1>23. CASE RebuildRetire(k)
    <2>1. [keeper[k] EXCEPT !.at = "sweep", !.todo = Listed] \in KeeperRecords
        BY <1>t DEF KeeperRecords, Listed
    <2>2. \/ keeper' = keeper
          \/ keeper' = [keeper EXCEPT ![k] = [keeper[k] EXCEPT !.at = "sweep", !.todo = Listed]]
        BY <1>23 DEF RebuildRetire
    <2>3. keeper = [keeper EXCEPT ![k] = keeper[k]]
        BY <1>t
    <2> QED
        BY <1>23, <1>t, <2>1, <2>2, <2>3, Proceeds DEF RebuildRetire, locks
<1>24. CASE ReclaimErase(k)
    <2> DEFINE x == keeper[k].todo \ {keeper[k].cur}
    <2>1. x \in SUBSET Leases
        BY <1>n
    <2>2. [keeper[k] EXCEPT !.at = "reclaim", !.todo = x, !.cur = None, !.exc = {}]
             \in KeeperRecords
        <3>1. "reclaim" \in KeeperSteps
            OBVIOUS
        <3> HIDE DEF KeeperSteps, x
        <3> QED
            BY <1>t, <2>1, <3>1, Updates
    <2> QED
        BY <1>24, <1>t, <2>2, Proceeds, Ends DEF ReclaimErase, locks
<1>25. CASE AsideRename(k)
    BY <1>25, Ends DEF AsideRename
<1>26. CASE RemoveRoot(k)
    <2>1. [keeper[k] EXCEPT !.at = "drop", !.dir = None] \in KeeperRecords
        BY <1>t DEF KeeperRecords
    <2> QED
        BY <1>26, <1>t, <2>1, Proceeds DEF RemoveRoot, locks
<1>27. CASE TransitionMove(k)
    <2>1. reader' = reader
        BY <1>27 DEF TransitionMove
    <2>2. CASE End(k)
        BY <2>1, <2>2, Ends
    <2>3. CASE UNCHANGED <<keeper, locks>>
        BY <2>1, <2>3, <1>t DEF Leaves, locks
    <2> QED
        BY <1>27, <2>2, <2>3 DEF TransitionMove
<1> QED
    BY <1>1, <1>2, <1>3, <1>4, <1>5, <1>6, <1>7, <1>8, <1>9, <1>10, <1>11, <1>12, <1>13, <1>14,
       <1>15, <1>16, <1>17, <1>18, <1>19, <1>20, <1>21, <1>22, <1>23, <1>24, <1>25, <1>26, <1>27
       DEF KeeperNext, KeeperStep, RebuildStep, RemoveStep, TransitionStep

\* What a step of k makes of its own operation, its locks and its candidate.
Cands(k) ==
    \/ /\ used' = used
       /\ Is(k, "rebuild", Candidate)' =>
             Is(k, "rebuild", Candidate) /\ keeper'[k].gen = keeper[k].gen
    \/ \E g \in Gens \ used :
          used' = used \cup {g} /\ keeper'[k].gen = g /\ Is(k, "rebuild", Candidate)'

LEMMA IdleOwn ==
    ASSUME NEW k \in Keepers, keeper'[k] = IdleKeeper, used' = used
    PROVE  KeeperShape(k)' /\ Guarded(k)' /\ Cands(k)
BY DEF KeeperShape, Guarded, Cands, Is, IdleKeeper, Building, Removing, Final, Sweeping, Candidate

\* A keeper holds the locks of the step it goes to.
LEMMA OwnStep ==
    ASSUME Types, NEW k \in Keepers, KeeperShape(k), Guarded(k), KeeperNext(k)
    PROVE  KeeperShape(k)' /\ Guarded(k)' /\ Cands(k)
<1>t. /\ keeper \in [Keepers -> KeeperRecords] /\ keeper[k] \in KeeperRecords
      /\ rlock \in [Namespaces -> Readers \cup Keepers \cup {None}]
      /\ aside \in SUBSET Asides
    BY DEF Types
<1>n. keeper[k].ns \in Namespaces /\ keeper[k].op \in Operations \cup {"purge"}
    BY <1>t DEF KeeperRecords
<1> USE DEF KeeperShape, Guarded, Cands, Is, Building, Removing, Final, Sweeping, Candidate,
            KeeperIs, KeeperAt, Operations
<1>e. ASSUME End(k), used' = used PROVE KeeperShape(k)' /\ Guarded(k)' /\ Cands(k)
    <2>1. keeper'[k] = IdleKeeper
        BY <1>t, <1>e DEF End
    <2> HIDE DEF KeeperShape, Guarded, Cands
    <2> QED
        BY <1>e, <2>1, IdleOwn
<1>d. ASSUME keeper' = [keeper EXCEPT ![k] = IdleKeeper], used' = used
      PROVE  KeeperShape(k)' /\ Guarded(k)' /\ Cands(k)
    <2>1. keeper'[k] = IdleKeeper
        BY <1>t, <1>d
    <2> HIDE DEF KeeperShape, Guarded, Cands
    <2> QED
        BY <1>d, <2>1, IdleOwn
<1>1. CASE RebuildScaffold(k)
    <2> DEFINE q == IF Current(keeper[k].ns) = None THEN 1 ELSE Current(keeper[k].ns).seq + 1
    <2>1. PICK g \in Gens \ used :
             /\ used' = used \cup {g}
             /\ keeper' = [keeper EXCEPT ![k] =
                               [keeper[k] EXCEPT !.at = "populate", !.gen = g, !.seq = q]]
        BY <1>1 DEF RebuildScaffold
    <2>2. /\ keeper'[k].at = "populate" /\ keeper'[k].gen = g
          /\ keeper'[k].ns = keeper[k].ns /\ keeper'[k].op = keeper[k].op
        BY <1>t, <2>1 DEF KeeperRecords
    <2> QED
        BY <1>1, <2>1, <2>2 DEF RebuildScaffold, locks
<1>2. CASE RebuildPopulate(k)
    <2>1. /\ keeper'[k].at = "finalize" /\ keeper'[k].gen = keeper[k].gen
          /\ keeper'[k].ns = keeper[k].ns /\ keeper'[k].op = keeper[k].op
        BY <1>2, <1>t DEF RebuildPopulate, KeeperRecords
    <2> QED
        BY <1>2, <2>1 DEF RebuildPopulate
<1>3. CASE RebuildAbandon(k)
    BY <1>3, <1>e DEF RebuildAbandon
<1>4. CASE RebuildLease(k)
    <2>1. CASE authority = None /\ rlock[keeper[k].ns] = None
        <3>1. /\ keeper'[k].at = "scaffold" /\ keeper'[k].gen = keeper[k].gen
              /\ keeper'[k].ns = keeper[k].ns /\ keeper'[k].op = keeper[k].op
            BY <1>4, <1>t, <2>1 DEF RebuildLease, KeeperRecords
        <3>2. rlock'[keeper[k].ns] = k /\ authority' = k /\ used' = used
            BY <1>4, <1>t, <1>n, <2>1 DEF RebuildLease, disk
        <3> QED
            BY <1>4, <3>1, <3>2 DEF RebuildLease
    <2>2. CASE ~(authority = None /\ rlock[keeper[k].ns] = None)
        BY <1>4, <1>d, <2>2 DEF RebuildLease, disk
    <2> QED
        BY <2>1, <2>2
<1>5. CASE RebuildFinalize(k)
    <2>1. /\ keeper'[k].at = "await" /\ keeper'[k].gen = keeper[k].gen
          /\ keeper'[k].ns = keeper[k].ns /\ keeper'[k].op = keeper[k].op
        BY <1>5, <1>t DEF RebuildFinalize, KeeperRecords
    <2> QED
        BY <1>5, <2>1 DEF RebuildFinalize, disk
<1>6. ASSUME NEW l \in Leases, SweepProbe(k, l)
      PROVE  KeeperShape(k)' /\ Guarded(k)' /\ Cands(k)
    <2>1. CASE End(k)
        BY <1>6, <1>e, <2>1 DEF SweepProbe, disk
    <2>2. CASE /\ UNCHANGED locks
               /\ keeper' = [keeper EXCEPT ![k] = [keeper[k] EXCEPT !.todo = @ \ {l}]]
        <3>1. /\ keeper'[k].at = keeper[k].at /\ keeper'[k].gen = keeper[k].gen
              /\ keeper'[k].ns = keeper[k].ns /\ keeper'[k].op = keeper[k].op
            BY <1>t, <2>2 DEF KeeperRecords
        <3> QED
            BY <1>6, <2>2, <3>1 DEF SweepProbe, disk, locks
    <2>3. CASE /\ UNCHANGED locks
               /\ keeper' = [keeper EXCEPT ![k] = [keeper[k] EXCEPT !.at = "unlink", !.cur = l]]
        <3>1. /\ keeper'[k].at = "unlink" /\ keeper'[k].gen = keeper[k].gen /\ keeper'[k].cur = l
              /\ keeper'[k].ns = keeper[k].ns /\ keeper'[k].op = keeper[k].op
            BY <1>t, <2>3 DEF KeeperRecords
        <3> QED
            BY <1>6, <2>3, <3>1 DEF SweepProbe, disk, locks
    <2> QED
        BY <1>6, <2>1, <2>2, <2>3 DEF SweepProbe
<1>7. CASE Unlink(k)
    <2>1. /\ keeper'[k].at = IF keeper[k].op = "rebuild" THEN "sweep" ELSE "drop"
          /\ keeper'[k].gen = keeper[k].gen
          /\ keeper'[k].ns = keeper[k].ns /\ keeper'[k].op = keeper[k].op
        BY <1>7, <1>t DEF Unlink, KeeperRecords
    <2> QED
        BY <1>7, <2>1 DEF Unlink, disk, locks
<1>8. CASE SweepDone(k)
    <2>1. CASE End(k)
        BY <1>8, <1>e, <2>1 DEF SweepDone, disk
    <2>2. CASE ~End(k)
        <3>0. \E x : keeper' = [keeper EXCEPT ![k] =
                                   [keeper[k] EXCEPT !.at = "reclaim", !.todo = x]]
            BY <1>8, <2>2 DEF SweepDone
        <3>1. /\ keeper'[k].at = "reclaim" /\ keeper'[k].gen = keeper[k].gen
              /\ keeper'[k].ns = keeper[k].ns /\ keeper'[k].op = keeper[k].op
            BY <1>t, <3>0 DEF KeeperRecords
        <3> QED
            BY <1>8, <2>2, <3>1 DEF SweepDone, disk, locks
    <2> QED
        BY <2>1, <2>2
<1>9. ASSUME NEW l \in Leases, ReclaimProbe(k, l)
      PROVE  KeeperShape(k)' /\ Guarded(k)' /\ Cands(k)
    <2>1. /\ keeper'[k].at \in {"reclaim", "erase"} /\ keeper'[k].gen = keeper[k].gen
          /\ keeper'[k].at = "erase" => keeper'[k].cur = l
          /\ keeper'[k].ns = keeper[k].ns /\ keeper'[k].op = keeper[k].op
        BY <1>9, <1>t DEF ReclaimProbe, KeeperRecords
    <2> QED
        BY <1>9, <2>1 DEF ReclaimProbe, disk, locks
<1>10. CASE ReclaimDone(k)
    <2>1. /\ keeper'[k].at = "sweep" /\ keeper'[k].gen = keeper[k].gen
          /\ keeper'[k].ns = keeper[k].ns /\ keeper'[k].op = keeper[k].op
        BY <1>10, <1>t DEF ReclaimDone, KeeperRecords
    <2> QED
        BY <1>10, <2>1 DEF ReclaimDone, disk, locks
<1>11. CASE DeleteLease(k)
    <2>1. CASE rlock[keeper[k].ns] = None
        <3>1. /\ keeper'[k].at = "resolve" /\ keeper'[k].gen = keeper[k].gen
              /\ keeper'[k].ns = keeper[k].ns /\ keeper'[k].op = keeper[k].op
            BY <1>11, <1>t, <2>1 DEF DeleteLease, KeeperRecords
        <3>2. rlock'[keeper[k].ns] = k /\ used' = used
            BY <1>11, <1>t, <1>n, <2>1 DEF DeleteLease, disk
        <3> QED
            BY <1>11, <3>1, <3>2 DEF DeleteLease
    <2>2. CASE rlock[keeper[k].ns] # None
        BY <1>11, <1>d, <2>2 DEF DeleteLease, disk
    <2> QED
        BY <2>1, <2>2
<1>12. CASE KeeperResolve(k)
    <2>1. CASE End(k)
        BY <1>12, <1>e, <2>1 DEF KeeperResolve, disk
    <2>2. CASE ~End(k)
        <3>0. keeper' = [keeper EXCEPT ![k] = [keeper[k] EXCEPT !.at = "await", !.lockns = Resolve]]
            BY <1>12, <2>2 DEF KeeperResolve
        <3>1. /\ keeper'[k].at = "await" /\ keeper'[k].gen = keeper[k].gen
              /\ keeper'[k].ns = keeper[k].ns /\ keeper'[k].op = keeper[k].op
            BY <1>t, <3>0 DEF KeeperRecords
        <3>2. keeper[k].op \in {"aside", "delete"}
            BY <1>12 DEF KeeperResolve
        <3> QED
            BY <1>12, <2>2, <3>1, <3>2 DEF KeeperResolve, disk, locks
    <2> QED
        BY <2>1, <2>2
<1>13. CASE KeeperLock(k)
    <2>1. /\ keeper'[k].at = CASE keeper[k].op = "aside" -> "rename"
                               [] keeper[k].op = "delete" -> "leases"
                               [] OTHER -> "promote"
          /\ keeper'[k].gen = keeper[k].gen
          /\ keeper'[k].ns = keeper[k].ns /\ keeper'[k].op = keeper[k].op
        BY <1>13, <1>t DEF KeeperLock, KeeperRecords
    <2>2. keeper[k].at = "await" /\ UNCHANGED <<rlock, authority, used>>
        BY <1>13 DEF KeeperLock, disk
    <2>3. CASE keeper[k].op = "aside"
        BY <2>1, <2>2, <2>3
    <2>4. CASE keeper[k].op = "delete"
        BY <2>1, <2>2, <2>4
    <2>5. CASE keeper[k].op = "rebuild"
        BY <2>1, <2>2, <2>5
    <2> QED
        BY <2>2, <2>3, <2>4, <2>5
<1>14. CASE RemoveLeases(k)
    <2>1. CASE End(k)
        BY <1>14, <1>e, <2>1 DEF RemoveLeases, disk
    <2>2. CASE ~End(k)
        <3>0. \E x, y : keeper' = [keeper EXCEPT ![k] =
                                   [keeper[k] EXCEPT !.at = "remove", !.todo = x, !.exc = y]]
            BY <1>14, <2>2 DEF RemoveLeases
        <3>1. /\ keeper'[k].at = "remove" /\ keeper'[k].dir = keeper[k].dir
              /\ keeper'[k].ns = keeper[k].ns /\ keeper'[k].op = keeper[k].op
            BY <1>t, <3>0 DEF KeeperRecords
        <3> QED
            BY <1>14, <2>2, <3>1 DEF RemoveLeases, disk, locks
    <2> QED
        BY <2>1, <2>2
<1>15. CASE RemoveDrop(k)
    <2>1. CASE End(k)
        BY <1>15, <1>e, <2>1 DEF RemoveDrop, disk
    <2>2. CASE ~End(k)
        <3>0. \E l \in keeper[k].todo : \E y :
                 keeper' = [keeper EXCEPT ![k] =
                                [keeper[k] EXCEPT !.at = "unlink", !.cur = l, !.exc = y]]
            BY <1>15, <2>2 DEF RemoveDrop
        <3>1. /\ keeper'[k].at = "unlink" /\ keeper'[k].cur \in keeper[k].todo
              /\ keeper'[k].ns = keeper[k].ns /\ keeper'[k].op = keeper[k].op
            BY <1>t, <3>0 DEF KeeperRecords
        <3>2. keeper[k].todo \subseteq Leases
            BY <1>t DEF KeeperRecords
        <3> QED
            BY <1>15, <2>2, <3>1, <3>2 DEF RemoveDrop, disk, locks
    <2> QED
        BY <2>1, <2>2
<1>16. CASE TransitionLocks(k)
    <2>1. CASE keeper' = [keeper EXCEPT ![k] = IdleKeeper]
        BY <1>16, <1>d, <2>1 DEF TransitionLocks, disk
    <2>2. CASE rlock' = [n \in Namespaces |-> k] /\ KeeperAt(k, "tleases")
        <3>1. /\ keeper'[k].at = "tleases"
              /\ keeper'[k].ns = keeper[k].ns /\ keeper'[k].op = keeper[k].op
            BY <1>t, <2>2 DEF KeeperRecords
        <3> QED
            BY <1>16, <2>2, <3>1 DEF TransitionLocks, disk
    <2> QED
        BY <1>16, <2>1, <2>2 DEF TransitionLocks
<1>17. CASE TransitionLeases(k)
    <2>1. CASE End(k)
        BY <1>17, <1>e, <2>1 DEF TransitionLeases, disk
    <2>2. CASE ~End(k)
        <3>0. \E y : keeper' = [keeper EXCEPT ![k] = [keeper[k] EXCEPT !.at = "move", !.exc = y]]
            BY <1>17, <2>2 DEF TransitionLeases
        <3>1. /\ keeper'[k].at = "move"
              /\ keeper'[k].ns = keeper[k].ns /\ keeper'[k].op = keeper[k].op
            BY <1>t, <3>0 DEF KeeperRecords
        <3> QED
            BY <1>17, <2>2, <3>1 DEF TransitionLeases, disk, locks
    <2> QED
        BY <2>1, <2>2
<1>18. CASE KeeperCrash(k)
    BY <1>18, <1>e DEF KeeperCrash, disk
<1>19. ASSUME NEW op \in Operations, KeeperStart(k, op)
      PROVE  KeeperShape(k)' /\ Guarded(k)' /\ Cands(k)
    <2>1. keeper'[k].at = "begin" /\ keeper'[k].op = op
        BY <1>19, <1>t DEF KeeperStart, IdleKeeper
    <2> QED
        BY <1>19, <2>1 DEF KeeperStart, disk
<1>20. ASSUME NEW a \in aside, PurgeStart(k, a)
      PROVE  KeeperShape(k)' /\ Guarded(k)' /\ Cands(k)
    <2>1. keeper'[k].at = "leases" /\ keeper'[k].op = "purge" /\ keeper'[k].dir = a
        BY <1>20, <1>t DEF PurgeStart, IdleKeeper
    <2> QED
        BY <1>20, <1>t, <2>1 DEF PurgeStart, disk
<1>21. CASE RebuildPromote(k)
    <2>1. /\ keeper'[k].at = "publish" /\ keeper'[k].gen = keeper[k].gen
          /\ keeper'[k].ns = keeper[k].ns /\ keeper'[k].op = keeper[k].op
        BY <1>21, <1>t DEF RebuildPromote, KeeperRecords
    <2> QED
        BY <1>21, <2>1 DEF RebuildPromote, locks
<1>22. CASE RebuildPublish(k)
    <2>1. /\ keeper'[k].at = "retire" /\ keeper'[k].gen = keeper[k].gen
          /\ keeper'[k].ns = keeper[k].ns /\ keeper'[k].op = keeper[k].op
        BY <1>22, <1>t DEF RebuildPublish, KeeperRecords
    <2> QED
        BY <1>22, <2>1 DEF RebuildPublish, locks
<1>23. CASE RebuildRetire(k)
    <2>0. \/ keeper' = keeper
          \/ keeper' = [keeper EXCEPT ![k] = [keeper[k] EXCEPT !.at = "sweep", !.todo = Listed]]
        BY <1>23 DEF RebuildRetire
    <2>1. /\ keeper'[k].at \in {"retire", "sweep"} /\ keeper'[k].gen = keeper[k].gen
          /\ keeper'[k].ns = keeper[k].ns /\ keeper'[k].op = keeper[k].op
        <3>1. keeper[k].at = "retire"
            BY <1>23 DEF RebuildRetire
        <3>2. CASE keeper' = keeper
            BY <3>1, <3>2
        <3>3. CASE keeper' = [keeper EXCEPT ![k] =
                                  [keeper[k] EXCEPT !.at = "sweep", !.todo = Listed]]
            BY <1>t, <3>3 DEF KeeperRecords
        <3> QED
            BY <2>0, <3>2, <3>3
    <2> QED
        BY <1>23, <2>1 DEF RebuildRetire, locks
<1>24. CASE ReclaimErase(k)
    <2>1. CASE End(k)
        BY <1>24, <1>e, <2>1 DEF ReclaimErase
    <2>2. CASE ~End(k)
        <3>0. \E x : keeper' = [keeper EXCEPT ![k] = [keeper[k] EXCEPT !.at = "reclaim",
                                   !.todo = x, !.cur = None, !.exc = {}]]
            BY <1>24, <2>2 DEF ReclaimErase
        <3>1. /\ keeper'[k].at = "reclaim" /\ keeper'[k].gen = keeper[k].gen
              /\ keeper'[k].ns = keeper[k].ns /\ keeper'[k].op = keeper[k].op
            BY <1>t, <3>0 DEF KeeperRecords
        <3> QED
            BY <1>24, <2>2, <3>1 DEF ReclaimErase, locks
    <2> QED
        BY <2>1, <2>2
<1>25. CASE AsideRename(k)
    BY <1>25, <1>e DEF AsideRename
<1>26. CASE RemoveRoot(k)
    <2>1. /\ keeper'[k].at = "drop"
          /\ keeper'[k].ns = keeper[k].ns /\ keeper'[k].op = keeper[k].op
        BY <1>26, <1>t DEF RemoveRoot, KeeperRecords
    <2> QED
        BY <1>26, <2>1 DEF RemoveRoot, locks
<1>27. CASE TransitionMove(k)
    <2>1. CASE End(k)
        BY <1>27, <1>e, <2>1 DEF TransitionMove
    <2>2. CASE UNCHANGED <<keeper, locks>>
        BY <1>27, <2>2 DEF TransitionMove, locks
    <2> QED
        BY <1>27, <2>1, <2>2 DEF TransitionMove
<1> HIDE DEF KeeperShape, Guarded, Cands
<1> QED
    BY <1>1, <1>2, <1>3, <1>4, <1>5, <1>6, <1>7, <1>8, <1>9, <1>10, <1>11, <1>12, <1>13, <1>14,
       <1>15, <1>16, <1>17, <1>18, <1>19, <1>20, <1>21, <1>22, <1>23, <1>24, <1>25, <1>26, <1>27
       DEF KeeperNext, KeeperStep, RebuildStep, RemoveStep, TransitionStep

\* Every other keeper stays in shape and in possession of its locks.
LEMMA OtherControl ==
    ASSUME Types, NEW k \in Keepers, Leaves(k), NEW j \in Keepers, j # k,
           KeeperShape(j), Guarded(j)
    PROVE  KeeperShape(j)' /\ Guarded(j)'
<1>1. keeper'[j] = keeper[j] /\ keeper[j].ns \in Namespaces
    BY DEF Leaves, Types, KeeperRecords
<1>2. KeeperShape(j)'
    BY <1>1 DEF KeeperShape, Is
<1>3. Guarded(j)'
    BY <1>1 DEF Guarded, Is, Leaves
<1> QED
    BY <1>2, <1>3

\* The locks and the steps of all operations, over a step of a keeper.
LEMMA KeeperControl ==
    ASSUME IInv, NEW k \in Keepers, KeeperNext(k)
    PROVE  \A j \in Keepers : KeeperShape(j)' /\ Guarded(j)'
<1>1. Leaves(k) /\ KeeperShape(k)' /\ Guarded(k)'
    BY KeeperLeaves, OwnStep DEF IInv
<1>2. ASSUME NEW j \in Keepers, j # k PROVE KeeperShape(j)' /\ Guarded(j)'
    BY <1>1, <1>2, OtherControl DEF IInv
<1> QED
    BY <1>1, <1>2

\* The same over a step of a reader.
LEMMA ReaderControl ==
    ASSUME IInv, NEW r \in Readers, ReaderNext(r)
    PROVE  \A j \in Keepers : KeeperShape(j)' /\ Guarded(j)'
<1> SUFFICES ASSUME NEW j \in Keepers PROVE KeeperShape(j)' /\ Guarded(j)'
    OBVIOUS
<1>1. /\ keeper' = keeper
      /\ \A n \in Namespaces : rlock[n] # r => rlock'[n] = rlock[n]
      /\ authority # r => authority' = authority
    BY ReaderKinds DEF IInv
<1>2. keeper[j].ns \in Namespaces /\ j # r
    BY GenerationsAssumption DEF IInv, Types, KeeperRecords
<1>3. KeeperShape(j)'
    BY <1>1 DEF KeeperShape, Is, IInv
<1>4. Guarded(j)'
    BY <1>1, <1>2 DEF Guarded, Is, IInv
<1> QED
    BY <1>3, <1>4

\* A generation that is born stays born.
LEMMA BornGrows ==
    ASSUME IInv, NEW k \in Keepers, KeeperNext(k)
    PROVE  Born \subseteq Born'
<1>1. Leaves(k) /\ Cands(k)
    BY KeeperLeaves, OwnStep DEF IInv
<1>2. SUFFICES ASSUME NEW g \in Born PROVE g \in Born'
    OBVIOUS
<1>3. g \in used /\ g \in used'
    BY <1>1 DEF Born, Cands
<1>4. ASSUME NEW j \in Keepers, Is(j, "rebuild", Candidate)' PROVE keeper'[j].gen # g
    <2>1. CASE j = k
        BY <1>1, <1>3, <1>4, <2>1 DEF Cands, Born
    <2>2. CASE j # k
        BY <1>1, <1>4, <2>2 DEF Leaves, Born, Is
    <2> QED
        BY <2>1, <2>2
<1> QED
    BY <1>3, <1>4 DEF Born

LEMMA BornStays ==
    ASSUME UNCHANGED <<used, keeper>>
    PROVE  Born' = Born
BY DEF Born, Is

\* What a step of a keeper does to the lease files.
Binds ==
    /\ UNCHANGED <<root, aside>>
    /\ \E S \in SUBSET Leases : file' = OpenedAll(S) /\ \A l \in S : l[2] \in Born

\* A keeper changes lease files by unlinking one or by binding names of known
\* generations.
LEMMA FileKinds ==
    ASSUME Types, Births, NEW k \in Keepers, KeeperShape(k), KeeperNext(k)
    PROVE  file' = file \/ Unlink(k) \/ Binds
<1>t. /\ keeper[k] \in KeeperRecords
      /\ root \in [Namespaces -> Roots] /\ aside \in SUBSET Asides
      /\ file \in [Leases -> Inodes \cup {0}]
    BY DEF Types
<1>n. keeper[k].ns \in Namespaces
    BY <1>t DEF KeeperRecords
<1>1. ASSUME NEW l \in Leases, ReclaimProbe(k, l) PROVE Binds
    <2>1. l[2] \in Born /\ {l} \in SUBSET Leases
        BY <1>1 DEF ReclaimProbe, Births
    <2>2. file' = [file EXCEPT ![l] = Opened(l)] /\ UNCHANGED <<root, aside>>
        BY <1>1 DEF ReclaimProbe, disk
    <2>3. file' = OpenedAll({l})
        BY <1>t, <2>2 DEF OpenedAll
    <2> QED
        BY <2>1, <2>2, <2>3 DEF Binds
<1>2. CASE RemoveLeases(k)
    <2>1. Doomed(k) \in SUBSET Leases /\ \A l \in Doomed(k) : l[2] \in Born
        <3>1. CASE keeper[k].op = "purge"
            <4>1. Doomed(k) = {<<a.ns, g>> : a \in aside \cap {keeper[k].dir},
                                             g \in keeper[k].dir.gens}
                BY <3>1 DEF Doomed
            <4>2. \A a \in aside \cap {keeper[k].dir} : \A g \in keeper[k].dir.gens :
                     a.ns \in Namespaces /\ g \in Gens /\ g \in Born
                BY <1>t DEF Asides, Births
            <4> QED
                BY <4>1, <4>2 DEF Leases
        <3>2. CASE keeper[k].op # "purge"
            <4>1. Doomed(k) = {<<keeper[k].ns, g>> : g \in root[keeper[k].ns].gens}
                BY <3>2 DEF Doomed
            <4>2. \A g \in root[keeper[k].ns].gens : g \in Gens /\ g \in Born
                BY <1>t, <1>n DEF Roots, Births
            <4> QED
                BY <1>n, <4>1, <4>2 DEF Leases
        <3> QED
            BY <3>1, <3>2
    <2> QED
        BY <1>2, <2>1 DEF RemoveLeases, disk, Binds
<1>3. CASE TransitionLeases(k)
    <2>1. Known \subseteq Born
        <3>1. \A l \in Listed : l[2] \in Born
            BY DEF Listed, Births
        <3>2. \A a \in aside : a.gens \subseteq Born
            BY DEF Births
        <3>3. root["legacy"].gens \subseteq Born /\ root["stable"].gens \subseteq Born
            BY DEF Births, Namespaces
        <3> QED
            BY <3>1, <3>2, <3>3 DEF Known
    <2>2. Born \subseteq Gens
        BY DEF Born, Types
    <2>3. Namespaces \X Known \in SUBSET Leases
        BY <2>1, <2>2 DEF Leases
    <2>4. \A l \in Namespaces \X Known : l[2] \in Born
        BY <2>1
    <2> QED
        BY <1>3, <2>3, <2>4 DEF TransitionLeases, disk, Binds
<1>4. CASE RebuildStep(k)
    BY <1>4, <1>1
       DEF RebuildStep, RebuildLease, RebuildScaffold, RebuildPopulate, RebuildAbandon,
           RebuildFinalize, RebuildPromote, RebuildPublish, RebuildRetire, SweepProbe, SweepDone,
           ReclaimErase, ReclaimDone
<1>5. CASE RemoveStep(k)
    BY <1>5, <1>2 DEF RemoveStep, DeleteLease, KeeperResolve, KeeperLock, AsideRename, RemoveRoot,
                      RemoveDrop
<1>6. CASE TransitionStep(k)
    BY <1>6, <1>3 DEF TransitionStep, TransitionLocks, TransitionMove
<1>7. CASE KeeperCrash(k) \/ (\E op \in Operations : KeeperStart(k, op))
           \/ (\E a \in aside : PurgeStart(k, a))
    BY <1>7 DEF KeeperCrash, KeeperStart, PurgeStart
<1> QED
    BY <1>4, <1>5, <1>6, <1>7 DEF KeeperNext, KeeperStep

\* The types.
LEMMA KeeperTypes ==
    ASSUME IInv, NEW k \in Keepers, KeeperNext(k)
    PROVE  Types' /\ ReaderShape'
<1>i. Types /\ Births /\ Places /\ Excludes /\ KeeperShape(k) /\ Guarded(k) /\ Heads /\ ReaderShape
    BY DEF IInv
<1>1. Leaves(k) /\ Cands(k)
    BY <1>i, KeeperLeaves, OwnStep
<1>2. RootKind(k) /\ (file' = file \/ Unlink(k) \/ Binds)
    BY <1>i, RootKinds, FileKinds
<1>t. /\ keeper[k] \in KeeperRecords
      /\ root \in [Namespaces -> Roots] /\ aside \in SUBSET Asides
      /\ file \in [Leases -> Inodes \cup {0}]
    BY <1>i DEF Types
<1>n. keeper[k].ns \in Namespaces /\ keeper[k].seq \in Nat /\ root[keeper[k].ns] \in Roots
    BY <1>t DEF KeeperRecords
<1>x. NoRoot \in Roots
    BY DEF NoRoot, Roots
<1>3. used' \in SUBSET Gens
    BY <1>i, <1>1 DEF Cands, Types
<1>4. file' \in [Leases -> Inodes \cup {0}]
    <2>1. CASE Unlink(k)
        BY <1>t, <2>1 DEF Unlink
    <2>2. CASE Binds
        <3>1. \A l \in Leases : Opened(l) \in Inodes
            BY <1>i, OpenedFile
        <3> QED
            BY <1>t, <2>2, <3>1 DEF Binds, OpenedAll
    <2> QED
        BY <1>2, <1>t, <2>1, <2>2
<1>5. root' \in [Namespaces -> Roots] /\ aside' \in SUBSET Asides
    <2> DEFINE n == keeper[k].ns
    <2>1. CASE Touches(k)
        BY <1>t, <1>n, <2>1 DEF Touches
    <2>2. CASE RebuildPromote(k)
        <3>1. keeper[k].gen \in Gens
            BY <1>i, <2>2 DEF RebuildPromote, KeeperShape, Is, Building, Final, Sweeping
        <3>2. [root[n] EXCEPT !.staged = {}, !.gens = @ \cup {keeper[k].gen}] \in Roots
            BY <1>n, <3>1 DEF Roots
        <3> QED
            <4>1. /\ aside' = aside
                  /\ root' = [root EXCEPT ![n] = [root[n] EXCEPT !.staged = {},
                                                     !.gens = @ \cup {keeper[k].gen}]]
                BY <1>n, <2>2 DEF RebuildPromote, Roots
            <4> HIDE DEF n
            <4> QED
                BY <1>t, <3>2, <4>1
    <2>3. CASE RebuildPublish(k)
        <3>1. keeper[k].gen \in Gens
            BY <1>i, <2>3 DEF RebuildPublish, KeeperShape, Is, Building, Final, Sweeping
        <3>2. [seq |-> keeper[k].seq, gen |-> keeper[k].gen] \in Publications
            BY <1>n, <3>1 DEF Publications
        <3>3. [root[n] EXCEPT !.pubs = @ \cup {[seq |-> keeper[k].seq, gen |-> keeper[k].gen]}]
                 \in Roots
            BY <1>n, <3>2 DEF Roots
        <3> QED
            BY <1>t, <1>n, <2>3, <3>3 DEF RebuildPublish
    <2>4. CASE RebuildRetire(k)
        <3>1. \A p : [root[n] EXCEPT !.pubs = @ \ {p}] \in Roots
            BY <1>n DEF Roots
        <3> QED
            <4>1. /\ aside' = aside
                  /\ \/ root' = root
                     \/ \E p : root' = [root EXCEPT ![n] = [root[n] EXCEPT !.pubs = @ \ {p}]]
                BY <2>4 DEF RebuildRetire
            <4> HIDE DEF n
            <4> QED
                BY <1>t, <3>1, <4>1
    <2>5. CASE ReclaimErase(k)
        <3>1. \A g : [root[n] EXCEPT !.gens = @ \ {g}] \in Roots
            BY <1>n DEF Roots
        <3> QED
            BY <1>t, <1>n, <2>5, <3>1 DEF ReclaimErase
    <2>6. CASE AsideRename(k)
        <3>1. [ns |-> n, gens |-> root[n].gens] \in Asides
            BY <1>n DEF Roots, Asides
        <3> QED
            BY <1>t, <1>n, <1>x, <2>6, <3>1 DEF AsideRename
    <2>7. CASE RemoveRoot(k)
        BY <1>t, <1>n, <1>x, <2>7 DEF RemoveRoot
    <2>8. CASE TransitionMove(k)
        <3>1. \A a \in aside : [a EXCEPT !.ns = "stable"] \in Asides
            BY <1>t DEF Asides, Namespaces
        <3>2. root["legacy"] \in Roots
            BY <1>t DEF Namespaces
        <3> QED
            BY <1>t, <1>x, <2>8, <3>1, <3>2 DEF TransitionMove
    <2> QED
        BY <1>2, <1>t, <2>1, <2>2, <2>3, <2>4, <2>5, <2>6, <2>7, <2>8 DEF RootKind
<1>6. reader' = reader
    BY <1>1 DEF Leaves
<1>7. ReaderShape'
    BY <1>i, <1>6 DEF ReaderShape
<1> QED
    BY <1>i, <1>1, <1>3, <1>4, <1>5, <1>6, <1>7 DEF Types, Leaves

\* A step of a reader keeps the types.
LEMMA ReaderTypes ==
    ASSUME IInv, NEW r \in Readers, ReaderNext(r)
    PROVE  Types' /\ ReaderShape'
<1>i. Types /\ ReaderShape /\ Heads /\ Excludes
    BY DEF IInv
<1>1. PICK s \in ReaderRecords : reader' = [reader EXCEPT ![r] = s] /\ ReaderKind(r, s)
    BY <1>i, ReaderKinds
<1>2. /\ UNCHANGED <<root, aside, used, keeper>>
      /\ rlock' \in [Namespaces -> Readers \cup Keepers \cup {None}]
    BY <1>i, ReaderKinds
<1>3. reader' \in [Readers -> ReaderRecords] /\ reader'[r] = s
    BY <1>i, <1>1 DEF Types
<1>4. s.at \in Aware => s.pub \in Publications
    BY <1>i, <1>1, CurrentIsHighest
       DEF ReaderShape, ReaderKind, Forgets, Selects, Takes, Locks, Enters, Aware, Held, Leased,
           Open
<1>5. reader[r].at \in Aware => LeaseOf(r) \in Leases
    BY <1>i DEF Types, ReaderShape, LeaseOf, Leases, Publications, ReaderRecords
<1>6. s.at \in Held => s.ino \in Inodes
    BY <1>i, <1>1, <1>5, OpenedFile
       DEF ReaderShape, ReaderKind, Forgets, Selects, Takes, Locks, Enters, Aware, Held, Leased,
           Open
<1>7. file' \in [Leases -> Inodes \cup {0}]
    BY <1>i, <1>1, <1>5, OpenedFile
       DEF Types, ReaderKind, Forgets, Selects, Takes, Locks, Enters
<1>8. ReaderShape'
    BY <1>i, <1>1, <1>3, <1>4, <1>6 DEF ReaderShape, Types
<1> QED
    BY <1>i, <1>2, <1>3, <1>7, <1>8 DEF Types

(***************************************************************************)
(* The roots: what a step of a keeper makes of them, field by field.       *)
(***************************************************************************)
Others(n) == \A m \in Namespaces : m # n => root'[m] = root[m]
Stands(n) == root'[n].there = root[n].there /\ root'[n].whole = root[n].whole

Prepares(k) ==
    LET n == keeper[k].ns IN
    /\ Is(k, "rebuild", Building) /\ aside' = aside /\ Others(n)
    /\ root'[n].gens = root[n].gens /\ root'[n].pubs = root[n].pubs
    /\ root[n].whole => root'[n].whole
    /\ keeper[k].at # "scaffold" => root'[n].whole = root[n].whole
    /\ root[n].there \/ root'[n].whole => root'[n].there
Promotes(k) ==
    LET n == keeper[k].ns IN
    /\ Is(k, "rebuild", {"promote"}) /\ aside' = aside /\ Others(n) /\ Stands(n)
    /\ root[n].whole /\ root'[n].pubs = root[n].pubs
    /\ root'[n].gens = root[n].gens \cup {keeper[k].gen}
Publishes(k) ==
    LET n == keeper[k].ns IN
    /\ Is(k, "rebuild", {"publish"}) /\ aside' = aside /\ Others(n) /\ Stands(n)
    /\ root[n].whole /\ root'[n].gens = root[n].gens
    /\ root'[n].pubs = root[n].pubs \cup {Own(k)}
Retires(k) ==
    LET n == keeper[k].ns IN
    /\ Is(k, "rebuild", {"retire"}) /\ aside' = aside /\ Others(n) /\ Stands(n)
    /\ root'[n].gens = root[n].gens
    /\ \E p \in root[n].pubs : p.seq < keeper[k].seq /\ root'[n].pubs = root[n].pubs \ {p}
Erases(k) ==
    LET n == keeper[k].ns IN
    /\ Is(k, "rebuild", {"erase"}) /\ aside' = aside /\ Others(n) /\ Stands(n)
    /\ root'[n].pubs = root[n].pubs
    /\ root'[n].gens = root[n].gens \ {keeper[k].cur[2]}
SetsAside(k) ==
    LET n == keeper[k].ns IN
    /\ Is(k, "aside", {"rename"}) /\ Others(n) /\ root'[n] = NoRoot
    /\ \E b \in Asides : b.ns = n /\ b.gens = root[n].gens /\ aside' = aside \cup {b}
Deletes(k) ==
    LET n == keeper[k].ns IN
    /\ Is(k, "delete", {"remove"}) /\ Others(n) /\ root'[n] = NoRoot /\ aside' = aside
Discards(k) == Is(k, "purge", {"remove"}) /\ root' = root /\ aside' = aside \ {keeper[k].dir}
MovesAside(k) ==
    /\ Is(k, "transition", {"move"}) /\ root' = root
    /\ \E a \in aside, b \in Asides : /\ a.ns = "legacy" /\ b.ns = "stable" /\ b.gens = a.gens
                                      /\ aside' = (aside \ {a}) \cup {b}
MovesRoot(k) ==
    /\ Is(k, "transition", {"move"}) /\ aside' = aside
    /\ root["legacy"].there
    /\ root'["stable"] = root["legacy"] /\ root'["legacy"] = NoRoot

RootEffect(k) ==
    \/ UNCHANGED <<root, aside>> \/ Prepares(k) \/ Promotes(k) \/ Publishes(k) \/ Retires(k)
    \/ Erases(k) \/ SetsAside(k) \/ Deletes(k) \/ Discards(k) \/ MovesAside(k) \/ MovesRoot(k)

LEMMA NoRootIsEmpty ==
    /\ NoRoot.gens = {} /\ NoRoot.pubs = {} /\ NoRoot.whole = FALSE /\ NoRoot.there = FALSE
BY DEF NoRoot

\* What a step of a keeper does to roots and asides, without the control.
LEMMA RootEffects ==
    ASSUME Types, Places, NEW k \in Keepers, KeeperShape(k), KeeperNext(k)
    PROVE  /\ RootEffect(k)
           /\ RebuildPromote(k) => Promotes(k)
           /\ RebuildPublish(k) => Publishes(k)
           /\ RemoveRoot(k) => Deletes(k) \/ Discards(k)
<1>t. root \in [Namespaces -> Roots] /\ keeper[k] \in KeeperRecords /\ aside \in SUBSET Asides
    BY DEF Types
<1>n. keeper[k].ns \in Namespaces /\ root[keeper[k].ns] \in Roots
    BY <1>t DEF KeeperRecords
<1>0. RootKind(k)
    BY RootKinds
<1> USE DEF RootEffect, Others, Stands, Is
<1> DEFINE n == keeper[k].ns
<1>2. ASSUME Touches(k) PROVE RootEffect(k)
    <2>1. PICK x \in Roots :
             /\ root' = [root EXCEPT ![n] = x]
             /\ x.gens = root[n].gens /\ x.pubs = root[n].pubs
             /\ root[n].whole => x.whole
             /\ keeper[k].at # "scaffold" => x.whole = root[n].whole
             /\ root[n].there \/ x.whole => x.there
        BY <1>2 DEF Touches
    <2>2. root'[n] = x /\ \A m \in Namespaces : m # n => root'[m] = root[m]
        BY <1>t, <1>n, <2>1
    <2> QED
        BY <1>2, <2>1, <2>2 DEF Touches, Prepares
<1>3. ASSUME RebuildPromote(k) PROVE Promotes(k)
    <2> DEFINE x == [root[n] EXCEPT !.staged = {}, !.gens = @ \cup {keeper[k].gen}]
    <2>1. /\ x.there = root[n].there /\ x.whole = root[n].whole /\ x.pubs = root[n].pubs
          /\ x.gens = root[n].gens \cup {keeper[k].gen}
        BY <1>n DEF Roots
    <2>2. root' = [root EXCEPT ![n] = x]
        BY <1>3 DEF RebuildPromote
    <2> HIDE DEF x
    <2>3. root'[n] = x /\ \A m \in Namespaces : m # n => root'[m] = root[m]
        BY <1>t, <1>n, <2>2
    <2>4. Is(k, "rebuild", {"promote"}) /\ aside' = aside /\ root[n].whole
        BY <1>3 DEF RebuildPromote, KeeperShape, Building, Final, Sweeping
    <2> QED
        BY <2>1, <2>3, <2>4 DEF Promotes
<1>4. ASSUME RebuildPublish(k) PROVE Publishes(k)
    <2> DEFINE x == [root[n] EXCEPT !.pubs = @ \cup {Own(k)}]
    <2>1. /\ x.there = root[n].there /\ x.whole = root[n].whole /\ x.gens = root[n].gens
          /\ x.pubs = root[n].pubs \cup {Own(k)}
        BY <1>n DEF Roots
    <2>2. root' = [root EXCEPT ![n] = x]
        BY <1>4 DEF RebuildPublish, Own
    <2> HIDE DEF x
    <2>3. root'[n] = x /\ \A m \in Namespaces : m # n => root'[m] = root[m]
        BY <1>t, <1>n, <2>2
    <2>4. Is(k, "rebuild", {"publish"}) /\ aside' = aside /\ root[n].whole
        BY <1>4 DEF RebuildPublish, KeeperShape, Building, Final, Sweeping
    <2> QED
        BY <2>1, <2>3, <2>4 DEF Publishes
<1>5. ASSUME RebuildRetire(k) PROVE RootEffect(k)
    <2>1. Is(k, "rebuild", {"retire"}) /\ aside' = aside
        BY <1>5 DEF RebuildRetire, KeeperShape, Building, Final, Sweeping
    <2>2. CASE root' = root
        BY <2>1, <2>2
    <2>3. ASSUME NEW p \in root[n].pubs, p.seq < keeper[k].seq,
                 root' = [root EXCEPT ![n] = [root[n] EXCEPT !.pubs = @ \ {p}]]
          PROVE  Retires(k)
        <3> DEFINE x == [root[n] EXCEPT !.pubs = @ \ {p}]
        <3>1. /\ x.there = root[n].there /\ x.whole = root[n].whole /\ x.gens = root[n].gens
              /\ x.pubs = root[n].pubs \ {p}
            BY <1>n DEF Roots
        <3>2. root' = [root EXCEPT ![n] = x]
            BY <2>3
        <3> HIDE DEF x
        <3>3. root'[n] = x /\ \A m \in Namespaces : m # n => root'[m] = root[m]
            BY <1>t, <1>n, <3>2
        <3> QED
            BY <2>1, <2>3, <3>1, <3>3 DEF Retires
    <2>4. \/ root' = root
          \/ \E p \in root[n].pubs :
                /\ p.seq < keeper[k].seq
                /\ root' = [root EXCEPT ![n] = [root[n] EXCEPT !.pubs = @ \ {p}]]
        BY <1>5 DEF RebuildRetire
    <2> QED
        BY <2>1, <2>2, <2>3, <2>4
<1>6. ASSUME ReclaimErase(k) PROVE RootEffect(k)
    <2>1. Is(k, "rebuild", {"erase"}) /\ aside' = aside
        BY <1>6 DEF ReclaimErase, KeeperShape, Building, Final, Sweeping
    <2>2. CASE root' = root
        BY <2>1, <2>2
    <2>3. CASE root' # root
        <3> DEFINE x == [root[n] EXCEPT !.gens = @ \ {keeper[k].cur[2]}]
        <3>1. /\ x.there = root[n].there /\ x.whole = root[n].whole /\ x.pubs = root[n].pubs
              /\ x.gens = root[n].gens \ {keeper[k].cur[2]}
            BY <1>n DEF Roots
        <3>2. root' = [root EXCEPT ![n] = x]
            BY <1>6, <2>3 DEF ReclaimErase
        <3> HIDE DEF x
        <3>3. root'[n] = x /\ \A m \in Namespaces : m # n => root'[m] = root[m]
            BY <1>t, <1>n, <3>2
        <3> QED
            BY <2>1, <3>1, <3>3 DEF Erases
    <2> QED
        BY <2>2, <2>3
<1>7. ASSUME AsideRename(k) PROVE RootEffect(k)
    <2>1. Is(k, "aside", {"rename"})
        BY <1>7 DEF AsideRename, KeeperShape
    <2>2. CASE UNCHANGED <<aside, root>>
        BY <2>2
    <2>3. CASE ~UNCHANGED <<aside, root>>
        <3> DEFINE b == [ns |-> n, gens |-> root[n].gens]
        <3>1. b \in Asides /\ b.ns = n /\ b.gens = root[n].gens
            BY <1>n DEF Asides, Roots
        <3>2. aside' = aside \cup {b} /\ root' = [root EXCEPT ![n] = NoRoot]
            BY <1>7, <2>3 DEF AsideRename
        <3> HIDE DEF b
        <3>3. root'[n] = NoRoot /\ \A m \in Namespaces : m # n => root'[m] = root[m]
            BY <1>t, <1>n, <3>2
        <3> QED
            BY <2>1, <3>1, <3>2, <3>3 DEF SetsAside
    <2> QED
        BY <2>2, <2>3
<1>8. ASSUME RemoveRoot(k) PROVE Deletes(k) \/ Discards(k)
    <2>1. keeper[k].at = "remove" /\ keeper[k].op \in {"delete", "purge"}
        BY <1>8 DEF RemoveRoot, KeeperShape
    <2>2. CASE keeper[k].op = "purge"
        BY <1>8, <2>1, <2>2 DEF RemoveRoot, Discards
    <2>3. CASE keeper[k].op = "delete"
        <3>1. root' = [root EXCEPT ![n] = NoRoot] /\ aside' = aside
            BY <1>8, <2>3 DEF RemoveRoot
        <3>2. root'[n] = NoRoot /\ \A m \in Namespaces : m # n => root'[m] = root[m]
            BY <1>t, <1>n, <3>1
        <3> QED
            BY <2>1, <2>3, <3>1, <3>2 DEF Deletes
    <2> QED
        BY <2>1, <2>2, <2>3
<1>9. ASSUME TransitionMove(k) PROVE RootEffect(k)
    <2>1. Is(k, "transition", {"move"})
        BY <1>9 DEF TransitionMove, KeeperShape
    <2>2. ASSUME NEW a \in aside, a.ns = "legacy", root' = root,
                 aside' = (aside \ {a}) \cup {[a EXCEPT !.ns = "stable"]}
          PROVE  MovesAside(k)
        <3> DEFINE b == [a EXCEPT !.ns = "stable"]
        <3>1. b \in Asides /\ b.ns = "stable" /\ b.gens = a.gens
            BY <1>t DEF Asides, Namespaces
        <3>2. aside' = (aside \ {a}) \cup {b}
            BY <2>2
        <3> HIDE DEF b
        <3> QED
            BY <2>1, <2>2, <3>1, <3>2 DEF MovesAside
    <2>3. CASE /\ aside' = aside /\ root["legacy"].there
               /\ root' = [m \in Namespaces |-> IF m = "stable" THEN root["legacy"] ELSE NoRoot]
        <3>1. root'["stable"] = root["legacy"] /\ root'["legacy"] = NoRoot
            BY <2>3 DEF Namespaces
        <3> QED
            BY <2>1, <2>3, <3>1 DEF MovesRoot
    <2>4. CASE UNCHANGED <<root, aside>>
        BY <2>4
    <2>5. \/ \E a \in aside : /\ a.ns = "legacy" /\ root' = root
                              /\ aside' = (aside \ {a}) \cup {[a EXCEPT !.ns = "stable"]}
          \/ /\ aside' = aside /\ root["legacy"].there
             /\ root' = [m \in Namespaces |-> IF m = "stable" THEN root["legacy"] ELSE NoRoot]
          \/ UNCHANGED <<root, aside>>
        BY <1>9 DEF TransitionMove
    <2> QED
        BY <2>2, <2>3, <2>4, <2>5
<1> QED
    BY <1>0, <1>2, <1>3, <1>4, <1>5, <1>6, <1>7, <1>8, <1>9 DEF RootKind

\* A generation that is promoted was its rebuild's own.
LEMMA PromotedIsNew ==
    ASSUME IInv, NEW k \in Keepers, Promotes(k)
    PROVE  /\ keeper[k].ns \in Namespaces /\ rlock[keeper[k].ns] = k /\ authority = k
           /\ keeper[k].gen \in Gens \ Born
<1>1. Is(k, "rebuild", {"promote"})
    BY DEF Promotes
<1>2. keeper[k].gen \in Gens \ Born
    BY <1>1 DEF IInv, KeeperShape, Is, Building, Final, Sweeping, Candidate, Born
<1> QED
    BY <1>1, <1>2 DEF IInv, Guarded, Is, Building, Final, Sweeping, Types, KeeperRecords

\* RootEffects from the whole invariant.
LEMMA Effects ==
    ASSUME IInv, NEW k \in Keepers, KeeperNext(k)
    PROVE  /\ RootEffect(k) /\ Types /\ Places /\ KeeperShape(k) /\ Guarded(k)
           /\ keeper[k].ns \in Namespaces
           /\ \A n \in Namespaces : root[n] \in Roots
BY RootEffects DEF IInv, Types, KeeperRecords

\* A generation comes into a root as a candidate or by a transition.
LEMMA GensShrink ==
    ASSUME IInv, NEW k \in Keepers, KeeperNext(k), NEW n \in Namespaces, NEW g \in root'[n].gens
    PROVE  \/ g \in root[n].gens
           \/ Promotes(k) /\ n = keeper[k].ns /\ g = keeper[k].gen
           \/ MovesRoot(k) /\ n = "stable" /\ g \in root["legacy"].gens
<1>i. RootEffect(k) /\ keeper[k].ns \in Namespaces
    BY Effects
<1> USE NoRootIsEmpty DEF Others
<1>1. CASE UNCHANGED <<root, aside>> \/ Discards(k) \/ MovesAside(k)
    BY <1>1 DEF Discards, MovesAside
<1>2. CASE Prepares(k) \/ Publishes(k) \/ Retires(k)
    BY <1>2 DEF Prepares, Publishes, Retires
<1>3. CASE Promotes(k)
    <2>1. CASE n = keeper[k].ns
        BY <1>3, <2>1 DEF Promotes
    <2>2. CASE n # keeper[k].ns
        BY <1>3, <2>2 DEF Promotes
    <2> QED
        BY <2>1, <2>2
<1>4. CASE Erases(k) \/ SetsAside(k) \/ Deletes(k)
    BY <1>4 DEF Erases, SetsAside, Deletes
<1>5. CASE MovesRoot(k)
    BY <1>5 DEF MovesRoot, Namespaces
<1> QED
    BY <1>i, <1>1, <1>2, <1>3, <1>4, <1>5 DEF RootEffect

\* No generation comes back.
LEMMA LiveShrinks ==
    ASSUME IInv, NEW k \in Keepers, KeeperNext(k), NEW g \in Born, Live(g)'
    PROVE  Live(g)
BY GensShrink, PromotedIsNew DEF Live, Namespaces

\* Under the rebuild lock of a namespace, others can at most move its root away.
LEMMA OthersRoot ==
    ASSUME IInv, NEW k \in Keepers, KeeperNext(k),
           NEW j \in Keepers, j # k, NEW n \in Namespaces, rlock[n] = j
    PROVE  root'[n] = root[n] \/ root'[n] = NoRoot
<1>i. RootEffect(k) /\ Guarded(k) /\ keeper[k].ns \in Namespaces
    BY Effects
<1> USE DEF Others, Guarded, Is, Building, Final, Sweeping
<1>1. CASE UNCHANGED <<root, aside>> \/ Discards(k) \/ MovesAside(k)
    BY <1>1 DEF Discards, MovesAside
<1>2. CASE Prepares(k)
    BY <1>i, <1>2 DEF Prepares
<1>3. CASE Promotes(k) \/ Publishes(k)
    BY <1>i, <1>3 DEF Promotes, Publishes
<1>4. CASE Retires(k) \/ Erases(k)
    BY <1>i, <1>4 DEF Retires, Erases
<1>5. CASE SetsAside(k) \/ Deletes(k)
    BY <1>i, <1>5 DEF SetsAside, Deletes
<1>6. CASE MovesRoot(k)
    BY <1>i, <1>6 DEF MovesRoot
<1> QED
    BY <1>i, <1>1, <1>2, <1>3, <1>4, <1>5, <1>6 DEF RootEffect

\* Under the authority lock as well, nobody else adds a generation anywhere.
LEMMA OthersGens ==
    ASSUME IInv, NEW k \in Keepers, KeeperNext(k),
           NEW j \in Keepers, j # k, NEW n \in Namespaces, rlock[n] = j, authority = j,
           NEW m \in Namespaces
    PROVE  root'[m].gens \subseteq root[m].gens
<1>1. ~Promotes(k)
    BY PromotedIsNew
<1>2. ~MovesRoot(k)
    BY DEF MovesRoot, IInv, Guarded, Is
<1> QED
    BY <1>1, <1>2, GensShrink

\* A generation is in one place after every step of a keeper.
LEMMA PlacesStep ==
    ASSUME IInv, NEW k \in Keepers, KeeperNext(k)
    PROVE  Places'
<1>i. RootEffect(k) /\ Places /\ Births /\ keeper[k].ns \in Namespaces
    BY Effects DEF IInv
<1> USE NoRootIsEmpty DEF Others, Stands
<1> DEFINE n == keeper[k].ns
<1>1. CASE UNCHANGED <<root, aside>>
    BY <1>i, <1>1 DEF Places
<1>2. CASE Prepares(k) \/ Publishes(k) \/ Retires(k) \/ Erases(k)
    <2>1. /\ \A m \in Namespaces : root'[m].gens \subseteq root[m].gens
          /\ \A m \in Namespaces : root[m].whole => root'[m].whole
          /\ \A m \in Namespaces : root'[m].whole => root'[m].there
          /\ aside' = aside
        BY <1>i, <1>2 DEF Places, Prepares, Publishes, Retires, Erases
    <2> QED
        BY <1>i, <2>1 DEF Places
<1>3. CASE Promotes(k)
    <2>1. /\ aside' = aside /\ root'[n].gens = root[n].gens \cup {keeper[k].gen}
          /\ root'[n].whole /\ root'[n].there
          /\ \A m \in Namespaces : m # n => root'[m] = root[m]
        BY <1>i, <1>3 DEF Places, Promotes
    <2>2. keeper[k].gen \notin Born
        BY <1>3, PromotedIsNew
    <2>3. \A m \in Namespaces : keeper[k].gen \notin root[m].gens
        BY <1>i, <2>2 DEF Births
    <2>4. \A a \in aside : keeper[k].gen \notin a.gens
        BY <1>i, <2>2 DEF Births
    <2> HIDE DEF n
    <2> QED
        BY <1>i, <2>1, <2>3, <2>4 DEF Places
<1>4. CASE SetsAside(k)
    <2>1. PICK b \in Asides : b.gens = root[n].gens /\ aside' = aside \cup {b}
        BY <1>4 DEF SetsAside
    <2>2. /\ root'[n].gens = {} /\ ~root'[n].whole
          /\ \A m \in Namespaces : m # n => root'[m] = root[m]
        BY <1>4 DEF SetsAside
    <2> QED
        BY <1>i, <2>1, <2>2 DEF Places
<1>5. CASE Deletes(k) \/ Discards(k)
    <2>1. /\ aside' \subseteq aside
          /\ \A m \in Namespaces : root'[m] = root[m] \/ root'[m] = NoRoot
        BY <1>i, <1>5 DEF Deletes, Discards
    <2> QED
        BY <1>i, <2>1 DEF Places
<1>6. CASE MovesAside(k)
    <2>1. PICK a \in aside, b \in Asides : b.gens = a.gens /\ aside' = (aside \ {a}) \cup {b}
        BY <1>6 DEF MovesAside
    <2>2. root' = root
        BY <1>6 DEF MovesAside
    <2> QED
        BY <1>i, <2>1, <2>2 DEF Places
<1>7. CASE MovesRoot(k)
    BY <1>i, <1>7 DEF Places, MovesRoot, Namespaces
<1> QED
    BY <1>i, <1>1, <1>2, <1>3, <1>4, <1>5, <1>6, <1>7 DEF RootEffect

\* A publication that is added is above the others, and what is retired or
\* erased is below the one that stays.
LEMMA HeadsStep ==
    ASSUME IInv, NEW k \in Keepers, KeeperNext(k)
    PROVE  Heads'
<1>i. /\ RootEffect(k) /\ Heads /\ keeper[k].ns \in Namespaces /\ Rebuilds(k) /\ Dooms(k)
      /\ \A m \in Namespaces : root[m] \in Roots
    BY Effects DEF IInv
<1>s. \A m \in Namespaces : \A p \in root[m].pubs : p \in Publications /\ p.seq \in Nat
    BY <1>i DEF Roots, Publications
<1>o. keeper[k].seq \in Nat /\ Own(k).seq = keeper[k].seq /\ Own(k).gen = keeper[k].gen
    BY DEF IInv, Types, KeeperRecords, Own
<1> USE NoRootIsEmpty DEF Others
<1> DEFINE n == keeper[k].ns
<1>x. ASSUME \A m \in Namespaces : m # n => root'[m] = root[m], Whole(root'[n]) PROVE Heads'
    BY <1>i, <1>x DEF Heads
<1>1. CASE UNCHANGED <<root, aside>> \/ Discards(k) \/ MovesAside(k)
    BY <1>i, <1>1 DEF Heads, Discards, MovesAside
<1>2. CASE Prepares(k) \/ Promotes(k)
    <2>1. root[n].gens \subseteq root'[n].gens /\ root'[n].pubs = root[n].pubs
        BY <1>2 DEF Prepares, Promotes
    <2>2. Whole(root'[n])
        BY <1>i, <2>1 DEF Heads, Whole
    <2> QED
        BY <1>2, <1>x, <2>2 DEF Prepares, Promotes
<1>3. CASE Publishes(k)
    <2>1. /\ \A p \in root[n].pubs : p.seq < keeper[k].seq
          /\ keeper[k].gen \in root[n].gens
        BY <1>i, <1>3 DEF Publishes, Rebuilds, Is
    <2>2. root'[n].gens = root[n].gens /\ root'[n].pubs = root[n].pubs \cup {Own(k)}
        BY <1>3 DEF Publishes
    <2>3. \A p \in root'[n].pubs : p.gen \in root'[n].gens
        BY <1>i, <1>o, <2>1, <2>2 DEF Heads, Whole
    <2>4. \A p, q \in root'[n].pubs : p.seq = q.seq => p = q
        BY <1>i, <1>s, <1>o, <2>1, <2>2 DEF Heads, Whole
    <2>5. Own(k) \in root'[n].pubs /\ \A q \in root'[n].pubs : q.seq <= Own(k).seq
        BY <1>i, <1>s, <1>o, <2>1, <2>2
    <2>6. Whole(root'[n])
        BY <2>3, <2>4, <2>5 DEF Whole
    <2> QED
        BY <1>3, <1>x, <2>6 DEF Publishes
<1>4. CASE Retires(k)
    <2>1. PICK p \in root[n].pubs : p.seq < keeper[k].seq /\ root'[n].pubs = root[n].pubs \ {p}
        BY <1>4 DEF Retires
    <2>2. /\ \A q \in root[n].pubs : q.seq < keeper[k].seq \/ q = Own(k)
          /\ Own(k) \in root[n].pubs
        BY <1>i, <1>4, <2>1 DEF Retires, Rebuilds, Is
    <2>3. Own(k) \in root'[n].pubs
        BY <1>o, <2>1, <2>2
    <2>4. \A q \in root'[n].pubs : q.seq <= Own(k).seq
        BY <1>i, <1>s, <1>o, <2>1, <2>2
    <2>5. /\ \A q \in root'[n].pubs : q.gen \in root'[n].gens
          /\ \A q, t \in root'[n].pubs : q.seq = t.seq => q = t
        BY <1>i, <1>4, <2>1 DEF Retires, Heads, Whole
    <2>6. Whole(root'[n])
        BY <2>3, <2>4, <2>5 DEF Whole
    <2> QED
        BY <1>4, <1>x, <2>6 DEF Retires
<1>5. CASE Erases(k)
    <2>1. root[n].pubs \subseteq {Own(k)} /\ keeper[k].cur[2] # keeper[k].gen
        BY <1>i, <1>5 DEF Erases, Rebuilds, Dooms, Is, Sweeping
    <2>2. root'[n].pubs = root[n].pubs /\ root'[n].gens = root[n].gens \ {keeper[k].cur[2]}
        BY <1>5 DEF Erases
    <2>3. \A p \in root'[n].pubs : p.gen \in root'[n].gens
        BY <1>i, <1>o, <2>1, <2>2 DEF Heads, Whole
    <2>4. Whole(root'[n])
        BY <1>i, <2>2, <2>3 DEF Heads, Whole
    <2> QED
        BY <1>5, <1>x, <2>4 DEF Erases
<1>6. CASE SetsAside(k) \/ Deletes(k)
    BY <1>6, <1>x DEF SetsAside, Deletes, Whole
<1>7. CASE MovesRoot(k)
    BY <1>i, <1>7 DEF Heads, Whole, MovesRoot, Namespaces
<1> QED
    BY <1>i, <1>1, <1>2, <1>3, <1>4, <1>5, <1>6, <1>7 DEF RootEffect

(***************************************************************************)
(* What a step of a keeper makes of its own operation.                     *)
(***************************************************************************)
Keeps(k) ==
    /\ keeper'[k].op = keeper[k].op /\ keeper'[k].ns = keeper[k].ns
    /\ keeper'[k].gen = keeper[k].gen /\ keeper'[k].seq = keeper[k].seq
SameLists(k) ==
    /\ keeper'[k].todo = keeper[k].todo /\ keeper'[k].exc = keeper[k].exc
    /\ keeper'[k].cur = keeper[k].cur
Fewer(k) == keeper'[k].todo \subseteq keeper[k].todo /\ keeper'[k].exc \subseteq keeper[k].exc

\* It ends, starts, or waits with nothing at stake.
Rests(k) ==
    /\ \/ keeper'[k].at \in {"idle", "begin", "scaffold", "resolve", "rename", "tleases"}
       \/ keeper'[k].at \in {"await", "leases"} /\ keeper'[k].op \in {"aside", "delete"}
    /\ Fewer(k)
BeginsPurge(k) ==
    /\ UNCHANGED <<root, aside, file>>
    /\ keeper'[k].op = "purge" /\ keeper'[k].at = "leases" /\ keeper'[k].dir \in aside
    /\ keeper'[k].todo = {} /\ keeper'[k].exc = {}
Builds(k) ==
    /\ keeper'[k].op = "rebuild" /\ keeper'[k].at \in Candidate /\ keeper[k].op = "rebuild"
    /\ keeper'[k].ns = keeper[k].ns /\ SameLists(k)
    /\ \/ /\ keeper[k].at = "scaffold" /\ keeper'[k].at = "populate"
          /\ \A p \in root[keeper[k].ns].pubs : p.seq < keeper'[k].seq
       \/ keeper[k].at = "populate" /\ keeper'[k].at = "finalize" /\ Keeps(k)
       \/ /\ keeper[k].at = "finalize" /\ keeper'[k].at = "await" /\ Keeps(k)
          /\ Resolve # "conflict" /\ UNCHANGED root
       \/ keeper[k].at = "await" /\ keeper'[k].at = "promote" /\ Keeps(k) /\ UNCHANGED root
Promoted(k) ==
    Promotes(k) /\ Keeps(k) /\ SameLists(k) /\ keeper'[k].at = "publish"
Published(k) ==
    Publishes(k) /\ Keeps(k) /\ SameLists(k) /\ keeper'[k].at = "retire"
RetiresOn(k) ==
    /\ Is(k, "rebuild", {"retire"}) /\ Keeps(k) /\ SameLists(k) /\ keeper'[k].at = "retire"
SweepsOn(k) ==
    /\ Is(k, "rebuild", {"retire"} \cup Sweeping) /\ Keeps(k) /\ keeper'[k].at = "sweep"
    /\ keeper[k].at = "retire" => \A p \in root[keeper[k].ns].pubs : ~(p.seq < keeper[k].seq)
    /\ keeper'[k].todo \subseteq keeper[k].todo \cup Listed
    /\ keeper'[k].exc = keeper[k].exc /\ UNCHANGED root
Picks(k) ==
    LET l == keeper'[k].cur IN
    /\ Is(k, "rebuild", {"sweep"}) /\ Keeps(k) /\ keeper'[k].at = "unlink"
    /\ l \in keeper[k].todo /\ l[2] \notin root[keeper[k].ns].gens /\ Idle(l, file[l])
    /\ keeper'[k].todo = keeper[k].todo /\ keeper'[k].exc = keeper[k].exc
    /\ UNCHANGED <<root, aside, file>>
Reclaims(k) ==
    LET n == keeper[k].ns IN
    /\ Is(k, "rebuild", {"sweep", "reclaim", "erase"}) /\ Keeps(k) /\ keeper'[k].at = "reclaim"
    /\ \A l \in keeper'[k].todo : \/ keeper[k].at # "sweep" /\ l \in keeper[k].todo
                                  \/ l[1] = n /\ l[2] \in root[n].gens \ {keeper[k].gen}
    /\ keeper'[k].exc \subseteq keeper[k].exc
Pins(k) ==
    LET l == keeper'[k].cur IN
    /\ Is(k, "rebuild", {"reclaim"}) /\ Keeps(k) /\ keeper'[k].at = "erase"
    /\ l \in keeper[k].todo /\ Idle(l, Opened(l)) /\ file' = [file EXCEPT ![l] = Opened(l)]
    /\ keeper'[k].todo = keeper[k].todo /\ keeper'[k].exc = {<<l, Opened(l)>>}
    /\ UNCHANGED <<root, aside>>
PinsAll(k) ==
    /\ keeper[k].at = "leases" /\ keeper[k].op \in {"delete", "purge"} /\ Keeps(k)
    /\ keeper'[k].at = "remove" /\ keeper'[k].dir = keeper[k].dir
    /\ keeper'[k].todo = Doomed(k) /\ file' = OpenedAll(Doomed(k))
    /\ \A l \in Doomed(k) : Idle(l, file[l])
    /\ keeper'[k].exc = {<<l, OpenedAll(Doomed(k))[l]>> : l \in Doomed(k)}
    /\ UNCHANGED <<root, aside>>
Removes(k) ==
    /\ Deletes(k) \/ Discards(k)
    /\ Keeps(k) /\ SameLists(k) /\ keeper'[k].at = "drop"
Frees(k) ==
    /\ keeper[k].at = "drop" /\ keeper[k].op \in {"delete", "purge"} /\ Keeps(k)
    /\ keeper'[k].at = "unlink" /\ keeper'[k].cur \in keeper[k].todo
    /\ keeper'[k].todo = keeper[k].todo /\ keeper'[k].exc \subseteq keeper[k].exc
    /\ UNCHANGED <<root, aside, file>>
Drops(k) ==
    /\ keeper[k].at = "unlink" /\ keeper[k].op \in {"delete", "purge"} /\ Keeps(k)
    /\ keeper'[k].at = "drop" /\ Fewer(k) /\ UNCHANGED <<root, aside>>
Clears(k) ==
    LET ls == Namespaces \X Known IN
    /\ Is(k, "transition", {"tleases"}) /\ Keeps(k) /\ keeper'[k].at = "move"
    /\ keeper'[k].todo = keeper[k].todo /\ file' = OpenedAll(ls)
    /\ \A l \in ls : Idle(l, file[l])
    /\ keeper'[k].exc = {<<l, OpenedAll(ls)[l]>> : l \in ls}
    /\ UNCHANGED <<root, aside>>
MovesOn(k) ==
    Is(k, "transition", {"move"}) /\ UNCHANGED <<root, file, keeper>>

OwnEffect(k) ==
    \/ Rests(k) \/ BeginsPurge(k) \/ Builds(k) \/ Promoted(k) \/ Published(k) \/ RetiresOn(k)
    \/ SweepsOn(k) \/ Picks(k) \/ Reclaims(k) \/ Pins(k) \/ PinsAll(k) \/ Removes(k)
    \/ Frees(k) \/ Drops(k) \/ Clears(k) \/ MovesOn(k)

\* What a keeper does, by what comes of the leases and the generation in hand.
LEMMA OwnEffects ==
    ASSUME Types, Heads, Places, NEW k \in Keepers, KeeperShape(k), KeeperNext(k)
    PROVE  OwnEffect(k)
<1>t. keeper \in [Keepers -> KeeperRecords] /\ keeper[k] \in KeeperRecords
    BY DEF Types
<1>n. keeper[k].ns \in Namespaces
    BY <1>t DEF KeeperRecords
<1> USE DEF Is, KeeperIs, KeeperAt, Keeps, SameLists, Fewer
<1>i. ASSUME keeper' = [keeper EXCEPT ![k] = IdleKeeper] PROVE Rests(k)
    <2>1. keeper'[k] = IdleKeeper
        BY <1>t, <1>i
    <2> QED
        BY <2>1 DEF Rests, IdleKeeper
<1>e. ASSUME End(k) PROVE Rests(k)
    BY <1>i, <1>e DEF End
<1>1. ASSUME RebuildScaffold(k) PROVE Builds(k)
    <2> DEFINE n == keeper[k].ns
               q == IF Current(n) = None THEN 1 ELSE Current(n).seq + 1
    <2>1. PICK g \in Gens \ used :
             keeper' = [keeper EXCEPT ![k] =
                            [keeper[k] EXCEPT !.at = "populate", !.gen = g, !.seq = q]]
        BY <1>1 DEF RebuildScaffold
    <2>2. \A p \in root[n].pubs : p.seq < q
        <3>1. \A p \in root[n].pubs : p.seq \in Nat
            BY <1>n DEF Types, Roots, Publications
        <3>2. CASE Current(n) = None
            BY <1>n, <3>2, CurrentIsHighest
        <3>3. CASE Current(n) # None
            <4>1. Current(n).seq \in Nat /\ \A p \in root[n].pubs : p.seq <= Current(n).seq
                BY <1>n, <3>1, <3>3, CurrentIsHighest
            <4> QED
                BY <3>1, <3>3, <4>1
        <3> QED
            BY <3>2, <3>3
    <2> HIDE DEF q
    <2>3. /\ keeper'[k].at = "populate" /\ keeper'[k].op = keeper[k].op
          /\ keeper'[k].ns = n /\ keeper'[k].seq = q /\ SameLists(k)
        BY <1>t, <2>1 DEF KeeperRecords
    <2>4. keeper[k].at = "scaffold" /\ keeper[k].op = "rebuild"
        BY <1>1 DEF RebuildScaffold, KeeperShape, Building
    <2> QED
        BY <2>2, <2>3, <2>4 DEF Builds, Candidate
<1>2. ASSUME RebuildPopulate(k) PROVE Builds(k)
    <2>1. keeper'[k].at = "finalize" /\ Keeps(k) /\ SameLists(k)
        BY <1>2, <1>t DEF RebuildPopulate, KeeperRecords
    <2>2. keeper[k].at = "populate" /\ keeper[k].op = "rebuild"
        BY <1>2 DEF RebuildPopulate, KeeperShape, Building
    <2> QED
        BY <2>1, <2>2 DEF Builds, Candidate
<1>3. CASE RebuildAbandon(k)
    BY <1>3, <1>e DEF RebuildAbandon, OwnEffect
<1>4. ASSUME RebuildLease(k) PROVE Rests(k)
    <2>1. CASE keeper' = [keeper EXCEPT ![k].at = "scaffold"]
        <3>1. keeper'[k].at = "scaffold" /\ SameLists(k)
            BY <1>t, <2>1 DEF KeeperRecords
        <3> QED
            BY <3>1 DEF Rests
    <2> QED
        BY <1>4, <1>i, <2>1 DEF RebuildLease
<1>5. ASSUME RebuildFinalize(k) PROVE Builds(k)
    <2>1. keeper'[k].at = "await" /\ Keeps(k) /\ SameLists(k)
        BY <1>5, <1>t DEF RebuildFinalize, KeeperRecords
    <2>2. /\ keeper[k].at = "finalize" /\ keeper[k].op = "rebuild" /\ Resolve # "conflict"
          /\ root' = root
        BY <1>5 DEF RebuildFinalize, KeeperShape, Building, disk
    <2> QED
        BY <2>1, <2>2 DEF Builds, Candidate
<1>6. ASSUME NEW l \in Leases, SweepProbe(k, l) PROVE OwnEffect(k)
    <2>0. Is(k, "rebuild", {"sweep"}) /\ l \in keeper[k].todo /\ UNCHANGED <<root, aside, file>>
        BY <1>6 DEF SweepProbe, KeeperShape, Building, Final, Sweeping, disk
    <2>1. CASE End(k)
        BY <2>1, <1>e DEF OwnEffect
    <2>2. CASE keeper' = [keeper EXCEPT ![k] = [keeper[k] EXCEPT !.todo = @ \ {l}]]
        <3>1. /\ keeper'[k].at = keeper[k].at /\ Keeps(k) /\ keeper'[k].exc = keeper[k].exc
              /\ keeper'[k].todo = keeper[k].todo \ {l}
            BY <1>t, <2>2 DEF KeeperRecords
        <3>2. SweepsOn(k)
            BY <2>0, <3>1 DEF SweepsOn, Sweeping
        <3> QED
            BY <3>2 DEF OwnEffect
    <2>3. CASE /\ keeper' = [keeper EXCEPT ![k] = [keeper[k] EXCEPT !.at = "unlink", !.cur = l]]
               /\ l[2] \notin root[keeper[k].ns].gens /\ Idle(l, file[l])
        <3>1. /\ keeper'[k].at = "unlink" /\ Keeps(k) /\ keeper'[k].exc = keeper[k].exc
              /\ keeper'[k].todo = keeper[k].todo /\ keeper'[k].cur = l
            BY <1>t, <2>3 DEF KeeperRecords
        <3>2. Picks(k)
            BY <2>0, <2>3, <3>1 DEF Picks
        <3> QED
            BY <3>2 DEF OwnEffect
    <2> QED
        BY <1>6, <2>1, <2>2, <2>3 DEF SweepProbe
<1>7. ASSUME Unlink(k) PROVE OwnEffect(k)
    <2>1. /\ keeper'[k].at = IF keeper[k].op = "rebuild" THEN "sweep" ELSE "drop"
          /\ Keeps(k) /\ keeper'[k].exc = keeper[k].exc
          /\ keeper'[k].todo = keeper[k].todo \ {keeper[k].cur}
        BY <1>7, <1>t DEF Unlink, KeeperRecords
    <2>2. /\ keeper[k].at = "unlink" /\ keeper[k].op \in {"rebuild", "delete", "purge"}
          /\ UNCHANGED <<root, aside>>
        BY <1>7 DEF Unlink, KeeperShape, disk
    <2>3. CASE keeper[k].op = "rebuild"
        BY <2>1, <2>2, <2>3 DEF OwnEffect, SweepsOn, Sweeping
    <2>4. CASE keeper[k].op # "rebuild"
        BY <2>1, <2>2, <2>4 DEF OwnEffect, Drops
    <2> QED
        BY <2>3, <2>4
<1>8. ASSUME SweepDone(k) PROVE OwnEffect(k)
    <2>1. CASE End(k)
        BY <2>1, <1>e DEF OwnEffect
    <2>2. CASE ~End(k)
        <3> DEFINE x == {<<keeper[k].ns, g>> : g \in root[keeper[k].ns].gens \ {keeper[k].gen}}
        <3>0. keeper' = [keeper EXCEPT ![k] = [keeper[k] EXCEPT !.at = "reclaim", !.todo = x]]
            BY <1>8, <2>2 DEF SweepDone
        <3>p. \A l \in x : l[1] = keeper[k].ns /\ l[2] \in root[keeper[k].ns].gens \ {keeper[k].gen}
            OBVIOUS
        <3> HIDE DEF x
        <3>1. /\ keeper'[k].at = "reclaim" /\ Keeps(k) /\ keeper'[k].todo = x
              /\ keeper'[k].exc = keeper[k].exc
            BY <1>t, <3>0 DEF KeeperRecords
        <3>2. Is(k, "rebuild", {"sweep"})
            BY <1>8 DEF SweepDone, KeeperShape, Building, Final, Sweeping
        <3>3. Reclaims(k)
            BY <3>p, <3>1, <3>2 DEF Reclaims
        <3> QED
            BY <3>3 DEF OwnEffect
    <2> QED
        BY <2>1, <2>2
<1>9. ASSUME NEW l \in Leases, ReclaimProbe(k, l) PROVE OwnEffect(k)
    <2>0. /\ Is(k, "rebuild", {"reclaim"}) /\ l \in keeper[k].todo /\ UNCHANGED <<root, aside>>
          /\ file' = [file EXCEPT ![l] = Opened(l)]
        BY <1>9 DEF ReclaimProbe, KeeperShape, Building, Final, Sweeping, disk
    <2>1. CASE Idle(l, Opened(l))
        <3>0. keeper' = [keeper EXCEPT ![k] = [keeper[k] EXCEPT !.at = "erase", !.cur = l,
                                                                !.exc = {<<l, Opened(l)>>}]]
            BY <1>9, <2>1 DEF ReclaimProbe
        <3>1. /\ keeper'[k].at = "erase" /\ Keeps(k) /\ keeper'[k].exc = {<<l, Opened(l)>>}
              /\ keeper'[k].todo = keeper[k].todo /\ keeper'[k].cur = l
            BY <1>t, <3>0 DEF KeeperRecords
        <3>2. Pins(k)
            BY <2>0, <2>1, <3>1 DEF Pins
        <3> QED
            BY <3>2 DEF OwnEffect
    <2>2. CASE ~Idle(l, Opened(l))
        <3>0. keeper' = [keeper EXCEPT ![k] = [keeper[k] EXCEPT !.todo = @ \ {l}]]
            BY <1>9, <2>2 DEF ReclaimProbe
        <3>1. /\ keeper'[k].at = "reclaim" /\ Keeps(k) /\ keeper'[k].exc = keeper[k].exc
              /\ keeper'[k].todo = keeper[k].todo \ {l}
            BY <1>t, <2>0, <3>0 DEF KeeperRecords
        <3>2. Reclaims(k)
            BY <2>0, <3>1 DEF Reclaims
        <3> QED
            BY <3>2 DEF OwnEffect
    <2> QED
        BY <2>1, <2>2
<1>10. ASSUME ReclaimDone(k) PROVE SweepsOn(k)
    <2>1. /\ keeper'[k].at = "sweep" /\ Keeps(k) /\ keeper'[k].exc = keeper[k].exc
          /\ keeper'[k].todo = Listed
        BY <1>10, <1>t DEF ReclaimDone, KeeperRecords
    <2>2. Is(k, "rebuild", {"reclaim"}) /\ root' = root
        BY <1>10 DEF ReclaimDone, KeeperShape, Building, Final, Sweeping, disk
    <2> QED
        BY <2>1, <2>2 DEF SweepsOn, Sweeping
<1>11. ASSUME DeleteLease(k) PROVE Rests(k)
    <2>1. CASE keeper' = [keeper EXCEPT ![k].at = "resolve"]
        <3>1. keeper'[k].at = "resolve" /\ SameLists(k)
            BY <1>t, <2>1 DEF KeeperRecords
        <3> QED
            BY <3>1 DEF Rests
    <2> QED
        BY <1>11, <1>i, <2>1 DEF DeleteLease
<1>12. ASSUME KeeperResolve(k) PROVE Rests(k)
    <2>1. CASE End(k)
        BY <1>e, <2>1
    <2>2. CASE ~End(k)
        <3>0. keeper' = [keeper EXCEPT ![k] = [keeper[k] EXCEPT !.at = "await", !.lockns = Resolve]]
            BY <1>12, <2>2 DEF KeeperResolve
        <3>1. keeper'[k].at = "await" /\ Keeps(k) /\ SameLists(k)
            BY <1>t, <3>0 DEF KeeperRecords
        <3>2. keeper[k].op \in {"aside", "delete"}
            BY <1>12 DEF KeeperResolve, KeeperShape
        <3> QED
            BY <3>1, <3>2 DEF Rests
    <2> QED
        BY <2>1, <2>2
<1>13. ASSUME KeeperLock(k) PROVE OwnEffect(k)
    <2>1. /\ keeper'[k].at = CASE keeper[k].op = "aside" -> "rename"
                               [] keeper[k].op = "delete" -> "leases"
                               [] OTHER -> "promote"
          /\ Keeps(k) /\ SameLists(k)
        BY <1>13, <1>t DEF KeeperLock, KeeperRecords
    <2>2. keeper[k].at = "await" /\ root' = root /\ keeper[k].op \in {"aside", "delete", "rebuild"}
        BY <1>13 DEF KeeperLock, KeeperShape, disk
    <2>3. CASE keeper[k].op = "aside"
        <3>1. keeper'[k].at = "rename"
            BY <2>1, <2>3
        <3> QED
            BY <2>1, <3>1 DEF OwnEffect, Rests
    <2>4. CASE keeper[k].op = "delete"
        <3>1. keeper'[k].at = "leases"
            BY <2>1, <2>4
        <3> QED
            BY <2>1, <2>4, <3>1 DEF OwnEffect, Rests
    <2>5. CASE keeper[k].op = "rebuild"
        <3>1. keeper'[k].at = "promote"
            BY <2>1, <2>5
        <3> QED
            BY <2>1, <2>2, <2>5, <3>1 DEF OwnEffect, Builds, Candidate
    <2> QED
        BY <2>2, <2>3, <2>4, <2>5
<1>14. ASSUME RemoveLeases(k) PROVE OwnEffect(k)
    <2>1. CASE End(k)
        BY <1>e, <2>1 DEF OwnEffect
    <2>2. CASE ~End(k)
        <3> DEFINE x == Doomed(k)
                   y == {<<l, OpenedAll(Doomed(k))[l]>> : l \in Doomed(k)}
        <3>0. keeper' = [keeper EXCEPT ![k] =
                             [keeper[k] EXCEPT !.at = "remove", !.todo = x, !.exc = y]]
            BY <1>14, <2>2 DEF RemoveLeases
        <3>2. /\ keeper[k].at = "leases" /\ keeper[k].op \in {"delete", "purge"}
              /\ file' = OpenedAll(x) /\ (\A l \in x : Idle(l, file[l]))
              /\ UNCHANGED <<root, aside>>
            BY <1>14, <2>2 DEF RemoveLeases, KeeperShape, disk
        <3> HIDE DEF x, y
        <3>1. /\ keeper'[k].at = "remove" /\ Keeps(k) /\ keeper'[k].exc = y
              /\ keeper'[k].todo = x /\ keeper'[k].dir = keeper[k].dir
            BY <1>t, <3>0 DEF KeeperRecords
        <3>3. PinsAll(k)
            BY <3>1, <3>2 DEF PinsAll, x, y
        <3> QED
            BY <3>3 DEF OwnEffect
    <2> QED
        BY <2>1, <2>2
<1>15. ASSUME RemoveDrop(k) PROVE OwnEffect(k)
    <2>1. CASE End(k)
        BY <1>e, <2>1 DEF OwnEffect
    <2>2. CASE ~End(k)
        <3>0. PICK l \in keeper[k].todo :
                 keeper' = [keeper EXCEPT ![k] = [keeper[k] EXCEPT !.at = "unlink", !.cur = l,
                                !.exc = {e \in keeper[k].exc : e[1] # l}]]
            BY <1>15, <2>2 DEF RemoveDrop
        <3> DEFINE y == {e \in keeper[k].exc : e[1] # l}
        <3>p. y \subseteq keeper[k].exc
            OBVIOUS
        <3>q. keeper' = [keeper EXCEPT ![k] =
                             [keeper[k] EXCEPT !.at = "unlink", !.cur = l, !.exc = y]]
            BY <3>0
        <3> HIDE DEF y
        <3>1. /\ keeper'[k].at = "unlink" /\ Keeps(k) /\ keeper'[k].exc = y
              /\ keeper'[k].todo = keeper[k].todo /\ keeper'[k].cur = l
            BY <1>t, <3>q DEF KeeperRecords
        <3>2. /\ keeper[k].at = "drop" /\ keeper[k].op \in {"delete", "purge"}
              /\ UNCHANGED <<root, aside, file>>
            BY <1>15 DEF RemoveDrop, KeeperShape, disk
        <3>3. Frees(k)
            BY <3>p, <3>1, <3>2 DEF Frees
        <3> QED
            BY <3>3 DEF OwnEffect
    <2> QED
        BY <2>1, <2>2
<1>16. ASSUME TransitionLocks(k) PROVE Rests(k)
    <2>1. CASE keeper' = [keeper EXCEPT ![k].at = "tleases"]
        <3>1. keeper'[k].at = "tleases" /\ SameLists(k)
            BY <1>t, <2>1 DEF KeeperRecords
        <3> QED
            BY <3>1 DEF Rests
    <2> QED
        BY <1>16, <1>i, <2>1 DEF TransitionLocks
<1>17. ASSUME TransitionLeases(k) PROVE OwnEffect(k)
    <2>1. CASE End(k)
        BY <1>e, <2>1 DEF OwnEffect
    <2>2. CASE ~End(k)
        <3> DEFINE ls == Namespaces \X Known
                   y == {<<l, OpenedAll(ls)[l]>> : l \in ls}
        <3>0. keeper' = [keeper EXCEPT ![k] = [keeper[k] EXCEPT !.at = "move", !.exc = y]]
            BY <1>17, <2>2 DEF TransitionLeases
        <3>2. /\ Is(k, "transition", {"tleases"}) /\ file' = OpenedAll(ls)
              /\ \A l \in ls : Idle(l, file[l])
              /\ UNCHANGED <<root, aside>>
            BY <1>17, <2>2 DEF TransitionLeases, KeeperShape, disk
        <3> HIDE DEF ls, y
        <3>1. /\ keeper'[k].at = "move" /\ Keeps(k) /\ keeper'[k].exc = y
              /\ keeper'[k].todo = keeper[k].todo
            BY <1>t, <3>0 DEF KeeperRecords
        <3>3. Clears(k)
            BY <3>1, <3>2 DEF Clears, ls, y
        <3> QED
            BY <3>3 DEF OwnEffect
    <2> QED
        BY <2>1, <2>2
<1>18. CASE KeeperCrash(k)
    BY <1>18, <1>e DEF KeeperCrash, OwnEffect
<1>19. ASSUME NEW op \in Operations, KeeperStart(k, op) PROVE Rests(k)
    <2>1. keeper'[k].at = "begin" /\ keeper'[k].todo = {} /\ keeper'[k].exc = {}
        BY <1>19, <1>t DEF KeeperStart, IdleKeeper
    <2> QED
        BY <2>1 DEF Rests
<1>20. ASSUME NEW a \in aside, PurgeStart(k, a) PROVE BeginsPurge(k)
    <2>1. /\ keeper'[k].at = "leases" /\ keeper'[k].op = "purge" /\ keeper'[k].dir = a
          /\ keeper'[k].todo = {} /\ keeper'[k].exc = {}
        BY <1>20, <1>t DEF PurgeStart, IdleKeeper
    <2> QED
        BY <1>20, <2>1 DEF PurgeStart, BeginsPurge, disk
<1>21. ASSUME RebuildPromote(k) PROVE Promoted(k)
    <2>1. keeper'[k].at = "publish" /\ Keeps(k) /\ SameLists(k)
        BY <1>21, <1>t DEF RebuildPromote, KeeperRecords
    <2> QED
        BY <1>21, <2>1, RootEffects DEF Promoted
<1>22. ASSUME RebuildPublish(k) PROVE Published(k)
    <2>1. keeper'[k].at = "retire" /\ Keeps(k) /\ SameLists(k)
        BY <1>22, <1>t DEF RebuildPublish, KeeperRecords
    <2> QED
        BY <1>22, <2>1, RootEffects DEF Published
<1>23. ASSUME RebuildRetire(k) PROVE OwnEffect(k)
    <2>0. Is(k, "rebuild", {"retire"})
        BY <1>23 DEF RebuildRetire, KeeperShape, Building, Final, Sweeping
    <2>1. CASE keeper' = keeper
        BY <2>0, <2>1 DEF OwnEffect, RetiresOn
    <2>2. CASE /\ keeper' = [keeper EXCEPT ![k] =
                                 [keeper[k] EXCEPT !.at = "sweep", !.todo = Listed]]
               /\ {p \in root[keeper[k].ns].pubs : p.seq < keeper[k].seq} = {}
               /\ root' = root
        <3>1. /\ keeper'[k].at = "sweep" /\ Keeps(k) /\ keeper'[k].exc = keeper[k].exc
              /\ keeper'[k].todo = Listed
            BY <1>t, <2>2 DEF KeeperRecords
        <3>2. SweepsOn(k)
            BY <2>0, <2>2, <3>1 DEF SweepsOn, Sweeping
        <3> QED
            BY <3>2 DEF OwnEffect
    <2> QED
        BY <1>23, <2>1, <2>2 DEF RebuildRetire
<1>24. ASSUME ReclaimErase(k) PROVE OwnEffect(k)
    <2>1. CASE End(k)
        BY <1>e, <2>1 DEF OwnEffect
    <2>2. CASE ~End(k)
        <3> DEFINE x == keeper[k].todo \ {keeper[k].cur}
        <3>0. keeper' = [keeper EXCEPT ![k] = [keeper[k] EXCEPT !.at = "reclaim", !.todo = x,
                                                                !.cur = None, !.exc = {}]]
            BY <1>24, <2>2 DEF ReclaimErase
        <3>p. x \subseteq keeper[k].todo
            OBVIOUS
        <3> HIDE DEF x
        <3>1. /\ keeper'[k].at = "reclaim" /\ Keeps(k) /\ keeper'[k].todo = x
              /\ keeper'[k].exc = {}
            BY <1>t, <3>0 DEF KeeperRecords
        <3>2. Is(k, "rebuild", {"erase"})
            BY <1>24 DEF ReclaimErase, KeeperShape, Building, Final, Sweeping
        <3>3. Reclaims(k)
            BY <3>p, <3>1, <3>2 DEF Reclaims
        <3> QED
            BY <3>3 DEF OwnEffect
    <2> QED
        BY <2>1, <2>2
<1>25. CASE AsideRename(k)
    BY <1>25, <1>e DEF AsideRename, OwnEffect
<1>26. ASSUME RemoveRoot(k) PROVE Removes(k)
    <2>1. keeper'[k].at = "drop" /\ Keeps(k) /\ SameLists(k)
        BY <1>26, <1>t DEF RemoveRoot, KeeperRecords
    <2> QED
        BY <1>26, <2>1, RootEffects DEF Removes
<1>27. ASSUME TransitionMove(k) PROVE OwnEffect(k)
    <2>1. CASE End(k)
        BY <1>e, <2>1 DEF OwnEffect
    <2>2. CASE UNCHANGED <<root, keeper>>
        BY <1>27, <2>2 DEF TransitionMove, KeeperShape, OwnEffect, MovesOn
    <2> QED
        BY <1>27, <2>1, <2>2 DEF TransitionMove
<1> HIDE DEF Keeps, SameLists, Fewer, Is
<1>a. RebuildStep(k) => OwnEffect(k)
    BY <1>1, <1>2, <1>3, <1>4, <1>5, <1>6, <1>7, <1>8, <1>9, <1>10, <1>21, <1>22, <1>23, <1>24
       DEF RebuildStep, OwnEffect
<1>b. RemoveStep(k) \/ TransitionStep(k) => OwnEffect(k)
    BY <1>11, <1>12, <1>13, <1>14, <1>15, <1>16, <1>17, <1>25, <1>26, <1>27
       DEF RemoveStep, TransitionStep, OwnEffect
<1> QED
    BY <1>a, <1>b, <1>18, <1>19, <1>20 DEF KeeperNext, KeeperStep, OwnEffect

(***************************************************************************)
(* Steps of a reader.                                                      *)
(***************************************************************************)
FileGrows == \A l \in Leases : file[l] # 0 => file'[l] = file[l]

\* Nobody enters a generation whose lease is held exclusively: both locks would
\* be on the file that has the name.
LEMMA NoEntry ==
    ASSUME IInv, NEW r \in Readers, NEW s, Enters(r, s), NEW k \in Keepers, NEW i \in Inodes
    PROVE  <<LeaseOf(r), i>> \notin keeper[k].exc
<1> SUFFICES ASSUME <<LeaseOf(r), i>> \in keeper[k].exc PROVE FALSE
    OBVIOUS
<1>1. reader[r].at \in Leased /\ reader[r].pub.gen \in root[reader[r].ns].gens
    BY DEF Enters
<1>2. reader[r].ns \in Namespaces
    BY DEF IInv, Types, ReaderRecords
<1>3. Live(reader[r].pub.gen)
    BY <1>1, <1>2 DEF Live
<1>4. file[LeaseOf(r)] = reader[r].ino
    BY <1>1, <1>3 DEF IInv, Links, Leased, Held
<1> DEFINE e == <<LeaseOf(r), i>>
<1>5. e[1] = LeaseOf(r) /\ e[2] = i /\ e[1][2] = reader[r].pub.gen
    BY DEF LeaseOf
<1>6. file[e[1]] = e[2]
    BY <1>3, <1>5 DEF IInv, Links
<1>7. <<LeaseOf(r), reader[r].ino>> \in keeper[k].exc
    BY <1>4, <1>5, <1>6
<1> QED
    BY <1>1, <1>7 DEF IInv, Excludes

\* What a reader that knows or holds a lease has set.
LEMMA ReaderFacts ==
    ASSUME IInv, NEW r \in Readers
    PROVE  /\ reader \in [Readers -> ReaderRecords]
           /\ reader[r].at \in Aware => LeaseOf(r) \in Leases /\ reader[r].pub \in Publications
           /\ reader[r].at \in Held => reader[r].ino \in Inodes /\ reader[r].ino # 0
BY InodeCount DEF IInv, Types, ReaderShape, LeaseOf, Leases, Publications, ReaderRecords

\* A reader binds only names that no file has, of known generations.
LEMMA ReaderFile ==
    ASSUME IInv, NEW r \in Readers, NEW s, ReaderKind(r, s)
    PROVE  FileGrows /\ \A l \in Leases : file'[l] = 0 \/ file'[l] = file[l] \/ l[2] \in Born
<1>1. CASE file' = file
    BY <1>1 DEF FileGrows
<1>2. CASE Takes(r, s)
    <2> DEFINE l == LeaseOf(r)
    <2>1. l \in Leases /\ l[2] \in Born /\ file' = [file EXCEPT ![l] = Opened(l)]
        BY <1>2, ReaderFacts DEF Takes, IInv, Births, LeaseOf
    <2>2. file \in [Leases -> Inodes \cup {0}] /\ (file[l] # 0 => Opened(l) = file[l])
        BY <2>1, OpenedFile DEF IInv, Types
    <2> HIDE DEF l
    <2> QED
        BY <2>1, <2>2 DEF FileGrows
<1> QED
    BY <1>1, <1>2 DEF ReaderKind, Forgets, Selects, Locks, Enters

\* A step of a reader keeps what is said of roots, leases and readers.
LEMMA ReaderInv ==
    ASSUME IInv, NEW r \in Readers, ReaderNext(r)
    PROVE  Births' /\ Places' /\ Heads' /\ Links' /\ Excludes' /\ Opens'
<1>1. PICK s \in ReaderRecords : reader' = [reader EXCEPT ![r] = s] /\ ReaderKind(r, s)
    BY ReaderKinds DEF IInv
<1>2. UNCHANGED <<root, aside, used, keeper>>
    BY ReaderKinds DEF IInv
<1>3. /\ \A q \in Readers : q # r => reader'[q] = reader[q] /\ LeaseOf(q)' = LeaseOf(q)
      /\ reader'[r] = s /\ LeaseOf(r)' = <<s.ns, s.pub.gen>>
    BY <1>1, ReaderFacts DEF LeaseOf
<1>4. FileGrows /\ \A l \in Leases : file'[l] = 0 \/ file'[l] = file[l] \/ l[2] \in Born
    BY <1>1, ReaderFile
<1>5. Born' = Born /\ \A g \in Gens : Live(g)' <=> Live(g)
    BY <1>2, BornStays DEF Live
<1>6. Places' /\ Heads'
    BY <1>2 DEF IInv, Places, Heads
<1>f. \A q \in Readers :
         /\ reader[q].at \in Aware => LeaseOf(q) \in Leases /\ reader[q].pub \in Publications
         /\ reader[q].at \in Held => reader[q].ino \in Inodes /\ reader[q].ino # 0
    BY ReaderFacts
<1>7. Births'
    <2>1. s.at \in Aware => s.pub.gen \in Born
        <3>1. CASE Selects(r, s)
            <4>1. PICK n \in Namespaces : Current(n) # None /\ s.pub = Current(n)
                BY <3>1 DEF Selects
            <4> QED
                BY <4>1, CurrentIsHighest DEF IInv, Births
        <3> QED
            BY <1>1, <3>1 DEF ReaderKind, Forgets, Takes, Locks, Enters, IInv, Births, Aware,
                              Held, Leased
    <2>2. \A q \in Readers : reader'[q].at \in Aware => reader'[q].pub.gen \in Born'
        BY <1>3, <1>5, <2>1 DEF IInv, Births
    <2>3. \A l \in Leases : file'[l] # 0 => l[2] \in Born'
        BY <1>4, <1>5 DEF IInv, Births
    <2> QED
        BY <1>2, <1>5, <2>2, <2>3 DEF IInv, Births, Is
<1>8. Links'
    <2>1. ASSUME NEW q \in Readers, reader'[q].at \in Held, Live(reader[q].pub.gen)'
          PROVE  file'[LeaseOf(q)'] = reader'[q].ino
        <3>1. CASE q # r
            <4>1. Live(reader[q].pub.gen)
                BY <1>2, <1>3, <2>1, <3>1 DEF Live
            <4>2. file[LeaseOf(q)] = reader[q].ino /\ LeaseOf(q) \in Leases /\ reader[q].ino # 0
                BY <1>3, <1>f, <2>1, <3>1, <4>1 DEF IInv, Links, Aware
            <4> QED
                BY <1>3, <1>4, <3>1, <4>2 DEF FileGrows
        <3>2. CASE q = r /\ Takes(r, s)
            <4> DEFINE l == LeaseOf(r)
            <4>1. /\ file' = [file EXCEPT ![l] = Opened(l)] /\ l \in Leases
                  /\ LeaseOf(r)' = l /\ s.ino = Opened(l)
                BY <1>3, <1>f, <3>2 DEF Takes, LeaseOf
            <4>2. file'[l] = Opened(l)
                BY <4>1 DEF IInv, Types
            <4> HIDE DEF l
            <4> QED
                BY <1>3, <3>2, <4>1, <4>2
        <3>3. CASE q = r /\ (Locks(r, s) \/ Enters(r, s))
            <4>1. Live(reader[r].pub.gen) /\ LeaseOf(r)' = LeaseOf(r) /\ file' = file
                  /\ s.ino = reader[r].ino /\ reader[r].at \in Held
                BY <1>2, <1>3, <2>1, <3>3 DEF Live, Locks, Enters, LeaseOf, Held, Leased
            <4> QED
                BY <1>3, <3>3, <4>1 DEF IInv, Links
        <3>4. CASE q = r /\ (Forgets(r, s) \/ Selects(r, s))
            BY <1>3, <2>1, <3>4 DEF Forgets, Selects, Aware
        <3> QED
            BY <1>1, <3>1, <3>2, <3>3, <3>4 DEF ReaderKind
    <2>2. ASSUME NEW k \in Keepers, NEW e \in keeper'[k].exc, Live(e[1][2])'
          PROVE  file'[e[1]] = e[2]
        <3>1. e \in keeper[k].exc /\ Live(e[1][2])
            BY <1>2, <2>2 DEF Live
        <3>2. e[1] \in Leases /\ e[2] \in Inodes
            BY <3>1 DEF IInv, Types, KeeperRecords
        <3>3. file[e[1]] = e[2] /\ e[2] # 0
            BY <3>1, <3>2, InodeCount DEF IInv, Links
        <3> QED
            BY <1>4, <3>2, <3>3 DEF FileGrows
    <2> QED
        BY <2>1, <2>2 DEF Links
<1>9. Excludes'
    <2>1. ASSUME NEW q \in Readers, NEW k \in Keepers, reader'[q].at \in Leased
          PROVE  <<LeaseOf(q)', reader'[q].ino>> \notin keeper'[k].exc
        <3>1. CASE q # r
            BY <1>2, <1>3, <2>1, <3>1 DEF IInv, Excludes
        <3>2. CASE q = r /\ Locks(r, s)
            BY <1>2, <1>3, <3>2 DEF Locks, LeaseOf
        <3>3. CASE q = r /\ Enters(r, s)
            BY <1>2, <1>3, <3>3 DEF Enters, LeaseOf, IInv, Excludes
        <3>4. CASE q = r /\ (Forgets(r, s) \/ Selects(r, s) \/ Takes(r, s))
            BY <1>3, <2>1, <3>4 DEF Forgets, Selects, Takes, Aware, Held, Leased
        <3> QED
            BY <1>1, <3>1, <3>2, <3>3, <3>4 DEF ReaderKind
    <2> QED
        BY <1>2, <2>1 DEF IInv, Excludes
<1>10. Opens'
    <2>1. ASSUME NEW q \in Readers, reader'[q].at \in Open
          PROVE  /\ file'[LeaseOf(q)'] = reader'[q].ino
                 /\ Stored(reader[q].ns, reader[q].pub.gen)'
        <3>1. CASE q # r
            <4>1. /\ file[LeaseOf(q)] = reader[q].ino /\ Stored(reader[q].ns, reader[q].pub.gen)
                  /\ LeaseOf(q) \in Leases /\ reader[q].ino # 0
                BY <1>3, <1>f, <2>1, <3>1 DEF IInv, Opens, Open, Aware, Held
            <4> QED
                BY <1>2, <1>3, <1>4, <3>1, <4>1 DEF FileGrows, Stored
        <3>2. CASE q = r /\ Enters(r, s)
            <4>1. reader[r].ns \in Namespaces
                BY DEF IInv, Types, ReaderRecords
            <4>2. Live(reader[r].pub.gen) /\ reader[r].at \in Held
                BY <3>2, <4>1 DEF Enters, Live, Leased, Held
            <4> QED
                BY <1>2, <1>3, <3>2, <4>2 DEF Enters, LeaseOf, IInv, Links, Stored
        <3>3. CASE q = r /\ ~Enters(r, s)
            BY <1>1, <1>3, <2>1, <3>3
               DEF ReaderKind, Forgets, Selects, Takes, Locks, Aware, Held, Leased, Open
        <3> QED
            BY <3>1, <3>2, <3>3
    <2> QED
        BY <2>1 DEF Opens
<1> QED
    BY <1>6, <1>7, <1>8, <1>9, <1>10

\* What is without readers stays so, if its generation has left the roots or
\* its lease is held exclusively.
LEMMA NoOpenKept ==
    ASSUME IInv, NEW r \in Readers, ReaderNext(r), NEW l \in Leases, NoOpen(l),
           ~Live(l[2]) \/ \E k \in Keepers, i \in Inodes : <<l, i>> \in keeper[k].exc
    PROVE  NoOpen(l)'
<1>1. PICK s \in ReaderRecords : reader' = [reader EXCEPT ![r] = s] /\ ReaderKind(r, s)
    BY ReaderKinds DEF IInv
<1>2. SUFFICES ASSUME NEW q \in Readers, reader'[q].at \in Open, LeaseOf(q)' = l PROVE FALSE
    BY DEF NoOpen
<1>3. q = r /\ reader'[r] = s
    BY <1>1, <1>2, ReaderFacts DEF NoOpen, LeaseOf
<1>4. Enters(r, s)
    BY <1>1, <1>2, <1>3
       DEF ReaderKind, Forgets, Selects, Takes, Locks, Aware, Held, Leased, Open
<1>5. LeaseOf(r) = l /\ Live(l[2])
    <2>1. LeaseOf(r) = LeaseOf(r)'
        BY <1>3, <1>4 DEF Enters, LeaseOf
    <2>2. l[2] = reader[r].pub.gen /\ reader[r].ns \in Namespaces
        BY <1>2, <1>3, <2>1 DEF LeaseOf, IInv, Types, ReaderRecords
    <2> QED
        BY <1>2, <1>3, <1>4, <2>1, <2>2 DEF Enters, Live
<1> QED
    BY <1>4, <1>5, NoEntry

\* A reader takes nothing from an operation: it cannot confirm what the
\* operation is about to unlink, erase, remove or move.
LEMMA ReaderOperations ==
    ASSUME IInv, NEW r \in Readers, ReaderNext(r), NEW k \in Keepers
    PROVE  Rebuilds(k)' /\ Dooms(k)' /\ Purges(k)' /\ Moves(k)'
<1>1. PICK s \in ReaderRecords : reader' = [reader EXCEPT ![r] = s] /\ ReaderKind(r, s)
    BY ReaderKinds DEF IInv
<1>2. UNCHANGED <<root, aside, used, keeper>>
    BY ReaderKinds DEF IInv
<1>3. Born' = Born
    BY <1>2, BornStays
<1>i. KeeperShape(k) /\ Rebuilds(k) /\ Dooms(k) /\ Purges(k) /\ Moves(k)
    BY DEF IInv
<1>4. Rebuilds(k)'
    BY <1>i, <1>2 DEF Rebuilds, Is, Own
<1>5. Purges(k)'
    BY <1>i, <1>2, <1>3 DEF Purges, Is, Live
<1>6. Dooms(k)'
    <2> DEFINE n == keeper[k].ns
               todo == keeper[k].todo
               cur == keeper[k].cur
    <2>t. todo \subseteq Leases
        BY DEF IInv, Types, KeeperRecords
    <2>1. keeper[k].at = "unlink" => NoOpen(cur)' /\ ~Live(cur[2])'
        BY <1>i, <1>2, NoOpenKept DEF Dooms, KeeperShape, Live
    <2>2. ASSUME keeper[k].at = "erase" PROVE NoOpen(cur)'
        <3>1. NoOpen(cur) /\ cur \in Leases /\ \E i \in Inodes : <<cur, i>> \in keeper[k].exc
            BY <1>i, <2>2 DEF Dooms, KeeperShape
        <3> QED
            BY <1>2, <3>1, NoOpenKept
    <2>3. ASSUME keeper[k].op # "rebuild", keeper[k].at \in {"remove", "drop", "unlink"},
                 NEW l \in todo
          PROVE  NoOpen(l)'
        <3>1. NoOpen(l) /\ l \in Leases /\ keeper[k].op \in {"delete", "purge"}
            BY <1>i, <2>3, <2>t DEF Dooms, KeeperShape
        <3>2. ~Live(l[2]) \/ \E i \in Inodes : <<l, i>> \in keeper[k].exc
            BY <1>i, <2>3, <3>1 DEF Dooms, Is
        <3> QED
            BY <3>1, <3>2, NoOpenKept
    <2>4. \A l : Live(l[2])' <=> Live(l[2])
        BY <1>2 DEF Live
    <2> QED
        BY <1>i, <1>2, <2>1, <2>2, <2>3, <2>4 DEF Dooms, Is
<1>7. Moves(k)'
    <2> SUFFICES ASSUME Is(k, "transition", {"move"})
                 PROVE  Moves(k)'
        BY <1>2 DEF Moves, Is
    <2>1. /\ \A q \in Readers : reader[q].at \notin Open
          /\ \A n \in Namespaces : \A g \in root[n].gens :
                \E i \in Inodes : <<<<n, g>>, i>> \in keeper[k].exc
        BY <1>i DEF Moves
    <2>2. ~Enters(r, s)
        <3> SUFFICES ASSUME Enters(r, s) PROVE FALSE
            OBVIOUS
        <3>1. reader[r].pub.gen \in root[reader[r].ns].gens /\ reader[r].ns \in Namespaces
            BY DEF Enters, IInv, Types, ReaderRecords
        <3>2. \E i \in Inodes : <<LeaseOf(r), i>> \in keeper[k].exc
            BY <2>1, <3>1 DEF LeaseOf
        <3> QED
            BY <3>2, NoEntry
    <2>3. s.at \notin Open
        BY <1>1, <2>2
           DEF ReaderKind, Forgets, Selects, Takes, Locks, Aware, Held, Leased, Open
    <2>4. \A q \in Readers : reader'[q].at \notin Open
        BY <1>1, <2>1, <2>3, ReaderFacts
    <2> QED
        BY <1>2, <2>1, <2>4 DEF Moves
<1> QED
    BY <1>4, <1>5, <1>6, <1>7

(***************************************************************************)
(* Steps of a keeper: leases, births and open generations.                 *)
(***************************************************************************)

\* A lease that is tried and found idle has no shared holder on the file that
\* is opened.
LEMMA IdleLease ==
    ASSUME IInv, NEW l \in Leases, Idle(l, file[l]) \/ Idle(l, Opened(l)),
           NEW r \in Readers, reader[r].at \in Leased
    PROVE  <<LeaseOf(r), reader[r].ino>> # <<l, Opened(l)>>
<1> SUFFICES ASSUME LeaseOf(r) = l, reader[r].ino = Opened(l) PROVE FALSE
    OBVIOUS
<1>1. Opened(l) \in Inodes /\ Opened(l) # 0 /\ file[l] # 0 /\ Opened(l) = file[l]
    BY OpenedFile, InodeCount DEF IInv
<1>2. r \in Shared(l, Opened(l))
    BY <1>1 DEF Shared, Handles
<1> QED
    BY <1>1, <1>2 DEF Idle

\* A lease whose file is found idle has no open reader.
LEMMA IdleIsClosed ==
    ASSUME IInv, NEW l \in Leases, Idle(l, file[l]) \/ Idle(l, Opened(l))
    PROVE  NoOpen(l)
<1> SUFFICES ASSUME NEW r \in Readers, reader[r].at \in Open, LeaseOf(r) = l PROVE FALSE
    BY DEF NoOpen
<1>1. file[l] = reader[r].ino /\ reader[r].ino # 0 /\ reader[r].at \in Leased
    BY ReaderFacts DEF IInv, Opens, Open, Leased, Held
<1>2. Opened(l) = file[l]
    BY <1>1 DEF Opened
<1> QED
    BY <1>1, <1>2, IdleLease

\* The lists of k: what it will look at is born, what it has locked anew is
\* the file that has the name, and no reader has it.
Fresh(e) ==
    /\ e[1] \in Leases /\ e[1][2] \in Born /\ e[2] = file'[e[1]]
    /\ \A r \in Readers : reader[r].at \in Leased => <<LeaseOf(r), reader[r].ino>> # e

\* Leases that were all found idle are fresh in the hand of who takes them.
LEMMA FreshAll ==
    ASSUME IInv, NEW S \in SUBSET Leases, file' = OpenedAll(S),
           \A l \in S : Idle(l, file[l]) /\ l[2] \in Born,
           NEW e \in {<<l, OpenedAll(S)[l]>> : l \in S}
    PROVE  Fresh(e) /\ e[1] \in S
<1>1. PICK l \in S : e = <<l, OpenedAll(S)[l]>>
    OBVIOUS
<1>2. OpenedAll(S)[l] = Opened(l) /\ l \in Leases
    BY DEF OpenedAll
<1>3. e[1] = l /\ e[2] = file'[l]
    BY <1>1
<1> QED
    BY <1>1, <1>2, <1>3, IdleLease DEF Fresh

\* The leases of a removal are those of known generations.
LEMMA DoomedLeases ==
    ASSUME IInv, NEW k \in Keepers, keeper[k].at = "leases"
    PROVE  Doomed(k) \in SUBSET Leases /\ \A l \in Doomed(k) : l[2] \in Born
<1>t. keeper[k].ns \in Namespaces /\ aside \subseteq Asides
      /\ \A n \in Namespaces : root[n].gens \subseteq Gens /\ root[n].gens \subseteq Born
    BY DEF IInv, Types, KeeperRecords, Roots, Births
<1>1. CASE keeper[k].op = "purge"
    <2>1. Doomed(k) = {<<a.ns, g>> : a \in aside \cap {keeper[k].dir}, g \in keeper[k].dir.gens}
        BY <1>1 DEF Doomed
    <2>2. \A a \in aside \cap {keeper[k].dir} : \A g \in keeper[k].dir.gens :
             a.ns \in Namespaces /\ g \in Gens /\ g \in Born
        BY <1>t DEF Asides, IInv, Births
    <2> QED
        BY <2>1, <2>2 DEF Leases
<1>2. CASE keeper[k].op # "purge"
    <2>1. Doomed(k) = {<<keeper[k].ns, g>> : g \in root[keeper[k].ns].gens}
        BY <1>2 DEF Doomed
    <2> QED
        BY <1>t, <2>1 DEF Leases
<1> QED
    BY <1>1, <1>2

\* A transition knows every generation that has a directory.
LEMMA KnownLeases ==
    ASSUME IInv
    PROVE  /\ Namespaces \X Known \in SUBSET Leases /\ Known \subseteq Born
           /\ \A n \in Namespaces : root[n].gens \subseteq Known
           /\ \A a \in aside : a.gens \subseteq Known
<1>1. Known \subseteq Born
    <2>1. \A l \in Listed : l[2] \in Born
        BY DEF IInv, Listed, Births
    <2>2. \A a \in aside : a.gens \subseteq Born
        BY DEF IInv, Births
    <2>3. root["legacy"].gens \subseteq Born /\ root["stable"].gens \subseteq Born
        BY DEF IInv, Births, Namespaces
    <2> QED
        BY <2>1, <2>2, <2>3 DEF Known
<1>2. Born \subseteq Gens
    BY DEF Born, IInv, Types
<1>3. Namespaces \X Known \in SUBSET Leases
    BY <1>1, <1>2 DEF Leases
<1>4. /\ \A n \in Namespaces : root[n].gens \subseteq Known
      /\ \A a \in aside : a.gens \subseteq Known
    BY DEF Known, Namespaces
<1> QED
    BY <1>1, <1>3, <1>4

\* The lists and exclusive locks of a keeper are of known generations.
LEMMA OwnLists ==
    ASSUME IInv, NEW k \in Keepers, KeeperNext(k)
    PROVE  /\ \A l \in keeper'[k].todo : l[2] \in Born
           /\ \A e \in keeper'[k].exc : e \in keeper[k].exc \/ Fresh(e)
           /\ \A d, e \in keeper'[k].exc : d[1] = e[1] => d = e
           /\ keeper'[k].at \in {"unlink", "erase"} => keeper'[k].cur[2] \in Born
<1>0. OwnEffect(k)
    BY OwnEffects DEF IInv
<1>t. /\ \A l \in keeper[k].todo : l \in Leases /\ l[2] \in Born
      /\ \A d, e \in keeper[k].exc : d[1] = e[1] => d = e
      /\ \A l \in Listed : l[2] \in Born
      /\ \A n \in Namespaces : root[n].gens \subseteq Born
      /\ keeper[k].ns \in Namespaces
    BY DEF IInv, Types, KeeperRecords, Births, Excludes, Listed
<1> USE DEF Fewer, SameLists
<1>1. CASE Rests(k) \/ BeginsPurge(k)
    BY <1>t, <1>1 DEF Rests, BeginsPurge
<1>2. CASE Builds(k) \/ Promoted(k) \/ Published(k) \/ RetiresOn(k)
    BY <1>t, <1>2 DEF Builds, Promoted, Published, RetiresOn, Candidate
<1>3. CASE SweepsOn(k) \/ Picks(k)
    BY <1>t, <1>3 DEF SweepsOn, Picks
<1>4. CASE Reclaims(k)
    BY <1>t, <1>4 DEF Reclaims
<1>5. CASE Pins(k)
    <2> DEFINE l == keeper'[k].cur
    <2>1. /\ l \in Leases /\ l[2] \in Born /\ Idle(l, Opened(l))
          /\ file' = [file EXCEPT ![l] = Opened(l)]
          /\ keeper'[k].exc = {<<l, Opened(l)>>} /\ keeper'[k].todo = keeper[k].todo
        BY <1>t, <1>5 DEF Pins
    <2>2. file'[l] = Opened(l)
        BY <2>1 DEF IInv, Types
    <2>3. Fresh(<<l, Opened(l)>>)
        BY <2>1, <2>2, IdleLease DEF Fresh
    <2> QED
        BY <1>t, <2>1, <2>3
<1>6. CASE PinsAll(k)
    <2> DEFINE S == Doomed(k)
    <2>1. S \in SUBSET Leases /\ \A l \in S : l[2] \in Born
        BY <1>6, DoomedLeases DEF PinsAll
    <2>2. /\ file' = OpenedAll(S) /\ (\A l \in S : Idle(l, file[l])) /\ keeper'[k].todo = S
          /\ keeper'[k].exc = {<<l, OpenedAll(S)[l]>> : l \in S} /\ keeper'[k].at = "remove"
        BY <1>6 DEF PinsAll
    <2> HIDE DEF S
    <2>3. \A e \in keeper'[k].exc : Fresh(e)
        BY <2>1, <2>2, FreshAll
    <2>4. \A d, e \in keeper'[k].exc : d[1] = e[1] => d = e
        BY <2>2
    <2> QED
        BY <2>1, <2>2, <2>3, <2>4
<1>7. CASE Removes(k) \/ Frees(k) \/ Drops(k) \/ MovesOn(k)
    BY <1>t, <1>7 DEF Removes, Frees, Drops, MovesOn, Is
<1>8. CASE Clears(k)
    <2> DEFINE S == Namespaces \X Known
    <2>1. S \in SUBSET Leases /\ \A l \in S : l[2] \in Born
        BY KnownLeases
    <2>2. /\ file' = OpenedAll(S) /\ (\A l \in S : Idle(l, file[l]))
          /\ keeper'[k].todo = keeper[k].todo
          /\ keeper'[k].exc = {<<l, OpenedAll(S)[l]>> : l \in S} /\ keeper'[k].at = "move"
        BY <1>8 DEF Clears
    <2> HIDE DEF S
    <2>3. \A e \in keeper'[k].exc : Fresh(e)
        BY <2>1, <2>2, FreshAll
    <2>4. \A d, e \in keeper'[k].exc : d[1] = e[1] => d = e
        BY <2>2
    <2> QED
        BY <1>t, <2>2, <2>3, <2>4
<1> QED
    BY <1>0, <1>1, <1>2, <1>3, <1>4, <1>5, <1>6, <1>7, <1>8 DEF OwnEffect

\* A name is unbound only when its generation is gone and nobody is in it.
LEMMA KeeperFile ==
    ASSUME IInv, NEW k \in Keepers, KeeperNext(k), NEW l \in Leases
    PROVE  /\ file[l] # 0 /\ (Live(l[2]) \/ ~NoOpen(l)) => file'[l] = file[l]
           /\ file'[l] # 0 => l[2] \in Born
<1>0. file' = file \/ Unlink(k) \/ Binds
    BY FileKinds DEF IInv
<1>t. file \in [Leases -> Inodes \cup {0}] /\ (file[l] # 0 => l[2] \in Born)
    BY DEF IInv, Types, Births
<1>1. CASE Unlink(k)
    <2>1. keeper[k].at = "unlink" /\ file' = [file EXCEPT ![keeper[k].cur] = 0]
        BY <1>1 DEF Unlink
    <2>2. NoOpen(keeper[k].cur) /\ ~Live(keeper[k].cur[2])
        BY <2>1 DEF IInv, Dooms
    <2> QED
        BY <1>t, <2>1, <2>2
<1>2. CASE Binds
    <2>1. PICK S \in SUBSET Leases : file' = OpenedAll(S) /\ \A m \in S : m[2] \in Born
        BY <1>2 DEF Binds
    <2>2. file'[l] = IF l \in S THEN Opened(l) ELSE file[l]
        BY <2>1 DEF OpenedAll
    <2>3. file[l] # 0 => Opened(l) = file[l]
        BY DEF Opened
    <2> QED
        BY <1>t, <2>1, <2>2, <2>3
<1> QED
    BY <1>0, <1>t, <1>1, <1>2

\* A step of a keeper keeps locks on the files that have the names.
LEMMA LeaseSteps ==
    ASSUME IInv, NEW k \in Keepers, KeeperNext(k)
    PROVE  Links' /\ Excludes'
<1>l. reader' = reader /\ \A j \in Keepers : j # k => keeper'[j] = keeper[j]
    BY KeeperLeaves DEF IInv, Leaves
<1>r. \A r \in Readers : LeaseOf(r)' = LeaseOf(r)
    BY <1>l DEF LeaseOf
<1>e. ASSUME NEW j \in Keepers, NEW e \in keeper'[j].exc
      PROVE  e \in keeper[j].exc \/ Fresh(e)
    BY <1>e, <1>l, OwnLists
<1>1. ASSUME NEW r \in Readers, reader[r].at \in Held, Live(reader[r].pub.gen)'
      PROVE  file'[LeaseOf(r)] = reader[r].ino
    <2>1. reader[r].pub.gen \in Born
        BY <1>1 DEF IInv, Births, Aware
    <2>2. Live(reader[r].pub.gen)
        <3>1. \A g \in Born : (\E n \in Namespaces : g \in root'[n].gens) => Live(g)
            BY LiveShrinks DEF Live
        <3> QED
            BY <1>1, <1>l, <2>1, <3>1 DEF Live
    <2>3. file[LeaseOf(r)] = reader[r].ino /\ LeaseOf(r) \in Leases /\ reader[r].ino # 0
        BY <1>1, <2>2, ReaderFacts DEF IInv, Links, Aware
    <2>4. LeaseOf(r)[2] = reader[r].pub.gen
        BY DEF LeaseOf
    <2> QED
        BY <2>2, <2>3, <2>4, KeeperFile
<1>2. ASSUME NEW j \in Keepers, NEW e \in keeper'[j].exc, Live(e[1][2])'
      PROVE  file'[e[1]] = e[2]
    <2>1. CASE Fresh(e)
        BY <2>1 DEF Fresh
    <2>2. CASE e \in keeper[j].exc
        <3>1. e[1] \in Leases /\ e[2] \in Inodes /\ e[2] # 0 /\ e[1][2] \in Born
            BY <2>2, InodeCount DEF IInv, Types, KeeperRecords, Births
        <3>2. Live(e[1][2])
            BY <1>2, <3>1, LiveShrinks
        <3>3. file[e[1]] = e[2]
            BY <2>2, <3>2 DEF IInv, Links
        <3> QED
            BY <3>1, <3>2, <3>3, KeeperFile
    <2> QED
        BY <1>e, <2>1, <2>2
<1>3. Links'
    BY <1>1, <1>2, <1>l, <1>r DEF Links
<1>4. ASSUME NEW r \in Readers, NEW j \in Keepers, reader[r].at \in Leased
      PROVE  <<LeaseOf(r), reader[r].ino>> \notin keeper'[j].exc
    BY <1>4, <1>e DEF IInv, Excludes, Fresh
<1>5. ASSUME NEW j \in Keepers, NEW d \in keeper'[j].exc, NEW e \in keeper'[j].exc, d[1] = e[1]
      PROVE  d = e
    <2>1. CASE j = k
        BY <1>5, <2>1, OwnLists
    <2>2. CASE j # k
        BY <1>5, <1>l, <2>2 DEF IInv, Excludes
    <2> QED
        BY <2>1, <2>2
<1>6. Excludes'
    BY <1>4, <1>5, <1>l, <1>r DEF Excludes
<1> QED
    BY <1>3, <1>6

\* After a step of a keeper nobody but its rebuild knows of a candidate.
LEMMA BirthsStep ==
    ASSUME IInv, NEW k \in Keepers, KeeperNext(k)
    PROVE  Births'
<1>l. reader' = reader /\ \A j \in Keepers : j # k => keeper'[j] = keeper[j]
    BY KeeperLeaves DEF IInv, Leaves
<1>b. Births /\ Born \subseteq Born'
    BY BornGrows DEF IInv
<1>c. Cands(k)
    BY OwnStep DEF IInv
<1>u. used \subseteq used'
    BY <1>c DEF Cands
<1>p. ASSUME Promotes(k) PROVE keeper[k].gen \in Born'
    <2>1. Is(k, "rebuild", {"promote"})
        BY <1>p DEF Promotes
    <2>2. ~Is(k, "rebuild", Candidate)'
        <3>1. OwnEffect(k)
            BY OwnEffects DEF IInv
        <3> QED
            BY <2>1, <3>1
               DEF OwnEffect, Rests, BeginsPurge, Builds, Promoted, Published, RetiresOn, SweepsOn,
                   Picks, Reclaims, Pins, PinsAll, Removes, Frees, Drops, Clears, MovesOn, Is,
                   Candidate, Sweeping, Deletes, Discards
    <2>3. keeper[k].gen \in used'
        BY <1>b, <1>u, <2>1 DEF Births, Is, Candidate
    <2>4. ASSUME NEW j \in Keepers, Is(j, "rebuild", Candidate)'
          PROVE  keeper'[j].gen # keeper[k].gen
        <3>1. j # k
            BY <2>2, <2>4
        <3> QED
            BY <1>b, <1>l, <2>1, <2>4, <3>1 DEF Births, Is, Candidate
    <2> QED
        BY <2>3, <2>4 DEF Born
<1>1. ASSUME NEW n \in Namespaces, NEW g \in root'[n].gens PROVE g \in Born'
    BY <1>1, <1>b, <1>p, GensShrink DEF Births, Namespaces
<1>2. ASSUME NEW a \in aside' PROVE a.gens \subseteq Born'
    <2>1. RootEffect(k) /\ keeper[k].ns \in Namespaces
        BY Effects
    <2>2. CASE a \in aside
        BY <1>b, <2>2 DEF Births
    <2>3. CASE SetsAside(k) /\ a \notin aside
        BY <1>2, <1>b, <2>1, <2>3 DEF SetsAside, Births
    <2>4. CASE MovesAside(k) /\ a \notin aside
        BY <1>2, <1>b, <2>4 DEF MovesAside, Births
    <2>5. CASE ~SetsAside(k) /\ ~MovesAside(k)
        <3>1. a \in aside
            BY <1>2, <2>1, <2>5 DEF RootEffect, Prepares, Promotes, Publishes, Retires, Erases,
                                    Deletes, Discards, MovesRoot
        <3> QED
            BY <2>2, <3>1
    <2> QED
        BY <2>2, <2>3, <2>4, <2>5
<1>3. \A l \in Leases : file'[l] # 0 => l[2] \in Born'
    BY <1>b, KeeperFile
<1>4. \A r \in Readers : reader'[r].at \in Aware => reader'[r].pub.gen \in Born'
    BY <1>b, <1>l DEF Births
<1>5. ASSUME NEW j \in Keepers
      PROVE  /\ Is(j, "rebuild", Candidate)' => keeper'[j].gen \in used'
             /\ \A l \in keeper'[j].todo : l[2] \in Born'
             /\ \A e \in keeper'[j].exc : e[1][2] \in Born'
             /\ keeper'[j].at \in {"unlink", "erase"} => keeper'[j].cur[2] \in Born'
    <2>1. CASE j # k
        BY <1>b, <1>l, <1>u, <2>1 DEF Births, Is
    <2>2. CASE j = k
        <3>1. Is(k, "rebuild", Candidate)' => keeper'[k].gen \in used'
            BY <1>b, <1>c DEF Cands, Births
        <3>2. /\ \A l \in keeper'[k].todo : l[2] \in Born
              /\ keeper'[k].at \in {"unlink", "erase"} => keeper'[k].cur[2] \in Born
              /\ \A e \in keeper'[k].exc : e[1][2] \in Born
            BY <1>b, OwnLists DEF Births, Fresh
        <3> QED
            BY <1>b, <2>2, <3>1, <3>2
    <2> QED
        BY <2>1, <2>2
<1>6. ASSUME NEW i \in Keepers, NEW j \in Keepers, i # j,
             Is(i, "rebuild", Candidate)', Is(j, "rebuild", Candidate)'
      PROVE  keeper'[i].gen # keeper'[j].gen
    <2>1. ASSUME NEW m \in Keepers, m # k,
                 Is(k, "rebuild", Candidate)', Is(m, "rebuild", Candidate)'
          PROVE  keeper'[m].gen # keeper'[k].gen
        <3>1. keeper'[m] = keeper[m] /\ Is(m, "rebuild", Candidate) /\ keeper[m].gen \in used
            BY <1>b, <1>l, <2>1 DEF Births, Is
        <3> QED
            BY <1>b, <1>c, <2>1, <3>1 DEF Births, Cands
    <2>2. CASE i # k /\ j # k
        BY <1>b, <1>l, <1>6, <2>2 DEF Births, Is
    <2> QED
        BY <1>6, <2>1, <2>2
<1> QED
    BY <1>1, <1>2, <1>3, <1>4, <1>5, <1>6 DEF Births

\* What is taken away has nobody in it.
LEMMA OpensStep ==
    ASSUME IInv, NEW k \in Keepers, KeeperNext(k)
    PROVE  Opens'
<1>l. reader' = reader
    BY KeeperLeaves DEF IInv, Leaves
<1>k. KeeperShape(k) /\ Dooms(k) /\ Purges(k) /\ Moves(k) /\ RootEffect(k)
      /\ keeper[k].ns \in Namespaces
    BY Effects DEF IInv
<1> SUFFICES ASSUME NEW r \in Readers, reader[r].at \in Open
             PROVE  /\ file'[LeaseOf(r)] = reader[r].ino
                    /\ Stored(reader[r].ns, reader[r].pub.gen)'
    BY <1>l DEF Opens, LeaseOf
<1> DEFINE m == reader[r].ns
           g == reader[r].pub.gen
<1>1. /\ LeaseOf(r) = <<m, g>> /\ LeaseOf(r) \in Leases /\ ~NoOpen(LeaseOf(r))
      /\ file[LeaseOf(r)] = reader[r].ino /\ reader[r].ino # 0 /\ Stored(m, g)
      /\ m \in Namespaces
    BY ReaderFacts DEF LeaseOf, NoOpen, IInv, Opens, Open, Aware, Held, Types, ReaderRecords
<1>2. file'[LeaseOf(r)] = reader[r].ino
    BY <1>1, KeeperFile
<1>3. g \in root'[m].gens \/ \E a \in aside' : a.ns = m /\ g \in a.gens
    <2> USE DEF Others, Is
    <2>s. g \in root[m].gens \/ \E a \in aside : a.ns = m /\ g \in a.gens
        BY <1>1 DEF Stored
    <2> HIDE DEF m, g
    <2>1. CASE UNCHANGED <<root, aside>> \/ Prepares(k) \/ Promotes(k) \/ Publishes(k) \/ Retires(k)
        <3>1. aside' = aside /\ root[m].gens \subseteq root'[m].gens
            BY <1>1, <2>1 DEF Prepares, Promotes, Publishes, Retires
        <3> QED
            BY <2>s, <3>1
    <2>2. CASE Erases(k)
        <3>1. keeper[k].at = "erase" /\ aside' = aside
            BY <2>2 DEF Erases
        <3>2. /\ NoOpen(keeper[k].cur) /\ keeper[k].cur[1] = keeper[k].ns
              /\ keeper[k].cur \in Leases
            BY <1>k, <3>1 DEF Dooms, KeeperShape
        <3>3. ~(m = keeper[k].ns /\ g = keeper[k].cur[2])
            BY <1>1, <3>2 DEF Leases
        <3>4. g \in root[m].gens => g \in root'[m].gens
            BY <1>1, <2>2, <3>3 DEF Erases
        <3> QED
            BY <2>s, <3>1, <3>4
    <2>3. CASE SetsAside(k)
        <3>1. PICK b \in Asides : /\ b.ns = keeper[k].ns /\ b.gens = root[keeper[k].ns].gens
                                  /\ aside' = aside \cup {b}
            BY <2>3 DEF SetsAside
        <3>2. m # keeper[k].ns => root'[m] = root[m]
            BY <1>1, <2>3 DEF SetsAside
        <3> QED
            BY <2>s, <3>1, <3>2
    <2>4. CASE Deletes(k)
        <3>1. \A h \in root[keeper[k].ns].gens : NoOpen(<<keeper[k].ns, h>>)
            BY <1>k, <2>4 DEF Deletes, Dooms
        <3>2. aside' = aside /\ (m # keeper[k].ns => root'[m] = root[m])
            BY <1>1, <2>4 DEF Deletes
        <3> QED
            BY <1>1, <2>s, <3>1, <3>2
    <2>5. CASE Discards(k)
        <3>1. keeper[k].dir \in aside =>
                 \A h \in keeper[k].dir.gens : NoOpen(<<keeper[k].dir.ns, h>>)
            BY <1>k, <2>5 DEF Discards, Dooms, Purges
        <3>2. root' = root /\ aside' = aside \ {keeper[k].dir}
            BY <2>5 DEF Discards
        <3> QED
            BY <1>1, <2>s, <3>1, <3>2
    <2>6. CASE MovesAside(k) \/ MovesRoot(k)
        BY <1>k, <2>6 DEF MovesAside, MovesRoot, Moves
    <2> QED
        BY <1>k, <2>1, <2>2, <2>3, <2>4, <2>5, <2>6 DEF RootEffect
<1> QED
    BY <1>l, <1>2, <1>3 DEF Stored

\* A step of one operation disturbs no other operation.
LEMMA OtherOperations ==
    ASSUME IInv, NEW k \in Keepers, KeeperNext(k), NEW j \in Keepers, j # k
    PROVE  Rebuilds(j)' /\ Dooms(j)' /\ Purges(j)' /\ Moves(j)'
<1>l. reader' = reader /\ keeper'[j] = keeper[j]
    BY KeeperLeaves DEF IInv, Leaves
<1>i. /\ KeeperShape(j) /\ Guarded(j) /\ Rebuilds(j) /\ Dooms(j) /\ Purges(j) /\ Moves(j)
      /\ keeper[j].ns \in Namespaces /\ Other(keeper[j].ns) \in Namespaces
      /\ keeper[j].todo \subseteq Leases
    BY DEF IInv, Types, KeeperRecords, Other, Namespaces
<1>n. \A l : NoOpen(l) => NoOpen(l)'
    BY <1>l DEF NoOpen, LeaseOf
<1>v. \A g \in Born : ~Live(g) => ~Live(g)'
    BY LiveShrinks
<1>b. Born \subseteq Born'
    BY BornGrows
<1> USE NoRootIsEmpty
<1>1. Rebuilds(j)'
    <2> DEFINE n == keeper[j].ns
    <2>1. CASE keeper[j].op # "rebuild" \/ keeper[j].at \notin Building
        BY <1>l, <2>1 DEF Rebuilds, Is, Candidate, Building, Final, Sweeping
    <2>2. CASE keeper[j].op = "rebuild" /\ keeper[j].at \in Building
        <3>1. root'[n] = root[n] \/ root'[n] = NoRoot
            BY <1>i, <2>2, OthersRoot DEF Guarded, Is
        <3>2. Is(j, "rebuild", Final) => root'[Other(n)].gens \subseteq root[Other(n)].gens
            BY <1>i, <2>2, OthersGens DEF Guarded, Is
        <3>3. Own(j)' = Own(j) /\ keeper'[j].ns = n
            BY <1>l DEF Own
        <3>4. /\ root'[n].pubs \subseteq root[n].pubs
              /\ root'[n].pubs # {} => root'[n].pubs = root[n].pubs
              /\ root'[n].whole => root[n].whole /\ root'[n] = root[n]
            BY <3>1
        <3> HIDE DEF n
        <3>5. Other(n)' = Other(n)
            BY <3>3 DEF Other, n
        <3> QED
            BY <1>i, <1>l, <3>2, <3>3, <3>4 DEF Rebuilds, Is, Final, Sweeping, n, Other
    <2> QED
        BY <2>1, <2>2
<1>2. Dooms(j)'
    <2> DEFINE n == keeper[j].ns
               todo == keeper[j].todo
               cur == keeper[j].cur
    <2>t. /\ \A l \in todo : l[2] \in Born
          /\ keeper[j].at \in {"unlink", "erase"} => cur[2] \in Born
        BY DEF IInv, Births
    <2>1. keeper[j].at = "unlink" => NoOpen(cur)' /\ ~Live(cur[2])'
        BY <1>i, <1>l, <1>n, <1>v, <2>t DEF Dooms
    <2>2. keeper[j].at = "erase" => NoOpen(cur)'
        BY <1>i, <1>l, <1>n DEF Dooms
    <2>3. keeper[j].op # "rebuild" /\ keeper[j].at \in {"remove", "drop", "unlink"} =>
             \A l \in todo : NoOpen(l)'
        BY <1>i, <1>n DEF Dooms
    <2>4. Is(j, "delete", {"drop", "unlink"}) \/ Is(j, "purge", {"remove", "drop", "unlink"}) =>
             \A l \in todo : ~Live(l[2])'
        BY <1>i, <1>v, <2>t DEF Dooms
    <2>5. ASSUME Is(j, "delete", {"remove"})
          PROVE  /\ \A l \in todo : l[2] \notin root'[Other(n)].gens
                 /\ \A g \in root'[n].gens : <<n, g>> \in todo
        <3>1. rlock[n] = j
            BY <1>i, <2>5 DEF Guarded, Is, Removing
        <3>2. root'[n] = root[n] \/ root'[n] = NoRoot
            BY <1>i, <3>1, OthersRoot
        <3>3. ~MovesRoot(k)
            BY <1>i, <3>1 DEF MovesRoot, IInv, Guarded, Is
        <3>4. ASSUME NEW l \in todo, l[2] \in root'[Other(n)].gens PROVE FALSE
            <4>1. l[2] \in Born /\ l[2] \notin root[Other(n)].gens
                BY <1>i, <2>5, <2>t, <3>4 DEF Dooms
            <4>2. Promotes(k) /\ l[2] = keeper[k].gen
                BY <1>i, <3>3, <3>4, <4>1, GensShrink
            <4> QED
                BY <4>1, <4>2, PromotedIsNew
        <3> QED
            BY <1>i, <2>5, <3>2, <3>4 DEF Dooms
    <2>6. Other(keeper'[j].ns) = Other(n)
        BY <1>l
    <2> QED
        BY <1>i, <1>l, <2>1, <2>2, <2>3, <2>4, <2>5, <2>6 DEF Dooms, Is
<1>3. Purges(j)'
    <2> DEFINE dir == keeper[j].dir
    <2> SUFFICES ASSUME Is(j, "purge", {"leases", "remove"}) PROVE Purges(j)'
        BY <1>l DEF Purges, Is
    <2>1. /\ dir \in Asides
          /\ \A g \in dir.gens : g \in Born /\ ~Live(g)
          /\ \A a \in aside : \/ a = dir
                              \/ a.gens \cap dir.gens = {}
                              \/ a.ns = "stable" /\ dir.ns = "legacy"
          /\ keeper[j].at = "remove" /\ dir \in aside =>
                \A g \in dir.gens : <<dir.ns, g>> \in keeper[j].todo
        BY <1>i DEF Purges, KeeperShape
    <2>2. \A g \in dir.gens : g \in Born' /\ ~Live(g)'
        BY <1>b, <1>v, <2>1
    <2>d. keeper'[j].dir = dir
        BY <1>l
    <2>3. ASSUME NEW a \in aside', a \notin aside
          PROVE  \/ a.gens \cap dir.gens = {}
                 \/ a # dir /\ a.ns = "stable" /\ dir.ns = "legacy"
        <3>0. RootEffect(k) /\ keeper[k].ns \in Namespaces
            BY Effects
        <3>1. CASE SetsAside(k)
            <4>1. a.gens = root[keeper[k].ns].gens
                BY <2>3, <3>1 DEF SetsAside
            <4> QED
                BY <2>1, <3>0, <4>1 DEF Live
        <3>2. CASE MovesAside(k)
            <4>1. PICK c \in aside : c.ns = "legacy" /\ a.ns = "stable" /\ a.gens = c.gens
                BY <2>3, <3>2 DEF MovesAside
            <4> QED
                BY <2>1, <4>1
        <3>3. CASE ~SetsAside(k) /\ ~MovesAside(k)
            BY <2>3, <3>0, <3>3 DEF RootEffect, Prepares, Promotes, Publishes, Retires, Erases,
                                    Deletes, Discards, MovesRoot
        <3> QED
            BY <3>1, <3>2, <3>3
    <2>4. \A a \in aside' : \/ a = dir
                            \/ a.gens \cap dir.gens = {}
                            \/ a.ns = "stable" /\ dir.ns = "legacy"
        BY <2>1, <2>3
    <2>5. keeper[j].at = "remove" /\ dir \in aside' =>
             \A g \in dir.gens : <<dir.ns, g>> \in keeper[j].todo
        BY <2>1, <2>3
    <2> HIDE DEF dir
    <2> QED
        BY <1>l, <2>2, <2>4, <2>5, <2>d DEF Purges
<1>4. Moves(j)'
    <2> SUFFICES ASSUME Is(j, "transition", {"move"}) PROVE Moves(j)'
        BY <1>l DEF Moves, Is
    <2>1. \A n \in Namespaces : root'[n] = root[n] \/ root'[n] = NoRoot
        BY <1>i, OthersRoot DEF Guarded, Is
    <2> QED
        BY <1>i, <1>l, <2>1 DEF Moves
<1> QED
    BY <1>1, <1>2, <1>3, <1>4

\* A step of a rebuild keeps what it knows of publications.
LEMMA OwnRebuilds ==
    ASSUME IInv, NEW k \in Keepers, KeeperNext(k)
    PROVE  Rebuilds(k)'
<1>0. OwnEffect(k) /\ RootEffect(k) /\ Rebuilds(k) /\ KeeperShape(k) /\ Places
    BY OwnEffects, Effects DEF IInv
<1> DEFINE n == keeper[k].ns
           m == Other(n)
<1>n. /\ n \in Namespaces /\ m \in Namespaces /\ m # n
      /\ \A x \in Namespaces : x # n => x = m
    BY DEF IInv, Types, KeeperRecords, Other, Namespaces
<1>k. ASSUME Keeps(k) PROVE Own(k)' = Own(k) /\ keeper'[k].ns = n /\ Other(keeper'[k].ns) = m
    BY <1>k DEF Keeps, Own
<1> USE DEF Is
<1>1. CASE Rests(k) \/ BeginsPurge(k)
    BY <1>1 DEF Rests, BeginsPurge, Rebuilds, Candidate, Final, Sweeping
<1>2. CASE Builds(k)
    <2>1. root'[n].pubs = root[n].pubs
        BY <1>0, <1>2 DEF Builds, RootEffect, Prepares, Promotes, Publishes, Retires, Erases,
                          SetsAside, Deletes, Discards, MovesAside, MovesRoot
    <2>2. /\ keeper'[k].op = "rebuild" /\ keeper'[k].at \in Candidate /\ keeper'[k].ns = n
          /\ \A p \in root[n].pubs : p.seq < keeper'[k].seq
        BY <1>0, <1>2 DEF Builds, Keeps, Rebuilds, Candidate
    <2>3. ASSUME keeper'[k].at \in {"await", "promote"}, root'[n].whole PROVE root'[m].gens = {}
        <3>1. root' = root
            BY <1>2, <2>3 DEF Builds
        <3>2. CASE keeper'[k].at = "await"
            <4>1. ~(root["stable"].there /\ root["legacy"].there)
                BY <1>2, <3>2 DEF Builds, Resolve
            <4>2. root[n].there
                BY <1>0, <1>n, <2>3, <3>1 DEF Places
            <4>3. ~root[m].there
                BY <4>1, <4>2, <1>n DEF Namespaces
            <4> QED
                BY <1>0, <1>n, <3>1, <4>3 DEF Places
        <3>3. CASE keeper'[k].at = "promote"
            BY <1>0, <1>2, <2>3, <3>1, <3>3 DEF Builds, Rebuilds
        <3> QED
            BY <2>3, <3>2, <3>3
    <2>4. Other(keeper'[k].ns) = m
        BY <2>2
    <2> HIDE DEF n, m
    <2> QED
        BY <2>1, <2>2, <2>3, <2>4 DEF Rebuilds, Candidate, Final, Sweeping
<1>3. CASE Promoted(k)
    <2>1. /\ Is(k, "rebuild", {"promote"}) /\ Others(n) /\ root[n].whole
          /\ root'[n].pubs = root[n].pubs /\ keeper[k].gen \in root'[n].gens
          /\ Keeps(k) /\ keeper'[k].at = "publish"
        BY <1>3 DEF Promoted, Promotes
    <2>2. (\A p \in root[n].pubs : p.seq < keeper[k].seq) /\ root[m].gens = {}
        BY <1>0, <2>1 DEF Rebuilds, Candidate
    <2>3. root'[m].gens = {}
        BY <1>n, <2>1, <2>2 DEF Others
    <2> HIDE DEF n, m
    <2> QED
        BY <1>k, <2>1, <2>2, <2>3 DEF Rebuilds, Keeps, Candidate, Final, Sweeping
<1>4. CASE Published(k)
    <2>1. /\ Is(k, "rebuild", {"publish"}) /\ Others(n)
          /\ root'[n].pubs = root[n].pubs \cup {Own(k)}
          /\ Keeps(k) /\ keeper'[k].at = "retire"
        BY <1>4 DEF Published, Publishes
    <2>2. (\A p \in root[n].pubs : p.seq < keeper[k].seq) /\ root[m].gens = {}
        BY <1>0, <2>1 DEF Rebuilds, Final
    <2>3. root'[m].gens = {}
        BY <1>n, <2>1, <2>2 DEF Others
    <2> HIDE DEF n, m
    <2> QED
        BY <1>k, <2>1, <2>2, <2>3 DEF Rebuilds, Keeps, Candidate, Final, Sweeping
<1>5. CASE RetiresOn(k)
    <2>1. Is(k, "rebuild", {"retire"}) /\ Keeps(k) /\ keeper'[k].at = "retire"
        BY <1>5 DEF RetiresOn
    <2>2. /\ \A p \in root[n].pubs : p.seq < keeper[k].seq \/ p = Own(k)
          /\ root[n].pubs # {} => Own(k) \in root[n].pubs
          /\ root[m].gens = {}
        BY <1>0, <2>1 DEF Rebuilds, Final
    <2>3. CASE UNCHANGED <<root, aside>> \/ Prepares(k)
        <3>1. root'[n].pubs = root[n].pubs /\ root'[m].gens = {}
            BY <1>n, <2>2, <2>3 DEF Prepares, Others
        <3> HIDE DEF n, m
        <3> QED
            BY <1>k, <2>1, <2>2, <3>1 DEF Rebuilds, Keeps, Candidate, Final, Sweeping
    <2>4. CASE Retires(k)
        <3>1. PICK p \in root[n].pubs : p.seq < keeper[k].seq /\ root'[n].pubs = root[n].pubs \ {p}
            BY <2>4 DEF Retires
        <3>2. Own(k) # p
            <4>1. Own(k).seq = keeper[k].seq /\ keeper[k].seq \in Nat
                BY DEF Own, IInv, Types, KeeperRecords
            <4> QED
                BY <3>1, <4>1
        <3>3. root'[m].gens = {}
            BY <1>n, <2>2, <2>4 DEF Retires, Others
        <3> HIDE DEF n, m
        <3> QED
            BY <1>k, <2>1, <2>2, <3>1, <3>2, <3>3 DEF Rebuilds, Keeps, Candidate, Final, Sweeping
    <2> QED
        BY <1>0, <2>1, <2>3, <2>4 DEF RootEffect, Promotes, Publishes, Erases, SetsAside, Deletes,
                                      Discards, MovesAside, MovesRoot
<1>6. CASE SweepsOn(k) \/ Picks(k) \/ Reclaims(k) \/ Pins(k)
    <2>1. /\ Is(k, "rebuild", {"retire"} \cup Sweeping) /\ Keeps(k) /\ keeper'[k].at \in Sweeping
          /\ keeper[k].at = "retire" => /\ \A p \in root[n].pubs : ~(p.seq < keeper[k].seq)
                                        /\ root' = root
        BY <1>6 DEF SweepsOn, Picks, Reclaims, Pins, Sweeping
    <2>2. root[m].gens = {}
        BY <1>0, <2>1 DEF Rebuilds, Final, Sweeping
    <2>3. root[n].pubs \subseteq {Own(k)}
        BY <1>0, <2>1 DEF Rebuilds
    <2>4. root'[n].pubs = root[n].pubs /\ root'[m].gens = {}
        <3>1. CASE UNCHANGED <<root, aside>> \/ Prepares(k) \/ Erases(k)
            BY <1>n, <2>2, <3>1 DEF Prepares, Erases, Others
        <3>2. CASE root' = root
            BY <2>2, <3>2
        <3> QED
            BY <1>0, <2>1, <3>1, <3>2
               DEF RootEffect, Promotes, Publishes, Retires, SetsAside, Deletes, Discards,
                   MovesAside, MovesRoot, Sweeping
    <2> HIDE DEF n, m
    <2> QED
        BY <1>k, <2>1, <2>3, <2>4 DEF Rebuilds, Keeps, Candidate, Final, Sweeping
<1>7. CASE PinsAll(k) \/ Removes(k) \/ Frees(k) \/ Drops(k) \/ Clears(k) \/ MovesOn(k)
    <2>1. keeper'[k].op # "rebuild"
        BY <1>7 DEF PinsAll, Removes, Deletes, Discards, Frees, Drops, Clears, MovesOn, Keeps
    <2> QED
        BY <2>1 DEF Rebuilds
<1> QED
    BY <1>0, <1>1, <1>2, <1>3, <1>4, <1>5, <1>6, <1>7 DEF OwnEffect

\* What a keeper comes to unlink, erase or remove has no reader.
LEMMA OwnDooms ==
    ASSUME IInv, NEW k \in Keepers, KeeperNext(k)
    PROVE  Dooms(k)'
<1>0. /\ OwnEffect(k) /\ RootEffect(k) /\ Rebuilds(k) /\ KeeperShape(k) /\ Dooms(k) /\ Purges(k)
      /\ Places
    BY OwnEffects, Effects DEF IInv
<1>t. /\ keeper[k].ns \in Namespaces /\ keeper[k].todo \subseteq Leases
      /\ \A x \in Namespaces : x = keeper[k].ns \/ x = Other(keeper[k].ns)
      /\ Other(keeper[k].ns) \in Namespaces /\ Other(keeper[k].ns) # keeper[k].ns
    BY DEF IInv, Types, KeeperRecords, Other, Namespaces
<1>n. \A l : NoOpen(l) => NoOpen(l)'
    BY KeeperLeaves DEF IInv, Leaves, NoOpen, LeaseOf
<1> USE DEF Is, Keeps, SameLists, Fewer
<1>1. CASE Rests(k) \/ BeginsPurge(k) \/ Builds(k) \/ Clears(k) \/ MovesOn(k)
    BY <1>1 DEF Rests, BeginsPurge, Builds, Clears, MovesOn, Dooms, Candidate
<1>2. CASE Promoted(k) \/ Published(k) \/ RetiresOn(k) \/ SweepsOn(k)
    BY <1>2 DEF Promoted, Published, RetiresOn, SweepsOn, Dooms
<1>3. CASE Picks(k)
    <2>1. PICK l \in keeper[k].todo :
             /\ l = keeper'[k].cur /\ l[2] \notin root[keeper[k].ns].gens /\ Idle(l, file[l])
        BY <1>3 DEF Picks
    <2>2. root[Other(keeper[k].ns)].gens = {}
        BY <1>0, <1>3 DEF Rebuilds, Picks, Final, Sweeping
    <2>3. ~Live(l[2])'
        BY <1>3, <1>t, <2>1, <2>2 DEF Live, Picks
    <2>4. NoOpen(l)'
        BY <1>n, <1>t, <2>1, IdleIsClosed
    <2>5. keeper'[k].at = "unlink" /\ keeper'[k].op = "rebuild"
        BY <1>3 DEF Picks
    <2> QED
        BY <2>1, <2>3, <2>4, <2>5 DEF Dooms
<1>4. CASE Reclaims(k)
    <2>1. \A l \in keeper'[k].todo : l[1] = keeper'[k].ns /\ l[2] # keeper'[k].gen
        BY <1>0, <1>4 DEF Reclaims, Dooms
    <2>2. keeper'[k].at = "reclaim"
        BY <1>4 DEF Reclaims
    <2> QED
        BY <2>1, <2>2 DEF Dooms
<1>5. CASE Pins(k)
    <2>1. PICK l \in keeper[k].todo :
             l = keeper'[k].cur /\ Idle(l, Opened(l)) /\ keeper'[k].exc = {<<l, Opened(l)>>}
        BY <1>5 DEF Pins
    <2>2. \A q \in keeper[k].todo : q[1] = keeper[k].ns /\ q[2] # keeper[k].gen
        BY <1>0, <1>5 DEF Pins, Dooms
    <2>3. NoOpen(l)'
        BY <1>n, <1>t, <2>1, IdleIsClosed
    <2>4. Opened(l) \in Inodes
        BY <1>t, <2>1, OpenedFile DEF IInv
    <2>5. /\ keeper'[k].at = "erase" /\ keeper'[k].op = "rebuild"
          /\ keeper'[k].ns = keeper[k].ns /\ keeper'[k].gen = keeper[k].gen
          /\ keeper'[k].todo = keeper[k].todo
        BY <1>5 DEF Pins
    <2> QED
        BY <2>1, <2>2, <2>3, <2>4, <2>5 DEF Dooms
<1>6. CASE PinsAll(k)
    <2> DEFINE S == Doomed(k)
    <2>1. /\ S \in SUBSET Leases /\ (\A l \in S : Idle(l, file[l])) /\ root' = root
          /\ keeper'[k].todo = S /\ keeper'[k].at = "remove"
          /\ keeper'[k].op = keeper[k].op /\ keeper'[k].ns = keeper[k].ns
          /\ keeper[k].op \in {"delete", "purge"} /\ keeper[k].at = "leases"
        BY <1>6, DoomedLeases DEF PinsAll
    <2>2. \A l \in S : NoOpen(l)'
        BY <1>n, <2>1, IdleIsClosed
    <2>3. \A l \in S : \E i \in Inodes : <<l, i>> \in keeper'[k].exc
        <3>1. \A l \in S : OpenedAll(S)[l] \in Inodes
            BY <2>1, OpenedFile DEF OpenedAll, IInv
        <3> QED
            BY <1>6, <3>1 DEF PinsAll
    <2>4. CASE keeper[k].op = "purge"
        <3>1. \A l \in S : l[2] \in keeper[k].dir.gens
            BY <2>4 DEF Doomed
        <3>2. \A l \in S : ~Live(l[2])'
            BY <1>0, <2>1, <2>4, <3>1 DEF Purges, Live
        <3> HIDE DEF S
        <3> QED
            BY <2>1, <2>2, <2>4, <3>2 DEF Dooms
    <2>5. CASE keeper[k].op = "delete"
        <3>1. /\ \A l \in S : l[1] = keeper[k].ns /\ l[2] \in root[keeper[k].ns].gens
              /\ \A g \in root[keeper[k].ns].gens : <<keeper[k].ns, g>> \in S
            BY <2>5 DEF Doomed
        <3>2. \A l \in S : l[2] \notin root[Other(keeper[k].ns)].gens
            BY <1>0, <1>t, <3>1 DEF Places
        <3>3. Other(keeper'[k].ns) = Other(keeper[k].ns)
            BY <2>1
        <3> HIDE DEF S
        <3> QED
            BY <2>1, <2>2, <2>3, <2>5, <3>1, <3>2, <3>3 DEF Dooms
    <2> QED
        BY <2>1, <2>4, <2>5
<1>7. CASE Removes(k)
    <2>1. /\ keeper'[k].at = "drop" /\ keeper'[k].todo = keeper[k].todo
          /\ keeper'[k].op = keeper[k].op /\ keeper[k].at = "remove"
          /\ keeper[k].op \in {"delete", "purge"}
        BY <1>7 DEF Removes, Deletes, Discards
    <2>2. \A l \in keeper[k].todo : NoOpen(l)'
        BY <1>0, <1>n, <2>1 DEF Dooms
    <2>3. CASE Discards(k)
        <3>1. \A l \in keeper[k].todo : ~Live(l[2])'
            BY <1>0, <2>3 DEF Discards, Dooms, Live
        <3> QED
            BY <2>1, <2>2, <3>1 DEF Dooms
    <2>4. CASE Deletes(k)
        <3>1. \A l \in keeper[k].todo : l[2] \notin root[Other(keeper[k].ns)].gens
            BY <1>0, <2>4 DEF Deletes, Dooms
        <3>2. /\ root'[keeper[k].ns].gens = {}
              /\ root'[Other(keeper[k].ns)] = root[Other(keeper[k].ns)]
            BY <1>t, <2>4, NoRootIsEmpty DEF Deletes, Others
        <3>3. \A l \in keeper[k].todo : ~Live(l[2])'
            BY <1>t, <3>1, <3>2 DEF Live
        <3> QED
            BY <2>1, <2>2, <3>3 DEF Dooms
    <2> QED
        BY <1>7, <2>3, <2>4 DEF Removes
<1>8. CASE Frees(k)
    <2>1. /\ keeper[k].at = "drop" /\ keeper[k].op \in {"delete", "purge"}
          /\ keeper'[k].op = keeper[k].op /\ keeper'[k].at = "unlink"
          /\ keeper'[k].cur \in keeper[k].todo /\ keeper'[k].todo = keeper[k].todo
        BY <1>8 DEF Frees
    <2>2. \A l \in keeper[k].todo : NoOpen(l)' /\ ~Live(l[2])'
        BY <1>0, <1>n, <1>8, <2>1 DEF Dooms, Live, Frees
    <2> QED
        BY <2>1, <2>2 DEF Dooms
<1>9. CASE Drops(k)
    <2>1. /\ keeper[k].at = "unlink" /\ keeper[k].op \in {"delete", "purge"}
          /\ keeper'[k].op = keeper[k].op /\ keeper'[k].at = "drop"
          /\ keeper'[k].todo \subseteq keeper[k].todo
        BY <1>9 DEF Drops
    <2>2. \A l \in keeper[k].todo : NoOpen(l)' /\ ~Live(l[2])'
        BY <1>0, <1>n, <1>9, <2>1 DEF Dooms, Live, Drops
    <2> QED
        BY <2>1, <2>2 DEF Dooms
<1> QED
    BY <1>0, <1>1, <1>2, <1>3, <1>4, <1>5, <1>6, <1>7, <1>8, <1>9 DEF OwnEffect

\* What a purge knows of the root it is to delete.
LEMMA OwnPurges ==
    ASSUME IInv, NEW k \in Keepers, KeeperNext(k)
    PROVE  Purges(k)'
<1>0. OwnEffect(k) /\ KeeperShape(k) /\ Purges(k) /\ Places /\ Births
    BY OwnEffects DEF IInv
<1>b. Born \subseteq Born'
    BY BornGrows
<1> USE DEF Is, Keeps
<1>1. CASE BeginsPurge(k)
    <2>1. PICK d \in aside : d = keeper'[k].dir
        BY <1>1 DEF BeginsPurge
    <2>2. UNCHANGED <<root, aside>> /\ keeper'[k].at = "leases"
        BY <1>1 DEF BeginsPurge
    <2>3. \A g \in d.gens : g \in Born' /\ ~Live(g)'
        BY <1>0, <1>b, <2>2 DEF Births, Places, Live
    <2>4. \A a \in aside' : a = d \/ a.gens \cap d.gens = {}
        BY <1>0, <2>2 DEF Places
    <2> QED
        BY <2>1, <2>2, <2>3, <2>4 DEF Purges
<1>2. CASE PinsAll(k)
    <2>1. /\ keeper'[k].dir = keeper[k].dir /\ UNCHANGED <<root, aside>>
          /\ keeper'[k].op = keeper[k].op /\ keeper[k].at = "leases"
          /\ keeper'[k].todo = Doomed(k)
        BY <1>2 DEF PinsAll
    <2>2. CASE keeper[k].op = "purge"
        <3>1. keeper[k].dir \in aside =>
                 \A g \in keeper[k].dir.gens : <<keeper[k].dir.ns, g>> \in Doomed(k)
            BY <2>2 DEF Doomed
        <3>2. \A g : Live(g)' <=> Live(g)
            BY <2>1 DEF Live
        <3> QED
            BY <1>0, <1>b, <2>1, <2>2, <3>1, <3>2 DEF Purges
    <2> QED
        BY <2>1, <2>2 DEF Purges
<1>3. CASE ~BeginsPurge(k) /\ ~PinsAll(k)
    <2>1. ~Is(k, "purge", {"leases", "remove"})'
        BY <1>0, <1>3 DEF OwnEffect, Rests, Builds, Promoted, Published, RetiresOn, SweepsOn, Picks,
                          Reclaims, Pins, Removes, Frees, Drops, Clears, MovesOn, Candidate
    <2> QED
        BY <2>1 DEF Purges
<1> QED
    BY <1>1, <1>2, <1>3

\* A transition that comes to move has every lease there is.
LEMMA OwnMoves ==
    ASSUME IInv, NEW k \in Keepers, KeeperNext(k)
    PROVE  Moves(k)'
<1>0. OwnEffect(k) /\ Moves(k)
    BY OwnEffects DEF IInv
<1>l. reader' = reader
    BY KeeperLeaves DEF IInv, Leaves
<1> USE DEF Is, Keeps
<1>1. CASE Clears(k)
    <2> DEFINE ls == Namespaces \X Known
    <2>1. /\ \A l \in ls : Idle(l, file[l])
          /\ keeper'[k].exc = {<<l, OpenedAll(ls)[l]>> : l \in ls} /\ root' = root
        BY <1>1 DEF Clears
    <2>2. ASSUME NEW r \in Readers, reader[r].at \in Open PROVE FALSE
        <3>1. /\ Stored(reader[r].ns, reader[r].pub.gen) /\ reader[r].ns \in Namespaces
              /\ LeaseOf(r) = <<reader[r].ns, reader[r].pub.gen>>
            BY <2>2 DEF IInv, Opens, Types, ReaderRecords, LeaseOf
        <3>2. reader[r].pub.gen \in Known
            BY <3>1, KnownLeases DEF Stored
        <3>3. LeaseOf(r) \in ls /\ LeaseOf(r) \in Leases
            BY <3>1, <3>2, KnownLeases
        <3>4. NoOpen(LeaseOf(r))
            BY <2>1, <3>3, IdleIsClosed
        <3> QED
            BY <2>2, <3>4 DEF NoOpen
    <2>3. ASSUME NEW n \in Namespaces, NEW g \in root[n].gens
          PROVE  \E i \in Inodes : <<<<n, g>>, i>> \in keeper'[k].exc
        <3> DEFINE l == <<n, g>>
        <3>1. l \in ls /\ l \in Leases
            BY <2>3, KnownLeases
        <3>2. OpenedAll(ls)[l] \in Inodes
            BY <3>1, OpenedFile DEF OpenedAll, IInv
        <3>3. <<l, OpenedAll(ls)[l]>> \in keeper'[k].exc
            BY <2>1, <3>1
        <3> QED
            BY <3>2, <3>3
    <2> QED
        BY <1>l, <2>1, <2>2, <2>3 DEF Moves
<1>2. CASE MovesOn(k)
    BY <1>0, <1>l, <1>2 DEF MovesOn, Moves
<1>3. CASE ~Clears(k) /\ ~MovesOn(k)
    <2>1. keeper'[k].at # "move"
        BY <1>0, <1>3 DEF OwnEffect, Rests, BeginsPurge, Builds, Promoted, Published, RetiresOn,
                          SweepsOn, Picks, Reclaims, Pins, PinsAll, Removes, Frees, Drops, Candidate
    <2> QED
        BY <2>1 DEF Moves
<1> QED
    BY <1>1, <1>2, <1>3

(***************************************************************************)
(* The invariant is inductive, and what follows from it.                   *)
(***************************************************************************)
LEMMA InitInv ==
    ASSUME Init
    PROVE  IInv
<1>k. keeper = [k \in Keepers |-> IdleKeeper] /\ reader = [r \in Readers |-> IdleReader]
    BY DEF Init
<1>f. file = [l \in Leases |-> 0] /\ aside = {}
    BY DEF Init
<1>1. \A k \in Keepers : keeper[k] = IdleKeeper
    BY <1>k
<1>2. \A r \in Readers : reader[r] = IdleReader
    BY <1>k
<1>3. /\ IdleKeeper.at = "idle" /\ IdleKeeper.todo = {} /\ IdleKeeper.exc = {}
      /\ IdleReader.at = "idle" /\ IdleKeeper.op = "rebuild"
    BY DEF IdleKeeper, IdleReader
<1>4. IdleReader \in ReaderRecords
    BY DEF IdleReader, ReaderRecords, ReaderSteps, Namespaces
<1> DEFINE first(g) == [there |-> TRUE, whole |-> TRUE, staged |-> {}, gens |-> {g},
                        pubs |-> {[seq |-> 1, gen |-> g]}]
<1>5. \A g \in Gens : /\ first(g) \in Roots /\ first(g).gens = {g} /\ first(g).whole
                      /\ first(g).there /\ first(g).pubs = {[seq |-> 1, gen |-> g]}
    BY DEF Roots, Publications
<1>6. NoRoot \in Roots /\ Whole(NoRoot)
    BY NoRootIsEmpty DEF NoRoot, Roots, Whole
<1>7. \A g \in Gens : Whole(first(g))
    <2> SUFFICES ASSUME NEW g \in Gens PROVE Whole(first(g))
        OBVIOUS
    <2> DEFINE p == [seq |-> 1, gen |-> g]
    <2>1. p.seq = 1 /\ p.gen = g /\ p.seq <= p.seq
        OBVIOUS
    <2>2. first(g).pubs = {p} /\ first(g).gens = {g}
        BY <1>5
    <2> HIDE DEF p, first
    <2> QED
        BY <2>1, <2>2 DEF Whole
<1>8. \/ root = [n \in Namespaces |-> NoRoot] /\ used = {}
      \/ \E g \in Gens : /\ root = [n \in Namespaces |-> IF n = "stable" THEN NoRoot ELSE first(g)]
                         /\ used = {g}
    BY DEF Init
<1> HIDE DEF first
<1>9. /\ root \in [Namespaces -> Roots] /\ used \in SUBSET Gens
      /\ \A n \in Namespaces : Whole(root[n])
      /\ \A n \in Namespaces : root[n].gens \subseteq used
      /\ \A m, n \in Namespaces : m # n => root[m].gens \cap root[n].gens = {}
      /\ \A n \in Namespaces : root[n].gens # {} => root[n].whole
      /\ \A n \in Namespaces : root[n].whole => root[n].there
    BY <1>5, <1>6, <1>7, <1>8, NoRootIsEmpty DEF Namespaces
<1>10. Types
    <2>1. rlock \in [Namespaces -> Readers \cup Keepers \cup {None}]
        BY DEF Init
    <2>2. file \in [Leases -> Inodes \cup {0}]
        BY <1>f
    <2>3. keeper \in [Keepers -> KeeperRecords] /\ reader \in [Readers -> ReaderRecords]
        BY <1>k, <1>4, IdleKeeperType
    <2> QED
        BY <1>f, <1>9, <2>1, <2>2, <2>3 DEF Types
<1>11. Born = used
    BY <1>1, <1>3 DEF Born, Is, Candidate
<1>12. Births
    BY <1>1, <1>2, <1>3, <1>f, <1>9, <1>11 DEF Births, Is, Candidate, Aware, Held
<1>13. Places /\ Heads
    BY <1>f, <1>9 DEF Places, Heads
<1>14. ReaderShape /\ Links /\ Excludes /\ Opens
    BY <1>1, <1>2, <1>3 DEF ReaderShape, Links, Excludes, Opens, Aware, Held, Leased, Open
<1>15. ASSUME NEW k \in Keepers
       PROVE  /\ KeeperShape(k) /\ Guarded(k) /\ Rebuilds(k) /\ Dooms(k) /\ Purges(k) /\ Moves(k)
    BY <1>1, <1>3 DEF KeeperShape, Guarded, Rebuilds, Dooms, Purges, Moves, Is, Building, Final,
                      Sweeping, Removing, Candidate
<1> QED
    BY <1>10, <1>12, <1>13, <1>14, <1>15 DEF IInv

\* The invariant is inductive.
LEMMA NextInv ==
    ASSUME IInv, Next
    PROVE  IInv'
<1>1. ASSUME NEW r \in Readers, ReaderNext(r) PROVE IInv'
    <2>1. Types' /\ ReaderShape'
        BY <1>1, ReaderTypes
    <2>2. Births' /\ Places' /\ Heads' /\ Links' /\ Excludes' /\ Opens'
        BY <1>1, ReaderInv
    <2>3. \A k \in Keepers : KeeperShape(k)' /\ Guarded(k)'
        BY <1>1, ReaderControl
    <2>4. \A k \in Keepers : Rebuilds(k)' /\ Dooms(k)' /\ Purges(k)' /\ Moves(k)'
        BY <1>1, ReaderOperations
    <2> QED
        BY <2>1, <2>2, <2>3, <2>4 DEF IInv
<1>2. ASSUME NEW k \in Keepers, KeeperNext(k) PROVE IInv'
    <2>1. Types' /\ ReaderShape'
        BY <1>2, KeeperTypes
    <2>2. Births' /\ Places' /\ Heads' /\ Links' /\ Excludes' /\ Opens'
        BY <1>2, BirthsStep, PlacesStep, HeadsStep, LeaseSteps, OpensStep
    <2>3. \A j \in Keepers : KeeperShape(j)' /\ Guarded(j)'
        BY <1>2, KeeperControl
    <2>4. Rebuilds(k)' /\ Dooms(k)' /\ Purges(k)' /\ Moves(k)'
        BY <1>2, OwnRebuilds, OwnDooms, OwnPurges, OwnMoves
    <2>5. ASSUME NEW j \in Keepers, j # k
          PROVE  Rebuilds(j)' /\ Dooms(j)' /\ Purges(j)' /\ Moves(j)'
        BY <1>2, <2>5, OtherOperations
    <2> QED
        BY <2>1, <2>2, <2>3, <2>4, <2>5 DEF IInv
<1> QED
    BY <1>1, <1>2, Steps

\* Nor does a stutter disturb it.
LEMMA StutterInv ==
    ASSUME IInv, UNCHANGED vars
    PROVE  IInv'
<1>1. UNCHANGED <<root, aside, used, file, wlock, rlock, authority, reader, keeper>>
    BY DEF vars, disk, locks
<1>2. Born' = Born
    BY <1>1, BornStays
<1>3. Types' /\ ReaderShape' /\ Places' /\ Heads'
    BY <1>1 DEF IInv, Types, ReaderShape, Places, Heads
<1>4. Births'
    BY <1>1, <1>2 DEF IInv, Births, Is
<1>5. Links' /\ Excludes' /\ Opens'
    BY <1>1 DEF IInv, Links, Excludes, Opens, Live, LeaseOf, Stored
<1>6. ASSUME NEW k \in Keepers PROVE KeeperShape(k)' /\ Guarded(k)' /\ Rebuilds(k)'
    BY <1>1 DEF IInv, KeeperShape, Guarded, Rebuilds, Is, Own
<1>7. ASSUME NEW k \in Keepers PROVE Dooms(k)'
    BY <1>1 DEF IInv, Dooms, Is, NoOpen, Live, LeaseOf
<1>8. ASSUME NEW k \in Keepers PROVE Purges(k)' /\ Moves(k)'
    BY <1>1, <1>2 DEF IInv, Purges, Moves, Is, Live
<1> QED
    BY <1>3, <1>4, <1>5, <1>6, <1>7, <1>8 DEF IInv

\* The inductive invariant holds in every state, whatever the number of
\* readers, rebuilds, quarantines, deletions, purges and transitions at work
\* and wherever one of them dies.
THEOREM InductiveInvariant == Spec => []IInv
<1>1. Init => IInv
    BY InitInv
<1>2. IInv /\ [Next]_vars => IInv'
    BY NextInv, StutterInv
<1> QED
    BY <1>1, <1>2, PTL DEF Spec

\* The files of a generation that open_current or a governed write has open are
\* never deleted: they are in a root or in a root set aside.
THEOREM OpenGenerationsStay == Spec => []OpenGenerationStays
<1>1. IInv => OpenGenerationStays
    BY DEF IInv, Opens, OpenGenerationStays, Stored, Types, ReaderRecords
<1> QED
    BY <1>1, InductiveInvariant, PTL

\* sweep_orphaned_generation_leases never unlinks the lease of a generation
\* somebody has open: its name is bound to the file the reader has locked.
THEOREM LeasesStayLinked == Spec => []LeaseStaysLinked
<1>1. IInv => LeaseStaysLinked
    BY DEF IInv, Opens, LeaseStaysLinked
<1> QED
    BY <1>1, InductiveInvariant, PTL

\* At every moment of a rebuild, current_publication names one whole
\* generation: promotion precedes publication, and neither retirement nor the
\* reclaim takes what is selected.
THEOREM CurrentStaysWhole == Spec => []CurrentIsWhole
<1>1. IInv => CurrentIsWhole
    <2> SUFFICES ASSUME IInv, NEW n \in Namespaces, root[n].pubs # {}
                 PROVE  /\ Current(n).gen \in root[n].gens
                        /\ \A p, q \in root[n].pubs : p.seq = q.seq => p = q
        BY DEF CurrentIsWhole
    <2>1. Current(n).gen \in root[n].gens
        BY CurrentIsHighest DEF IInv
    <2> QED
        BY <2>1 DEF IInv, Heads, Whole
<1> QED
    BY <1>1, InductiveInvariant, PTL

\* transition_legacy moves no generation that somebody has open from the legacy
\* to the stable root.
THEOREM TransitionsSpareReaders == Spec => TransitionSparesReaders
<1> DEFINE Spared == \A r \in Readers : reader[r].at \in Open =>
                         reader[r].pub.gen \notin root["legacy"].gens \cap root'["stable"].gens
<1>1. ASSUME IInv, Next PROVE Spared
    <2>1. SUFFICES ASSUME NEW r \in Readers, reader[r].at \in Open,
                          NEW g \in root["legacy"].gens, g \in root'["stable"].gens
                   PROVE  FALSE
        OBVIOUS
    <2>2. g \notin root["stable"].gens /\ g \in Born
        BY <1>1, <2>1 DEF IInv, Places, Births, Namespaces
    <2>3. PICK k \in Keepers : KeeperNext(k)
        <3>1. ASSUME NEW q \in Readers, ReaderNext(q) PROVE FALSE
            <4>1. root' = root
                BY <1>1, <3>1, ReaderKinds DEF IInv
            <4> QED
                BY <2>1, <2>2, <4>1
        <3> QED
            BY <1>1, <3>1, Steps
    <2>4. ~Promotes(k) \/ g # keeper[k].gen
        BY <1>1, <2>2, PromotedIsNew
    <2>5. MovesRoot(k)
        BY <1>1, <2>1, <2>2, <2>3, <2>4, GensShrink DEF Namespaces
    <2>6. Is(k, "transition", {"move"}) /\ Moves(k)
        BY <1>1, <2>5 DEF IInv, MovesRoot
    <2> QED
        BY <2>1, <2>6 DEF Moves
<1>2. IInv /\ [Next]_vars => [Spared]_vars
    BY <1>1
<1> QED
    BY <1>2, InductiveInvariant, PTL DEF Spec, TransitionSparesReaders
=============================================================================

------------------------ MODULE DerivedAccessProofs -------------------------
(***************************************************************************)
(* Proofs about DerivedAccess, for any number of writers, rebuilders, keys *)
(* and payloads.  Every step is of one of a few kinds, by what it does to  *)
(* the log and to the generation: it looks, logs, marks, or adds a receipt.*)
(* The writer lock means that while a writer is attached to the generation *)
(* nobody else adds a receipt (AttachedAlone); that every change of the    *)
(* directory makes the saved stamps stale means that a receipt bound to a  *)
(* stamp in force was for the one event the ledger lacked (LogStands).     *)
(***************************************************************************)
EXTENDS DerivedAccess, FiniteSetTheorems, TLAPS

(***************************************************************************)
(* The inductive invariant.                                                *)
(***************************************************************************)

Locked == WriterSteps \ {"idle", "admit", "catchup", "loose"}
Leased == RebuildSteps \ {"idle", "maintain"}
Attached == Locked \ {"open", "degrade"}

\* The type of everything but the generations.
ControlType ==
    /\ truth \in [Keys -> Pays \cup {Nothing}]
    /\ temps \in 0..MaxTemps
    /\ authority \in Procs \cup {Nothing}
    /\ wlock \in Procs \cup {Nothing}
    /\ lease \in Rebuilders \cup {Nothing}
    /\ at \in [Procs -> WriterSteps \cup RebuildSteps]
    /\ want \in [Writers -> Event \cup {Nothing}]
    /\ out \in [Writers -> {"none", "Created", "Existing"}]
    /\ watch \in [Writers -> BOOLEAN]
    /\ cap \in [Writers -> BOOLEAN]
    /\ mode \in [Writers -> {"AdmissionEligible", "DegradedLoose"}]
    /\ reply \in [Writers -> {"none", "ok", "conflict", "error"}]

\* What a writer holds at each step.
WriterHolds ==
    \A w \in Writers :
        /\ at[w] \in WriterSteps
        /\ at[w] # "idle" <=> authority = w
        /\ at[w] \in Locked <=> wlock = w
        /\ at[w] # "idle" \/ reply[w] # "none" => want[w] \in Event

\* What a rebuilder holds at each step.
RebuilderHolds ==
    \A r \in Rebuilders :
        /\ at[r] \in RebuildSteps
        /\ at[r] \in Leased <=> lease = r
        /\ at[r] \in {"list", "promote", "maintain"} <=> wlock = r
        /\ at[r] \in {"bootstrap", "list"} => authority = r

Control == ControlType /\ WriterHolds /\ RebuilderHolds

\* A ledger g agrees with the log t.
Agrees(g, t) ==
    /\ g \in Generation
    /\ \A k \in Keys : g.wit[k] = IF g.seq[k] # 0 THEN t[k] ELSE Nothing
    /\ \A k \in Keys : g.seq[k] # 0 => t[k] # Nothing
    /\ {g.seq[k] : k \in Receipted(g)} = 1..g.head
    /\ Cardinality(Receipted(g)) = g.head
    /\ g.applied <= g.head

\* A generation that is there agrees with the log t, and a stamp that is still
\* the directory's counts its n entries.
Kept(g, t, n) == g # Nothing => Agrees(g, t) /\ (g.fresh => g.count = n)

Ledgers == Kept(gen, truth, EntryCount) /\ Kept(staging, truth, EntryCount)

\* The generation stays while a writer or the maintenance works on it, and the
\* candidate while it is being filled or promoted.
Present ==
    /\ \A w \in Writers : at[w] \in Attached => gen # Nothing
    /\ \A r \in Rebuilders : /\ at[r] \in {"list", "promote"} => staging # Nothing
                             /\ at[r] = "maintain" => gen # Nothing

\* The event of a writer past its publication is in the log; one that it has
\* created has no receipt yet.  What a writer was answered is still true.
PublishedBy(w) ==
    /\ at[w] # "idle" /\ out[w] # "none" => truth[want[w].key] = want[w].pay
    /\ at[w] \in {"published", "commit", "retire", "catchup"} => out[w] # "none"
    /\ at[w] = "published" /\ out[w] = "Created" => gen.seq[want[w].key] = 0
    /\ at[w] = "commit" => gen.seq[want[w].key] = 0

AnsweredTo(w) ==
    /\ reply[w] = "ok" => truth[want[w].key] = want[w].pay
    /\ reply[w] = "conflict" => truth[want[w].key] \notin {Nothing, want[w].pay}

Published == \A w \in Writers : PublishedBy(w) /\ AnsweredTo(w)

\* A candidate that has been listed holds the whole log while its stamp stands.
Listed ==
    \A r \in Rebuilders :
        /\ at[r] \in {"project", "verify", "check", "promote"}
        /\ staging # Nothing
        /\ staging.fresh
        => Receipted(staging) = Stored

IInv == Control /\ Ledgers /\ Present /\ Published /\ Listed

\* macOS with no temp files about: the entries of the directory are the events.
Counted == Platform = "macos" /\ MaxTemps = 0

\* Where every create is seen: everybody takes the lock, or entries are counted.
Guarded == ~Foreign \/ Counted

\* What a writer knows on its way to a receipt: where everybody takes the lock,
\* that the ledger lacks nothing but its own event; where entries are counted,
\* that the count is that of the receipts.
ExactFor(w) ==
    /\ at[w] = "commit" /\ cap[w] => Stored = Receipted(gen) \cup {want[w].key}
    /\ ~Foreign /\ at[w] \in {"recover", "intent", "publish"} => Receipted(gen) = Stored
    /\ ~Foreign /\ at[w] = "published" /\ out[w] = "Created" =>
         Stored = Receipted(gen) \cup {want[w].key}
    /\ Counted /\ at[w] \in {"recover", "intent", "publish", "published"} =>
         gen.count = gen.head

FreshIsExact == gen # Nothing /\ gen.fresh => Receipted(gen) = Stored

Exact == FreshIsExact /\ \A w \in Writers : ExactFor(w)

-----------------------------------------------------------------------------
(* Who holds what.                                                         *)

LEMMA TouchedType ==
    ASSUME Touched
    PROVE  cap' \in [Writers -> BOOLEAN]
  BY DEF Touched

LEMMA NewFileType ==
    ASSUME ControlType, NEW k \in Keys, NEW b \in Pays, NewFile(k, b)
    PROVE  /\ truth' \in [Keys -> Pays \cup {Nothing}]
           /\ watch' \in [Writers -> BOOLEAN]
           /\ cap' \in [Writers -> BOOLEAN]
  BY DEF ControlType, NewFile, Touched

\* A writer that returns gives back all it holds.
LEMMA ReturnControl ==
    ASSUME Control,
           NEW w \in Writers, at[w] # "idle",
           NEW a \in {"none", "ok", "conflict", "error"}, Return(w, a),
           truth' \in [Keys -> Pays \cup {Nothing}], temps' \in 0..MaxTemps,
           want' = want, out' = out,
           watch' \in [Writers -> BOOLEAN], cap' \in [Writers -> BOOLEAN],
           mode' \in [Writers -> {"AdmissionEligible", "DegradedLoose"}]
    PROVE  Control'
  <1> USE ProcAssumption
      DEF Control, WriterHolds, RebuilderHolds, WriterSteps, RebuildSteps,
          Locked, Leased, Procs, Event, Goto, Return, Release
  <1>1. ControlType'
    BY DEF ControlType
  <1>2. \A v \in Writers : v # w => at'[v] = at[v] /\ reply'[v] = reply[v]
    BY DEF ControlType
  <1>3. at'[w] = "idle" /\ \A r \in Rebuilders : at'[r] = at[r]
    BY DEF ControlType
  <1>4. authority' # w /\ wlock' # w /\ lease' = lease /\ want' = want
    BY DEF ControlType
  <1>5. \A p \in Procs : p # w => /\ authority' = p <=> authority = p
                                /\ wlock' = p <=> wlock = p
    OBVIOUS
  <1>6. WriterHolds'
    BY <1>2, <1>3, <1>4, <1>5 DEF ControlType
  <1>7. RebuilderHolds'
    BY <1>3, <1>4, <1>5 DEF ControlType
  <1> QED
    BY <1>1, <1>6, <1>7

LEMMA ControlStep ==
    ASSUME Control, [Next]_vars
    PROVE  Control'
  <1> USE ProcAssumption, ModeAssumption
      DEF Control, ControlType, WriterHolds, RebuilderHolds, WriterSteps, RebuildSteps,
          Locked, Leased, Procs, Event, Goto, events, locks, append, caller
  <1>1. ASSUME NEW w \in Writers, NEW e \in Event, BeginWrite(w, e)  PROVE Control'
    BY <1>1 DEF BeginWrite
  <1>2. ASSUME NEW w \in Writers, TryWriterLock(w)  PROVE Control'
    BY <1>2 DEF TryWriterLock, GoLoose
  <1>3. ASSUME NEW w \in Writers, OpenCurrentForWrite(w)  PROVE Control'
    BY <1>3 DEF OpenCurrentForWrite, GoLoose
  <1>4. ASSUME NEW w \in Writers, RecoverRetires(w)  PROVE Control'
    BY <1>4 DEF RecoverRetires
  <1>5. ASSUME NEW w \in Writers, RecoverPublishes(w)  PROVE Control'
    BY <1>5 DEF RecoverPublishes
  <1>6. ASSUME NEW w \in Writers, RecoverRefuses(w)  PROVE Control'
    BY <1>6 DEF RecoverRefuses
  <1>7. ASSUME NEW w \in Writers, CommitIntent(w)  PROVE Control'
    BY <1>7 DEF CommitIntent
  <1>8. ASSUME NEW w \in Writers, PublishCreates(w)  PROVE Control'
    BY <1>8 DEF PublishCreates, NewFile, Touched
  <1>9. ASSUME NEW w \in Writers, PublishFinds(w)  PROVE Control'
    BY <1>9 DEF PublishFinds
  <1>10. ASSUME NEW w \in Writers, PublishConflicts(w)  PROVE Control'
    BY <1>10 DEF PublishConflicts, Return, Release
  <1>11. ASSUME NEW w \in Writers, PublishFailed(w)  PROVE Control'
    BY <1>11 DEF PublishFailed, Return, Release
  <1>12. ASSUME NEW w \in Writers, FinishExisting(w)  PROVE Control'
    BY <1>12 DEF FinishExisting
  <1>13. ASSUME NEW w \in Writers, FinishUnreceipted(w)  PROVE Control'
    BY <1>13 DEF FinishUnreceipted
  <1>14. ASSUME NEW w \in Writers, FinishCreated(w)  PROVE Control'
    <2>1. cap' \in [Writers -> BOOLEAN]
      <3>1. cap' = [cap EXCEPT ![w] = TRUE] \/ cap' = cap
        BY <1>14 DEF FinishCreated
      <3> QED
        BY <3>1
    <2>2. watch' \in [Writers -> BOOLEAN]
      BY <1>14 DEF FinishCreated
    <2>3. PICK s \in {"commit", "degrade"} : Goto(w, s)
      BY <1>14 DEF FinishCreated
    <2> QED
      BY <1>14, <2>1, <2>2, <2>3 DEF FinishCreated
  <1>15. ASSUME NEW w \in Writers, CommitReceipt(w)  PROVE Control'
    BY <1>15 DEF CommitReceipt
  <1>16. ASSUME NEW w \in Writers, RetireIntent(w)  PROVE Control'
    BY <1>16 DEF RetireIntent
  <1>17. ASSUME NEW w \in Writers, CatchUp(w)  PROVE Control'
    BY <1>17 DEF CatchUp, Return, Release
  <1>18. ASSUME NEW w \in Writers, Degrade(w)  PROVE Control'
    BY <1>18 DEF Degrade, GoLoose, Return, Release
  <1>19. ASSUME NEW w \in Writers, PublishLoose(w)  PROVE Control'
    <2>1. at[w] # "idle" /\ want[w] \in Event /\ temps' = temps
      BY <1>19 DEF PublishLoose
    <2>2. CASE NewFile(want[w].key, want[w].pay)
      BY <1>19, <2>1, <2>2, NewFileType, ReturnControl DEF PublishLoose
    <2>3. CASE UNCHANGED <<truth, gen, staging, watch, cap>>
      BY <1>19, <2>1, <2>3, ReturnControl DEF PublishLoose
    <2> QED
      BY <1>19, <2>2, <2>3 DEF PublishLoose
  <1>20. ASSUME NEW w \in Writers, LedgerFails(w)  PROVE Control'
    BY <1>20 DEF LedgerFails
  <1>21. ASSUME NEW w \in Writers, PublishFails(w)  PROVE Control'
    <2>1. at[w] # "idle" /\ want[w] \in Event /\ temps' = temps
      BY <1>21 DEF PublishFails
    <2>2. /\ truth' \in [Keys -> Pays \cup {Nothing}]
          /\ watch' \in [Writers -> BOOLEAN]
          /\ cap' \in [Writers -> BOOLEAN]
      BY <1>21, <2>1, NewFileType, TouchedType DEF PublishFails
    <2>3. CASE at[w] = "publish"
      BY <1>21, <2>1, <2>2, <2>3 DEF PublishFails
    <2>4. CASE at[w] = "loose"
      BY <1>21, <2>1, <2>2, <2>4, ReturnControl DEF PublishFails
    <2> QED
      BY <1>21, <2>3, <2>4 DEF PublishFails
  <1>22. ASSUME NEW w \in Writers, CrashWriter(w)  PROVE Control'
    <2>1. temps' \in 0..MaxTemps /\ cap' \in [Writers -> BOOLEAN]
      BY <1>22, TouchedType DEF CrashWriter
    <2> QED
      BY <1>22, <2>1, ReturnControl DEF CrashWriter
  <1>23. ASSUME NEW r \in Rebuilders, StartRebuild(r)  PROVE Control'
    BY <1>23 DEF StartRebuild
  <1>24. ASSUME NEW r \in Rebuilders, BootstrapStamp(r)  PROVE Control'
    BY <1>24 DEF BootstrapStamp
  <1>25. ASSUME NEW r \in Rebuilders, BootstrapList(r)  PROVE Control'
    BY <1>25 DEF BootstrapList
  <1>26. ASSUME NEW r \in Rebuilders, Project(r)  PROVE Control'
    BY <1>26 DEF Project
  <1>27. ASSUME NEW r \in Rebuilders, Verify(r)  PROVE Control'
    BY <1>27 DEF Verify
  <1>28. ASSUME NEW r \in Rebuilders, CheckAuthority(r)  PROVE Control'
    BY <1>28 DEF CheckAuthority
  <1>29. ASSUME NEW r \in Rebuilders, Promote(r)  PROVE Control'
    BY <1>29 DEF Promote, Release
  <1>30. ASSUME NEW r \in Rebuilders, AbandonRebuild(r)  PROVE Control'
    BY <1>30 DEF AbandonRebuild, Release
  <1>31. ASSUME NEW r \in Rebuilders, CrashRebuild(r)  PROVE Control'
    BY <1>31 DEF CrashRebuild, Release
  <1>32. ASSUME NEW r \in Rebuilders, StartMaintain(r)  PROVE Control'
    BY <1>32 DEF StartMaintain
  <1>33. ASSUME NEW r \in Rebuilders, Maintain(r)  PROVE Control'
    BY <1>33 DEF Maintain, Release
  <1>34. ASSUME NEW e \in Event, ForeignCreate(e)  PROVE Control'
    BY <1>34 DEF ForeignCreate, NewFile, Touched
  <1>35. ASSUME SweepTemp  PROVE Control'
    BY <1>35 DEF SweepTemp, Touched
  <1>36. ASSUME StatusQuarantines  PROVE Control'
    BY <1>36 DEF StatusQuarantines
  <1>37. ASSUME UNCHANGED vars  PROVE Control'
    BY <1>37 DEF vars
  <1> QED
    BY <1>1, <1>2, <1>3, <1>4, <1>5, <1>6, <1>7, <1>8, <1>9, <1>10, <1>11, <1>12, <1>13,
       <1>14, <1>15, <1>16, <1>17, <1>18, <1>19, <1>20, <1>21, <1>22, <1>23, <1>24, <1>25,
       <1>26, <1>27, <1>28, <1>29, <1>30, <1>31, <1>32, <1>33, <1>34, <1>35, <1>36,
       <1>37
       DEF Next, WriterStep, RebuildStep

-----------------------------------------------------------------------------
(* What the operations on a ledger do.                                     *)

\* No event is removed or replaced.
Grows(t, u) == \A k \in Keys : t[k] # Nothing => u[k] = t[k]

\* A ledger that agrees with a log agrees with any longer one.
LEMMA AgreesWithLonger ==
    ASSUME NEW g, NEW t, NEW u, Agrees(g, t), Grows(t, u)
    PROVE  Agrees(g, u)
  BY DEF Agrees, Grows

\* Intent, quarantine mark, stamp and checkpoint are no part of the receipts.
LEMMA AgreesWithMarks ==
    ASSUME NEW g, NEW h, NEW t, Agrees(g, t), h \in Generation,
           h.seq = g.seq, h.wit = g.wit, h.head = g.head, h.applied <= h.head
    PROVE  Agrees(h, t) /\ Receipted(h) = Receipted(g)
  BY DEF Agrees, Receipted

LEMMA StaleKept ==
    ASSUME NEW g, NEW t, NEW u, NEW n, NEW m, Kept(g, t, n), Grows(t, u)
    PROVE  /\ Kept(Stale(g), u, m)
           /\ g # Nothing => /\ Stale(g) # Nothing
                             /\ ~Stale(g).fresh
                             /\ Stale(g).seq = g.seq /\ Stale(g).count = g.count
                             /\ Stale(g).head = g.head
                             /\ Receipted(Stale(g)) = Receipted(g)
           /\ g = Nothing => Stale(g) = Nothing
  <1>1. CASE g = Nothing
    BY <1>1 DEF Stale, Kept
  <1>2. CASE g # Nothing
    <2>1. Agrees(g, u) /\ g \in Generation
      BY <1>2, AgreesWithLonger DEF Kept, Agrees
    <2>2. /\ Stale(g) \in Generation
          /\ Stale(g).seq = g.seq /\ Stale(g).wit = g.wit /\ Stale(g).head = g.head
          /\ Stale(g).applied = g.applied /\ Stale(g).count = g.count
          /\ Stale(g).fresh = FALSE
      BY <1>2, <2>1 DEF Stale, Generation
    <2>3. Agrees(Stale(g), u) /\ Receipted(Stale(g)) = Receipted(g)
      BY <2>1, <2>2, AgreesWithMarks DEF Agrees
    <2>4. Stale(g) # Nothing
      BY <2>2, GenerationAssumption
    <2> QED
      BY <1>2, <2>2, <2>3, <2>4 DEF Kept
  <1> QED
    BY <1>1, <1>2

LEMMA StoredFinite ==
    /\ IsFiniteSet(Stored) /\ Cardinality(Stored) \in 0..Cardinality(Keys)
    /\ Cardinality(Keys) \in Nat
  <1>1. Stored \subseteq Keys
    BY DEF Stored
  <1> QED
    BY <1>1, KeysAssumption, FS_Subset, FS_CardinalityType

LEMMA EntryCountType ==
    ASSUME temps \in 0..MaxTemps
    PROVE  EntryCount \in 0..(Cardinality(Keys) + MaxTemps)
  BY StoredFinite, ModeAssumption DEF EntryCount

\* A receipt for an event of the log that has none keeps the ledger sound.
LEMMA ReceiptAdded ==
    ASSUME NEW g, NEW e, NEW f \in BOOLEAN,
           temps \in 0..MaxTemps, truth \in [Keys -> Pays \cup {Nothing}],
           Agrees(g, truth), e.key \in Keys, e.pay \in Pays,
           truth[e.key] = e.pay, g.seq[e.key] = 0
    PROVE  LET h == AddReceipt(g, e, f)
           IN  /\ Agrees(h, truth)
               /\ h.fresh = f /\ h.count = EntryCount /\ h.head = g.head + 1
               /\ Receipted(h) = Receipted(g) \cup {e.key}
               /\ \A k \in Receipted(g) : h.seq[k] = g.seq[k]
               /\ h.bad = g.bad
  <1> DEFINE h == AddReceipt(g, e, f)
  <1>1. /\ g \in Generation /\ g.head \in Nat
        /\ g.seq \in [Keys -> 0..Cardinality(Keys)] /\ g.wit \in [Keys -> Pays \cup {Nothing}]
    BY StoredFinite DEF Agrees, Generation
  <1>2. /\ Receipted(g) \subseteq Keys /\ e.key \notin Receipted(g)
        /\ IsFiniteSet(Receipted(g)) /\ Cardinality(Receipted(g)) = g.head
    BY <1>1, KeysAssumption, FS_Subset DEF Receipted, Agrees
  <1>3. /\ IsFiniteSet(Receipted(g) \cup {e.key})
        /\ Cardinality(Receipted(g) \cup {e.key}) = g.head + 1
    BY <1>2, FS_AddElement
  <1>4. g.head + 1 \in 1..Cardinality(Keys)
    BY <1>1, <1>2, <1>3, KeysAssumption, FS_Subset, StoredFinite
  <1>5. /\ h.head = g.head + 1 /\ h.fresh = f /\ h.count = EntryCount
        /\ h.seq = [g.seq EXCEPT ![e.key] = g.head + 1]
        /\ h.wit = [g.wit EXCEPT ![e.key] = e.pay]
        /\ h.applied = g.applied /\ h.bad = g.bad /\ h.intent = g.intent
    BY <1>1 DEF AddReceipt, Generation
  <1>13. h \in Generation
    <2>1. h.seq \in [Keys -> 0..Cardinality(Keys)] /\ h.wit \in [Keys -> Pays \cup {Nothing}]
      BY <1>1, <1>4, <1>5, StoredFinite
    <2>2. h.head \in 0..Cardinality(Keys) /\ h.count \in 0..(Cardinality(Keys) + MaxTemps)
      BY <1>1, <1>4, <1>5, EntryCountType, StoredFinite
    <2> QED
      BY <1>1, <1>5, <2>1, <2>2 DEF AddReceipt, Generation
  <1>6. Receipted(h) = Receipted(g) \cup {e.key}
    BY <1>1, <1>4, <1>5 DEF Receipted
  <1>7. \A k \in Receipted(g) : h.seq[k] = g.seq[k]
    BY <1>1, <1>2, <1>5
  <1>8. h.seq[e.key] = g.head + 1
    BY <1>1, <1>5
  <1>9. {h.seq[k] : k \in Receipted(h)} = 1..h.head
    <2>1. {h.seq[k] : k \in Receipted(h)} = {g.seq[k] : k \in Receipted(g)} \cup {g.head + 1}
      BY <1>6, <1>7, <1>8
    <2>2. {g.seq[k] : k \in Receipted(g)} = 1..g.head
      BY DEF Agrees
    <2> QED
      BY <1>1, <1>5, <2>1, <2>2
  <1>10. \A k \in Keys : /\ h.wit[k] = IF h.seq[k] # 0 THEN truth[k] ELSE Nothing
                         /\ h.seq[k] # 0 => truth[k] # Nothing
    BY <1>1, <1>4, <1>5, PayAssumption DEF Agrees
  <1>11. h.applied <= h.head
    BY <1>1, <1>5, StoredFinite DEF Agrees, Generation
  <1>12. Agrees(h, truth)
    BY <1>3, <1>5, <1>6, <1>9, <1>10, <1>11, <1>13 DEF Agrees
  <1> QED
    BY <1>5, <1>6, <1>7, <1>12

\* The events of a listing are numbered 1 to their number, each once: the
\* digests order them strictly.
LEMMA RankNumbers ==
    /\ \A k \in Stored : Rank(k) \in 1..Cardinality(Stored)
    /\ {Rank(k) : k \in Stored} = 1..Cardinality(Stored)
  <1> DEFINE n == Cardinality(Stored)
             Upto(k) == {j \in Stored : Digest[j] <= Digest[k]}
             f == [k \in Stored |-> Rank(k)]
  <1>1. Stored \subseteq Keys /\ IsFiniteSet(Stored) /\ n \in Nat
    BY StoredFinite DEF Stored
  <1>2. ASSUME NEW k \in Stored
        PROVE  IsFiniteSet(Upto(k)) /\ Rank(k) \in 1..n /\ Rank(k) \in Nat
    <2>1. Upto(k) \subseteq Stored /\ k \in Upto(k)
      BY <1>1, DigestAssumption
    <2>2. IsFiniteSet(Upto(k)) /\ Cardinality(Upto(k)) <= n /\ Cardinality(Upto(k)) \in Nat
      BY <1>1, <2>1, FS_Subset, FS_CardinalityType
    <2>3. Cardinality(Upto(k)) # 0
      BY <2>1, <2>2, FS_EmptySet
    <2> QED
      BY <1>1, <2>2, <2>3 DEF Rank
  <1>3. ASSUME NEW j \in Stored, NEW k \in Stored, Digest[j] < Digest[k]
        PROVE  Rank(j) < Rank(k)
    <2>1. Upto(j) \subseteq Upto(k) /\ k \in Upto(k) /\ k \notin Upto(j)
      BY <1>1, <1>3, DigestAssumption
    <2>2. Cardinality(Upto(j)) <= Cardinality(Upto(k))
          /\ Cardinality(Upto(j)) # Cardinality(Upto(k))
      BY <1>2, <2>1, FS_Subset
    <2>3. Rank(j) <= Rank(k) /\ Rank(j) # Rank(k)
      BY <2>2 DEF Rank
    <2>4. Rank(j) \in Nat /\ Rank(k) \in Nat
      BY <1>2
    <2> QED
      BY <2>3, <2>4
  <1>4. ASSUME NEW j \in Stored, NEW k \in Stored, Rank(j) = Rank(k)
        PROVE  j = k
    <2>1. Digest[j] \in Nat /\ Digest[k] \in Nat /\ Rank(j) \in Nat
      BY <1>1, <1>2, DigestAssumption
    <2>2. ~(Digest[j] < Digest[k]) /\ ~(Digest[k] < Digest[j])
      BY <1>3, <1>4, <2>1
    <2> QED
      BY <1>1, <2>1, <2>2, DigestAssumption
  <1>5. f \in Injection(Stored, 1..n)
    BY <1>2, <1>4 DEF Injection, IsInjective
  <1>6. IsFiniteSet(1..n) /\ Cardinality(1..n) = n
    BY <1>1, FS_Interval
  <1>7. f \in Surjection(Stored, 1..n)
    BY <1>5, <1>6, FS_Injection
  <1> QED
    BY <1>2, <1>7 DEF Surjection

\* What BootstrapList makes of the fresh candidate.
Filled(g) ==
    [g EXCEPT !.head = Cardinality(Stored),
              !.seq = [k \in Keys |-> IF k \in Stored THEN Rank(k) ELSE 0],
              !.wit = truth]

LEMMA ListingAgrees ==
    ASSUME NEW g, Agrees(g, truth), truth \in [Keys -> Pays \cup {Nothing}]
    PROVE  /\ Agrees(Filled(g), truth)
           /\ Receipted(Filled(g)) = Stored
           /\ Filled(g).fresh = g.fresh /\ Filled(g).count = g.count
  <1> DEFINE h == Filled(g)
  <1>0. g \in Generation /\ g.applied <= Cardinality(Stored)
    <2>1. g \in Generation /\ g.applied <= g.head /\ g.head = Cardinality(Receipted(g))
      BY DEF Agrees
    <2>2. Receipted(g) \subseteq Stored
      BY DEF Agrees, Receipted, Stored
    <2>3. g.head <= Cardinality(Stored)
      BY <2>1, <2>2, StoredFinite, FS_Subset
    <2>4. g.applied \in Nat /\ g.head \in Nat
      BY <2>1, StoredFinite DEF Generation
    <2> QED
      BY <2>1, <2>3, <2>4, StoredFinite
  <1>1. /\ h.head = Cardinality(Stored) /\ h.wit = truth
        /\ h.seq = [k \in Keys |-> IF k \in Stored THEN Rank(k) ELSE 0]
        /\ h.applied = g.applied /\ h.fresh = g.fresh /\ h.count = g.count
    BY <1>0 DEF Filled, Generation
  <1>2. \A k \in Keys : h.seq[k] = IF k \in Stored THEN Rank(k) ELSE 0
    BY <1>1
  <1>3. \A k \in Stored : h.seq[k] = Rank(k) /\ Rank(k) # 0
    BY <1>2, RankNumbers, StoredFinite DEF Stored
  <1>4. Receipted(h) = Stored
    BY <1>2, <1>3 DEF Receipted, Stored
  <1>5. {h.seq[k] : k \in Receipted(h)} = 1..h.head
    BY <1>1, <1>3, <1>4, RankNumbers
  <1>6. h \in Generation
    <2>1. h.seq \in [Keys -> 0..Cardinality(Keys)]
      BY <1>1, RankNumbers, StoredFinite
    <2>2. h.head \in 0..Cardinality(Keys)
      BY <1>1, StoredFinite
    <2> QED
      BY <1>0, <1>1, <2>1, <2>2 DEF Filled, Generation
  <1>7. \A k \in Keys : /\ h.wit[k] = IF h.seq[k] # 0 THEN truth[k] ELSE Nothing
                        /\ h.seq[k] # 0 => truth[k] # Nothing
    BY <1>1, <1>2, <1>3 DEF Stored
  <1>8. h.applied <= h.head
    BY <1>0, <1>1
  <1> QED
    BY <1>1, <1>4, <1>5, <1>6, <1>7, <1>8 DEF Agrees

-----------------------------------------------------------------------------
(* The steps by what they do to the log and the generations.               *)

\* Neither log nor generation changes.
Looks(w) ==
    \/ \E e \in Event : BeginWrite(w, e)
    \/ TryWriterLock(w) \/ OpenCurrentForWrite(w) \/ LedgerFails(w)
    \/ PublishFinds(w) \/ FinishExisting(w) \/ FinishCreated(w)

\* The log may change.
Logs(w) == PublishCreates(w) \/ PublishFails(w) \/ PublishLoose(w) \/ CrashWriter(w)

\* Only marks of the generation change.
Marks(w) ==
    \/ RecoverRetires(w) \/ RecoverRefuses(w) \/ CommitIntent(w) \/ PublishConflicts(w)
    \/ PublishFailed(w) \/ FinishUnreceipted(w) \/ RetireIntent(w) \/ CatchUp(w)

\* The generation gets a receipt.
Receipts(w) == RecoverPublishes(w) \/ CommitReceipt(w)

\* The steps of rebuilders that leave log and generations alone.
Watches(r) == Verify(r) \/ CheckAuthority(r) \/ CrashRebuild(r) \/ StartMaintain(r)

\* The steps of rebuilders on the candidate.
Builds(r) ==
    \/ StartRebuild(r) \/ BootstrapStamp(r) \/ BootstrapList(r) \/ Project(r)
    \/ AbandonRebuild(r)

LEMMA StepKinds ==
    ASSUME [Next]_vars
    PROVE  \/ \E w \in Writers : Looks(w) \/ Logs(w) \/ Marks(w) \/ Receipts(w) \/ Degrade(w)
           \/ \E r \in Rebuilders : Watches(r) \/ Builds(r) \/ Promote(r) \/ Maintain(r)
           \/ \E e \in Event : ForeignCreate(e)
           \/ SweepTemp
           \/ StatusQuarantines
           \/ UNCHANGED vars
  BY DEF Next, WriterStep, RebuildStep, Looks, Logs, Marks, Receipts, Watches, Builds

\* The receipts of g and its stamp are those of h.
SameLedger(g, h) ==
    /\ h \in Generation
    /\ h.seq = g.seq /\ h.wit = g.wit /\ h.head = g.head
    /\ h.fresh = g.fresh /\ h.count = g.count
    /\ h.applied <= h.head

LEMMA SameLedgerKept ==
    ASSUME NEW g, NEW h, NEW t, NEW n, Kept(g, t, n), g # Nothing, SameLedger(g, h)
    PROVE  Kept(h, t, n) /\ h # Nothing /\ Receipted(h) = Receipted(g)
  BY AgreesWithMarks, GenerationAssumption DEF Kept, SameLedger

LEMMA LooksEffect ==
    ASSUME NEW w, Looks(w)
    PROVE  UNCHANGED <<truth, temps, gen, staging>>
  BY DEF Looks, BeginWrite, TryWriterLock, OpenCurrentForWrite, LedgerFails, PublishFinds,
         FinishExisting, FinishCreated, events

LEMMA WatchesEffect ==
    ASSUME NEW r, Watches(r)
    PROVE  UNCHANGED <<truth, temps, gen, staging>>
  BY DEF Watches, Verify, CheckAuthority, CrashRebuild, StartMaintain, events

\* A new file is one more event of the log.
LEMMA NewFileGrows ==
    ASSUME ControlType, NEW k \in Keys, NEW b \in Pays, truth[k] = Nothing, NewFile(k, b)
    PROVE  /\ Grows(truth, truth') /\ truth'[k] = b
           /\ Touched
           /\ Stored' = Stored \cup {k}
  BY PayAssumption DEF ControlType, NewFile, Grows, Stored

\* Whatever touches the directory leaves every stamp behind.
LEMMA LogsEffect ==
    ASSUME Control, NEW w \in Writers, Logs(w)
    PROVE  /\ Grows(truth, truth')
           /\ \/ Touched
              \/ UNCHANGED <<truth, temps, gen, staging, cap>>
  <1>1. CASE PublishCreates(w)
    <2>1. want[w] \in Event /\ truth[want[w].key] = Nothing
      BY <1>1 DEF PublishCreates, Control, ControlType, WriterHolds, Event, Stored
    <2> QED
      BY <1>1, <2>1, NewFileGrows DEF PublishCreates, Control, Event
  <1>2. CASE PublishFails(w)
    <2>1. want[w] \in Event /\ truth[want[w].key] = Nothing
      BY <1>2 DEF PublishFails, Control, ControlType, WriterHolds, Event, Stored
    <2>2. CASE NewFile(want[w].key, want[w].pay)
      BY <2>1, <2>2, NewFileGrows DEF Control, Event
    <2>3. CASE Touched /\ UNCHANGED truth
      BY <2>3 DEF Grows
    <2> QED
      BY <1>2, <2>2, <2>3 DEF PublishFails
  <1>3. CASE PublishLoose(w)
    <2>1. want[w] \in Event
      BY <1>3 DEF PublishLoose, Control, WriterHolds
    <2>2. CASE want[w].key \notin Stored /\ NewFile(want[w].key, want[w].pay)
      BY <2>1, <2>2, NewFileGrows DEF Control, Event, Stored
    <2>3. CASE UNCHANGED <<truth, gen, staging, watch, cap>>
      BY <1>3, <2>3 DEF PublishLoose, Grows
    <2> QED
      BY <1>3, <2>2, <2>3 DEF PublishLoose
  <1>4. CASE CrashWriter(w)
    BY <1>4 DEF CrashWriter, Grows
  <1> QED
    BY <1>1, <1>2, <1>3, <1>4 DEF Logs

\* The outside world may add an event, or take a temp file away.
LEMMA OthersEffect ==
    ASSUME Control, (\E e \in Event : ForeignCreate(e)) \/ SweepTemp
    PROVE  Grows(truth, truth') /\ Touched
  <1>1. ASSUME NEW e \in Event, ForeignCreate(e)
        PROVE  Grows(truth, truth') /\ Touched
    BY <1>1, NewFileGrows DEF ForeignCreate, Control, Event, Stored
  <1> QED
    BY <1>1 DEF SweepTemp, Grows

LEMMA CaughtUpEffect ==
    ASSUME NEW g, NEW h, NEW t, Agrees(g, t), h \in CaughtUp(g)
    PROVE  SameLedger(g, h)
  <1>1. PICK n \in g.applied .. g.head : h = [g EXCEPT !.applied = n]
    BY DEF CaughtUp
  <1>2. n \in 0..Cardinality(Keys) /\ n <= g.head
    BY <1>1, StoredFinite DEF Agrees, Generation
  <1> QED
    BY <1>1, <1>2 DEF Agrees, SameLedger, Generation

LEMMA MarksEffect ==
    ASSUME Control, Ledgers, Present, NEW w \in Writers, Marks(w)
    PROVE  /\ UNCHANGED <<truth, temps, staging>>
           /\ \/ gen' = gen
              \/ gen # Nothing /\ SameLedger(gen, gen')
  <1>1. /\ want \in [Writers -> Event \cup {Nothing}]
        /\ at[w] \in WriterSteps
        /\ at[w] # "idle" => want[w] \in Event
        /\ at[w] \in Attached => gen # Nothing
    BY DEF Control, ControlType, WriterHolds, Present
  <1>2. gen # Nothing => /\ Agrees(gen, truth) /\ gen \in Generation
                         /\ gen.head \in 0..Cardinality(Keys) /\ gen.applied <= gen.head
    BY DEF Ledgers, Kept, Agrees, Generation
  <1>3. ASSUME gen # Nothing, NEW i \in [key : Keys, pay : Pays, seq : 1..(Cardinality(Keys) + 1)]
                                        \cup {Nothing}
        PROVE  SameLedger(gen, [gen EXCEPT !.intent = i])
    BY <1>2, <1>3 DEF SameLedger, Generation
  <1>4. ASSUME gen # Nothing
        PROVE  SameLedger(gen, [gen EXCEPT !.bad = TRUE])
    BY <1>2, <1>4 DEF SameLedger, Generation
  <1>5. CASE RecoverRetires(w) \/ PublishConflicts(w) \/ PublishFailed(w) \/ RetireIntent(w)
    <2>1. /\ UNCHANGED <<truth, temps, staging>> /\ at[w] \in Attached
          /\ gen' = gen \/ gen' = [gen EXCEPT !.intent = Nothing]
      BY <1>5 DEF RecoverRetires, PublishConflicts, PublishFailed, RetireIntent, events,
                  Attached, Locked, WriterSteps
    <2> QED
      BY <1>1, <1>3, <2>1
  <1>6. CASE RecoverRefuses(w) \/ FinishUnreceipted(w)
    <2>1. /\ UNCHANGED <<truth, temps, staging>> /\ at[w] \in Attached
          /\ gen' = gen \/ gen' = [gen EXCEPT !.bad = TRUE]
      BY <1>6 DEF RecoverRefuses, FinishUnreceipted, events, Attached, Locked, WriterSteps
    <2> QED
      BY <1>1, <1>4, <2>1
  <1>7. CASE CommitIntent(w)
    <2>1. want[w] \in Event /\ gen # Nothing
      BY <1>1, <1>7 DEF CommitIntent
    <2>2. [key |-> want[w].key, pay |-> want[w].pay, seq |-> gen.head + 1]
            \in [key : Keys, pay : Pays, seq : 1..(Cardinality(Keys) + 1)]
      BY <1>2, <2>1, StoredFinite DEF Event
    <2> QED
      BY <1>3, <1>7, <2>1, <2>2 DEF CommitIntent, events
  <1>8. CASE CatchUp(w)
    BY <1>2, <1>8, CaughtUpEffect DEF CatchUp, events
  <1> QED
    BY <1>5, <1>6, <1>7, <1>8 DEF Marks

\* The ledger h is g with a receipt for k.
OneMore(g, h, k) ==
    /\ k \in Keys /\ g.seq[k] = 0 /\ truth[k] # Nothing
    /\ Agrees(h, truth)
    /\ h.count = EntryCount /\ h.head = g.head + 1
    /\ Receipted(h) = Receipted(g) \cup {k}
    /\ \A j \in Receipted(g) : h.seq[j] = g.seq[j]

LEMMA CommitEffect ==
    ASSUME Control, Ledgers, Present, Published, NEW w \in Writers, CommitReceipt(w)
    PROVE  /\ UNCHANGED <<truth, temps, staging>>
           /\ gen # Nothing /\ OneMore(gen, gen', want[w].key) /\ gen'.fresh = cap[w]
  <1>1. /\ want[w] \in Event /\ cap[w] \in BOOLEAN
        /\ temps \in 0..MaxTemps /\ truth \in [Keys -> Pays \cup {Nothing}]
    BY DEF CommitReceipt, Control, ControlType, WriterHolds
  <1>2. gen # Nothing /\ Agrees(gen, truth)
    BY DEF CommitReceipt, Present, Attached, Locked, WriterSteps, Ledgers, Kept
  <1>3. truth[want[w].key] = want[w].pay /\ gen.seq[want[w].key] = 0
    BY DEF CommitReceipt, Published, PublishedBy
  <1>4. gen' = AddReceipt(gen, want[w], cap[w]) /\ UNCHANGED <<truth, temps, staging>>
    BY DEF CommitReceipt, events
  <1>5. want[w].key \in Keys /\ want[w].pay \in Pays /\ want[w].pay # Nothing
    BY <1>1, PayAssumption DEF Event
  <1> QED
    BY <1>1, <1>2, <1>3, <1>4, <1>5, ReceiptAdded DEF OneMore

LEMMA RecoverEffect ==
    ASSUME Control, Ledgers, NEW w \in Writers, RecoverPublishes(w)
    PROVE  /\ UNCHANGED <<truth, temps, staging>>
           /\ gen # Nothing /\ OneMore(gen, gen', gen.intent.key) /\ gen'.fresh
           /\ OneCreateProved(gen, gen.head + 1)
  <1> DEFINE i == gen.intent
             h == AddReceipt(gen, i, TRUE)
  <1>1. temps \in 0..MaxTemps /\ truth \in [Keys -> Pays \cup {Nothing}]
    BY DEF Control, ControlType
  <1>2. /\ gen # Nothing /\ gen.intent # Nothing /\ i.key \notin Receipted(gen)
        /\ truth[i.key] = i.pay /\ i.seq = gen.head + 1 /\ OneCreateProved(gen, i.seq)
        /\ gen' = [h EXCEPT !.intent = Nothing]
        /\ UNCHANGED <<truth, temps, staging>>
    BY DEF RecoverPublishes, events
  <1>3. Agrees(gen, truth) /\ i.key \in Keys /\ i.pay \in Pays
    BY <1>2 DEF Ledgers, Kept, Agrees, Generation
  <1>4. gen.seq[i.key] = 0 /\ i.pay # Nothing
    BY <1>2, <1>3, PayAssumption DEF Receipted
  <1>5. /\ Agrees(h, truth) /\ h.fresh = TRUE /\ h.count = EntryCount /\ h.head = gen.head + 1
        /\ Receipted(h) = Receipted(gen) \cup {i.key}
        /\ \A k \in Receipted(gen) : h.seq[k] = gen.seq[k]
    <2>1. ASSUME NEW f \in BOOLEAN
          PROVE  LET a == AddReceipt(gen, i, f)
                 IN  /\ Agrees(a, truth) /\ a.fresh = f /\ a.count = EntryCount
                     /\ a.head = gen.head + 1
                     /\ Receipted(a) = Receipted(gen) \cup {i.key}
                     /\ \A k \in Receipted(gen) : a.seq[k] = gen.seq[k]
      BY <1>1, <1>2, <1>3, <1>4, ReceiptAdded
    <2> QED
      BY <2>1, Zenon
  <1> HIDE DEF h
  <1>6. /\ gen' \in Generation /\ gen'.seq = h.seq /\ gen'.wit = h.wit /\ gen'.head = h.head
        /\ gen'.fresh = h.fresh /\ gen'.count = h.count /\ gen'.applied = h.applied
    BY <1>2, <1>5 DEF Agrees, Generation
  <1>7. Agrees(gen', truth) /\ Receipted(gen') = Receipted(h)
    <2>1. h.applied <= h.head
      BY <1>5 DEF Agrees
    <2> QED
      BY <1>5, <1>6, <2>1, AgreesWithMarks
  <1> QED
    BY <1>2, <1>3, <1>4, <1>5, <1>6, <1>7 DEF OneMore

\* A rebuild works on a sound candidate.
LEMMA FillsEffect ==
    ASSUME Control, Ledgers, Present, NEW r \in Rebuilders,
           BootstrapStamp(r) \/ BootstrapList(r) \/ Project(r)
    PROVE  /\ Kept(staging', truth, EntryCount) /\ staging' # Nothing
           /\ BootstrapList(r) => Receipted(staging') = Stored
           /\ Project(r) => /\ staging # Nothing /\ staging'.fresh = staging.fresh
                            /\ Receipted(staging') = Receipted(staging)
  <1>1. CASE BootstrapStamp(r)
    <2>1. /\ staging'.head = 0 /\ staging'.seq = [k \in Keys |-> 0] /\ staging'.applied = 0
          /\ staging'.wit = [k \in Keys |-> Nothing] /\ staging'.count = EntryCount
      BY <1>1 DEF BootstrapStamp
    <2>2. staging' \in Generation
      BY <1>1, EntryCountType, StoredFinite
         DEF BootstrapStamp, Generation, Control, ControlType
    <2>3. Receipted(staging') = {}
      BY <2>1 DEF Receipted
    <2>4. Agrees(staging', truth)
      BY <2>1, <2>2, <2>3, FS_EmptySet DEF Agrees
    <2>5. at[r] = "bootstrap"
      BY <1>1 DEF BootstrapStamp
    <2> QED
      BY <2>1, <2>2, <2>4, <2>5, GenerationAssumption DEF Kept, BootstrapList, Project
  <1>2. CASE BootstrapList(r)
    <2>1. staging # Nothing /\ staging' = Filled(staging) /\ at[r] = "list"
      BY <1>2 DEF BootstrapList, Filled, Present
    <2>2. Agrees(staging, truth) /\ (staging.fresh => staging.count = EntryCount)
      BY <2>1 DEF Ledgers, Kept
    <2>3. /\ Agrees(staging', truth) /\ Receipted(staging') = Stored
          /\ staging'.fresh = staging.fresh /\ staging'.count = staging.count
      BY <2>1, <2>2, ListingAgrees DEF Control, ControlType
    <2> QED
      BY <2>1, <2>2, <2>3, GenerationAssumption DEF Kept, Agrees, Project
  <1>3. CASE Project(r)
    <2>1. Agrees(staging, truth) /\ staging # Nothing /\ at[r] = "project"
      BY <1>3 DEF Project, Ledgers, Kept
    <2>2. SameLedger(staging, staging')
      BY <1>3, <2>1, StoredFinite DEF Project, SameLedger, Agrees, Generation
    <2> QED
      BY <2>1, <2>2, SameLedgerKept DEF Ledgers, SameLedger, BootstrapList
  <1> QED
    BY <1>1, <1>2, <1>3

-----------------------------------------------------------------------------
(* Every generation stays sound.                                           *)

LEMMA LedgersStep ==
    ASSUME IInv, [Next]_vars
    PROVE  Ledgers'
  <1> USE DEF IInv
  <1>1. CASE UNCHANGED <<truth, temps, gen, staging>>
    BY <1>1 DEF Ledgers, EntryCount, Stored
  <1>2. CASE Grows(truth, truth') /\ Touched
    BY <1>2, StaleKept DEF Touched, Ledgers
  <1>3. ASSUME NEW w \in Writers, Marks(w)
        PROVE  Ledgers'
    <2>1. UNCHANGED EntryCount
      BY <1>3, MarksEffect DEF EntryCount, Stored
    <2> QED
      BY <1>3, <2>1, MarksEffect, SameLedgerKept DEF Ledgers
  <1>4. ASSUME NEW w \in Writers, Receipts(w)
        PROVE  Ledgers'
    <2>1. UNCHANGED <<truth, temps, staging>> /\ \E k \in Keys : OneMore(gen, gen', k)
      BY <1>4, CommitEffect, RecoverEffect DEF Receipts, OneMore
    <2>2. UNCHANGED EntryCount
      BY <2>1 DEF EntryCount, Stored
    <2> QED
      BY <2>1, <2>2 DEF Ledgers, Kept, OneMore
  <1>5. CASE UNCHANGED <<truth, temps>> /\ gen' \in {gen, Nothing} /\ staging' \in {staging, Nothing}
    BY <1>5 DEF Ledgers, Kept, EntryCount, Stored
  <1>6. ASSUME NEW r \in Rebuilders, Builds(r)
        PROVE  Ledgers'
    <2>0. UNCHANGED <<truth, temps, gen>> /\ UNCHANGED EntryCount
      BY <1>6 DEF Builds, StartRebuild, BootstrapStamp, BootstrapList, Project, AbandonRebuild,
                  events, EntryCount, Stored
    <2>1. CASE StartRebuild(r) \/ AbandonRebuild(r)
      BY <2>0, <2>1, <1>5 DEF StartRebuild, AbandonRebuild
    <2>2. CASE BootstrapStamp(r) \/ BootstrapList(r) \/ Project(r)
      BY <2>0, <2>2, FillsEffect DEF Ledgers
    <2> QED
      BY <1>6, <2>1, <2>2 DEF Builds
  <1>7. ASSUME NEW r \in Rebuilders, Promote(r)
        PROVE  Ledgers'
    BY <1>7 DEF Promote, Ledgers, Kept, events, EntryCount, Stored
  <1>8. ASSUME NEW r \in Rebuilders, Maintain(r)
        PROVE  Ledgers'
    <2>1. gen # Nothing /\ SameLedger(gen, gen')
      BY <1>8, CaughtUpEffect DEF Maintain, Present, Ledgers, Kept
    <2>2. UNCHANGED EntryCount /\ UNCHANGED <<truth, staging>>
      BY <1>8 DEF Maintain, events, EntryCount, Stored
    <2> QED
      BY <2>1, <2>2, SameLedgerKept DEF Ledgers
  <1> QED
    <2>1. \A w \in Writers : Degrade(w) => /\ UNCHANGED <<truth, temps>>
                                           /\ gen' \in {gen, Nothing} /\ staging' \in {staging, Nothing}
      BY DEF Degrade, events
    <2>2. StatusQuarantines => /\ UNCHANGED <<truth, temps>>
                               /\ gen' \in {gen, Nothing} /\ staging' \in {staging, Nothing}
      BY DEF StatusQuarantines, events
    <2>3. UNCHANGED vars => UNCHANGED <<truth, temps, gen, staging>>
      BY DEF vars
    <2> QED
      BY <1>1, <1>2, <1>3, <1>4, <1>5, <1>6, <1>7, <1>8, <2>1, <2>2, <2>3, StepKinds,
         LooksEffect, LogsEffect, OthersEffect, WatchesEffect

-----------------------------------------------------------------------------
(* What the locks protect is still there.                                  *)

\* A step of p moves nobody else.
Moves(p, S) ==
    /\ at'[p] \in S
    /\ \A q \in Procs : q # p => at'[q] = at[q]

\* A stale generation is still there.
LEMMA TouchedPresent ==
    ASSUME Ledgers, Touched
    PROVE  /\ gen' # Nothing <=> gen # Nothing
           /\ staging' # Nothing <=> staging # Nothing
  BY StaleKept DEF Touched, Ledgers, Grows

LEMMA LooksMoves ==
    ASSUME Control, NEW w \in Writers, Looks(w)
    PROVE  Moves(w, WriterSteps) /\ (at'[w] \in Attached => at[w] \in Attached \/ Servable(gen))
  BY DEF Looks, BeginWrite, TryWriterLock, OpenCurrentForWrite, LedgerFails,
     PublishFinds, FinishExisting, FinishCreated, GoLoose, Goto, Moves, Control, ControlType,
     Attached, Locked, WriterSteps, Procs

LEMMA LogsMoves ==
    ASSUME Control, NEW w \in Writers, Logs(w)
    PROVE  Moves(w, WriterSteps) /\ (at'[w] \in Attached => at[w] \in Attached)
  BY DEF Logs, PublishCreates, PublishFails, PublishLoose, CrashWriter, Return, Goto, Moves,
     Control, ControlType, Attached, Locked, WriterSteps, Procs

LEMMA MarksMoves ==
    ASSUME Control, NEW w \in Writers, Marks(w) \/ Receipts(w)
    PROVE  Moves(w, WriterSteps) /\ (at'[w] \in Attached => at[w] \in Attached)
  BY DEF Marks, Receipts, RecoverRetires, RecoverRefuses, CommitIntent, PublishConflicts,
     PublishFailed, FinishUnreceipted, RetireIntent, CatchUp, RecoverPublishes, CommitReceipt,
     Return, Goto, Moves, Control, ControlType, Attached, Locked, WriterSteps, Procs

LEMMA PresentStep ==
    ASSUME IInv, [Next]_vars
    PROVE  Present'
  <1> USE ProcAssumption DEF IInv, Control, Moves, Procs
  <1>1. ASSUME NEW w \in Writers, Looks(w)
        PROVE  Present'
    BY <1>1, LooksEffect, LooksMoves DEF Present, Servable
  <1>2. ASSUME NEW w \in Writers, Logs(w)
        PROVE  Present'
    BY <1>2, LogsEffect, LogsMoves, TouchedPresent DEF Present
  <1>3. ASSUME NEW w \in Writers, Marks(w) \/ Receipts(w)
        PROVE  Present'
    <2>1. staging' = staging /\ (gen # Nothing => gen' # Nothing)
      BY <1>3, MarksEffect, CommitEffect, RecoverEffect, GenerationAssumption
         DEF Receipts, SameLedger, OneMore, Agrees
    <2> QED
      BY <1>3, <2>1, MarksMoves DEF Present
  <1>4. ASSUME NEW w \in Writers, Degrade(w)
        PROVE  Present'
    <2>1. wlock = w /\ at[w] = "degrade"
      BY <1>4 DEF Degrade, WriterHolds, Locked, WriterSteps
    <2>2. Moves(w, {"loose", "idle"})
      BY <1>4 DEF Degrade, GoLoose, Return, Goto, ControlType
    <2> QED
      BY <2>1, <2>2 DEF Present, WriterHolds, RebuilderHolds, Attached, Locked, WriterSteps
  <1>5. ASSUME NEW r \in Rebuilders, Watches(r)
        PROVE  Present'
    <2>1. /\ Moves(r, RebuildSteps)
          /\ at'[r] \in {"list", "promote"} => staging # Nothing
          /\ at'[r] = "maintain" => gen # Nothing
      BY <1>5 DEF Watches, Verify, CheckAuthority, CrashRebuild, StartMaintain, Goto,
                  ControlType, Servable, RebuildSteps
    <2> QED
      BY <1>5, <2>1, WatchesEffect DEF Present
  <1>6. ASSUME NEW r \in Rebuilders, Builds(r)
        PROVE  Present'
    <2>1. CASE StartRebuild(r) \/ AbandonRebuild(r)
      <3>1. /\ Moves(r, {"bootstrap", "idle"}) /\ gen' = gen
            /\ lease = Nothing \/ at[r] \in Leased
        BY <2>1 DEF StartRebuild, AbandonRebuild, Goto, ControlType, Leased, RebuilderHolds
      <3>2. \A q \in Rebuilders : q # r => at[q] \notin Leased
        BY <3>1 DEF RebuilderHolds
      <3> QED
        BY <3>1, <3>2 DEF Present, Leased, RebuildSteps
    <2>2. CASE BootstrapStamp(r) \/ BootstrapList(r) \/ Project(r)
      <3>1. Moves(r, {"list", "project", "verify"}) /\ gen' = gen
        BY <2>2 DEF BootstrapStamp, BootstrapList, Project, Goto, ControlType
      <3>2. staging' # Nothing
        BY <2>2, FillsEffect
      <3> QED
        BY <3>1, <3>2 DEF Present
    <2> QED
      BY <1>6, <2>1, <2>2 DEF Builds
  <1>7. ASSUME NEW r \in Rebuilders, Promote(r)
        PROVE  Present'
    <2>1. wlock = r /\ staging # Nothing
      BY <1>7 DEF Promote, RebuilderHolds, Present
    <2>2. Moves(r, {"idle"}) /\ gen' = staging
      BY <1>7 DEF Promote, Goto, ControlType
    <2> QED
      BY <2>1, <2>2 DEF Present, RebuilderHolds
  <1>8. ASSUME NEW r \in Rebuilders, Maintain(r)
        PROVE  Present'
    <2>1. gen' # Nothing /\ staging' = staging
      BY <1>8, CaughtUpEffect, GenerationAssumption
         DEF Maintain, Present, Ledgers, Kept, SameLedger
    <2>2. Moves(r, {"idle"})
      BY <1>8 DEF Maintain, Goto, ControlType
    <2> QED
      BY <2>1, <2>2 DEF Present
  <1>9. CASE (\E e \in Event : ForeignCreate(e)) \/ SweepTemp
    <2>1. at' = at
      BY <1>9 DEF ForeignCreate, SweepTemp
    <2> QED
      BY <1>9, <2>1, OthersEffect, TouchedPresent DEF Present
  <1>10. CASE StatusQuarantines
    BY <1>10 DEF StatusQuarantines, Present, WriterHolds, RebuilderHolds, Attached
  <1>11. CASE UNCHANGED vars
    BY <1>11 DEF vars, Present
  <1> QED
    BY <1>1, <1>2, <1>3, <1>4, <1>5, <1>6, <1>7, <1>8, <1>9, <1>10, <1>11, StepKinds

-----------------------------------------------------------------------------
(* What has been published, and what has been answered.                    *)

\* The log only ever gets longer.
LEMMA LogGrows ==
    ASSUME Control, [Next]_vars
    PROVE  Grows(truth, truth')
  <1>1. \/ truth' = truth
        \/ \E w \in Writers : Logs(w)
        \/ \E e \in Event : ForeignCreate(e)
        \/ SweepTemp
    <2>1. ASSUME NEW w \in Writers, Marks(w) \/ Receipts(w) \/ Degrade(w)
          PROVE  truth' = truth
      BY <2>1 DEF Marks, Receipts, RecoverRetires, RecoverRefuses, CommitIntent,
         PublishConflicts, PublishFailed, FinishUnreceipted, RetireIntent, CatchUp,
         RecoverPublishes, CommitReceipt, Degrade, events
    <2>2. ASSUME NEW r \in Rebuilders, Builds(r) \/ Promote(r) \/ Maintain(r)
          PROVE  truth' = truth
      BY <2>2 DEF Builds, StartRebuild, BootstrapStamp, BootstrapList, Project, AbandonRebuild,
         Promote, Maintain, events
    <2> QED
      BY <2>1, <2>2, StepKinds, LooksEffect, WatchesEffect DEF StatusQuarantines, events, vars
  <1> QED
    BY <1>1, LogsEffect, OthersEffect DEF Grows

\* While a writer is at work on the generation nobody else adds a receipt.
LEMMA AttachedAlone ==
    ASSUME IInv, [Next]_vars, NEW v \in Writers, at[v] \in Attached, ~Receipts(v)
    PROVE  /\ gen' # Nothing
           /\ gen'.seq = gen.seq /\ gen'.head = gen.head /\ gen'.count = gen.count
           /\ gen'.fresh => gen.fresh
           /\ Receipted(gen') = Receipted(gen)
  <1> DEFINE Same == /\ gen' # Nothing
                     /\ gen'.seq = gen.seq /\ gen'.head = gen.head /\ gen'.count = gen.count
                     /\ gen'.fresh => gen.fresh
                     /\ Receipted(gen') = Receipted(gen)
  <1> USE ProcAssumption DEF IInv
  <1>1. /\ gen # Nothing /\ wlock = v /\ at[v] # "degrade" /\ v \in Procs
        /\ \A w \in Writers : w # v => at[w] \notin Locked
        /\ \A r \in Rebuilders : at[r] \notin {"list", "promote", "maintain"}
    BY DEF Present, Control, WriterHolds, RebuilderHolds, Attached, Locked, WriterSteps, Procs
  <1>2. CASE gen' = gen
    BY <1>1, <1>2
  <1>3. CASE Touched
    BY <1>1, <1>3, StaleKept DEF Touched, Ledgers, Grows
  <1>4. CASE SameLedger(gen, gen')
    BY <1>1, <1>4, SameLedgerKept DEF SameLedger, Ledgers
  <1>5. ASSUME NEW w \in Writers, Looks(w) \/ Logs(w) \/ Marks(w) \/ Receipts(w) \/ Degrade(w)
        PROVE  Same
    <2>1. ~Receipts(w)
      BY <1>1 DEF Receipts, RecoverPublishes, CommitReceipt, Locked, WriterSteps
    <2>2. ~Degrade(w)
      BY <1>1 DEF Degrade, Locked, WriterSteps
    <2> QED
      BY <1>2, <1>3, <1>4, <1>5, <2>1, <2>2, LooksEffect, LogsEffect, MarksEffect
  <1>6. ASSUME NEW r \in Rebuilders, Watches(r) \/ Builds(r) \/ Promote(r) \/ Maintain(r)
        PROVE  Same
    <2>1. ~Promote(r) /\ ~Maintain(r)
      BY <1>1 DEF Promote, Maintain
    <2>2. Builds(r) => gen' = gen
      BY DEF Builds, StartRebuild, BootstrapStamp, BootstrapList, Project, AbandonRebuild
    <2> QED
      BY <1>2, <1>6, <2>1, <2>2, WatchesEffect
  <1>7. CASE StatusQuarantines
    BY <1>1, <1>7 DEF StatusQuarantines, Procs
  <1>8. CASE UNCHANGED vars
    BY <1>2, <1>8 DEF vars
  <1> QED
    BY <1>3, <1>5, <1>6, <1>7, <1>8, StepKinds, OthersEffect

\* The call of a writer is its own.
SameCall(v) == at'[v] = at[v] /\ want'[v] = want[v] /\ out'[v] = out[v] /\ reply'[v] = reply[v]

LEMMA OwnCall ==
    ASSUME Control, [Next]_vars, NEW v \in Writers
    PROVE  SameCall(v) \/ Looks(v) \/ Logs(v) \/ Marks(v) \/ Receipts(v) \/ Degrade(v)
  <1> USE ProcAssumption DEF Control, ControlType, Procs, SameCall, Goto, append, caller
  <1>1. ASSUME NEW w \in Writers, w # v, Looks(w)
        PROVE  SameCall(v)
    BY <1>1 DEF Looks, BeginWrite, TryWriterLock, OpenCurrentForWrite, LedgerFails,
       PublishFinds, FinishExisting, FinishCreated, GoLoose
  <1>2. ASSUME NEW w \in Writers, w # v, Logs(w)
        PROVE  SameCall(v)
    BY <1>2 DEF Logs, PublishCreates, PublishFails, PublishLoose, CrashWriter, Return
  <1>3. ASSUME NEW w \in Writers, w # v, Marks(w)
        PROVE  SameCall(v)
    BY <1>3 DEF Marks, RecoverRetires, RecoverRefuses, CommitIntent, PublishConflicts,
       PublishFailed, FinishUnreceipted, RetireIntent, CatchUp, Return
  <1>4. ASSUME NEW w \in Writers, w # v, Receipts(w) \/ Degrade(w)
        PROVE  SameCall(v)
    BY <1>4 DEF Receipts, RecoverPublishes, CommitReceipt, Degrade, GoLoose, Return
  <1>5. ASSUME NEW r \in Rebuilders, Watches(r) \/ Builds(r) \/ Promote(r) \/ Maintain(r)
        PROVE  SameCall(v)
    BY <1>5 DEF Watches, Builds, Verify, CheckAuthority, CrashRebuild, StartMaintain,
       StartRebuild, BootstrapStamp, BootstrapList, Project, AbandonRebuild, Promote, Maintain
  <1>6. CASE (\E e \in Event : ForeignCreate(e)) \/ SweepTemp \/ StatusQuarantines \/ UNCHANGED vars
    BY <1>6 DEF ForeignCreate, SweepTemp, StatusQuarantines, vars
  <1> QED
    BY <1>1, <1>2, <1>3, <1>4, <1>5, <1>6, StepKinds

LEMMA PublishedStep ==
    ASSUME IInv, [Next]_vars, Control'
    PROVE  Published'
  <1> SUFFICES ASSUME NEW v \in Writers
               PROVE  PublishedBy(v)' /\ AnsweredTo(v)'
    BY DEF Published
  <1> USE DEF IInv
  <1>1. /\ at[v] \in WriterSteps /\ (at[v] # "idle" \/ reply[v] # "none" => want[v] \in Event)
        /\ PublishedBy(v) /\ AnsweredTo(v)
        /\ ControlType /\ v \in Procs
    BY DEF Control, WriterHolds, Published, Procs
  <1>2. ASSUME want[v] \in Event
        PROVE  /\ truth[want[v].key] = want[v].pay => truth'[want[v].key] = want[v].pay
               /\ truth[want[v].key] \notin {Nothing, want[v].pay} =>
                    truth'[want[v].key] \notin {Nothing, want[v].pay}
    BY <1>2, LogGrows, PayAssumption DEF Grows, Event
  <1>3. CASE SameCall(v)
    <2>1. at[v] \in {"published", "commit"} => gen'.seq = gen.seq
      <3>1. at[v] \in {"published", "commit"} => at[v] \in Attached
        BY DEF Attached, Locked, WriterSteps
      <3>2. ~Receipts(v)
        BY <1>1, <1>3 DEF SameCall, Receipts, RecoverPublishes, CommitReceipt, Goto, ControlType
      <3> QED
        BY <3>1, <3>2, AttachedAlone
    <2> QED
      BY <1>1, <1>2, <1>3, <2>1 DEF SameCall, PublishedBy, AnsweredTo
  <1>4. CASE Looks(v)
    <2>1. UNCHANGED <<truth, temps, gen, staging>>
      BY <1>4, LooksEffect
    <2> QED
      BY <1>1, <1>4, <2>1
         DEF Looks, BeginWrite, TryWriterLock, OpenCurrentForWrite, LedgerFails, PublishFinds,
             FinishExisting, FinishCreated, GoLoose, Goto, ControlType, caller, append, Event,
             PublishedBy, AnsweredTo
  <1>5. CASE Logs(v)
    <2>0. at[v] # "idle" /\ want[v] \in Event /\ want' = want
      BY <1>1, <1>5 DEF Logs, PublishCreates, PublishFails, PublishLoose, CrashWriter, caller
    <2>1. CASE PublishCreates(v)
      <3>1. /\ truth[want[v].key] = Nothing /\ NewFile(want[v].key, want[v].pay)
            /\ at[v] = "publish" /\ at'[v] = "published" /\ out'[v] = "Created" /\ reply' = reply
        BY <1>1, <2>0, <2>1
           DEF PublishCreates, Goto, ControlType, Stored, Event, caller
      <3>2. truth'[want[v].key] = want[v].pay
        BY <1>1, <2>0, <3>1, NewFileGrows DEF Event
      <3>3. gen # Nothing /\ gen'.seq = gen.seq
        BY <3>1, TouchedPresent, StaleKept
           DEF Present, Attached, Locked, WriterSteps, NewFile, Touched, Ledgers, Grows
      <3>4. gen.seq[want[v].key] = 0
        BY <2>0, <3>1, <3>3 DEF Ledgers, Kept, Agrees, Event
      <3> QED
        BY <1>1, <1>2, <2>0, <3>1, <3>2, <3>3, <3>4 DEF PublishedBy, AnsweredTo
    <2>2. CASE PublishLoose(v)
      <3>1. at'[v] = "idle" /\ reply'[v] \in {"ok", "conflict"}
        BY <1>1, <2>2 DEF PublishLoose, Return, Goto, ControlType
      <3>2. reply'[v] = "ok" => truth'[want[v].key] = want[v].pay
        BY <1>1, <2>0, <2>2, NewFileGrows
           DEF PublishLoose, Return, ControlType, Stored, Event
      <3>3. reply'[v] = "conflict" => truth'[want[v].key] \notin {Nothing, want[v].pay}
        BY <1>1, <2>0, <2>2
           DEF PublishLoose, Return, ControlType, Stored, Event
      <3> QED
        BY <2>0, <3>1, <3>2, <3>3 DEF PublishedBy, AnsweredTo
    <2>3. CASE PublishFails(v) \/ CrashWriter(v)
      <3>1. /\ at'[v] \in {"idle", "failed"} /\ out' = out
            /\ reply'[v] \in {"none", "error"} \/ reply'[v] = reply[v]
        BY <1>1, <2>3 DEF PublishFails, CrashWriter, Return, Goto, ControlType
      <3> QED
        BY <1>1, <1>2, <2>0, <3>1 DEF PublishedBy, AnsweredTo
    <2> QED
      BY <1>5, <2>1, <2>2, <2>3 DEF Logs
  <1>6. CASE Marks(v) \/ Receipts(v) \/ Degrade(v)
    <2>1. want' = want /\ out' = out /\ truth' = truth /\ at[v] # "idle"
      BY <1>6 DEF Marks, Receipts, RecoverRetires, RecoverRefuses, CommitIntent,
         PublishConflicts, PublishFailed, FinishUnreceipted, RetireIntent, CatchUp,
         RecoverPublishes, CommitReceipt, Degrade, append, caller, events
    <2>2. /\ at'[v] \notin {"published", "commit"}
          /\ at'[v] \in {"retire", "catchup"} => at[v] \in {"commit", "retire"}
      BY <1>1, <1>6 DEF Marks, Receipts, RecoverRetires, RecoverRefuses, CommitIntent,
         PublishConflicts, PublishFailed, FinishUnreceipted, RetireIntent, CatchUp,
         RecoverPublishes, CommitReceipt, Degrade, GoLoose, Return, Goto, ControlType
    <2>3. /\ reply'[v] = "ok" => reply[v] = "ok" \/ at[v] = "catchup" \/ out[v] # "none"
          /\ reply'[v] = "conflict" => \/ reply[v] = "conflict"
                                       \/ truth[want[v].key] \notin {Nothing, want[v].pay}
      BY <1>1, <1>6 DEF Marks, Receipts, RecoverRetires, RecoverRefuses, CommitIntent,
         PublishConflicts, PublishFailed, FinishUnreceipted, RetireIntent, CatchUp,
         RecoverPublishes, CommitReceipt, Degrade, GoLoose, Return, ControlType, caller, Stored
    <2> QED
      BY <1>1, <2>1, <2>2, <2>3 DEF PublishedBy, AnsweredTo
  <1> QED
    BY <1>3, <1>4, <1>5, <1>6, OwnCall

-----------------------------------------------------------------------------
(* The candidate of a rebuild.                                             *)

LEMMA ListedStep ==
    ASSUME IInv, [Next]_vars
    PROVE  Listed'
  <1> DEFINE After == {"project", "verify", "check", "promote"}
  <1> SUFFICES ASSUME NEW q \in Rebuilders, at'[q] \in After, staging' # Nothing, staging'.fresh
               PROVE  Receipted(staging') = Stored'
    BY DEF Listed
  <1> USE ProcAssumption DEF IInv, Control, Procs
  <1>1. ~Touched
    <2>1. Touched /\ staging # Nothing => ~staging'.fresh
      BY StaleKept DEF Touched, Ledgers, Grows
    <2>2. Touched /\ staging = Nothing => staging' = Nothing
      BY DEF Touched, Stale
    <2> QED
      BY <2>1, <2>2
  <1>2. CASE UNCHANGED <<truth, staging>> /\ at[q] \in After
    BY <1>2 DEF Listed, Stored
  <1>3. ASSUME NEW w \in Writers, Looks(w) \/ Logs(w) \/ Marks(w) \/ Receipts(w) \/ Degrade(w)
        PROVE  Receipted(staging') = Stored'
    <2>1. at'[q] = at[q]
      <3>1. Degrade(w) => at'[q] = at[q]
        BY DEF Degrade, GoLoose, Return, Goto, ControlType
      <3> QED
        BY <1>3, <3>1, LooksMoves, LogsMoves, MarksMoves DEF Moves
    <2>2. Degrade(w) => truth' = truth /\ staging' \in {staging, Nothing}
      BY DEF Degrade, events
    <2>3. UNCHANGED <<truth, staging>>
      BY <1>1, <1>3, <2>2, LooksEffect, LogsEffect, MarksEffect, CommitEffect, RecoverEffect
         DEF Receipts
    <2> QED
      BY <1>2, <2>1, <2>3
  <1>4. ASSUME NEW r \in Rebuilders, Watches(r) \/ Maintain(r)
        PROVE  Receipted(staging') = Stored'
    <2>1. at'[q] \in After => at[q] \in After
      BY <1>4 DEF Watches, Verify, CheckAuthority, CrashRebuild, StartMaintain, Maintain, Goto,
                  ControlType
    <2> QED
      BY <1>2, <1>4, <2>1, WatchesEffect DEF Maintain, events
  <1>5. ASSUME NEW r \in Rebuilders, Builds(r) \/ Promote(r)
        PROVE  Receipted(staging') = Stored'
    <2>0. Stored' = Stored
      BY <1>5 DEF Builds, StartRebuild, BootstrapStamp, BootstrapList, Project, AbandonRebuild,
                  Promote, events, Stored
    <2>1. CASE StartRebuild(r) \/ AbandonRebuild(r) \/ Promote(r)
      BY <2>1 DEF StartRebuild, AbandonRebuild, Promote
    <2>2. CASE BootstrapStamp(r)
      <3>1. lease = r /\ at[q] \in Leased /\ at'[r] = "list"
        BY <2>2 DEF BootstrapStamp, Goto, ControlType, RebuilderHolds, Leased, RebuildSteps
      <3> QED
        BY <3>1 DEF RebuilderHolds
    <2>3. CASE BootstrapList(r)
      BY <2>0, <2>3, FillsEffect
    <2>4. CASE Project(r)
      <3>1. at[q] \in Leased /\ lease = r /\ at[r] = "project"
        BY <2>4 DEF Project, Goto, ControlType, RebuilderHolds, Leased, RebuildSteps
      <3>2. q = r
        BY <3>1 DEF RebuilderHolds
      <3> QED
        BY <2>0, <2>4, <3>1, <3>2, FillsEffect DEF Listed
    <2> QED
      BY <1>5, <2>1, <2>2, <2>3, <2>4 DEF Builds
  <1>6. CASE StatusQuarantines \/ UNCHANGED vars
    BY <1>2, <1>6 DEF StatusQuarantines, vars, events
  <1> QED
    BY <1>1, <1>3, <1>4, <1>5, <1>6, StepKinds, OthersEffect

-----------------------------------------------------------------------------
(* The invariant and what follows from it.                                 *)

LEMMA InitIInv == Init => IInv
  <1> SUFFICES ASSUME Init  PROVE IInv
    OBVIOUS
  <1>1. Control
    BY ProcAssumption, ModeAssumption
       DEF Init, Control, ControlType, WriterHolds, RebuilderHolds, WriterSteps, RebuildSteps,
           Locked, Leased, Procs
  <1>2. Ledgers /\ Listed
    BY DEF Init, Ledgers, Kept, Listed
  <1>3. Present
    BY DEF Init, Present, Attached, Locked, Procs
  <1>4. Published
    BY DEF Init, Published, PublishedBy, AnsweredTo, Procs
  <1> QED
    BY <1>1, <1>2, <1>3, <1>4 DEF IInv

LEMMA NextIInv == IInv /\ [Next]_vars => IInv'
  BY ControlStep, LedgersStep, PresentStep, PublishedStep, ListedStep DEF IInv

\* IInv: at every step, whoever died where, each process holds the locks its step
\* needs, both ledgers agree with the log, and what writers were answered is true.
THEOREM InductiveInvariant == Spec => []IInv
  BY InitIInv, NextIInv, PTL DEF Spec

\* TypeOK: every variable has its type, and a lock is held only by a process
\* that is at a step of holding it, through every crash and degradation.
THEOREM TypeCorrect == Spec => []TypeOK
  <1>1. IInv => TypeOK
    BY ProcAssumption
       DEF IInv, Control, ControlType, WriterHolds, RebuilderHolds, Locked, Leased, Ledgers,
           Kept, Agrees, TypeOK, Procs
  <1> QED
    BY <1>1, InductiveInvariant, PTL

\* LedgerSound: whatever is published, lost, recovered or rebuilt, a ledger holds
\* only events of the log, numbered 1 to its head.
THEOREM LedgerIsSound == Spec => []LedgerSound
  <1>1. IInv => LedgerSound
    BY DEF IInv, Ledgers, Kept, Agrees, Receipted, LedgerSound
  <1> QED
    BY <1>1, InductiveInvariant, PTL

\* AnswersAgreeWithTruth: a write that was answered ok has its event in the log,
\* whether it went through the ledger or was degraded on the way; a conflict is
\* reported only against other stored bytes.
THEOREM AnswersAreTrue == Spec => []AnswersAgreeWithTruth
  <1>1. IInv => AnswersAgreeWithTruth
    BY DEF IInv, Published, AnsweredTo, AnswersAgreeWithTruth
  <1> QED
    BY <1>1, InductiveInvariant, PTL

\* CursorIsPermanent: no step but the promotion of another generation gives an
\* event of the ledger another sequence number.
THEOREM CursorsArePermanent == Spec => CursorIsPermanent
  <1>1. ASSUME IInv, [Next]_vars
        PROVE  \/ gen = Nothing
               \/ gen' = Nothing
               \/ \E r \in Rebuilders : at[r] = "promote" /\ at'[r] = "idle"
               \/ \A k \in Receipted(gen) : gen'.seq[k] = gen.seq[k]
    <2> SUFFICES ASSUME gen # Nothing, gen' # Nothing
                 PROVE  \/ gen'.seq = gen.seq
                        \/ \E r \in Rebuilders : at[r] = "promote" /\ at'[r] = "idle"
                        \/ \A k \in Receipted(gen) : gen'.seq[k] = gen.seq[k]
      OBVIOUS
    <2> USE <1>1 DEF IInv
    <2>1. Touched => gen'.seq = gen.seq
      BY StaleKept DEF Touched, Ledgers, Grows
    <2>2. ASSUME NEW w \in Writers, Receipts(w)
          PROVE  \A k \in Receipted(gen) : gen'.seq[k] = gen.seq[k]
      BY <2>2, CommitEffect, RecoverEffect DEF Receipts, OneMore
    <2>3. ASSUME NEW r \in Rebuilders, Promote(r)
          PROVE  at[r] = "promote" /\ at'[r] = "idle"
      BY <2>3 DEF Promote, Goto, Control, ControlType, Procs
    <2>4. ASSUME NEW r \in Rebuilders, Maintain(r)
          PROVE  gen'.seq = gen.seq
      BY <2>4, CaughtUpEffect DEF Maintain, Ledgers, Kept, SameLedger
    <2>5. ASSUME NEW r \in Rebuilders, Builds(r)
          PROVE  gen' = gen
      BY <2>5 DEF Builds, StartRebuild, BootstrapStamp, BootstrapList, Project, AbandonRebuild
    <2>6. (\E w \in Writers : Degrade(w)) => gen' = gen
      BY DEF Degrade
    <2>7. ~StatusQuarantines /\ (UNCHANGED vars => gen' = gen)
      BY DEF StatusQuarantines, vars
    <2> QED
      BY <2>1, <2>2, <2>3, <2>4, <2>5, <2>6, <2>7, StepKinds, LooksEffect, LogsEffect,
         MarksEffect, OthersEffect, WatchesEffect DEF SameLedger
  <1> QED
    BY <1>1, InductiveInvariant, PTL DEF Spec, CursorIsPermanent

-----------------------------------------------------------------------------
(* A generation that may be served is the log.                             *)

\* A ledger that agrees with the log and is one receipt short of it lacks the
\* event that has none.
LEMMA OneMissing ==
    ASSUME NEW g, Agrees(g, truth), NEW k \in Keys, g.seq[k] = 0, truth[k] # Nothing,
           Cardinality(Stored) = g.head + 1
    PROVE  Stored = Receipted(g) \cup {k}
  <1>1. /\ Receipted(g) \subseteq Stored /\ k \in Stored /\ k \notin Receipted(g)
        /\ Cardinality(Receipted(g)) = g.head
    BY DEF Agrees, Receipted, Stored
  <1>2. IsFiniteSet(Receipted(g))
    BY <1>1, StoredFinite, FS_Subset
  <1>3. Cardinality(Receipted(g) \cup {k}) = g.head + 1
    <2>1. Cardinality(Receipted(g) \cup {k}) = Cardinality(Receipted(g)) + 1
      BY <1>1, <1>2, FS_AddElement
    <2> QED
      BY <1>1, <2>1
  <1> QED
    BY <1>1, <1>3, StoredFinite, FS_Subset

LEMMA CountedEntries ==
    ASSUME Control, Counted
    PROVE  EntryCount = Cardinality(Stored)
  BY StoredFinite DEF Counted, Control, ControlType, EntryCount

\* A recovery publishes only the one event that the ledger lacks.
LEMMA RecoverExact ==
    ASSUME IInv, Exact, Guarded, NEW w \in Writers, RecoverPublishes(w)
    PROVE  Receipted(gen') = Stored /\ Foreign
  <1> USE DEF IInv
  <1>1. /\ at[w] = "recover" /\ gen # Nothing /\ gen.intent.key \in Stored \ Receipted(gen)
        /\ OneCreateProved(gen, gen.head + 1) /\ OneMore(gen, gen', gen.intent.key)
    BY RecoverEffect DEF RecoverPublishes
  <1>2. Foreign
    BY <1>1 DEF Exact, ExactFor
  <1>3. Counted /\ ~gen.fresh
    BY <1>1, <1>2 DEF Guarded, Exact, FreshIsExact
  <1>4. Cardinality(Stored) = gen.head + 1
    BY <1>1, <1>3, CountedEntries DEF OneCreateProved, Exact, ExactFor, Counted
  <1>5. Agrees(gen, truth)
    BY <1>1 DEF Ledgers, Kept
  <1> QED
    BY <1>1, <1>2, <1>4, <1>5, OneMissing DEF OneMore

\* The log as a writer knows it does not change behind its back: any change
\* unmakes its stamp, and without older versions only the holder of the
\* authority lock creates anything.
LEMMA LogStands ==
    ASSUME IInv, [Next]_vars, NEW v \in Writers, at[v] # "idle", ~Logs(v)
    PROVE  /\ cap'[v] /\ ~FinishCreated(v) => cap[v] /\ Stored' = Stored
           /\ ~Foreign => Stored' = Stored
  <1> DEFINE Stands == /\ cap'[v] /\ ~FinishCreated(v) => cap[v] /\ Stored' = Stored
                       /\ ~Foreign => Stored' = Stored
  <1> USE DEF IInv, Control
  <1>1. Touched => ~cap'[v]
    BY DEF Touched
  <1>2. ASSUME NEW w \in Writers, Looks(w)
        PROVE  Stands
    <2>1. Stored' = Stored
      BY <1>2, LooksEffect DEF Stored
    <2>2. cap'[v] /\ ~FinishCreated(v) => cap[v]
      BY <1>2 DEF Looks, BeginWrite, TryWriterLock, OpenCurrentForWrite, LedgerFails,
         PublishFinds, FinishExisting, FinishCreated, ControlType, append
    <2> QED
      BY <2>1, <2>2
  <1>3. ASSUME NEW w \in Writers, Logs(w)
        PROVE  Stands
    <2>1. w # v /\ at[w] # "idle"
      BY <1>3 DEF Logs, PublishCreates, PublishFails, PublishLoose, CrashWriter
    <2> QED
      BY <2>1 DEF WriterHolds
  <1>4. ASSUME NEW w \in Writers, Marks(w) \/ Receipts(w) \/ Degrade(w)
        PROVE  Stands
    <2>1. truth' = truth
      BY <1>4 DEF Marks, Receipts, RecoverRetires, RecoverRefuses, CommitIntent,
         PublishConflicts, PublishFailed, FinishUnreceipted, RetireIntent, CatchUp,
         RecoverPublishes, CommitReceipt, Degrade, events
    <2>2. cap'[v] => cap[v]
      BY <1>4 DEF Marks, Receipts, RecoverRetires, RecoverRefuses, CommitIntent,
         PublishConflicts, PublishFailed, FinishUnreceipted, RetireIntent, CatchUp,
         RecoverPublishes, CommitReceipt, Degrade, append, ControlType
    <2> QED
      BY <2>1, <2>2 DEF Stored
  <1>5. ASSUME NEW r \in Rebuilders, Watches(r) \/ Builds(r) \/ Promote(r) \/ Maintain(r)
        PROVE  Stands
    <2>1. truth' = truth /\ cap' = cap
      BY <1>5 DEF Watches, Builds, Verify, CheckAuthority, CrashRebuild, StartMaintain,
         StartRebuild, BootstrapStamp, BootstrapList, Project, AbandonRebuild, Promote,
         Maintain, events, append
    <2> QED
      BY <2>1 DEF Stored
  <1>6. CASE (\E e \in Event : ForeignCreate(e)) \/ SweepTemp
    BY <1>1, <1>6, OthersEffect DEF ForeignCreate, SweepTemp, Stored
  <1>7. CASE StatusQuarantines \/ UNCHANGED vars
    BY <1>7 DEF StatusQuarantines, vars, events, append, Stored
  <1> QED
    BY <1>2, <1>3, <1>4, <1>5, <1>6, <1>7, StepKinds

LEMMA FreshStep ==
    ASSUME IInv, Exact, Guarded, [Next]_vars
    PROVE  FreshIsExact'
  <1> SUFFICES ASSUME gen' # Nothing, gen'.fresh
               PROVE  Receipted(gen') = Stored'
    BY DEF FreshIsExact
  <1> USE DEF IInv
  <1>1. ~Touched
    <2>1. Touched /\ gen # Nothing => ~gen'.fresh
      BY StaleKept DEF Touched, Ledgers, Grows
    <2>2. Touched /\ gen = Nothing => gen' = Nothing
      BY DEF Touched, Stale
    <2> QED
      BY <2>1, <2>2
  <1>2. CASE UNCHANGED <<truth, gen>>
    BY <1>2 DEF Exact, FreshIsExact, Stored
  <1>3. CASE truth' = truth /\ gen # Nothing /\ SameLedger(gen, gen')
    <2>1. Receipted(gen') = Receipted(gen) /\ gen.fresh
      BY <1>3, SameLedgerKept DEF SameLedger, Ledgers
    <2> QED
      BY <1>3, <2>1 DEF Exact, FreshIsExact, Stored
  <1>4. ASSUME NEW w \in Writers, CommitReceipt(w)
        PROVE  Receipted(gen') = Stored'
    <2>1. /\ truth' = truth /\ cap[w] /\ at[w] = "commit"
          /\ Receipted(gen') = Receipted(gen) \cup {want[w].key}
      BY <1>4, CommitEffect DEF OneMore, CommitReceipt
    <2> QED
      BY <2>1 DEF Exact, ExactFor, Stored
  <1>5. ASSUME NEW w \in Writers, RecoverPublishes(w)
        PROVE  Receipted(gen') = Stored'
    BY <1>5, RecoverExact, RecoverEffect DEF Stored
  <1>6. ASSUME NEW r \in Rebuilders, Promote(r)
        PROVE  Receipted(gen') = Stored'
    BY <1>6 DEF Promote, Listed, events, Stored
  <1>7. ASSUME NEW r \in Rebuilders, Maintain(r)
        PROVE  Receipted(gen') = Stored'
    BY <1>3, <1>7, CaughtUpEffect DEF Maintain, Present, Ledgers, Kept, events
  <1>8. ASSUME NEW r \in Rebuilders, Builds(r)
        PROVE  UNCHANGED <<truth, gen>>
    BY <1>8 DEF Builds, StartRebuild, BootstrapStamp, BootstrapList, Project, AbandonRebuild,
                events
  <1>9. (\E w \in Writers : Degrade(w)) => UNCHANGED <<truth, gen>>
    BY DEF Degrade, events
  <1>10. StatusQuarantines \/ UNCHANGED vars => UNCHANGED <<truth, gen>>
    BY DEF StatusQuarantines, vars, events
  <1> QED
    BY <1>1, <1>2, <1>3, <1>4, <1>5, <1>6, <1>7, <1>8, <1>9, <1>10, StepKinds, LooksEffect,
       LogsEffect, MarksEffect, OthersEffect, WatchesEffect DEF Receipts

LEMMA ExactForStep ==
    ASSUME IInv, Exact, Guarded, [Next]_vars, NEW v \in Writers
    PROVE  ExactFor(v)'
  <1> DEFINE Early == {"recover", "intent", "publish"}
             Ours == Receipted(gen) \cup {want[v].key}
  <1> USE DEF IInv, Control
  <1>1. ExactFor(v) /\ FreshIsExact /\ v \in Procs /\ at[v] \in WriterSteps
    BY DEF Exact, Procs, WriterHolds
  <1>2. at[v] \in Early \cup {"published", "commit"} => at[v] \in Attached
    BY DEF Attached, Locked, WriterSteps
  <1>3. CASE SameCall(v)
    <2>0. SUFFICES ASSUME at[v] \in Early \cup {"published", "commit"}
                   PROVE  ExactFor(v)'
      BY <1>3 DEF SameCall, ExactFor
    <2>1. ~Receipts(v) /\ ~FinishCreated(v)
      BY <1>1, <1>3 DEF SameCall, Receipts, RecoverPublishes, CommitReceipt, FinishCreated,
                        Goto, ControlType
    <2>2. ~Logs(v)
      BY <1>1, <1>3, <2>0 DEF SameCall, Logs, PublishCreates, PublishFails, PublishLoose,
                              CrashWriter, Return, Goto, ControlType
    <2>3. /\ Receipted(gen') = Receipted(gen) /\ gen'.count = gen.count /\ gen'.head = gen.head
      BY <1>2, <2>0, <2>1, AttachedAlone
    <2>4. /\ cap'[v] => cap[v] /\ Stored' = Stored
          /\ ~Foreign => Stored' = Stored
      BY <2>0, <2>1, <2>2, LogStands
    <2> QED
      BY <1>1, <1>3, <2>3, <2>4 DEF SameCall, ExactFor
  <1>4. CASE Looks(v)
    <2>0. UNCHANGED <<truth, temps, gen, staging>> /\ Stored' = Stored
      BY <1>4, LooksEffect DEF Stored
    <2>1. CASE OpenCurrentForWrite(v)
      <3>1. /\ at'[v] \in {"recover", "loose"}
            /\ at'[v] = "recover" => Servable(gen)
        BY <1>1, <2>1 DEF OpenCurrentForWrite, GoLoose, Goto, ControlType
      <3>2. ASSUME Servable(gen)
            PROVE  Receipted(gen) = Stored /\ (Counted => gen.count = gen.head)
        BY <1>1, <3>2, CountedEntries DEF Servable, FreshIsExact, Ledgers, Kept, Agrees
      <3> QED
        BY <2>0, <3>1, <3>2 DEF ExactFor
    <2>2. CASE PublishFinds(v)
      BY <1>1, <2>0, <2>2 DEF PublishFinds, Goto, ControlType, ExactFor
    <2>3. CASE FinishCreated(v)
      <3>1. /\ at[v] = "published" /\ out[v] = "Created" /\ want' = want
            /\ at'[v] \in {"commit", "degrade"} /\ (at'[v] = "commit" => Accepted(v))
        BY <1>1, <2>3 DEF FinishCreated, Goto, ControlType, caller
      <3>2. ASSUME Accepted(v)
            PROVE  Stored = Ours
        <4>1. CASE ~Foreign
          BY <1>1, <3>1, <4>1 DEF ExactFor
        <4>2. CASE Counted
          <5>1. Cardinality(Stored) = gen.head + 1
            BY <1>1, <3>1, <3>2, <4>2, CountedEntries DEF Accepted, ExactFor, Counted
          <5>2. /\ want[v] \in Event /\ truth[want[v].key] = want[v].pay
                /\ gen.seq[want[v].key] = 0 /\ gen # Nothing
            BY <1>2, <3>1 DEF WriterHolds, Published, PublishedBy, Present
          <5> QED
            BY <5>1, <5>2, OneMissing, PayAssumption DEF Event, Ledgers, Kept
        <4> QED
          BY <4>1, <4>2 DEF Guarded
      <3> QED
        BY <2>0, <3>1, <3>2 DEF ExactFor
    <2>4. CASE ~OpenCurrentForWrite(v) /\ ~PublishFinds(v) /\ ~FinishCreated(v)
      <3>1. at'[v] \notin Early \cup {"published", "commit"}
        BY <1>1, <1>4, <2>4 DEF Looks, BeginWrite, TryWriterLock, LedgerFails, FinishExisting,
           GoLoose, Goto, ControlType
      <3> QED
        BY <3>1 DEF ExactFor
    <2> QED
      BY <2>1, <2>2, <2>3, <2>4
  <1>5. CASE Logs(v)
    <2>1. CASE PublishCreates(v)
      <3>1. /\ at[v] = "publish" /\ at'[v] = "published" /\ want' = want
            /\ want[v] \in Event /\ truth[want[v].key] = Nothing
            /\ NewFile(want[v].key, want[v].pay)
        BY <1>1, <2>1
           DEF PublishCreates, Goto, ControlType, WriterHolds, caller, Stored, Event
      <3>2. Stored' = Stored \cup {want[v].key}
        BY <3>1, NewFileGrows DEF Event
      <3>3. ~Receipts(v)
        BY <3>1 DEF Receipts, RecoverPublishes, CommitReceipt
      <3>4. Receipted(gen') = Receipted(gen) /\ gen'.count = gen.count /\ gen'.head = gen.head
        BY <1>2, <3>1, <3>3, AttachedAlone
      <3> QED
        BY <1>1, <3>1, <3>2, <3>4 DEF ExactFor
    <2>2. CASE PublishFails(v) \/ PublishLoose(v) \/ CrashWriter(v)
      <3>1. at'[v] \in {"idle", "failed"}
        BY <1>1, <2>2 DEF PublishFails, PublishLoose, CrashWriter, Return, Goto, ControlType
      <3> QED
        BY <3>1 DEF ExactFor
    <2> QED
      BY <1>5, <2>1, <2>2 DEF Logs
  <1>6. CASE RecoverRetires(v) \/ CommitIntent(v)
    <2>1. /\ at[v] \in {"recover", "intent"} /\ at'[v] \in {"intent", "publish"}
          /\ Stored' = Stored
      BY <1>1, <1>6 DEF RecoverRetires, CommitIntent, Goto, ControlType, events, Stored
    <2>2. ~Receipts(v)
      BY <1>1, <1>6, <2>1
         DEF Receipts, RecoverPublishes, CommitReceipt, RecoverRetires, CommitIntent
    <2>3. Receipted(gen') = Receipted(gen) /\ gen'.count = gen.count /\ gen'.head = gen.head
      BY <1>2, <2>1, <2>2, AttachedAlone
    <2> QED
      BY <1>1, <2>1, <2>3 DEF ExactFor
  <1>7. CASE RecoverPublishes(v)
    <2>1. /\ at'[v] = "intent" /\ Foreign /\ Receipted(gen') = Stored
          /\ OneMore(gen, gen', gen.intent.key)
      BY <1>1, <1>7, RecoverExact, RecoverEffect DEF RecoverPublishes, Goto, ControlType
    <2>2. gen'.count = EntryCount /\ Cardinality(Stored) = gen'.head
      BY <2>1 DEF OneMore, Agrees
    <2> QED
      BY <2>1, <2>2, CountedEntries DEF ExactFor
  <1>8. CASE CommitReceipt(v) \/ Degrade(v) \/ (Marks(v) /\ ~RecoverRetires(v) /\ ~CommitIntent(v))
    <2>1. at'[v] \notin Early \cup {"published", "commit"}
      BY <1>1, <1>8 DEF Marks, RecoverRefuses, PublishConflicts, PublishFailed,
         FinishUnreceipted, RetireIntent, CatchUp, CommitReceipt, Degrade, GoLoose, Return,
         Goto, ControlType
    <2> QED
      BY <2>1 DEF ExactFor
  <1> QED
    BY <1>3, <1>4, <1>5, <1>6, <1>7, <1>8, OwnCall DEF Receipts

\* CurrentIsExact: a generation whose stamp is the directory's present one holds
\* exactly the log.  Where older versions create events with no lock this needs
\* the entry count of macOS, and no temp file that may go at the same time.
THEOREM CurrentGenerationIsExact ==
    ASSUME Guarded
    PROVE  Spec => []CurrentIsExact
  <1>1. Init => Exact
    BY DEF Init, Exact, FreshIsExact, ExactFor, Procs
  <1>2. IInv /\ Exact /\ [Next]_vars => Exact'
    BY FreshStep, ExactForStep DEF Exact
  <1>3. IInv /\ Exact => CurrentIsExact
    <2> SUFFICES ASSUME IInv, Exact, Servable(gen)
                 PROVE  Receipted(gen) = Stored /\ gen.wit = truth
      BY DEF CurrentIsExact
    <2>1. Receipted(gen) = Stored /\ Agrees(gen, truth)
      BY DEF Exact, FreshIsExact, Servable, IInv, Ledgers, Kept
    <2>2. /\ gen.wit \in [Keys -> Pays \cup {Nothing}] /\ truth \in [Keys -> Pays \cup {Nothing}]
          /\ \A k \in Keys : gen.wit[k] = truth[k]
      BY <2>1 DEF Agrees, Generation, Receipted, Stored, IInv, Control, ControlType
    <2> QED
      BY <2>1, <2>2
  <1> QED
    BY <1>1, <1>2, <1>3, InductiveInvariant, PTL DEF Spec
=============================================================================

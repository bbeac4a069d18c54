-------------------------- MODULE EventStoreProofs --------------------------
(***************************************************************************)
(* Proofs about EventStore, for any number of processes, keys and          *)
(* artifacts.  TypeOK is inductive on its own; the properties of the store *)
(* need to know besides who holds the lock (LockInv), what a temp file can *)
(* hold at each step of create_file_exclusive (TempInv), and that a file   *)
(* about to be synced is visible (SyncInv).                                *)
(***************************************************************************)
EXTENDS EventStore, TLAPS

\* An event is written only by the holder of the authority lock.
LockInv ==
    \A p \in Procs :
        (pc[p] \in {"admit", "batch"} \/ target[p] \in Keys) => authority = p

\* A temp file exists only between its creation and the link, and at the link
\* it has all of the bytes.
TempInv ==
    \A p \in Procs :
        temp[p] # Absent =>
            \/ pc[p] = "write"
            \/ pc[p] = "link" /\ temp[p] = bytes[p]

\* A writer that is about to sync the directory has its file in it.
SyncInv == \A p \in Procs : pc[p] = "sync" => target[p] \in Present

\* What was answered Created has its entry synced, and what has is there.
DurableInv == created \subseteq durable /\ durable \subseteq Present

StoreInv ==
    /\ LockInv
    /\ TempInv
    /\ SyncInv
    /\ NoPartialVisible
    /\ ExistsCheckNeverStale
    /\ DurableInv

-----------------------------------------------------------------------------

LEMMA InitTypeOK == Init => TypeOK
  BY MarkAssumption DEF Init, TypeOK, InCreate, Steps, Replies, Paths, Bodies, Dirs

LEMMA NextTypeOK == TypeOK /\ [Next]_vars => TypeOK'
  <1> SUFFICES ASSUME TypeOK, [Next]_vars PROVE TypeOK'
    OBVIOUS
  <1> USE MarkAssumption, PathAssumption
      DEF TypeOK, InCreate, Steps, Paths, disk, call
  <1>1. CASE UNCHANGED vars
    BY <1>1 DEF vars
  <1>2. ASSUME NEW p \in Procs, NEW b \in Blobs, PutOnce(p, b) PROVE TypeOK'
    BY <1>2 DEF PutOnce, Call, Body, Bodies, Replies
  <1>3. ASSUME NEW p \in Procs, BeginBatch(p) PROVE TypeOK'
    BY <1>3 DEF BeginBatch, Replies
  <1>4. ASSUME NEW p \in Procs, Acquire(p) PROVE TypeOK'
    BY <1>4 DEF Acquire
  <1>5. ASSUME NEW p \in Procs, Admit(p) PROVE TypeOK'
    BY <1>5 DEF Admit
  <1>6. ASSUME NEW p \in Procs, Refuse(p) PROVE TypeOK'
    BY <1>6 DEF Refuse, Abort, NoCall, Unlock, Replies, Bodies
  <1>7. ASSUME NEW p \in Procs, NEW k \in Keys, NEW r \in Record, RecordEvent(p, k, r)
        PROVE TypeOK'
    BY <1>7 DEF RecordEvent, Call, Body, Bodies, Replies
  <1>8. ASSUME NEW p \in Procs, EndBatch(p) PROVE TypeOK'
    BY <1>8 DEF EndBatch, Unlock
  <1>9. ASSUME NEW p \in Procs, CheckExists(p) PROVE TypeOK'
    BY <1>9 DEF CheckExists
  <1>10. ASSUME NEW p \in Procs, OpenTemp(p) PROVE TypeOK'
    BY <1>10 DEF OpenTemp, CreateDirAll, Dirs, Directory
  <1>11. ASSUME NEW p \in Procs, WriteTemp(p) PROVE TypeOK'
    BY <1>11 DEF WriteTemp, Body
  <1>12. ASSUME NEW p \in Procs, LinkCreates(p) PROVE TypeOK'
    BY <1>12 DEF LinkCreates
  <1>13. ASSUME NEW p \in Procs, LinkFindsExisting(p) PROVE TypeOK'
    BY <1>13 DEF LinkFindsExisting
  <1>14. ASSUME NEW p \in Procs, LinkFindsNoTemp(p) PROVE TypeOK'
    BY <1>14 DEF LinkFindsNoTemp, Abort, NoCall, Unlock, Replies, Bodies
  <1>15. ASSUME NEW p \in Procs, SyncParent(p) PROVE TypeOK'
    BY <1>15 DEF SyncParent, Succeed, NoCall, Replies, Present, Entries, Bodies
  <1>16. ASSUME NEW p \in Procs, ReadBackEvent(p) PROVE TypeOK'
    BY <1>16 DEF ReadBackEvent, Succeed, Abort, NoCall, Unlock, Replies,
                 ExistingOutcome, Bodies
  <1>17. ASSUME NEW p \in Procs, ReadBackArtifact(p) PROVE TypeOK'
    BY <1>17 DEF ReadBackArtifact, Succeed, Abort, NoCall, Unlock, Replies, Bodies
  <1>18. ASSUME NEW p \in Procs, IoError(p) PROVE TypeOK'
    BY <1>18 DEF IoError, Abort, NoCall, Unlock, Replies, Bodies
  <1>19. ASSUME NEW p \in Procs, NEW q \in Procs, SweepTemp(p, q) PROVE TypeOK'
    BY <1>19 DEF SweepTemp
  <1>20. ASSUME NEW p \in Procs, Crash(p) PROVE TypeOK'
    BY <1>20 DEF Crash, Abort, NoCall, Unlock, Replies, Bodies
  <1>21. ASSUME LosePower PROVE TypeOK'
    BY <1>21 DEF LosePower, Present, Entries, Replies, Bodies, Dirs
  <1>22. ASSUME NEW p \in Procs, NEW d \in Dirs, EnsureStoreDirs(p, d) PROVE TypeOK'
    BY <1>22 DEF EnsureStoreDirs, CreateDirAll
  <1> QED
    BY <1>1, <1>2, <1>3, <1>4, <1>5, <1>6, <1>7, <1>8, <1>9, <1>10, <1>11, <1>12,
       <1>13, <1>14, <1>15, <1>16, <1>17, <1>18, <1>19, <1>20, <1>21, <1>22
       DEF Next, CreateStep

\* Every variable keeps its type, and a process has call arguments that fit
\* their path exactly while it is inside create_file_exclusive.
THEOREM TypeCorrect == Spec => []TypeOK
  BY InitTypeOK, NextTypeOK, PTL DEF Spec
-----------------------------------------------------------------------------

LEMMA InitStoreInv == Init => StoreInv
  BY MarkAssumption DEF Init, StoreInv, LockInv, TempInv, SyncInv, NoPartialVisible,
     ExistsCheckNeverStale, DurableInv, Present, Paths

LEMMA NextStoreInv == TypeOK /\ StoreInv /\ [Next]_vars => StoreInv'
  <1> SUFFICES ASSUME TypeOK, StoreInv, [Next]_vars PROVE StoreInv'
    OBVIOUS
  <1> USE MarkAssumption, PathAssumption
      DEF TypeOK, StoreInv, LockInv, TempInv, SyncInv, NoPartialVisible,
          ExistsCheckNeverStale, DurableInv, InCreate, Paths, Present, Bodies, Body,
          disk, call
  <1>1. CASE UNCHANGED vars
    BY <1>1 DEF vars
  <1>2. ASSUME NEW p \in Procs, NEW b \in Blobs, PutOnce(p, b) PROVE StoreInv'
    BY <1>2 DEF PutOnce, Call
  <1>3. ASSUME NEW p \in Procs, BeginBatch(p) PROVE StoreInv'
    BY <1>3 DEF BeginBatch
  <1>4. ASSUME NEW p \in Procs, Acquire(p) PROVE StoreInv'
    BY <1>4 DEF Acquire
  <1>5. ASSUME NEW p \in Procs, Admit(p) PROVE StoreInv'
    BY <1>5 DEF Admit
  <1>6. ASSUME NEW p \in Procs, Refuse(p) PROVE StoreInv'
    BY <1>6 DEF Refuse, Abort, NoCall, Unlock
  <1>7. ASSUME NEW p \in Procs, NEW k \in Keys, NEW r \in Record, RecordEvent(p, k, r)
        PROVE StoreInv'
    BY <1>7 DEF RecordEvent, Call
  <1>8. ASSUME NEW p \in Procs, EndBatch(p) PROVE StoreInv'
    BY <1>8 DEF EndBatch, Unlock
  <1>9. ASSUME NEW p \in Procs, CheckExists(p) PROVE StoreInv'
    BY <1>9 DEF CheckExists
  <1>10. ASSUME NEW p \in Procs, OpenTemp(p) PROVE StoreInv'
    BY <1>10 DEF OpenTemp
  <1>11. ASSUME NEW p \in Procs, WriteTemp(p) PROVE StoreInv'
    BY <1>11 DEF WriteTemp
  <1>12. ASSUME NEW p \in Procs, LinkCreates(p) PROVE StoreInv'
    BY <1>12 DEF LinkCreates
  <1>13. ASSUME NEW p \in Procs, LinkFindsExisting(p) PROVE StoreInv'
    BY <1>13 DEF LinkFindsExisting
  <1>14. ASSUME NEW p \in Procs, LinkFindsNoTemp(p) PROVE StoreInv'
    BY <1>14 DEF LinkFindsNoTemp, Abort, NoCall, Unlock
  <1>15. ASSUME NEW p \in Procs, SyncParent(p) PROVE StoreInv'
    BY <1>15 DEF SyncParent, Succeed, NoCall, Entries, Directory
  <1>16. ASSUME NEW p \in Procs, ReadBackEvent(p) PROVE StoreInv'
    BY <1>16 DEF ReadBackEvent, Succeed, Abort, NoCall, Unlock, ExistingOutcome
  <1>17. ASSUME NEW p \in Procs, ReadBackArtifact(p) PROVE StoreInv'
    BY <1>17 DEF ReadBackArtifact, Succeed, Abort, NoCall, Unlock
  <1>18. ASSUME NEW p \in Procs, IoError(p) PROVE StoreInv'
    BY <1>18 DEF IoError, Abort, NoCall, Unlock
  <1>19. ASSUME NEW p \in Procs, NEW q \in Procs, SweepTemp(p, q) PROVE StoreInv'
    BY <1>19 DEF SweepTemp
  <1>20. ASSUME NEW p \in Procs, Crash(p) PROVE StoreInv'
    BY <1>20 DEF Crash, Abort, NoCall, Unlock
  <1>21. ASSUME LosePower PROVE StoreInv'
    BY <1>21 DEF LosePower, Entries
  <1>22. ASSUME NEW p \in Procs, NEW d \in Dirs, EnsureStoreDirs(p, d) PROVE StoreInv'
    BY <1>22 DEF EnsureStoreDirs
  <1> QED
    BY <1>1, <1>2, <1>3, <1>4, <1>5, <1>6, <1>7, <1>8, <1>9, <1>10, <1>11, <1>12,
       <1>13, <1>14, <1>15, <1>16, <1>17, <1>18, <1>19, <1>20, <1>21, <1>22
       DEF Next, CreateStep

LEMMA StoreInvariant == Spec => [](TypeOK /\ StoreInv)
  <1>1. Init => TypeOK /\ StoreInv
    BY InitTypeOK, InitStoreInv
  <1>2. TypeOK /\ StoreInv /\ [Next]_vars => (TypeOK /\ StoreInv)'
    BY NextTypeOK, NextStoreInv
  <1> QED
    BY <1>1, <1>2, PTL DEF Spec

\* Whatever is visible at a final path was written in full for that path, at
\* every moment of every create_file_exclusive, kills, the temp sweep and
\* power loss included.
THEOREM NeverPartial == Spec => []NoPartialVisible
  <1>1. StoreInv => NoPartialVisible
    BY DEF StoreInv
  <1> QED
    BY <1>1, StoreInvariant, PTL

\* Under the authority lock the existence check of create_file_exclusive is
\* never stale when the link comes.
THEOREM CheckedUnderLock == Spec => []ExistsCheckNeverStale
  <1>1. StoreInv => ExistsCheckNeverStale
    BY DEF StoreInv
  <1> QED
    BY <1>1, StoreInvariant, PTL

\* A path answered for is forgotten only with its directory.
LEMMA CreatedKept ==
    ASSUME TypeOK, [Next]_vars, NEW f \in created, f \notin created'
    PROVE  dirs[Directory(f)] = "fresh" /\ dirs'[Directory(f)] = "absent"
  <1> USE DEF disk, call
  <1>1. CASE UNCHANGED vars
    BY <1>1 DEF vars
  <1>2. ASSUME NEW p \in Procs, CreateStep(p) PROVE FALSE
    BY <1>2 DEF CreateStep, CheckExists, OpenTemp, WriteTemp, LinkCreates,
                LinkFindsExisting, LinkFindsNoTemp, SyncParent, ReadBackEvent,
                ReadBackArtifact, Succeed, Abort
  <1>3. ASSUME NEW p \in Procs,
               \/ \E d \in Dirs : EnsureStoreDirs(p, d)
               \/ \E b \in Blobs : PutOnce(p, b)
               \/ \E k \in Keys, r \in Record : RecordEvent(p, k, r)
               \/ \E q \in Procs : SweepTemp(p, q)
        PROVE FALSE
    BY <1>3 DEF EnsureStoreDirs, PutOnce, RecordEvent, SweepTemp
  <1>4. ASSUME NEW p \in Procs,
               \/ BeginBatch(p) \/ Acquire(p) \/ Admit(p) \/ Refuse(p)
               \/ EndBatch(p) \/ IoError(p) \/ Crash(p)
        PROVE FALSE
    BY <1>4 DEF BeginBatch, Acquire, Admit, Refuse, EndBatch, IoError, Crash, Abort
  <1>5. CASE LosePower
    BY <1>5 DEF LosePower
  <1> QED
    BY <1>1, <1>2, <1>3, <1>4, <1>5 DEF Next

\* What some call has answered Created for survives every crash, and every
\* loss of power but one that takes a directory made since the one before
\* it: the answer comes after the fsync of the file's own directory, and no
\* fsync of the directory above ever does.
THEOREM CreatedIsDurable == Spec => CreatedSurvives
  <1> DEFINE Kept == \A f \in created :
                        \/ f \in Present'
                        \/ dirs[Directory(f)] = "fresh" /\ dirs'[Directory(f)] = "absent"
  <1>1. TypeOK /\ StoreInv' /\ [Next]_vars => [Kept]_vars
    BY CreatedKept DEF StoreInv, DurableInv
  <1> QED
    BY <1>1, StoreInvariant, PTL DEF Spec, CreatedSurvives

-----------------------------------------------------------------------------

\* What a workflow has stored is there, and its event is written after it.
StagedInv ==
    /\ \A p \in Procs : staged[p] \subseteq Present
    /\ \A p \in Procs : target[p] \in Keys => Needs[target[p]] \subseteq staged[p]

LEMMA InitStaged == Init => StagedInv /\ EventHasItsArtifacts
  BY MarkAssumption DEF Init, StagedInv, EventHasItsArtifacts, Paths

LEMMA NextStaged ==
    ASSUME ~PowerLoss
    PROVE  TypeOK /\ StoreInv /\ StagedInv /\ EventHasItsArtifacts /\ [Next]_vars
             => (StagedInv /\ EventHasItsArtifacts)'
  <1> DEFINE Goal == StagedInv /\ EventHasItsArtifacts
  <1> SUFFICES ASSUME TypeOK, StoreInv, Goal, [Next]_vars PROVE Goal'
    OBVIOUS
  <1> USE MarkAssumption, PathAssumption, NeedsAssumption
      DEF TypeOK, StagedInv, EventHasItsArtifacts, InCreate, Paths, Present,
          disk, call
  <1>1. CASE UNCHANGED vars
    BY <1>1 DEF vars
  <1>2. ASSUME NEW p \in Procs, NEW b \in Blobs, PutOnce(p, b) PROVE Goal'
    BY <1>2 DEF PutOnce, Call
  <1>3. ASSUME NEW p \in Procs, BeginBatch(p) PROVE Goal'
    BY <1>3 DEF BeginBatch
  <1>4. ASSUME NEW p \in Procs, Acquire(p) PROVE Goal'
    BY <1>4 DEF Acquire
  <1>5. ASSUME NEW p \in Procs, Admit(p) PROVE Goal'
    BY <1>5 DEF Admit
  <1>6. ASSUME NEW p \in Procs, Refuse(p) PROVE Goal'
    BY <1>6 DEF Refuse, Abort, NoCall
  <1>7. ASSUME NEW p \in Procs, NEW k \in Keys, NEW r \in Record, RecordEvent(p, k, r)
        PROVE Goal'
    BY <1>7 DEF RecordEvent, Call
  <1>8. ASSUME NEW p \in Procs, EndBatch(p) PROVE Goal'
    BY <1>8 DEF EndBatch
  <1>9. ASSUME NEW p \in Procs, CheckExists(p) PROVE Goal'
    BY <1>9 DEF CheckExists
  <1>10. ASSUME NEW p \in Procs, OpenTemp(p) PROVE Goal'
    BY <1>10 DEF OpenTemp
  <1>11. ASSUME NEW p \in Procs, WriteTemp(p) PROVE Goal'
    BY <1>11 DEF WriteTemp
  <1>12. ASSUME NEW p \in Procs, LinkCreates(p) PROVE Goal'
    BY <1>12 DEF LinkCreates
  <1>13. ASSUME NEW p \in Procs, LinkFindsExisting(p) PROVE Goal'
    BY <1>13 DEF LinkFindsExisting
  <1>14. ASSUME NEW p \in Procs, LinkFindsNoTemp(p) PROVE Goal'
    BY <1>14 DEF LinkFindsNoTemp, Abort, NoCall
  <1>15. ASSUME NEW p \in Procs, SyncParent(p) PROVE Goal'
    BY <1>15 DEF SyncParent, Succeed, NoCall, StoreInv, SyncInv
  <1>16. ASSUME NEW p \in Procs, ReadBackEvent(p) PROVE Goal'
    BY <1>16 DEF ReadBackEvent, Succeed, Abort, NoCall
  <1>17. ASSUME NEW p \in Procs, ReadBackArtifact(p) PROVE Goal'
    BY <1>17 DEF ReadBackArtifact, Succeed, Abort, NoCall, Body, Bodies
  <1>18. ASSUME NEW p \in Procs, IoError(p) PROVE Goal'
    BY <1>18 DEF IoError, Abort, NoCall
  <1>19. ASSUME NEW p \in Procs, NEW q \in Procs, SweepTemp(p, q) PROVE Goal'
    BY <1>19 DEF SweepTemp
  <1>20. ASSUME NEW p \in Procs, Crash(p) PROVE Goal'
    BY <1>20 DEF Crash, Abort, NoCall
  <1>21. ~LosePower
    BY DEF LosePower
  <1>22. ASSUME NEW p \in Procs, NEW d \in Dirs, EnsureStoreDirs(p, d) PROVE Goal'
    BY <1>22 DEF EnsureStoreDirs
  <1> QED
    BY <1>1, <1>2, <1>3, <1>4, <1>5, <1>6, <1>7, <1>8, <1>9, <1>10, <1>11, <1>12,
       <1>13, <1>14, <1>15, <1>16, <1>17, <1>18, <1>19, <1>20, <1>21, <1>22
       DEF Next, CreateStep

\* As long as the machine keeps its power, every event in the log has every
\* artifact it names: the workflows store the artifacts before the event, and
\* no kill, I/O error or temp sweep in between can make the event come first.
THEOREM ArtifactsComeFirst ==
    ASSUME ~PowerLoss
    PROVE  Spec => []EventHasItsArtifacts
  <1>1. Init => StagedInv /\ EventHasItsArtifacts
    BY InitStaged
  <1>2. TypeOK /\ StoreInv /\ StagedInv /\ EventHasItsArtifacts /\ [Next]_vars
          => (StagedInv /\ EventHasItsArtifacts)'
    BY NextStaged
  <1> QED
    BY <1>1, <1>2, StoreInvariant, PTL DEF Spec

(***************************************************************************)
(* EventStore implements EventLog, for any number of processes, keys and   *)
(* records, as long as the machine keeps its power.  The link is Store,    *)
(* the return of the call is Confirm or Find, every error and every kill   *)
(* is Fail or nothing, and all other steps are invisible.                  *)
(***************************************************************************)

\* A call whose own link has succeeded still finds its own bytes at the path;
\* a call that found the path taken still finds it taken.
CallInv ==
    \A p \in Procs :
        /\ pc[p] = "sync" => files[target[p]] = bytes[p]
        /\ pc[p] = "readback" => files[target[p]] # Absent

-----------------------------------------------------------------------------

\* The answer publish_validated_event gives is the one the log calls right.
LEMMA OutcomeIsVerdict ==
    ASSUME NEW e \in Record, NEW r \in Record
    PROVE  Log!Verdict(e, r) =
             IF e.pay = r.pay THEN ExistingOutcome(e, r) ELSE "Conflict"
  <1> DEFINE ans == IF e.pay = r.pay THEN ExistingOutcome(e, r) ELSE "Conflict"
             Right(o) == /\ o = "Conflict" <=> e.pay # r.pay
                         /\ o = "ExistingDivergentSignature" <=>
                               e.pay = r.pay /\ e.env = r.env /\ e.sig # r.sig
             Answers == Log!Outcomes \ {"Created"}
  <1>1. ans \in Answers /\ Right(ans)
    BY DEF ExistingOutcome, SignatureBindingMatches, EventRecordHash, Log!Outcomes, Record
  <1>2. \A o \in Answers : Right(o) => o = ans
    BY DEF ExistingOutcome, SignatureBindingMatches, EventRecordHash, Log!Outcomes, Record
  <1> HIDE DEF ans, Answers, Right
  <1>3. (CHOOSE o \in Answers : Right(o)) = ans
    BY <1>1, <1>2
  <1> QED
    BY <1>3 DEF ans, Answers, Right, Log!Verdict

-----------------------------------------------------------------------------

LEMMA InitCall == Init => CallInv
  BY DEF Init, CallInv

LEMMA NextCall ==
    ASSUME ~PowerLoss, TypeOK, StoreInv, CallInv, [Next]_vars
    PROVE  CallInv'
  <1> USE MarkAssumption, PathAssumption
      DEF TypeOK, CallInv, InCreate, Paths, disk, call
  <1>1. CASE UNCHANGED vars
    BY <1>1 DEF vars
  <1>2. ASSUME NEW p \in Procs, NEW b \in Blobs, PutOnce(p, b) PROVE CallInv'
    BY <1>2 DEF PutOnce, Call
  <1>3. ASSUME NEW p \in Procs, BeginBatch(p) PROVE CallInv'
    BY <1>3 DEF BeginBatch
  <1>4. ASSUME NEW p \in Procs, Acquire(p) PROVE CallInv'
    BY <1>4 DEF Acquire
  <1>5. ASSUME NEW p \in Procs, Admit(p) PROVE CallInv'
    BY <1>5 DEF Admit
  <1>6. ASSUME NEW p \in Procs, Refuse(p) PROVE CallInv'
    BY <1>6 DEF Refuse, Abort, NoCall
  <1>7. ASSUME NEW p \in Procs, NEW k \in Keys, NEW r \in Record, RecordEvent(p, k, r)
        PROVE CallInv'
    BY <1>7 DEF RecordEvent, Call
  <1>8. ASSUME NEW p \in Procs, EndBatch(p) PROVE CallInv'
    BY <1>8 DEF EndBatch
  <1>9. ASSUME NEW p \in Procs, CheckExists(p) PROVE CallInv'
    BY <1>9 DEF CheckExists
  <1>10. ASSUME NEW p \in Procs, OpenTemp(p) PROVE CallInv'
    BY <1>10 DEF OpenTemp
  <1>11. ASSUME NEW p \in Procs, WriteTemp(p) PROVE CallInv'
    BY <1>11 DEF WriteTemp
  <1>12. ASSUME NEW p \in Procs, LinkCreates(p) PROVE CallInv'
    BY <1>12 DEF LinkCreates, StoreInv, TempInv, SyncInv, Present
  <1>13. ASSUME NEW p \in Procs, LinkFindsExisting(p) PROVE CallInv'
    BY <1>13 DEF LinkFindsExisting
  <1>14. ASSUME NEW p \in Procs, LinkFindsNoTemp(p) PROVE CallInv'
    BY <1>14 DEF LinkFindsNoTemp, Abort, NoCall
  <1>15. ASSUME NEW p \in Procs, SyncParent(p) PROVE CallInv'
    BY <1>15 DEF SyncParent, Succeed, NoCall
  <1>16. ASSUME NEW p \in Procs, ReadBackEvent(p) PROVE CallInv'
    BY <1>16 DEF ReadBackEvent, Succeed, Abort, NoCall
  <1>17. ASSUME NEW p \in Procs, ReadBackArtifact(p) PROVE CallInv'
    BY <1>17 DEF ReadBackArtifact, Succeed, Abort, NoCall
  <1>18. ASSUME NEW p \in Procs, IoError(p) PROVE CallInv'
    BY <1>18 DEF IoError, Abort, NoCall
  <1>19. ASSUME NEW p \in Procs, NEW q \in Procs, SweepTemp(p, q) PROVE CallInv'
    BY <1>19 DEF SweepTemp
  <1>20. ASSUME NEW p \in Procs, Crash(p) PROVE CallInv'
    BY <1>20 DEF Crash, Abort, NoCall
  <1>21. ~LosePower
    BY DEF LosePower
  <1>22. ASSUME NEW p \in Procs, NEW d \in Dirs, EnsureStoreDirs(p, d) PROVE CallInv'
    BY <1>22 DEF EnsureStoreDirs
  <1> QED
    BY <1>1, <1>2, <1>3, <1>4, <1>5, <1>6, <1>7, <1>8, <1>9, <1>10, <1>11, <1>12,
       <1>13, <1>14, <1>15, <1>16, <1>17, <1>18, <1>19, <1>20, <1>21, <1>22
       DEF Next, CreateStep

-----------------------------------------------------------------------------

LEMMA InitRefines == Init => Log!Init
  BY MarkAssumption DEF Init, Log!Init, logView, reqView, InCreate, Paths

\* A call that ends without an answer, or a new start, is Fail or nothing.
LEMMA FailOrNothing ==
    ASSUME NEW p \in Procs, TypeOK,
           logView' = logView,
           reqView' = [reqView EXCEPT ![p] = <<>>],
           reply' = [reply EXCEPT ![p] = "none"]
    PROVE  [Log!Next]_(Log!vars)
  <1>1. CASE reqView[p] # <<>> \/ reply[p] # "none"
    <2>1. Log!Fail(p)
      BY <1>1 DEF Log!Fail
    <2> QED
      BY <2>1 DEF Log!Next
  <1>2. CASE reqView[p] = <<>> /\ reply[p] = "none"
    <2>1. reqView \in [Procs -> {reqView[q] : q \in Procs}]
      BY DEF reqView
    <2>2. reqView' = reqView /\ reply' = reply
      BY <1>2, <2>1 DEF TypeOK
    <2> QED
      BY <2>2 DEF Log!vars
  <1> QED
    BY <1>1, <1>2

\* The request a process has, step by step.
LEMMA RequestView ==
    ASSUME NEW p \in Procs, NEW k \in Keys, TypeOK, target[p] = k
    PROVE  reqView[p] = <<k, bytes[p], IF pc[p] = "sync" THEN "stored" ELSE "busy">>
  BY DEF reqView, TypeOK, InCreate, Paths

LEMMA NextRefines ==
    ASSUME ~PowerLoss, TypeOK, StoreInv, CallInv, [Next]_vars
    PROVE  [Log!Next]_(Log!vars)
  <1> DEFINE Step == [Log!Next]_(Log!vars)
             Ended(p) == reqView' = [reqView EXCEPT ![p] = <<>>]
  <1> USE MarkAssumption, PathAssumption DEF disk, call
  <1>1. CASE UNCHANGED vars
    BY <1>1 DEF vars, logView, reqView, InCreate, Log!vars
  <1>2. ASSUME NEW p \in Procs, NEW b \in Blobs, PutOnce(p, b) PROVE Step
    <2>1. logView' = logView
      BY <1>2 DEF PutOnce, logView
    <2>2. Ended(p)
      BY <1>2 DEF PutOnce, Call, reqView, InCreate, TypeOK, Paths
    <2> QED
      BY <1>2, <2>1, <2>2, FailOrNothing DEF PutOnce
  <1>3. ASSUME NEW p \in Procs, BeginBatch(p) PROVE Step
    <2>1. logView' = logView
      BY <1>3 DEF BeginBatch, logView
    <2>2. Ended(p)
      BY <1>3 DEF BeginBatch, reqView, InCreate, TypeOK, Paths
    <2> QED
      BY <1>3, <2>1, <2>2, FailOrNothing DEF BeginBatch
  <1>4. ASSUME NEW p \in Procs, Acquire(p) PROVE Step
    BY <1>4 DEF Acquire, TypeOK, logView, reqView, InCreate, Log!vars
  <1>5. ASSUME NEW p \in Procs, Admit(p) PROVE Step
    BY <1>5 DEF Admit, TypeOK, logView, reqView, InCreate, Log!vars
  <1>6. ASSUME NEW p \in Procs, Abort(p, "none"), files' = files PROVE Step
    <2>1. logView' = logView
      BY <1>6 DEF logView
    <2>2. Ended(p)
      BY <1>6 DEF Abort, NoCall, reqView, InCreate, TypeOK, Paths
    <2> QED
      BY <1>6, <2>1, <2>2, FailOrNothing DEF Abort
  <1>7. ASSUME NEW p \in Procs, NEW k \in Keys, NEW r \in Record, RecordEvent(p, k, r)
        PROVE Step
    <2>1. logView' = logView
      BY <1>7 DEF RecordEvent, logView
    <2>2. reqView[p] = <<>>
      BY <1>7 DEF RecordEvent, reqView, InCreate
    <2>3. reqView' = [reqView EXCEPT ![p] = <<k, r, "busy">>]
      BY <1>7 DEF RecordEvent, Call, reqView, InCreate, TypeOK, Paths
    <2>4. Log!Request(p, k, r)
      BY <1>7, <2>1, <2>2, <2>3 DEF RecordEvent, Log!Request
    <2> QED
      BY <2>4 DEF Log!Next, Log!Record, Record
  <1>8. ASSUME NEW p \in Procs, EndBatch(p) PROVE Step
    BY <1>8 DEF EndBatch, TypeOK, logView, reqView, InCreate, Log!vars
  <1>9. ASSUME NEW p \in Procs, CheckExists(p) PROVE Step
    BY <1>9 DEF CheckExists, TypeOK, logView, reqView, InCreate, Log!vars
  <1>10. ASSUME NEW p \in Procs, OpenTemp(p) PROVE Step
    BY <1>10 DEF OpenTemp, TypeOK, logView, reqView, InCreate, Log!vars
  <1>11. ASSUME NEW p \in Procs, WriteTemp(p) PROVE Step
    BY <1>11 DEF WriteTemp, TypeOK, logView, reqView, InCreate, Log!vars
  <1>12. ASSUME NEW p \in Procs, LinkCreates(p) PROVE Step
    <2>1. CASE target[p] \in Keys
      <3> DEFINE k == target[p]
                 r == bytes[p]
      <3>1. r \in Record /\ temp[p] = r /\ files[k] = Absent
        BY <1>12, <2>1 DEF LinkCreates, TypeOK, InCreate, Body, StoreInv, TempInv
      <3>2. logView[k] = <<>> /\ logView' = [logView EXCEPT ![k] = <<r>>]
        BY <1>12, <2>1, <3>1 DEF LinkCreates, logView, TypeOK, Paths, Bodies
      <3>3. reqView[p] = <<k, r, "busy">>
        BY <1>12, <2>1, RequestView DEF LinkCreates
      <3>4. reqView' = [reqView EXCEPT ![p] = <<k, r, "stored">>]
        BY <1>12, <2>1 DEF LinkCreates, reqView, InCreate, TypeOK
      <3>5. Log!Store(p)
        BY <1>12, <2>1, <3>1, <3>2, <3>3, <3>4 DEF LinkCreates, Log!Store, Log!Record, Record
      <3> QED
        BY <3>5 DEF Log!Next
    <2>2. CASE target[p] \notin Keys
      <3>1. logView' = logView
        BY <1>12, <2>2 DEF LinkCreates, logView, TypeOK, Paths
      <3> QED
        BY <1>12, <2>2, <3>1 DEF LinkCreates, TypeOK, reqView, InCreate, Log!vars
    <2> QED
      BY <2>1, <2>2
  <1>13. ASSUME NEW p \in Procs, LinkFindsExisting(p) PROVE Step
    BY <1>13 DEF LinkFindsExisting, TypeOK, logView, reqView, InCreate, Log!vars
  <1>14. ASSUME NEW p \in Procs, SyncParent(p) PROVE Step
    <2>1. logView' = logView
      BY <1>14 DEF SyncParent, logView
    <2>2. Ended(p)
      BY <1>14 DEF SyncParent, Succeed, NoCall, reqView, InCreate, TypeOK, Paths
    <2>3. CASE target[p] \in Keys
      <3>1. reqView[p] = <<target[p], bytes[p], "stored">> /\ bytes[p] \in Record
        BY <1>14, <2>3, RequestView DEF SyncParent, TypeOK, InCreate, Body
      <3>2. reply' = [reply EXCEPT ![p] = "Created"]
        BY <1>14, <2>3 DEF SyncParent, Succeed
      <3>3. Log!Confirm(p)
        BY <2>1, <2>2, <2>3, <3>1, <3>2 DEF Log!Confirm, Log!Record, Record
      <3> QED
        BY <3>3 DEF Log!Next
    <2>4. CASE target[p] \notin Keys
      BY <1>14, <2>1, <2>4 DEF SyncParent, Succeed, NoCall, TypeOK, reqView, InCreate,
                               Paths, Log!vars
    <2> QED
      BY <2>3, <2>4
  <1>15. ASSUME NEW p \in Procs, ReadBackEvent(p) PROVE Step
    <2> DEFINE k == target[p]
               e == files[k]
               r == bytes[p]
    <2>1. logView' = logView
      BY <1>15 DEF ReadBackEvent, logView
    <2>0. NoCall(p) /\ \E s \in {"batch", "idle"} : pc' = [pc EXCEPT ![p] = s]
      BY <1>15 DEF ReadBackEvent, Succeed, Abort
    <2>2. Ended(p)
      BY <2>0 DEF NoCall, reqView, InCreate, TypeOK, Paths
    <2>3. k \in Keys /\ e \in Record /\ r \in Record /\ e # Absent
      BY <1>15 DEF ReadBackEvent, TypeOK, InCreate, Body, Paths, StoreInv,
                   NoPartialVisible, CallInv
    <2>4. reqView[p] = <<k, r, "busy">>
      BY <1>15, RequestView DEF ReadBackEvent
    <2>5. reply' = [reply EXCEPT ![p] = Log!Verdict(e, r)]
      BY <1>15, <2>3, OutcomeIsVerdict DEF ReadBackEvent, Succeed, Abort
    <2>6. e \in Log!Stored(k)
      BY <2>3 DEF Log!Stored, Log!Record, Record, logView
    <2>7. Log!Find(p)
      BY <2>1, <2>2, <2>3, <2>4, <2>5, <2>6 DEF Log!Find, Log!Record, Record
    <2> QED
      BY <2>7 DEF Log!Next
  <1>16. ASSUME NEW p \in Procs, ReadBackArtifact(p) PROVE Step
    <2>1. CASE files[target[p]] = bytes[p]
      <3>1. logView' = logView /\ reply' = reply
        BY <1>16, <2>1 DEF ReadBackArtifact, Succeed, logView
      <3>2. /\ target[p] \notin Keys
            /\ target' = [target EXCEPT ![p] = Absent]
            /\ bytes' = [bytes EXCEPT ![p] = Absent]
            /\ pc' = [pc EXCEPT ![p] = "idle"]
        BY <1>16, <2>1 DEF ReadBackArtifact, Succeed, NoCall
      <3>3. reqView' = reqView
        BY <3>2 DEF TypeOK, reqView, InCreate, Paths
      <3> QED
        BY <3>1, <3>3 DEF Log!vars
    <2>2. CASE files[target[p]] # bytes[p]
      BY <1>6, <1>16, <2>2 DEF ReadBackArtifact
    <2> QED
      BY <2>1, <2>2
  <1>17. ASSUME NEW p \in Procs, NEW q \in Procs, SweepTemp(p, q) PROVE Step
    BY <1>17 DEF SweepTemp, logView, reqView, InCreate, Log!vars
  <1>18. ASSUME NEW p \in Procs,
                Refuse(p) \/ LinkFindsNoTemp(p) \/ IoError(p) \/ Crash(p)
         PROVE Step
    BY <1>6, <1>18 DEF Refuse, LinkFindsNoTemp, IoError, Crash
  <1>19. ~LosePower
    BY DEF LosePower
  <1>20. ASSUME NEW p \in Procs, NEW d \in Dirs, EnsureStoreDirs(p, d) PROVE Step
    BY <1>20 DEF EnsureStoreDirs, logView, reqView, InCreate, Log!vars
  <1> QED
    BY <1>1, <1>2, <1>3, <1>4, <1>5, <1>7, <1>8, <1>9, <1>10, <1>11, <1>12, <1>13,
       <1>14, <1>15, <1>16, <1>17, <1>18, <1>19, <1>20 DEF Next, CreateStep

\* As long as the machine keeps its power, the store is the abstract log:
\* every answer agrees with the log, Created goes to the one writer whose own
\* record was stored, and no stored record is ever replaced.
THEOREM StoreImplementsLog ==
    ASSUME ~PowerLoss
    PROVE  Spec => ImplementsEventLog
  <1>1. Init => CallInv /\ Log!Init
    BY InitCall, InitRefines
  <1>2. TypeOK /\ StoreInv /\ CallInv /\ [Next]_vars => CallInv' /\ [Log!Next]_(Log!vars)
    BY NextCall, NextRefines
  <1> QED
    BY <1>1, <1>2, StoreInvariant, PTL DEF Spec, ImplementsEventLog, Log!Spec
=============================================================================

----------------------- MODULE ChangeMigrationProofs -----------------------
(***************************************************************************)
(* Proofs about ChangeMigration, for any captures, Change records,         *)
(* operations and writers and any number of crashes.                       *)
(***************************************************************************)
EXTENDS ChangeMigration, TLAPS

\* Peers forward events of the legacy types only.
ForwardsLegacyOnly == PeerKeys \subseteq ProductKeys

\* What a running call or restore may count on from its earlier steps.
Grounded ==
    /\ call.pc # "idle" => call.op \in Ops /\ dryrun[call.op] # None
    /\ call.pc \in {"execute", "activate", "check", "append", "verify", "finish"} =>
          plan[call.op] # None
    /\ \A o \in Ops : receipt[o] => manifest[o] # None
    /\ call.pc = "receipt" => manifest[call.op] # None
    /\ restoring # None => manifest[restoring] # None

TypeInv == TypeOK /\ Grounded

-----------------------------------------------------------------------------

LEMMA CursorTyped == TypeOK => Cursor \in Cursors
  BY DEF TypeOK, Cursor, Records, Cursors, Events, Present

LEMMA StoreFilesTyped == TypeOK => StoreFiles \subseteq Files
  BY CursorTyped DEF TypeOK, StoreFiles, Files, Cursors, Artifacts

LEMMA ReservedTyped == \A source \in Cursors : Reserved(source) \subseteq AdoptionKeys
  BY DEF Reserved, Cursors, Events, Keys, LegacyKeys, RetiredKeys, OldTypeKeys, ProductKeys, ChangeKeys,
       AdoptionKeys, NativeKeys

LEMMA StatusTyped == ReaderStatus \in Statuses
  BY DEF ReaderStatus, StrictStatus, Statuses

LEMMA InitTypeInv == Init => TypeInv
  <1> SUFFICES ASSUME Init PROVE TypeInv
    OBVIOUS
  <1>1. journal \in [Keys -> {"absent", "own", "stamped"}]
    BY DEF Init
  <1> QED
    BY <1>1, ChangeMigrationAssumption DEF Init, TypeInv, TypeOK, Grounded, IdleCall, Calls

LEMMA NextTypeInv == TypeInv /\ [Next]_vars => TypeInv'
  <1> SUFFICES ASSUME TypeInv, [Next]_vars PROVE TypeInv'
    OBVIOUS
  <1> USE ChangeMigrationAssumption, NoneAssumption
  <1> USE DEF store, backup, recovery, TypeInv, Grounded
  <1>1. ASSUME NEW p \in Captures, StoreArtifact(p) PROVE TypeInv'
    BY <1>1 DEF StoreArtifact, TypeOK
  <1>2. ASSUME NEW w \in Writers, AdmitProduct(w) \/ AdmitChange(w) \/ Release(w)
        PROVE  TypeInv'
    BY <1>2 DEF AdmitProduct, AdmitChange, Release, TypeOK
  <1>3. ASSUME NEW k \in Keys, NEW b \in {"own", "stamped"}, Publish(k, b) PROVE TypeInv'
    BY <1>3 DEF Publish, TypeOK
  <1>4. ASSUME NEW o \in Ops, DryRun(o) PROVE TypeInv'
    BY <1>4, CursorTyped DEF DryRun, TypeOK
  <1>5. ASSUME NEW o \in Ops, Begin(o) PROVE TypeInv'
    <2>1. call' = [op |-> o, pc |-> "inspect", initial |-> None, before |-> {}, left |-> {}]
      BY <1>5 DEF Begin, IdleCall
    <2>2. call' \in Calls
      BY <2>1 DEF Calls
    <2> QED
      BY <1>5, <2>1, <2>2 DEF Begin, TypeOK
  <1>6. ASSUME NEW o \in Ops, Inspect(o) PROVE TypeInv'
    BY <1>6, StoreFilesTyped, StatusTyped DEF Inspect, Running, TypeOK, Calls
  <1>7. ASSUME NEW o \in Ops, CopyFile(o) PROVE TypeInv'
    BY <1>7 DEF CopyFile, Running, NextFiles, TypeOK, Calls
  <1>8. ASSUME NEW o \in Ops, WriteManifest(o) PROVE TypeInv'
    <2>1. ManifestOf(o) \in Manifests
      BY <1>8 DEF WriteManifest, ManifestOf, Running, TypeOK, Calls, Manifests
    <2>2. call' \in Calls
      BY <1>8 DEF WriteManifest, TypeOK, Calls
    <2> QED
      BY <1>8, <2>1, <2>2 DEF WriteManifest, Running, TypeOK, Calls
  <1>9. ASSUME NEW o \in Ops, WriteReceipt(o) PROVE TypeInv'
    BY <1>9 DEF WriteReceipt, Goto, Running, TypeOK, Calls
  <1>10. ASSUME NEW o \in Ops, RetainPlan(o) PROVE TypeInv'
    BY <1>10 DEF RetainPlan, Goto, Running, TypeOK, Calls, Plans
  <1>11. ASSUME NEW o \in Ops, Execute(o) \/ Verify(o) PROVE TypeInv'
    BY <1>11 DEF Execute, Verify, Goto, Running, TypeOK, Calls
  <1>12. ASSUME NEW o \in Ops, Activate(o) PROVE TypeInv'
    BY <1>12 DEF Activate, Goto, Running, TypeOK, Calls
  <1>13. ASSUME NEW o \in Ops, CheckActivated(o) PROVE TypeInv'
    <2>1. plan[o].source \in Cursors
      BY <1>13 DEF CheckActivated, Running, TypeOK, Plans
    <2> QED
      BY <1>13, <2>1, ReservedTyped DEF CheckActivated, Running, TypeOK, Calls
  <1>14. ASSUME NEW o \in Ops, AppendReserved(o) PROVE TypeInv'
    BY <1>14 DEF AppendReserved, Running, TypeOK, Calls, Keys, ChangeKeys
  <1>15. ASSUME NEW o \in Ops, Complete(o) PROVE TypeInv'
    BY <1>15 DEF Complete, Goto, Running, TypeOK, Calls
  <1>16. ASSUME NEW o \in Ops, Finish(o) \/ Refuse(o) PROVE TypeInv'
    <2>1. IdleCall \in Calls /\ IdleCall.pc = "idle"
      BY DEF IdleCall, Calls
    <2>2. call.pc # "idle"
      BY <1>16 DEF Finish, Refuse, Running
    <2>3. \A w \in Writers : admitted[w] = "none"
      BY <2>2 DEF TypeOK
    <2>4. CASE Finish(o)
      BY <2>1, <2>3, <2>4 DEF Finish, EndCall, TypeOK
    <2>5. CASE Refuse(o)
      <3>1. /\ call' = IdleCall
            /\ holder' = None
            /\ UNCHANGED <<store, dryrun, backup, admitted, recovery, crashes>>
        BY <2>5 DEF Refuse, EndCall
      <3> QED
        BY <2>1, <2>3, <3>1 DEF TypeOK
    <2> QED
      BY <1>16, <2>4, <2>5
  <1>17. CASE Crash
    BY <1>17 DEF Crash, EndCall, IdleCall, TypeOK, Calls
  <1>18. ASSUME NEW o \in Ops, RestoreBegin(o) \/ RestoreFile(o) \/ RestoreEnd(o)
         PROVE  TypeInv'
    BY <1>18 DEF RestoreBegin, RestoreFile, RestoreEnd, BackupVerified, NextFiles, TypeOK,
                 Manifests
  <1>19. CASE UNCHANGED vars
    BY <1>19 DEF vars, TypeOK
  <1>20. ASSUME NEW w \in Writers, WriterStep(w) PROVE TypeInv'
    BY <1>20, <1>2, <1>3 DEF WriterStep, AppendProduct, Ingest, AppendChange, Keys,
       LegacyKeys, ProductKeys, ChangeKeys, NativeKeys
  <1> QED
    BY <1>1, <1>4, <1>5, <1>6, <1>7, <1>8, <1>9, <1>10, <1>11, <1>12, <1>13, <1>14, <1>15,
       <1>16, <1>17, <1>18, <1>19, <1>20 DEF Next, MigrateStep

-----------------------------------------------------------------------------

\* Every reachable state has the declared shape, and the lock holder is the
\* running migrate call or the one admitted writer, for any constants.
THEOREM TypeCorrect == Spec => []TypeOK
  <1>1. TypeInv => TypeOK
    BY DEF TypeInv
  <1> QED
    BY <1>1, InitTypeInv, NextTypeInv, PTL DEF Spec

-----------------------------------------------------------------------------
(* The inductive invariant of the transition, for stores whose peers       *)
(* forward legacy events only.                                             *)

\* Change records are the ones their author wrote.
NoStamps == \A k \in ChangeKeys : journal[k] # "stamped"

\* Without an activation there is no completion and no Change record.
L0Inv ==
    activation = None => completions = {} /\ \A k \in ChangeKeys : ~Present(k)

\* The activation is a retained plan; until it is completed the journal is the
\* approved one and reserved records, then every reserved record is in place,
\* in a store without a retired event type.
AuthorityInv ==
    activation # None =>
        /\ plan[activation.op] = activation
        /\ completions \subseteq {activation}
        /\ completions = {} => /\ LegacyRecords = activation.source
                               /\ \A k \in ChangeKeys :
                                     Present(k) => k \in Reserved(activation.source)
        /\ completions # {} => /\ ~Outdated
                               /\ \A k \in Reserved(activation.source) : journal[k] = "own"

\* A plan is retained only for its own approved dry run, over a complete backup.
PlanInv ==
    \A o \in Ops : plan[o] # None =>
        plan[o].op = o /\ plan[o].source = dryrun[o] /\ receipt[o]

\* An event record of a capture comes with its artifact.
Closed(files) ==
    \A p \in Products :
        <<"product", p, "own">> \in files => <<"artifact", p, "own">> \in files

\* A manifest lists the approved events, closed and copied.
BackupInv ==
    \A o \in Ops : manifest[o] # None =>
        /\ manifest[o].source = dryrun[o]
        /\ manifest[o].entries \subseteq copied[o]
        /\ manifest[o].entries \cap Events = dryrun[o]
        /\ Closed(manifest[o].entries)

ArtifactInv == \A p \in Products : journal[<<"product", p>>] = "own" => p \in artifacts

\* What the steps of the running call rely on, under the lock.
CallInv ==
    /\ call.pc = "copy" =>
          call.before \cap Events = dryrun[call.op] /\ Closed(call.before)
    /\ call.pc = "plan" => receipt[call.op]
    /\ call.pc = "activate" => activation = None /\ Cursor = plan[call.op].source
    /\ call.pc \in {"check", "append", "verify", "finish"} =>
          activation # None /\ activation.op = call.op
    /\ call.pc = "append" =>
          /\ ~Outdated
          /\ call.left \subseteq Reserved(activation.source)
          /\ \A k \in Reserved(activation.source) \ call.left : journal[k] = "own"
    /\ call.pc \in {"verify", "finish"} => completions = {activation}

\* A writer that was admitted still may write what it was admitted for.
WriterInv ==
    \A w \in Writers :
        /\ admitted[w] = "change" => completions # {}
        /\ admitted[w] = "product" => activation = None \/ completions # {}

FinalInv ==
    \A o \in Ops : final[o] =>
        activation # None /\ activation.op = o /\ completions = {activation}

IInv ==
    /\ TypeInv
    /\ NoStamps /\ L0Inv /\ AuthorityInv
    /\ PlanInv /\ BackupInv /\ ArtifactInv
    /\ CallInv /\ WriterInv /\ FinalInv
    /\ Closed(target)

-----------------------------------------------------------------------------
(* What each property needs of the invariant.                              *)

LEMMA AgreesFromIInv == IInv => BoundedAgrees
  <1> SUFFICES ASSUME IInv, activation # None
               PROVE  IF Outdated
                        THEN BoundedStatus = "MigrationInProgress" /\ StrictStatus = "Refused"
                        ELSE BoundedStatus = StrictStatus
    BY DEF BoundedAgrees
  <1>1. completions = {} \/ (completions = {activation} /\ ~Outdated)
    <2>1. completions \subseteq {activation} /\ (completions # {} => ~Outdated)
      BY DEF IInv, AuthorityInv
    <2> QED
      BY <2>1
  <1>2. CASE completions = {}
    <2>1. \A k \in ChangeKeys :
             Present(k) => k \in Reserved(activation.source) /\ journal[k] = "own"
      BY <1>2 DEF IInv, AuthorityInv, NoStamps, Present, TypeInv, TypeOK, Keys
    <2> QED
      BY <1>2, <2>1 DEF BoundedStatus, StrictStatus
  <1>3. CASE completions = {activation} /\ ~Outdated
    <2>1. \A k \in Reserved(activation.source) : journal[k] = "own"
      BY <1>3 DEF IInv, AuthorityInv
    <2> QED
      BY <1>3, <2>1 DEF BoundedStatus, StrictStatus, SameIdentity
  <1> QED
    BY <1>1, <1>2, <1>3

LEMMA ApprovedFromIInv == IInv => ActivatedFromApproved
  BY DEF IInv, AuthorityInv, ActivatedFromApproved, BoundedStatus, SameIdentity

LEMMA RecoverableFromIInv == IInv => ActivationRecoverable
  <1> SUFFICES ASSUME IInv, activation # None PROVE ActivationRecoverable
    BY DEF ActivationRecoverable
  <1> DEFINE o == activation.op
  <1>1. o \in Ops /\ plan[o] = activation /\ activation.source \in Cursors
    BY DEF IInv, AuthorityInv, TypeInv, TypeOK, Plans
  <1>2. receipt[o] /\ activation.source = dryrun[o]
    BY <1>1, NoneAssumption DEF IInv, PlanInv
  <1>3. /\ manifest[o] # None
        /\ manifest[o].entries \subseteq copied[o]
        /\ manifest[o].entries \cap Events = activation.source
        /\ Closed(manifest[o].entries)
    BY <1>1, <1>2 DEF IInv, TypeInv, Grounded, BackupInv
  <1>4. ASSUME NEW f \in activation.source, f[1] = "product", f[3] = "own"
        PROVE  <<"artifact", f[2], "own">> \in copied[o]
    <2>1. PICK p \in Products : f = <<"product", p, "own">>
      BY <1>1, <1>4 DEF Cursors, Events, Keys, LegacyKeys, RetiredKeys, OldTypeKeys,
         ProductKeys, ChangeKeys, AdoptionKeys, NativeKeys
    <2> QED
      BY <1>3, <1>4, <2>1 DEF Closed
  <1> QED
    BY <1>1, <1>2, <1>3, <1>4 DEF ActivationRecoverable, BackupVerified

LEMMA ReceiptFromIInv == IInv => ReceiptNamesAuthority
  <1> SUFFICES ASSUME IInv, NEW o \in Ops, final[o]
               PROVE  StrictStatus = "Ready" /\ activation = plan[o] /\ completions = {plan[o]}
    BY DEF ReceiptNamesAuthority
  <1>1. activation # None /\ activation.op = o /\ completions = {activation}
    BY DEF IInv, FinalInv
  <1>2. activation = plan[o]
    BY <1>1 DEF IInv, AuthorityInv
  <1>3. BoundedStatus = "Ready"
    BY <1>1 DEF BoundedStatus, SameIdentity
  <1>4. ~Outdated
    BY <1>1 DEF IInv, AuthorityInv
  <1> QED
    BY <1>1, <1>2, <1>3, <1>4, AgreesFromIInv DEF BoundedAgrees

LEMMA ForkFromIInv == IInv => ForkHasArtifacts
  <1> SUFFICES ASSUME IInv, NEW f \in target, f[1] = "product", f[3] = "own"
               PROVE  <<"artifact", f[2], "own">> \in target
    BY DEF ForkHasArtifacts
  <1>1. f \in Files
    BY DEF IInv, TypeInv, TypeOK
  <1>2. PICK p \in Products : f = <<"product", p, "own">>
    BY <1>1 DEF Files, Artifacts, Events, Keys, LegacyKeys, RetiredKeys, OldTypeKeys,
       ProductKeys, ChangeKeys, AdoptionKeys, NativeKeys
  <1> QED
    BY <1>2 DEF IInv, Closed

-----------------------------------------------------------------------------
(* The invariant is inductive.                                             *)

LEMMA JournalFrame ==
    ASSUME UNCHANGED journal
    PROVE  /\ Cursor' = Cursor
           /\ LegacyRecords' = LegacyRecords
           /\ Outdated' = Outdated
           /\ \A k : Present(k)' = Present(k)
  BY DEF Cursor, LegacyRecords, Records, Outdated, Present

\* The legacy records, and whether a type among them is retired, depend on the
\* legacy keys only.
LEMMA LegacyFrame ==
    ASSUME \A k \in LegacyKeys : journal'[k] = journal[k]
    PROVE  LegacyRecords' = LegacyRecords /\ Outdated' = Outdated
  BY DEF LegacyRecords, Records, Outdated, Present, LegacyKeys, RetiredKeys

\* No writer and no migrate call writes a record in a retired encoding.
LEMMA RetiredApart == (ProductKeys \cup ChangeKeys) \cap RetiredKeys = {}
  BY DEF RetiredKeys, OldTypeKeys, ProductKeys, ChangeKeys, AdoptionKeys, NativeKeys

LEMMA OutdatedFrame ==
    ASSUME \A k \in RetiredKeys : journal'[k] = journal[k]
    PROVE  Outdated' = Outdated
  BY DEF Outdated, Present, RetiredKeys

\* A journal without Change records is all legacy.
LEMMA LegacyOnly ==
    ASSUME \A k \in ChangeKeys : ~Present(k)
    PROVE  LegacyRecords = Cursor
  BY DEF LegacyRecords, Cursor, Records, Keys

LEMMA InitIInv == Init => IInv
  <1> SUFFICES ASSUME Init PROVE IInv
    OBVIOUS
  <1>1. TypeInv
    BY InitTypeInv
  <1>2. NoStamps /\ L0Inv /\ AuthorityInv /\ ArtifactInv
    <2>1. \A k \in ProductKeys \cup ChangeKeys : journal[k] = "absent"
      BY ChangeMigrationAssumption, RetiredApart DEF Init, Keys, LegacyKeys
    <2> QED
      BY <2>1 DEF Init, NoStamps, L0Inv, AuthorityInv, ArtifactInv, Present, ProductKeys
  <1>3. PlanInv /\ BackupInv /\ CallInv /\ WriterInv /\ FinalInv /\ Closed(target)
    BY DEF Init, IdleCall, PlanInv, BackupInv, CallInv, WriterInv, FinalInv, Closed
  <1> QED
    BY <1>1, <1>2, <1>3 DEF IInv

\* Steps that leave the journal, the capability records and the backups alone.
LEMMA LockSteps ==
    ASSUME IInv, NEW w \in Writers, AdmitProduct(w) \/ AdmitChange(w) \/ Release(w), TypeInv'
    PROVE  IInv'
  <1>1. UNCHANGED <<store, dryrun, backup, call, recovery>>
    BY DEF AdmitProduct, AdmitChange, Release
  <1>2. WriterInv'
    <2>1. BoundedStatus = "Ready" => completions # {}
      BY DEF BoundedStatus
    <2>2. BoundedStatus = "MigrationRequired" => activation = None
      BY DEF BoundedStatus
    <2> QED
      BY <1>1, <2>1, <2>2 DEF IInv, WriterInv, AdmitProduct, AdmitChange, Release, TypeInv,
         TypeOK, store
  <1>3. NoStamps' /\ L0Inv' /\ AuthorityInv' /\ ArtifactInv'
    BY <1>1, JournalFrame DEF IInv, store, backup, NoStamps, L0Inv, AuthorityInv, ArtifactInv
  <1>4. PlanInv' /\ BackupInv' /\ FinalInv' /\ Closed(target)'
    BY <1>1 DEF IInv, store, backup, recovery, PlanInv, BackupInv, FinalInv, Closed
  <1>5. CallInv'
    BY <1>1, JournalFrame DEF IInv, store, backup, CallInv, Closed
  <1> QED
    BY <1>2, <1>3, <1>4, <1>5 DEF IInv

\* A writer's append: the lock keeps the migrate call away.
LEMMA PublishSteps ==
    ASSUME IInv, TypeInv', NEW w \in Writers, NEW k \in ProductKeys \cup ChangeKeys,
           NEW b \in {"own", "stamped"},
           admitted[w] # "none", Publish(k, b),
           k \in ChangeKeys => b = "own" /\ admitted[w] = "change",
           k \in ProductKeys => admitted[w] = "product",
           k \in ProductKeys /\ b = "own" => k[2] \in artifacts
    PROVE  IInv'
  <1>1. UNCHANGED <<artifacts, activation, completions, dryrun, backup, admitted, call, recovery>>
    BY DEF Publish
  <1>2. call.pc = "idle"
    BY ChangeMigrationAssumption DEF IInv, TypeInv, TypeOK
  <1>3. /\ journal' = [journal EXCEPT ![k] = b] /\ ~Present(k)
        /\ journal \in [Keys -> {"absent", "own", "stamped"}]
    BY DEF Publish, IInv, TypeInv, TypeOK
  <1>4. NoStamps'
    BY <1>3 DEF IInv, NoStamps, Keys
  <1>5. L0Inv'
    <2>1. activation = None => k \notin ChangeKeys
      BY DEF IInv, L0Inv, WriterInv
    <2> QED
      BY <1>1, <1>3, <2>1 DEF IInv, L0Inv, Present, Keys
  <1>6. AuthorityInv'
    <2> SUFFICES ASSUME activation # None PROVE AuthorityInv'
      BY <1>1 DEF AuthorityInv
    <2>1. completions # {}
      BY DEF IInv, WriterInv
    <2>2. \A j \in Reserved(activation.source) : journal'[j] = "own"
      <3>1. Reserved(activation.source) \subseteq Keys
        BY ReservedTyped DEF IInv, TypeInv, TypeOK, Plans, Keys, ChangeKeys
      <3> QED
        BY <1>3, <2>1, <3>1 DEF IInv, AuthorityInv, Present
    <2>3. Outdated' = Outdated
      BY <1>3, RetiredApart, OutdatedFrame DEF Keys, LegacyKeys
    <2> QED
      BY <1>1, <2>1, <2>2, <2>3 DEF IInv, AuthorityInv, backup
  <1>7. ArtifactInv'
    BY <1>1, <1>3 DEF IInv, ArtifactInv, Keys, LegacyKeys, ProductKeys
  <1>8. PlanInv' /\ BackupInv' /\ FinalInv' /\ Closed(target)' /\ WriterInv' /\ CallInv'
    BY <1>1, <1>2 DEF IInv, backup, recovery, PlanInv, BackupInv, FinalInv, Closed, WriterInv,
       CallInv
  <1> QED
    BY <1>4, <1>5, <1>6, <1>7, <1>8 DEF IInv

LEMMA WriterSteps ==
    ASSUME ForwardsLegacyOnly, IInv, TypeInv', NEW w \in Writers, WriterStep(w)
    PROVE  IInv'
  <1>1. CASE AdmitProduct(w) \/ AdmitChange(w) \/ Release(w)
    BY <1>1, LockSteps
  <1>2. ASSUME NEW p \in Captures, AppendProduct(w, p) PROVE IInv'
    <2>1. <<"product", p>> \in ProductKeys /\ <<"product", p>> \notin ChangeKeys
      BY ChangeMigrationAssumption DEF ProductKeys, ChangeKeys, AdoptionKeys, NativeKeys
    <2> QED
      BY <1>2, <2>1, PublishSteps DEF AppendProduct
  <1>3. ASSUME NEW k \in PeerKeys, Ingest(w, k) PROVE IInv'
    <2>1. k \in ProductKeys /\ k \notin ChangeKeys
      BY DEF ForwardsLegacyOnly, ProductKeys, ChangeKeys, AdoptionKeys, NativeKeys
    <2> QED
      BY <1>3, <2>1, PublishSteps DEF Ingest
  <1>4. ASSUME NEW c \in Changes, AppendChange(w, c) PROVE IInv'
    <2>1. <<"change", c>> \in ChangeKeys /\ <<"change", c>> \notin ProductKeys
      BY DEF ProductKeys, ChangeKeys, AdoptionKeys, NativeKeys
    <2> QED
      BY <1>4, <2>1, PublishSteps DEF AppendChange
  <1> QED
    BY <1>1, <1>2, <1>3, <1>4 DEF WriterStep

\* The inventory of an unactivated store is its journal and closed artifacts.
LEMMA StoreFilesClosed ==
    ASSUME IInv
    PROVE  StoreFiles \cap Events = Cursor /\ Closed(StoreFiles)
  <1>1. Cursor \subseteq Events
    BY CursorTyped DEF IInv, TypeInv, Cursors
  <1>2. \A p : <<"artifact", p, "own">> \notin Events
    BY DEF Events, Keys, LegacyKeys, RetiredKeys, OldTypeKeys, ProductKeys, ChangeKeys, AdoptionKeys, NativeKeys
  <1>3. StoreFiles \cap Events = Cursor
    BY <1>1, <1>2 DEF StoreFiles
  <1>4. ASSUME NEW p \in Products, <<"product", p, "own">> \in StoreFiles
        PROVE  <<"artifact", p, "own">> \in StoreFiles
    <2>1. <<"product", p, "own">> \in Cursor
      BY <1>4 DEF StoreFiles
    <2>2. journal[<<"product", p>>] = "own"
      BY <2>1 DEF Cursor, Records, Keys, LegacyKeys, RetiredKeys, OldTypeKeys, ProductKeys,
         ChangeKeys, AdoptionKeys, NativeKeys
    <2> QED
      BY <2>2 DEF IInv, ArtifactInv, StoreFiles
  <1> QED
    BY <1>3, <1>4 DEF Closed

LEMMA CaptureSteps ==
    ASSUME IInv, TypeInv', NEW p \in Captures, StoreArtifact(p)
    PROVE  IInv'
  <1>1. UNCHANGED <<journal, activation, completions, dryrun, backup, admitted, call, recovery>>
    BY DEF StoreArtifact
  <1>2. NoStamps' /\ L0Inv' /\ AuthorityInv' /\ CallInv'
    BY <1>1, JournalFrame DEF IInv, backup, NoStamps, L0Inv, AuthorityInv, CallInv, Closed
  <1>3. ArtifactInv'
    BY <1>1 DEF IInv, ArtifactInv, StoreArtifact
  <1>4. PlanInv' /\ BackupInv' /\ FinalInv' /\ Closed(target)' /\ WriterInv'
    BY <1>1 DEF IInv, backup, recovery, PlanInv, BackupInv, FinalInv, Closed, WriterInv
  <1> QED
    BY <1>2, <1>3, <1>4 DEF IInv

LEMMA DryRunSteps ==
    ASSUME IInv, TypeInv', NEW o \in Ops, DryRun(o)
    PROVE  IInv'
  <1>1. UNCHANGED <<store, backup, admitted, call, recovery>>
    BY DEF DryRun
  <1>2. dryrun[o] = None /\ dryrun' = [dryrun EXCEPT ![o] = Cursor]
        /\ dryrun \in [Ops -> Cursors \cup {None}]
    BY DEF DryRun, IInv, TypeInv, TypeOK
  <1>3. PlanInv'
    <2>1. plan[o] = None
      BY <1>2, NoneAssumption DEF IInv, PlanInv, TypeInv, TypeOK, Plans
    <2> QED
      BY <1>1, <1>2, <2>1 DEF IInv, PlanInv, backup
  <1>4. BackupInv'
    <2>1. manifest[o] = None
      BY <1>2, NoneAssumption DEF IInv, BackupInv, TypeInv, TypeOK, Manifests
    <2> QED
      BY <1>1, <1>2, <2>1 DEF IInv, BackupInv, backup
  <1>5. CallInv'
    <2>1. call.pc # "idle" => dryrun'[call.op] = dryrun[call.op]
      BY <1>2 DEF IInv, TypeInv, Grounded
    <2> QED
      BY <1>1, <2>1, JournalFrame DEF IInv, CallInv, store, backup, Closed
  <1>6. NoStamps' /\ L0Inv' /\ AuthorityInv' /\ ArtifactInv'
    BY <1>1, JournalFrame DEF IInv, store, backup, NoStamps, L0Inv, AuthorityInv, ArtifactInv
  <1>7. FinalInv' /\ Closed(target)' /\ WriterInv'
    BY <1>1 DEF IInv, store, backup, recovery, FinalInv, Closed, WriterInv
  <1> QED
    BY <1>3, <1>4, <1>5, <1>6, <1>7 DEF IInv

\* A step of the call that touches neither the store nor the backup preserves
\* the invariant when what its new position relies on is given.
LEMMA CallSteps ==
    ASSUME IInv, TypeInv', CallInv',
           UNCHANGED <<store, dryrun, backup, admitted, recovery>>
    PROVE  IInv'
  <1>1. NoStamps' /\ L0Inv' /\ AuthorityInv' /\ ArtifactInv'
    BY JournalFrame DEF IInv, store, backup, NoStamps, L0Inv, AuthorityInv, ArtifactInv
  <1>2. PlanInv' /\ BackupInv' /\ FinalInv' /\ Closed(target)' /\ WriterInv'
    BY DEF IInv, store, backup, recovery, PlanInv, BackupInv, FinalInv, Closed, WriterInv
  <1> QED
    BY <1>1, <1>2 DEF IInv

LEMMA BeginEndSteps ==
    ASSUME IInv, TypeInv', NEW o \in Ops, Begin(o) \/ Refuse(o) \/ Crash
    PROVE  IInv'
  <1>1. UNCHANGED <<store, dryrun, backup, admitted, recovery>>
    BY DEF Begin, Refuse, Crash
  <1>2. ASSUME Begin(o) PROVE call'.pc = "inspect"
    <2>1. call' = [op |-> o, pc |-> "inspect", initial |-> None, before |-> {}, left |-> {}]
      BY <1>2 DEF Begin, IdleCall
    <2> QED
      BY <2>1
  <1>3. call'.pc \in {"idle", "inspect"}
    BY <1>2 DEF Refuse, Crash, EndCall, IdleCall
  <1>4. CallInv'
    BY <1>3 DEF CallInv
  <1> QED
    BY <1>1, <1>4, CallSteps

LEMMA ReadSteps ==
    ASSUME IInv, TypeInv', NEW o \in Ops,
           Inspect(o) \/ Execute(o) \/ CheckActivated(o) \/ Verify(o)
    PROVE  IInv'
  <1>1. UNCHANGED <<store, dryrun, backup, admitted, recovery>>
    BY DEF Inspect, Execute, CheckActivated, Verify
  <1>2. call \in Calls /\ call.op = o
    BY DEF IInv, TypeInv, TypeOK, Inspect, Execute, CheckActivated, Verify, Running
  <1>3. CASE Inspect(o)
    <2>1. CASE receipt[o]
      <3>1. call'.pc = "plan" /\ call'.op = o
        BY <1>2, <1>3, <2>1 DEF Inspect, Calls
      <3> QED
        BY <1>1, <2>1, <3>1, CallSteps DEF CallInv, backup
    <2>2. CASE ~receipt[o]
      <3>1. call'.pc = "copy" /\ call'.op = o /\ call'.before = StoreFiles
        BY <1>2, <1>3, <2>2 DEF Inspect, Calls
      <3>2. Cursor = dryrun[o]
        BY <1>3, <2>2 DEF Inspect, InspectAdmits, BackupApproved, BackupVerified
      <3> QED
        BY <1>1, <3>1, <3>2, StoreFilesClosed, CallSteps DEF CallInv, Closed
    <2> QED
      BY <2>1, <2>2
  <1>4. CASE Execute(o)
    <2>1. plan[o] # None /\ plan[o].op = o
      BY <1>4 DEF Execute, Running, IInv, TypeInv, Grounded, PlanInv
    <2>2. CASE ReaderStatus = "MigrationRequired"
      <3>1. call'.pc = "activate" /\ call'.op = o
        BY <1>2, <1>4, <2>2 DEF Execute, Goto, Calls
      <3>2. activation = None /\ Cursor = plan[o].source
        BY <1>4, <2>2 DEF Execute, ExecuteAdmits, ReaderStatus, StrictStatus
      <3> QED
        BY <1>1, <3>1, <3>2, JournalFrame, CallSteps DEF CallInv, store, backup
    <2>3. CASE ReaderStatus # "MigrationRequired"
      <3>1. call'.pc = "check" /\ call'.op = o
        BY <1>2, <1>4, <2>3 DEF Execute, Goto, Calls
      <3>2. activation # None /\ activation.op = o
        BY <1>4, <2>1, <2>3 DEF Execute, ExecuteAdmits, ReaderStatus, SameIdentity
      <3> QED
        BY <1>1, <3>1, <3>2, CallSteps DEF CallInv, store
    <2> QED
      BY <2>2, <2>3
  <1>5. CASE CheckActivated(o)
    <2>1. call'.pc = "append" /\ call'.op = o /\ call'.left = Reserved(plan[o].source)
      BY <1>2, <1>5 DEF CheckActivated, Calls
    <2>2. activation # None /\ activation.op = o /\ plan[o] = activation
      BY <1>2, <1>5 DEF CheckActivated, Running, IInv, CallInv, AuthorityInv
    <2>3. ~Outdated'
      BY <1>1, <1>5, JournalFrame DEF CheckActivated, CheckAdmits, StrictStatus, store
    <2> QED
      BY <1>1, <2>1, <2>2, <2>3, CallSteps DEF CallInv, store, Reserved
  <1>6. CASE Verify(o)
    <2>1. call'.pc = "finish" /\ call'.op = o
      BY <1>2, <1>6 DEF Verify, Goto, Calls
    <2>2. activation # None /\ activation.op = o /\ completions = {activation}
      BY <1>2, <1>6 DEF Verify, Running, IInv, CallInv
    <2> QED
      BY <1>1, <2>1, <2>2, CallSteps DEF CallInv, store
  <1> QED
    BY <1>3, <1>4, <1>5, <1>6

LEMMA BackupSteps ==
    ASSUME IInv, TypeInv', NEW o \in Ops,
           CopyFile(o) \/ WriteManifest(o) \/ WriteReceipt(o) \/ RetainPlan(o)
    PROVE  IInv'
  <1>1. UNCHANGED <<store, dryrun, final, admitted, recovery>>
    BY DEF CopyFile, WriteManifest, WriteReceipt, RetainPlan
  <1>2. call \in Calls /\ call.op = o
    BY DEF IInv, TypeInv, TypeOK, CopyFile, WriteManifest, WriteReceipt, RetainPlan, Running
  <1>3. /\ copied \in [Ops -> SUBSET Files]
        /\ manifest \in [Ops -> Manifests \cup {None}]
        /\ receipt \in [Ops -> BOOLEAN]
        /\ plan \in [Ops -> Plans \cup {None}]
    BY DEF IInv, TypeInv, TypeOK
  <1>4. NoStamps' /\ L0Inv' /\ ArtifactInv' /\ FinalInv' /\ Closed(target)' /\ WriterInv'
    BY <1>1, JournalFrame DEF IInv, store, recovery, NoStamps, L0Inv, ArtifactInv, FinalInv,
       Closed, WriterInv
  <1>5. CASE CopyFile(o)
    <2>1. UNCHANGED <<manifest, receipt, plan, call>>
      BY <1>5 DEF CopyFile
    <2>2. \A x \in Ops : copied[x] \subseteq copied'[x]
      BY <1>3, <1>5 DEF CopyFile
    <2>3. AuthorityInv' /\ PlanInv' /\ CallInv'
      BY <1>1, <2>1, JournalFrame DEF IInv, store, AuthorityInv, PlanInv, CallInv, Closed
    <2>4. BackupInv'
      BY <1>1, <2>1, <2>2 DEF IInv, BackupInv, Closed
    <2> QED
      BY <1>4, <2>3, <2>4 DEF IInv
  <1>6. CASE WriteManifest(o)
    <2>1. UNCHANGED <<copied, receipt, plan>> /\ manifest' = [manifest EXCEPT ![o] = ManifestOf(o)]
      BY <1>6 DEF WriteManifest
    <2>2. call'.pc = "receipt"
      BY <1>2, <1>6 DEF WriteManifest, Calls
    <2>3. AuthorityInv' /\ PlanInv'
      BY <1>1, <2>1, JournalFrame DEF IInv, store, AuthorityInv, PlanInv
    <2>4. CallInv'
      BY <2>2 DEF CallInv
    <2>5. /\ ManifestOf(o).source = dryrun[o]
          /\ ManifestOf(o).entries = call.before
          /\ call.before \subseteq copied[o]
          /\ call.before \cap Events = dryrun[o]
          /\ Closed(call.before)
      BY <1>2, <1>6 DEF WriteManifest, Running, ManifestOf, IInv, CallInv
    <2>6. BackupInv'
      BY <1>1, <1>3, <2>1, <2>5 DEF IInv, BackupInv, Closed
    <2> QED
      BY <1>4, <2>3, <2>4, <2>6 DEF IInv
  <1>7. CASE WriteReceipt(o)
    <2>1. UNCHANGED <<copied, manifest, plan>> /\ receipt' = [receipt EXCEPT ![o] = TRUE]
      BY <1>7 DEF WriteReceipt
    <2>2. call'.pc = "plan" /\ call'.op = o
      BY <1>2, <1>7 DEF WriteReceipt, Goto, Calls
    <2>3. AuthorityInv' /\ BackupInv'
      BY <1>1, <2>1, JournalFrame DEF IInv, store, AuthorityInv, BackupInv, Closed
    <2>4. PlanInv'
      BY <1>1, <1>3, <2>1 DEF IInv, PlanInv
    <2>5. CallInv'
      BY <1>3, <2>1, <2>2 DEF CallInv
    <2> QED
      BY <1>4, <2>3, <2>4, <2>5 DEF IInv
  <1>8. CASE RetainPlan(o)
    <2>1. UNCHANGED <<copied, manifest, receipt>>
      BY <1>8 DEF RetainPlan
    <2>2. call'.pc = "execute"
      BY <1>2, <1>8 DEF RetainPlan, Goto, Calls
    <2>3. PICK t \in Times : plan' = [plan EXCEPT ![o] =
                IF plan[o] # None THEN plan[o] ELSE [op |-> o, source |-> dryrun[o], at |-> t]]
      BY <1>8 DEF RetainPlan
    <2>4. \A x \in Ops : plan[x] # None => plan'[x] = plan[x]
      BY <1>3, <2>3
    <2>5. receipt[o]
      BY <1>2, <1>8 DEF RetainPlan, Running, IInv, CallInv
    <2>6. PlanInv'
      <3>1. ASSUME NEW x \in Ops, x # o, plan'[x] # None
            PROVE  plan'[x].op = x /\ plan'[x].source = dryrun'[x] /\ receipt'[x]
        BY <1>1, <1>3, <2>1, <2>3, <3>1 DEF IInv, PlanInv
      <3>2. plan'[o].op = o /\ plan'[o].source = dryrun'[o] /\ receipt'[o]
        <4>1. CASE plan[o] # None
          BY <1>1, <2>1, <2>4, <4>1 DEF IInv, PlanInv
        <4>2. CASE plan[o] = None
          <5>1. plan'[o] = [op |-> o, source |-> dryrun[o], at |-> t]
            BY <1>3, <2>3, <4>2
          <5> QED
            BY <1>1, <2>1, <2>5, <5>1
        <4> QED
          BY <4>1, <4>2
      <3> QED
        BY <3>1, <3>2 DEF PlanInv
    <2>7. AuthorityInv'
      <3>1. activation # None => activation.op \in Ops
        BY DEF IInv, TypeInv, TypeOK, Plans
      <3>2. activation # None => plan'[activation.op] = activation
        BY <2>4, <3>1 DEF IInv, AuthorityInv
      <3> QED
        BY <1>1, <3>2, JournalFrame DEF IInv, store, AuthorityInv
    <2>8. BackupInv' /\ CallInv'
      BY <1>1, <2>1, <2>2 DEF IInv, BackupInv, CallInv, Closed
    <2> QED
      BY <1>4, <2>6, <2>7, <2>8 DEF IInv
  <1> QED
    BY <1>5, <1>6, <1>7, <1>8

LEMMA ActivateSteps ==
    ASSUME IInv, TypeInv', NEW o \in Ops, Activate(o)
    PROVE  IInv'
  <1>1. UNCHANGED <<artifacts, journal, completions, dryrun, backup, admitted, recovery>>
    BY DEF Activate
  <1>2. call \in Calls /\ call.op = o /\ call.pc = "activate"
    BY DEF Activate, Running, IInv, TypeInv, TypeOK
  <1>3. call'.pc = "check" /\ call'.op = o
    BY <1>2 DEF Activate, Goto, Calls
  <1>4. activation = None /\ Cursor = plan[o].source
    BY <1>2 DEF IInv, CallInv
  <1>5. plan[o] # None /\ plan[o].op = o
    BY <1>2 DEF IInv, TypeInv, Grounded, PlanInv
  <1>6. activation' = plan[o]
    BY <1>4 DEF Activate
  <1>7. completions = {} /\ \A k \in ChangeKeys : ~Present(k)
    BY <1>4 DEF IInv, L0Inv
  <1>8. L0Inv'
    BY <1>5, <1>6 DEF L0Inv
  <1>9. AuthorityInv'
    <2>1. LegacyRecords' = plan[o].source
      BY <1>1, <1>4, <1>7, JournalFrame, LegacyOnly
    <2>2. \A k \in ChangeKeys : ~Present(k)'
      BY <1>1, <1>7, JournalFrame
    <2> QED
      BY <1>1, <1>5, <1>6, <1>7, <2>1, <2>2 DEF AuthorityInv, backup
  <1>10. CallInv'
    BY <1>3, <1>5, <1>6 DEF CallInv
  <1>11. WriterInv'
    BY <1>1, <1>2, ChangeMigrationAssumption DEF IInv, TypeInv, TypeOK, WriterInv
  <1>12. FinalInv'
    BY <1>1, <1>4 DEF IInv, FinalInv, backup
  <1>13. NoStamps' /\ ArtifactInv' /\ PlanInv' /\ BackupInv' /\ Closed(target)'
    BY <1>1 DEF IInv, backup, recovery, NoStamps, ArtifactInv, PlanInv, BackupInv, Closed
  <1> QED
    BY <1>8, <1>9, <1>10, <1>11, <1>12, <1>13 DEF IInv

LEMMA AppendSteps ==
    ASSUME IInv, TypeInv', NEW o \in Ops, AppendReserved(o)
    PROVE  IInv'
  <1>1. UNCHANGED <<artifacts, activation, completions, dryrun, backup, admitted, recovery>>
    BY DEF AppendReserved
  <1>2. call \in Calls /\ call.op = o /\ call.pc = "append"
    BY DEF AppendReserved, Running, IInv, TypeInv, TypeOK
  <1>3. PICK k \in call.left :
           /\ journal' = [journal EXCEPT ![k] = IF Present(k) THEN journal[k] ELSE "own"]
           /\ call' = [call EXCEPT !.left = call.left \ {k}]
    BY DEF AppendReserved
  <1>4. call'.pc = "append" /\ call'.op = o /\ call'.left = call.left \ {k}
    BY <1>2, <1>3 DEF Calls
  <1>5. activation # None /\ activation.op = o /\ k \in Reserved(activation.source)
    BY <1>2, <1>3 DEF IInv, CallInv
  <1>6. /\ k \in ChangeKeys
        /\ k \in Keys
        /\ k \notin LegacyKeys
        /\ Reserved(activation.source) \subseteq ChangeKeys
        /\ journal \in [Keys -> {"absent", "own", "stamped"}]
    <2>1. Reserved(activation.source) \subseteq AdoptionKeys
      BY <1>5, ReservedTyped DEF IInv, TypeInv, TypeOK, Plans
    <2> QED
      BY <1>5, <2>1, RetiredApart DEF IInv, TypeInv, TypeOK, Keys, LegacyKeys, ChangeKeys,
         ProductKeys, AdoptionKeys
  <1>7. journal'[k] = "own"
    BY <1>3, <1>6 DEF IInv, NoStamps, Present
  <1>8. \A j \in Keys : j # k => journal'[j] = journal[j]
    BY <1>3, <1>6
  <1>9. NoStamps'
    BY <1>7, <1>8 DEF IInv, NoStamps, Keys
  <1>10. L0Inv'
    BY <1>1, <1>5 DEF L0Inv
  <1>11. AuthorityInv'
    <2>1. LegacyRecords' = LegacyRecords /\ Outdated' = Outdated
      BY <1>6, <1>8, LegacyFrame DEF Keys
    <2>2. \A j \in ChangeKeys : Present(j)' => Present(j) \/ j = k
      BY <1>8 DEF Present, Keys
    <2>3. \A j \in Reserved(activation.source) : journal[j] = "own" => journal'[j] = "own"
      BY <1>6, <1>7, <1>8 DEF Keys
    <2> QED
      BY <1>1, <1>5, <2>1, <2>2, <2>3 DEF IInv, AuthorityInv, backup, Reserved
  <1>12. ArtifactInv'
    <2>1. \A p \in Products : journal'[<<"product", p>>] = journal[<<"product", p>>]
      BY <1>6, <1>8 DEF Keys, LegacyKeys, ProductKeys
    <2> QED
      BY <1>1, <2>1 DEF IInv, ArtifactInv
  <1>13. CallInv'
    <2>1. call.left \subseteq Reserved(activation.source)
          /\ \A j \in Reserved(activation.source) \ call.left : journal[j] = "own"
      BY <1>2 DEF IInv, CallInv
    <2>2. \A j \in Reserved(activation.source) \ call'.left : journal'[j] = "own"
      BY <1>4, <1>6, <1>7, <1>8, <2>1 DEF Keys
    <2>3. ~Outdated'
      BY <1>2, <1>6, <1>8, LegacyFrame DEF IInv, CallInv, Keys
    <2> QED
      BY <1>1, <1>4, <1>5, <2>1, <2>2, <2>3 DEF CallInv, Reserved
  <1>14. PlanInv' /\ BackupInv' /\ WriterInv' /\ FinalInv' /\ Closed(target)'
    BY <1>1 DEF IInv, backup, recovery, PlanInv, BackupInv, WriterInv, FinalInv, Closed
  <1> QED
    BY <1>9, <1>10, <1>11, <1>12, <1>13, <1>14 DEF IInv

LEMMA CompleteSteps ==
    ASSUME IInv, TypeInv', NEW o \in Ops, Complete(o)
    PROVE  IInv'
  <1>1. UNCHANGED <<artifacts, journal, activation, dryrun, backup, admitted, recovery>>
    BY DEF Complete
  <1>2. call \in Calls /\ call.op = o /\ call.pc = "append" /\ call.left = {}
    BY DEF Complete, Running, IInv, TypeInv, TypeOK
  <1>3. call'.pc = "verify" /\ call'.op = o
    BY <1>2 DEF Complete, Goto, Calls
  <1>4. activation # None /\ activation.op = o /\ plan[o] = activation
    BY <1>2 DEF IInv, CallInv, AuthorityInv
  <1>5. ~Outdated' /\ \A k \in Reserved(activation.source) : journal[k] = "own"
    BY <1>1, <1>2, JournalFrame DEF IInv, CallInv
  <1>6. completions' = {activation}
    BY <1>4 DEF Complete, IInv, AuthorityInv
  <1>7. L0Inv' /\ AuthorityInv'
    BY <1>1, <1>4, <1>5, <1>6 DEF IInv, L0Inv, AuthorityInv, backup, Reserved
  <1>8. CallInv'
    BY <1>1, <1>3, <1>4, <1>6 DEF CallInv
  <1>9. WriterInv' /\ FinalInv'
    BY <1>1, <1>6 DEF IInv, backup, WriterInv, FinalInv
  <1>10. NoStamps' /\ ArtifactInv' /\ PlanInv' /\ BackupInv' /\ Closed(target)'
    BY <1>1 DEF IInv, backup, recovery, NoStamps, ArtifactInv, PlanInv, BackupInv, Closed
  <1> QED
    BY <1>7, <1>8, <1>9, <1>10 DEF IInv

LEMMA FinishSteps ==
    ASSUME IInv, TypeInv', NEW o \in Ops, Finish(o)
    PROVE  IInv'
  <1>1. UNCHANGED <<store, dryrun, copied, manifest, receipt, plan, admitted, recovery>>
    BY DEF Finish
  <1>2. call.op = o /\ call.pc = "finish"
    BY DEF Finish, Running
  <1>3. FinalInv'
    BY <1>1, <1>2 DEF Finish, IInv, CallInv, FinalInv, TypeInv, TypeOK, store
  <1>4. CallInv'
    BY DEF Finish, EndCall, IdleCall, CallInv
  <1>5. NoStamps' /\ L0Inv' /\ AuthorityInv' /\ ArtifactInv'
    BY <1>1, JournalFrame DEF IInv, store, NoStamps, L0Inv, AuthorityInv, ArtifactInv
  <1>6. PlanInv' /\ BackupInv' /\ WriterInv' /\ Closed(target)'
    BY <1>1 DEF IInv, store, recovery, PlanInv, BackupInv, WriterInv, Closed
  <1> QED
    BY <1>3, <1>4, <1>5, <1>6 DEF IInv

LEMMA RestoreSteps ==
    ASSUME IInv, TypeInv', NEW o \in Ops, RestoreBegin(o) \/ RestoreFile(o) \/ RestoreEnd(o)
    PROVE  IInv'
  <1>1. UNCHANGED <<store, dryrun, backup, admitted, call>>
    BY DEF RestoreBegin, RestoreFile, RestoreEnd
  <1>2. Closed(target)'
    <2>1. CASE UNCHANGED target
      BY <2>1 DEF IInv, Closed
    <2>2. CASE RestoreFile(o)
      <3> DEFINE left == manifest[o].entries \ target
      <3>1. PICK f \in NextFiles(left) : target' = target \cup {f}
        BY <2>2 DEF RestoreFile
      <3>2. Closed(manifest[o].entries)
        BY <2>2, ChangeMigrationAssumption DEF RestoreFile, IInv, TypeInv, Grounded, BackupInv
      <3>3. ASSUME NEW p \in Products, <<"product", p, "own">> \in target'
            PROVE  <<"artifact", p, "own">> \in target'
        <4>1. CASE <<"product", p, "own">> \in target
          BY <3>1, <4>1 DEF IInv, Closed
        <4>2. CASE f = <<"product", p, "own">>
          <5>1. f \in manifest[o].entries /\ \A g \in left : ~Precedes(g, f)
            BY <3>1 DEF NextFiles
          <5>2. <<"artifact", p, "own">> \in manifest[o].entries
            BY <3>2, <4>2, <5>1 DEF Closed
          <5>3. Precedes(<<"artifact", p, "own">>, f)
            BY <4>2 DEF Precedes
          <5> QED
            BY <3>1, <5>1, <5>2, <5>3
        <4> QED
          BY <3>1, <3>3, <4>1, <4>2
      <3> QED
        BY <3>3 DEF Closed
    <2> QED
      BY <2>1, <2>2 DEF RestoreBegin, RestoreEnd
  <1>3. NoStamps' /\ L0Inv' /\ AuthorityInv' /\ ArtifactInv' /\ CallInv'
    BY <1>1, JournalFrame DEF IInv, store, backup, NoStamps, L0Inv, AuthorityInv, ArtifactInv,
       CallInv, Closed
  <1>4. PlanInv' /\ BackupInv' /\ FinalInv' /\ WriterInv'
    BY <1>1 DEF IInv, store, backup, PlanInv, BackupInv, FinalInv, WriterInv, Closed
  <1> QED
    BY <1>2, <1>3, <1>4 DEF IInv

LEMMA NextIInv == ForwardsLegacyOnly /\ IInv /\ [Next]_vars => IInv'
  <1> SUFFICES ASSUME ForwardsLegacyOnly, IInv, [Next]_vars PROVE IInv'
    OBVIOUS
  <1>0. TypeInv'
    BY NextTypeInv DEF IInv
  <1>1. ASSUME NEW p \in Captures, StoreArtifact(p) PROVE IInv'
    BY <1>0, <1>1, CaptureSteps
  <1>2. ASSUME NEW w \in Writers, WriterStep(w) PROVE IInv'
    BY <1>0, <1>2, WriterSteps
  <1>3. ASSUME NEW o \in Ops, DryRun(o) PROVE IInv'
    BY <1>0, <1>3, DryRunSteps
  <1>4. ASSUME NEW o \in Ops, Begin(o) \/ Refuse(o) PROVE IInv'
    BY <1>0, <1>4, BeginEndSteps
  <1>5. ASSUME NEW o \in Ops, MigrateStep(o) PROVE IInv'
    BY <1>0, <1>4, <1>5, ReadSteps, BackupSteps, ActivateSteps, AppendSteps, CompleteSteps,
       FinishSteps DEF MigrateStep
  <1>6. ASSUME NEW o \in Ops, RestoreBegin(o) \/ RestoreFile(o) \/ RestoreEnd(o) PROVE IInv'
    BY <1>0, <1>6, RestoreSteps
  <1>7. CASE Crash
    <2>1. call.op \in Ops
      BY <1>7 DEF Crash, IInv, TypeInv, Grounded
    <2> QED
      BY <1>0, <1>7, <2>1, BeginEndSteps
  <1>8. CASE UNCHANGED vars
    <2>1. CallInv'
      BY <1>8, JournalFrame DEF vars, IInv, store, backup, CallInv, Closed
    <2> QED
      BY <1>0, <1>8, <2>1, CallSteps DEF vars
  <1> QED
    BY <1>1, <1>2, <1>3, <1>4, <1>5, <1>6, <1>7, <1>8 DEF Next

-----------------------------------------------------------------------------
(* What the transition promises, for any number of captures, Change        *)
(* records, operations, writers and crashes.                               *)

\* The two point reads of writer admission (bounded_writer_capability_status)
\* and the validation of every record (route_journal_entries) agree on every
\* activated store, except on one with a record of a retired event type: that
\* one the strict router refuses from the activation on, and the point reads
\* keep it at M1, where no writer is admitted.
THEOREM TwoReadAdmissionIsSound == ForwardsLegacyOnly => (Spec => []BoundedAgrees)
  <1> SUFFICES ASSUME ForwardsLegacyOnly PROVE Spec => []BoundedAgrees
    OBVIOUS
  <1>1. IInv /\ [Next]_vars => IInv'
    BY NextIInv
  <1> QED
    BY <1>1, InitIInv, AgreesFromIInv, PTL DEF Spec

\* Between activation and completion the store holds the approved legacy events
\* and no others: the lock and the admission of begin_current_product_batch keep
\* every late append out.
THEOREM OnlyTheApprovedIsActivated == ForwardsLegacyOnly => (Spec => []ActivatedFromApproved)
  <1> SUFFICES ASSUME ForwardsLegacyOnly PROVE Spec => []ActivatedFromApproved
    OBVIOUS
  <1>1. IInv /\ [Next]_vars => IInv'
    BY NextIInv
  <1> QED
    BY <1>1, InitIInv, ApprovedFromIInv, PTL DEF Spec

\* Whatever call died where: an activation record implies its retained plan, byte
\* for byte, and a verified backup of the approved events with their artifacts.
THEOREM ActivationIsRecoverable == ForwardsLegacyOnly => (Spec => []ActivationRecoverable)
  <1> SUFFICES ASSUME ForwardsLegacyOnly PROVE Spec => []ActivationRecoverable
    OBVIOUS
  <1>1. IInv /\ [Next]_vars => IInv'
    BY NextIInv
  <1> QED
    BY <1>1, InitIInv, RecoverableFromIInv, PTL DEF Spec

\* Of the operations approved for one store only the one its capability records
\* name ever writes a completion receipt.
THEOREM ReceiptIsTheAuthoritys == ForwardsLegacyOnly => (Spec => []ReceiptNamesAuthority)
  <1> SUFFICES ASSUME ForwardsLegacyOnly PROVE Spec => []ReceiptNamesAuthority
    OBVIOUS
  <1>1. IInv /\ [Next]_vars => IInv'
    BY NextIInv
  <1> QED
    BY <1>1, InitIInv, ReceiptFromIInv, PTL DEF Spec

\* A restore that is interrupted anywhere leaves no event of a capture without
\* its artifact (restore_bulk_adoption_backup copies in path order).
THEOREM ForkIsClosed == ForwardsLegacyOnly => (Spec => []ForkHasArtifacts)
  <1> SUFFICES ASSUME ForwardsLegacyOnly PROVE Spec => []ForkHasArtifacts
    OBVIOUS
  <1>1. IInv /\ [Next]_vars => IInv'
    BY NextIInv
  <1> QED
    BY <1>1, InitIInv, ForkFromIInv, PTL DEF Spec
=============================================================================

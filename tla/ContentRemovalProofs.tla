------------------------ MODULE ContentRemovalProofs ------------------------
(***************************************************************************)
(* Proofs about ContentRemoval, for any number of hashes, writers,         *)
(* sweepers and readers.  What makes compaction safe without a lock is     *)
(* that eligibility is never taken away (EligibleForGood), so what a       *)
(* sweeper saw in its listing still holds when it deletes (SweepInv).      *)
(***************************************************************************)
EXTENDS ContentRemoval, TLAPS

\* Whatever a sweeper's listing makes eligible is eligible in the log, and the
\* blob in a sweeper's hand was eligible and intact.
SweepInv ==
    \A s \in Sweepers :
        sweep[s].at # "idle" =>
            /\ \A h \in Hashes : Operative(sweep[s].seen, h) => Operative(CurrentListing, h)
            /\ sweep[s].at = "erase" =>
                  /\ Operative(sweep[s].seen, sweep[s].hash)
                  /\ blob[sweep[s].hash] # "drifted"

\* A writer about to record its event has its artifact, or it was removed.
WriterInv ==
    \A w \in Writers :
        writer[w].at = "record" =>
            \/ blob[writer[w].hash] = "intact"
            \/ Operative(CurrentListing, writer[w].hash)

\* Whatever a reader's listing makes operative is operative in the log.
ReaderInv ==
    \A r \in Readers :
        reader[r].at = "resolve" =>
            \A h \in Hashes : Operative(reader[r].seen, h) => Operative(CurrentListing, h)

RemovalInv ==
    /\ SweepInv
    /\ WriterInv
    /\ ReaderInv
    /\ ErasedOnlyRemoved
    /\ KeptOrRemoved

-----------------------------------------------------------------------------

\* No step of anybody takes eligibility away from a hash.
LEMMA EligibleForGood ==
    ASSUME TypeOK, [Next]_vars, NEW h \in Hashes, Operative(CurrentListing, h)
    PROVE  Operative(CurrentListing, h)'
  <1> USE DEF CurrentListing, Operative, ArmPossession, ArmTrusted
  <1>1. CASE UNCHANGED log
    BY <1>1 DEF log
  <1>2. ASSUME NEW g \in Hashes, LogStep(g) PROVE Operative(CurrentListing, h)'
    BY <1>2 DEF LogStep, FoldReference, RemoveContent, IngestRemoval, EndorseRemoval,
                RecordClaim, TypeOK, Claim
  <1>3. ASSUME NEW w \in Writers, RecordReference(w) PROVE Operative(CurrentListing, h)'
    BY <1>3 DEF RecordReference
  <1> QED
    BY <1>1, <1>2, <1>3 DEF Next, WriterStep, SweepStep, ReaderStep, PutArtifact,
       VerifyArtifact, StopWriter, CompactList, CompactScan, CompactExamine, CompactErase,
       CompactDone, StopSweep, ReadList, ReadResolve, vars, log

-----------------------------------------------------------------------------

LEMMA InitTypeOK == Init => TypeOK
  BY DEF Init, TypeOK, IdleWriter, IdleSweep, IdleReader, WriterState, SweepState,
         ReaderState, ReadResults

LEMMA CurrentIsListing == TypeOK => CurrentListing \in Listing
  BY DEF TypeOK, CurrentListing, Listing

LEMMA WriterType ==
    ASSUME TypeOK, NEW w \in Writers, WriterStep(w)
    PROVE  TypeOK'
  <1> USE DEF TypeOK, log, WriterState
  <1>1. ASSUME NEW h \in Hashes, PutArtifact(w, h) PROVE TypeOK'
    <2>1. writer' \in [Writers -> WriterState]
      BY <1>1 DEF PutArtifact
    <2>2. blob' \in [Hashes -> {"absent", "intact", "drifted"}]
      BY <1>1 DEF PutArtifact
    <2>3. \A x \in Writers : writer'[x].at # "idle" => writer'[x].hash \in Hashes
      BY <1>1 DEF PutArtifact
    <2>4. UNCHANGED <<log, sweep, reader, erased>>
      BY <1>1 DEF PutArtifact
    <2> QED
      BY <2>1, <2>2, <2>3, <2>4
  <1>2. CASE VerifyArtifact(w)
    BY <1>2 DEF VerifyArtifact, IdleWriter
  <1>3. CASE RecordReference(w)
    BY <1>3 DEF RecordReference, IdleWriter
  <1>4. CASE StopWriter(w)
    BY <1>4 DEF StopWriter, IdleWriter
  <1> QED
    BY <1>1, <1>2, <1>3, <1>4 DEF WriterStep

LEMMA SweepType ==
    ASSUME TypeOK, NEW s \in Sweepers, SweepStep(s)
    PROVE  TypeOK'
  <1> DEFINE Rest == UNCHANGED <<named, kept, claim, endorsed, writer, reader>>
             Fits(r) == /\ r \in SweepState
                        /\ r.at # "idle" => r.seen \in Listing
                        /\ r.at = "erase" => r.hash \in Hashes
  <1>0. ASSUME NEW r, Fits(r), sweep' = [sweep EXCEPT ![s] = r], Rest,
               blob' \in [Hashes -> {"absent", "intact", "drifted"}],
               erased' \subseteq Hashes
        PROVE  TypeOK'
    BY <1>0 DEF TypeOK
  <1>00. Fits(sweep[s]) /\ blob \in [Hashes -> {"absent", "intact", "drifted"}]
           /\ erased \subseteq Hashes
    BY DEF TypeOK
  <1>1. CASE CompactList(s)
    <2> DEFINE r == [sweep[s] EXCEPT !.at = "scan", !.seen = CurrentListing]
    <2>1. Fits(r)
      BY <1>00, CurrentIsListing DEF SweepState
    <2> HIDE DEF Fits
    <2> QED
      BY <1>0, <1>1, <1>00, <2>1 DEF CompactList, log
  <1>2. CASE CompactScan(s)
    <2> DEFINE r == [sweep[s] EXCEPT !.at = "examine",
                                     !.left = {h \in Hashes : blob[h] # "absent"}]
    <2>1. Fits(r)
      BY <1>2, <1>00 DEF CompactScan, SweepState
    <2> HIDE DEF Fits
    <2> QED
      BY <1>0, <1>2, <1>00, <2>1 DEF CompactScan, log
  <1>3. ASSUME NEW h \in Hashes, CompactExamine(s, h) PROVE TypeOK'
    <2> DEFINE r1 == [sweep[s] EXCEPT !.at = "erase", !.left = sweep[s].left \ {h}, !.hash = h]
               r2 == [sweep[s] EXCEPT !.left = sweep[s].left \ {h}]
    <2>1. Fits(r1) /\ Fits(r2)
      BY <1>3, <1>00 DEF CompactExamine, SweepState
    <2>2. sweep' = [sweep EXCEPT ![s] = r1] \/ sweep' = [sweep EXCEPT ![s] = r2]
      BY <1>3 DEF CompactExamine
    <2> HIDE DEF Fits, r1, r2
    <2> QED
      BY <1>0, <1>3, <1>00, <2>1, <2>2 DEF CompactExamine, log
  <1>4. CASE CompactErase(s)
    <2> DEFINE r == [sweep[s] EXCEPT !.at = "examine", !.hash = Nothing]
    <2>1. Fits(r)
      BY <1>4, <1>00 DEF CompactErase, SweepState
    <2>2. /\ blob' \in [Hashes -> {"absent", "intact", "drifted"}]
          /\ erased' \subseteq Hashes
      BY <1>4, <1>00 DEF CompactErase
    <2> HIDE DEF Fits
    <2> QED
      BY <1>0, <1>4, <2>1, <2>2 DEF CompactErase, log
  <1>5. CASE CompactDone(s) \/ StopSweep(s)
    <2>1. Fits(IdleSweep)
      BY DEF IdleSweep, SweepState
    <2> HIDE DEF Fits
    <2> QED
      BY <1>0, <1>5, <1>00, <2>1 DEF CompactDone, StopSweep, log
  <1> QED
    BY <1>1, <1>2, <1>3, <1>4, <1>5 DEF SweepStep

LEMMA ReaderType ==
    ASSUME TypeOK, NEW r \in Readers, ReaderStep(r)
    PROVE  TypeOK'
  <1> USE DEF TypeOK, log
  <1>1. ASSUME NEW h \in Hashes, ReadList(r, h) PROVE TypeOK'
    BY <1>1, CurrentIsListing DEF ReadList, ReaderState, ReadResults
  <1>2. CASE ReadResolve(r)
    <2>1. Resolve(reader[r].seen, reader[r].hash) \in ReadResults
      BY <1>2 DEF ReadResolve, Resolve, ReadResults
    <2> DEFINE d == [reader[r] EXCEPT !.at = "idle", !.seen = Nothing,
                          !.got = Resolve(reader[r].seen, reader[r].hash)]
    <2>2. d \in ReaderState /\ d.at = "idle"
      BY <2>1 DEF ReaderState
    <2>3. reader' = [reader EXCEPT ![r] = d]
      BY <1>2 DEF ReadResolve
    <2> QED
      BY <1>2, <2>2, <2>3 DEF ReadResolve
  <1> QED
    BY <1>1, <1>2 DEF ReaderStep

LEMMA LogType ==
    ASSUME TypeOK, NEW h \in Hashes, LogStep(h)
    PROVE  TypeOK'
  <1> USE NothingAssumption DEF TypeOK, clients
  <1>1. CASE FoldReference(h)
    BY <1>1 DEF FoldReference
  <1>2. ASSUME NEW s \in Statuses, RemoveContent(h, s) \/ IngestRemoval(h, s) PROVE TypeOK'
    <2>1. PICK c \in Claim : RecordClaim(h, c)
      BY <1>2 DEF RemoveContent, IngestRemoval, Claim
    <2>2. /\ claim' \in [Hashes -> Claim \cup {Nothing}]
          /\ \A g \in Hashes : claim[g] # Nothing => claim'[g] # Nothing
      BY <2>1 DEF RecordClaim
    <2> QED
      BY <1>2, <2>2 DEF RemoveContent, IngestRemoval
  <1>3. CASE EndorseRemoval(h)
    BY <1>3 DEF EndorseRemoval
  <1> QED
    BY <1>1, <1>2, <1>3 DEF LogStep

LEMMA NextTypeOK == TypeOK /\ [Next]_vars => TypeOK'
  <1>1. TypeOK /\ UNCHANGED vars => TypeOK'
    BY DEF TypeOK, vars
  <1> QED
    BY <1>1, WriterType, SweepType, ReaderType, LogType DEF Next

\* Every variable keeps its type; whoever is at work on a hash has one; only a
\* stored claim is endorsed.
THEOREM TypeCorrect == Spec => []TypeOK
  BY InitTypeOK, NextTypeOK, PTL DEF Spec

-----------------------------------------------------------------------------

LEMMA InitRemovalInv == Init => RemovalInv
  BY DEF Init, RemovalInv, SweepInv, WriterInv, ReaderInv, ErasedOnlyRemoved,
         KeptOrRemoved, IdleSweep, IdleWriter, IdleReader

\* A blob goes from absent to intact, or is deleted by a sweeper that had it in
\* hand; so an intact one stays intact unless it is eligible.
LEMMA BlobStep ==
    ASSUME TypeOK, RemovalInv, [Next]_vars, NEW h \in Hashes
    PROVE  /\ blob[h] = "intact" => blob'[h] = "intact" \/ Operative(CurrentListing, h)
           /\ blob[h] # "drifted" <=> blob'[h] # "drifted"
           /\ h \in erased' => h \in erased \/ Operative(CurrentListing, h)
  <1>1. ASSUME NEW s \in Sweepers, CompactErase(s)
        PROVE  /\ blob[h] = "intact" => blob'[h] = "intact" \/ Operative(CurrentListing, h)
               /\ blob[h] # "drifted" <=> blob'[h] # "drifted"
               /\ h \in erased' => h \in erased \/ Operative(CurrentListing, h)
    BY <1>1 DEF CompactErase, RemovalInv, SweepInv, TypeOK
  <1>2. ASSUME NEW w \in Writers, NEW g \in Hashes, PutArtifact(w, g)
        PROVE  /\ blob[h] = "intact" => blob'[h] = "intact"
               /\ blob[h] # "drifted" <=> blob'[h] # "drifted"
               /\ erased' = erased
    BY <1>2 DEF PutArtifact, TypeOK
  <1>3. CASE blob' = blob /\ erased' = erased
    BY <1>3
  <1> QED
    BY <1>1, <1>2, <1>3 DEF Next, WriterStep, SweepStep, ReaderStep, LogStep,
       VerifyArtifact, RecordReference, StopWriter, CompactList, CompactScan,
       CompactExamine, CompactDone, StopSweep, ReadList, ReadResolve, FoldReference,
       RemoveContent, IngestRemoval, EndorseRemoval, vars

LEMMA NextRemovalInv == TypeOK /\ RemovalInv /\ [Next]_vars => RemovalInv'
  <1> SUFFICES ASSUME TypeOK, RemovalInv, [Next]_vars PROVE RemovalInv'
    OBVIOUS
  <1>1. ErasedOnlyRemoved'
    <2>1. \A h \in Hashes : h \in erased' => Operative(CurrentListing, h)
      BY BlobStep DEF RemovalInv, ErasedOnlyRemoved, EraseEligible
    <2>2. erased' \subseteq Hashes
      BY NextTypeOK DEF TypeOK
    <2> QED
      BY <2>1, <2>2, EligibleForGood DEF ErasedOnlyRemoved, EraseEligible
  <1>2. SweepInv'
    <2> SUFFICES ASSUME NEW s \in Sweepers, sweep'[s].at # "idle"
                 PROVE  /\ \A h \in Hashes : Operative(sweep'[s].seen, h)
                                               => Operative(CurrentListing, h)'
                        /\ sweep'[s].at = "erase" =>
                              /\ Operative(sweep'[s].seen, sweep'[s].hash)
                              /\ blob'[sweep'[s].hash] # "drifted"
      BY DEF SweepInv, Operative, ArmTrusted
    <2>1. CASE sweep'[s] = sweep[s]
      BY <2>1, EligibleForGood, BlobStep DEF RemovalInv, SweepInv, TypeOK
    <2>2. CASE CompactList(s)
      BY <2>2, EligibleForGood DEF CompactList, TypeOK, SweepState
    <2>3. CASE CompactScan(s)
      BY <2>3, EligibleForGood DEF CompactScan, RemovalInv, SweepInv, TypeOK, SweepState
    <2>4. ASSUME NEW h \in Hashes, CompactExamine(s, h)
          PROVE  /\ sweep'[s].seen = sweep[s].seen
                 /\ sweep'[s].at = "erase" => /\ sweep'[s].hash = h
                                              /\ Operative(sweep[s].seen, h)
                                              /\ blob'[h] = "intact"
      BY <2>4 DEF CompactExamine, EraseEligible, TypeOK, SweepState
    <2>5. CASE \E h \in Hashes : CompactExamine(s, h)
      BY <2>4, <2>5, EligibleForGood DEF CompactExamine, RemovalInv, SweepInv
    <2>6. CASE CompactErase(s)
      BY <2>6, EligibleForGood DEF CompactErase, RemovalInv, SweepInv, TypeOK, SweepState
    <2>7. CASE CompactDone(s) \/ StopSweep(s)
      BY <2>7 DEF CompactDone, StopSweep, IdleSweep, TypeOK
    <2>8. ASSUME NEW t \in Sweepers, t # s, SweepStep(t) PROVE sweep'[s] = sweep[s]
      BY <2>8 DEF SweepStep, CompactList, CompactScan, CompactExamine, CompactErase,
                  CompactDone, StopSweep, TypeOK
    <2>9. CASE sweep' = sweep
      BY <2>1, <2>9
    <2> QED
      BY <2>1, <2>2, <2>3, <2>5, <2>6, <2>7, <2>8, <2>9 DEF Next, SweepStep, WriterStep,
         ReaderStep, LogStep, PutArtifact, VerifyArtifact, RecordReference, StopWriter,
         ReadList, ReadResolve, FoldReference, RemoveContent, IngestRemoval,
         EndorseRemoval, clients, vars
  <1>3. WriterInv'
    <2> SUFFICES ASSUME NEW w \in Writers, NEW g,
                        writer'[w].at = "record", writer'[w].hash = g
                 PROVE  blob'[g] = "intact" \/ Operative(CurrentListing, g)'
      BY DEF WriterInv
    <2>1. CASE writer'[w] = writer[w]
      BY <2>1, EligibleForGood, BlobStep DEF RemovalInv, WriterInv, TypeOK
    <2>2. ASSUME NEW h \in Hashes, PutArtifact(w, h)
          PROVE  blob'[g] = "intact"
      BY <2>2 DEF PutArtifact, TypeOK, WriterState
    <2>3. CASE VerifyArtifact(w)
      BY <2>3 DEF VerifyArtifact, IdleWriter, TypeOK, WriterState
    <2>4. CASE RecordReference(w) \/ StopWriter(w)
      BY <2>4 DEF RecordReference, StopWriter, IdleWriter, TypeOK
    <2>5. ASSUME NEW v \in Writers, v # w, WriterStep(v) PROVE writer'[w] = writer[w]
      BY <2>5 DEF WriterStep, PutArtifact, VerifyArtifact, RecordReference, StopWriter,
                  TypeOK
    <2>6. CASE writer' = writer
      BY <2>1, <2>6
    <2> QED
      BY <2>1, <2>2, <2>3, <2>4, <2>5, <2>6 DEF Next, SweepStep, WriterStep,
         ReaderStep, LogStep, CompactList, CompactScan, CompactExamine, CompactErase,
         CompactDone, StopSweep, ReadList, ReadResolve, FoldReference, RemoveContent,
         IngestRemoval, EndorseRemoval, clients, vars
  <1>4. KeptOrRemoved'
    <2> SUFFICES ASSUME NEW h \in kept'
                 PROVE  blob'[h] = "intact" \/ Operative(CurrentListing, h)'
      BY DEF KeptOrRemoved, Operative, ArmTrusted
    <2>1. h \in Hashes
      BY NextTypeOK DEF TypeOK
    <2>2. CASE h \in kept
      BY <2>1, <2>2, EligibleForGood, BlobStep DEF RemovalInv, KeptOrRemoved
    <2>3. ASSUME NEW w \in Writers, RecordReference(w), h = writer[w].hash
          PROVE  blob'[h] = "intact" \/ Operative(CurrentListing, h)'
      BY <2>1, <2>3, EligibleForGood, BlobStep
         DEF RecordReference, RemovalInv, WriterInv
    <2>4. h \in kept \/ \E w \in Writers : RecordReference(w) /\ h = writer[w].hash
      BY DEF Next, SweepStep, WriterStep, ReaderStep, LogStep, PutArtifact, VerifyArtifact,
         RecordReference, StopWriter, CompactList, CompactScan, CompactExamine,
         CompactErase, CompactDone, StopSweep, ReadList, ReadResolve, FoldReference,
         RemoveContent, IngestRemoval, EndorseRemoval, log, vars
    <2> QED
      BY <2>2, <2>3, <2>4
  <1>5. ReaderInv'
    <2> SUFFICES ASSUME NEW r \in Readers, reader'[r].at = "resolve",
                        NEW h \in Hashes, Operative(reader'[r].seen, h)
                 PROVE  Operative(CurrentListing, h)'
      BY DEF ReaderInv, Operative, ArmTrusted
    <2>1. CASE reader'[r] = reader[r]
      BY <2>1, EligibleForGood DEF RemovalInv, ReaderInv
    <2>2. ASSUME NEW g \in Hashes, ReadList(r, g) PROVE Operative(CurrentListing, h)'
      BY <2>2, EligibleForGood DEF ReadList, TypeOK
    <2>3. CASE ReadResolve(r)
      BY <2>3 DEF ReadResolve, TypeOK, ReaderState
    <2>4. ASSUME NEW q \in Readers, q # r, ReaderStep(q) PROVE reader'[r] = reader[r]
      BY <2>4 DEF ReaderStep, ReadList, ReadResolve, TypeOK
    <2>5. CASE reader' = reader
      BY <2>1, <2>5
    <2> QED
      BY <2>1, <2>2, <2>3, <2>4, <2>5 DEF Next, SweepStep, WriterStep, ReaderStep, LogStep,
         PutArtifact, VerifyArtifact, RecordReference, StopWriter, CompactList, CompactScan,
         CompactExamine, CompactErase, CompactDone, StopSweep, FoldReference, RemoveContent,
         IngestRemoval, EndorseRemoval, clients, vars
  <1> QED
    BY <1>1, <1>2, <1>3, <1>4, <1>5 DEF RemovalInv

LEMMA RemovalInvariant == Spec => [](TypeOK /\ RemovalInv)
  <1>1. Init => TypeOK /\ RemovalInv
    BY InitTypeOK, InitRemovalInv
  <1>2. TypeOK /\ RemovalInv /\ [Next]_vars => (TypeOK /\ RemovalInv)'
    BY NextTypeOK, NextRemovalInv
  <1> QED
    BY <1>1, <1>2, PTL DEF Spec

\* compact_store, with no lock and from a listing of any age, has deleted only
\* content whose removal is operative in the log.
THEOREM CompactionErasesOnlyRemoved == Spec => []ErasedOnlyRemoved
  <1>1. RemovalInv => ErasedOnlyRemoved
    BY DEF RemovalInv
  <1> QED
    BY <1>1, RemovalInvariant, PTL

\* A fact recorded with its artifact in hand keeps it, or the log explains why
\* not: a capture that races a compaction is never left with lost bytes.
THEOREM RecordedIsKeptOrRemoved == Spec => []KeptOrRemoved
  <1>1. RemovalInv => KeptOrRemoved
    BY DEF RemovalInv
  <1> QED
    BY <1>1, RemovalInvariant, PTL

\* "later events can only make more content eligible, never less".
THEOREM EligibilityNeverLost == Spec => EligibilityIsPermanent
  <1>1. TypeOK /\ [Next]_vars
          => [\A h \in Hashes : Operative(CurrentListing, h)
                                  => Operative(CurrentListing, h)']_vars
    BY EligibleForGood
  <1> QED
    BY <1>1, TypeCorrect, PTL DEF Spec, EligibilityIsPermanent

\* Bytes that no longer match their hash are never deleted or replaced.
THEOREM DriftIsKept == Spec => DriftIsNeverErased
  <1>1. TypeOK /\ RemovalInv /\ [Next]_vars
          => [\A h \in Hashes : blob[h] = "drifted" => blob'[h] = "drifted"]_vars
    <2>1. TypeOK /\ [Next]_vars => TypeOK'
      BY NextTypeOK
    <2> QED
      BY <2>1, BlobStep DEF TypeOK
  <1> QED
    BY <1>1, RemovalInvariant, PTL DEF Spec, DriftIsNeverErased

\* A read that resolves a body against a listing of any age calls removed only
\* what is removed, and loses a recorded artifact only to a removal.
THEOREM StaleReadsAreHonest == Spec => StaleReadsStandUp
  <1> DEFINE Honest(r) ==
        LET h == reader[r].hash
            got == reader'[r].got
        IN  reader[r].at = "resolve" /\ reader'[r].at = "idle" =>
              /\ got \in {"suppressed_present", "physically_removed"}
                    => Operative(CurrentListing, h)
              /\ got = "missing" /\ h \in kept => Operative(CurrentListing, h)
  <1>1. ASSUME TypeOK, RemovalInv, [Next]_vars, NEW r \in Readers PROVE Honest(r)
    <2> SUFFICES ASSUME reader[r].at = "resolve", reader'[r].at = "idle" PROVE Honest(r)
      OBVIOUS
    <2>1. reader'[r] # reader[r]
      OBVIOUS
    <2>2. ASSUME NEW q \in Readers, q # r, ReaderStep(q) PROVE reader'[r] = reader[r]
      BY <1>1, <2>2 DEF ReaderStep, ReadList, ReadResolve, TypeOK
    <2>3. reader' = reader \/ \E q \in Readers : ReaderStep(q)
      BY <1>1 DEF Next, SweepStep, WriterStep, LogStep, PutArtifact, VerifyArtifact,
         RecordReference, StopWriter, CompactList, CompactScan, CompactExamine,
         CompactErase, CompactDone, StopSweep, FoldReference, RemoveContent,
         IngestRemoval, EndorseRemoval, clients, vars
    <2>4. ReadResolve(r)
      BY <2>1, <2>2, <2>3 DEF ReaderStep, ReadList
    <2> DEFINE h == reader[r].hash
    <2>5. reader'[r].got = Resolve(reader[r].seen, h) /\ h \in Hashes
      BY <1>1, <2>4 DEF ReadResolve, TypeOK, ReaderState
    <2>6. Operative(reader[r].seen, h) => Operative(CurrentListing, h)
      BY <1>1, <2>5 DEF RemovalInv, ReaderInv
    <2>7. h \in kept => blob[h] = "intact" \/ Operative(CurrentListing, h)
      BY <1>1 DEF RemovalInv, KeptOrRemoved
    <2>8. /\ reader'[r].got \in {"suppressed_present", "physically_removed"}
                => Operative(reader[r].seen, h)
          /\ reader'[r].got = "missing" => blob[h] = "absent"
      BY <1>1, <2>5 DEF Resolve, TypeOK
    <2> QED BY <2>6, <2>7, <2>8
  <1>2. TypeOK /\ RemovalInv /\ [Next]_vars => [\A r \in Readers : Honest(r)]_vars
    BY <1>1
  <1> QED
    BY <1>2, RemovalInvariant, PTL DEF Spec, StaleReadsStandUp
=============================================================================

--------------------------- MODULE ContentRemoval ---------------------------
(***************************************************************************)
(* Content removal and compaction: `store remove` appends an               *)
(* ArtifactRemoved fact, `store compact` later erases the bytes, with no   *)
(* lock, beside writers that store artifacts and events, folds that bring  *)
(* in another store's events, endorsements, and readers.                   *)
(* src/src/session/workflow/artifact_removal/mod.rs,                       *)
(* src/src/session/projection/artifact_removal.rs,                         *)
(* src/src/session/store/{content,bundle}.rs,                              *)
(* src/src/session/projection/body_content.rs.                             *)
(*                                                                         *)
(* One exclusive create and one event write are each one step here; that   *)
(* they behave so is what EventStore shows.  All readers and sweepers use  *)
(* one trust set, so a signature status is a property of the stored event. *)
(***************************************************************************)
CONSTANTS
    Hashes,     \* content hashes; each is the path of one artifact
    Writers,    \* captures and imports under way
    Sweepers,   \* compact_store calls under way
    Readers,    \* reads of one body under way
    Nothing     \* no hash, no claim

Statuses == {"Valid", "UntrustedKey", "Unsigned", "Invalid"}

\* A stored ArtifactRemoved event: how its signature verifies, and whether it
\* carries an ingest stamp (it came from elsewhere).
Claim == [status : Statuses, ingest : BOOLEAN]

ASSUME NothingAssumption == Nothing \notin Hashes \cup Claim

VARIABLES
    named,      \* hashes some event of the log names
    kept,       \* those named by a writer that had stored or verified the bytes
    claim,      \* the ArtifactRemoved event stored for each hash: one key per hash
    endorsed,   \* hashes whose claim has a trusted co-signature in the log
    blob,       \* the artifact on disk
    writer,     \* each writer's step and hash
    sweep,      \* each sweeper's step, listing, work left and blob in hand
    reader,     \* each reader's step, listing and hash
    erased      \* history: hashes whose bytes compaction has deleted

vars == <<named, kept, claim, endorsed, blob, writer, sweep, reader, erased>>
log == <<named, kept, claim, endorsed>>
clients == <<writer, sweep, reader>>

\* What list_events gives a sweeper or a reader of removals.
Listing == [claims : [Hashes -> Claim \cup {Nothing}], endorsed : SUBSET Hashes]
CurrentListing == [claims |-> claim, endorsed |-> endorsed]

IdleWriter == [at |-> "idle", hash |-> Nothing]
IdleSweep == [at |-> "idle", seen |-> Nothing, left |-> {}, hash |-> Nothing]
IdleReader == [at |-> "idle", seen |-> Nothing, hash |-> Nothing, got |-> "none"]

ReadResults == {"none", "present", "suppressed_present", "physically_removed",
                "missing", "mismatch"}

WriterState == [at : {"idle", "verify", "record"}, hash : Hashes \cup {Nothing}]
SweepState == [at : {"idle", "scan", "examine", "erase"}, seen : Listing \cup {Nothing},
               left : SUBSET Hashes, hash : Hashes \cup {Nothing}]
ReaderState == [at : {"idle", "resolve"}, seen : Listing \cup {Nothing},
                hash : Hashes \cup {Nothing}, got : ReadResults]

(***************************************************************************)
(* ArtifactRemovalProjection: when is a removal operative?                 *)
(***************************************************************************)
ArmPossession(c) == ~c.ingest
ArmTrusted(l, h) == l.claims[h].status = "Valid" \/ h \in l.endorsed

\* operative_status under possession-or-trusted: the invalid floor never lifts.
Operative(l, h) ==
    /\ l.claims[h] # Nothing
    /\ l.claims[h].status # "Invalid"
    /\ ArmPossession(l.claims[h]) \/ ArmTrusted(l, h)

\* Mutant: any recorded claim is enough to erase.
EraseEligibleClaimed(l, h) == l.claims[h] # Nothing

\* is_erase_eligible: compact's fixed rule.
EraseEligible(l, h) == Operative(l, h)

\* The type of every variable, and that whoever is at work on a hash has one.
TypeOK ==
    /\ named \subseteq Hashes
    /\ kept \subseteq named
    /\ claim \in [Hashes -> Claim \cup {Nothing}]
    /\ endorsed \subseteq {h \in Hashes : claim[h] # Nothing}
    /\ blob \in [Hashes -> {"absent", "intact", "drifted"}]
    /\ writer \in [Writers -> WriterState]
    /\ sweep \in [Sweepers -> SweepState]
    /\ reader \in [Readers -> ReaderState]
    /\ erased \subseteq Hashes
    /\ \A w \in Writers : writer[w].at # "idle" => writer[w].hash \in Hashes
    /\ \A s \in Sweepers : sweep[s].at # "idle" => sweep[s].seen \in Listing
    /\ \A s \in Sweepers : sweep[s].at = "erase" => sweep[s].hash \in Hashes
    /\ \A r \in Readers : reader[r].at # "idle" => reader[r].hash \in Hashes

\* Some artifacts may already have rotted on disk, unnamed or not.
Init ==
    /\ named = {}
    /\ kept = {}
    /\ claim = [h \in Hashes |-> Nothing]
    /\ endorsed = {}
    /\ blob \in [Hashes -> {"absent", "drifted"}]
    /\ writer = [w \in Writers |-> IdleWriter]
    /\ sweep = [s \in Sweepers |-> IdleSweep]
    /\ reader = [r \in Readers |-> IdleReader]
    /\ erased = {}

(***************************************************************************)
(* Writers: the artifact, then the event that names it.                    *)
(***************************************************************************)

\* put_object, put_note_body: create the blob, or find one there.
PutArtifact(w, h) ==
    /\ writer[w].at = "idle"
    /\ \/ /\ blob[h] = "absent"
          /\ blob' = [blob EXCEPT ![h] = "intact"]
          /\ writer' = [writer EXCEPT ![w] = [at |-> "record", hash |-> h]]
       \/ /\ blob[h] # "absent"
          /\ writer' = [writer EXCEPT ![w] = [at |-> "verify", hash |-> h]]
          /\ UNCHANGED blob
    /\ UNCHANGED <<log, sweep, reader, erased>>

\* Mutant: a blob found in place is trusted without being read.
VerifyArtifactBlindly(w) ==
    /\ writer[w].at = "verify"
    /\ writer' = [writer EXCEPT ![w].at = "record"]
    /\ UNCHANGED <<log, blob, sweep, reader, erased>>

\* AlreadyExists: the blob is read and compared; gone or different is an error.
VerifyArtifact(w) ==
    /\ writer[w].at = "verify"
    /\ writer' = [writer EXCEPT ![w] =
                    IF blob[@.hash] = "intact" THEN [@ EXCEPT !.at = "record"] ELSE IdleWriter]
    /\ UNCHANGED <<log, blob, sweep, reader, erased>>

\* The event that names the artifact is stored.
RecordReference(w) ==
    /\ writer[w].at = "record"
    /\ named' = named \cup {writer[w].hash}
    /\ kept' = kept \cup {writer[w].hash}
    /\ writer' = [writer EXCEPT ![w] = IdleWriter]
    /\ UNCHANGED <<claim, endorsed, blob, sweep, reader, erased>>

\* A fold carries an event over whose artifact the source no longer had.
FoldReference(h) ==
    /\ h \notin named
    /\ named' = named \cup {h}
    /\ UNCHANGED <<kept, claim, endorsed, blob, clients, erased>>

(***************************************************************************)
(* Removal claims.  The key is the hash alone: the first claim stored for  *)
(* a hash stays, whoever records another.                                  *)
(***************************************************************************)
\* Mutant: the claim that arrives last replaces the stored one.
RecordClaimLast(h, c) == claim' = [claim EXCEPT ![h] = c]

RecordClaim(h, c) ==
    claim' = [claim EXCEPT ![h] = IF @ = Nothing THEN c ELSE @]

\* remove_content, for one hash its selector resolved to.
RemoveContent(h, s) ==
    /\ h \in named
    /\ RecordClaim(h, [status |-> s, ingest |-> FALSE])
    /\ UNCHANGED <<named, kept, endorsed, blob, clients, erased>>

\* A claim from another store, by fold or by ingest, with this store's stamp.
IngestRemoval(h, s) ==
    /\ RecordClaim(h, [status |-> s, ingest |-> TRUE])
    /\ UNCHANGED <<named, kept, endorsed, blob, clients, erased>>

\* A trusted co-signature over the stored claim, by `endorse`, by an ingested
\* carrier or by transcription of a divergently signed copy.
EndorseRemoval(h) ==
    /\ claim[h] # Nothing
    /\ h \notin endorsed
    /\ endorsed' = endorsed \cup {h}
    /\ UNCHANGED <<named, kept, claim, blob, clients, erased>>

(***************************************************************************)
(* compact_store: list the events once, list the blobs, then judge, read   *)
(* and delete one blob after the other.                                    *)
(***************************************************************************)
CompactList(s) ==
    /\ sweep[s].at = "idle"
    /\ sweep' = [sweep EXCEPT ![s].at = "scan", ![s].seen = CurrentListing]
    /\ UNCHANGED <<log, blob, writer, reader, erased>>

CompactScan(s) ==
    /\ sweep[s].at = "scan"
    /\ sweep' = [sweep EXCEPT ![s].at = "examine",
                              ![s].left = {h \in Hashes : blob[h] # "absent"}]
    /\ UNCHANGED <<log, blob, writer, reader, erased>>

\* Mutant: the bytes are not read again before they are deleted.
CompactExamineUnread(s, h) ==
    /\ sweep[s].at = "examine"
    /\ h \in sweep[s].left
    /\ LET left == sweep[s].left \ {h} IN
         sweep' = [sweep EXCEPT ![s] =
           IF EraseEligible(sweep[s].seen, h)
             THEN [@ EXCEPT !.at = "erase", !.left = left, !.hash = h]
             ELSE [@ EXCEPT !.left = left]]
    /\ UNCHANGED <<log, blob, writer, reader, erased>>

\* Not removed, not eligible, gone already, or no longer its own hash: skipped.
CompactExamine(s, h) ==
    /\ sweep[s].at = "examine"
    /\ h \in sweep[s].left
    /\ LET left == sweep[s].left \ {h} IN
         sweep' = [sweep EXCEPT ![s] =
           IF EraseEligible(sweep[s].seen, h) /\ blob[h] = "intact"
             THEN [@ EXCEPT !.at = "erase", !.left = left, !.hash = h]
             ELSE [@ EXCEPT !.left = left]]
    /\ UNCHANGED <<log, blob, writer, reader, erased>>

\* content.remove: whatever is at the path by now goes; nothing there is fine.
CompactErase(s) ==
    /\ sweep[s].at = "erase"
    /\ LET h == sweep[s].hash IN
         /\ blob' = [blob EXCEPT ![h] = "absent"]
         /\ erased' = IF blob[h] = "absent" THEN erased ELSE erased \cup {h}
    /\ sweep' = [sweep EXCEPT ![s].at = "examine", ![s].hash = Nothing]
    /\ UNCHANGED <<log, writer, reader>>

CompactDone(s) ==
    /\ sweep[s].at = "examine"
    /\ sweep[s].left = {}
    /\ sweep' = [sweep EXCEPT ![s] = IdleSweep]
    /\ UNCHANGED <<log, blob, writer, reader, erased>>

(***************************************************************************)
(* A read: the event log first, then the body of one fact it names.        *)
(***************************************************************************)
ReadList(r, h) ==
    /\ reader[r].at = "idle"
    /\ h \in named
    /\ reader' = [reader EXCEPT ![r] =
         [at |-> "resolve", seen |-> CurrentListing, hash |-> h, got |-> "none"]]
    /\ UNCHANGED <<log, blob, writer, sweep, erased>>

\* resolve_body_content: an operative removal is explained, by whether the
\* bytes are still there; absent bytes without one are a missing artifact.
Resolve(l, h) ==
    CASE Operative(l, h) /\ blob[h] # "absent" -> "suppressed_present"
      [] Operative(l, h) /\ blob[h] = "absent" -> "physically_removed"
      [] ~Operative(l, h) /\ blob[h] = "intact" -> "present"
      [] ~Operative(l, h) /\ blob[h] = "drifted" -> "mismatch"
      [] ~Operative(l, h) /\ blob[h] = "absent" -> "missing"

ReadResolve(r) ==
    /\ reader[r].at = "resolve"
    /\ reader' = [reader EXCEPT ![r].at = "idle", ![r].seen = Nothing,
                                ![r].got = Resolve(reader[r].seen, reader[r].hash)]
    /\ UNCHANGED <<log, blob, writer, sweep, erased>>

\* Writers and sweepers may be killed between any two steps.
StopWriter(w) ==
    /\ writer[w].at # "idle"
    /\ writer' = [writer EXCEPT ![w] = IdleWriter]
    /\ UNCHANGED <<log, blob, sweep, reader, erased>>

StopSweep(s) ==
    /\ sweep[s].at # "idle"
    /\ sweep' = [sweep EXCEPT ![s] = IdleSweep]
    /\ UNCHANGED <<log, blob, writer, reader, erased>>

WriterStep(w) ==
    \/ \E h \in Hashes : PutArtifact(w, h)
    \/ VerifyArtifact(w)
    \/ RecordReference(w)
    \/ StopWriter(w)

SweepStep(s) ==
    \/ CompactList(s)
    \/ CompactScan(s)
    \/ \E h \in Hashes : CompactExamine(s, h)
    \/ CompactErase(s)
    \/ CompactDone(s)
    \/ StopSweep(s)

ReaderStep(r) ==
    \/ \E h \in Hashes : ReadList(r, h)
    \/ ReadResolve(r)

LogStep(h) ==
    \/ FoldReference(h)
    \/ \E s \in Statuses \ {"Invalid"} : RemoveContent(h, s)
    \/ \E s \in Statuses : IngestRemoval(h, s)
    \/ EndorseRemoval(h)

Next ==
    \/ \E w \in Writers : WriterStep(w)
    \/ \E s \in Sweepers : SweepStep(s)
    \/ \E r \in Readers : ReaderStep(r)
    \/ \E h \in Hashes : LogStep(h)

Spec == Init /\ [][Next]_vars

(***************************************************************************)
(* Properties.                                                             *)
(***************************************************************************)

\* Compaction never erases live content: whatever it has deleted carries an
\* operative removal in the log, however old the sweeper's listing was and
\* whatever writers, folds and other sweepers did meanwhile.
ErasedOnlyRemoved == \A h \in erased : Operative(CurrentListing, h)

\* Why that works without a lock: no later event takes eligibility away, so a
\* stale listing can only erase less.
EligibilityIsPermanent ==
    [][\A h \in Hashes : Operative(CurrentListing, h) => Operative(CurrentListing, h)']_vars

\* A fact recorded by a writer that had its artifact in hand keeps it: the
\* bytes are there and intact, or the log explains why they are not.
KeptOrRemoved ==
    \A h \in kept : blob[h] = "intact" \/ Operative(CurrentListing, h)

\* Bytes that no longer match their hash are evidence, and are never deleted.
DriftIsNeverErased ==
    [][\A h \in Hashes : blob[h] = "drifted" => blob'[h] = "drifted"]_vars

\* A read that resolves its body against an old listing tells nothing the log
\* does not bear out: what it calls removed is removed, and a fact recorded with
\* its artifact in hand reads as missing only because of a removal that came
\* after the listing.
StaleReadsStandUp ==
    [][\A r \in Readers :
          LET h == reader[r].hash
              got == reader'[r].got
          IN  reader[r].at = "resolve" /\ reader'[r].at = "idle" =>
                /\ got \in {"suppressed_present", "physically_removed"}
                      => Operative(CurrentListing, h)
                /\ got = "missing" /\ h \in kept => Operative(CurrentListing, h)]_vars
=============================================================================

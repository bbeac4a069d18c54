------------------------------ MODULE StoreLink ------------------------------
(***************************************************************************)
(* Linking clones to a user-level family store: `store link` folds the     *)
(* clone-local store into the family store, may retire the source (delete  *)
(* what an independent walk proved present in the family), registers the   *)
(* clone and flips its binding last; `store unlink` deregisters and clears *)
(* the binding.  All of it runs beside writers that choose their store     *)
(* before they write.  FamilyForget adds `store forget`.                   *)
(* src/src/session/workflow/store_link.rs,                                 *)
(* src/src/session/store/{source_retirement,bundle,user_level}.rs,         *)
(* src/src/session/store/{resolution,store_config}.rs.                     *)
(*                                                                         *)
(* A record is an event together with the content it refers to.  Creating  *)
(* one file is one step here, as EventStore shows.  Gates that refuse      *)
(* before any write (ephemeral, sensitive, foreign stamp) and the dry runs *)
(* change nothing and have no action.                                      *)
(***************************************************************************)
EXTENDS Naturals, FiniteSets

CONSTANTS
    Clones,      \* physical clones; also names each one's clone-local store
    Families,    \* family slugs; also names each family store
    Records,     \* events by idempotency key
    Hashes,      \* contents
    Art,         \* the content each record refers to
    Links,       \* link and unlink commands under way
    Writers,     \* write workflows under way
    None

Stores == Clones \cup Families

ASSUME LinkAssumption ==
    /\ Art \in [Records -> Hashes]
    /\ Clones \cap Families = {} /\ Links \cap Writers = {}
    /\ \A x \in Stores \cup Links \cup Writers \cup Records : x # None

VARIABLES
    events,     \* records in each store's events/
    arts,       \* contents in each store's artifacts/
    dir,        \* does the clone-local store have an events/ directory?
    lock,       \* holder of each clone-local store's authority lock
    made,       \* does the family have its family.json?
    registry,   \* clones listed in the family's registry.json
    binding,    \* family named by each clone's pointbreak.link.json
    link,       \* each link or unlink command
    writer,     \* each write workflow
    acked       \* history: records whose write was acknowledged

stores == <<events, arts, dir>>
family == <<made, registry>>
vars == <<stores, lock, family, binding, link, writer, acked>>

LinkSteps == {"idle", "scaffold", "admit", "manifest", "read", "artifacts", "events",
              "verify", "scan", "retire", "settle", "register", "registered", "bind",
              "deregister", "deregistered", "clear"}

Command(step, c, f, retire) ==
    [at |-> step, clone |-> c, fam |-> f, retire |-> retire,
     recs |-> {}, hashes |-> {}, reg |-> {}, owed |-> {}]
IdleLink == Command("idle", None, None, FALSE)
IdleWriter == [at |-> "idle", store |-> None, rec |-> None]

LinkState == [at : LinkSteps, clone : Clones \cup {None}, fam : Families \cup {None},
              retire : BOOLEAN, recs : SUBSET Records, hashes : SUBSET Hashes,
              reg : SUBSET Clones, owed : SUBSET Records]
WriterState == [at : {"idle", "resolved", "landed", "stored", "locked"},
                store : Stores \cup {None}, rec : Records \cup {None}]

Init ==
    /\ events = [s \in Stores |-> {}]
    /\ arts = [s \in Stores |-> {}]
    /\ dir = [c \in Clones |-> FALSE]
    /\ lock = [c \in Clones |-> None]
    /\ made = [f \in Families |-> FALSE]
    /\ registry = [f \in Families |-> {}]
    /\ binding = [c \in Clones |-> None]
    /\ link = [p \in Links |-> IdleLink]
    /\ writer = [w \in Writers |-> IdleWriter]
    /\ acked = {}

\* The lock's holder lets go of it when the command ends, for whatever reason.
Released(p) == [c \in Clones |-> IF lock[c] = p THEN None ELSE lock[c]]

(***************************************************************************)
(* Write workflows                                                         *)
(***************************************************************************)

\* resolve_store: the family when bound (a forgotten one is an error, and the
\* write never starts), otherwise the clone-local store.
WriterResolve(w, c, r) ==
    /\ writer[w].at = "idle"
    /\ binding[c] # None => made[binding[c]]
    /\ writer' = [writer EXCEPT ![w] =
           [at |-> "resolved", store |-> IF binding[c] # None THEN binding[c] ELSE c,
            rec |-> r]]
    /\ UNCHANGED <<stores, lock, family, binding, link, acked>>

\* prepare_write_landing creates the directories of the store chosen.
WriterLand(w) ==
    /\ writer[w].at = "resolved"
    /\ writer' = [writer EXCEPT ![w].at = "landed"]
    /\ dir' = [c \in Clones |-> dir[c] \/ writer[w].store = c]
    /\ UNCHANGED <<events, arts, lock, family, binding, link, acked>>

\* put_object and put_note_body take no lock; content already there is kept.
WriterPut(w) ==
    /\ writer[w].at = "landed"
    /\ writer' = [writer EXCEPT ![w].at = "stored"]
    /\ arts' = [arts EXCEPT ![writer[w].store] = @ \cup {Art[writer[w].rec]}]
    /\ UNCHANGED <<events, dir, lock, family, binding, link, acked>>

\* record_event_once waits for the store's authority lock, then creates the
\* event under it.  A family store's lock is never held across steps here.
WriterLock(w) ==
    /\ writer[w].at = "stored"
    /\ writer[w].store \in Clones => lock[writer[w].store] = None
    /\ lock' = [c \in Clones |-> IF writer[w].store = c THEN w ELSE lock[c]]
    /\ writer' = [writer EXCEPT ![w].at = "locked"]
    /\ UNCHANGED <<stores, family, binding, link, acked>>

WriterRecord(w) ==
    /\ writer[w].at = "locked"
    /\ lock' = Released(w)
    /\ events' = [events EXCEPT ![writer[w].store] = @ \cup {writer[w].rec}]
    /\ dir' = [c \in Clones |-> dir[c] \/ writer[w].store = c]
    /\ acked' = acked \cup {writer[w].rec}
    /\ writer' = [writer EXCEPT ![w] = IdleWriter]
    /\ UNCHANGED <<arts, family, binding, link>>

WriterCrash(w) ==
    /\ writer[w].at # "idle"
    /\ writer' = [writer EXCEPT ![w] = IdleWriter]
    /\ lock' = Released(w)
    /\ UNCHANGED <<stores, family, binding, link, acked>>

(***************************************************************************)
(* store link: the fold                                                    *)
(***************************************************************************)
Goto(p, step) == link' = [link EXCEPT ![p].at = step]

LinkStart(p, c, f, retire) ==
    /\ link[p].at = "idle"
    /\ link' = [link EXCEPT ![p] = Command("scaffold", c, f, retire)]
    /\ UNCHANGED <<stores, lock, family, binding, writer, acked>>

\* ensure_family_store_scaffold stamps family.json unless it is there.
LinkScaffold(p) ==
    /\ link[p].at = "scaffold"
    /\ made' = [made EXCEPT ![link[p].fam] = TRUE]
    /\ Goto(p, "admit")
    /\ UNCHANGED <<stores, lock, registry, binding, writer, acked>>

\* fold_source_forward, up to the import: no events/ is a clean no-op; with
\* --retire-source the source's lock is tried, and a busy store is an error.
LinkSkipFold(p) ==
    /\ link[p].at = "admit" /\ ~dir[link[p].clone]
    /\ Goto(p, "register")
    /\ UNCHANGED <<stores, lock, family, binding, writer, acked>>

LinkAdmit(p) ==
    /\ link[p].at = "admit" /\ dir[link[p].clone]
    /\ link[p].retire => lock[link[p].clone] = None
    /\ lock' = IF link[p].retire THEN [lock EXCEPT ![link[p].clone] = p] ELSE lock
    /\ Goto(p, "manifest")
    /\ UNCHANGED <<stores, family, binding, writer, acked>>

LinkBusy(p) ==
    /\ link[p].at = "admit" /\ dir[link[p].clone]
    /\ link[p].retire /\ lock[link[p].clone] # None
    /\ link' = [link EXCEPT ![p] = IdleLink]
    /\ UNCHANGED <<stores, lock, family, binding, writer, acked>>

\* build_export_manifest: of the contents the source's records refer to, those
\* that are there.
LinkManifest(p) ==
    LET c == link[p].clone IN
    /\ link[p].at = "manifest"
    /\ link' = [link EXCEPT ![p] =
           [@ EXCEPT !.at = "read",
                     !.hashes = {Art[r] : r \in events[c]} \cap arts[c]]]
    /\ UNCHANGED <<stores, lock, family, binding, writer, acked>>

\* What a fold owes the family: the records it reads and finds whole.  Without
\* the lock a record can come after the manifest, and its content is not owed.
Owed(p) ==
    LET c == link[p].clone IN
    {r \in events[c] : Art[r] \in arts[c] /\ (link[p].retire \/ Art[r] \in link[p].hashes)}

\* read_source_events lists the source again; read_source_artifacts fails when
\* a content of the manifest is gone.
LinkRead(p) ==
    LET c == link[p].clone IN
    /\ link[p].at = "read"
    /\ link[p].hashes \subseteq arts[c]
    /\ link' = [link EXCEPT ![p] = [@ EXCEPT !.at = "artifacts", !.recs = events[c],
                                             !.owed = Owed(p)]]
    /\ UNCHANGED <<stores, lock, family, binding, writer, acked>>

\* commit_artifacts: one exclusive create after the other.
LinkCommitArtifact(p) ==
    /\ link[p].at = "artifacts"
    /\ \/ \E h \in link[p].hashes :
             /\ arts' = [arts EXCEPT ![link[p].fam] = @ \cup {h}]
             /\ link' = [link EXCEPT ![p].hashes = @ \ {h}]
       \/ /\ link[p].hashes = {}
          /\ Goto(p, "events")
          /\ arts' = arts
    /\ UNCHANGED <<events, dir, lock, family, binding, writer, acked>>

\* Mutant: the last event is not waited for.
LinkCommitEventShort(p) ==
    /\ link[p].at = "events"
    /\ \/ \E r \in link[p].recs :
             /\ events' = [events EXCEPT ![link[p].fam] = @ \cup {r}]
             /\ link' = [link EXCEPT ![p].recs = @ \ {r}]
       \/ /\ Cardinality(link[p].recs) <= 1
          /\ link' = [link EXCEPT ![p] =
                 [@ EXCEPT !.at = IF link[p].retire THEN "verify" ELSE "register",
                           !.recs = {}]]
          /\ events' = events
    /\ UNCHANGED <<arts, dir, lock, family, binding, writer, acked>>

\* commit_events: record_event_once for each event read; with --retire-source
\* the verification follows.
LinkCommitEvent(p) ==
    /\ link[p].at = "events"
    /\ \/ \E r \in link[p].recs :
             /\ events' = [events EXCEPT ![link[p].fam] = @ \cup {r}]
             /\ link' = [link EXCEPT ![p].recs = @ \ {r}]
       \/ /\ link[p].recs = {}
          /\ Goto(p, IF link[p].retire THEN "verify" ELSE "register")
          /\ events' = events
    /\ UNCHANGED <<arts, dir, lock, family, binding, writer, acked>>

(***************************************************************************)
(* store link: retiring the source                                         *)
(***************************************************************************)

\* verify_source_subset_of_target walks the source's files, whoever wrote them.
SourceInFamily(c, f) == events[c] \subseteq events[f] /\ arts[c] \subseteq arts[f]

\* Mutant: contents are taken for folded because the import said so.
LinkVerifyCounters(p) ==
    LET c == link[p].clone IN
    /\ link[p].at = "verify"
    /\ events[c] \subseteq events[link[p].fam]
    /\ link' = [link EXCEPT ![p] = [@ EXCEPT !.at = "scan", !.recs = events[c],
                                             !.hashes = arts[c]]]
    /\ UNCHANGED <<stores, lock, family, binding, writer, acked>>

LinkVerify(p) ==
    LET c == link[p].clone IN
    /\ link[p].at = "verify"
    /\ SourceInFamily(c, link[p].fam)
    /\ link' = [link EXCEPT ![p] = [@ EXCEPT !.at = "scan", !.recs = events[c],
                                             !.hashes = arts[c]]]
    /\ UNCHANGED <<stores, lock, family, binding, writer, acked>>

\* A file the family does not hold, or a symbolic link or unknown entry that
\* scan_source meets, ends the command with nothing deleted.
LinkVerifyFails(p) ==
    /\ \/ link[p].at = "verify" /\ ~SourceInFamily(link[p].clone, link[p].fam)
       \/ link[p].at = "scan"
    /\ link' = [link EXCEPT ![p] = IdleLink]
    /\ lock' = Released(p)
    /\ UNCHANGED <<stores, family, binding, writer, acked>>

\* scan_source: a file that verification did not cover is residue; nothing is
\* deleted and the link goes on.
LinkScan(p) ==
    LET c == link[p].clone
        clean == events[c] \subseteq link[p].recs /\ arts[c] \subseteq link[p].hashes
    IN
    /\ link[p].at = "scan"
    /\ link' = [link EXCEPT ![p] =
           IF clean THEN [@ EXCEPT !.at = "retire"]
                    ELSE [@ EXCEPT !.at = "register", !.recs = {}, !.hashes = {}]]
    /\ lock' = IF clean THEN lock ELSE Released(p)
    /\ UNCHANGED <<stores, family, binding, writer, acked>>

\* Mutant: the event files go first.
LinkRetireEventsFirst(p) ==
    LET c == link[p].clone IN
    /\ link[p].at = "retire"
    /\ \/ \E r \in link[p].recs :
             /\ link' = [link EXCEPT ![p].recs = @ \ {r}]
             /\ events' = [events EXCEPT ![c] = @ \ {r}]
             /\ UNCHANGED arts
       \/ \E h \in link[p].hashes :
             /\ link[p].recs = {}
             /\ link' = [link EXCEPT ![p].hashes = @ \ {h}]
             /\ arts' = [arts EXCEPT ![c] = @ \ {h}]
             /\ UNCHANGED events
       \/ /\ link[p].recs = {} /\ link[p].hashes = {}
          /\ Goto(p, "settle")
          /\ UNCHANGED <<events, arts>>
    /\ UNCHANGED <<dir, lock, family, binding, writer, acked>>

\* The verified files are deleted one at a time, contents before events.
LinkRetire(p) ==
    LET c == link[p].clone IN
    /\ link[p].at = "retire"
    /\ \/ \E h \in link[p].hashes :
             /\ link' = [link EXCEPT ![p].hashes = @ \ {h}]
             /\ arts' = [arts EXCEPT ![c] = @ \ {h}]
             /\ UNCHANGED events
       \/ \E r \in link[p].recs :
             /\ link[p].hashes = {}
             /\ link' = [link EXCEPT ![p].recs = @ \ {r}]
             /\ events' = [events EXCEPT ![c] = @ \ {r}]
             /\ UNCHANGED arts
       \/ /\ link[p].recs = {} /\ link[p].hashes = {}
          /\ Goto(p, "settle")
          /\ UNCHANGED <<events, arts>>
    /\ UNCHANGED <<dir, lock, family, binding, writer, acked>>

\* remove_empty_directories_below, then the guard is dropped.
LinkSettle(p) ==
    LET c == link[p].clone IN
    /\ link[p].at = "settle"
    /\ dir' = [dir EXCEPT ![c] = events[c] # {}]
    /\ lock' = Released(p)
    /\ Goto(p, "register")
    /\ UNCHANGED <<events, arts, family, binding, writer, acked>>

(***************************************************************************)
(* store link and unlink: registry and binding                             *)
(***************************************************************************)

\* register_clone: read the whole set, then write it back with this clone.
LinkRegisterRead(p) ==
    /\ link[p].at = "register"
    /\ link' = [link EXCEPT ![p] = [@ EXCEPT !.at = "registered",
                                             !.reg = registry[link[p].fam]]]
    /\ UNCHANGED <<stores, lock, family, binding, writer, acked>>

LinkRegisterWrite(p) ==
    /\ link[p].at = "registered"
    /\ registry' = [registry EXCEPT ![link[p].fam] = link[p].reg \cup {link[p].clone}]
    /\ link' = [link EXCEPT ![p] = [@ EXCEPT !.at = "bind", !.reg = {}]]
    /\ UNCHANGED <<stores, lock, made, binding, writer, acked>>

\* set_family_binding_for_repo, the last step.
LinkBind(p) ==
    /\ link[p].at = "bind"
    /\ binding' = [binding EXCEPT ![link[p].clone] = link[p].fam]
    /\ link' = [link EXCEPT ![p] = IdleLink]
    /\ UNCHANGED <<stores, lock, family, writer, acked>>

\* unlink_store_from_family: the binding is read first and cleared last.
UnlinkStart(p, c) ==
    /\ link[p].at = "idle"
    /\ binding[c] # None
    /\ link' = [link EXCEPT ![p] = Command("deregister", c, binding[c], FALSE)]
    /\ UNCHANGED <<stores, lock, family, binding, writer, acked>>

\* deregister_clone writes only when the clone was listed.
UnlinkRead(p) ==
    LET listed == link[p].clone \in registry[link[p].fam] IN
    /\ link[p].at = "deregister"
    /\ link' = [link EXCEPT ![p] =
           [@ EXCEPT !.at = IF listed THEN "deregistered" ELSE "clear",
                     !.reg = IF listed THEN registry[link[p].fam] ELSE {}]]
    /\ UNCHANGED <<stores, lock, family, binding, writer, acked>>

UnlinkWrite(p) ==
    /\ link[p].at = "deregistered"
    /\ registry' = [registry EXCEPT ![link[p].fam] = link[p].reg \ {link[p].clone}]
    /\ link' = [link EXCEPT ![p] = [@ EXCEPT !.at = "clear", !.reg = {}]]
    /\ UNCHANGED <<stores, lock, made, binding, writer, acked>>

UnlinkClear(p) ==
    /\ link[p].at = "clear"
    /\ binding' = [binding EXCEPT ![link[p].clone] = None]
    /\ link' = [link EXCEPT ![p] = IdleLink]
    /\ UNCHANGED <<stores, lock, family, writer, acked>>

\* The command is killed, or a file operation of it fails (a content of the
\* manifest that is gone when it is read, for one).
LinkCrash(p) ==
    /\ link[p].at # "idle"
    /\ link' = [link EXCEPT ![p] = IdleLink]
    /\ lock' = Released(p)
    /\ UNCHANGED <<stores, family, binding, writer, acked>>

(***************************************************************************)
(* Specification                                                           *)
(***************************************************************************)
WriterNext ==
    \/ \E w \in Writers, c \in Clones, r \in Records : WriterResolve(w, c, r)
    \/ \E w \in Writers : WriterLand(w) \/ WriterPut(w) \/ WriterLock(w)
                         \/ WriterRecord(w) \/ WriterCrash(w)

FoldStep(p) ==
    \/ LinkScaffold(p) \/ LinkSkipFold(p) \/ LinkAdmit(p) \/ LinkBusy(p)
    \/ LinkManifest(p) \/ LinkRead(p)
    \/ LinkCommitArtifact(p) \/ LinkCommitEvent(p)

RetireStep(p) ==
    \/ LinkVerify(p) \/ LinkVerifyFails(p) \/ LinkScan(p) \/ LinkRetire(p) \/ LinkSettle(p)

BindStep(p) ==
    \/ LinkRegisterRead(p) \/ LinkRegisterWrite(p) \/ LinkBind(p)
    \/ UnlinkRead(p) \/ UnlinkWrite(p) \/ UnlinkClear(p)

LinkNext ==
    \/ \E p \in Links, c \in Clones, f \in Families, retire \in BOOLEAN :
          LinkStart(p, c, f, retire)
    \/ \E p \in Links, c \in Clones : UnlinkStart(p, c)
    \/ \E p \in Links : FoldStep(p) \/ RetireStep(p) \/ BindStep(p) \/ LinkCrash(p)

Next == WriterNext \/ LinkNext

Spec == Init /\ [][Next]_vars

(***************************************************************************)
(* Properties                                                              *)
(***************************************************************************)

\* Every variable keeps its type.
TypeOK ==
    /\ events \in [Stores -> SUBSET Records]
    /\ arts \in [Stores -> SUBSET Hashes]
    /\ dir \in [Clones -> BOOLEAN]
    /\ lock \in [Clones -> Links \cup Writers \cup {None}]
    /\ made \in [Families -> BOOLEAN]
    /\ registry \in [Families -> SUBSET Clones]
    /\ binding \in [Clones -> Families \cup {None}]
    /\ link \in [Links -> LinkState]
    /\ writer \in [Writers -> WriterState]
    /\ acked \in SUBSET Records

\* Linking, retiring and unlinking lose nothing: an acknowledged record and its
\* content are in some store, whatever dies or is written between the
\* verification and the deletions of retire_verified_source.
NothingLost ==
    \A r \in acked :
        /\ \E s \in Stores : r \in events[s]
        /\ \E s \in Stores : Art[r] \in arts[s]

\* A link that gets as far as the registry has carried into the family every
\* record it read and found whole, content included; with --retire-source,
\* which holds the lock, that is every whole record of the source.
FoldCarries ==
    \A p \in Links : link[p].at \in {"register", "registered", "bind"} =>
        \A r \in link[p].owed :
            /\ r \in events[link[p].fam]
            /\ Art[r] \in arts[link[p].fam]

\* At whatever point retire_verified_source dies while a content it had to
\* delete is left, event files are left too: a store that held records still
\* looks populated, and a rerun folds it again.
InterruptedLooksPopulated ==
    \A p \in Links :
        LET c == link[p].clone IN
        /\ link[p].at = "retire"
        /\ link[p].owed # {}
        /\ link[p].hashes \cap arts[c] # {}
        => events[c] # {}
=============================================================================

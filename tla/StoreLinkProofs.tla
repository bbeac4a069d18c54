--------------------------- MODULE StoreLinkProofs ---------------------------
(***************************************************************************)
(* Proofs about StoreLink, for any clones, families, records and commands: *)
(* the types, that nothing acknowledged is lost, that a link carries what  *)
(* it owes, and that an interrupted retire leaves a populated store.       *)
(*                                                                         *)
(* Two things carry the argument.  The family stores only grow, so what    *)
(* was verified there stays there while the source is deleted.  And a link *)
(* that retires holds the source's lock from its first read to its last    *)
(* deletion, so no other link deletes from the source meanwhile.           *)
(***************************************************************************)
EXTENDS StoreLink, TLAPS

\* Steps at which a link with --retire-source holds the lock.
Holding == {"manifest", "read", "artifacts", "events", "verify", "scan", "retire", "settle"}

\* Steps only a link with --retire-source takes.
Retiring == {"verify", "scan", "retire", "settle"}

\* What is known of one link at each of its steps.
Grounded(p) == link[p].at # "idle" => link[p].clone \in Clones /\ link[p].fam \in Families
HoldsLock(p) ==
    /\ link[p].at \in Retiring => link[p].retire
    /\ link[p].at \in Holding /\ link[p].retire => lock[link[p].clone] = p
OwesNothing(p) ==
    link[p].at \in {"scaffold", "admit", "manifest", "read"} => link[p].owed = {}
EventsCarried(p) ==
    /\ link[p].at = "artifacts" => link[p].owed \subseteq link[p].recs
    /\ link[p].at = "events" => link[p].owed \subseteq link[p].recs \cup events[link[p].fam]
    /\ link[p].at \in Retiring \cup {"register", "registered", "bind"} =>
           link[p].owed \subseteq events[link[p].fam]
ContentsCarried(p) ==
    /\ link[p].at \in {"artifacts", "events", "verify"} =>
           \A r \in link[p].owed :
               \/ Art[r] \in arts[link[p].fam]
               \/ link[p].at = "artifacts" /\ Art[r] \in link[p].hashes
               \/ link[p].retire /\ Art[r] \in arts[link[p].clone]
    /\ link[p].at \in {"scan", "retire", "settle", "register", "registered", "bind"} =>
           \A r \in link[p].owed : Art[r] \in arts[link[p].fam]
SourceKept(p) ==
    /\ link[p].retire /\ link[p].at \in {"artifacts", "events", "verify"} =>
           link[p].owed \subseteq events[link[p].clone]
    /\ \/ link[p].at = "scan"
       \/ link[p].at = "retire" /\ link[p].hashes # {}
       => link[p].owed \subseteq link[p].recs /\ link[p].recs \subseteq events[link[p].clone]
Verified(p) ==
    link[p].at \in {"scan", "retire"} =>
        link[p].recs \subseteq events[link[p].fam] /\ link[p].hashes \subseteq arts[link[p].fam]

LinkInv(p) ==
    /\ Grounded(p) /\ HoldsLock(p) /\ OwesNothing(p)
    /\ EventsCarried(p) /\ ContentsCarried(p)
    /\ SourceKept(p) /\ Verified(p)

ContentIn(h) == \E s \in Stores : h \in arts[s]

\* A writer past put_object has its content in some store.
WriterInv(w) ==
    /\ writer[w].at # "idle" => writer[w].store \in Stores /\ writer[w].rec \in Records
    /\ writer[w].at \in {"stored", "locked"} => ContentIn(Art[writer[w].rec])

IInv ==
    /\ TypeOK
    /\ \A p \in Links : LinkInv(p)
    /\ \A w \in Writers : WriterInv(w)
    /\ NothingLost

\* No step takes a record or a content out of the last store that has it.
NoDrop ==
    /\ \A r \in Records : (\E s \in Stores : r \in events[s]) => \E s \in Stores : r \in events'[s]
    /\ \A h \in Hashes : (\E s \in Stores : h \in arts[s]) => \E s \in Stores : h \in arts'[s]

\* What a link relies on from the steps of others.
Spared(q) ==
    /\ \A f \in Families : events[f] \subseteq events'[f] /\ arts[f] \subseteq arts'[f]
    /\ \A c \in Clones : lock[c] = q =>
           lock'[c] = q /\ events[c] \subseteq events'[c] /\ arts[c] \subseteq arts'[c]

LEMMA LinkFrame ==
    ASSUME TypeOK, NEW q \in Links, LinkInv(q), link'[q] = link[q], Spared(q)
    PROVE  LinkInv(q)'
<1> DEFINE l == link[q]
<1>1. l \in LinkState
  BY DEF TypeOK
<1>2. CASE l.at = "idle"
  BY <1>2 DEF LinkInv, Grounded, HoldsLock, OwesNothing, EventsCarried, ContentsCarried,
              SourceKept, Verified, Holding, Retiring
<1>3. CASE l.at # "idle"
  <2>1. l.clone \in Clones /\ l.fam \in Families
    BY <1>3 DEF LinkInv, Grounded
  <2>2. events[l.fam] \subseteq events'[l.fam] /\ arts[l.fam] \subseteq arts'[l.fam]
    BY <2>1 DEF Spared
  <2>3. l.retire /\ l.at \in Holding =>
          /\ lock'[l.clone] = q
          /\ events[l.clone] \subseteq events'[l.clone]
          /\ arts[l.clone] \subseteq arts'[l.clone]
    BY <2>1 DEF Spared, LinkInv, HoldsLock
  <2>4. Grounded(q)' /\ OwesNothing(q)'
    BY DEF LinkInv, Grounded, OwesNothing
  <2>5. HoldsLock(q)'
    BY <2>3 DEF LinkInv, HoldsLock
  <2>6. EventsCarried(q)' /\ Verified(q)'
    BY <2>2 DEF LinkInv, EventsCarried, Verified
  <2>7. ContentsCarried(q)'
    BY <2>2, <2>3 DEF LinkInv, ContentsCarried, Holding
  <2>8. SourceKept(q)'
    BY <2>3 DEF LinkInv, SourceKept, HoldsLock, Holding, Retiring
  <2>9. QED
    BY <2>4, <2>5, <2>6, <2>7, <2>8 DEF LinkInv
<1>4. QED
  BY <1>2, <1>3

LEMMA WriterFrame ==
    ASSUME TypeOK, NEW w \in Writers, WriterInv(w), writer'[w] = writer[w], NoDrop
    PROVE  WriterInv(w)'
BY LinkAssumption DEF TypeOK, WriterState, WriterInv, ContentIn, NoDrop

LEMMA LostFrame ==
    ASSUME TypeOK, NothingLost, acked' = acked, NoDrop
    PROVE  NothingLost'
BY LinkAssumption DEF TypeOK, NothingLost, NoDrop

\* Steps that leave the stores alone drop nothing and spare everyone.
LEMMA StoresFrame ==
    ASSUME UNCHANGED <<events, arts>>
    PROVE  NoDrop /\ \A q : (\A c \in Clones : lock[c] = q => lock'[c] = q) => Spared(q)
BY DEF NoDrop, Spared

\* A step of one link: the rest follows from the frames.
LEMMA LinkStep ==
    ASSUME IInv, NEW p \in Links, TypeOK', LinkInv(p)', NoDrop,
           \A q \in Links \ {p} : link'[q] = link[q] /\ Spared(q),
           UNCHANGED <<writer, acked>>
    PROVE  IInv'
<1>1. \A q \in Links : LinkInv(q)'
  BY LinkFrame DEF IInv
<1>2. \A w \in Writers : WriterInv(w)'
  BY WriterFrame DEF IInv
<1>3. NothingLost'
  BY LostFrame DEF IInv
<1>4. QED
  BY <1>1, <1>2, <1>3 DEF IInv

\* A step of one writer.
LEMMA WriterStep ==
    ASSUME IInv, NEW w \in Writers, TypeOK', WriterInv(w)', NothingLost', NoDrop,
           \A v \in Writers \ {w} : writer'[v] = writer[v],
           \A q \in Links : Spared(q), UNCHANGED link
    PROVE  IInv'
<1>1. \A q \in Links : LinkInv(q)'
  BY LinkFrame DEF IInv
<1>2. \A v \in Writers : WriterInv(v)'
  BY WriterFrame DEF IInv
<1>3. QED
  BY <1>1, <1>2 DEF IInv

\* Letting go of a lock takes it from nobody else.
LEMMA ReleasedKeeps ==
    ASSUME TypeOK, NEW x, lock' = Released(x)
    PROVE  /\ lock' \in [Clones -> Links \cup Writers \cup {None}]
           /\ \A q : q # x => \A c \in Clones : lock[c] = q => lock'[c] = q
BY DEF TypeOK, Released

LEMMA InitIInv == Init => IInv
<1> SUFFICES ASSUME Init PROVE IInv
  OBVIOUS
<1>1. TypeOK
  BY DEF Init, TypeOK, IdleLink, Command, LinkState, LinkSteps, IdleWriter, WriterState
<1>2. \A p \in Links : LinkInv(p)
  BY DEF Init, IdleLink, Command, LinkInv, Grounded, HoldsLock, OwesNothing, EventsCarried,
         ContentsCarried, SourceKept, Verified, Holding, Retiring
<1>3. \A w \in Writers : WriterInv(w)
  BY DEF Init, IdleWriter, WriterInv
<1>4. NothingLost
  BY DEF Init, NothingLost
<1>5. QED
  BY <1>1, <1>2, <1>3, <1>4 DEF IInv

LEMMA WriterIInv ==
    ASSUME IInv, NEW w \in Writers,
           \/ \E c \in Clones, r \in Records : WriterResolve(w, c, r)
           \/ WriterLand(w) \/ WriterPut(w) \/ WriterLock(w) \/ WriterRecord(w) \/ WriterCrash(w)
    PROVE  IInv'
<1> USE LinkAssumption
<1>0. TypeOK /\ WriterInv(w) /\ NothingLost
  BY DEF IInv
<1>1. ASSUME NEW c \in Clones, NEW r \in Records, WriterResolve(w, c, r) PROVE IInv'
  <2>1. TypeOK'
    BY <1>0, <1>1 DEF WriterResolve, TypeOK, WriterState, Stores, stores, family
  <2>2. WriterInv(w)'
    BY <1>0, <1>1 DEF WriterResolve, TypeOK, WriterInv, Stores
  <2>3. NoDrop /\ (\A q \in Links : Spared(q)) /\ NothingLost'
    BY <1>0, <1>1, StoresFrame, LostFrame DEF WriterResolve, stores
  <2> QED
    BY <1>1, <2>1, <2>2, <2>3, WriterStep DEF WriterResolve, TypeOK, IInv
<1>2. CASE WriterLand(w)
  <2>1. TypeOK'
    BY <1>0, <1>2 DEF WriterLand, TypeOK, WriterState, family
  <2>2. NoDrop /\ (\A q \in Links : Spared(q)) /\ NothingLost'
    BY <1>0, <1>2, StoresFrame, LostFrame DEF WriterLand
  <2>3. WriterInv(w)'
    BY <1>0, <1>2 DEF WriterLand, TypeOK, WriterInv
  <2> QED
    BY <1>2, <2>1, <2>2, <2>3, WriterStep DEF WriterLand, TypeOK, IInv
<1>3. CASE WriterPut(w)
  <2>0. writer[w].store \in Stores /\ writer[w].rec \in Records
    BY <1>0, <1>3 DEF WriterPut, WriterInv
  <2>1. TypeOK'
    BY <1>0, <1>3, <2>0 DEF WriterPut, TypeOK, WriterState, family
  <2>2. NoDrop /\ (\A q \in Links : Spared(q))
    BY <1>0, <1>3, <2>0 DEF WriterPut, TypeOK, NoDrop, Spared, Stores
  <2>3. NothingLost'
    BY <1>0, <1>3, <2>2, LostFrame DEF WriterPut
  <2>4. WriterInv(w)'
    BY <1>0, <1>3, <2>0 DEF WriterPut, TypeOK, WriterInv, ContentIn
  <2> QED
    BY <1>3, <2>1, <2>2, <2>3, <2>4, WriterStep DEF WriterPut, TypeOK, IInv
<1>4. CASE WriterLock(w)
  <2>0. \A c \in Clones : lock[c] # None => lock'[c] = lock[c]
    BY <1>0, <1>4 DEF WriterLock, TypeOK
  <2>1. TypeOK'
    <3>1. lock' \in [Clones -> Links \cup Writers \cup {None}]
      BY <1>0, <1>4 DEF WriterLock, TypeOK
    <3>2. writer' \in [Writers -> WriterState]
      BY <1>0, <1>4 DEF WriterLock, TypeOK, WriterState
    <3> QED
      BY <1>0, <1>4, <3>1, <3>2 DEF WriterLock, TypeOK, stores, family
  <2>2. NoDrop /\ (\A q \in Links : Spared(q)) /\ NothingLost'
    BY <1>0, <1>4, <2>0, StoresFrame, LostFrame DEF WriterLock, stores
  <2>3. WriterInv(w)'
    BY <1>0, <1>4 DEF WriterLock, TypeOK, WriterInv, ContentIn, stores
  <2> QED
    BY <1>4, <2>1, <2>2, <2>3, WriterStep DEF WriterLock, TypeOK, IInv
<1>5. CASE WriterRecord(w)
  <2>0. writer[w].store \in Stores /\ writer[w].rec \in Records
        /\ ContentIn(Art[writer[w].rec])
    BY <1>0, <1>5 DEF WriterRecord, WriterInv
  <2>1. TypeOK'
    <3>1. lock' \in [Clones -> Links \cup Writers \cup {None}]
      BY <1>0, <1>5, ReleasedKeeps DEF WriterRecord
    <3>2. IdleWriter \in WriterState
      BY DEF IdleWriter, WriterState
    <3> QED
      BY <1>0, <1>5, <2>0, <3>1, <3>2 DEF WriterRecord, TypeOK, family
  <2>2. NoDrop
    BY <1>0, <1>5, <2>0 DEF WriterRecord, TypeOK, NoDrop
  <2>3. \A q \in Links : Spared(q)
    <3>1. \A q \in Links : \A c \in Clones : lock[c] = q => lock'[c] = q
      BY <1>0, <1>5, ReleasedKeeps DEF WriterRecord
    <3> QED
      BY <1>0, <1>5, <2>0, <3>1 DEF WriterRecord, TypeOK, Spared, Stores
  <2>4. NothingLost'
    BY <1>0, <1>5, <2>0 DEF WriterRecord, TypeOK, NothingLost, ContentIn
  <2>5. WriterInv(w)'
    BY <1>0, <1>5 DEF WriterRecord, TypeOK, WriterInv, IdleWriter
  <2> QED
    BY <1>5, <2>1, <2>2, <2>3, <2>4, <2>5, WriterStep DEF WriterRecord, TypeOK, IInv
<1>6. CASE WriterCrash(w)
  <2>1. TypeOK'
    <3>1. lock' \in [Clones -> Links \cup Writers \cup {None}]
      BY <1>0, <1>6, ReleasedKeeps DEF WriterCrash
    <3>2. IdleWriter \in WriterState
      BY DEF IdleWriter, WriterState
    <3> QED
      BY <1>0, <1>6, <3>1, <3>2 DEF WriterCrash, TypeOK, stores, family
  <2>2. \A q \in Links : \A c \in Clones : lock[c] = q => lock'[c] = q
    BY <1>0, <1>6, ReleasedKeeps DEF WriterCrash
  <2>3. NoDrop /\ (\A q \in Links : Spared(q)) /\ NothingLost'
    BY <1>0, <1>6, <2>2, StoresFrame, LostFrame DEF WriterCrash, stores
  <2>4. WriterInv(w)'
    BY <1>0, <1>6 DEF WriterCrash, TypeOK, WriterInv, IdleWriter
  <2> QED
    BY <1>6, <2>1, <2>3, <2>4, WriterStep DEF WriterCrash, TypeOK, IInv
<1> QED
  BY <1>1, <1>2, <1>3, <1>4, <1>5, <1>6

\* A step of a link that leaves stores and locks alone.
LEMMA QuietStep ==
    ASSUME IInv, NEW p \in Links, TypeOK', LinkInv(p)',
           \A q \in Links \ {p} : link'[q] = link[q],
           UNCHANGED <<events, arts, lock, writer, acked>>
    PROVE  IInv'
<1>1. NoDrop /\ \A q \in Links : Spared(q)
  BY StoresFrame
<1>2. QED
  BY <1>1, LinkStep

\* The end of a command, in whatever way.
LEMMA EndStep ==
    ASSUME IInv, NEW p \in Links, link' = [link EXCEPT ![p] = IdleLink],
           lock' = Released(p) \/ lock' = lock,
           binding' \in [Clones -> Families \cup {None}],
           UNCHANGED <<events, arts, dir, made, registry, writer, acked>>
    PROVE  IInv'
<1>0. TypeOK
  BY DEF IInv
<1>1. link'[p] = IdleLink /\ \A q \in Links \ {p} : link'[q] = link[q]
  BY <1>0 DEF TypeOK
<1>2. LinkInv(p)'
  BY <1>1 DEF IdleLink, Command, LinkInv, Grounded, HoldsLock, OwesNothing, EventsCarried,
              ContentsCarried, SourceKept, Verified, Holding, Retiring
<1>3. TypeOK'
  <2>1. IdleLink \in LinkState
    BY DEF IdleLink, Command, LinkState, LinkSteps
  <2>2. lock' \in [Clones -> Links \cup Writers \cup {None}]
    BY <1>0, ReleasedKeeps DEF TypeOK
  <2>3. QED
    BY <1>0, <2>1, <2>2 DEF TypeOK
<1>4. \A q \in Links \ {p} : \A c \in Clones : lock[c] = q => lock'[c] = q
  BY <1>0, ReleasedKeeps
<1>5. NoDrop /\ \A q \in Links \ {p} : Spared(q)
  BY <1>4, StoresFrame
<1>6. QED
  BY <1>1, <1>2, <1>3, <1>5, LinkStep

\* How a record changes under Goto.
LEMMA GotoKeeps ==
    ASSUME TypeOK, NEW p \in Links, NEW step \in LinkSteps, Goto(p, step)
    PROVE  /\ link' \in [Links -> LinkState]
           /\ \A q \in Links \ {p} : link'[q] = link[q]
           /\ link'[p].at = step
           /\ link'[p].clone = link[p].clone /\ link'[p].fam = link[p].fam
           /\ link'[p].retire = link[p].retire /\ link'[p].owed = link[p].owed
           /\ link'[p].recs = link[p].recs /\ link'[p].hashes = link[p].hashes
BY DEF TypeOK, Goto, LinkState

\* A command that starts knows its clone and its family and owes nothing.
LEMMA FreshLink ==
    ASSUME IInv, NEW p \in Links, NEW l \in LinkState, l.at \in {"scaffold", "deregister"},
           l.clone \in Clones, l.fam \in Families, l.owed = {},
           link' = [link EXCEPT ![p] = l],
           UNCHANGED <<events, arts, dir, lock, made, registry, binding, writer, acked>>
    PROVE  IInv'
<1>0. TypeOK
  BY DEF IInv
<1>1. link'[p] = l /\ \A q \in Links \ {p} : link'[q] = link[q]
  BY <1>0 DEF TypeOK
<1>2. TypeOK'
  BY <1>0 DEF TypeOK
<1>3. LinkInv(p)'
  BY <1>1 DEF LinkInv, Grounded, HoldsLock, OwesNothing, EventsCarried,
         ContentsCarried, SourceKept, Verified, Holding, Retiring
<1>4. QED
  BY <1>1, <1>2, <1>3, QuietStep

LEMMA StartIInv ==
    ASSUME IInv, NEW p \in Links,
           \/ \E c \in Clones, f \in Families, retire \in BOOLEAN : LinkStart(p, c, f, retire)
           \/ \E c \in Clones : UnlinkStart(p, c)
    PROVE  IInv'
<1>0. TypeOK
  BY DEF IInv
<1>1. ASSUME NEW c \in Clones, NEW f \in Families, NEW retire \in BOOLEAN,
             LinkStart(p, c, f, retire)
      PROVE  IInv'
  <2> DEFINE l == Command("scaffold", c, f, retire)
  <2>1. l \in LinkState /\ l.at = "scaffold" /\ l.clone = c /\ l.fam = f /\ l.owed = {}
    BY DEF Command, LinkState, LinkSteps
  <2>2. link' = [link EXCEPT ![p] = l]
    BY <1>1 DEF LinkStart
  <2> HIDE DEF l
  <2>3. QED
    BY <1>1, <2>1, <2>2, FreshLink DEF LinkStart, stores, family
<1>2. ASSUME NEW c \in Clones, UnlinkStart(p, c)
      PROVE  IInv'
  <2> DEFINE l == Command("deregister", c, binding[c], FALSE)
  <2>1. binding[c] \in Families
    BY <1>0, <1>2 DEF UnlinkStart, TypeOK
  <2>2. l \in LinkState /\ l.at = "deregister" /\ l.clone = c /\ l.fam = binding[c]
        /\ l.owed = {}
    BY <2>1 DEF Command, LinkState, LinkSteps
  <2>3. link' = [link EXCEPT ![p] = l]
    BY <1>2 DEF UnlinkStart
  <2> HIDE DEF l
  <2>4. QED
    BY <1>2, <2>1, <2>2, <2>3, FreshLink DEF UnlinkStart, stores, family
<1>3. QED
  BY <1>1, <1>2

\* The first steps of a fold, which read and take the lock.
LEMMA FoldReadIInv ==
    ASSUME IInv, NEW p \in Links,
           \/ LinkScaffold(p) \/ LinkSkipFold(p) \/ LinkAdmit(p) \/ LinkBusy(p)
           \/ LinkManifest(p) \/ LinkRead(p)
    PROVE  IInv'
<1>0. TypeOK /\ LinkInv(p) /\ link[p] \in LinkState
  BY DEF IInv, TypeOK
<1>1. CASE LinkScaffold(p)
  <2>1. Goto(p, "admit") /\ "admit" \in LinkSteps
    BY <1>1 DEF LinkScaffold, LinkSteps
  <2>2. TypeOK'
    BY <1>0, <1>1, <2>1, GotoKeeps DEF LinkScaffold, TypeOK, stores
  <2>3. LinkInv(p)'
    BY <1>0, <1>1, <2>1, GotoKeeps DEF LinkScaffold, LinkInv, Grounded, HoldsLock, OwesNothing, EventsCarried, ContentsCarried,
         SourceKept, Verified, Holding, Retiring
  <2>4. QED
    BY <1>0, <1>1, <2>1, <2>2, <2>3, GotoKeeps, QuietStep DEF LinkScaffold, stores
<1>2. CASE LinkSkipFold(p)
  <2>1. Goto(p, "register") /\ "register" \in LinkSteps
    BY <1>2 DEF LinkSkipFold, LinkSteps
  <2>2. TypeOK'
    BY <1>0, <1>2, <2>1, GotoKeeps DEF LinkSkipFold, TypeOK, stores, family
  <2>3. LinkInv(p)'
    BY <1>0, <1>2, <2>1, GotoKeeps DEF LinkSkipFold, LinkInv, Grounded, HoldsLock, OwesNothing, EventsCarried, ContentsCarried,
         SourceKept, Verified, Holding, Retiring
  <2>4. QED
    BY <1>0, <1>2, <2>1, <2>2, <2>3, GotoKeeps, QuietStep DEF LinkSkipFold, stores
<1>3. CASE LinkAdmit(p)
  <2>0. link[p].clone \in Clones
    BY <1>0, <1>3 DEF LinkInv, Grounded, LinkAdmit
  <2>1. Goto(p, "manifest") /\ "manifest" \in LinkSteps
    BY <1>3 DEF LinkAdmit, LinkSteps
  <2>2. /\ lock' \in [Clones -> Links \cup Writers \cup {None}]
        /\ link[p].retire => lock'[link[p].clone] = p
        /\ \A c \in Clones : lock[c] # None => lock'[c] = lock[c]
    BY <1>0, <1>3, <2>0 DEF LinkAdmit, TypeOK
  <2>3. TypeOK'
    BY <1>0, <1>3, <2>1, <2>2, GotoKeeps DEF LinkAdmit, TypeOK, stores, family
  <2>4. LinkInv(p)'
    BY <1>0, <1>3, <2>1, <2>2, GotoKeeps DEF LinkAdmit, LinkInv, Grounded, HoldsLock, OwesNothing, EventsCarried, ContentsCarried,
         SourceKept, Verified, Holding, Retiring
  <2>5. NoDrop /\ \A q \in Links : Spared(q)
    BY <1>3, <2>2, StoresFrame, LinkAssumption DEF LinkAdmit, stores
  <2>6. QED
    BY <1>0, <1>3, <2>1, <2>3, <2>4, <2>5, GotoKeeps, LinkStep DEF LinkAdmit
<1>4. CASE LinkBusy(p)
  BY <1>0, <1>4, EndStep DEF LinkBusy, TypeOK, stores, family
<1>5. CASE LinkManifest(p)
  <2>1. /\ link' \in [Links -> LinkState]
        /\ \A q \in Links \ {p} : link'[q] = link[q]
        /\ link'[p].at = "read" /\ link'[p].clone = link[p].clone
        /\ link'[p].fam = link[p].fam /\ link'[p].retire = link[p].retire
        /\ link'[p].owed = link[p].owed
    <3>1. {Art[r] : r \in events[link[p].clone]} \cap arts[link[p].clone] \in SUBSET Hashes
      BY <1>0, <1>5 DEF TypeOK, LinkInv, Grounded, LinkManifest, Stores
    <3>2. QED
      BY <1>0, <1>5, <3>1 DEF TypeOK, LinkManifest, LinkState, LinkSteps
  <2>2. TypeOK'
    BY <1>0, <1>5, <2>1 DEF LinkManifest, TypeOK, stores, family
  <2>3. LinkInv(p)'
    BY <1>0, <1>5, <2>1 DEF LinkManifest, LinkInv, Grounded, HoldsLock, OwesNothing, EventsCarried, ContentsCarried,
         SourceKept, Verified, Holding, Retiring
  <2>4. QED
    BY <1>5, <2>1, <2>2, <2>3, QuietStep DEF LinkManifest, stores
<1>6. CASE LinkRead(p)
  <2>0. link[p].clone \in Clones /\ events[link[p].clone] \in SUBSET Records
    BY <1>0, <1>6 DEF LinkRead, LinkInv, Grounded, TypeOK, Stores
  <2>1. /\ Owed(p) \subseteq events[link[p].clone]
        /\ \A r \in Owed(p) :
               Art[r] \in arts[link[p].clone] /\ (link[p].retire \/ Art[r] \in link[p].hashes)
    BY DEF Owed
  <2>2. /\ link' \in [Links -> LinkState]
        /\ \A q \in Links \ {p} : link'[q] = link[q]
        /\ link'[p].at = "artifacts" /\ link'[p].clone = link[p].clone
        /\ link'[p].fam = link[p].fam /\ link'[p].retire = link[p].retire
        /\ link'[p].owed = Owed(p) /\ link'[p].recs = events[link[p].clone]
        /\ link'[p].hashes = link[p].hashes
    BY <1>0, <1>6, <2>0, <2>1 DEF TypeOK, LinkRead, LinkState, LinkSteps
  <2>3. TypeOK'
    BY <1>0, <1>6, <2>2 DEF LinkRead, TypeOK, stores, family
  <2>4. LinkInv(p)'
    BY <1>0, <1>6, <2>1, <2>2 DEF LinkRead, stores, LinkInv, Grounded, HoldsLock, OwesNothing, EventsCarried, ContentsCarried,
         SourceKept, Verified, Holding, Retiring
  <2>5. QED
    BY <1>6, <2>2, <2>3, <2>4, QuietStep DEF LinkRead, stores
<1>7. QED
  BY <1>1, <1>2, <1>3, <1>4, <1>5, <1>6

\* The imports, which add to the family store.
LEMMA FoldCommitIInv ==
    ASSUME IInv, NEW p \in Links, LinkCommitArtifact(p) \/ LinkCommitEvent(p)
    PROVE  IInv'
<1> DEFINE f == link[p].fam
<1>0. TypeOK /\ LinkInv(p) /\ link[p] \in LinkState /\ f \in Families
  BY DEF IInv, TypeOK, LinkInv, Grounded, LinkCommitArtifact, LinkCommitEvent
<1>1. CASE LinkCommitArtifact(p)
  <2>1. ASSUME NEW h \in link[p].hashes,
               arts' = [arts EXCEPT ![f] = @ \cup {h}],
               link' = [link EXCEPT ![p].hashes = @ \ {h}]
        PROVE  IInv'
    <3>1. /\ link' \in [Links -> LinkState]
          /\ \A q \in Links \ {p} : link'[q] = link[q]
          /\ link'[p].at = "artifacts" /\ link'[p].clone = link[p].clone
          /\ link'[p].fam = f /\ link'[p].retire = link[p].retire
          /\ link'[p].owed = link[p].owed /\ link'[p].recs = link[p].recs
          /\ link'[p].hashes = link[p].hashes \ {h}
      BY <1>0, <1>1, <2>1 DEF TypeOK, LinkState, LinkCommitArtifact
    <3>2. /\ arts' \in [Stores -> SUBSET Hashes]
          /\ h \in arts'[f]
          /\ \A s \in Stores : arts[s] \subseteq arts'[s]
      BY <1>0, <2>1 DEF TypeOK, Stores, LinkState
    <3>3. TypeOK'
      BY <1>0, <1>1, <3>1, <3>2 DEF TypeOK, LinkCommitArtifact, family
    <3>4. LinkInv(p)'
      <4>1. Grounded(p)' /\ HoldsLock(p)' /\ OwesNothing(p)' /\ EventsCarried(p)'
            /\ SourceKept(p)' /\ Verified(p)'
        BY <1>0, <1>1, <3>1 DEF LinkCommitArtifact, LinkInv, Grounded, HoldsLock, OwesNothing, EventsCarried, ContentsCarried,
         SourceKept, Verified, Holding, Retiring
      <4>2. ContentsCarried(p)'
        BY <1>0, <1>1, <3>1, <3>2 DEF LinkCommitArtifact, LinkInv, ContentsCarried, Stores, Grounded
      <4>3. QED
        BY <4>1, <4>2 DEF LinkInv
    <3>5. NoDrop /\ \A q \in Links : Spared(q)
      BY <1>1, <3>2 DEF LinkCommitArtifact, NoDrop, Spared, Stores
    <3>6. QED
      BY <1>1, <3>1, <3>3, <3>4, <3>5, LinkStep DEF LinkCommitArtifact
  <2>2. CASE link[p].hashes = {} /\ Goto(p, "events") /\ arts' = arts
    <3>1. "events" \in LinkSteps
      BY DEF LinkSteps
    <3>2. TypeOK'
      BY <1>0, <1>1, <2>2, <3>1, GotoKeeps DEF TypeOK, LinkCommitArtifact, family
    <3>3. LinkInv(p)'
      BY <1>0, <1>1, <2>2, <3>1, GotoKeeps DEF LinkCommitArtifact, LinkInv, Grounded, HoldsLock, OwesNothing, EventsCarried, ContentsCarried,
         SourceKept, Verified, Holding, Retiring
    <3>4. QED
      BY <1>0, <1>1, <2>2, <3>1, <3>2, <3>3, GotoKeeps, QuietStep DEF LinkCommitArtifact
  <2>3. QED
    BY <1>1, <2>1, <2>2 DEF LinkCommitArtifact
<1>2. CASE LinkCommitEvent(p)
  <2>1. ASSUME NEW r \in link[p].recs,
               events' = [events EXCEPT ![f] = @ \cup {r}],
               link' = [link EXCEPT ![p].recs = @ \ {r}]
        PROVE  IInv'
    <3>1. /\ link' \in [Links -> LinkState]
          /\ \A q \in Links \ {p} : link'[q] = link[q]
          /\ link'[p].at = "events" /\ link'[p].clone = link[p].clone
          /\ link'[p].fam = f /\ link'[p].retire = link[p].retire
          /\ link'[p].owed = link[p].owed /\ link'[p].recs = link[p].recs \ {r}
          /\ link'[p].hashes = link[p].hashes
      BY <1>0, <1>2, <2>1 DEF TypeOK, LinkState, LinkCommitEvent
    <3>2. /\ events' \in [Stores -> SUBSET Records]
          /\ r \in events'[f]
          /\ \A s \in Stores : events[s] \subseteq events'[s]
      BY <1>0, <2>1 DEF TypeOK, Stores, LinkState
    <3>3. TypeOK'
      BY <1>0, <1>2, <3>1, <3>2 DEF TypeOK, LinkCommitEvent, family
    <3>4. LinkInv(p)'
      <4>1. Grounded(p)' /\ HoldsLock(p)' /\ OwesNothing(p)' /\ ContentsCarried(p)'
            /\ Verified(p)'
        BY <1>0, <1>2, <3>1 DEF LinkCommitEvent, LinkInv, Grounded, HoldsLock, OwesNothing, EventsCarried, ContentsCarried,
         SourceKept, Verified, Holding, Retiring
      <4>2. EventsCarried(p)' /\ SourceKept(p)'
        BY <1>0, <1>2, <3>1, <3>2 DEF LinkCommitEvent, LinkInv, EventsCarried, SourceKept,
                                      Stores, Grounded, Retiring
      <4>3. QED
        BY <4>1, <4>2 DEF LinkInv
    <3>5. NoDrop /\ \A q \in Links : Spared(q)
      BY <1>2, <3>2 DEF LinkCommitEvent, NoDrop, Spared, Stores
    <3>6. QED
      BY <1>2, <3>1, <3>3, <3>4, <3>5, LinkStep DEF LinkCommitEvent
  <2>2. CASE /\ link[p].recs = {}
             /\ Goto(p, IF link[p].retire THEN "verify" ELSE "register")
             /\ events' = events
    <3> DEFINE step == IF link[p].retire THEN "verify" ELSE "register"
    <3>1. step \in LinkSteps /\ Goto(p, step)
      BY <2>2 DEF LinkSteps
    <3>2. /\ link' \in [Links -> LinkState]
          /\ \A q \in Links \ {p} : link'[q] = link[q]
          /\ link'[p].at = step
          /\ link'[p].clone = link[p].clone /\ link'[p].fam = link[p].fam
          /\ link'[p].retire = link[p].retire /\ link'[p].owed = link[p].owed
          /\ link'[p].recs = link[p].recs /\ link'[p].hashes = link[p].hashes
      <4> HIDE DEF step
      <4>1. QED
        BY <1>0, <3>1, GotoKeeps
    <3>3. TypeOK'
      BY <1>0, <1>2, <2>2, <3>2 DEF TypeOK, LinkCommitEvent, family
    <3>4. LinkInv(p)'
      BY <1>0, <1>2, <2>2, <3>2 DEF LinkCommitEvent, LinkInv, Grounded, HoldsLock, OwesNothing, EventsCarried, ContentsCarried,
         SourceKept, Verified, Holding, Retiring
    <3>5. QED
      BY <1>2, <2>2, <3>2, <3>3, <3>4, QuietStep DEF LinkCommitEvent
  <2>3. QED
    BY <1>2, <2>1, <2>2 DEF LinkCommitEvent
<1>3. QED
  BY <1>1, <1>2

\* What a link changes of itself when it only moves on.
SameLink(p) ==
    /\ link' \in [Links -> LinkState]
    /\ \A q \in Links \ {p} : link'[q] = link[q]
    /\ link'[p].clone = link[p].clone /\ link'[p].fam = link[p].fam
    /\ link'[p].retire = link[p].retire /\ link'[p].owed = link[p].owed

\* Verification and scan: what the deletions rely on.
LEMMA VerifyIInv ==
    ASSUME IInv, NEW p \in Links, LinkVerify(p) \/ LinkVerifyFails(p) \/ LinkScan(p)
    PROVE  IInv'
<1> DEFINE c == link[p].clone
<1>0. TypeOK /\ LinkInv(p) /\ link[p] \in LinkState /\ c \in Clones
  BY DEF IInv, TypeOK, LinkInv, Grounded, LinkVerify, LinkVerifyFails, LinkScan
<1>1. CASE LinkVerify(p)
  <2>1. SameLink(p) /\ link'[p].at = "scan" /\ link'[p].recs = events[c]
        /\ link'[p].hashes = arts[c]
    <3>1. events[c] \in SUBSET Records /\ arts[c] \in SUBSET Hashes
      BY <1>0 DEF TypeOK, Stores
    <3>2. QED
      BY <1>0, <1>1, <3>1 DEF LinkVerify, TypeOK, LinkState, LinkSteps, SameLink
  <2>2. TypeOK'
    BY <1>0, <1>1, <2>1 DEF LinkVerify, TypeOK, stores, family, SameLink
  <2>3. link[p].retire /\ lock[c] = p
    BY <1>0, <1>1 DEF LinkVerify, LinkInv, HoldsLock, Holding, Retiring
  <2>4. events[c] \subseteq events[link[p].fam] /\ arts[c] \subseteq arts[link[p].fam]
    BY <1>1 DEF LinkVerify, SourceInFamily
  <2>5. LinkInv(p)'
    BY <1>0, <1>1, <2>1, <2>3, <2>4 DEF LinkVerify, SameLink, stores, LinkInv, Grounded, HoldsLock, OwesNothing, EventsCarried, ContentsCarried,
         SourceKept, Verified, Holding, Retiring
  <2>6. QED
    BY <1>1, <2>1, <2>2, <2>5, QuietStep DEF LinkVerify, SameLink, stores
<1>2. CASE LinkVerifyFails(p)
  BY <1>0, <1>2, EndStep DEF LinkVerifyFails, TypeOK, stores, family
<1>3. CASE LinkScan(p)
  <2> DEFINE clean == events[c] \subseteq link[p].recs /\ arts[c] \subseteq link[p].hashes
  <2>1. CASE clean
    <3>1. SameLink(p) /\ link'[p].at = "retire" /\ link'[p].recs = link[p].recs
          /\ link'[p].hashes = link[p].hashes /\ lock' = lock
      BY <1>0, <1>3, <2>1 DEF LinkScan, TypeOK, LinkState, LinkSteps, SameLink
    <3>2. TypeOK'
      BY <1>0, <1>3, <3>1 DEF LinkScan, TypeOK, stores, family, SameLink
    <3>3. LinkInv(p)'
      BY <1>0, <1>3, <3>1 DEF LinkScan, SameLink, stores, LinkInv, Grounded, HoldsLock, OwesNothing, EventsCarried, ContentsCarried,
         SourceKept, Verified, Holding, Retiring
    <3>4. QED
      BY <1>3, <3>1, <3>2, <3>3, QuietStep DEF LinkScan, SameLink, stores
  <2>2. CASE ~clean
    <3>1. SameLink(p) /\ link'[p].at = "register" /\ lock' = Released(p)
      BY <1>0, <1>3, <2>2 DEF LinkScan, TypeOK, LinkState, LinkSteps, SameLink
    <3>2. TypeOK'
      BY <1>0, <1>3, <3>1, ReleasedKeeps DEF LinkScan, TypeOK, stores, family, SameLink
    <3>3. LinkInv(p)'
      BY <1>0, <1>3, <3>1 DEF LinkScan, SameLink, stores, LinkInv, Grounded, HoldsLock, OwesNothing, EventsCarried, ContentsCarried,
         SourceKept, Verified, Holding, Retiring
    <3>4. NoDrop /\ \A q \in Links \ {p} : Spared(q)
      BY <1>0, <1>3, <3>1, ReleasedKeeps, StoresFrame DEF LinkScan, stores
    <3>5. QED
      BY <1>3, <3>1, <3>2, <3>3, <3>4, LinkStep DEF LinkScan, SameLink
  <2>3. QED
    BY <2>1, <2>2
<1>4. QED
  BY <1>1, <1>2, <1>3

\* The deletions: each file goes from the source after the family has it.
LEMMA RetireIInv ==
    ASSUME IInv, NEW p \in Links, LinkRetire(p) \/ LinkSettle(p)
    PROVE  IInv'
<1> DEFINE c == link[p].clone
<1> DEFINE f == link[p].fam
<1>0. /\ TypeOK /\ LinkInv(p) /\ link[p] \in LinkState
      /\ c \in Clones /\ f \in Families /\ c # f /\ c \in Stores /\ f \in Stores
  BY LinkAssumption DEF IInv, TypeOK, LinkInv, Grounded, LinkRetire, LinkSettle, Stores
<1>1. link[p].retire /\ lock[c] = p
  BY <1>0 DEF LinkRetire, LinkSettle, LinkInv, HoldsLock, Holding, Retiring
<1>2. CASE LinkRetire(p)
  <2>0. link[p].recs \subseteq events[f] /\ link[p].hashes \subseteq arts[f]
    BY <1>0, <1>2 DEF LinkRetire, LinkInv, Verified
  <2>1. ASSUME NEW h \in link[p].hashes,
               link' = [link EXCEPT ![p].hashes = @ \ {h}],
               arts' = [arts EXCEPT ![c] = @ \ {h}], UNCHANGED events
        PROVE  IInv'
    <3>1. SameLink(p) /\ link'[p].at = "retire" /\ link'[p].recs = link[p].recs
          /\ link'[p].hashes = link[p].hashes \ {h}
      BY <1>0, <1>2, <2>1 DEF LinkRetire, TypeOK, LinkState, SameLink
    <3>2. /\ arts' \in [Stores -> SUBSET Hashes] /\ h \in arts'[f] /\ arts'[f] = arts[f]
          /\ \A s \in Stores \ {c} : arts'[s] = arts[s]
          /\ \A g \in arts[c] : g = h \/ g \in arts'[c]
      BY <1>0, <2>0, <2>1 DEF TypeOK
    <3>3. TypeOK'
      BY <1>0, <1>2, <2>1, <3>1, <3>2 DEF LinkRetire, TypeOK, family, SameLink
    <3>4. LinkInv(p)'
      BY <1>0, <1>2, <2>0, <2>1, <3>1, <3>2 DEF LinkRetire, SameLink, LinkInv, Grounded, HoldsLock, OwesNothing, EventsCarried, ContentsCarried,
         SourceKept, Verified, Holding, Retiring
    <3>5. NoDrop
      BY <1>0, <2>1, <3>2 DEF NoDrop
    <3>6. \A q \in Links \ {p} : Spared(q)
      BY <1>0, <1>1, <1>2, <2>1, <3>2, LinkAssumption DEF LinkRetire, Spared, Stores
    <3>7. QED
      BY <1>2, <3>1, <3>3, <3>4, <3>5, <3>6, LinkStep DEF LinkRetire, SameLink
  <2>2. ASSUME NEW r \in link[p].recs, link[p].hashes = {},
               link' = [link EXCEPT ![p].recs = @ \ {r}],
               events' = [events EXCEPT ![c] = @ \ {r}], UNCHANGED arts
        PROVE  IInv'
    <3>1. SameLink(p) /\ link'[p].at = "retire" /\ link'[p].hashes = {}
          /\ link'[p].recs = link[p].recs \ {r}
      BY <1>0, <1>2, <2>2 DEF LinkRetire, TypeOK, LinkState, SameLink
    <3>2. /\ events' \in [Stores -> SUBSET Records] /\ r \in events'[f] /\ events'[f] = events[f]
          /\ \A s \in Stores \ {c} : events'[s] = events[s]
          /\ \A e \in events[c] : e = r \/ e \in events'[c]
      BY <1>0, <2>0, <2>2 DEF TypeOK
    <3>3. TypeOK'
      BY <1>0, <1>2, <2>2, <3>1, <3>2 DEF LinkRetire, TypeOK, family, SameLink
    <3>4. LinkInv(p)'
      BY <1>0, <1>2, <2>0, <2>2, <3>1, <3>2 DEF LinkRetire, SameLink, LinkInv, Grounded, HoldsLock, OwesNothing, EventsCarried, ContentsCarried,
         SourceKept, Verified, Holding, Retiring
    <3>5. NoDrop
      BY <1>0, <2>2, <3>2 DEF NoDrop
    <3>6. \A q \in Links \ {p} : Spared(q)
      BY <1>0, <1>1, <1>2, <2>2, <3>2, LinkAssumption DEF LinkRetire, Spared, Stores
    <3>7. QED
      BY <1>2, <3>1, <3>3, <3>4, <3>5, <3>6, LinkStep DEF LinkRetire, SameLink
  <2>3. CASE /\ link[p].recs = {} /\ link[p].hashes = {}
             /\ Goto(p, "settle") /\ UNCHANGED <<events, arts>>
    <3>1. "settle" \in LinkSteps
      BY DEF LinkSteps
    <3>2. TypeOK'
      BY <1>0, <1>2, <2>3, <3>1, GotoKeeps DEF TypeOK, LinkRetire, family
    <3>3. LinkInv(p)'
      BY <1>0, <1>2, <2>3, <3>1, GotoKeeps DEF LinkRetire, LinkInv, Grounded, HoldsLock, OwesNothing, EventsCarried, ContentsCarried,
         SourceKept, Verified, Holding, Retiring
    <3>4. QED
      BY <1>0, <1>2, <2>3, <3>1, <3>2, <3>3, GotoKeeps, QuietStep DEF LinkRetire
  <2>4. QED
    BY <1>2, <2>1, <2>2, <2>3 DEF LinkRetire
<1>3. CASE LinkSettle(p)
  <2>1. Goto(p, "register") /\ "register" \in LinkSteps
    BY <1>3 DEF LinkSettle, LinkSteps
  <2>2. TypeOK'
    BY <1>0, <1>3, <2>1, GotoKeeps, ReleasedKeeps DEF TypeOK, LinkSettle, family
  <2>3. LinkInv(p)'
    BY <1>0, <1>3, <2>1, GotoKeeps DEF LinkSettle, LinkInv, Grounded, HoldsLock, OwesNothing, EventsCarried, ContentsCarried,
         SourceKept, Verified, Holding, Retiring
  <2>4. NoDrop /\ \A q \in Links \ {p} : Spared(q)
    BY <1>0, <1>3, ReleasedKeeps, StoresFrame DEF LinkSettle
  <2>5. QED
    BY <1>0, <1>3, <2>1, <2>2, <2>3, <2>4, GotoKeeps, LinkStep DEF LinkSettle
<1>4. QED
  BY <1>2, <1>3

\* Registry and binding: no store changes.
LEMMA BindIInv ==
    ASSUME IInv, NEW p \in Links, BindStep(p)
    PROVE  IInv'
<1>0. TypeOK /\ LinkInv(p) /\ link[p] \in LinkState
  BY DEF IInv, TypeOK
<1>1. link[p].clone \in Clones /\ link[p].fam \in Families
  BY <1>0 DEF BindStep, LinkRegisterRead, LinkRegisterWrite, LinkBind, UnlinkRead,
              UnlinkWrite, UnlinkClear, LinkInv, Grounded
<1>2. CASE LinkRegisterRead(p) \/ LinkRegisterWrite(p)
  <2>1. /\ SameLink(p)
        /\ link[p].at \in {"register", "registered"}
        /\ link'[p].at \in {"registered", "bind"}
    <3>1. registry[link[p].fam] \in SUBSET Clones
      BY <1>0, <1>1 DEF TypeOK
    <3>2. CASE LinkRegisterRead(p)
      BY <1>0, <3>1, <3>2 DEF LinkRegisterRead, TypeOK, LinkState, LinkSteps, SameLink
    <3>3. CASE LinkRegisterWrite(p)
      BY <1>0, <3>3 DEF LinkRegisterWrite, TypeOK, LinkState, LinkSteps, SameLink
    <3>4. QED
      BY <1>2, <3>2, <3>3
  <2>2. registry' \in [Families -> SUBSET Clones]
    <3>1. link[p].reg \cup {link[p].clone} \in SUBSET Clones
      BY <1>0, <1>1 DEF LinkState
    <3>2. QED
      BY <1>0, <1>2, <3>1 DEF LinkRegisterRead, LinkRegisterWrite, TypeOK, family
  <2>3. UNCHANGED <<events, arts, dir, lock, made, binding, writer, acked>>
    BY <1>2 DEF LinkRegisterRead, LinkRegisterWrite, stores, family
  <2>4. TypeOK'
    BY <1>0, <2>1, <2>2, <2>3 DEF TypeOK, SameLink
  <2>5. LinkInv(p)'
    BY <1>0, <2>1, <2>3 DEF SameLink, LinkInv, Grounded, HoldsLock, OwesNothing, EventsCarried, ContentsCarried,
         SourceKept, Verified, Holding, Retiring
  <2>6. QED
    BY <2>1, <2>3, <2>4, <2>5, QuietStep DEF SameLink
<1>3. CASE UnlinkRead(p) \/ UnlinkWrite(p)
  <2>1. /\ SameLink(p)
        /\ link'[p].at \in {"deregistered", "clear"}
    <3>1. registry[link[p].fam] \in SUBSET Clones
      BY <1>0, <1>1 DEF TypeOK
    <3>2. CASE UnlinkRead(p)
      BY <1>0, <3>1, <3>2 DEF UnlinkRead, TypeOK, LinkState, LinkSteps, SameLink
    <3>3. CASE UnlinkWrite(p)
      BY <1>0, <3>3 DEF UnlinkWrite, TypeOK, LinkState, LinkSteps, SameLink
    <3>4. QED
      BY <1>3, <3>2, <3>3
  <2>2. registry' \in [Families -> SUBSET Clones]
    <3>1. link[p].reg \ {link[p].clone} \in SUBSET Clones
      BY <1>0, <1>1 DEF LinkState
    <3>2. QED
      BY <1>0, <1>3, <3>1 DEF UnlinkRead, UnlinkWrite, TypeOK, family
  <2>3. UNCHANGED <<events, arts, dir, lock, made, binding, writer, acked>>
    BY <1>3 DEF UnlinkRead, UnlinkWrite, stores, family
  <2>4. TypeOK'
    BY <1>0, <2>1, <2>2, <2>3 DEF TypeOK, SameLink
  <2>5. LinkInv(p)'
    BY <1>1, <2>1 DEF SameLink, LinkInv, Grounded, HoldsLock, OwesNothing, EventsCarried, ContentsCarried,
         SourceKept, Verified, Holding, Retiring
  <2>6. QED
    BY <2>1, <2>3, <2>4, <2>5, QuietStep DEF SameLink
<1>4. CASE LinkBind(p) \/ UnlinkClear(p)
  <2>1. binding' \in [Clones -> Families \cup {None}]
    BY <1>0, <1>1, <1>4 DEF LinkBind, UnlinkClear, TypeOK
  <2>2. QED
    BY <1>4, <2>1, EndStep DEF LinkBind, UnlinkClear, stores, family
<1>5. QED
  BY <1>2, <1>3, <1>4 DEF BindStep

LEMMA NextIInv == IInv /\ [Next]_vars => IInv'
<1> SUFFICES ASSUME IInv, [Next]_vars PROVE IInv'
  OBVIOUS
<1>1. CASE WriterNext
  BY <1>1, WriterIInv DEF WriterNext
<1>2. CASE LinkNext
  <2>1. ASSUME NEW p \in Links, FoldStep(p) PROVE IInv'
    BY <2>1, FoldReadIInv, FoldCommitIInv DEF FoldStep
  <2>2. ASSUME NEW p \in Links, RetireStep(p) PROVE IInv'
    BY <2>2, VerifyIInv, RetireIInv DEF RetireStep
  <2>3. ASSUME NEW p \in Links, LinkCrash(p) PROVE IInv'
    <3>1. binding' \in [Clones -> Families \cup {None}]
      BY <2>3 DEF LinkCrash, IInv, TypeOK
    <3>2. QED
      BY <2>3, <3>1, EndStep DEF LinkCrash, stores, family
  <2>4. ASSUME NEW p \in Links,
               \/ \E c \in Clones, f \in Families, retire \in BOOLEAN :
                     LinkStart(p, c, f, retire)
               \/ \E c \in Clones : UnlinkStart(p, c)
        PROVE  IInv'
    BY <2>4, StartIInv
  <2>5. QED
    BY <1>2, <2>1, <2>2, <2>3, <2>4, BindIInv DEF LinkNext
<1>3. CASE UNCHANGED vars
  <2>1. UNCHANGED <<events, arts, dir, lock, made, registry, binding, link, writer, acked>>
    BY <1>3 DEF vars, stores, family
  <2>2. TypeOK' /\ NothingLost'
    BY <2>1 DEF IInv, TypeOK, NothingLost
  <2>3. NoDrop /\ \A q \in Links : Spared(q)
    BY <2>1, StoresFrame
  <2>4. \A q \in Links : LinkInv(q)'
    BY <2>1, <2>3, LinkFrame DEF IInv
  <2>5. \A w \in Writers : WriterInv(w)'
    BY <2>1, <2>3, WriterFrame DEF IInv
  <2>6. QED
    BY <2>2, <2>4, <2>5 DEF IInv
<1>4. QED
  BY <1>1, <1>2, <1>3 DEF Next

\* Every reachable state satisfies the inductive invariant.
THEOREM LinkInvariant == Spec => []IInv
BY InitIInv, NextIInv, PTL DEF Spec

\* The variables of StoreLink keep their types.
THEOREM LinkTypes == Spec => []TypeOK
<1>1. IInv => TypeOK
  BY DEF IInv
<1>2. QED
  BY <1>1, LinkInvariant, PTL

\* Linking, retiring and unlinking never lose an acknowledged record or its
\* content, with any number of clones, families, commands and writers
\* (retire_verified_source beside record_event_once).
THEOREM LinkLosesNothing == Spec => []NothingLost
<1>1. IInv => NothingLost
  BY DEF IInv
<1>2. QED
  BY <1>1, LinkInvariant, PTL

\* A link that reaches register_clone has carried every record it owes to the
\* family, content included (fold_source_forward).
THEOREM LinkFoldCarries == Spec => []FoldCarries
<1>1. IInv => FoldCarries
  BY DEF IInv, LinkInv, EventsCarried, ContentsCarried, FoldCarries
<1>2. QED
  BY <1>1, LinkInvariant, PTL

\* retire_verified_source, wherever it is interrupted with a content still to
\* delete, leaves the event files of a store that held records.
THEOREM LinkInterruptedLooksPopulated == Spec => []InterruptedLooksPopulated
<1>1. IInv => InterruptedLooksPopulated
  BY DEF IInv, LinkInv, SourceKept, InterruptedLooksPopulated
<1>2. QED
  BY <1>1, LinkInvariant, PTL
=============================================================================

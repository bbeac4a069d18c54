-------------------------- MODULE ChangeIndexProofs --------------------------
(***************************************************************************)
(* The index and the reads of ChangeIndex, for every set of facts and every*)
(* order of batches.                                                       *)
(***************************************************************************)
EXTENDS ChangeIndex, TLAPS

-----------------------------------------------------------------------------
(* What the helper operators hold, element by element.                     *)

\* The references of a fact are its own, and a withdrawal has none of itself.
LEMMA OwnReferences ==
    ASSUME NEW f, NEW x \in References(f)
    PROVE  /\ x.fact = f
           /\ f.kind # "left" /\ f.kind # "unrelated"
           /\ x.role \in {"candidate", "direct"}
  BY DEF References, MembershipReference, RelationEnds, Candidate, Reference

\* The direct rows of a fact are its own, and a withdrawal has none of itself.
LEMMA OwnRows ==
    ASSUME NEW f, NEW x \in DirectRows(f)
    PROVE  /\ x.fact = f /\ x.role = "direct"
           /\ f.kind # "left" /\ f.kind # "unrelated"
  BY DEF DirectRows, Row

LEMMA InWithdrawalRows ==
    ASSUME NEW F, NEW w, NEW k, NEW source, NEW claims, NEW x
    PROVE  x \in WithdrawalRows(F, w, k, source, claims) <=>
             \E g, m \in F : /\ g.kind = w /\ m.kind = k
                             /\ g.claim = m.claim /\ m.claim \in claims
                             /\ x = Row(g, m.change, "direct", source, m.claim)
  BY DEF WithdrawalRows, Asserted, Withdrawing, Of

LEMMA InMembershipReferences ==
    ASSUME NEW F, NEW claims, NEW x
    PROVE  x \in MembershipWithdrawalReferences(F, claims) <=>
             \E g, m \in F : /\ g.kind = "left" /\ m.kind = "joined"
                             /\ g.claim = m.claim /\ m.claim \in claims
                             /\ x = MembershipReference(g, m)
  BY DEF MembershipWithdrawalReferences, Asserted, Withdrawing, Of

LEMMA InRelationReferences ==
    ASSUME NEW F, NEW claims, NEW x
    PROVE  x \in RelationWithdrawalReferences(F, claims) <=>
             \E g, m \in F : /\ g.kind = "unrelated" /\ m.kind = "related"
                             /\ g.claim = m.claim /\ m.claim \in claims
                             /\ x \in RelationEnds(g, m)
  <1>. DEFINE ends(m) == UNION {RelationEnds(w, m) : w \in Withdrawing(F, "unrelated", m)}
  <1>1. ASSUME NEW m
        PROVE  x \in ends(m) <=> \E g \in F : /\ g.kind = "unrelated" /\ g.claim = m.claim
                                             /\ x \in RelationEnds(g, m)
    BY DEF Withdrawing, Of
  <1>. HIDE DEF ends
  <1>2. x \in UNION {ends(m) : m \in Asserted(F, "related", claims)} <=>
          \E m \in F : m.kind = "related" /\ m.claim \in claims /\ x \in ends(m)
    BY DEF Asserted, Of
  <1>. QED  BY <1>1, <1>2 DEF RelationWithdrawalReferences, ends

LEMMA InMembershipHistory ==
    ASSUME NEW F, NEW R, NEW claims, NEW x
    PROVE  x \in MembershipHistory(F, R, claims) <=>
             \E y \in R, m \in F :
                /\ m.kind = "joined" /\ y.eligible /\ y.rev = m.rev /\ m.claim \in claims
                /\ x = Row(y.fact, m.change, "historical", "membership_claim", m.claim)
  BY DEF MembershipHistory, Asserted, Of

LEMMA InRelationHistory ==
    ASSUME NEW F, NEW R, NEW claims, NEW x
    PROVE  x \in RelationHistory(F, R, claims) <=>
             \E y \in R, m \in F :
                /\ m.kind = "related" /\ y.eligible /\ y.rev \in {m.succ, m.pred}
                /\ m.claim \in claims
                /\ x = Row(y.fact, m.change, "historical", "relation_claim", m.claim)
  BY DEF RelationHistory, Asserted, Of

LEMMA InClaims ==
    ASSUME NEW F, NEW kinds, NEW k
    PROVE  k \in Claims(F, kinds) <=> \E f \in F : f.kind \in kinds /\ f.claim = k
  BY DEF Claims

\* Resolving again forgets the earlier resolution.
LEMMA ResolvedAgain ==
    ASSUME NEW F, NEW G, NEW x
    PROVE  /\ Resolved(F, Resolved(G, x)) = Resolved(F, x)
           /\ Resolved(G, x).rev = x.rev /\ Resolved(G, x).role = x.role
           /\ Resolved(G, x).fact = x.fact /\ Resolved(G, x).eligible = x.eligible
  BY DEF Resolved, Reference

\* A batch with no proposal of r does not change how r is resolved.
LEMMA ResolutionKept ==
    ASSUME NEW F, NEW batch, NEW r, r \notin Known(batch)
    PROVE  Resolution(F \cup batch, r) = Resolution(F, r)
  <1>1. Hashes(F \cup batch, r) = Hashes(F, r)
    BY DEF Hashes, Known, Of
  <1>. QED  BY <1>1 DEF Resolution

-----------------------------------------------------------------------------
(* The references.                                                         *)

\* The references of the facts F before their candidates are resolved.
Unresolved(F) ==
    ReferencesIn(F)
      \cup MembershipWithdrawalReferences(F, Claims(F, {"left"}))
      \cup RelationWithdrawalReferences(F, Claims(F, {"unrelated"}))

LEMMA InUnresolved ==
    ASSUME NEW F, NEW x
    PROVE  x \in Unresolved(F) <=>
             \/ \E f \in F : x \in References(f)
             \/ \E g, m \in F : /\ g.kind = "left" /\ m.kind = "joined"
                                /\ g.claim = m.claim
                                /\ x = MembershipReference(g, m)
             \/ \E g, m \in F : /\ g.kind = "unrelated" /\ m.kind = "related"
                                /\ g.claim = m.claim /\ x \in RelationEnds(g, m)
  <1>1. x \in ReferencesIn(F) <=> \E f \in F : x \in References(f)
    BY DEF ReferencesIn
  <1>2. \A g \in F : g.kind = "left" => g.claim \in Claims(F, {"left"})
    BY InClaims
  <1>3. \A g \in F : g.kind = "unrelated" => g.claim \in Claims(F, {"unrelated"})
    BY InClaims
  <1>. QED
    BY <1>1, <1>2, <1>3, InMembershipReferences, InRelationReferences DEF Unresolved

\* One batch leaves the references that a rebuild from nothing would give.
LEMMA ReferencesStep ==
    ASSUME NEW batch, refs = ReferencesOf(log)
    PROVE  RefreshedReferences(log \cup batch, batch) = ReferencesOf(log \cup batch)
  <1>. DEFINE F == log \cup batch
              mine == AffectedMemberships(batch)
              ours == AffectedRelations(batch)
              T == TouchedRevisions(F, batch)
              stale(x) == \/ x.fact.kind = "left" /\ x.fact.claim \in mine
                          \/ x.fact.kind = "unrelated" /\ x.fact.claim \in ours
              kept == {x \in refs \cup ReferencesIn(batch) : ~stale(x)}
                        \cup MembershipWithdrawalReferences(F, mine)
                        \cup RelationWithdrawalReferences(F, ours)
              final(x) == IF x.rev \in T THEN Resolved(F, x) ELSE x
  <1>1. RefreshedReferences(F, batch) = {final(x) : x \in kept}
    BY DEF RefreshedReferences
  <1>2. /\ refs = {Resolved(log, y) : y \in Unresolved(log)}
        /\ ReferencesOf(F) = {Resolved(F, y) : y \in Unresolved(F)}
    BY DEF ReferencesOf, Unresolved
  <1>3. /\ \A f \in batch : f.kind \in {"joined", "left"} => f.claim \in mine
        /\ \A k \in mine : \E f \in batch : f.kind \in {"joined", "left"} /\ f.claim = k
        /\ \A f \in batch : f.kind \in {"related", "unrelated"} => f.claim \in ours
        /\ \A k \in ours : \E f \in batch : f.kind \in {"related", "unrelated"} /\ f.claim = k
    BY InClaims DEF AffectedMemberships, AffectedRelations
  <1>4. /\ Known(batch) \subseteq T
        /\ \A x \in ReferencesIn(batch) : x.role = "candidate" => x.rev \in T
        /\ \A m \in F : m.kind = "joined" /\ m.claim \in mine => m.rev \in T
    BY DEF TouchedRevisions, Of
  <1>5. \A x : x \in ReferencesIn(batch) <=> \E f \in batch : x \in References(f)
    BY DEF ReferencesIn
  <1>6. \A x : final(Resolved(log, x)) = Resolved(F, x)
    <2>. TAKE x
    <2>1. CASE x.rev \in T
      BY <2>1, ResolvedAgain
    <2>2. CASE x.rev \notin T
      <3>1. Resolution(F, x.rev) = Resolution(log, x.rev)
        BY <2>2, <1>4, ResolutionKept
      <3>. QED  BY <3>1, <2>2, ResolvedAgain DEF Resolved
    <2>. QED  BY <2>1, <2>2
  <1>7. \A x : x.role = "direct" \/ x.rev \in T => final(x) = Resolved(F, x)
    BY DEF Resolved
  <1>8. \A g, m : /\ MembershipReference(g, m).rev = m.rev
                  /\ MembershipReference(g, m).fact = g
                  /\ \A x \in RelationEnds(g, m) : x.role = "direct" /\ x.fact = g
    BY DEF MembershipReference, Candidate, Reference, RelationEnds
  <1>. HIDE DEF F, mine, ours, T, final
  <1>9. ASSUME NEW x \in kept
        PROVE  \E y \in Unresolved(F) : final(x) = Resolved(F, y)
    <2>1. CASE x \in refs
      <3>1. PICK y \in Unresolved(log) : x = Resolved(log, y)
        BY <2>1, <1>2
      <3>2. y \in Unresolved(F)
        BY InUnresolved DEF F
      <3>. QED  BY <3>1, <3>2, <1>6
    <2>2. CASE x \in ReferencesIn(batch)
      <3>1. x \in Unresolved(F)
        BY <2>2, <1>5, InUnresolved DEF F
      <3>. QED  BY <3>1, <2>2, <1>4, <1>5, <1>7, OwnReferences
    <2>3. CASE x \in MembershipWithdrawalReferences(F, mine)
      <3>1. x \in Unresolved(F) /\ x.rev \in T
        BY <2>3, <1>4, <1>8, InMembershipReferences, InUnresolved
      <3>. QED  BY <3>1, <1>7
    <2>4. CASE x \in RelationWithdrawalReferences(F, ours)
      <3>1. x \in Unresolved(F) /\ x.role = "direct"
        BY <2>4, <1>8, InRelationReferences, InUnresolved
      <3>. QED  BY <3>1, <1>7
    <2>. QED  BY <2>1, <2>2, <2>3, <2>4
  <1>10. ASSUME NEW y \in Unresolved(F)
         PROVE  \E x \in kept : final(x) = Resolved(F, y)
    <2>1. CASE y \in Unresolved(log) /\ ~stale(y)
      <3>1. Resolved(log, y) \in refs /\ ~stale(Resolved(log, y))
        BY <2>1, <1>2, ResolvedAgain
      <3>. QED  BY <3>1, <1>6
    <2>2. ASSUME NEW f \in F, y \in References(f)
          PROVE  \E x \in kept : final(x) = Resolved(F, y)
      <3>1. ~stale(y)
        BY <2>2, OwnReferences
      <3>2. CASE f \in log
        BY <3>1, <3>2, <2>1, <2>2, InUnresolved
      <3>3. CASE f \in batch
        BY <3>1, <3>3, <2>2, <1>4, <1>5, <1>7, OwnReferences
      <3>. QED  BY <3>2, <3>3 DEF F
    <2>3. ASSUME NEW g \in F, NEW m \in F, g.kind = "left", m.kind = "joined",
                 g.claim = m.claim, y = MembershipReference(g, m)
          PROVE  \E x \in kept : final(x) = Resolved(F, y)
      <3>1. CASE m.claim \in mine
        <4>1. y \in MembershipWithdrawalReferences(F, mine) /\ y.rev \in T
          BY <3>1, <2>3, <1>4, <1>8, InMembershipReferences
        <4>. QED  BY <4>1, <1>7
      <3>2. CASE m.claim \notin mine
        <4>1. g \in log /\ m \in log
          BY <3>2, <2>3, <1>3 DEF F
        <4>2. y \in Unresolved(log) /\ ~stale(y)
          BY <4>1, <3>2, <2>3, <1>8, InUnresolved
        <4>. QED  BY <4>2, <2>1
      <3>. QED  BY <3>1, <3>2
    <2>4. ASSUME NEW g \in F, NEW m \in F, g.kind = "unrelated", m.kind = "related",
                 g.claim = m.claim, y \in RelationEnds(g, m)
          PROVE  \E x \in kept : final(x) = Resolved(F, y)
      <3>1. CASE m.claim \in ours
        <4>1. y \in RelationWithdrawalReferences(F, ours) /\ y.role = "direct"
          BY <3>1, <2>4, <1>8, InRelationReferences
        <4>. QED  BY <4>1, <1>7
      <3>2. CASE m.claim \notin ours
        <4>1. g \in log /\ m \in log
          BY <3>2, <2>4, <1>3 DEF F
        <4>2. y \in Unresolved(log) /\ ~stale(y)
          BY <4>1, <3>2, <2>4, <1>8, InUnresolved
        <4>. QED  BY <4>2, <2>1
      <3>. QED  BY <3>1, <3>2
    <2>. QED  BY <2>2, <2>3, <2>4, InUnresolved
  <1>11. {final(x) : x \in kept} = {Resolved(F, y) : y \in Unresolved(F)}
    BY <1>9, <1>10
  <1>. QED  BY <1>1, <1>2, <1>11 DEF F

-----------------------------------------------------------------------------
(* The correlations.                                                       *)

\* The references that make a fact historical are its own: those of a
\* withdrawal are not eligible, and resolving changes no fact or Revision.
LEMMA EligibleReferences ==
    ASSUME NEW F, NEW f, NEW r
    PROVE  (\E y \in ReferencesOf(F) : y.eligible /\ y.fact = f /\ y.rev = r) <=>
             f \in F /\ \E y \in References(f) : y.eligible /\ y.rev = r
  <1>1. ReferencesOf(F) = {Resolved(F, y) : y \in Unresolved(F)}
    BY DEF ReferencesOf, Unresolved
  <1>2. \A g, m : /\ ~MembershipReference(g, m).eligible
                  /\ \A x \in RelationEnds(g, m) : ~x.eligible
    BY DEF MembershipReference, Candidate, Reference, RelationEnds
  <1>3. ASSUME NEW y \in Unresolved(F), y.eligible
        PROVE  y.fact \in F /\ y \in References(y.fact)
    BY <1>2, <1>3, InUnresolved, OwnReferences
  <1>4. ASSUME NEW y \in References(f), f \in F
        PROVE  y \in Unresolved(F) /\ y.fact = f
    BY <1>4, InUnresolved, OwnReferences
  <1>5. ASSUME NEW x \in ReferencesOf(F), x.eligible, x.fact = f, x.rev = r
        PROVE  f \in F /\ \E y \in References(f) : y.eligible /\ y.rev = r
    <2>1. PICK y \in Unresolved(F) : x = Resolved(F, y)
      BY <1>1
    <2>. QED  BY <2>1, <1>3, <1>5, ResolvedAgain
  <1>6. ASSUME f \in F, NEW y \in References(f), y.eligible, y.rev = r
        PROVE  \E x \in ReferencesOf(F) : x.eligible /\ x.fact = f /\ x.rev = r
    <2>1. Resolved(F, y) \in ReferencesOf(F)
      BY <1>1, <1>4, <1>6
    <2>. QED  BY <2>1, <1>4, <1>6, ResolvedAgain
  <1>. QED  BY <1>5, <1>6

\* A row of the Change claim m for the fact f.
MembershipRow(f, m) == Row(f, m.change, "historical", "membership_claim", m.claim)
RelationRow(f, m) == Row(f, m.change, "historical", "relation_claim", m.claim)

Mentions(f, r) == \E y \in References(f) : y.eligible /\ y.rev = r

LEMMA HistoryOfIndex ==
    ASSUME NEW F, NEW claims, NEW x
    PROVE  /\ x \in MembershipHistory(F, ReferencesOf(F), claims) <=>
                \E f, m \in F : /\ m.kind = "joined" /\ m.claim \in claims
                                /\ Mentions(f, m.rev) /\ x = MembershipRow(f, m)
           /\ x \in RelationHistory(F, ReferencesOf(F), claims) <=>
                \E f, m \in F : /\ m.kind = "related" /\ m.claim \in claims
                                /\ Mentions(f, m.succ) \/ Mentions(f, m.pred)
                                /\ x = RelationRow(f, m)
  <1>. DEFINE R == ReferencesOf(F)
  <1>1. \A f, r : (\E y \in R : y.eligible /\ y.fact = f /\ y.rev = r)
                    <=> f \in F /\ Mentions(f, r)
    BY EligibleReferences DEF Mentions
  <1>. HIDE DEF R
  <1>2. x \in MembershipHistory(F, R, claims) <=>
          \E f, m \in F : /\ m.kind = "joined" /\ m.claim \in claims
                          /\ Mentions(f, m.rev) /\ x = MembershipRow(f, m)
    BY <1>1, InMembershipHistory DEF MembershipRow
  <1>3. x \in RelationHistory(F, R, claims) <=>
          \E f, m \in F : /\ m.kind = "related" /\ m.claim \in claims
                          /\ Mentions(f, m.succ) \/ Mentions(f, m.pred)
                          /\ x = RelationRow(f, m)
    <2>1. ASSUME NEW m
          PROVE  (\E y \in R : y.eligible /\ y.rev \in {m.succ, m.pred} /\ x = RelationRow(y.fact, m))
                   <=> \E f \in F : (Mentions(f, m.succ) \/ Mentions(f, m.pred)) /\ x = RelationRow(f, m)
      BY <1>1
    <2>2. x \in RelationHistory(F, R, claims) <=>
            \E m \in F : /\ m.kind = "related" /\ m.claim \in claims
                         /\ \E y \in R : y.eligible /\ y.rev \in {m.succ, m.pred}
                                            /\ x = RelationRow(y.fact, m)
      BY InRelationHistory DEF RelationRow
    <2>. QED  BY <2>1, <2>2
  <1>. QED  BY <1>2, <1>3 DEF R

LEMMA HistoryOfFacts ==
    ASSUME NEW F, NEW B, NEW claims, NEW x
    PROVE  /\ x \in MembershipHistory(F, ReferencesIn(B), claims) <=>
                \E f \in B, m \in F : /\ m.kind = "joined" /\ m.claim \in claims
                                      /\ Mentions(f, m.rev) /\ x = MembershipRow(f, m)
           /\ x \in RelationHistory(F, ReferencesIn(B), claims) <=>
                \E f \in B, m \in F : /\ m.kind = "related" /\ m.claim \in claims
                                      /\ Mentions(f, m.succ) \/ Mentions(f, m.pred)
                                      /\ x = RelationRow(f, m)
  <1>. DEFINE R == ReferencesIn(B)
  <1>1. \A y : y \in R <=> \E f \in B : y \in References(f)
    BY DEF ReferencesIn
  <1>2. \A f : \A y \in References(f) : y.fact = f
    BY OwnReferences
  <1>. HIDE DEF R
  <1>3. x \in MembershipHistory(F, R, claims) <=>
          \E f \in B, m \in F : /\ m.kind = "joined" /\ m.claim \in claims
                                /\ Mentions(f, m.rev) /\ x = MembershipRow(f, m)
    BY <1>1, <1>2, InMembershipHistory DEF MembershipRow, Mentions
  <1>4. x \in RelationHistory(F, R, claims) <=>
          \E f \in B, m \in F : /\ m.kind = "related" /\ m.claim \in claims
                                /\ Mentions(f, m.succ) \/ Mentions(f, m.pred)
                                /\ x = RelationRow(f, m)
    BY <1>1, <1>2, InRelationHistory DEF RelationRow, Mentions
  <1>. QED  BY <1>3, <1>4 DEF R

\* What a row of the correlation table stands for.
LEMMA InCorrelation ==
    ASSUME NEW F, NEW x
    PROVE  x \in CorrelationOf(F) <=>
             \/ \E f \in F : x \in DirectRows(f)
             \/ \E g, m \in F : /\ g.kind = "left" /\ m.kind = "joined" /\ g.claim = m.claim
                                /\ x = Row(g, m.change, "direct", "membership_claim", m.claim)
             \/ \E g, m \in F : /\ g.kind = "unrelated" /\ m.kind = "related"
                                /\ g.claim = m.claim
                                /\ x = Row(g, m.change, "direct", "relation_claim", m.claim)
             \/ \E f, m \in F : /\ m.kind = "joined" /\ Mentions(f, m.rev)
                                /\ x = MembershipRow(f, m)
             \/ \E f, m \in F : /\ m.kind = "related"
                                /\ Mentions(f, m.succ) \/ Mentions(f, m.pred)
                                /\ x = RelationRow(f, m)
  <1>1. x \in DirectRowsIn(F) <=> \E f \in F : x \in DirectRows(f)
    BY DEF DirectRowsIn
  <1>2. /\ \A m \in F : m.kind = "joined" => m.claim \in Claims(F, {"joined"})
        /\ \A m \in F : m.kind = "related" => m.claim \in Claims(F, {"related"})
    BY InClaims
  <1>. DEFINE R == ReferencesIn(F)
  <1>3. x \in MembershipHistory(F, R, Claims(F, {"joined"})) <=>
          \E f, m \in F : /\ m.kind = "joined" /\ Mentions(f, m.rev)
                          /\ x = MembershipRow(f, m)
    BY <1>2, HistoryOfFacts
  <1>4. x \in RelationHistory(F, R, Claims(F, {"related"})) <=>
          \E f, m \in F : /\ m.kind = "related"
                          /\ Mentions(f, m.succ) \/ Mentions(f, m.pred)
                          /\ x = RelationRow(f, m)
    BY <1>2, HistoryOfFacts
  <1>5. x \in CorrelationOf(F) <=>
          \/ x \in DirectRowsIn(F)
          \/ x \in WithdrawalRows(F, "left", "joined", "membership_claim", Claims(F, {"joined"}))
          \/ x \in WithdrawalRows(F, "unrelated", "related", "relation_claim",
                                  Claims(F, {"related"}))
          \/ x \in MembershipHistory(F, R, Claims(F, {"joined"}))
          \/ x \in RelationHistory(F, R, Claims(F, {"related"}))
    BY DEF CorrelationOf
  <1>. HIDE DEF R
  <1>6. x \in WithdrawalRows(F, "left", "joined", "membership_claim", Claims(F, {"joined"})) <=>
          \E g, m \in F : /\ g.kind = "left" /\ m.kind = "joined" /\ g.claim = m.claim
                          /\ x = Row(g, m.change, "direct", "membership_claim", m.claim)
    BY <1>2, InWithdrawalRows
  <1>7. x \in WithdrawalRows(F, "unrelated", "related", "relation_claim", Claims(F, {"related"}))
          <=> \E g, m \in F : /\ g.kind = "unrelated" /\ m.kind = "related"
                              /\ g.claim = m.claim
                              /\ x = Row(g, m.change, "direct", "relation_claim", m.claim)
    BY <1>2, InWithdrawalRows
  <1>. QED  BY <1>1, <1>3, <1>4, <1>5, <1>6, <1>7

LEMMA InHistoricalRows ==
    ASSUME NEW F, NEW batch, NEW x
    PROVE  x \in HistoricalRows(F, batch) <=>
             \/ \E f \in batch, m \in F : /\ m.kind = "joined" /\ Mentions(f, m.rev)
                                          /\ x = MembershipRow(f, m)
             \/ \E f \in batch, m \in F : /\ m.kind = "related"
                                          /\ Mentions(f, m.succ) \/ Mentions(f, m.pred)
                                          /\ x = RelationRow(f, m)
  <1>1. /\ \A m \in F : m.kind = "joined" => m.claim \in Claims(F, {"joined"})
        /\ \A m \in F : m.kind = "related" => m.claim \in Claims(F, {"related"})
    BY InClaims
  <1>2. x \in MembershipHistory(F, ReferencesIn(batch), Claims(F, {"joined"})) <=>
          \E f \in batch, m \in F : /\ m.kind = "joined" /\ Mentions(f, m.rev)
                                    /\ x = MembershipRow(f, m)
    BY <1>1, HistoryOfFacts
  <1>3. x \in RelationHistory(F, ReferencesIn(batch), Claims(F, {"related"})) <=>
          \E f \in batch, m \in F : /\ m.kind = "related"
                                    /\ Mentions(f, m.succ) \/ Mentions(f, m.pred)
                                    /\ x = RelationRow(f, m)
    BY <1>1, HistoryOfFacts
  <1>4. x \in HistoricalRows(F, batch) <=>
          \/ x \in MembershipHistory(F, ReferencesIn(batch), Claims(F, {"joined"}))
          \/ x \in RelationHistory(F, ReferencesIn(batch), Claims(F, {"related"}))
    BY DEF HistoricalRows
  <1>. QED  BY <1>2, <1>3, <1>4, Zenon

\* One batch leaves the correlations that a rebuild from nothing would give.
LEMMA CorrelationStep ==
    ASSUME NEW batch, corr = CorrelationOf(log)
    PROVE  RefreshedCorrelations(log \cup batch, batch, ReferencesOf(log \cup batch))
             = CorrelationOf(log \cup batch)
  <1>. DEFINE F == log \cup batch
              R == ReferencesOf(F)
              mine == AffectedMemberships(batch)
              ours == AffectedRelations(batch)
              direct == DirectRowsIn(batch)
              stale(x) ==
                \/ /\ x.source = "membership_claim" /\ x.id \in mine
                   /\ x.role = "historical" \/ x.fact.kind = "left"
                \/ /\ x.source = "relation_claim" /\ x.id \in ours
                   /\ x.role = "historical" \/ x.fact.kind = "unrelated"
              new == RefreshedCorrelations(F, batch, R)
  <1>1. \A x : x \in new <=>
          \/ (x \in corr \/ x \in direct) /\ ~stale(x)
          \/ x \in WithdrawalRows(F, "left", "joined", "membership_claim", mine)
          \/ x \in WithdrawalRows(F, "unrelated", "related", "relation_claim", ours)
          \/ x \in MembershipHistory(F, R, mine)
          \/ x \in RelationHistory(F, R, ours)
          \/ x \in HistoricalRows(F, batch)
    BY DEF RefreshedCorrelations
  <1>2. /\ \A f \in batch : f.kind \in {"joined", "left"} => f.claim \in mine
        /\ \A f \in batch : f.kind \in {"related", "unrelated"} => f.claim \in ours
    BY InClaims DEF AffectedMemberships, AffectedRelations
  <1>3. \A x : x \in direct <=> \E f \in batch : x \in DirectRows(f)
    BY DEF DirectRowsIn
  <1>4. \A x : x \in HistoricalRows(F, batch) <=>
          \/ \E f \in batch, m \in F : /\ m.kind = "joined" /\ Mentions(f, m.rev)
                                       /\ x = MembershipRow(f, m)
          \/ \E f \in batch, m \in F : /\ m.kind = "related"
                                       /\ Mentions(f, m.succ) \/ Mentions(f, m.pred)
                                       /\ x = RelationRow(f, m)
    BY InHistoricalRows
  <1>5. ASSUME NEW f, NEW c, NEW role, NEW source, NEW id
        PROVE  LET row == Row(f, c, role, source, id)
               IN  /\ row.fact = f /\ row.role = role
                   /\ row.source = source /\ row.id = id
    BY DEF Row
  <1>. HIDE DEF F, R, mine, ours, direct, new
  <1>6. ASSUME NEW x \in new
        PROVE  x \in CorrelationOf(F)
    <2>1. CASE x \in corr
      BY <2>1, InCorrelation DEF F
    <2>2. CASE x \in direct
      BY <2>2, <1>3, InCorrelation DEF F
    <2>3. CASE x \in WithdrawalRows(F, "left", "joined", "membership_claim", mine)
      BY <2>3, InWithdrawalRows, InCorrelation
    <2>4. CASE x \in WithdrawalRows(F, "unrelated", "related", "relation_claim", ours)
      BY <2>4, InWithdrawalRows, InCorrelation
    <2>5. CASE x \in MembershipHistory(F, R, mine)
      BY <2>5, HistoryOfIndex, InCorrelation DEF R
    <2>6. CASE x \in RelationHistory(F, R, ours)
      BY <2>6, HistoryOfIndex, InCorrelation DEF R
    <2>7. CASE x \in HistoricalRows(F, batch)
      <3>1. batch \subseteq F
        BY DEF F
      <3>2. ASSUME NEW f \in batch, NEW m \in F, m.kind = "joined", Mentions(f, m.rev),
                   x = MembershipRow(f, m)
            PROVE  x \in CorrelationOf(F)
        BY <3>1, <3>2, InCorrelation
      <3>3. ASSUME NEW f \in batch, NEW m \in F, m.kind = "related",
                   Mentions(f, m.succ) \/ Mentions(f, m.pred), x = RelationRow(f, m)
            PROVE  x \in CorrelationOf(F)
        BY <3>1, <3>3, InCorrelation
      <3>4. \/ \E f \in batch, m \in F : /\ m.kind = "joined" /\ Mentions(f, m.rev)
                                         /\ x = MembershipRow(f, m)
            \/ \E f \in batch, m \in F : /\ m.kind = "related"
                                         /\ Mentions(f, m.succ) \/ Mentions(f, m.pred)
                                         /\ x = RelationRow(f, m)
        BY <2>7, <1>4, Zenon
      <3>. QED  BY <3>2, <3>3, <3>4, Zenon
    <2>. QED  BY <1>1, <2>1, <2>2, <2>3, <2>4, <2>5, <2>6, <2>7
  <1>7. ASSUME NEW x \in CorrelationOf(F)
        PROVE  x \in new
    <2>1. ASSUME NEW f \in F, x \in DirectRows(f)
          PROVE  x \in new
      <3>1. ~stale(x)
        BY <2>1, OwnRows
      <3>. QED  BY <3>1, <2>1, <1>1, <1>3, InCorrelation DEF F
    <2>2. ASSUME NEW g \in F, NEW m \in F, g.kind = "left", m.kind = "joined",
                 g.claim = m.claim,
                 x = Row(g, m.change, "direct", "membership_claim", m.claim)
          PROVE  x \in new
      <3>1. CASE m.claim \in mine
        BY <3>1, <2>2, <1>1, InWithdrawalRows
      <3>2. CASE m.claim \notin mine
        <4>1. g \in log /\ m \in log
          BY <3>2, <2>2, <1>2 DEF F
        <4>2. x \in corr
          BY <4>1, <2>2, InCorrelation
        <4>. QED  BY <4>2, <3>2, <2>2, <1>1, <1>5
      <3>. QED  BY <3>1, <3>2
    <2>3. ASSUME NEW g \in F, NEW m \in F, g.kind = "unrelated", m.kind = "related",
                 g.claim = m.claim,
                 x = Row(g, m.change, "direct", "relation_claim", m.claim)
          PROVE  x \in new
      <3>1. CASE m.claim \in ours
        BY <3>1, <2>3, <1>1, InWithdrawalRows
      <3>2. CASE m.claim \notin ours
        <4>1. g \in log /\ m \in log
          BY <3>2, <2>3, <1>2 DEF F
        <4>2. x \in corr
          BY <4>1, <2>3, InCorrelation
        <4>. QED  BY <4>2, <3>2, <2>3, <1>1, <1>5
      <3>. QED  BY <3>1, <3>2
    <2>4. ASSUME NEW f \in F, NEW m \in F, m.kind = "joined", Mentions(f, m.rev),
                 x = MembershipRow(f, m)
          PROVE  x \in new
      <3>1. CASE m.claim \in mine
        BY <3>1, <2>4, <1>1, HistoryOfIndex DEF R
      <3>2. CASE f \in batch
        BY <3>2, <2>4, <1>1, <1>4
      <3>3. CASE m.claim \notin mine /\ f \notin batch
        <4>1. f \in log /\ m \in log
          BY <3>3, <2>4, <1>2 DEF F
        <4>2. x \in corr
          BY <4>1, <2>4, InCorrelation
        <4>. QED  BY <4>2, <3>3, <2>4, <1>1, <1>5 DEF MembershipRow
      <3>. QED  BY <3>1, <3>2, <3>3
    <2>5. ASSUME NEW f \in F, NEW m \in F, m.kind = "related",
                 Mentions(f, m.succ) \/ Mentions(f, m.pred), x = RelationRow(f, m)
          PROVE  x \in new
      <3>1. CASE m.claim \in ours
        BY <3>1, <2>5, <1>1, HistoryOfIndex DEF R
      <3>2. CASE f \in batch
        BY <3>2, <2>5, <1>1, <1>4
      <3>3. CASE m.claim \notin ours /\ f \notin batch
        <4>1. f \in log /\ m \in log
          BY <3>3, <2>5, <1>2 DEF F
        <4>2. x \in corr
          BY <4>1, <2>5, InCorrelation
        <4>. QED  BY <4>2, <3>3, <2>5, <1>1, <1>5 DEF RelationRow
      <3>. QED  BY <3>1, <3>2, <3>3
    <2>. QED  BY <2>1, <2>2, <2>3, <2>4, <2>5, InCorrelation
  <1>8. new = CorrelationOf(F)
    BY <1>6, <1>7
  <1>. QED  BY <1>8 DEF new, F, R

-----------------------------------------------------------------------------
(* The index.                                                              *)

\* The order and the batches in which facts are applied never show in the index:
\* claims, withdrawals, proposals and the facts that reference a Revision have
\* the rows a rebuild gives them, for every set of facts.
THEOREM IndexExact == Spec => []IndexIsExact
  <1>1. Init => IndexIsExact
    <2>. SUFFICES ASSUME Init PROVE IndexIsExact
      OBVIOUS
    <2>1. CorrelationOf({}) = {}
      BY InCorrelation
    <2>2. Unresolved({}) = {}
      BY InUnresolved
    <2>3. ReferencesOf({}) = {}
      BY <2>2 DEF ReferencesOf, Unresolved
    <2>. QED  BY <2>1, <2>3 DEF Init, IndexIsExact
  <1>2. IndexIsExact /\ [Next]_vars => IndexIsExact'
    <2>. SUFFICES ASSUME IndexIsExact, [Next]_vars PROVE IndexIsExact'
      OBVIOUS
    <2>1. ASSUME NEW batch, ApplyDelta(batch)
          PROVE  IndexIsExact'
      BY <2>1, ReferencesStep, CorrelationStep DEF ApplyDelta, IndexIsExact
    <2>2. CASE Populate
      BY <2>1, <2>2 DEF Populate
    <2>3. CASE CatchUp
      BY <2>1, <2>3 DEF CatchUp
    <2>4. ASSUME NEW c \in Changes, ShowChange(c)
          PROVE  IndexIsExact'
      BY <2>4 DEF ShowChange, IndexIsExact, ReferencesOf, CorrelationOf
    <2>5. CASE ReadThreads
      BY <2>5 DEF ReadThreads, IndexIsExact
    <2>6. CASE UNCHANGED vars
      BY <2>6 DEF vars, IndexIsExact
    <2>. QED  BY <2>2, <2>3, <2>4, <2>5, <2>6 DEF Next
  <1>. QED  BY <1>1, <1>2, PTL DEF Spec

-----------------------------------------------------------------------------
(* Threads.                                                                *)

\* The members of a Change are proposed Revisions, and a replacement is between
\* two of them.
LEMMA EdgesBetweenMembers ==
    ASSUME NEW F, NEW c, NEW e \in Supersedes(F, c)
    PROVE  /\ e = <<e[1], e[2]>>
           /\ e[1] \in Members(F, c) /\ e[2] \in Members(F, c)
           /\ e[1] \in Known(F) /\ e[2] \in Known(F)
  <1>1. PICK g \in Relations(F, c) :
          e = <<g.succ, g.pred>> /\ {g.succ, g.pred} \subseteq Members(F, c)
    BY DEF Supersedes
  <1>2. Members(F, c) \subseteq Known(F)
    BY DEF Members
  <1>. QED  BY <1>1, <1>2

\* A closure contains what it starts from and follows every edge within V.
LEMMA ClosureIsClosed ==
    ASSUME NEW E, NEW V, NEW S
    PROVE  /\ Closure(E, V, S) \subseteq V
           /\ S \cap V \subseteq Closure(E, V, S)
           /\ \A e \in E : e[1] \in Closure(E, V, S) /\ e[2] \in V
                             => e[2] \in Closure(E, V, S)
  BY DEF Closure

\* A thread holds its Revision and, with a Revision, what replaces it.
LEMMA ThreadFollowsReplacements ==
    ASSUME NEW F, NEW r \in Known(F)
    PROVE  /\ r \in Thread(F, r)
           /\ Thread(F, r) \subseteq Known(F)
           /\ \A s \in Known(F), p \in Thread(F, r) :
                <<s, p>> \in ReplacementEdges(F) => s \in Thread(F, r)
  <1>. DEFINE E == {e \in ReplacementEdges(F) : {e[1], e[2]} \subseteq Known(F)}
              B == E \cup {<<e[2], e[1]>> : e \in E}
  <1>1. Thread(F, r) = Closure(B, Known(F), {r})
    BY DEF Thread
  <1>2. /\ Closure(B, Known(F), {r}) \subseteq Known(F)
        /\ r \in Closure(B, Known(F), {r})
    BY ClosureIsClosed
  <1>3. ASSUME NEW s \in Known(F), NEW p \in Thread(F, r), <<s, p>> \in ReplacementEdges(F)
        PROVE  s \in Thread(F, r)
    <2>1. p \in Known(F)
      BY <1>1, <1>2
    <2>2. <<s, p>> \in E
      BY <1>3, <2>1
    <2>3. <<p, s>> \in B
      BY <2>2
    <2>. QED  BY <1>1, <2>3, <1>3, ClosureIsClosed
  <1>. QED  BY <1>1, <1>2, <1>3

\* A thread without a head would be replaced, within one usable Change, from
\* within itself: the graph of that Change would have a cycle.
LEMMA ThreadHasHead ==
    ASSUME NEW F, ChangeIds(F) # {}, NEW r \in Known(F)
    PROVE  Thread(F, r) \cap Heads(F) # {}
  <1>. SUFFICES ASSUME Thread(F, r) \cap Heads(F) = {} PROVE FALSE
    OBVIOUS
  <1>. DEFINE T == Thread(F, r)
  <1>1. ReplacementEdges(F) = AdmittedEdges(F)
    BY DEF ReplacementEdges
  <1>2. ASSUME NEW p \in T
        PROVE  \E s \in Known(F) : <<s, p>> \in AdmittedEdges(F)
    BY <1>1, ThreadFollowsReplacements DEF Heads, Superseded
  <1>3. \A e \in AdmittedEdges(F) : ~CurrentSomewhere(F, e[2])
    BY DEF AdmittedEdges
  <1>4. PICK s \in Known(F) : <<s, r>> \in AdmittedEdges(F)
    BY <1>2, ThreadFollowsReplacements
  <1>5. PICK c \in ChangeIds(F) : Usable(F, c) /\ <<s, r>> \in Supersedes(F, c)
    BY <1>4 DEF AdmittedEdges
  <1>. DEFINE S == {p \in Members(F, c) : p \in T}
  <1>6. r \in S
    BY <1>5, EdgesBetweenMembers, ThreadFollowsReplacements
  <1>7. ASSUME NEW p \in S
        PROVE  \E q \in S : <<q, p>> \in Supersedes(F, c)
    <2>1. ~CurrentSomewhere(F, p)
      BY <1>2, <1>3
    <2>2. p \notin CurrentRevisions(F, c)
      BY <2>1, <1>5 DEF CurrentSomewhere
    <2>3. PICK e \in Supersedes(F, c) : e[2] = p
      BY <2>2 DEF CurrentRevisions
    <2>4. /\ <<e[1], p>> \in Supersedes(F, c)
          /\ e[1] \in Members(F, c) /\ e[1] \in Known(F)
      BY <2>3, EdgesBetweenMembers
    <2>5. <<e[1], p>> \in AdmittedEdges(F)
      BY <2>1, <2>4, <1>5 DEF AdmittedEdges
    <2>6. e[1] \in T
      BY <2>4, <2>5, <1>1, ThreadFollowsReplacements
    <2>. QED  BY <2>4, <2>6
  <1>8. Cyclic(F, c)
    <2>1. S \in SUBSET Members(F, c) /\ S # {}
      BY <1>6
    <2>. QED  BY <2>1, <1>7 DEF Cyclic, HasCycle
  <1>. QED  BY <1>5, <1>8 DEF Usable

\* What ReadThreads answered is what the facts say until the next delta.
ThreadsAreCurrent ==
    answer.kind = "threads" =>
        /\ answer.heads = Heads(log)
        /\ answer.threads = {Thread(log, r) : r \in Known(log)}

\* Once a store has a Change claim, no thread a reader is shown is without a head,
\* however the histories of its Changes cross.
THEOREM ThreadsHaveHeads == Spec => []EveryThreadHasHead
  <1>1. Init => ThreadsAreCurrent
    BY DEF Init, NoAnswer, ThreadsAreCurrent
  <1>2. ThreadsAreCurrent /\ [Next]_vars => ThreadsAreCurrent'
    <2>. SUFFICES ASSUME ThreadsAreCurrent, [Next]_vars PROVE ThreadsAreCurrent'
      OBVIOUS
    <2>1. ASSUME NEW batch, ApplyDelta(batch)
          PROVE  ThreadsAreCurrent'
      BY <2>1 DEF ApplyDelta, NoAnswer, ThreadsAreCurrent
    <2>2. CASE Populate
      BY <2>1, <2>2 DEF Populate
    <2>3. CASE CatchUp
      BY <2>1, <2>3 DEF CatchUp
    <2>4. ASSUME NEW c \in Changes, ShowChange(c)
          PROVE  ThreadsAreCurrent'
      BY <2>4 DEF ShowChange, ThreadsAreCurrent
    <2>5. CASE ReadThreads
      BY <2>5 DEF ReadThreads, ThreadsAreCurrent
    <2>6. CASE UNCHANGED vars
      BY <2>6 DEF vars, ThreadsAreCurrent
    <2>. QED  BY <2>2, <2>3, <2>4, <2>5, <2>6 DEF Next
  <1>3. ThreadsAreCurrent => EveryThreadHasHead
    BY ThreadHasHead DEF ThreadsAreCurrent, EveryThreadHasHead
  <1>. QED  BY <1>1, <1>2, <1>3, PTL DEF Spec

(***************************************************************************)
(* `change show` against the fold of the whole store, for every set of     *)
(* facts. What the seek selects for a Change c contains every fact the     *)
(* fold of c reads, but for the requests on Revisions no claim of c names; *)
(* so every part of the view is the same, but for the obligations a port   *)
(* to such a Revision keeps open.                                          *)
(***************************************************************************)

-----------------------------------------------------------------------------
(* What the seek selects.                                                  *)

LEMMA InClaimedRevisions ==
    ASSUME NEW c, NEW r
    PROVE  r \in ClaimedRevisions(c) <=>
             \/ \E m \in log : m.kind = "joined" /\ m.change = c /\ r = m.rev
             \/ \E e \in log : /\ e.kind = "related" /\ e.change = c
                               /\ r = e.succ \/ r = e.pred
  BY DEF ClaimedRevisions, Claimed, Of

\* S holds the facts of F that the fold of c reads; R holds the Revisions that
\* the claims of c name.
Narrows(S, F, c, R) ==
    /\ S \subseteq F
    /\ \A f \in F : f.kind \in {"declared", "joined", "related"} => (f \in S <=> f.change = c)
    /\ \A m \in F : m.kind = "joined" /\ m.change = c => m.rev \in R
    /\ \A e \in F : e.kind = "related" /\ e.change = c => e.succ \in R /\ e.pred \in R
    /\ \A w, m \in F : (w.kind = "left" /\ m.kind = "joined"
                          /\ w.claim = m.claim /\ m.change = c) => w \in S
    /\ \A w, e \in F : (w.kind = "unrelated" /\ e.kind = "related"
                          /\ w.claim = e.claim /\ e.change = c) => w \in S
    /\ \A f \in F : f.kind \in {"revision", "assessed", "requested"} /\ f.rev \in R => f \in S
    /\ \A q \in S : q.kind = "requested" => q.rev \in R
    /\ \A p \in F : p.kind = "ported" /\ p.originRev \in R => p \in S
    /\ \A f \in F, q \in S : (f.kind = "responded" /\ q.kind = "requested"
                                /\ f.request = q.request) => f \in S

\* The facts correlated with a Change name it, withdraw a claim on it, or mention
\* a Revision that a claim on it names.
LEMMA CorrelatedFacts ==
    ASSUME corr = CorrelationOf(log), NEW c, NEW f
    PROVE  f \in Correlated(c) <=>
             /\ f \in log
             /\ \/ \E x \in DirectRows(f) : x.change = c
                \/ \E m \in log : /\ f.kind = "left" /\ m.kind = "joined"
                                  /\ f.claim = m.claim /\ m.change = c
                \/ \E m \in log : /\ f.kind = "unrelated" /\ m.kind = "related"
                                  /\ f.claim = m.claim /\ m.change = c
                \/ \E r \in ClaimedRevisions(c) : Mentions(f, r)
  <1>1. f \in Correlated(c) <=> \E x \in corr : x.change = c /\ x.fact = f
    BY DEF Correlated
  <1>2. ASSUME NEW g, NEW d, NEW role, NEW source, NEW id
        PROVE  Row(g, d, role, source, id).fact = g /\ Row(g, d, role, source, id).change = d
    BY DEF Row
  <1>3. \A g, m : /\ MembershipRow(g, m).fact = g /\ MembershipRow(g, m).change = m.change
                  /\ RelationRow(g, m).fact = g /\ RelationRow(g, m).change = m.change
    BY <1>2 DEF MembershipRow, RelationRow
  <1>4. \A g : \A x \in DirectRows(g) : x.fact = g
    BY OwnRows
  <1>5. ASSUME NEW x \in corr, x.change = c, x.fact = f
        PROVE  /\ f \in log
               /\ \/ \E y \in DirectRows(f) : y.change = c
                  \/ \E m \in log : /\ f.kind = "left" /\ m.kind = "joined"
                                    /\ f.claim = m.claim /\ m.change = c
                  \/ \E m \in log : /\ f.kind = "unrelated" /\ m.kind = "related"
                                    /\ f.claim = m.claim /\ m.change = c
                  \/ \E r \in ClaimedRevisions(c) : Mentions(f, r)
    <2>1. CASE \E g \in log : x \in DirectRows(g)
      BY <2>1, <1>4, <1>5
    <2>2. CASE \E g, m \in log : /\ g.kind = "left" /\ m.kind = "joined" /\ g.claim = m.claim
                                 /\ x = Row(g, m.change, "direct", "membership_claim", m.claim)
      BY <2>2, <1>2, <1>5
    <2>3. CASE \E g, m \in log : /\ g.kind = "unrelated" /\ m.kind = "related"
                                 /\ g.claim = m.claim
                                 /\ x = Row(g, m.change, "direct", "relation_claim", m.claim)
      BY <2>3, <1>2, <1>5
    <2>4. CASE \E g, m \in log : /\ m.kind = "joined" /\ Mentions(g, m.rev)
                                 /\ x = MembershipRow(g, m)
      BY <2>4, <1>3, <1>5, InClaimedRevisions
    <2>5. CASE \E g, m \in log : /\ m.kind = "related"
                                 /\ Mentions(g, m.succ) \/ Mentions(g, m.pred)
                                 /\ x = RelationRow(g, m)
      BY <2>5, <1>3, <1>5, InClaimedRevisions
    <2>. QED  BY <2>1, <2>2, <2>3, <2>4, <2>5, InCorrelation
  <1>6. ASSUME NEW x, f \in log, x \in DirectRows(f), x.change = c
        PROVE  \E y \in corr : y.change = c /\ y.fact = f
    BY <1>6, <1>4, InCorrelation
  <1>7. ASSUME NEW m \in log, f \in log, f.claim = m.claim, m.change = c,
               \/ f.kind = "left" /\ m.kind = "joined"
               \/ f.kind = "unrelated" /\ m.kind = "related"
        PROVE  \E y \in corr : y.change = c /\ y.fact = f
    <2>1. CASE f.kind = "left" /\ m.kind = "joined"
      <3>1. Row(f, m.change, "direct", "membership_claim", m.claim) \in corr
        BY <2>1, <1>7, InCorrelation
      <3>. QED  BY <3>1, <1>2, <1>7
    <2>2. CASE f.kind = "unrelated" /\ m.kind = "related"
      <3>1. Row(f, m.change, "direct", "relation_claim", m.claim) \in corr
        BY <2>2, <1>7, InCorrelation
      <3>. QED  BY <3>1, <1>2, <1>7
    <2>. QED  BY <1>7, <2>1, <2>2
  <1>8. ASSUME NEW r \in ClaimedRevisions(c), f \in log, Mentions(f, r)
        PROVE  \E y \in corr : y.change = c /\ y.fact = f
    <2>1. CASE \E m \in log : m.kind = "joined" /\ m.change = c /\ r = m.rev
      <3>1. PICK m \in log : m.kind = "joined" /\ m.change = c /\ r = m.rev
        BY <2>1
      <3>2. MembershipRow(f, m) \in corr
        BY <3>1, <1>8, InCorrelation
      <3>. QED  BY <3>1, <3>2, <1>3
    <2>2. CASE \E e \in log : e.kind = "related" /\ e.change = c /\ (r = e.succ \/ r = e.pred)
      <3>1. PICK e \in log : e.kind = "related" /\ e.change = c /\ (r = e.succ \/ r = e.pred)
        BY <2>2
      <3>2. RelationRow(f, e) \in corr
        BY <3>1, <1>8, InCorrelation
      <3>. QED  BY <3>1, <3>2, <1>3
    <2>. QED  BY <2>1, <2>2, InClaimedRevisions
  <1>. QED  BY <1>1, <1>5, <1>6, <1>7, <1>8

\* Which Revisions a fact mentions, by its kind.
LEMMA MentionsByKind ==
    ASSUME NEW f, NEW r, r # None
    PROVE  /\ f.kind = "revision" /\ f.rev = r => Mentions(f, r)
           /\ f.kind \in {"assessed", "requested"} => (Mentions(f, r) <=> f.rev = r)
           /\ f.kind = "ported" /\ f.originRev = r => Mentions(f, r)
           /\ f.kind \in {"declared", "joined", "related"} => ~Mentions(f, r)
  <1>1. ASSUME f.kind = "revision", f.rev = r
        PROVE  Mentions(f, r)
    <2>1. Reference(f, "proposal", "direct", f.rev, f.hash, TRUE) \in References(f)
      BY <1>1 DEF References
    <2>. QED  BY <1>1, <2>1 DEF Mentions, Reference
  <1>2. ASSUME f.kind \in {"assessed", "requested"}
        PROVE  Mentions(f, r) <=> f.rev = r
    <2>1. References(f) = IF f.rev = None THEN {} ELSE {Candidate(f, "review_target", f.rev, TRUE)}
      BY <1>2 DEF References
    <2>2. CASE f.rev = None
      BY <2>1, <2>2 DEF Mentions
    <2>3. CASE f.rev # None
      <3>1. \A y : y \in References(f) <=> y = Candidate(f, "review_target", f.rev, TRUE)
        BY <2>1, <2>3
      <3>2. /\ Candidate(f, "review_target", f.rev, TRUE).rev = f.rev
            /\ Candidate(f, "review_target", f.rev, TRUE).eligible
        BY DEF Candidate, Reference
      <3>. QED  BY <3>1, <3>2 DEF Mentions
    <2>. QED  BY <2>2, <2>3
  <1>3. ASSUME f.kind = "ported", f.originRev = r
        PROVE  Mentions(f, r)
    <2>1. Reference(f, "fact_port_origin", "direct", f.originRev, f.originHash, TRUE)
            \in References(f)
      BY <1>3 DEF References
    <2>. QED  BY <1>3, <2>1 DEF Mentions, Reference
  <1>4. ASSUME f.kind \in {"declared", "joined", "related"}
        PROVE  ~Mentions(f, r)
    <2>1. CASE f.kind = "declared"
      BY <2>1 DEF Mentions, References, Candidate, Reference
    <2>2. CASE f.kind = "joined"
      BY <2>2 DEF Mentions, References, MembershipReference, Candidate, Reference
    <2>3. CASE f.kind = "related"
      BY <2>3 DEF Mentions, References, RelationEnds, Reference
    <2>. QED  BY <1>4, <2>1, <2>2, <2>3
  <1>. QED  BY <1>1, <1>2, <1>3, <1>4

\* What the index selects for a Change holds all that its fold reads.
LEMMA SelectedNarrows ==
    ASSUME corr = CorrelationOf(log), ClaimsNameRevisions(log), NEW c
    PROVE  Narrows(Selected(c), log, c, ClaimedRevisions(c))
  <1>. DEFINE S == Selected(c)
              R == ClaimedRevisions(c)
  <1>1. \A f : f \in S <=> \/ f \in Correlated(c)
                           \/ /\ f \in log /\ f.kind = "responded"
                              /\ \E q \in Correlated(c) : /\ q.kind = "requested"
                                                          /\ q.request = f.request
    BY DEF Selected, Of
  <1>2. \A r \in R : r # None
    BY InClaimedRevisions DEF ClaimsNameRevisions, Of
  <1>3. Correlated(c) \subseteq log
    BY CorrelatedFacts
  <1>. HIDE DEF S, R
  <1>4. S \subseteq log
    BY <1>1, <1>3
  <1>5. ASSUME NEW f \in log, f.kind \in {"declared", "joined", "related"}
        PROVE  f \in S <=> f.change = c
    <2>1. \A r \in R : ~Mentions(f, r)
      BY <1>2, <1>5, MentionsByKind
    <2>2. (\E x \in DirectRows(f) : x.change = c) <=> f.change = c
      <3>1. PICK source : DirectRows(f) = {Row(f, f.change, "direct", source, f.claim)}
        BY <1>5 DEF DirectRows
      <3>2. Row(f, f.change, "direct", source, f.claim).change = f.change
        BY DEF Row
      <3>. QED  BY <3>1, <3>2
    <2>3. f \in Correlated(c) <=> f.change = c
      BY <2>1, <2>2, <1>5, CorrelatedFacts DEF R
    <2>. QED  BY <2>3, <1>1, <1>5
  <1>6. ASSUME NEW m \in log, m.kind = "joined", m.change = c
        PROVE  m.rev \in R
    BY <1>6, InClaimedRevisions DEF R
  <1>7. ASSUME NEW e \in log, e.kind = "related", e.change = c
        PROVE  e.succ \in R /\ e.pred \in R
    BY <1>7, InClaimedRevisions DEF R
  <1>8. ASSUME NEW w \in log, NEW m \in log, w.claim = m.claim, m.change = c,
               \/ w.kind = "left" /\ m.kind = "joined"
               \/ w.kind = "unrelated" /\ m.kind = "related"
        PROVE  w \in S
    BY <1>1, <1>8, CorrelatedFacts
  <1>9. ASSUME NEW f \in log, NEW r \in R, Mentions(f, r)
        PROVE  f \in S
    BY <1>1, <1>9, CorrelatedFacts DEF R
  <1>10. ASSUME NEW f \in log, f.kind \in {"revision", "assessed", "requested"}, f.rev \in R
         PROVE  f \in S
    BY <1>2, <1>9, <1>10, MentionsByKind
  <1>11. ASSUME NEW q \in S, q.kind = "requested"
         PROVE  q.rev \in R /\ q \in Correlated(c)
    <2>1. q \in Correlated(c)
      BY <1>1, <1>11
    <2>2. DirectRows(q) = {}
      BY <1>11 DEF DirectRows
    <2>3. PICK r \in R : Mentions(q, r)
      BY <2>1, <2>2, <1>11, CorrelatedFacts DEF R
    <2>. QED  BY <2>1, <2>3, <1>2, <1>11, MentionsByKind
  <1>12. ASSUME NEW p \in log, p.kind = "ported", p.originRev \in R
         PROVE  p \in S
    BY <1>2, <1>9, <1>12, MentionsByKind
  <1>13. ASSUME NEW f \in log, NEW q \in S, f.kind = "responded", q.kind = "requested",
                f.request = q.request
         PROVE  f \in S
    BY <1>1, <1>11, <1>13
  <1>14. Narrows(S, log, c, R)
    BY <1>4, <1>5, <1>6, <1>7, <1>8, <1>10, <1>11, <1>12, <1>13 DEF Narrows
  <1>. QED  BY <1>14 DEF S, R

-----------------------------------------------------------------------------
(* The narrowed fold and the full one, part by part.                       *)

\* Only the Change that was asked for is folded.
LEMMA NarrowedChanges ==
    ASSUME NEW S, NEW F, NEW c, NEW R, Narrows(S, F, c, R)
    PROVE  ChangeIds(S) = {c} \cap ChangeIds(F)
  <1>1. \A G, d : d \in ChangeIds(G) <=>
          \E f \in G : f.kind \in {"declared", "joined", "related"} /\ f.change = d
    BY DEF ChangeIds, Of
  <1>. QED  BY <1>1 DEF Narrows

LEMMA NarrowedClaims ==
    ASSUME NEW S, NEW F, NEW c, NEW R, Narrows(S, F, c, R)
    PROVE  /\ Claimed(S, "declared", c) = Claimed(F, "declared", c)
           /\ Memberships(S, c) = Memberships(F, c)
           /\ Relations(S, c) = Relations(F, c)
           /\ \A m \in Memberships(F, c) : m.rev \in R
           /\ \A e \in Relations(F, c) : e.succ \in R /\ e.pred \in R
  <1>1. \A kind \in {"declared", "joined", "related"} :
          Claimed(S, kind, c) = Claimed(F, kind, c)
    BY DEF Narrows, Claimed, Of
  <1>2. ASSUME NEW m \in Claimed(F, "joined", c)
        PROVE  /\ Withdrawn(S, "left", m.claim) <=> Withdrawn(F, "left", m.claim)
               /\ m.rev \in R
    BY DEF Narrows, Claimed, Withdrawn, Of
  <1>3. ASSUME NEW e \in Claimed(F, "related", c)
        PROVE  /\ Withdrawn(S, "unrelated", e.claim) <=> Withdrawn(F, "unrelated", e.claim)
               /\ e.succ \in R /\ e.pred \in R
    BY DEF Narrows, Claimed, Withdrawn, Of
  <1>. QED  BY <1>1, <1>2, <1>3 DEF Memberships, Relations

\* A Revision a claim of c names has all of its proposals among the rows of c.
LEMMA NarrowedProposals ==
    ASSUME NEW S, NEW F, NEW c, NEW R, Narrows(S, F, c, R), NEW r \in R
    PROVE  /\ Hashes(S, r) = Hashes(F, r)
           /\ r \in Known(S) <=> r \in Known(F)
           /\ Contested(S, r) <=> Contested(F, r)
  <1>1. {g \in Of(S, "revision") : g.rev = r} = {g \in Of(F, "revision") : g.rev = r}
    BY DEF Narrows, Of
  <1>2. Hashes(S, r) = Hashes(F, r)
    BY <1>1 DEF Hashes
  <1>3. r \in Known(S) <=> r \in Known(F)
    BY DEF Narrows, Known, Of
  <1>. QED  BY <1>2, <1>3 DEF Contested

LEMMA NarrowedMembers ==
    ASSUME NEW S, NEW F, NEW c, NEW R, Narrows(S, F, c, R)
    PROVE  /\ Members(S, c) = Members(F, c)
           /\ Members(F, c) \subseteq R
  <1>1. \A m \in Memberships(F, c) : m.rev \in R /\ (m.rev \in Known(S) <=> m.rev \in Known(F))
    BY NarrowedClaims, NarrowedProposals
  <1>2. {n \in Memberships(S, c) : n.rev \in Known(S)}
          = {n \in Memberships(F, c) : n.rev \in Known(F)}
    BY <1>1, NarrowedClaims
  <1>3. Members(S, c) = Members(F, c)
    BY <1>2 DEF Members
  <1>4. Members(F, c) \subseteq R
    BY <1>1 DEF Members
  <1>. QED  BY <1>3, <1>4

LEMMA NarrowedGraph ==
    ASSUME NEW S, NEW F, NEW c, NEW R, Narrows(S, F, c, R)
    PROVE  /\ \A e \in Relations(F, c) : /\ Exact(S, e) <=> Exact(F, e)
                                         /\ EndContested(S, e) <=> EndContested(F, e)
           /\ Supersedes(S, c) = Supersedes(F, c)
           /\ CurrentRevisions(S, c) = CurrentRevisions(F, c)
           /\ CurrentRevisions(F, c) \subseteq R
  <1>1. ASSUME NEW e \in Relations(F, c)
        PROVE  /\ Exact(S, e) <=> Exact(F, e)
               /\ EndContested(S, e) <=> EndContested(F, e)
    <2>1. e.succ \in R /\ e.pred \in R
      BY NarrowedClaims
    <2>. QED  BY <2>1, NarrowedProposals DEF Exact, EndContested
  <1>2. {g \in Relations(S, c) : Exact(S, g) /\ {g.succ, g.pred} \subseteq Members(S, c)}
          = {g \in Relations(F, c) : Exact(F, g) /\ {g.succ, g.pred} \subseteq Members(F, c)}
    BY <1>1, NarrowedClaims, NarrowedMembers
  <1>3. Supersedes(S, c) = Supersedes(F, c)
    BY <1>2 DEF Supersedes
  <1>4. CurrentRevisions(S, c) = CurrentRevisions(F, c)
    BY <1>3, NarrowedMembers DEF CurrentRevisions
  <1>5. CurrentRevisions(F, c) \subseteq R
    BY NarrowedMembers DEF CurrentRevisions
  <1>. QED  BY <1>1, <1>3, <1>4, <1>5

LEMMA NarrowedTopology ==
    ASSUME NEW S, NEW F, NEW c, NEW R, Narrows(S, F, c, R)
    PROVE  /\ Gaps(S, c) = Gaps(F, c)
           /\ Incomplete(S, c) <=> Incomplete(F, c)
           /\ Cyclic(S, c) <=> Cyclic(F, c)
           /\ Divergent(S, c) <=> Divergent(F, c)
           /\ RevisionConflict(S, c) = RevisionConflict(F, c)
           /\ Topology(S, c) = Topology(F, c)
  <1>1. Gaps(S, c) = Gaps(F, c)
    <2>1. (\E m \in Memberships(S, c) : m.rev \notin Known(S))
            = (\E m \in Memberships(F, c) : m.rev \notin Known(F))
      BY NarrowedClaims, NarrowedProposals
    <2>2. (\E e \in Relations(S, c) : ~EndContested(S, e) /\ ~Exact(S, e))
            = (\E e \in Relations(F, c) : ~EndContested(F, e) /\ ~Exact(F, e))
      BY NarrowedClaims, NarrowedGraph
    <2>3. (\E e \in Relations(S, c) : /\ ~EndContested(S, e) /\ Exact(S, e)
                                      /\ ~({e.succ, e.pred} \subseteq Members(S, c)))
            = (\E e \in Relations(F, c) : /\ ~EndContested(F, e) /\ Exact(F, e)
                                          /\ ~({e.succ, e.pred} \subseteq Members(F, c)))
      BY NarrowedClaims, NarrowedGraph, NarrowedMembers
    <2>4. /\ (Claimed(S, "declared", c) = {}) = (Claimed(F, "declared", c) = {})
          /\ (Members(S, c) = {}) = (Members(F, c) = {})
      BY NarrowedClaims, NarrowedMembers
    <2>. QED  BY <2>1, <2>2, <2>3, <2>4, Zenon DEF Gaps
  <1>2. Incomplete(S, c) <=> Incomplete(F, c)
    BY <1>1 DEF Incomplete
  <1>3. Cyclic(S, c) <=> Cyclic(F, c)
    BY NarrowedMembers, NarrowedGraph DEF Cyclic
  <1>4. Divergent(S, c) <=> Divergent(F, c)
    BY <1>3, NarrowedMembers, NarrowedGraph DEF Divergent
  <1>5. RevisionConflict(S, c) = RevisionConflict(F, c)
    BY NarrowedMembers, NarrowedProposals, NarrowedClaims, NarrowedGraph DEF RevisionConflict
  <1>6. Topology(S, c) = Topology(F, c)
    BY <1>2, <1>3, <1>4, NarrowedGraph DEF Topology
  <1>. QED  BY <1>1, <1>2, <1>3, <1>4, <1>5, <1>6

LEMMA NarrowedAssessments ==
    ASSUME NEW S, NEW F, NEW c, NEW R, Narrows(S, F, c, R)
    PROVE  Qualified(S, c) = Qualified(F, c)
  <1>1. ASSUME NEW r \in R
        PROVE  Records(S, r) = Records(F, r)
    <2>1. \A a : a \in Of(S, "assessed") /\ a.rev = r <=> a \in Of(F, "assessed") /\ a.rev = r
      BY DEF Narrows, Of
    <2>. QED  BY <2>1 DEF Records
  <1>2. \A r \in R : HasOneAcceptingAssessment(S, r) <=> HasOneAcceptingAssessment(F, r)
    BY <1>1 DEF HasOneAcceptingAssessment
  <1>. QED  BY <1>2, NarrowedGraph DEF Qualified

\* A request on a member keeps its responses; of the Revisions it was carried
\* to, it keeps those that a claim of c names.
LEMMA NarrowedRequests ==
    ASSUME NEW S, NEW F, NEW c, NEW R, Narrows(S, F, c, R), PortsNameTheirOrigin(F)
    PROVE  /\ \A g : g \in Of(S, "requested") /\ g.rev \in Members(F, c)
                       <=> g \in Of(F, "requested") /\ g.rev \in Members(F, c)
           /\ \A g \in Of(F, "requested") : g.rev \in Members(F, c) =>
                /\ Responses(S, g.request) = Responses(F, g.request)
                /\ CarriedTo(S, g.request) = CarriedTo(F, g.request) \cap R
  <1>1. \A g : g \in Of(S, "requested") <=> g \in Of(F, "requested") /\ g.rev \in R
    BY DEF Narrows, Of
  <1>2. ASSUME NEW g \in Of(F, "requested"), g.rev \in Members(F, c)
        PROVE  Responses(S, g.request) = Responses(F, g.request)
    <2>1. g \in S /\ g.kind = "requested"
      BY <1>1, <1>2, NarrowedMembers DEF Of
    <2>. QED  BY <2>1 DEF Narrows, Responses, Of
  <1>3. ASSUME NEW q, NEW r
        PROVE  Operative(S, q, r) <=> Operative(F, q, r) /\ r \in R
    BY <1>1 DEF Operative
  <1>4. ASSUME NEW g \in Of(F, "requested"), g.rev \in Members(F, c)
        PROVE  CarriedTo(S, g.request) = CarriedTo(F, g.request) \cap R
    <2>1. \A p \in Of(F, "ported") : p.origin = g.request => p \in Of(S, "ported")
      BY <1>4, NarrowedMembers DEF PortsNameTheirOrigin, Narrows, Of
    <2>2. Of(S, "ported") \subseteq Of(F, "ported")
      BY DEF Narrows, Of
    <2>. QED  BY <2>1, <2>2, <1>3 DEF CarriedTo
  <1>. QED  BY <1>1, <1>2, <1>4, NarrowedMembers

LEMMA NarrowedObligations ==
    ASSUME NEW S, NEW F, NEW c, NEW R, Narrows(S, F, c, R), PortsNameTheirOrigin(F)
    PROVE  /\ Ambiguous(S, c) = Ambiguous(F, c)
           /\ Obligations(S, c) \subseteq Obligations(F, c)
           /\ \A q \in Obligations(F, c) \ Obligations(S, c) :
                /\ \E g \in Of(F, "requested") : q = g.request
                /\ ~(CarriedTo(F, q) \subseteq R)
  <1>. DEFINE Open(G, d, q) ==
                \/ \E x, y \in Responses(G, q) : x # y
                \/ Responses(G, q) = {} /\ CarriedTo(G, q) # CurrentRevisions(G, d)
  <1>1. \A G, d, q : q \in Obligations(G, d) <=>
          \E g \in Of(G, "requested") : g.rev \in Members(G, d) /\ Open(G, d, q) /\ q = g.request
    BY DEF Obligations
  <1>2. Members(S, c) = Members(F, c)
    BY NarrowedMembers
  <1>3. ASSUME NEW g \in Of(F, "requested"), g.rev \in Members(F, c), Open(S, c, g.request)
        PROVE  Open(F, c, g.request)
    <2>1. /\ Responses(S, g.request) = Responses(F, g.request)
          /\ CarriedTo(S, g.request) = CarriedTo(F, g.request) \cap R
      BY <1>3, NarrowedRequests
    <2>2. CurrentRevisions(S, c) = CurrentRevisions(F, c) /\ CurrentRevisions(F, c) \subseteq R
      BY NarrowedGraph
    <2>3. CASE \E x, y \in Responses(S, g.request) : x # y
      BY <2>1, <2>3
    <2>4. CASE Responses(S, g.request) = {} /\ CarriedTo(S, g.request) # CurrentRevisions(S, c)
      <3>1. CarriedTo(F, g.request) # CurrentRevisions(F, c)
        BY <2>1, <2>2, <2>4
      <3>. QED  BY <3>1, <2>1, <2>4
    <2>. QED  BY <1>3, <2>3, <2>4
  <1>4. ASSUME NEW g \in Of(F, "requested"), g.rev \in Members(F, c),
               Open(F, c, g.request), ~Open(S, c, g.request)
        PROVE  ~(CarriedTo(F, g.request) \subseteq R)
    BY <1>4, NarrowedRequests, NarrowedGraph
  <1>5. Ambiguous(S, c) = Ambiguous(F, c)
    <2>1. \A g : g \in Of(S, "requested") /\ g.rev \in Members(S, c)
                   <=> g \in Of(F, "requested") /\ g.rev \in Members(F, c)
      BY <1>2, NarrowedRequests
    <2>2. \A g \in Of(F, "requested") : g.rev \in Members(F, c) =>
            Responses(S, g.request) = Responses(F, g.request)
      BY NarrowedRequests
    <2>. QED  BY <2>1, <2>2 DEF Ambiguous
  <1>. HIDE DEF Open
  <1>. QED  BY <1>1, <1>2, <1>3, <1>4, <1>5, NarrowedRequests

-----------------------------------------------------------------------------
(* The seek.                                                               *)

\* The narrowed view against the full one.
LEMMA NarrowedView ==
    ASSUME NEW S, NEW F, NEW c, NEW R, Narrows(S, F, c, R), PortsNameTheirOrigin(F)
    PROVE  LET mine == View(S, c)
               full == View(F, c)
           IN  /\ mine.members = full.members /\ mine.current = full.current
               /\ mine.supersedes = full.supersedes /\ mine.topology = full.topology
               /\ mine.qualified = full.qualified /\ mine.diagnostics = full.diagnostics
               /\ mine.obligations = Obligations(S, c)
               /\ full.obligations = Obligations(F, c)
               /\ mine.obligations = full.obligations => mine.lifecycle = full.lifecycle
  <1>. DEFINE parts(G) == <<Gaps(G, c), RevisionConflict(G, c), Ambiguous(G, c)>>
  <1>1. /\ Members(S, c) = Members(F, c)
        /\ CurrentRevisions(S, c) = CurrentRevisions(F, c)
        /\ Supersedes(S, c) = Supersedes(F, c)
        /\ Topology(S, c) = Topology(F, c)
        /\ Qualified(S, c) = Qualified(F, c)
    BY NarrowedMembers, NarrowedGraph, NarrowedTopology, NarrowedAssessments
  <1>2. parts(S) = parts(F)
    <2>1. /\ Gaps(S, c) = Gaps(F, c)
          /\ RevisionConflict(S, c) = RevisionConflict(F, c)
          /\ Ambiguous(S, c) = Ambiguous(F, c)
      BY NarrowedTopology, NarrowedObligations
    <2>. QED  BY <2>1, Zenon
  <1>3. \A G : View(G, c) =
          [members |-> Members(G, c), current |-> CurrentRevisions(G, c),
           supersedes |-> Supersedes(G, c), topology |-> Topology(G, c),
           lifecycle |-> Lifecycle(G, c), qualified |-> Qualified(G, c),
           obligations |-> Obligations(G, c), diagnostics |-> parts(G)]
    BY Zenon DEF View
  <1>. HIDE DEF parts
  <1>4. Obligations(S, c) = Obligations(F, c) => Lifecycle(S, c) = Lifecycle(F, c)
    BY <1>1, NarrowedTopology DEF Lifecycle
  <1>. QED  BY <1>1, <1>2, <1>3, <1>4

\* The facts applied are facts of the store, and what ShowChange answered is what
\* the tables say until the next delta.
ShownIsCurrent ==
    /\ history \in Histories
    /\ log \subseteq history.stored \cup history.recorded
    /\ answer.kind = "change" =>
         /\ answer.outcome = SeekOutcome(Selected(answer.change), answer.change)
         /\ answer.view = View(Selected(answer.change), answer.change)

\* `change show` and the list agree on every Change but for the obligations a
\* port to a Revision outside the Change keeps open: the seek never folds another
\* Change, and never reports an obligation the full fold does not.
THEOREM SeekAgreesWithFold == Spec => []SeekAgrees
  <1>1. Init => ShownIsCurrent
    BY DEF Init, NoAnswer, ShownIsCurrent
  <1>2. ShownIsCurrent /\ [Next]_vars => ShownIsCurrent'
    <2>. SUFFICES ASSUME ShownIsCurrent, [Next]_vars PROVE ShownIsCurrent'
      OBVIOUS
    <2>1. ASSUME NEW batch, batch \subseteq history.stored \cup history.recorded,
                 ApplyDelta(batch)
          PROVE  ShownIsCurrent'
      BY <2>1 DEF ApplyDelta, NoAnswer, ShownIsCurrent
    <2>2. CASE Populate
      BY <2>1, <2>2 DEF Populate
    <2>3. CASE CatchUp
      <3>1. PICK batch \in SUBSET (history.recorded \ log) : ApplyDelta(batch)
        BY <2>3 DEF CatchUp
      <3>. QED  BY <3>1, <2>1
    <2>4. ASSUME NEW c \in Changes, ShowChange(c)
          PROVE  ShownIsCurrent'
      BY <2>4 DEF ShowChange, ShownIsCurrent, Selected, Correlated
    <2>5. CASE ReadThreads
      BY <2>5 DEF ReadThreads, ShownIsCurrent
    <2>6. CASE UNCHANGED vars
      BY <2>6 DEF vars, ShownIsCurrent, Selected, Correlated
    <2>. QED  BY <2>2, <2>3, <2>4, <2>5, <2>6 DEF Next
  <1>3. IndexIsExact /\ ShownIsCurrent => SeekAgrees
    <2>. SUFFICES ASSUME IndexIsExact, ShownIsCurrent, answer.kind = "change"
                  PROVE  SeekAgrees
      BY DEF SeekAgrees
    <2>. DEFINE c == answer.change
                S == Selected(c)
                R == ClaimedRevisions(c)
    <2>1. PortsNameTheirOrigin(log) /\ ClaimsNameRevisions(log)
      BY HistoryAssumption DEF ShownIsCurrent, PortsNameTheirOrigin, ClaimsNameRevisions, Of
    <2>2. Narrows(S, log, c, R)
      BY <2>1, SelectedNarrows DEF IndexIsExact
    <2>. HIDE DEF c, S, R
    <2>3. ChangeIds(S) = {c} \cap ChangeIds(log)
      BY <2>2, NarrowedChanges
    <2>4. answer.outcome = SeekOutcome(S, c) /\ answer.view = View(S, c)
      BY DEF ShownIsCurrent, c, S
    <2>5. Obligations(S, c) \subseteq Obligations(log, c)
      BY <2>1, <2>2, NarrowedObligations
    <2>6. Obligations(log, c) \ Obligations(S, c) \subseteq CarriedAway(c)
      BY <2>1, <2>2, NarrowedObligations DEF CarriedAway, R
    <2>7. LET mine == View(S, c)
              full == View(log, c)
          IN  /\ mine.members = full.members /\ mine.current = full.current
              /\ mine.supersedes = full.supersedes /\ mine.topology = full.topology
              /\ mine.qualified = full.qualified /\ mine.diagnostics = full.diagnostics
              /\ mine.obligations = Obligations(S, c)
              /\ full.obligations = Obligations(log, c)
              /\ mine.obligations = full.obligations => mine.lifecycle = full.lifecycle
      BY <2>1, <2>2, NarrowedView
    <2>8. CASE c \notin ChangeIds(log)
      <3>1. answer.outcome \in {"unavailable", "invalid"}
        BY <2>3, <2>4, <2>8 DEF SeekOutcome
      <3>. QED  BY <3>1, <2>8 DEF SeekAgrees, c
    <2>9. CASE c \in ChangeIds(log)
      <3>1. answer.outcome = "ready"
        BY <2>3, <2>4, <2>9 DEF SeekOutcome
      <3>. QED  BY <3>1, <2>4, <2>5, <2>6, <2>7, <2>9 DEF SeekAgrees, c
    <2>. QED  BY <2>8, <2>9
  <1>. QED  BY <1>1, <1>2, <1>3, IndexExact, PTL DEF Spec
=============================================================================

---------------------------- MODULE MCChangeIndex ----------------------------
(***************************************************************************)
(* Four stores' worth of facts for TLC, applied in every order.            *)
(***************************************************************************)
EXTENDS ChangeIndex

CONSTANTS A, B, o, a, b

proposal(e, r, h, older) ==
    [kind |-> "revision", event |-> e, rev |-> r, hash |-> h, supersedes |-> older]
declaration(e, k, c, root) ==
    [kind |-> "declared", event |-> e, claim |-> k, change |-> c, root |-> root]
membership(e, k, c, r) ==
    [kind |-> "joined", event |-> e, claim |-> k, change |-> c, rev |-> r]
leaving(e, k) == [kind |-> "left", event |-> e, claim |-> k]
relation(e, k, c, s, p) ==
    [kind |-> "related", event |-> e, claim |-> k, change |-> c,
     succ |-> s, succHash |-> "h", pred |-> p, predHash |-> "h"]
unrelation(e, k) == [kind |-> "unrelated", event |-> e, claim |-> k]
linking(e, k) == [kind |-> "linked", event |-> e, claim |-> k, left |-> A, right |-> B]
assessment(e, r, id, yes, olds) ==
    [kind |-> "assessed", event |-> e, rev |-> r, id |-> id, accepting |-> yes, replaces |-> olds]
request(e, q, r) == [kind |-> "requested", event |-> e, request |-> q, rev |-> r]
response(e, q, r) == [kind |-> "responded", event |-> e, request |-> q, rev |-> r]
port(e, k, q, r, q2, r2, c) ==
    [kind |-> "ported", event |-> e, port |-> k, origin |-> q, originRev |-> r, originHash |-> "h",
     target |-> q2, targetRev |-> r2, targetHash |-> "h", context |-> c]

store(before, after) == [stored |-> before, recorded |-> after]

\* A replaces o by a; the claim and the relation are withdrawn; a is proposed
\* twice, with two artifacts.
WithdrawnEarly ==
    store({},
     {declaration(1, "d1", A, o), proposal(2, o, "h", {}), proposal(3, a, "h", {o}),
      proposal(4, a, "g", {}), membership(5, "m1", A, o), membership(6, "m2", A, a),
      leaving(7, "m1"), relation(8, "e1", A, a, o), unrelation(9, "e1"),
      assessment(10, a, "s1", TRUE, {}), linking(11, "l1")})

\* Two Changes read the history of the three Revisions in crossed orders: in A
\* b replaces o, which replaces a; in B b replaces a, which replaces o.
Crossing ==
    store({proposal(1, o, "h", {}), proposal(2, a, "h", {}), proposal(3, b, "h", {}),
           declaration(4, "d1", A, None), declaration(5, "d2", B, None)},
     {membership(6, "m1", A, o), membership(7, "m2", A, a), membership(8, "m3", A, b),
      membership(9, "m4", B, o), membership(10, "m5", B, a), membership(11, "m6", B, b),
      relation(12, "e1", A, o, a), relation(13, "e2", A, b, o),
      relation(14, "e3", B, a, o), relation(15, "e4", B, b, a)})

\* A request on o is carried open to a and answered there or where it was asked;
\* a is assessed twice, the second time in place of the first; a second relation
\* claim makes the Change cyclic.
Answering ==
    store({proposal(1, o, "h", {}), proposal(2, a, "h", {}), declaration(3, "d1", A, None)},
     {membership(4, "m1", A, o), membership(5, "m2", A, a), relation(6, "e1", A, a, o),
      request(7, "q", o), request(8, "qa", a), port(9, "p1", "q", o, "qa", a, A),
      response(10, "qa", None), response(11, "qa", b), relation(12, "e2", A, o, a),
      assessment(13, a, "s1", FALSE, {}), assessment(14, a, "s2", TRUE, {"s1"})})

\* A and B share o, and each carries its request to its own head.
Sharing ==
    store({proposal(1, o, "h", {}), proposal(2, a, "h", {}), proposal(3, b, "h", {}),
           declaration(4, "d1", A, None), assessment(5, a, "s1", TRUE, {})},
     {membership(6, "m1", A, o), membership(7, "m2", A, a), relation(8, "e1", A, a, o),
      membership(9, "m3", B, o), membership(10, "m4", B, b),
      request(11, "q", o), request(12, "qa", a), request(13, "qb", b),
      port(14, "p1", "q", o, "qa", a, A), port(15, "p2", "q", o, "qb", b, B),
      response(16, "qa", a)})

\* The cycle test of a Change's graph agrees with reachability on every graph
\* over three Revisions.
ASSUME CycleReference ==
    \A E \in SUBSET ({o, a, b} \X {o, a, b}) :
        HasCycle(E, {o, a, b}) <=> \E r \in {o, a, b} : r \in Ancestors(E, {o, a, b}, r)

MCHistories == {WithdrawnEarly, Crossing, Answering, Sharing}
=============================================================================

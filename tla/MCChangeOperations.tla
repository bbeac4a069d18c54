------------------------- MODULE MCChangeOperations -------------------------
(***************************************************************************)
(* Stores and the calls on them, for TLC.                                  *)
(***************************************************************************)
EXTENDS ChangeOperations

CONSTANTS c, d, a, b

\* What earlier operations left: c with the members S.
Holding(S) ==
    {Declared("old", c)} \cup {Proposal(r) : r \in S}
      \cup {[Joined("old", c, r) EXCEPT !.event = Key("old", "membership", r),
                                        !.claim = Key("old", "membership", r)] : r \in S}

Relate(o, s, p) == [op |-> o, kind |-> "relate", change |-> c, succ |-> s, pred |-> p]

\* b replaces a while another call relates the two the other way round.
Crossing ==
    [log |-> Holding({a}),
     commands |-> {[op |-> "x", kind |-> "replace", change |-> c, also |-> {}],
                   Relate("y", a, b)}]

\* One operation id with two requests, and the withdrawal of what it asserts.
Correcting ==
    [log |-> Holding({a, b}),
     commands |-> {Relate("y", a, b), Relate("y", b, a),
                   [op |-> "u", kind |-> "unrelate", claim |-> Key("y", "relation", b)],
                   Relate("z", b, a)}]

\* The worktree is taken back to a, which b has replaced; a leaves and rejoins.
Recapturing ==
    [log |-> Holding({a, b}) \cup {Related("old", c, b, a)},
     commands |-> {[op |-> "x", kind |-> "replace", change |-> c, also |-> {}],
                   [op |-> "l", kind |-> "leave", claim |-> Key("old", "membership", a)],
                   [op |-> "j", kind |-> "join", change |-> c, rev |-> a]}]

\* Two Changes are founded, linked and advanced in parallel.
Founding ==
    [log |-> {},
     commands |-> {[op |-> "k", kind |-> "create", change |-> d],
                   [op |-> "i", kind |-> "initial", change |-> c],
                   [op |-> "n", kind |-> "link", change |-> c, other |-> d]}]

Growing ==
    [log |-> Holding({a}),
     commands |-> {[op |-> "q", kind |-> "parallel", change |-> c]}]

MCScenarios == {Crossing, Correcting, Recapturing, Founding, Growing}
=============================================================================

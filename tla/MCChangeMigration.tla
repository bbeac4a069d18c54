------------------------- MODULE MCChangeMigration -------------------------
(***************************************************************************)
(* ChangeMigration for TLC: two captures, one native Change record,        *)
(* records in retired encodings where older versions wrote, and what a     *)
(* peer may forward: captures only, or a Change record too.                *)
(***************************************************************************)
EXTENDS ChangeMigration

CONSTANTS p1, p2, c1, x1, y1

NothingOld == {{}}
OldRecords == {{}, {<<"oldtype", x1>>, <<"oldform", y1>>}}

ForwardedCaptures == {<<"product", p2>>}
ForwardedChanges == {<<"product", p2>>, <<"change", c1>>, <<"adoption", p1>>}
=============================================================================

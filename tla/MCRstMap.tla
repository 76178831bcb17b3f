------------------------------ MODULE MCRstMap ------------------------------
(***************************************************************************)
(* RstMap with three keys: the array grows for the second pair and again   *)
(* for the third.                                                          *)
(***************************************************************************)
EXTENDS RstMap

NullCell == [is |-> "null"]
ThreeKeys == {1, 2, 3}
=============================================================================

------------------------- MODULE MCClientRegistry -------------------------
(***************************************************************************)
(* ClientRegistry with three clients, one more than the arrays start with, *)
(* and the listening socket in the middle of the descriptors.              *)
(***************************************************************************)
EXTENDS ClientRegistry

ThreeSockets == {3, 5, 6}
=============================================================================

--------------------------- MODULE MCGarbagePool ---------------------------
(***************************************************************************)
(* GarbagePool with blocks of zero to two bytes and short tables.          *)
(***************************************************************************)
EXTENDS GarbagePool

SmallSizes == {0, 1, 2}
TwoBytes == {1, 2}
OneByte == {1}
=============================================================================

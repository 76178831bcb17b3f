---------------------------- MODULE MCTcpServer ----------------------------
(***************************************************************************)
(* Small instances of TcpServer for TLC.  Two client descriptors, one on   *)
(* either side of the listening one, and more connections than descriptors *)
(* so that a descriptor is used again.                                     *)
(***************************************************************************)
EXTENDS TcpServer

OneSocket == {4}
TwoSockets == {2, 4}
=============================================================================

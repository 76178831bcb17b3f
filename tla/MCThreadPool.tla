---------------------------- MODULE MCThreadPool ----------------------------
(***************************************************************************)
(* ThreadPool with one or two initial threads and an identity for every    *)
(* thread that add_work can create.                                        *)
(***************************************************************************)
EXTENDS ThreadPool

CONSTANTS t1, t2, t3, t4

FourThreads == {t1, t2, t3, t4}
OneInit == {t1}
TwoInit == {t1, t2}
=============================================================================

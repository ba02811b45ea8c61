----------------------------- MODULE MCFileService -----------------------------
(***************************************************************************)
(* A file that is written twice while two threads serve it.                 *)
(***************************************************************************)
EXTENDS FileServiceProperties

CONSTANTS t1, t2
TwoThreads == {t1, t2}
Around     == {-1, 0}
=============================================================================

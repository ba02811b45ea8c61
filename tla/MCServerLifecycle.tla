--------------------------- MODULE MCServerLifecycle ---------------------------
(***************************************************************************)
(* A server with a pool of three threads and two requests.                 *)
(***************************************************************************)
EXTENDS ServerLifecycleProperties

CONSTANTS t1, t2, r1, r2
TwoThreads  == {t1, t2}
TwoRequests == {r1, r2}
=============================================================================

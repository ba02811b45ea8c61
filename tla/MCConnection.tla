----------------------------- MODULE MCConnection -----------------------------
(***************************************************************************)
(* Small instances of Connection: bodies of no chunk up to one more than   *)
(* the server accepts.                                                     *)
(***************************************************************************)
EXTENDS ConnectionProperties

UpTo3 == 0 .. 3
UpTo4 == 0 .. 4
Sizes == {0, 1}
NoSize == {}
=============================================================================

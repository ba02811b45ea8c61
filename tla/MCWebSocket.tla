------------------------------ MODULE MCWebSocket ------------------------------
(***************************************************************************)
(* A websocket with three messages.                                        *)
(***************************************************************************)
EXTENDS WebSocketProperties

CONSTANTS m1, m2, m3
ThreeMessages == {m1, m2, m3}
=============================================================================

------------------------------- MODULE Exchange -------------------------------
(***************************************************************************)
(* What a server promises about one HTTP request, whatever its stages do:  *)
(* somebody undertakes to answer, once, and the client gets one answer,    *)
(* which nothing changes afterwards; the promise of the request is         *)
(* fulfilled at most once, and only when the answer was given or somebody  *)
(* undertook to give it; a request is released when it was answered, or    *)
(* releasing it undertakes to.                                             *)
(***************************************************************************)
EXTENDS Naturals

CONSTANTS
    Codes,      \* status codes
    NoCode      \* no status code, not one of Codes

VARIABLES
    undertaken, \* whether somebody undertook to answer
    answer,     \* the status code the client got
    promise,    \* the status code the promise was fulfilled with
    released    \* whether the server forgot the request

exchange == <<undertaken, answer, promise, released>>

Init == undertaken = FALSE /\ answer = NoCode /\ promise = NoCode /\ released = FALSE

Undertake ==
    /\ ~undertaken /\ ~released
    /\ undertaken' = TRUE
    /\ UNCHANGED <<answer, promise, released>>

Answer ==
    /\ undertaken /\ answer = NoCode
    /\ answer' \in Codes
    /\ UNCHANGED <<undertaken, promise, released>>

Fulfil ==
    /\ undertaken /\ promise = NoCode /\ ~released
    /\ promise' \in Codes
    /\ UNCHANGED <<undertaken, answer, released>>

\* Nobody who undertook to answer is left behind; if nobody did, the release does.
Release ==
    /\ ~released
    /\ undertaken => answer # NoCode
    /\ released' = TRUE
    /\ undertaken' = TRUE
    /\ UNCHANGED <<answer, promise>>

Next == Undertake \/ Answer \/ Fulfil \/ Release

Spec == Init /\ [][Next]_exchange
=============================================================================

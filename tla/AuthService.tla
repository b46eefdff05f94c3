---------------------------- MODULE AuthService ----------------------------
(***************************************************************************)
(* What user authentication promises, whatever the messages: the server    *)
(* takes one decision, in favour of a credential its application           *)
(* authorises; the caller is told of success only after it; and nothing of *)
(* the connection protocol is served before it.                            *)
(***************************************************************************)
CONSTANTS
  Authorised,  \* the requests the application authorises
  NoDecision

VARIABLES
  decided,  \* the request that was granted
  told,     \* what the caller was last told: nothing, failure or success
  served    \* the server serves the connection protocol

vars == <<decided, told, served>>

Init == decided = NoDecision /\ told = "nothing" /\ served = FALSE

Grant ==
  /\ decided = NoDecision /\ decided' \in Authorised
  /\ UNCHANGED <<told, served>>

(* A refusal may be told at any time, also late, and a success only once. *)
Tell ==
  /\ told # "success"
  /\ \/ told' = "failure"
     \/ told' = "success" /\ decided # NoDecision
  /\ UNCHANGED <<decided, served>>

Serve ==
  /\ decided # NoDecision /\ served' = TRUE
  /\ UNCHANGED <<decided, told>>

Next == Grant \/ Tell \/ Serve
Spec == Init /\ [][Next]_vars
=============================================================================

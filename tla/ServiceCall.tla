---------------------------- MODULE ServiceCall ----------------------------
(***************************************************************************)
(* What a caller of a system service may count on, whatever carries the    *)
(* command: the service is asked, answers with the status of that very     *)
(* call, and returns; nothing else happens to the call.                    *)
(***************************************************************************)
CONSTANTS Services, None

VARIABLES
  call,   \* the service being called, or None
  status  \* the status it has been given: "none" yet, or that of its "own" answer

vars == <<call, status>>

Init == call = None /\ status = "none"

Ask == /\ call = None
       /\ call' \in Services
       /\ status' = "none"

Reply == /\ call # None /\ status = "none"
         /\ status' = "own"
         /\ UNCHANGED call

Return == /\ status # "none"
          /\ call' = None /\ status' = "none"

Next == Ask \/ Reply \/ Return

\* A service that was asked replies and returns.
Spec == Init /\ [][Next]_vars /\ WF_vars(Reply) /\ WF_vars(Return)
=============================================================================

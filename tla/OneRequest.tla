------------------------------ MODULE OneRequest ------------------------------
(***************************************************************************)
(* What a user may conclude from how a network command ended.              *)
(*                                                                         *)
(* A command asks the server to do one thing.  It is done at most once; a  *)
(* command that succeeded has done it; a command that was refused has not  *)
(* done it and never will; after any other failure it may have been done,  *)
(* or may be done later, and the user cannot tell.                         *)
(***************************************************************************)

VARIABLES effect,     \* has the server done it?
          outcome     \* what the user knows

Outcomes == {"running", "success", "refused", "unknown"}

Init == effect = FALSE /\ outcome = "running"

Do ==
    /\ ~effect
    /\ outcome \in {"running", "unknown"}
    /\ effect' = TRUE
    /\ UNCHANGED outcome

End ==
    /\ outcome = "running"
    /\ \/ effect /\ outcome' = "success"
       \/ ~effect /\ outcome' = "refused"
       \/ outcome' = "unknown"
    /\ UNCHANGED effect

Next == Do \/ End

Spec == Init /\ [][Next]_<<effect, outcome>>
=============================================================================

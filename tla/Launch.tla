------------------------------- MODULE Launch -------------------------------
(***************************************************************************)
(* What a launch through the loader promises: the program starts once,     *)
(* either untouched or with the whole x87 stub in place, or it is killed   *)
(* before it starts.  It never starts half patched.                        *)
(***************************************************************************)
VARIABLE outcome

Outcomes == {"stock", "accelerated", "killed"}
Init == outcome = "waiting"
Settle == outcome = "waiting" /\ outcome' \in Outcomes
Spec == Init /\ [][Settle]_outcome /\ WF_outcome(Settle)
=============================================================================

-------------------------------- MODULE Trial --------------------------------
(***************************************************************************)
(* What a fuzz trial promises the campaign, abstractly: it ends once, in   *)
(* one of its outcomes, and as cancelled only when the user did cancel.    *)
(* The campaign takes the outcome before the next trial.  FuzzTrial.tla    *)
(* implements it.                                                          *)
(***************************************************************************)
CONSTANTS
  Outcomes,    \* the ways a trial can end
  Pending      \* no outcome yet

VARIABLES
  outcome,     \* what RunQemuTrial returned, with the record behind it
  cancelled    \* the context of the run was cancelled

trialVars == <<outcome, cancelled>>

Init == outcome = Pending /\ cancelled = FALSE

Cancel == ~cancelled /\ cancelled' = TRUE /\ UNCHANGED outcome

Finish ==
  /\ outcome = Pending
  /\ outcome' \in Outcomes
  /\ outcome'.status = "cancelled" => cancelled
  /\ UNCHANGED cancelled

Take == outcome # Pending /\ outcome' = Pending /\ UNCHANGED cancelled

Next == Cancel \/ Finish \/ Take

Spec == Init /\ [][Next]_trialVars
=============================================================================

----------------------------- MODULE MCE2EEngine -----------------------------
(***************************************************************************)
(* Faults for E2EEngine.tla: a different one for each iteration, and what  *)
(* an earlier session wrote of one of its own: nothing, half of it, or all.*)
(***************************************************************************)
EXTENDS E2EResults

MCChoice(iteration) == [target |-> 1 + (iteration % 2), value |-> iteration]

MCFormerWords == {NoFault, [target |-> 0, value |-> 9], [target |-> 2, value |-> 9]}
=============================================================================

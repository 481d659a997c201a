---------------------------- MODULE MCFuzzEngine ----------------------------
(***************************************************************************)
(* Records for FuzzEngine.tla: a silent corruption by the fault, and a     *)
(* right output that no fault reached.                                     *)
(***************************************************************************)
EXTENDS FuzzEngine

MCRecord(output, injected) ==
  [harness_done |-> 1, harness_detected |-> 0, harness_corrected |-> 0,
   harness_safe_state |-> 0, harness_output |-> output, harness_expected |-> 1,
   injected |-> injected, instruction_budget_exhausted |-> 0,
   window_insns_total |-> 3]

MCRecords == {MCRecord(0, 1), MCRecord(1, 0)}
=============================================================================

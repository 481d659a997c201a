------------------------------ MODULE Baseline ------------------------------
(***************************************************************************)
(* The unprotected workflow image, harness/e2e/c/baseline_harness.c, under *)
(* the campaigns its host drives it with: the control of the experiment.   *)
(***************************************************************************)
EXTENDS Workload

VARIABLES
  campaign,     \* what the host was started with
  iteration,    \* harness_iteration
  pc,           \* where the main loop is
  fault,        \* the fault written by the host at the injection point
  last_value,   \* harness_last_value
  outcome,      \* harness_last_outcome
  passed        \* whether validate counted a pass

vars == <<campaign, iteration, pc, fault, last_value, outcome, passed>>

Init ==
  /\ campaign \in Campaigns
  /\ iteration = 0
  /\ pc = "top"
  /\ fault = Fault("none", 0)
  /\ last_value = 0
  /\ outcome = "CORRECT" /\ passed = TRUE

(* The loop's head, up to the injection point, where the host writes the   *)
(* fault it chose for this iteration.                                      *)
Begin ==
  /\ pc = "top" /\ iteration < MaxIteration
  /\ iteration' = iteration + 1
  /\ last_value' = 0 /\ outcome' = "CORRECT"
  /\ fault' = ChooseWorkflowFault(campaign, iteration')
  /\ pc' = "run"
  /\ UNCHANGED <<campaign, passed>>

Input ==
  IF fault.target \in {"copy_a", "all_distinct"}
  THEN fault.value ELSE SampleInput(iteration)

ChecksumFaultIgnored(output) ==
  IF fault.target \in {"primary_value", "active_value"} THEN fault.value
  ELSE output

(* The primary and the commit faults hit the same unprotected output. *)
Corrupted(output) ==
  CASE fault.target \in {"primary_value", "active_value"}       -> fault.value
    [] fault.target \in {"primary_checksum", "active_checksum"} -> FlipBit(output)
    [] OTHER                                                    -> output

RunWorkflow ==
  /\ pc = "run"
  /\ last_value' = IF fault.target \in {"control_phase", "control_signature"}
                   THEN 0 ELSE Corrupted(ExpectedValue(Input))
  /\ pc' = "classify"
  /\ UNCHANGED <<campaign, iteration, fault, outcome, passed>>

Classify ==
  /\ pc = "classify"
  /\ outcome' = IF last_value = ExpectedValue(SampleInput(iteration))
                THEN "CORRECT" ELSE "SDC"
  /\ passed' = IF fault.target = "none" THEN outcome' = "CORRECT"
                                        ELSE outcome' # "SDC"
  /\ pc' = "top"
  /\ UNCHANGED <<campaign, iteration, fault, last_value>>

Next == Begin \/ RunWorkflow \/ Classify

Spec == Init /\ [][Next]_vars

-----------------------------------------------------------------------------
Classified == pc = "top" /\ iteration > 0

(* A clean iteration passes and without protection every injected fault    *)
(* becomes silent corruption, with one exception: a corrupted input that   *)
(* has the remainder of the true one computes the true output.             *)
FaultsComeThrough ==
  Classified =>
    (passed <=> \/ fault.target = "none"
                \/ /\ fault.target \in {"copy_a", "all_distinct"}
                   /\ fault.value % 700 = SampleInput(iteration) % 700)

(* harness/README.md on the workflow images: "`baseline` therefore fails   *)
(* every fault it is given".                                               *)
FailsEveryFault == (Classified /\ fault.target # "none") => ~passed
=============================================================================

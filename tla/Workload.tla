------------------------------ MODULE Workload ------------------------------
(***************************************************************************)
(* What the two workflow images of src/harness/e2e and their host share:   *)
(* the input of an iteration, the value expected of it, and the campaigns  *)
(* that choose the fault to inject.                                        *)
(***************************************************************************)
EXTENDS Naturals, Sequences

CONSTANTS
  AllOnes,       \* stands for 0xFFFFFFFF: its remainder, beyond every range
  MaxIteration   \* bound: iterations of one campaign

ASSUME WorkloadAssumption ==
  /\ AllOnes \in Nat /\ AllOnes % 700 = 395 /\ AllOnes > 1000
  /\ MaxIteration \in Nat \ {0}

(* sample_input and recovery_block_sample_primary_value *)
SampleInput(iteration) == 100 + ((iteration * 41) % 700)

ExpectedValue(sample) == 100 + ((((sample % 700) * 37) + 17) % 700)

(* x ^ 0x10 *)
FlipBit(x) == IF (x \div 16) % 2 = 0 THEN x + 16 ELSE x - 16

Fault(target, value) == [target |-> target, value |-> value]

(* workflowCampaigns, one representative fault per technique and bit 4, or *)
(* a whole word, of each place it can hit.                                 *)
WorkflowCampaigns ==
  [name \in {"none", "workflow-clean-run", "workflow-tmr-single",
             "workflow-tmr-distinct", "workflow-checkpoint-value",
             "workflow-checkpoint-checksum", "workflow-recovery-value",
             "workflow-recovery-checksum", "workflow-control-phase",
             "workflow-control-signature"} |->
     CASE name \in {"none", "workflow-clean-run"} -> Fault("none", 0)
       [] name = "workflow-tmr-single"            -> Fault("copy_a", AllOnes)
       [] name = "workflow-tmr-distinct"          -> Fault("all_distinct", AllOnes)
       [] name = "workflow-checkpoint-value"      -> Fault("active_value", AllOnes)
       [] name = "workflow-checkpoint-checksum"   -> Fault("active_checksum", 16)
       [] name = "workflow-recovery-value"        -> Fault("primary_value", AllOnes)
       [] name = "workflow-recovery-checksum"     -> Fault("primary_checksum", 16)
       [] name = "workflow-control-phase"         -> Fault("control_phase", 4)
       [] name = "workflow-control-signature"     -> Fault("control_signature", 16)]

WorkflowMixedOrder ==
  <<"none", "workflow-tmr-single", "workflow-tmr-distinct",
    "workflow-checkpoint-value", "workflow-checkpoint-checksum",
    "workflow-recovery-value", "workflow-recovery-checksum",
    "workflow-control-phase", "workflow-control-signature">>

(* Those the table lacks rotate. *)
Campaigns == DOMAIN WorkflowCampaigns \union {"mixed", "workflow-mixed-faults"}

(* chooseWorkflowFault *)
ChooseWorkflowFault(campaign, iteration) ==
  IF campaign \in DOMAIN WorkflowCampaigns
  THEN WorkflowCampaigns[campaign]
  ELSE WorkflowCampaigns[
         WorkflowMixedOrder[((iteration - 1) % Len(WorkflowMixedOrder)) + 1]]
=============================================================================

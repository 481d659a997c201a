------------------------------ MODULE Resolve -------------------------------
(***************************************************************************)
(* From what a user asks for to an e2e run: internal/run/resolve.go with   *)
(* the lists and the matrix of internal/e2e/campaigns.go.  Only whether a  *)
(* request resolves is kept, not the wording of its refusal.               *)
(***************************************************************************)
EXTENDS Naturals, SequencesExt

CONSTANT MaxRunCount    \* the largest count that resolves, 1,000,000

Techniques ==
  <<"tmr", "checkpoint", "recovery-block", "control-flow", "combined", "baseline">>

Languages == <<"c", "zig">>

Targets == <<"m4", "rv32">>

CheckpointSampleChoices ==
  <<"checkpoint-clean-run", "checkpoint-active-value-fault",
    "checkpoint-active-length-fault", "checkpoint-active-checksum-fault",
    "checkpoint-saved-checksum-fault", "checkpoint-double-fault",
    "checkpoint-mixed-faults">>

RecoveryBlockChoices ==
  <<"recovery-clean-primary", "recovery-primary-range", "recovery-primary-checksum",
    "recovery-alternate-checksum", "recovery-restore-failure", "recovery-mixed-faults">>

ControlFlowChoices ==
  <<"control-clean-path", "control-phase-corrupt", "control-signature-corrupt",
    "control-skip-compute", "control-repeat-read", "control-early-terminal",
    "control-mixed-faults">>

WorkflowChoices ==
  <<"workflow-clean-run", "workflow-tmr-single", "workflow-tmr-distinct",
    "workflow-checkpoint-value", "workflow-checkpoint-checksum",
    "workflow-recovery-value", "workflow-recovery-checksum",
    "workflow-control-phase", "workflow-control-signature", "workflow-mixed-faults">>

TmrChoices == <<"single-a", "all-distinct">>

CampaignChoices ==
  <<"mixed", "none">> \o TmrChoices \o CheckpointSampleChoices
    \o RecoveryBlockChoices \o ControlFlowChoices \o WorkflowChoices

(* What the form offers. *)
CampaignsForTechnique(technique) ==
  <<"mixed", "none">> \o
    CASE technique = "tmr"                         -> TmrChoices
      [] technique = "checkpoint"                  -> CheckpointSampleChoices
      [] technique = "recovery-block"              -> RecoveryBlockChoices
      [] technique = "control-flow"                -> ControlFlowChoices
      [] technique \in {"combined", "baseline"}    -> WorkflowChoices

(* The matrix: what every technique refuses; mixed and none are in no      *)
(* family.                                                                 *)
ValidateTechniqueCampaign(technique, campaign) ==
  LET inTmr == campaign \in ToSet(TmrChoices)
      inCheckpoint == campaign \in ToSet(CheckpointSampleChoices)
      inRecovery == campaign \in ToSet(RecoveryBlockChoices)
      inControl == campaign \in ToSet(ControlFlowChoices)
      inWorkflow == campaign \in ToSet(WorkflowChoices)
  IN  ~ CASE technique = "tmr" ->
               inCheckpoint \/ inRecovery \/ inControl \/ inWorkflow
          [] technique = "checkpoint" ->
               inTmr \/ inRecovery \/ inControl \/ inWorkflow
          [] technique = "recovery-block" ->
               inTmr \/ inCheckpoint \/ inControl \/ inWorkflow
          [] technique = "control-flow" ->
               inTmr \/ inCheckpoint \/ inRecovery \/ inWorkflow
          [] technique \in {"combined", "baseline"} ->
               inTmr \/ inCheckpoint \/ inRecovery \/ inControl

(* An unset count, 0, is the count of config.toml. *)
RunCount(asked, default) == IF asked = 0 THEN default ELSE asked

CountResolves(count) == count > 0 /\ count <= MaxRunCount

CommonResolves(asked) ==
  /\ asked.technique \in ToSet(Techniques)
  /\ asked.language \in ToSet(Languages)
  /\ asked.target \in ToSet(Targets)

(* The campaign an empty one stands for. *)
CampaignOr(campaign, default) == IF campaign = "" THEN default ELSE campaign

(* The image of that technique, language and target is taken to be built.  *)
ResolveE2E(asked, default) ==
  LET campaign == CampaignOr(asked.campaign, "mixed")
  IN  /\ CommonResolves(asked)
      /\ campaign \in ToSet(CampaignChoices)
      /\ ValidateTechniqueCampaign(asked.technique, campaign)
      /\ CountResolves(RunCount(asked.count, default.count))
=============================================================================

---------------------------- MODULE FuzzWorkflow ----------------------------
(***************************************************************************)
(* The single-shot workflow images, harness/fuzz/c/combined_fuzz_harness.c *)
(* and baseline_fuzz_harness.c: run_workflow around the calls of           *)
(* FuzzState.tla, and what is published of it.                             *)
(***************************************************************************)
EXTENDS FuzzState

Detect == [facts EXCEPT !.detected = 1]

Stop == [facts EXCEPT !.detected = 1, !.safe_state = 1]

(* The phase a transition leaves, and what is done behind it. *)
Phase ==
  [start |-> 0, compute |-> 1, validate |-> 2, commit |-> 3, leave |-> 4, finish |-> 5]

Behind ==
  [start |-> "vote", compute |-> "capture", validate |-> "commit", commit |-> "check",
   leave |-> "finish"]

CombinedStep(at) == Step({"combined"}, at) /\ UNCHANGED <<elected, value, op>>

(* guard: a transition that fails stops the workflow. *)
Advance ==
  /\ pc \in DOMAIN Behind /\ CombinedStep(pc)
  /\ IF Allowed(Phase[pc])
     THEN monitor' = Monitor(Phase[pc] + 1) /\ pc' = Behind[pc] /\ UNCHANGED facts
     ELSE facts' = Stop /\ pc' = "publish" /\ UNCHANGED monitor
  /\ UNCHANGED <<triplet, sample, record, status>>

(* The elected copy, and whether any vote had to mask one. *)
TakeSample ==
  /\ CombinedStep("load") /\ pc' = "compute"
  /\ sample' = triplet[elected]
  /\ facts' = IF triplet.fault_count # 0 THEN Detect ELSE facts
  /\ UNCHANGED <<triplet, record, status, monitor>>

Recovered ==
  /\ CombinedStep("recovered")
  /\ pc' = IF status \in {"PRIMARY_ACCEPTED", "ALTERNATE_ACCEPTED"} THEN "validate"
           ELSE "publish"
  /\ facts' = CASE status = "PRIMARY_ACCEPTED"   -> facts
                [] status = "ALTERNATE_ACCEPTED" -> Detect
                [] OTHER                         -> Stop
  /\ UNCHANGED <<triplet, sample, record, status, monitor>>

Restarted ==
  /\ CombinedStep("restarted")
  /\ pc' = IF status = "RESTORE_FAILED" THEN "publish" ELSE "leave"
  /\ facts' = CASE status = "COMMITTED" -> facts
                [] status = "RESTORED"  -> Detect
                [] OTHER                -> Stop
  /\ UNCHANGED <<triplet, sample, record, status, monitor>>

(* control_flow_monitor_finish, whose guard only adds to the facts. *)
FinishRun ==
  /\ CombinedStep("finish") /\ pc' = "publish"
  /\ facts' = IF Allowed(Phase[pc]) THEN facts ELSE Stop
  /\ UNCHANGED <<triplet, sample, record, status, monitor>>

-----------------------------------------------------------------------------
(* The baseline: a read and a computation. *)

BaselineStep(at) ==
  Step({"baseline"}, at)
  /\ UNCHANGED <<triplet, elected, value, op, status, monitor, facts>>

Read ==
  /\ BaselineStep("start") /\ pc' = "compute"
  /\ sample' = triplet.a /\ UNCHANGED record

Compute ==
  /\ BaselineStep("compute") /\ pc' = "publish"
  /\ record' = [record EXCEPT !.active.value = PrimaryValue(sample)] /\ UNCHANGED sample

-----------------------------------------------------------------------------
(* harness_main, after the window is closed; the baseline never detects.   *)

PublishUnconditionally ==
  /\ Step({"combined", "baseline"}, "publish") /\ pc' = "done"
  /\ facts' = [facts EXCEPT !.output = record.active.value, !.corrected = facts.detected]
  /\ UNCHANGED <<triplet, elected, sample, value, record, op, status, monitor>>

Publish ==
  /\ Step({"combined", "baseline"}, "publish") /\ pc' = "done"
  /\ facts' = [facts EXCEPT
       !.output = record.active.value,
       !.corrected = IF facts.detected = 1 /\ record.active.value = expected THEN 1 ELSE 0]
  /\ UNCHANGED <<triplet, elected, sample, value, record, op, status, monitor>>

RunWorkflow ==
  \/ Advance \/ TakeSample \/ Recovered \/ Restarted \/ FinishRun
  \/ Read \/ Compute \/ Publish
=============================================================================

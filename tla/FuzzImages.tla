----------------------------- MODULE FuzzImages -----------------------------
(***************************************************************************)
(* The single-shot images around one technique each,                       *)
(* harness/fuzz/c/{tmr,checkpoint,recovery_block,control_flow}_fuzz_       *)
(* harness.c: what they do around the calls of FuzzState.tla, and what     *)
(* they publish of them.                                                   *)
(***************************************************************************)
EXTENDS FuzzState

Flag01(condition) == IF condition THEN 1 ELSE 0

(* tmr *)
TakeValue ==
  /\ Step({"tmr"}, "load") /\ pc' = "publish"
  /\ value' = triplet[elected]
  /\ UNCHANGED <<triplet, elected, sample, record, op, status, monitor, facts>>

PublishRead ==
  /\ Step({"tmr"}, "publish") /\ pc' = "done"
  /\ facts' = [facts EXCEPT
       !.output = value,
       !.detected = Flag01(triplet.fault_count # 0),
       !.corrected = Flag01(triplet.fault_count # 0 /\ value = expected)]
  /\ UNCHANGED <<triplet, elected, sample, value, record, op, status, monitor>>

(* checkpoint: the status alone, as a commit reports no failed check.      *)
PublishRestart ==
  LET detected == status # "COMMITTED"
      right    == record.active.value = expected
  IN  /\ Step({"checkpoint"}, "restarted") /\ pc' = "done"
      /\ facts' = [output     |-> record.active.value,
                   detected   |-> Flag01(detected),
                   corrected  |-> Flag01(detected /\ right),
                   safe_state |-> Flag01(detected /\ ~right)]
      /\ UNCHANGED <<triplet, elected, sample, value, record, op, status, monitor>>

(* recovery-block: an accepted primary reports no failed check either.     *)
PublishBlock ==
  LET detected == status # "PRIMARY_ACCEPTED"
      right    == record.active.value = expected
      failed   == status \in {"UNRECOVERABLE", "CHECKPOINT_FAILED", "RESTORE_FAILED"}
  IN  /\ Step({"recovery-block"}, "recovered") /\ pc' = "done"
      /\ facts' = [output     |-> record.active.value,
                   detected   |-> Flag01(detected),
                   corrected  |-> Flag01(detected /\ right),
                   safe_state |-> Flag01(failed)]
      /\ UNCHANGED <<triplet, elected, sample, value, record, op, status, monitor>>

-----------------------------------------------------------------------------
(* control-flow: a transition out of each phase, what is done behind it,   *)
(* and finish.                                                             *)
Moves ==
  [start |-> 0, compute |-> 1, validate |-> 2, commit |-> 3, leave |-> 4, finish |-> 5]

Following ==
  [start |-> "compute", compute |-> "validate", validate |-> "commit",
   commit |-> "leave", leave |-> "finish", finish |-> "publish"]

Move ==
  /\ pc \in DOMAIN Moves /\ Step({"control-flow"}, pc)
  /\ IF Allowed(Moves[pc])
     THEN /\ monitor' = IF pc = "finish" THEN monitor ELSE Monitor(Moves[pc] + 1)
          /\ value' = IF pc = "compute" THEN sample + 7 ELSE value
          /\ facts' = IF pc = "commit" THEN [facts EXCEPT !.output = value] ELSE facts
          /\ pc' = Following[pc]
     ELSE /\ facts' = [facts EXCEPT !.detected = 1,
                         !.safe_state = IF pc \in {"leave", "finish"} THEN @ ELSE 1]
          /\ pc' = "publish" /\ UNCHANGED <<value, monitor>>
  /\ UNCHANGED <<triplet, elected, sample, record, op, status>>

PublishMoves ==
  /\ Step({"control-flow"}, "publish") /\ pc' = "done"
  /\ facts' = [facts EXCEPT
       !.corrected = Flag01(facts.detected = 1 /\ facts.output = expected)]
  /\ UNCHANGED <<triplet, elected, sample, value, record, op, status, monitor>>

RunTechnique ==
  \/ TakeValue \/ PublishRead \/ PublishRestart \/ PublishBlock \/ Move \/ PublishMoves
=============================================================================

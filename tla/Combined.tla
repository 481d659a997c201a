------------------------------ MODULE Combined ------------------------------
(***************************************************************************)
(* The protected workflow image, harness/e2e/c/combined_harness.c: a voted *)
(* input, a recovery block, the validation gate and the checkpoint commit, *)
(* all under the control-flow monitor, driven by its host's campaigns.     *)
(*                                                                         *)
(* One action per phase of run_workflow, the fault of the iteration applied*)
(* at its place inside it.  A checksum is kept as the fact that it matches *)
(* (CheckerProofs.tla: one changed word never goes unnoticed) and a        *)
(* signature as the phase it belongs to; Checkpoint, RecoveryBlock, Tmr    *)
(* and ControlFlow open the techniques and time the faults freely.         *)
(***************************************************************************)
EXTENDS Workload, Integers

VARIABLES
  campaign,    \* what the host was started with
  iteration,   \* harness_iteration
  pc,          \* the phase of the main loop that is next
  fault,       \* the fault written by the host at the injection point
  triplet,     \* harness_combined_tmr
  voted,       \* the value the vote settled on
  record,      \* harness_combined_record
  monitor,     \* the control-flow monitor on run_workflow's stack
  last,        \* the harness_last_* facts classify_outcome folds
  passed,      \* whether validate counted a pass
  committed    \* history: the commit step stored or kept a record

NoSignature == -1       \* matches no phase

Copy(value, sealed) == [value |-> value, sealed |-> sealed]

Triplet(a, b, c, count) == [a |-> a, b |-> b, c |-> c, fault_count |-> count]

Monitor(phase) == [phase |-> phase, signature |-> phase]

NoFacts(value) ==
  [value |-> value, outcome |-> "CORRECT", tmr |-> "OK",
   recovery |-> "PRIMARY_ACCEPTED", restart |-> "COMMITTED", control |-> "OK"]

Double(active, checkpoint) == [active |-> active, checkpoint |-> checkpoint]

Init ==
  /\ campaign \in Campaigns
  /\ iteration = 0 /\ pc = "top"
  /\ fault = Fault("none", 0)
  /\ triplet = Triplet(0, 0, 0, 0) /\ voted = 0
  /\ record = Double(Copy(0, FALSE), Copy(0, FALSE))
  /\ monitor = Monitor(0)
  /\ last = NoFacts(0)
  /\ passed = TRUE /\ committed = FALSE

Begin ==
  /\ pc = "top" /\ iteration < MaxIteration
  /\ iteration' = iteration + 1
  /\ LET input == SampleInput(iteration')
     IN  /\ triplet' = Triplet(input, input, input, 0)
         /\ record' = Double(Copy(input, TRUE), Copy(input, TRUE))
  /\ last' = NoFacts(0)
  /\ fault' = ChooseWorkflowFault(campaign, iteration')
  /\ monitor' = Monitor(0)
  /\ voted' = 0 /\ committed' = FALSE
  /\ pc' = "read"
  /\ UNCHANGED <<campaign, passed>>

-----------------------------------------------------------------------------
(* The control-flow monitor *)

Advance(m, from) ==
  CASE m.phase # from                          -> "INVALID_TRANSITION"
    [] m.phase = from /\ m.signature # from    -> "BAD_SIGNATURE"
    [] OTHER                                   -> "OK"

HitMonitor(m) ==
  CASE fault.target = "control_phase"     -> [m EXCEPT !.phase = fault.value]
    [] fault.target = "control_signature" -> [m EXCEPT !.signature = NoSignature]
    [] OTHER                              -> m

(* The triplet *)

HitTriplet(t) ==
  CASE fault.target = "copy_a"       -> [t EXCEPT !.a = fault.value]
    [] fault.target = "all_distinct" ->
         Triplet(fault.value, fault.value - 1, fault.value - 2, t.fault_count)
    [] OTHER                         -> t

NoMajority(t) == t.a # t.b /\ t.a # t.c /\ t.b # t.c

VoteFirstCopy(t) == t.a

Vote(t) == IF t.a \in {t.b, t.c} THEN t.a ELSE t.b

CountedVote(t) ==
  IF t.a = t.b /\ t.b = t.c THEN t
  ELSE [t EXCEPT !.fault_count = @ + 1]

(* The record: a changed word no longer matches the checksum. *)

Valid(copy) == copy.sealed /\ copy.value \in 0 .. 1000

HitCopy(copy, valueTarget, checksumTarget) ==
  CASE fault.target = valueTarget    -> Copy(fault.value, fault.value = copy.value)
    [] fault.target = checksumTarget -> [copy EXCEPT !.sealed = ~@]
    [] OTHER                         -> copy

(* recovery_block_run_with_hooks with apply_after_primary_fault: the       *)
(* status and the double record it leaves.  The hooks never touch the      *)
(* checkpoint, so a rollback to what the call captured always passes.      *)
Accept(status, r) ==
  [status |-> status,
   record |-> IF Valid(r.active) THEN Double(r.active, r.active) ELSE r]

RunAlternate(checkpoint) ==
  LET alternate == Copy(ExpectedValue(voted), TRUE)
  IN  IF Valid(alternate)
      THEN Accept("ALTERNATE_ACCEPTED", Double(alternate, checkpoint))
      ELSE [status |-> "UNRECOVERABLE", record |-> Double(checkpoint, checkpoint)]

RunRecoveryBlock(r) ==
  LET saved   == r.active
      primary == HitCopy(Copy(ExpectedValue(voted), TRUE),
                         "primary_value", "primary_checksum")
  IN  IF ~Valid(r.active) THEN [status |-> "CHECKPOINT_FAILED", record |-> r]
      ELSE IF Valid(primary)
           THEN Accept("PRIMARY_ACCEPTED", Double(primary, saved))
           ELSE RunAlternate(saved)

(* checkpoint_record_commit_or_restart *)
CommitAnyway(r) == [status |-> "COMMITTED", record |-> Double(r.active, r.active)]

CommitOrRestart(r) ==
  CASE Valid(r.active) ->
         [status |-> "COMMITTED", record |-> Double(r.active, r.active)]
    [] ~Valid(r.active) /\ Valid(r.checkpoint) ->
         [status |-> "RESTORED", record |-> Double(r.checkpoint, r.checkpoint)]
    [] OTHER -> [status |-> "RESTORE_FAILED", record |-> r]

-----------------------------------------------------------------------------
(* start -> read_input, which a fresh monitor always allows, the control   *)
(* and triplet faults, the vote.                                           *)
ReadInput ==
  LET hitTriplet == HitTriplet(triplet)
  IN  /\ pc = "read"
      /\ monitor' = HitMonitor(Monitor(1))
      /\ triplet' = CountedVote(hitTriplet)
      /\ IF NoMajority(hitTriplet)
         THEN /\ last' = [last EXCEPT !.tmr = "NO_MAJORITY"]
              /\ pc' = "classify" /\ UNCHANGED voted
         ELSE /\ voted' = Vote(hitTriplet)
              /\ pc' = "compute" /\ UNCHANGED last
      /\ UNCHANGED <<campaign, iteration, fault, record, passed, committed>>

(* read_input -> compute, the recovery block over the voted sample.        *)
Compute ==
  LET control == Advance(monitor, 1)
      run     == RunRecoveryBlock(record)
      ok      == run.status \in {"PRIMARY_ACCEPTED", "ALTERNATE_ACCEPTED"}
  IN  /\ pc = "compute"
      /\ IF control # "OK"
         THEN /\ last' = [last EXCEPT !.control = control]
              /\ pc' = "classify" /\ UNCHANGED <<monitor, record>>
         ELSE /\ monitor' = Monitor(2)
              /\ record' = run.record
              /\ last' = [last EXCEPT
                            !.recovery = run.status,
                            !.value = IF ok THEN @ ELSE run.record.active.value]
              /\ pc' = IF ok THEN "validate" ELSE "classify"
      /\ UNCHANGED <<campaign, iteration, fault, triplet, voted, passed, committed>>

ValidateOnce ==
  /\ pc = "validate"
  /\ monitor' = Monitor(3) /\ pc' = "commit"
  /\ UNCHANGED <<campaign, iteration, fault, triplet, voted, record, last,
                 passed, committed>>

(* compute -> validate -> commit.  What the validation gate finds is only  *)
(* recorded for the host; the commit validates again.                      *)
Validate ==
  LET first  == Advance(monitor, 2)
      second == Advance(Monitor(3), 3)
  IN  /\ pc = "validate"
      /\ IF first = "OK" /\ second = "OK"
         THEN monitor' = Monitor(4) /\ pc' = "commit" /\ UNCHANGED last
         ELSE /\ last' = [last EXCEPT !.control = IF first # "OK" THEN first ELSE second]
              /\ monitor' = IF first # "OK" THEN monitor ELSE Monitor(3)
              /\ pc' = "classify"
      /\ UNCHANGED <<campaign, iteration, fault, triplet, voted, record, passed,
                     committed>>

(* The commit fault, commit-or-restart, commit -> done, and finish, which  *)
(* looks at the very words the transition has just stored.                 *)
Commit ==
  LET commit  == CommitOrRestart(
                   [record EXCEPT !.active =
                      HitCopy(@, "active_value", "active_checksum")])
      control == Advance(monitor, 4)
      stopped == commit.status = "RESTORE_FAILED"
  IN  /\ pc = "commit"
      /\ record' = commit.record
      /\ committed' = ~stopped
      /\ last' = [last EXCEPT !.restart = commit.status,
                              !.value = commit.record.active.value,
                              !.control = IF stopped THEN @ ELSE control]
      /\ monitor' = IF stopped \/ control # "OK" THEN monitor ELSE Monitor(5)
      /\ pc' = "classify"
      /\ UNCHANGED <<campaign, iteration, fault, triplet, voted, passed>>

(* classify_outcome and validate, in the main loop.                        *)
Corrected ==
  \/ last.recovery = "ALTERNATE_ACCEPTED"
  \/ last.restart = "RESTORED"
  \/ triplet.fault_count # 0

Stopped ==
  \/ last.control # "OK"
  \/ last.tmr # "OK"
  \/ last.restart = "RESTORE_FAILED"
  \/ last.recovery \notin {"PRIMARY_ACCEPTED", "ALTERNATE_ACCEPTED"}

Outcome ==
  CASE Stopped -> "SAFE_STOP"
    [] ~Stopped /\ last.value # ExpectedValue(SampleInput(iteration)) -> "SDC"
    [] OTHER -> IF Corrected THEN "RECOVERED" ELSE "CORRECT"

Classify ==
  /\ pc = "classify"
  /\ last' = [last EXCEPT !.outcome = Outcome]
  /\ passed' = IF fault.target = "none" THEN Outcome = "CORRECT"
                                        ELSE Outcome # "SDC"
  /\ pc' = "top"
  /\ UNCHANGED <<campaign, iteration, fault, triplet, voted, record, monitor,
                 committed>>

Next == Begin \/ ReadInput \/ Compute \/ Validate \/ Commit \/ Classify

-----------------------------------------------------------------------------
Classified == pc = "top" /\ iteration > 0

(* Every campaign fault is absorbed or stops the run: no iteration of any  *)
(* campaign commits a wrong value, in memory or in what is reported.       *)
NoSilentCorruption ==
  Classified =>
    /\ passed /\ last.outcome # "SDC"
    /\ committed => /\ record.active = Copy(ExpectedValue(SampleInput(iteration)), TRUE)
                    /\ record.checkpoint = record.active

(* A safe stop is one before the commit (harness/README.md, "the workflow  *)
(* halted before commit"), and what is left in memory is still valid.      *)
SafeStopKeepsRecord ==
  (Classified /\ last.outcome = "SAFE_STOP") =>
    ~committed /\ Valid(record.active) /\ Valid(record.checkpoint)

(* Which technique answers which fault: a single copy is outvoted, a bad   *)
(* result is replaced by the alternate, a bad commit falls back on what    *)
(* the recovery block captured, and only lost inputs and lost control stop.*)
EachFaultHasItsAnswer ==
  Classified =>
    CASE fault.target = "none" -> last.outcome = "CORRECT"
      [] fault.target = "copy_a" ->
           last.outcome = "RECOVERED" /\ triplet.fault_count = 1
      [] fault.target \in {"primary_value", "primary_checksum"} ->
           last.outcome = "RECOVERED" /\ last.recovery = "ALTERNATE_ACCEPTED"
      [] fault.target \in {"active_value", "active_checksum"} ->
           last.outcome = "RECOVERED" /\ last.restart = "RESTORED"
      [] OTHER -> last.outcome = "SAFE_STOP"
=============================================================================

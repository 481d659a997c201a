--------------------------- MODULE TechniqueImages ---------------------------
(***************************************************************************)
(* The four images of src/harness/e2e/c around one technique each, under   *)
(* the campaigns their host chooses faults from (internal/e2e/campaigns.go *)
(* and fault.go).  The loop is the same in all four: a new state, a stop   *)
(* at the injection point where the host writes a fault, the technique     *)
(* with the fault applied at its place, and validate, which counts a pass  *)
(* when the facts are those the image expects of the fault.                *)
(*                                                                         *)
(* The expectation of a fault is written down three times, in the host's   *)
(* table, in the image's hooks and in its validate, and nothing but a      *)
(* whole campaign compares them.  A record is kept as its value, its       *)
(* length and the fact that its checksum matches, a signature as the phase *)
(* it belongs to, and a pattern as the number of its iteration.            *)
(***************************************************************************)
EXTENDS Integers, Sequences

CONSTANTS
  AllOnes,       \* stands for 0xFFFFFFFF: odd, and beyond every value
  MaxIteration   \* bound: iterations of one campaign

VARIABLES
  technique,     \* which of the four images
  campaign,      \* what the host was started with
  iteration,     \* harness_iteration
  pc,            \* where the main loop is
  request,       \* harness_fault_target and harness_fault_value
  state,         \* what the technique works on
  last,          \* the harness_last_* facts
  passes,        \* harness_passes
  failures,      \* harness_failures
  injected       \* history: the fault targets of the campaign so far

Techniques == {"tmr", "checkpoint", "recovery-block", "control-flow"}

-----------------------------------------------------------------------------
(* The host's tables *)

Fault(target, value) == [target |-> target, value |-> value]

NoFault == Fault("none", 0)

TmrCampaigns(expected) ==
  [name \in {"none", "single-a", "all-distinct"} |->
     CASE name = "none"         -> NoFault
       [] name = "single-a"     -> Fault("copy_a", AllOnes - expected)
       [] name = "all-distinct" -> Fault("all_distinct", expected + 1)]

TmrMixedOrder == <<"none", "single-a", "all-distinct">>

CheckpointCampaigns ==
  [name \in {"none", "checkpoint-clean-run", "checkpoint-active-value-fault",
             "checkpoint-active-length-fault", "checkpoint-active-checksum-fault",
             "checkpoint-saved-checksum-fault", "checkpoint-double-fault"} |->
     CASE name \in {"none", "checkpoint-clean-run"} -> NoFault
       [] name = "checkpoint-active-value-fault"    -> Fault("active_value", AllOnes)
       [] name = "checkpoint-active-length-fault"   -> Fault("active_length", AllOnes)
       [] name = "checkpoint-active-checksum-fault" -> Fault("active_checksum", 16)
       [] name = "checkpoint-saved-checksum-fault"  -> Fault("checkpoint_checksum", 16)
       [] name = "checkpoint-double-fault" ->
            Fault("active_value_and_checkpoint_checksum", AllOnes)]

CheckpointMixedOrder ==
  <<"none", "checkpoint-active-value-fault", "checkpoint-active-length-fault",
    "checkpoint-active-checksum-fault", "checkpoint-saved-checksum-fault",
    "checkpoint-double-fault">>

RecoveryBlockCampaigns ==
  [name \in {"none", "recovery-clean-primary", "recovery-primary-range",
             "recovery-primary-checksum", "recovery-alternate-checksum",
             "recovery-restore-failure"} |->
     CASE name \in {"none", "recovery-clean-primary"} -> NoFault
       [] name = "recovery-primary-range"    -> Fault("primary_value", AllOnes)
       [] name = "recovery-primary-checksum" -> Fault("primary_checksum", 16)
       [] name = "recovery-alternate-checksum" ->
            Fault("primary_value_and_alternate_checksum", AllOnes)
       [] name = "recovery-restore-failure" ->
            Fault("primary_value_and_checkpoint_checksum", AllOnes)]

RecoveryBlockMixedOrder ==
  <<"none", "recovery-primary-range", "recovery-primary-checksum",
    "recovery-alternate-checksum", "recovery-restore-failure">>

ControlFlowCampaigns ==
  [name \in {"none", "control-clean-path", "control-phase-corrupt",
             "control-signature-corrupt", "control-skip-compute",
             "control-repeat-read", "control-early-terminal"} |->
     CASE name \in {"none", "control-clean-path"} -> NoFault
       [] name = "control-phase-corrupt"     -> Fault("control_phase", 4)
       [] name = "control-signature-corrupt" -> Fault("control_signature", 16)
       [] name = "control-skip-compute"      -> Fault("control_skip_compute", 0)
       [] name = "control-repeat-read"       -> Fault("control_repeat_read", 0)
       [] name = "control-early-terminal"    -> Fault("control_early_terminal", 0)]

ControlFlowMixedOrder ==
  <<"none", "control-phase-corrupt", "control-signature-corrupt",
    "control-skip-compute", "control-repeat-read", "control-early-terminal">>

MixedOrder(t) ==
  CASE t = "tmr"            -> TmrMixedOrder
    [] t = "checkpoint"     -> CheckpointMixedOrder
    [] t = "recovery-block" -> RecoveryBlockMixedOrder
    [] t = "control-flow"   -> ControlFlowMixedOrder

Table(t, expected) ==
  CASE t = "tmr"            -> TmrCampaigns(expected)
    [] t = "checkpoint"     -> CheckpointCampaigns
    [] t = "recovery-block" -> RecoveryBlockCampaigns
    [] t = "control-flow"   -> ControlFlowCampaigns

(* chooseTMRFault and its three sisters: a name that is in no table, mixed *)
(* or not, rotates.                                                        *)
ChooseFault(t, name, i, expected) ==
  LET table == Table(t, expected)
      order == MixedOrder(t)
  IN  IF name \in DOMAIN table THEN table[name]
      ELSE table[order[((i - 1) % Len(order)) + 1]]

-----------------------------------------------------------------------------
(* The inputs of an iteration *)

InitialValue(t, i) ==
  CASE t = "checkpoint"     -> 100 + ((i * 37) % 700)
    [] t = "recovery-block" -> 100 + ((i * 29) % 700)
    [] t = "control-flow"   -> 100 + ((i * 41) % 900)
    [] t = "tmr"            -> i

Expected(t, i) ==
  CASE t = "checkpoint"     -> 100 + ((i * 53 + 211) % 700)
    [] t = "recovery-block" -> 100 + ((((i % 700) * 37) + 17) % 700)
    [] t = "control-flow"   -> InitialValue(t, i) + 7
    [] t = "tmr"            -> i

-----------------------------------------------------------------------------
(* The techniques, opened in Tmr, Checkpoint, RecoveryBlock, ControlFlow   *)

Copy(value) == [value |-> value, length |-> 6, sealed |-> TRUE]

Check(copy) ==
  CASE copy.value > 1000 -> "ABOVE_MAX"
    [] copy.value <= 1000 /\ copy.length > 16 -> "INVALID_LENGTH"
    [] copy.value <= 1000 /\ copy.length <= 16 ->
         IF copy.sealed THEN "OK" ELSE "INVALID_CHECKSUM"

Double(active, checkpoint) == [active |-> active, checkpoint |-> checkpoint]

HitValue(copy, value) ==
  [copy EXCEPT !.value = value, !.sealed = @ /\ value = copy.value]

HitChecksum(copy) == [copy EXCEPT !.sealed = FALSE]

Monitor(phase) == [phase |-> phase, signature |-> phase]

NoSignature == -1

(* The legs of run_control_flow a fault leaves on the path, and whether    *)
(* the program then claims to be finished.                                 *)
ControlPath(target) ==
  CASE target = "control_repeat_read"    -> <<<<0, 1>>, <<0, 1>>>>
    [] target = "control_skip_compute"   -> <<<<0, 1>>, <<2, 3>>>>
    [] target = "control_early_terminal" -> <<<<0, 1>>, <<1, 2>>>>
    [] OTHER -> <<<<0, 1>>, <<1, 2>>, <<2, 3>>, <<3, 4>>, <<4, 5>>>>

Finishes(target) ==
  target \notin {"control_repeat_read", "control_skip_compute"}

(* control_flow_monitor_validate_current and finish *)
ValidateCurrent(monitor, phase) ==
  CASE monitor.phase # phase -> "INVALID_TRANSITION"
    [] monitor.phase = phase /\ monitor.signature # phase -> "BAD_SIGNATURE"
    [] OTHER -> "OK"

Finish(monitor) ==
  CASE monitor.phase # 5 -> "UNEXPECTED_TERMINAL"
    [] monitor.phase = 5 /\ monitor.signature # 5 -> "BAD_SIGNATURE"
    [] OTHER -> "OK"

-----------------------------------------------------------------------------
FreshState(t, i) ==
  CASE t = "tmr"            -> [a |-> i, b |-> i, c |-> i]
    [] t = "checkpoint"     -> Double(Copy(Expected(t, i)), Copy(InitialValue(t, i)))
    [] t = "recovery-block" -> Double(Copy(InitialValue(t, i)), Copy(InitialValue(t, i)))
    [] t = "control-flow"   -> [monitor |-> Monitor(0), legs |-> 0, computed |-> 0]

FreshFacts(t) ==
  CASE t = "tmr" -> [target |-> "none", value |-> 0, status |-> "OK"]
    [] t = "checkpoint" ->
         [target |-> "none", value |-> 0, status |-> "COMMITTED",
          active |-> "OK", checkpoint |-> "OK"]
    [] t = "recovery-block" ->
         [target |-> "none", value |-> 0, status |-> "PRIMARY_ACCEPTED",
          checkpoint |-> "OK", primary |-> "OK", restore |-> "OK", alternate |-> "OK"]
    [] t = "control-flow" ->
         [target |-> "none", value |-> 0, status |-> "OK", control |-> "OK",
          terminal |-> "OK", phase |-> 0]

(* E2EImages.tla chooses the technique and its campaign.                   *)
Init ==
  /\ iteration = 0 /\ pc = "top"
  /\ request = NoFault
  /\ state = FreshState(technique, 0)
  /\ last = FreshFacts(technique)
  /\ passes = 0 /\ failures = 0 /\ injected = {}

(* The top of the loop, to the injection point.  The checkpoint image has  *)
(* captured the initial value and stored the new one by then.              *)
BeginKeepsFacts ==
  /\ pc = "top" /\ iteration < MaxIteration
  /\ iteration' = iteration + 1
  /\ state' = FreshState(technique, iteration')
  /\ pc' = "inject"
  /\ UNCHANGED <<technique, campaign, request, last, passes, failures, injected>>

Begin ==
  /\ pc = "top" /\ iteration < MaxIteration
  /\ iteration' = iteration + 1
  /\ state' = FreshState(technique, iteration')
  /\ last' = FreshFacts(technique)
  /\ pc' = "inject"
  /\ UNCHANGED <<technique, campaign, request, passes, failures, injected>>

(* runIteration: the host has read the iteration and, for tmr, the value   *)
(* expected; it writes both words in any case.  The image keeps the target *)
(* as soon as it goes on.                                                  *)
Inject ==
  /\ pc = "inject"
  /\ request' = ChooseFault(technique, campaign, iteration,
                            Expected(technique, iteration))
  /\ injected' = injected \cup {request'.target}
  /\ last' = [last EXCEPT !.target = request'.target]
  /\ pc' = "run"
  /\ UNCHANGED <<technique, campaign, iteration, state, passes, failures>>

RunTmr ==
  LET hit == CASE request.target = "copy_a" -> [state EXCEPT !.a = request.value]
               [] request.target = "all_distinct" ->
                    [a |-> request.value, b |-> request.value + 1, c |-> request.value + 2]
               [] OTHER -> state
      majority == hit.a \in {hit.b, hit.c} \/ hit.b = hit.c
  IN  /\ pc = "run" /\ technique = "tmr"
      /\ state' = hit
      /\ last' = [last EXCEPT
                    !.status = IF majority THEN "OK" ELSE "NO_MAJORITY",
                    !.value = IF majority
                              THEN IF hit.a \in {hit.b, hit.c} THEN hit.a ELSE hit.b
                              ELSE @]
      /\ pc' = "validate"
      /\ UNCHANGED <<technique, campaign, iteration, request, passes, failures, injected>>

(* apply_pending_fault on the double record *)
HitRecord(r) ==
  CASE request.target = "active_value" ->
         [r EXCEPT !.active = HitValue(@, request.value)]
    [] request.target = "active_length" ->
         [r EXCEPT !.active = [@ EXCEPT !.length = request.value, !.sealed = FALSE]]
    [] request.target = "active_checksum" -> [r EXCEPT !.active = HitChecksum(@)]
    [] request.target = "checkpoint_checksum" -> [r EXCEPT !.checkpoint = HitChecksum(@)]
    [] request.target = "active_value_and_checkpoint_checksum" ->
         Double(HitValue(r.active, request.value), HitChecksum(r.checkpoint))
    [] OTHER -> r

CommitOrRestart(hit) ==
  CASE Check(hit.active) = "OK" ->
         [status |-> "COMMITTED", record |-> Double(hit.active, hit.active),
          checkpoint |-> "OK"]
    [] Check(hit.active) # "OK" /\ Check(hit.checkpoint) = "OK" ->
         [status |-> "RESTORED", record |-> Double(hit.checkpoint, hit.checkpoint),
          checkpoint |-> "OK"]
    [] OTHER ->
         [status |-> "RESTORE_FAILED", record |-> hit,
          checkpoint |-> Check(hit.checkpoint)]

RunCheckpoint ==
  LET hit    == HitRecord(state)
      commit == CommitOrRestart(hit)
  IN  /\ pc = "run" /\ technique = "checkpoint"
      /\ state' = commit.record
      /\ last' = [last EXCEPT !.status = commit.status,
                              !.active = Check(hit.active),
                              !.checkpoint = commit.checkpoint,
                              !.value = commit.record.active.value]
      /\ pc' = "validate"
      /\ UNCHANGED <<technique, campaign, iteration, request, passes, failures, injected>>

(* recovery_block_run_with_hooks with the two hooks of the image.          *)
AfterPrimary(r) ==
  CASE request.target \in {"primary_value", "primary_value_and_alternate_checksum"} ->
         [r EXCEPT !.active = HitValue(@, request.value)]
    [] request.target = "primary_checksum" -> [r EXCEPT !.active = HitChecksum(@)]
    [] request.target = "primary_value_and_checkpoint_checksum" ->
         Double(HitValue(r.active, request.value), HitChecksum(r.checkpoint))
    [] OTHER -> r

AfterAlternate(r) ==
  IF request.target = "primary_value_and_alternate_checksum"
  THEN [r EXCEPT !.active = HitChecksum(@)] ELSE r

(* The block goes on with, or returns, a double record and its facts.      *)
Leaves(r, facts, next) ==
  /\ state' = r
  /\ last' = facts
  /\ pc' = next

Returns(r, facts) == Leaves(r, [facts EXCEPT !.value = r.active.value], "validate")

RunPrimary ==
  LET stored  == AfterPrimary(Double(Copy(Expected(technique, iteration)), state.active))
      primary == Check(stored.active)
      restore == Check(stored.checkpoint)
  IN  /\ pc = "run" /\ technique = "recovery-block"
      /\ CASE Check(state.active) # "OK" ->
                Returns(state, [last EXCEPT !.status = "CHECKPOINT_FAILED",
                                            !.checkpoint = Check(state.active)])
           [] Check(state.active) = "OK" /\ primary = "OK" ->
                Returns(Double(stored.active, stored.active),
                        [last EXCEPT !.status = "PRIMARY_ACCEPTED"])
           [] Check(state.active) = "OK" /\ primary # "OK" /\ restore # "OK" ->
                Returns(stored, [last EXCEPT !.status = "RESTORE_FAILED",
                                             !.primary = primary, !.restore = restore])
           [] OTHER ->
                Leaves(Double(stored.checkpoint, stored.checkpoint),
                       [last EXCEPT !.primary = primary], "alternate")
      /\ UNCHANGED <<technique, campaign, iteration, request, passes, failures, injected>>

(* The alternate's value is the primary's: TechniqueProofs.tla.   *)
AlternateWithoutRollback ==
  LET stored    == AfterAlternate(Double(Copy(Expected(technique, iteration)),
                                         state.checkpoint))
      alternate == Check(stored.active)
  IN  /\ pc = "alternate"
      /\ IF alternate = "OK"
         THEN Returns(Double(stored.active, stored.active),
                      [last EXCEPT !.status = "ALTERNATE_ACCEPTED"])
         ELSE Returns(stored, [last EXCEPT !.status = "UNRECOVERABLE",
                                           !.alternate = alternate])
      /\ UNCHANGED <<technique, campaign, iteration, request, passes, failures, injected>>

RunAlternate ==
  LET stored    == AfterAlternate(Double(Copy(Expected(technique, iteration)),
                                         state.checkpoint))
      alternate == Check(stored.active)
      restore   == Check(stored.checkpoint)
  IN  /\ pc = "alternate"
      /\ CASE alternate = "OK" ->
                Returns(Double(stored.active, stored.active),
                        [last EXCEPT !.status = "ALTERNATE_ACCEPTED"])
           [] alternate # "OK" /\ restore = "OK" ->
                Returns(Double(stored.checkpoint, stored.checkpoint),
                        [last EXCEPT !.status = "UNRECOVERABLE", !.alternate = alternate])
           [] OTHER ->
                Returns(stored, [last EXCEPT !.status = "RESTORE_FAILED",
                                             !.alternate = alternate, !.restore = restore])
      /\ UNCHANGED <<technique, campaign, iteration, request, passes, failures, injected>>

(* One advance of run_control_flow: the monitor is hit after the first,    *)
(* the value computed at the second and committed after the fourth.        *)
HitMonitor(monitor) ==
  CASE request.target = "control_phase"     -> [monitor EXCEPT !.phase = request.value]
    [] request.target = "control_signature" -> [monitor EXCEPT !.signature = NoSignature]
    [] OTHER                                -> monitor

RunControlLeg ==
  LET path   == ControlPath(request.target)
      leg    == state.legs + 1
      status == ValidateCurrent(state.monitor, path[leg][1])
      moved  == Monitor(path[leg][2])
      after  == IF leg = 1 THEN HitMonitor(moved) ELSE moved
      over   == status # "OK" \/ leg = Len(path)
  IN  /\ pc = "run" /\ technique = "control-flow"
      /\ state' = IF status # "OK" THEN [state EXCEPT !.legs = leg]
                  ELSE [monitor |-> after, legs |-> leg,
                        computed |-> IF leg = 2 THEN Expected(technique, iteration)
                                     ELSE state.computed]
      /\ last' = [last EXCEPT
                    !.control = status,
                    !.status = IF status = "OK" THEN @ ELSE status,
                    !.phase = state'.monitor.phase,
                    !.value = IF leg = 4 /\ status = "OK" THEN state.computed ELSE @]
      /\ pc' = IF ~over THEN "run"
               ELSE IF status = "OK" /\ Finishes(request.target) THEN "finish"
               ELSE "validate"
      /\ UNCHANGED <<technique, campaign, iteration, request, passes, failures, injected>>

FinishControl ==
  /\ pc = "finish"
  /\ last' = [last EXCEPT !.terminal = Finish(state.monitor),
                          !.status = Finish(state.monitor)]
  /\ pc' = "validate"
  /\ UNCHANGED <<technique, campaign, iteration, request, state, passes, failures, injected>>

-----------------------------------------------------------------------------
(* validate: the facts the image expects of each fault target.             *)

TmrAsExpected ==
  IF last.target = "all_distinct" THEN last.status = "NO_MAJORITY"
  ELSE last.status = "OK" /\ last.value = Expected(technique, iteration)

CheckpointFacts == <<last.status, last.active, last.checkpoint>>

Both(value) == state.active.value = value /\ state.checkpoint.value = value

CheckpointAsExpected ==
  CASE last.target = "active_value" ->
         CheckpointFacts = <<"RESTORED", "ABOVE_MAX", "OK">>
           /\ Both(InitialValue(technique, iteration))
    [] last.target = "active_length" ->
         CheckpointFacts = <<"RESTORED", "INVALID_LENGTH", "OK">>
           /\ Both(InitialValue(technique, iteration))
    [] last.target = "active_checksum" ->
         CheckpointFacts = <<"RESTORED", "INVALID_CHECKSUM", "OK">>
           /\ Both(InitialValue(technique, iteration))
    [] last.target = "active_value_and_checkpoint_checksum" ->
         CheckpointFacts = <<"RESTORE_FAILED", "ABOVE_MAX", "INVALID_CHECKSUM">>
           /\ state.active.value = request.value
    [] OTHER ->
         CheckpointFacts = <<"COMMITTED", "OK", "OK">>
           /\ Both(Expected(technique, iteration))

RecoveryFacts ==
  <<last.status, last.checkpoint, last.primary, last.restore, last.alternate>>

RecoveryAsExpected ==
  CASE last.target = "primary_value" ->
         RecoveryFacts = <<"ALTERNATE_ACCEPTED", "OK", "ABOVE_MAX", "OK", "OK">>
           /\ Both(Expected(technique, iteration))
    [] last.target = "primary_checksum" ->
         RecoveryFacts = <<"ALTERNATE_ACCEPTED", "OK", "INVALID_CHECKSUM", "OK", "OK">>
           /\ Both(Expected(technique, iteration))
    [] last.target = "primary_value_and_alternate_checksum" ->
         RecoveryFacts = <<"UNRECOVERABLE", "OK", "ABOVE_MAX", "OK", "INVALID_CHECKSUM">>
           /\ Both(InitialValue(technique, iteration))
    [] last.target = "primary_value_and_checkpoint_checksum" ->
         RecoveryFacts = <<"RESTORE_FAILED", "OK", "ABOVE_MAX", "INVALID_CHECKSUM", "OK">>
           /\ state.active.value = request.value
    [] OTHER ->
         RecoveryFacts = <<"PRIMARY_ACCEPTED", "OK", "OK", "OK", "OK">>
           /\ Both(Expected(technique, iteration))

ControlFacts == <<last.status, last.control, last.terminal>>

ControlAsExpected ==
  CASE last.target \in {"control_phase", "control_skip_compute", "control_repeat_read"} ->
         ControlFacts = <<"INVALID_TRANSITION", "INVALID_TRANSITION", "OK">>
           /\ last.value = 0
    [] last.target = "control_signature" ->
         ControlFacts = <<"BAD_SIGNATURE", "BAD_SIGNATURE", "OK">>
           /\ last.phase = 1 /\ last.value = 0
    [] last.target = "control_early_terminal" ->
         ControlFacts = <<"UNEXPECTED_TERMINAL", "OK", "UNEXPECTED_TERMINAL">>
           /\ last.phase = 2 /\ last.value = 0
    [] OTHER ->
         ControlFacts = <<"OK", "OK", "OK">> /\ last.phase = 5
           /\ last.value = Expected(technique, iteration)

AsExpected ==
  CASE technique = "tmr"            -> TmrAsExpected
    [] technique = "checkpoint"     -> CheckpointAsExpected
    [] technique = "recovery-block" -> RecoveryAsExpected
    [] technique = "control-flow"   -> ControlAsExpected

(* validate and the stop where the host reads its row.  The image has      *)
(* taken the fault back by now, its value excepted.                        *)
Validate ==
  /\ pc = "validate"
  /\ passes' = passes + (IF AsExpected THEN 1 ELSE 0)
  /\ failures' = failures + (IF AsExpected THEN 0 ELSE 1)
  /\ request' = [request EXCEPT !.target = "none"]
  /\ pc' = "top"
  /\ UNCHANGED <<technique, campaign, iteration, state, last, injected>>

Next ==
  \/ Begin \/ Inject \/ RunTmr \/ RunCheckpoint \/ RunPrimary \/ RunAlternate
  \/ RunControlLeg \/ FinishControl \/ Validate

-----------------------------------------------------------------------------
(* The types, and every iteration counted exactly once.                    *)
TypeOK ==
  /\ technique \in Techniques
  /\ iteration \in 0 .. MaxIteration
  /\ pc \in {"top", "inject", "run", "alternate", "finish", "validate"}
  /\ request.value \in Nat /\ last.value \in Nat
  /\ DOMAIN last = DOMAIN FreshFacts(technique)
  /\ DOMAIN state = DOMAIN FreshState(technique, 0)
  /\ passes \in Nat /\ failures \in Nat
  /\ passes + failures = iteration - (IF pc = "top" THEN 0 ELSE 1)

(* The host's fault, the place the image applies it at, the technique's    *)
(* answer and the answer validate waits for agree: no campaign the host    *)
(* offers ever counts a failure, on any iteration (harness_failures).      *)
CampaignPasses == pc = "top" => failures = 0

(* A campaign named after a fault injects that fault in every iteration; a *)
(* clean one injects none; the mixed ones meet every fault of their table  *)
(* once per round of it (the choosers rotate for any name they do not      *)
(* find, so a misspelt entry would go unnoticed).                          *)
MixedNames == {"mixed", "checkpoint-mixed-faults", "recovery-mixed-faults",
               "control-mixed-faults"}

CleanNames == {"none", "checkpoint-clean-run", "recovery-clean-primary",
               "control-clean-path"}

TargetsOf(t) ==
  LET table == Table(t, 0) IN {table[name].target : name \in DOMAIN table}

CampaignInjectsWhatItNames ==
  /\ campaign \notin MixedNames => \A one, other \in injected : one = other
  /\ campaign \notin MixedNames /\ pc = "validate" =>
       (campaign \in CleanNames <=> injected = {"none"})
  /\ campaign \in MixedNames /\ iteration > Len(MixedOrder(technique)) =>
       injected = TargetsOf(technique)

(* What the row of an iteration says is true of that iteration: with good  *)
(* facts the value is the expected one, in every copy the technique keeps; *)
(* with bad ones nothing of a wrong or of an earlier result is left: no    *)
(* value, the initial record, or a record whose own check fails.           *)
Good == last.status \in {"OK", "COMMITTED", "PRIMARY_ACCEPTED", "ALTERNATE_ACCEPTED"}

KeepsRecord == technique \in {"checkpoint", "recovery-block"}

RowIsTrue ==
  /\ Good => last.value = Expected(technique, iteration)
  /\ Good /\ KeepsRecord => state = Double(Copy(last.value), Copy(last.value))
  /\ ~Good /\ ~KeepsRecord => last.value = 0
  /\ ~Good /\ KeepsRecord =>
       LET initial == Copy(InitialValue(technique, iteration))
       IN  \/ state = Double(initial, initial)
           \/ last.status = "RESTORE_FAILED"
                /\ Check(state.active) # "OK" /\ Check(state.checkpoint) # "OK"

RowTellsTheTruth == (pc = "top" /\ iteration > 0) => RowIsTrue
=============================================================================

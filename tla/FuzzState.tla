------------------------------ MODULE FuzzState ------------------------------
(***************************************************************************)
(* What the six single-shot images of harness/fuzz/c share: the draws from *)
(* the trial's seed, the words a fault may hit, the facts they publish,    *)
(* what the host's classifier makes of these, and the library calls they   *)
(* make.                                                                   *)
(*                                                                         *)
(* A step is one statement, or one half of a library call: a vote's        *)
(* comparison or its load, a copy's validation or its structure            *)
(* assignment, an operation's store or its seal.  A fault is one word of   *)
(* the exported state as the window opens (ram-bitflip), or a word of it   *)
(* or a local value between any two steps, as a flipped register leaves it *)
(* (reg-bitflip).  A checksum is the fact that it matches, a signature the *)
(* phase it belongs to; FuzzPlugin.tla times the faults and diverts.       *)
(***************************************************************************)
EXTENDS Verdict

CONSTANT Draws      \* what harness_random_u32 may return

ASSUME DrawAssumption == Draws \subseteq Nat

VARIABLES
  image, campaign,      \* the image of the trial and its campaign
  initial, expected,    \* the value the image starts from; harness_expected
  triplet,              \* harness_fuzz_*_tmr; a alone is the baseline's input
  elected,              \* the copy the vote is about to load
  sample,               \* update.sample, or what a computation works on
  value,                \* the value read by a vote, or computed
  record,               \* harness_fuzz_*_record; active.value alone is the
                        \* baseline's output
  op, status,           \* the block's operation, the last library status
  monitor,              \* harness_fuzz_*_monitor
  pc,                   \* the step that is next
  facts,                \* harness_detected, _corrected, _safe_state, _output
  hit                   \* history: the word that was hit, the step it was
                        \* hit before

setup == <<image, campaign, initial, expected, hit>>

guestVars == <<setup, triplet, elected, sample, value, record, op, status, monitor,
               pc, facts>>

Images == {"baseline", "combined", "tmr", "checkpoint", "recovery-block", "control-flow"}

-----------------------------------------------------------------------------
(* A copy of the record: its value, whether its checksum matches, and      *)
(* whether its other words allow the value once it does.                   *)

Whole(v) == [value |-> v, sealed |-> TRUE, fit |-> TRUE]

Valid(copy) == copy.sealed /\ copy.fit /\ copy.value \in 0 .. 1000

Monitor(phase) == [phase |-> phase, signature |-> phase]

Allowed(phase) == monitor = Monitor(phase)

(* recovery_block_sample_primary_value, the baseline's compute_value too.  *)
PrimaryValue(s) == 100 + ((((s % 700) * 37) + 17) % 700)

InRange(draw) == 100 + (draw % 700)

(* harness_main up to the window; the mask tmr lays over its draw only     *)
(* permutes the words.                                                     *)
Drawn(first, second) ==
  CASE image = "tmr" ->
         initial = first /\ expected = first /\ sample = 0 /\ pc = "vote"
    [] image = "checkpoint" ->
         initial = InRange(first) /\ expected = InRange(second) /\ sample = 0 /\ pc = "check"
    [] image = "recovery-block" ->
         /\ initial = InRange(second) /\ expected = PrimaryValue(first)
         /\ sample = first /\ pc = "capture"
    [] image = "control-flow" ->
         /\ initial = 100 + (first % 900) /\ expected = initial + 7
         /\ sample = initial /\ pc = "start"
    [] image \in {"combined", "baseline"} ->
         /\ initial = InRange(first) /\ expected = PrimaryValue(initial)
         /\ sample = 0 /\ pc = "start"

NoHit == [word |-> "none", before |-> "none"]

Init ==
  /\ image \in Images /\ campaign \in {"ram-bitflip", "reg-bitflip"}
  /\ \E first, second \in Draws : Drawn(first, second)
  /\ triplet = [a |-> initial, b |-> initial, c |-> initial, fault_count |-> 0]
  /\ elected = "a" /\ value = 0
  /\ record = [active |-> CASE image = "checkpoint" -> Whole(expected)
                             [] image = "baseline"   -> Whole(0)
                             [] OTHER                -> Whole(initial),
               checkpoint |-> Whole(initial)]
  /\ op = "primary" /\ status = "none"
  /\ monitor = Monitor(0)
  /\ facts = [detected |-> 0, corrected |-> 0, safe_state |-> 0, output |-> 0]
  /\ hit = NoHit

-----------------------------------------------------------------------------
(* The fault: bit 4 or bit 10 of a value, any bit of the other words.  A   *)
(* value that was hit leaves the checksum behind; of the other words of a  *)
(* copy some allow the value nonetheless, when the copy is sealed again.   *)

Flip(v, bit) == IF (v \div bit) % 2 = 0 THEN v + bit ELSE v - bit

Flips(v) == {Flip(v, 16), Flip(v, 1024)}

RecordWords == {"active", "active_field", "checkpoint", "checkpoint_field"}

Exported ==
  CASE image = "baseline"       -> {"a", "active"}
    [] image = "tmr"            -> {"a", "b", "c", "fault_count"}
    [] image \in {"checkpoint", "recovery-block"} -> RecordWords
    [] image = "control-flow"   -> {"phase", "signature", "transitions"}
    [] image = "combined"       ->
         {"a", "b", "c", "fault_count", "phase", "signature", "transitions"}
         \cup RecordWords

Locals ==
  CASE image = "tmr"            -> {"value"}
    [] image = "control-flow"   -> {"sample", "value"}
    [] image = "checkpoint"     -> {}
    [] image \in {"baseline", "recovery-block", "combined"} -> {"sample"}

HitCopy(copy, word) ==
  IF word = "value" THEN {[copy EXCEPT !.value = v, !.sealed = FALSE] : v \in Flips(copy.value)}
  ELSE {[copy EXCEPT !.sealed = FALSE, !.fit = b] : b \in BOOLEAN}

HitWord(word) ==
  /\ triplet' \in
       CASE word \in {"a", "b", "c"} -> {[triplet EXCEPT ![word] = v] : v \in Flips(triplet[word])}
         [] word = "fault_count"     -> {[triplet EXCEPT !.fault_count = @ + 1]}
         [] OTHER                    -> {triplet}
  /\ sample' \in IF word = "sample" THEN Flips(sample) ELSE {sample}
  /\ value' \in IF word = "value" THEN Flips(value) ELSE {value}
  /\ record' \in
       CASE word = "active"           ->
              {[record EXCEPT !.active = c] : c \in HitCopy(record.active, "value")}
         [] word = "active_field"     ->
              {[record EXCEPT !.active = c] : c \in HitCopy(record.active, "field")}
         [] word = "checkpoint"       ->
              {[record EXCEPT !.checkpoint = c] : c \in HitCopy(record.checkpoint, "value")}
         [] word = "checkpoint_field" ->
              {[record EXCEPT !.checkpoint = c] : c \in HitCopy(record.checkpoint, "field")}
         [] OTHER                     -> {record}
  /\ monitor' = CASE word = "phase"     -> [monitor EXCEPT !.phase = @ + 8]
                  [] word = "signature" -> [monitor EXCEPT !.signature = @ + 8]
                  [] OTHER              -> monitor      \* nothing reads transitions

(* A RAM fault lands as the window opens, before the first step. *)
AtTheOpening == pc = CASE image = "tmr"            -> "vote"
                       [] image = "checkpoint"     -> "check"
                       [] image = "recovery-block" -> "capture"
                       [] OTHER                    -> "start"

Upset ==
  /\ hit = NoHit /\ pc # "done"
  /\ campaign = "ram-bitflip" => AtTheOpening
  /\ \E word \in Exported \cup IF campaign = "ram-bitflip" THEN {} ELSE Locals :
       HitWord(word) /\ hit' = [word |-> word, before |-> pc]
  /\ UNCHANGED <<image, campaign, initial, expected, elected, op, status, pc, facts>>

(* A step of the image. *)
Step(images, at) ==
  /\ image \in images /\ pc = at
  /\ campaign = "ram-bitflip" => hit # NoHit
  /\ UNCHANGED setup

-----------------------------------------------------------------------------
(* What the host is told, and what it makes of it. *)

Report ==
  [harness_done |-> 1, harness_detected |-> facts.detected,
   harness_corrected |-> facts.corrected, harness_safe_state |-> facts.safe_state,
   harness_output |-> facts.output, harness_expected |-> expected,
   injected |-> IF hit = NoHit THEN 0 ELSE 1]

Ending ==
  Classify([facts |-> Report, status |-> "completed", timeout |-> FALSE,
            requiresInjection |-> hit # NoHit])

Done == pc = "done"

(* The fault hit one of these words before one of these steps. *)
Struck(words, steps) == hit.word \in words /\ hit.before \in steps

-----------------------------------------------------------------------------
(* The library calls that the images make on their state: tmr_int_read,    *)
(* recovery_block_run with the sample operations,                          *)
(* checkpoint_record_commit_or_restart.                                    *)

Voting     == {"tmr", "combined"}
Recovering == {"recovery-block", "combined"}
Committing == {"checkpoint", "combined"}

(* tmr_int_read: the comparisons and the count.  One hit leaves a majority.*)
Vote ==
  /\ Step(Voting, "vote") /\ pc' = "load"
  /\ elected' = IF triplet.a \in {triplet.b, triplet.c} THEN "a" ELSE "b"
  /\ triplet' = IF triplet.a = triplet.b /\ triplet.b = triplet.c THEN triplet
                ELSE [triplet EXCEPT !.fault_count = @ + 1]
  /\ UNCHANGED <<sample, value, record, op, status, monitor, facts>>

-----------------------------------------------------------------------------
(* recovery_block_run *)

BlockStep(at) ==
  Step(Recovering, at) /\ UNCHANGED <<triplet, elected, sample, value, monitor, facts>>

Return(result) == pc' = "recovered" /\ status' = result

Capture ==
  /\ BlockStep("capture")
  /\ IF Valid(record.active) THEN pc' = "capture_copy" /\ UNCHANGED status
     ELSE Return("CHECKPOINT_FAILED")
  /\ UNCHANGED <<record, op>>

CaptureCopy ==
  /\ BlockStep("capture_copy") /\ pc' = "store"
  /\ record' = [record EXCEPT !.checkpoint = record.active]
  /\ UNCHANGED <<op, status>>

(* The primary or the alternate, which compute the same (SampleUpdate.tla).*)
Store ==
  /\ BlockStep("store") /\ pc' = "seal"
  /\ record' = [record EXCEPT !.active.value = PrimaryValue(sample), !.active.sealed = FALSE]
  /\ UNCHANGED <<op, status>>

Seal ==
  /\ BlockStep("seal") /\ pc' = "accept"
  /\ record' = [record EXCEPT !.active.sealed = TRUE]
  /\ UNCHANGED <<op, status>>

AcceptAnything ==
  /\ BlockStep("accept") /\ pc' = "recapture"
  /\ UNCHANGED <<record, op, status>>

Accept ==
  /\ BlockStep("accept")
  /\ pc' = IF Valid(record.active) THEN "recapture" ELSE "restore"
  /\ UNCHANGED <<record, op, status>>

Accepted == IF op = "primary" THEN "PRIMARY_ACCEPTED" ELSE "ALTERNATE_ACCEPTED"

(* What the second capture finds is not looked at.                         *)
Recapture ==
  /\ BlockStep("recapture")
  /\ IF Valid(record.active) THEN pc' = "recapture_copy" /\ UNCHANGED status
     ELSE Return(Accepted)
  /\ UNCHANGED <<record, op>>

RecaptureCopy ==
  /\ BlockStep("recapture_copy") /\ Return(Accepted)
  /\ record' = [record EXCEPT !.checkpoint = record.active]
  /\ UNCHANGED op

Restore ==
  /\ BlockStep("restore")
  /\ IF Valid(record.checkpoint) THEN pc' = "restore_copy" /\ UNCHANGED status
     ELSE Return("RESTORE_FAILED")
  /\ UNCHANGED <<record, op>>

RestoreCopy ==
  /\ BlockStep("restore_copy")
  /\ record' = [record EXCEPT !.active = record.checkpoint]
  /\ IF op = "primary" THEN pc' = "store" /\ op' = "alternate" /\ UNCHANGED status
     ELSE Return("UNRECOVERABLE") /\ UNCHANGED op

RunBlock ==
  \/ Capture \/ CaptureCopy \/ Store \/ Seal \/ Accept \/ Recapture \/ RecaptureCopy
  \/ Restore \/ RestoreCopy

-----------------------------------------------------------------------------
(* checkpoint_record_commit_or_restart *)

CommitStep(at) ==
  Step(Committing, at) /\ UNCHANGED <<triplet, elected, sample, value, op, monitor, facts>>

Check ==
  /\ CommitStep("check")
  /\ pc' = IF Valid(record.active) THEN "commit_copy" ELSE "check_checkpoint"
  /\ UNCHANGED <<record, status>>

CommitCopy ==
  /\ CommitStep("commit_copy") /\ pc' = "restarted"
  /\ record' = [record EXCEPT !.checkpoint = record.active] /\ status' = "COMMITTED"

CheckCheckpoint ==
  /\ CommitStep("check_checkpoint")
  /\ IF Valid(record.checkpoint) THEN pc' = "restart_copy" /\ UNCHANGED status
     ELSE pc' = "restarted" /\ status' = "RESTORE_FAILED"
  /\ UNCHANGED record

RestartCopy ==
  /\ CommitStep("restart_copy") /\ pc' = "restarted"
  /\ record' = [record EXCEPT !.active = record.checkpoint] /\ status' = "RESTORED"

CommitOrRestart == Check \/ CommitCopy \/ CheckCheckpoint \/ RestartCopy
=============================================================================

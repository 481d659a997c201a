----------------------------- MODULE Checkpoint -----------------------------
(***************************************************************************)
(* The double record of src/c/checkpoint/checkpoint.h: the active copy the *)
(* program works on and the checkpoint it falls back to.                   *)
(*                                                                         *)
(* Each library call is split where its validation ends and its structure  *)
(* copy begins, because a memory upset may land between the two.  An       *)
(* upset replaces one word of one copy and never hits a copy that is       *)
(* already damaged: the code's checksum promises nothing against two.      *)
(***************************************************************************)
EXTENDS Checker

CONSTANTS
  Values,                             \* the values the program writes
  Tag, Low, High, Length, Capacity,   \* the fixed words of sample_record
  MaxUpsets,                          \* bound: upsets in one behaviour
  Lost                                \* what a damaged copy reads as

Sample(v) == RecordInit(Tag, v, Low, High, Length, Capacity)

(* The program starts from, and writes, records that pass validation. *)
ASSUME SampleAssumption ==
  /\ Values \subseteq Word
  /\ {Tag, Low, High, Length, Capacity} \subseteq Word
  /\ \A v \in Values : Valid(Sample(v))
  /\ MaxUpsets \in Nat
  /\ Lost \notin Word

VARIABLES
  active, checkpoint,   \* the two records
  pc,                   \* where the library call under way is
  result,               \* what the last call returned
  upsets,               \* upsets so far
  touched,              \* history: copies written by others since the call began
  spoiled               \* history: the checkpoint was hit, or copied from a hit one

vars == <<active, checkpoint, pc, result, upsets, touched, spoiled>>

Copies == {"active", "checkpoint"}

Points == {"idle", "capture_copy", "restore_copy", "commit_copy",
           "rollback_check", "rollback_copy"}

(* What a call returns: capture gives active_check, restore gives          *)
(* checkpoint_check, commit_or_restart a status and both checks.           *)
Result == [call: {"none", "capture", "restore", "commit"},
           status: {"NONE", "COMMITTED", "RESTORED", "RESTORE_FAILED"},
           active_check: CheckStatus, checkpoint_check: CheckStatus]

NoResult(call) == [call |-> call, status |-> "NONE",
                   active_check |-> "OK", checkpoint_check |-> "OK"]

(* checkpoint_record_init: both copies are the initial record. *)
Init ==
  /\ \E v \in Values : active = Sample(v)
  /\ checkpoint = active
  /\ pc = "idle"
  /\ result = NoResult("none")
  /\ upsets = 0
  /\ touched = {}
  /\ spoiled = FALSE

-----------------------------------------------------------------------------
(* The program stores a new value in the active record and seals it. *)

Update(v) ==
  /\ pc = "idle"
  /\ active' = Refresh([active EXCEPT !["value"] = v])
  /\ touched' = touched \union {"active"}
  /\ UNCHANGED <<checkpoint, pc, result, upsets, spoiled>>

(* A call starts by validating a copy: it goes on to the point next if the *)
(* copy passes and to the point other if it does not.                      *)
Begin(check, next, other, outcome) ==
  /\ pc = "idle"
  /\ touched' = {}
  /\ pc' = IF Passed(check) THEN next ELSE other
  /\ result' = outcome
  /\ UNCHANGED <<active, checkpoint, upsets, spoiled>>

CopyToCheckpoint ==
  /\ checkpoint' = active
  /\ spoiled' = ("active" \in touched)
  /\ UNCHANGED <<active, upsets, touched>>

CopyToActive ==
  /\ active' = checkpoint
  /\ UNCHANGED <<checkpoint, upsets, touched, spoiled>>

(* checkpoint_record_capture *)

CaptureUnchecked == Begin("OK", "capture_copy", "idle", NoResult("capture"))

Capture ==
  LET check == Validate(active)
  IN  Begin(check, "capture_copy", "idle",
            [NoResult("capture") EXCEPT !.active_check = check])

CaptureCopy ==
  pc = "capture_copy" /\ CopyToCheckpoint /\ pc' = "idle" /\ UNCHANGED result

(* checkpoint_record_restore *)

Restore ==
  LET check == Validate(checkpoint)
  IN  Begin(check, "restore_copy", "idle",
            [NoResult("restore") EXCEPT !.checkpoint_check = check])

RestoreCopy ==
  pc = "restore_copy" /\ CopyToActive /\ pc' = "idle" /\ UNCHANGED result

(* checkpoint_record_commit_or_restart *)

CommitOrRestart ==
  LET check == Validate(active)
  IN  Begin(check, "commit_copy", "rollback_check",
            [NoResult("commit") EXCEPT !.active_check = check])

Return(status) ==
  pc' = "idle" /\ result' = [result EXCEPT !.status = status]

CommitCopy == pc = "commit_copy" /\ CopyToCheckpoint /\ Return("COMMITTED")

RollbackCheck ==
  LET check == Validate(checkpoint)
  IN  /\ pc = "rollback_check"
      /\ pc' = IF Passed(check) THEN "rollback_copy" ELSE "idle"
      /\ result' = [result EXCEPT
                      !.checkpoint_check = check,
                      !.status = IF Passed(check) THEN @ ELSE "RESTORE_FAILED"]
      /\ UNCHANGED <<active, checkpoint, upsets, touched, spoiled>>

RollbackReversed ==
  pc = "rollback_copy" /\ CopyToCheckpoint /\ Return("RESTORED")

RollbackCopy == pc = "rollback_copy" /\ CopyToActive /\ Return("RESTORED")

(* A memory upset: word f of an undamaged copy becomes w. *)
Upset(copy, f, w) ==
  /\ upsets < MaxUpsets
  /\ upsets' = upsets + 1
  /\ touched' = touched \union {copy}
  /\ \/ /\ copy = "active" /\ Sealed(active) /\ w # active[f]
        /\ active' = [active EXCEPT ![f] = w]
        /\ UNCHANGED <<checkpoint, spoiled>>
     \/ /\ copy = "checkpoint" /\ Sealed(checkpoint) /\ w # checkpoint[f]
        /\ checkpoint' = [checkpoint EXCEPT ![f] = w]
        /\ spoiled' = TRUE
        /\ UNCHANGED active
  /\ UNCHANGED <<pc, result>>

Next ==
  \/ \E v \in Values : Update(v)
  \/ Capture \/ CaptureCopy
  \/ Restore \/ RestoreCopy
  \/ CommitOrRestart \/ CommitCopy \/ RollbackCheck \/ RollbackCopy
  \/ \E copy \in Copies, f \in Fields, w \in Word : Upset(copy, f, w)

Spec == Init /\ [][Next]_vars

-----------------------------------------------------------------------------
TypeOK ==
  /\ active \in Record
  /\ checkpoint \in Record
  /\ pc \in Points
  /\ result \in Result
  /\ upsets \in 0 .. MaxUpsets
  /\ touched \subseteq Copies
  /\ spoiled \in BOOLEAN

(* A checkpoint that no longer validates was itself hit, or was copied     *)
(* from a record hit between its validation and the copy: capture and      *)
(* commit never overwrite a good checkpoint with a record that failed.     *)
CheckpointLostOnlyByUpset == ~Valid(checkpoint) => spoiled

(* What a caller reads still describes both copies as long as nothing else *)
(* wrote them since the call began: COMMITTED, RESTORED and a successful   *)
(* capture or restore leave two equal valid copies, and a failure names    *)
(* what is wrong with each copy that was needed.                           *)
CopiesAgree == active = checkpoint /\ Valid(active)

ReportIsTruthful ==
  (pc = "idle" /\ touched = {}) =>
    LET activeFails     == result.active_check = Validate(active)
        checkpointFails == result.checkpoint_check = Validate(checkpoint)
    IN  CASE result.call = "none"    -> CopiesAgree
          [] result.call = "capture" ->
               IF Passed(result.active_check) THEN CopiesAgree ELSE activeFails
          [] result.call = "restore" ->
               IF Passed(result.checkpoint_check) THEN CopiesAgree
                                                  ELSE checkpointFails
          [] result.call = "commit"  ->
               /\ result.status # "NONE"
               /\ IF result.status = "RESTORE_FAILED"
                  THEN /\ activeFails /\ checkpointFails
                       /\ ~Valid(active) /\ ~Valid(checkpoint)
                  ELSE CopiesAgree

(* Seen through validation, the double record is a stable store: whatever  *)
(* the order of calls and upsets, a copy that passes holds exactly the     *)
(* value last written, committed or rolled back to, never a corrupted one. *)
Read(r) == IF Valid(r) THEN r["value"] ELSE Lost

Store == INSTANCE StableStore
           WITH work <- Read(active), saved <- Read(checkpoint)

NeverLies == Store!StoreSpec
=============================================================================

--------------------------- MODULE RecoveryBlock ---------------------------
(***************************************************************************)
(* recovery_block_run_with_hooks of src/c/recovery_block/recovery_block.h  *)
(* with the sample operations: capture, primary, acceptance test, rollback,*)
(* alternate, acceptance test, rollback.                                   *)
(*                                                                         *)
(* Memory upsets land between any two steps, the hooks' places included.   *)
(* A step is one statement of an operation, or one half of a library call: *)
(* a capture or a restore can be hit between its validation and its        *)
(* structure copy, an operation between any two of its stores and seals.   *)
(* What the two operations compute is the constant Update; SampleUpdate.tla*)
(* shows that they agree.                                                  *)
(***************************************************************************)
EXTENDS Checker

CONSTANTS
  Samples,                            \* the inputs of a sample update
  Update,                             \* what both operations compute of them
  Tag, Low, High, Length, Capacity,   \* the fixed words of the record
  Flip,                               \* checksum ^ 0x10, a function of words
  Flips,                              \* bound: <<field, word>> upsets leave
  MaxUpsets                           \* bound: upsets in one behaviour

Sample(v) == RecordInit(Tag, v, Low, High, Length, Capacity)

(* The wrap-around successor of a word, max + 1u. *)
Successor(w) == IF w + 1 \in Word THEN w + 1 ELSE 0

ASSUME RecoveryAssumption ==
  /\ Update \in [Samples -> Word]
  /\ {Tag, Low, High, Length, Capacity} \subseteq Word
  /\ \A s \in Samples : Valid(Sample(Update[s]))
  /\ High + 1 \in Word
  /\ Flip \in [Word -> Word] /\ \A w \in Word : Flip[w] # w
  /\ Flips \subseteq Fields \X Word
  /\ MaxUpsets \in Nat

VARIABLES
  active, checkpoint,   \* the two records
  pc, op,               \* the step under way and the operation it belongs to
  sample, faults,       \* the recovery_block_sample_update_t of the call
  result,               \* the recovery_block_result_t of the call
  upsets,               \* upsets so far
  entry,                \* history: both records when the call began
  hits                  \* history: which copy was hit where since then

vars == <<active, checkpoint, pc, op, sample, faults, result, upsets, entry, hits>>

Copies     == {"active", "checkpoint"}
Operations == {"primary", "alternate"}
Points     == {"idle", "entry_copy", "store", "seal", "exceed", "reseal", "break",
               "check", "accept", "accept_copy", "recover", "recover_copy"}
Faults     == Operations \X {"range", "checksum"}

Statuses == {"PRIMARY_ACCEPTED", "ALTERNATE_ACCEPTED", "UNRECOVERABLE",
             "CHECKPOINT_FAILED", "RESTORE_FAILED"}

Checks == {"checkpoint", "primary", "restore", "alternate"}

Result == [status: Statuses, checks: [Checks -> CheckStatus]]

(* recovery_block_result_init *)
NoResult == [status |-> "UNRECOVERABLE", checks |-> [c \in Checks |-> "OK"]]

Init ==
  /\ \E s \in Samples : /\ active = Sample(Update[s])
                        /\ sample = s
  /\ checkpoint = active
  /\ pc = "idle" /\ op = "primary"
  /\ faults = {}
  /\ result = NoResult
  /\ upsets = 0
  /\ entry = [active |-> active, checkpoint |-> checkpoint]
  /\ hits = {}

-----------------------------------------------------------------------------
Return(status) ==
  pc' = "idle" /\ result' = [result EXCEPT !.status = status]

(* The call starts with a capture, or fails before anything is done.       *)
Call(s, fs) ==
  LET check   == Validate(active)
      started == [NoResult EXCEPT !.checks["checkpoint"] = check]
  IN  /\ pc = "idle"
      /\ sample' = s /\ faults' = fs /\ op' = "primary"
      /\ entry' = [active |-> active, checkpoint |-> checkpoint]
      /\ hits' = {}
      /\ IF Passed(check)
         THEN pc' = "entry_copy" /\ result' = started
         ELSE pc' = "idle" /\ result' = [started EXCEPT !.status = "CHECKPOINT_FAILED"]
      /\ UNCHANGED <<active, checkpoint, upsets>>

EntryCopy ==
  /\ pc = "entry_copy" /\ pc' = "store"
  /\ checkpoint' = active
  /\ UNCHANGED <<active, op, sample, faults, result, upsets, entry, hits>>

(* The operation stores its value and seals the record, then applies the   *)
(* faults injected into it: a value above the range, sealed in its turn,   *)
(* and a broken seal.                                                      *)
Rewrite(at, next, record) ==
  /\ pc = at /\ pc' = next
  /\ active' = record
  /\ UNCHANGED <<checkpoint, op, sample, faults, result, upsets, entry, hits>>

Injected(kind) == <<op, kind>> \in faults

Sealing == IF Injected("checksum") THEN "break" ELSE "check"

Store == Rewrite("store", "seal", [active EXCEPT !["value"] = Update[sample]])

Seal ==
  Rewrite("seal", IF Injected("range") THEN "exceed" ELSE Sealing, Refresh(active))

ExceedUnbounded ==
  Rewrite("exceed", "reseal", [active EXCEPT !["value"] = active["max"] + 1])

Exceed ==
  Rewrite("exceed", "reseal", [active EXCEPT !["value"] = Successor(active["max"])])

Reseal == Rewrite("reseal", Sealing, Refresh(active))

Break == Rewrite("break", "check", [active EXCEPT !["checksum"] = Flip[@]])

(* The acceptance test. *)
Check ==
  LET check == Validate(active)
  IN  /\ pc = "check"
      /\ result' = [result EXCEPT !.checks[op] = check]
      /\ pc' = IF Passed(check) THEN "accept" ELSE "recover"
      /\ UNCHANGED <<active, checkpoint, op, sample, faults, upsets, entry, hits>>

(* The accepted record is captured; whether that worked is not looked at.  *)
Accepted == IF op = "primary" THEN "PRIMARY_ACCEPTED" ELSE "ALTERNATE_ACCEPTED"

Accept ==
  /\ pc = "accept"
  /\ IF Valid(active) THEN pc' = "accept_copy" /\ UNCHANGED result ELSE Return(Accepted)
  /\ UNCHANGED <<active, checkpoint, op, sample, faults, upsets, entry, hits>>

AcceptUncopied ==
  /\ pc = "accept_copy" /\ Return(Accepted)
  /\ UNCHANGED <<active, checkpoint, op, sample, faults, upsets, entry, hits>>

AcceptCopy ==
  /\ pc = "accept_copy" /\ Return(Accepted)
  /\ checkpoint' = active
  /\ UNCHANGED <<active, op, sample, faults, upsets, entry, hits>>

(* checkpoint_record_restore, then the alternate or the end of the call.   *)
RecoverUnchecked ==
  /\ pc = "recover" /\ pc' = "recover_copy"
  /\ UNCHANGED <<active, checkpoint, op, sample, faults, result, upsets, entry, hits>>

Recover ==
  LET check   == Validate(checkpoint)
      checked == [result EXCEPT !.checks["restore"] = check]
  IN  /\ pc = "recover"
      /\ IF Passed(check)
         THEN pc' = "recover_copy" /\ result' = checked
         ELSE pc' = "idle" /\ result' = [checked EXCEPT !.status = "RESTORE_FAILED"]
      /\ UNCHANGED <<active, checkpoint, op, sample, faults, upsets, entry, hits>>

Resume ==
  \/ op = "primary" /\ op' = "alternate" /\ pc' = "store" /\ UNCHANGED result
  \/ op = "alternate" /\ Return("UNRECOVERABLE") /\ UNCHANGED op

RecoverInPlace ==
  /\ pc = "recover_copy" /\ Resume
  /\ UNCHANGED <<active, checkpoint, sample, faults, upsets, entry, hits>>

RecoverCopy ==
  /\ pc = "recover_copy" /\ Resume
  /\ active' = checkpoint
  /\ UNCHANGED <<checkpoint, sample, faults, upsets, entry, hits>>

(* A memory upset hits a sealed copy, or the active record while it is     *)
(* being rewritten.  Two hits on one sealed copy are beyond a checksum.    *)
Upset(copy, f, w) ==
  /\ upsets < MaxUpsets
  /\ upsets' = upsets + 1
  /\ hits' = hits \union {<<copy, op, pc>>}
  /\ \/ /\ copy = "active" /\ w # active[f]
        /\ Sealed(active) \/ pc \in {"seal", "reseal"}
        /\ active' = [active EXCEPT ![f] = w]
        /\ UNCHANGED checkpoint
     \/ /\ copy = "checkpoint" /\ w # checkpoint[f]
        /\ Sealed(checkpoint)
        /\ checkpoint' = [checkpoint EXCEPT ![f] = w]
        /\ UNCHANGED active
  /\ UNCHANGED <<pc, op, sample, faults, result, entry>>

Next ==
  \/ \E s \in Samples, fs \in SUBSET Faults : Call(s, fs)
  \/ EntryCopy \/ Store \/ Seal \/ Exceed \/ Reseal \/ Break \/ Check
  \/ Accept \/ AcceptCopy \/ Recover \/ RecoverCopy
  \/ \E copy \in Copies, fw \in Flips : Upset(copy, fw[1], fw[2])

Spec == Init /\ [][Next]_vars

-----------------------------------------------------------------------------
TypeOK ==
  /\ active \in Record /\ checkpoint \in Record
  /\ pc \in Points /\ op \in Operations
  /\ sample \in Samples /\ faults \subseteq Faults
  /\ result \in Result
  /\ upsets \in 0 .. MaxUpsets
  /\ entry \in [Copies -> Record]
  /\ hits \subseteq Copies \X Operations \X Points

Hit(copy, o, points) == \E p \in points : <<copy, o, p>> \in hits

(* The call has returned and neither copy was hit since. *)
Returned ==
  pc = "idle" /\ \A copy \in Copies, o \in Operations : ~Hit(copy, o, {"idle"})

(* An accepted update left both copies equal to the record of before the   *)
(* call with the operation's value in it, whatever was hit on the way.     *)
(* Three windows are really open in the code: a word hit before the record *)
(* is sealed for the last time is sealed with it, be it in the active      *)
(* record or in the checkpoint a rollback is about to copy; and a hit      *)
(* behind the acceptance test meets only the capture whose result the code *)
(* drops.  A hit as the test is about to look is always found.  (A bound   *)
(* that was the largest word makes the injected range fault wrap to 0.)    *)
Wanted == Refresh([entry["active"] EXCEPT !["value"] = Update[sample]])

Exposed ==
  \/ Hit("active", op, Points \ {"check"})
  \/ op = "alternate" /\ Hit("checkpoint", "primary", {"recover_copy"})

AcceptedIsExpected ==
  (/\ Returned /\ result.status = Accepted
   /\ entry["active"]["max"] + 1 \in Word
   /\ ~Exposed)
    => active = Wanted /\ checkpoint = Wanted

(* A failure changes nothing and names its cause.  UNRECOVERABLE leaves    *)
(* both copies as the active record was before the call, but for a hit in  *)
(* the checkpoint between its last validation and its copy, which then is  *)
(* in both; CHECKPOINT_FAILED leaves each copy alone; RESTORE_FAILED needs *)
(* a hit on the checkpoint, or on the record as it is captured.            *)
FailureKeepsEntry ==
  Returned =>
    /\ result.status = "UNRECOVERABLE"
         => /\ active = checkpoint
            /\ \/ active = entry["active"]
               \/ Hit("checkpoint", "alternate", {"recover_copy"}) /\ ~Valid(active)
    /\ result.status = "CHECKPOINT_FAILED"
         => /\ active = entry["active"] /\ ~Valid(active)
            /\ checkpoint = entry["checkpoint"]
    /\ result.status = "RESTORE_FAILED"
         => \/ \E o \in Operations : Hit("checkpoint", o, Points)
            \/ Hit("active", "primary", {"entry_copy"})

(* The alternate never builds on what the failed primary left behind: it   *)
(* starts from the very record the call started from, or from what a hit   *)
(* made of that between the checkpoint's validation and its copy.          *)
AlternateStartsFresh ==
  (/\ pc = "store" /\ op = "alternate"
   /\ ~Hit("active", "alternate", {"store"}))
    => \/ active = entry["active"]
       \/ Hit("checkpoint", "primary", {"recover_copy"}) /\ ~Sealed(active)

(* Without upsets in the call the injected faults alone decide its         *)
(* outcome: the alternate covers a faulty primary, and two faulty          *)
(* operations roll back.  The bounds of the record must be the program's:  *)
(* a bound damaged and sealed in an earlier call fails good updates since. *)
IntactEntry == entry["active"] = Sample(entry["active"]["value"])

Faulty(o) == \E kind \in {"range", "checksum"} : <<o, kind>> \in faults

FaultsDecideOutcome ==
  [][(pc # "idle" /\ pc' = "idle" /\ hits = {} /\ IntactEntry) =>
        result'.status = IF ~Faulty("primary") THEN "PRIMARY_ACCEPTED"
                         ELSE IF ~Faulty("alternate") THEN "ALTERNATE_ACCEPTED"
                         ELSE "UNRECOVERABLE"]_vars
=============================================================================

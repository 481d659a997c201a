---------------------------- MODULE ControlFlow ----------------------------
(***************************************************************************)
(* The control-flow monitor of src/c/control_flow/control_flow.h and a     *)
(* program that runs under it the way the harnesses' workflow does: one    *)
(* block of work per phase, each entered by control_flow_monitor_advance,  *)
(* an early return on every failed transition, finish at the end.          *)
(*                                                                         *)
(* Faults are jumps, which land the program anywhere (the harnesses'       *)
(* REPEAT_READ, SKIP_COMPUTE and EARLY_TERMINAL are three of them), and    *)
(* upsets of the monitor's three words.                                    *)
(***************************************************************************)
EXTENDS Naturals, Sequences, FiniteSets

CONSTANTS
  Word,         \* the machine words, 0 .. 2^w - 1
  Signature,    \* control_flow_phase_signature, a function of words
  MaxFaults     \* bound: faults in one run of the program

START == 0   READ_INPUT == 1   COMPUTE == 2
VALIDATE == 3   COMMIT == 4   DONE == 5

Phases == START .. DONE
Blocks == READ_INPUT .. COMMIT         \* the phases that do some work

(* The code's six signatures are distinct. *)
ASSUME ControlAssumption ==
  /\ Phases \subseteq Word /\ Word \subseteq Nat
  /\ Signature \in [Word -> Word]
  /\ \A p, q \in Phases : Signature[p] = Signature[q] => p = q
  /\ MaxFaults \in Nat

VARIABLES
  monitor,      \* control_flow_monitor_t
  at, block,    \* where the program is
  status,       \* what the last call of the monitor returned
  done,         \* history: the blocks whose work was done, in order
  jumps,        \* history: jumps so far in this run
  slipped,      \* history: a jump stayed inside the phase it left
  hit           \* history: the monitor's words that were hit

vars == <<monitor, at, block, status, done, jumps, slipped, hit>>

MonitorFields == {"phase", "signature", "transitions"}

Statuses == {"OK", "INVALID_TRANSITION", "BAD_SIGNATURE", "UNEXPECTED_TERMINAL"}

(* Where the program can be: about to do a block's work, about to advance  *)
(* from a phase, about to finish, or at one of its two ends.               *)
Places == ({"work"} \X Blocks) \union ({"advance"} \X (START .. COMMIT))
            \union {<<"finish", DONE>>}

Running == at \in {"work", "advance", "finish"}

(* control_flow_monitor_init *)
MonitorInit == [phase |-> START, signature |-> Signature[START], transitions |-> 0]

Init ==
  /\ monitor = MonitorInit
  /\ at = "advance" /\ block = START
  /\ status = "OK"
  /\ done = <<>> /\ jumps = 0 /\ slipped = FALSE /\ hit = {}

-----------------------------------------------------------------------------
(* control_flow_monitor_validate_current *)
ValidatePhaseOnly(expected) ==
  IF monitor.phase # expected THEN "INVALID_TRANSITION" ELSE "OK"

ValidateCurrent(expected) ==
  IF monitor.phase # expected THEN "INVALID_TRANSITION"
  ELSE IF monitor.signature # Signature[expected] THEN "BAD_SIGNATURE"
  ELSE "OK"

(* The successor of a word; transitions wraps around. *)
SuccessorUnbounded(w) == w + 1

Successor(w) == IF w + 1 \in Word THEN w + 1 ELSE 0

(* control_flow_monitor_advance and the early return after it. *)
AdvanceNoReturn ==
  /\ at = "advance"
  /\ status' = ValidateCurrent(block)
  /\ monitor' = IF status' = "OK"
                THEN [phase |-> block + 1, signature |-> Signature[block + 1],
                      transitions |-> Successor(monitor.transitions)]
                ELSE monitor
  /\ block' = block + 1
  /\ at' = IF block + 1 = DONE THEN "finish" ELSE "work"
  /\ UNCHANGED <<done, jumps, slipped, hit>>

Advance ==
  /\ at = "advance"
  /\ status' = ValidateCurrent(block)
  /\ IF status' = "OK"
     THEN /\ monitor' = [phase |-> block + 1,
                         signature |-> Signature[block + 1],
                         transitions |-> Successor(monitor.transitions)]
          /\ block' = block + 1
          /\ at' = IF block + 1 = DONE THEN "finish" ELSE "work"
     ELSE at' = "stopped" /\ UNCHANGED <<monitor, block>>
  /\ UNCHANGED <<done, jumps, slipped, hit>>

Work ==
  /\ at = "work"
  /\ done' = Append(done, block)
  /\ at' = "advance"
  /\ UNCHANGED <<monitor, block, status, jumps, slipped, hit>>

(* control_flow_monitor_finish *)
FinishCheck ==
  IF monitor.phase # DONE THEN "UNEXPECTED_TERMINAL"
  ELSE IF monitor.signature # Signature[DONE] THEN "BAD_SIGNATURE"
  ELSE "OK"

Finish ==
  /\ at = "finish"
  /\ status' = FinishCheck
  /\ at' = IF status' = "OK" THEN "completed" ELSE "stopped"
  /\ UNCHANGED <<monitor, block, done, jumps, slipped, hit>>

(* The harness runs the program again with a fresh monitor. *)
RestartStale ==
  /\ ~Running
  /\ monitor' = [monitor EXCEPT !.phase = START]
  /\ at' = "advance" /\ block' = START /\ status' = "OK"
  /\ done' = <<>> /\ jumps' = 0 /\ slipped' = FALSE /\ hit' = {}

Restart ==
  /\ ~Running
  /\ monitor' = MonitorInit
  /\ at' = "advance" /\ block' = START /\ status' = "OK"
  /\ done' = <<>> /\ jumps' = 0 /\ slipped' = FALSE /\ hit' = {}

FaultsLeft == jumps + Cardinality(hit) < MaxFaults

(* A jump inside one phase (block holds the phase the program is in) skips *)
(* or repeats that block's work between the same two transitions.          *)
Jump(place) ==
  /\ Running
  /\ FaultsLeft
  /\ place # <<at, block>>
  /\ at' = place[1] /\ block' = place[2]
  /\ jumps' = jumps + 1
  /\ slipped' = (slipped \/ place[2] = block)
  /\ UNCHANGED <<monitor, status, done, hit>>

MonitorUpset(f, w) ==
  /\ Running
  /\ FaultsLeft
  /\ w # monitor[f]
  /\ monitor' = [monitor EXCEPT ![f] = w]
  /\ hit' = hit \union {f}
  /\ UNCHANGED <<at, block, status, done, jumps, slipped>>

Next ==
  \/ Advance \/ Work \/ Finish \/ Restart
  \/ \E place \in Places : Jump(place)
  \/ \E f \in MonitorFields, w \in Word : MonitorUpset(f, w)

Spec == Init /\ [][Next]_vars

-----------------------------------------------------------------------------
TypeOK ==
  /\ monitor \in [MonitorFields -> Word]
  /\ <<at, block>> \in Places \/ (at \in {"completed", "stopped"} /\ block \in Phases)
  /\ status \in Statuses
  /\ done \in Seq(Blocks)
  /\ jumps \in 0 .. MaxFaults /\ slipped \in BOOLEAN /\ hit \subseteq MonitorFields

(* The monitor's promise is against one jump, together with hits on its    *)
(* transition count and on its phase or its signature but not both: a jump *)
(* out of a phase and back, or a forged pair, is beyond it by design.      *)
Covered ==
  jumps <= 1 /\ ~slipped /\ ~({"phase", "signature"} \subseteq hit)

(* A program that runs to its end under such faults never jumped, did all  *)
(* its work, once and in order, and its transition count is right unless   *)
(* it was hit: a jump cannot be hidden by a hit on phase or signature.     *)
CompletedInOrder ==
  (at = "completed" /\ Covered) =>
    /\ jumps = 0
    /\ done = <<READ_INPUT, COMPUTE, VALIDATE, COMMIT>>
    /\ "transitions" \in hit \/ monitor.transitions = 5

(* A jump to a foreign block does that block's work at most, then the next *)
(* transition stops the program.                                           *)
InOrderUpTo(n) == [i \in 1 .. n |-> i]

StrayWorkIsOneBlock ==
  Covered => \E n \in 0 .. COMMIT :
                \/ done = InOrderUpTo(n)
                \/ \E b \in Blocks : done = Append(InOrderUpTo(n), b)

(* The monitor raises no false alarm and its status names a fault that     *)
(* happened: a bad signature is never reported of a mere jump.             *)
DiagnosisIsRight ==
  /\ status \in {"INVALID_TRANSITION", "UNEXPECTED_TERMINAL"}
       => jumps > 0 \/ "phase" \in hit
  /\ status = "BAD_SIGNATURE" => hit \intersect {"phase", "signature"} # {}
=============================================================================

------------------------------- MODULE Verdict -------------------------------
(***************************************************************************)
(* What the host makes of one fuzz trial: the facts of the plugin's result *)
(* record (internal/fuzz/engine.go), the class they are given              *)
(* (internal/fuzz/classify.go) and what each campaign asks of a trial      *)
(* (internal/fuzz/campaigns.go).  Operators only.                          *)
(*                                                                         *)
(* The stderr of QEMU is a sequence of chunks, each the facts of a few     *)
(* consecutive @@FT lines; a value is a natural number, Empty or Garbled.  *)
(***************************************************************************)
EXTENDS Naturals, Integers, SequencesExt

Empty   == -1       \* key= with nothing after it
Garbled == -2       \* not an integer

-----------------------------------------------------------------------------
(* Facts *)

Sentinel == [end |-> 1]                             \* the line @@FT-END

(* Later values win. *)
LastTelling(key, chunks) ==
  CHOOSE i \in DOMAIN chunks :
    /\ key \in DOMAIN chunks[i]
    /\ \A later \in i + 1 .. Len(chunks) : key \notin DOMAIN chunks[later]

ParseFacts(chunks) ==
  [key \in UNION {DOMAIN chunks[i] : i \in DOMAIN chunks} |->
     chunks[LastTelling(key, chunks)][key]]

HasSentinel(chunks) == Sentinel \in ToSet(chunks)

Keys(facts, names) == [name \in names |-> facts[name]]

Present(facts, name) == name \in DOMAIN facts

IntFact(facts, name) ==
  IF Present(facts, name) /\ facts[name] \in Nat THEN facts[name] ELSE 0

-----------------------------------------------------------------------------
(* The classifier *)

RequiredFacts == {"harness_done", "harness_detected", "harness_corrected",
                  "harness_safe_state", "harness_output", "harness_expected"}

(* The facts the plugin adds, and the window length measured for the host. *)
PluginFacts == {"injected", "instruction_budget_exhausted", "window_insns_total"}

WellFormed(facts) ==
  \A name \in RequiredFacts : Present(facts, name) /\ facts[name] # Garbled

(* What the plugin writes: a location for a fault in a register or the     *)
(* program counter, and the record in parts, its sentinel last.            *)
Location == [injected |-> 1]

WrittenRecord(record) ==
  IF record = <<>> THEN <<>>
  ELSE <<Keys(record, RequiredFacts), Keys(record, PluginFacts), Sentinel>>

Flag(facts, name) == IntFact(facts, name) # 0

OutputIsExpected(facts) ==
  IntFact(facts, "harness_output") = IntFact(facts, "harness_expected")

(* Claims of the image that exclude each other. *)
Contradicts(facts) ==
  \/ Flag(facts, "harness_corrected") /\ ~Flag(facts, "harness_detected")
  \/ Flag(facts, "harness_safe_state") /\ ~Flag(facts, "harness_detected")
  \/ Flag(facts, "harness_corrected") /\ ~OutputIsExpected(facts)

Finished(facts) == IntFact(facts, "harness_done") = 1

(* The class of a trial that ran to its end and whose facts are in order. *)
OutcomeClass(facts) ==
  CASE Flag(facts, "harness_detected") /\ Flag(facts, "harness_safe_state") -> "fail_safe"
    [] /\ Flag(facts, "harness_detected") /\ ~Flag(facts, "harness_safe_state")
       /\ OutputIsExpected(facts) -> "corrected"
    [] /\ Flag(facts, "harness_detected") /\ ~Flag(facts, "harness_safe_state")
       /\ ~OutputIsExpected(facts) -> "detected"
    [] ~Flag(facts, "harness_detected") /\ ~OutputIsExpected(facts) -> "sdc"
    [] OTHER -> "passed"

OutcomeClasses == {"fail_safe", "corrected", "detected", "sdc", "passed"}

ClassifyExitFirst(trial) ==
  LET facts == trial.facts
  IN  IF trial.status = "exit" THEN "crash"
      ELSE IF trial.timeout \/ Flag(facts, "instruction_budget_exhausted") THEN "hang"
      ELSE IF \/ ~WellFormed(facts) \/ ~Finished(facts) \/ Contradicts(facts)
              \/ trial.requiresInjection /\ ~Flag(facts, "injected")
           THEN "invalid_trial"
      ELSE OutcomeClass(facts)

Classify(trial) ==
  LET facts == trial.facts
  IN  IF trial.timeout \/ Flag(facts, "instruction_budget_exhausted") THEN "hang"
      ELSE IF trial.status = "exit" /\ ~Finished(facts) THEN "crash"
      ELSE IF \/ ~WellFormed(facts) \/ ~Finished(facts) \/ Contradicts(facts)
              \/ trial.requiresInjection /\ ~Flag(facts, "injected")
           THEN "invalid_trial"
      ELSE OutcomeClass(facts)

Classes == OutcomeClasses \cup {"hang", "crash", "invalid_trial"}

-----------------------------------------------------------------------------
(* The campaigns *)

Campaign(injection, symbols, oneInsnPerTB, windowOffset) ==
  [RequiresInjection |-> injection, RequiresFuzzSymbols |-> symbols,
   RequiresOneInsnPerTB |-> oneInsnPerTB, UsesWindowOffset |-> windowOffset]

FuzzCampaigns == {"none", "ram-bitflip", "reg-bitflip", "insn-skip"}

FuzzCampaign ==
  [name \in FuzzCampaigns |->
     CASE name = "none"        -> Campaign(FALSE, FALSE, FALSE, FALSE)
       [] name = "ram-bitflip" -> Campaign(TRUE, TRUE, FALSE, FALSE)
       [] name = "reg-bitflip" -> Campaign(TRUE, FALSE, FALSE, TRUE)
       [] name = "insn-skip"   -> Campaign(TRUE, FALSE, TRUE, TRUE)]
=============================================================================

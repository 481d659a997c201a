----------------------------- MODULE FuzzPlugin -----------------------------
(***************************************************************************)
(* The QEMU plugin of a fuzz trial, plugins/qemu-ft-fuzz/qemu-ft-fuzz.c,   *)
(* over an image of harness/fuzz/c: called before every instruction in the *)
(* text, it hands the trial's seed to harness_main, watches the fault      *)
(* window, faults one instruction of it, and writes the result record when *)
(* the image is done or the instruction budget is spent.                   *)
(*                                                                         *)
(* The image is its protocol with the plugin; what a fault does to its data*)
(* is a choice of what it publishes; what a faulted register or a skipped  *)
(* instruction does to its control is a diversion: a bad return address or *)
(* stack takes it anywhere.                                                *)
(***************************************************************************)
EXTENDS Verdict

CONSTANTS
  Work,           \* instructions between opening and closing the window
  Fallback,       \* the bound of the offset when none was measured
  Bounds,         \* window_skip_bound, 0 when none was measured
  Budgets,        \* max_instructions, 0 for no limit
  MaxSteps,       \* bounds the instructions of a trial, above every budget
  MaxDiversions   \* bounds the diversions of a trial

ASSUME PluginAssumption ==
  /\ {Work, Fallback, MaxSteps, MaxDiversions} \subseteq Nat \ {0}
  /\ Bounds \subseteq Nat /\ Budgets \subseteq 0 .. MaxSteps - 2

VARIABLES
  trial,      \* the plugin's arguments, and whether it can reach its targets
  g,          \* PluginState
  at,         \* the instruction that is next
  memory,     \* the image's globals
  landed,     \* history: the faults that landed
  openings,   \* history: how often the plugin saw the window open
  finished,   \* history: the number of the instruction that set harness_done
  diversions  \* history: how often the image left its path

pluginVars == <<trial, g, at, memory, landed, openings, finished, diversions>>

-----------------------------------------------------------------------------
(* The image *)

Program ==
  <<"boot", "main", "open">> \o [i \in 1 .. Work |-> "work"]
    \o <<"close", "return", "publish", "finish", "spin">>

Outside == 0                          \* an address the plugin is not told of

Place(kind) == CHOOSE i \in DOMAIN Program : Program[i] = kind

OpenLength == Place("close") - Place("open")

Published(detected, corrected, safe, output) ==
  [harness_detected |-> detected, harness_corrected |-> corrected,
   harness_safe_state |-> safe, harness_output |-> output]

(* Right, silently wrong, corrected, stopped, and against itself.          *)
Clean == Published(0, 0, 0, 1)
Publications ==
  {Clean, Published(0, 0, 0, 0), Published(1, 1, 0, 1), Published(1, 0, 1, 0),
   Published(0, 1, 0, 0)}

(* .bss, as the start-up code leaves it; used is the seed the inputs and   *)
(* the expected value were drawn from.                                     *)
Zeroed == [window |-> 0, done |-> 0, seed |-> "zero", used |-> "none",
           facts |-> Published(0, 0, 0, 0)]

Execute(kind, m) ==
  CASE kind = "boot"    -> {Zeroed}
    [] kind = "main"    -> {[m EXCEPT !.used = m.seed]}
    [] kind = "open"    -> {[m EXCEPT !.window = 1]}
    [] kind = "close"   -> {[m EXCEPT !.window = 0]}
    [] kind = "publish" -> {[m EXCEPT !.facts = f] :
                              f \in IF landed' = <<>> THEN {Clean} ELSE Publications}
    [] kind = "finish"  -> {[m EXCEPT !.done = 1]}
    [] OTHER            -> {m}

Successor == IF Program[at] = "spin" THEN at ELSE at + 1

-----------------------------------------------------------------------------
(* The plugin *)

Install ==
  [done |-> FALSE, seed_written |-> FALSE, instruction_budget_exhausted |-> FALSE,
   active_window |-> FALSE, instructions_executed |-> 0, window_insns_seen |-> 0,
   window_insns_total |-> 0, inject_after |-> 0, injected |-> FALSE,
   inject_offset |-> 0, written |-> <<>>, hits |-> 0]   \* hits: history

UsesOffset == FuzzCampaign[trial.mode].UsesWindowOffset

Offsets == 1 .. (IF trial.bound # 0 THEN trial.bound ELSE Fallback)

OpenedKeepingRecord(s, offset) ==
  IF UsesOffset /\ trial.target # "none"
  THEN [s EXCEPT !.active_window = TRUE, !.window_insns_seen = 0, !.inject_after = offset]
  ELSE [s EXCEPT !.active_window = TRUE]

Opened(s, offset) ==
  LET fresh == [s EXCEPT !.active_window = TRUE, !.injected = FALSE, !.inject_offset = 0]
  IN  CASE trial.mode = "ram-bitflip" /\ trial.target = "ok" ->
             [fresh EXCEPT !.injected = TRUE, !.hits = @ + 1]
        [] UsesOffset /\ trial.target # "none" ->
             [fresh EXCEPT !.window_insns_seen = 0, !.inject_after = offset]
        [] OTHER -> fresh

(* A register or a pc that cannot be read is tried again at the next       *)
(* instruction; a fault that lands is streamed at once.                    *)
MaybeInject(s) ==
  LET seen == [s EXCEPT !.window_insns_seen = @ + 1]
  IN  IF ~UsesOffset \/ s.injected \/ trial.target = "none" THEN s
      ELSE IF \/ seen.window_insns_seen < s.inject_after
              \/ trial.target = "unreadable"
           THEN seen
      ELSE [seen EXCEPT !.injected = TRUE, !.inject_offset = seen.window_insns_seen,
                        !.written = Append(@, Location), !.hits = @ + 1]

HandleFaultWindow(s, offset) ==
  IF memory.window = 0 THEN [s EXCEPT !.active_window = FALSE]
  ELSE LET open == IF s.active_window THEN s ELSE Opened(s, offset)
       IN  MaybeInject([open EXCEPT !.window_insns_total = @ + 1])

AsInt(flag) == IF flag THEN 1 ELSE 0

RawResult(s) ==
  LET image == memory.facts
  IN  [harness_done |-> memory.done, harness_detected |-> image.harness_detected,
       harness_corrected |-> image.harness_corrected,
       harness_safe_state |-> image.harness_safe_state,
       harness_output |-> image.harness_output, harness_expected |-> 1,
       injected |-> AsInt(s.injected), window_insns_total |-> s.window_insns_total,
       instruction_budget_exhausted |-> AsInt(s.instruction_budget_exhausted)]

WriteRawResult(s) ==
  [s EXCEPT !.done = TRUE, !.written = @ \o WrittenRecord(RawResult(s))]

EnsureSeedWritten(s) == ~s.seed_written /\ Program[at] = "main"

OutOfBudgetInWindow(s) == trial.budget # 0 /\ s.window_insns_total > trial.budget

OutOfBudget(s) == trial.budget # 0 /\ s.instructions_executed > trial.budget

OnInstruction(offset) ==
  IF g.done THEN g
  ELSE LET s == [g EXCEPT !.instructions_executed = @ + 1,
                          !.seed_written = @ \/ EnsureSeedWritten(g)]
       IN  IF OutOfBudget(s)
           THEN WriteRawResult([s EXCEPT !.instruction_budget_exhausted = TRUE])
           ELSE IF memory.done = 1 THEN WriteRawResult(HandleFaultWindow(s, offset))
           ELSE HandleFaultWindow(s, offset)

-----------------------------------------------------------------------------
(* One instruction: the callback, and the instruction or, when the pc was  *)
(* written, its successor; a fault may divert a transfer of control later. *)

Opens == ~g.active_window /\ g'.active_window

Lands == g'.hits # g.hits

Skipped == Lands /\ trial.mode = "insn-skip"

Seeded == IF ~g.done /\ EnsureSeedWritten(g) THEN [memory EXCEPT !.seed = "trial"]
                                             ELSE memory

CallBack ==
  /\ at # Outside
  /\ g.done \/ g.instructions_executed < MaxSteps
  /\ \E offset \in Offsets : g' = OnInstruction(offset)
  /\ openings' = IF Opens THEN openings + 1 ELSE openings
  /\ landed' = IF Lands
               THEN Append(landed, [opening |-> openings', offset |-> g'.inject_offset,
                                    window |-> memory.window])
               ELSE landed
  /\ finished' = IF Program[at] = "finish" THEN g'.instructions_executed ELSE finished
  /\ UNCHANGED trial

Instruction ==
  /\ CallBack
  /\ IF Skipped THEN memory' = Seeded ELSE memory' \in Execute(Program[at], Seeded)
  /\ at' = Successor
  /\ UNCHANGED diversions

Diverted ==
  /\ CallBack
  /\ landed' # <<>> /\ UsesOffset /\ Program[at] \in {"work", "return"}
  /\ diversions < MaxDiversions /\ diversions' = diversions + 1
  /\ memory' = Seeded
  /\ at' \in (DOMAIN Program \cup {Outside}) \ {Successor}

PluginInit ==
  /\ trial \in [mode : FuzzCampaigns, bound : Bounds, budget : Budgets,
                target : {"ok", "none", "unreadable"}]
  /\ g = Install
  /\ at = 1 /\ memory = Zeroed
  /\ landed = <<>> /\ openings = 0 /\ finished = 0 /\ diversions = 0

PluginNext == Instruction \/ Diverted

(* The emulated processor goes on; it does nothing else by itself.         *)
PluginSpec == PluginInit /\ [][PluginNext]_pluginVars /\ WF_pluginVars(Instruction)

-----------------------------------------------------------------------------
(* Properties *)

Recorded == HasSentinel(g.written)

Facts == ParseFacts(g.written)

Class == Classify([facts |-> Facts, status |-> "completed", timeout |-> FALSE,
                   requiresInjection |-> FuzzCampaign[trial.mode].RequiresInjection])

PluginTypeOK ==
  /\ at \in DOMAIN Program \cup {Outside}
  /\ memory.window \in 0 .. 1 /\ memory.done \in 0 .. 1
  /\ memory.facts \in Publications \cup {Zeroed.facts}
  /\ g.window_insns_seen <= g.window_insns_total
  /\ g.window_insns_total <= g.instructions_executed
  /\ trial.budget # 0 => g.instructions_executed <= trial.budget + 1

(* A fault lands only while the image holds its window open, no further in *)
(* it than the offset that was drawn, and once for every opening.          *)
FaultsStrikeTheWindow ==
  \A i \in DOMAIN landed :
    /\ landed[i].window = 1
    /\ UsesOffset => landed[i].offset \in Offsets
    /\ \A j \in DOMAIN landed : j # i => landed[j].opening # landed[i].opening

(* With the length that a run without faults measures as its bound, every  *)
(* offset is inside the window: no trial of an image that keeps to its path*)
(* is wasted, and the measured length is that of the window.               *)
BoundedOffsetLands ==
  Recorded /\ Facts["instruction_budget_exhausted"] = 0 /\ diversions = 0 =>
    /\ trial.mode = "none" => Facts["window_insns_total"] = OpenLength
    /\ UsesOffset /\ trial.target = "ok" /\ trial.bound = OpenLength =>
         Facts["injected"] = 1

(* The record's fault is the one of the last opening: a window that is     *)
(* opened again after a diversion makes the trial forget an earlier fault, *)
(* and it is then invalid unless another one lands.                        *)
RecordIsOfTheLastOpening ==
  Recorded =>
    (Facts["injected"] = 1 <=>
       landed # <<>> /\ landed[Len(landed)].opening = openings)

(* An image that no fault reached is never blamed for one.                 *)
NoFaultNoBlame ==
  Recorded /\ landed = <<>> =>
    Class = IF Facts["instruction_budget_exhausted"] = 1 THEN "hang"
            ELSE IF FuzzCampaign[trial.mode].RequiresInjection THEN "invalid_trial"
            ELSE "passed"

(* The budget is looked at before harness_done: an image is called a hang  *)
(* although it is done only when finishing was the budget's last           *)
(* instruction.                                                            *)
FinishedHangIsAtTheBudget ==
  Recorded /\ Facts["harness_done"] = 1 /\ Facts["instruction_budget_exhausted"] = 1 =>
    finished = trial.budget

(* The inputs come from the trial's seed, which is written when .bss has   *)
(* been zeroed and before it is read; only an image that went back to its  *)
(* start-up code runs on another.                                          *)
SeedIsTheTrials == diversions = 0 => memory.used \in {"none", "trial"}

(* What FuzzTrial assumes of the child: streamed locations, each of a fault*)
(* that landed, then the whole record once, its sentinel last.             *)
StreamIsATrials ==
  \E n \in 0 .. Len(landed) :
    g.written = [i \in 1 .. n |-> Location] \o
                IF Recorded THEN WrittenRecord(Facts) ELSE <<>>

(* The record is the trial: the fault it names struck the open window of   *)
(* the last opening, on the trial's own seed, and the image is blamed for  *)
(* nothing the fault, the budget or the plugin did.                        *)
RecordIsTheTrials ==
  /\ PluginTypeOK
  /\ FaultsStrikeTheWindow
  /\ BoundedOffsetLands
  /\ RecordIsOfTheLastOpening
  /\ NoFaultNoBlame
  /\ FinishedHangIsAtTheBudget
  /\ SeedIsTheTrials
  /\ StreamIsATrials

(* A trial with a budget ends in a record, or the image is lost outside its*)
(* text, where no instruction is counted and only the host's deadline ends *)
(* the trial.                                                              *)
BudgetEndsTheTrial == trial.budget # 0 ~> Recorded \/ at = Outside
=============================================================================

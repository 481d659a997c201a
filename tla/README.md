# Formal models of fault-tolerance-comparison

The repository compares software fault-tolerance techniques by injecting faults
into small firmware images and counting what comes through. This directory holds
TLA+ models of the techniques, of the images, of the QEMU plugin and of the host
that injects the faults, runs the campaigns and shows their results; the TLC
configurations that check them on small instances; and TLAPS proofs of what
matters most.

The models follow the code under `src/`. Every modelling definition is mapped to
its source lines in `PROJECT.json` (`"map"`); the hazards the properties are
aimed at are listed there too, each at its line.

To check a model: `tlc -config MCCheckpoint.cfg MCCheckpoint.tla` (the run table
below gives module and configuration of each run). To check proofs:
`tlapm CheckpointProofs.tla`.

## 1. Inventory of the system

### Firmware libraries (`src/c`, `src/zig`)

Each technique exists twice, in C and in Zig, with the same layout and the same
control flow. They run single-threaded on bare metal; what interferes with them
is a hardware fault (an upset), at any instruction.

| Component | State | Operations | Hard behaviour | What makes it correct |
|---|---|---|---|---|
| Checker (`checker.h`) | a record: tag, value, min, max, length, capacity, checksum | `compute_checksum`, `refresh_checksum`, `record_init`, `record_validate` | a damaged word must fail some requirement; order of the requirements decides the status | a record that differs from a sealed one in one word never validates |
| Checkpoint (`checkpoint.h`) | `active` and `checkpoint` records | `init`, `capture`, `restore`, `commit_or_restart` | upsets between check and copy; both copies damaged; long call sequences | no call replaces a good checkpoint by a bad record; the status describes both copies; a copy that validates is never a corrupted one |
| Recovery block (`recovery_block.h`) | the double record, `recovery_block_result_t` | `run_with_hooks`, the two sample operations, `sample_update` | the unchecked second capture, store/seal windows, failing operations, rollback | an accepted result is the intended one in both copies; a failed block leaves the entry state; the alternate starts fresh |
| TMR (`tmr.h`) | copies `a`, `b`, `c`, `fault_count` | `init`, `write`, `read` | reads never repair a copy; the count saturates | one damaged copy is masked; a failed vote leaves a trace |
| Control flow (`control_flow.h`) | phase, signature, transitions | `init`, `validate_current`, `advance`, `finish` | jumps and monitor upsets at any place | out-of-order work stops; no false alarm |

### Firmware images (`src/harness/e2e`, `src/harness/fuzz`, `src/harness/common`)

* **Workflow images.** `combined_harness` chains all techniques (vote, recovery
  block, validation gate, checkpoint commit, under the monitor);
  `baseline_harness` is the same workflow with none. State: the `harness_*`
  globals the host reads, the triplet and the double record. One loop iteration
  re-initialises everything, stops at an injection point where the host writes a
  fault, runs, classifies and counts a pass or a failure. Correct when the
  combined image never commits a wrong value and stops before the commit when it
  stops; the baseline is the control.
* **Single-technique e2e images** (`tmr`, `checkpoint`, `recovery_block`,
  `control_flow`): the same loop around one technique, with a `validate` that
  states the expected facts of each fault target.
* **Fuzz images**: single-shot versions. A fault may strike any instruction
  while the image holds its fault window open; the image publishes facts (`detected`,
  `corrected`, `safe_state`, the result) for the classifier.

### Fault injection

* **QEMU plugin** (`src/plugins/qemu-ft-fuzz`): watches the window flag, picks a
  point in it, flips a register bit or skips an instruction once, enforces an
  instruction budget, writes the result record when the image says it is done.
  Hard: the window closing and reopening, budget against completion.
* **Host, GDB-driven** (`internal/e2e`, `internal/gdbmi`, `internal/qemu`): starts
  QEMU, sets breakpoints at the injection points, and on each stop writes the
  fault chosen for the iteration and continues. Hard: stop notifications against
  timeouts and cancellation, late replies, leftover processes.
* **Host, fuzzing** (`internal/fuzz`): measures the window, runs one QEMU process
  per trial, polls for the result, times out, classifies. Hard: a result
  published between the last poll and the deadline, cancellation, aggregation.

### Front end (`src/harness/tui`)

The terminal model (`internal/tui`) keeps the states of a run, a build and an
export, and receives rows and completion messages from goroutines. Hard: messages
of a run that was cancelled or cleared, keys between any two messages, selections
that outlive the choices they were made from. The command line (`cmd/harness-tui`)
resolves a run, starts an engine and writes a file: hard is which of its steps may
fail and what the exit code then says. The Zig build reads a pipe that more than
one process may hold. Symbol lookup, manifest and row formatting are pure, but
two sides in two languages must agree on them.

### How the parts interact

```
TUI / CLI --> run resolution --> e2e engine --> GDB/MI --> QEMU --> e2e image
                              \-> fuzz engine --> QEMU + plugin --> fuzz image
image: harness_main --> technique libraries (direct calls, shared globals)
host <-> image: harness_* globals at breakpoints (e2e), result record (fuzz)
```

## 2. What is modelled

| Module | Models | State and actions |
|---|---|---|
| `Checker` | `checker.h` | operators only: `Checksum`, `Refresh`, `RecordInit`, the `Require*` checks and `Validate`, which returns the first that fails |
| `StableStore` | nothing in the code: the abstract promise of a double record | a working and a saved value, each of which may be `Lost`; write, save, roll back, lose |
| `Checkpoint` | `checkpoint.h` | the two records, one action per part of a call (validation, then structure copy), the program's updates, upsets |
| `RecoveryBlock` | `run_with_hooks` with the sample operations | one action per statement of the operations (store, seal, exceed, reseal, break) and per half of a library call (validation, then structure copy, of the capture, the acceptance and the rollback); upsets between any two |
| `SampleUpdate` | the two sample computations | the alternate's loop, one action per turn |
| `Tmr` | `tmr.h` | copies and count; write, vote, delivery of the chosen copy, re-init, upsets |
| `ControlFlow` | `control_flow.h` and a program under it as in `control_flow_harness.c` | advance, one block of work per phase, finish, restart; jumps and monitor upsets |
| `Workload` | the inputs, expected values and workflow campaigns shared by image and host | operators only |
| `Baseline`, `Combined` | the two workflow images driven by their host | one action per phase of the main loop and of `run_workflow` |
| `TechniqueImages` | the four single-technique e2e images with the host's tables and choice | one action per part of the loop: begin, inject at the stop, run the technique, validate; the inputs and rotations of the real campaigns |
| `Resolve` | what a request for an e2e run resolves to: lists, matrix, defaults, cap | operators only |
| `E2EImages` | the composition of the models above: all six e2e images under every request that resolves | picks a request, then runs its image |
| `FuzzState` | what the six fuzz images share: draws, exported words, published facts, the library calls they make | the fault in one word, before any step; one action per statement of an operation and per half of a call (comparison and load of a vote, validation and copy, store and seal) |
| `FuzzWorkflow` | the combined and the baseline fuzz image around those calls | one action per transition, per answer to a call, and for publishing |
| `FuzzImages` | the four single-technique fuzz images around them | the same for each technique |
| `FuzzGuests` | the composition of those: all six fuzz images | runs the image it drew |
| `FuzzPlugin` | the QEMU plugin and the protocol of an image with it | one action per instruction: the image's step and the plugin's callback; diversions of the image |
| `Verdict` | the classifier | operators only |
| `QemuProcess` | `internal/qemu`: the child, its pipe, its reaper, `Terminate` | run, write, exit, drain, reap, terminate, kill |
| `Trial` | the abstract trial: pending, then one outcome, then taken | finish, take, cancel |
| `FuzzTrial` | the outcomes a trial can have, and the polling runner over `QemuProcess` | one action per check of the runner's loop, with the deadline, the user and the process in between |
| `Columns` | what both kinds of rows are made with: a row filled without changing a field, some fields of a list kept in their order | operators only |
| `FuzzRows` | the row of a trial: host's fields, facts, columns and their order | operators only |
| `Campaign` | nothing in the code: the abstract promise of a run to its caller | rows one at a time, then one end |
| `FuzzEngine` | the fuzz engine over `FuzzTrial` | set up, measure, next trial, collect, end; every step of the trial under way; the user cancels |
| `GdbClient` | `internal/gdbmi`: commands, the reader and its two channels, stops | send, answered, refused, timed out, continue, close |
| `E2EEngine` | the e2e engine over `GdbClient` and `QemuProcess` | start, wait for the port, connect, one action per access and per wait of an iteration, teardown |
| `E2ERows`, `E2EResults` | e2e rows: deltas, results, columns, labels; the table of what `E2EEngine` returned | operators only |
| `Tui` | the interface's run, build, export and their messages | one action per key, per message received, per step of a goroutine |

`MC*` modules give the constants of a run their values and nothing else.

How they compose. `FuzzEngine` runs `FuzzTrial` step by step, which runs
`QemuProcess`; what comes out of a trial goes through `Verdict` and `FuzzRows`.
`FuzzTrial` implements `Trial`. `E2EEngine` runs `QemuProcess` and `GdbClient`
side by side, and `E2EResults` makes the table of the rows it returned. Both
engines implement `Campaign`, and `Tui` takes from it how a run returns
(`EndCampaign`, an assumption there). `FuzzPlugin` and `FuzzGuests` put what an image
publishes through `Verdict`, the host's classifier. `E2EImages` takes the campaigns `Resolve` accepts to the images.

A composition names the properties of its parts and checks them together: a
property such as `ResultIsTheChilds` is a conjunction of named claims, each
commented where it is defined.

Conventions. An operator named like a mapped one with a suffix
(`CaptureUnchecked`, `VoteFirstCopy`, ...) just before it is a plausible bug of
that code; it is used by no model and documents which property would notice it.
History variables (`touched`, `spoiled`, `hits`, `entry`, `intended`, `done`,
`committed`, ...) are marked in the declarations; they are never read by a
modelled action except to bound the faults.

Abstractions.

* Words are a finite set of naturals `Word`, and one round of the checksum is a
  constant function `Mix` of which only `MixAssumption` is known: injective in
  the hash for a fixed word and in the word for a fixed hash. The code's round
  (xor, multiplication by an odd constant modulo 2^32, rotation) is a composition
  of bijections, so it satisfies the assumption.
* Upsets replace one word. In `Checkpoint` and `RecoveryBlock` an upset does not
  hit a copy that is already damaged (two changed words can cancel out in any
  32-bit checksum, so nothing is promised of them), except an active record that
  is being rewritten and has not been sealed yet.
* A vote of `Tmr` is one step and the load of the chosen copy another; a hit
  between two comparisons of one vote is not modelled.
* In `Combined` a checksum is the fact that it matches and a signature the phase
  it belongs to: the campaigns inject one fault per iteration, and one changed
  word never goes unnoticed (`OneWordDetected`).
* `0xFFFFFFFF` exceeds TLC's integers. `AllOnes` is a number above every range
  with the same remainder modulo 700, which is all the images compute of it.
* A fuzz fault on data is one changed word: of the exported state, the voted or
  elected value, the sample and the computed value. The facts, statuses, addresses
  and branch conditions an image holds in registers are not hit; a fault on control
  (a skipped instruction, a bad return address) is a diversion of the image to any
  of its instructions or out of its text. What an instruction computes is not
  modelled.
* The steps of `RecoveryBlock` and of the fuzz images are statements and halves of
  library calls. In the fuzz images, which have one fault, a hit inside a half says
  nothing new. Within a validation or a vote's comparisons the word that is hit has
  been read already or is read with the hit; within a structure copy it has been
  copied already or is copied with it. It is then the same as a hit behind that half
  or before it. In `RecoveryBlock` and `Checkpoint`, which have two, a hit inside a
  half is not modelled.
* A line, a row or a symbol is a record of what the properties tell apart; time
  is the order of events, and a timeout or deadline may pass at any moment.
* The operating system is modelled from its use: a pipe gives what was written in
  order, an exit status is reaped once, a killed process dies. GDB answers a
  command with its result record, or never, and reports a stop once.
* `RecoveryBlock` follows the C code where `max + 1u` wraps around; the Zig
  version traps there in safe builds.

## 3. Runs

| Run | Question | Properties | Instance |
|---|---|---|---|
| `checkpoint` | does the double record lie, under any order of calls and upsets? | `TypeOK`, `CheckpointLostOnlyByUpset`, `ReportIsTruthful`, `NeverLies` (refinement of `StableStore`) | 4 words, 2 values, 2 upsets of any word to any word |
| `recovery_block` | what do an accepted, a failed and a rolled-back block leave behind? | `TypeOK`, `AcceptedIsExpected`, `FailureKeepsEntry`, `AlternateStartsFresh`, `FaultsDecideOutcome` | 4 words, 2 samples, all 16 fault combinations, 2 upsets out of a chosen set between any two steps |
| `sample_update` | are the two operations the same function? | `OperationsAgree` | the code's constants, every residue modulo 700 and inputs above it |
| `tmr` | what do votes deliver when copies are hit between reads and writes? | `TmrTypeOK`, `MasksOneFault`, `FailureLeavesTrace` | 4 values under symmetry, count saturating at 2 |
| `control_flow` | can a program thrown off its path complete or keep working? | `TypeOK`, `CompletedInOrder`, `StrayWorkIsOneBlock`, `DiagnosisIsRight` | 8 words, 3 faults per run |
| `e2e_images` | what becomes of each fault the host injects into each e2e image? | `ProtectedRunIsSafe`, `EachFaultHasItsAnswer` (combined), `FaultsComeThrough` (baseline), `CampaignsMeetTheirFaults`, `RowTellsTheTruth` (single techniques) | every request that resolves, 6300 and 2100 iterations |
| `baseline_claim` | is every fault on the baseline a failure, as documented? | `FailsEveryFault` (violated) | all workflow campaigns, 6300 iterations |
| `fuzz_guests` | what does the classifier make of one data fault anywhere in a fuzz image? | `RamFaultsAreAnswered`, `SilentOnlyUncompared` | 6 images, 5 draws of the generator, two bits of a value |
| `fuzz_plugin` | where do the plugin's faults land and what does its record say? | `RecordIsTheTrials`, `BudgetEndsTheTrial` | a window of 2 instructions, 4 budgets, 2 diversions, 20 instructions |
| `fuzz_engine` | what is left of a trial, and do verdicts, rows, histogram and error agree with it? | `ResultIsTheChilds`, `CampaignAgrees`, `VerdictIsSound`, `RowTellsTheVerdict`, `RefinesTrialAndCampaign` (refinement of `Trial` and `Campaign`), `CampaignEnds` | 2 trials and the measuring run, 2 campaigns, 2 records |
| `e2e_engine` | what do the rows and the table of an e2e campaign say, and what is left of it? | `CampaignIsTheImages`, `SessionIsSound`, `TableIsTheCampaign`, `IsACampaign` (refinement of `Campaign`), `E2EEnds` | 3 iterations, 2 stops in the channel, 6 codes; a leftover image with up to 1 iteration and 3 settings of its fault words |
| `tui` | does the interface hold the state of one run, whatever is pressed? | `ResultsAreOfTheLastRun`, `EveryRunReturns` | 2 runs or builds of 2 rows, 2 messages in a channel, a tail of 1 line |

What they show.

* **Checkpoint.** The two copies, read through validation, behave like a store
  whose cells keep the value last written, saved or rolled back to, or are
  visibly lost. The one way a damaged record becomes the checkpoint is a hit
  between its validation and the copy, and it is then damaged visibly. A returned
  status and its two checks stay true until somebody else writes a copy.
* **Recovery block.** An accepted block leaves the same, right record in both
  copies unless a hit fell into one of three windows. Before the record is sealed for
  the last time, the operation seals whatever the record holds, the entry capture's
  copy included. Behind the acceptance test, the capture that follows is not looked
  at: the block reports acceptance all the same, with the old checkpoint or with the
  hit in both copies. And a checkpoint hit between its validation and its copy is what
  the alternate starts from and seals. (The property excludes every hit on the active
  record but one just before the acceptance test, which is always found.) A failed
  block restores the entry state, or the hit its rollback copied, which no longer
  validates; `RESTORE_FAILED` requires a hit on the checkpoint or on the record while
  it is captured. Without upsets the injected faults alone decide the outcome.
* **TMR.** Any number of hits on one copy between two writes are masked; once two
  copies are hit, a wrong value can be delivered, but never with a clean count
  unless all three were hit. The saturating count cannot return to zero.
* **Control flow.** After one jump, with the transition count and one of phase and
  signature hit as well, the program does not complete, and it does at most one
  stray block's work before it is stopped. A completed program did all its work in
  order. A jump inside one phase, two jumps, or a forged pair are outside the
  monitor's promise (`Covered`).
* **Workflow images.** No campaign gets a wrong value committed in the combined
  image. A safe stop is always before the commit. A hit copy is outvoted, a bad
  primary is replaced by the alternate, a bad commit falls back to the captured
  record; three-way disagreement and monitor faults stop. The validation gate is
  never branched on: the protection is the validation inside the commit.
* **Single-technique images.** Under every campaign the host offers, each fault
  gets the facts its image's `validate` waits for: the counts the host derives are
  all passes. The host's table, the image's hooks and its `validate` are three
  lists of the same targets, kept in agreement by nothing but these runs.
* **Fuzz images.** No bit flipped in the exported state as the window opens gets a
  wrong output through silently in the combined image. A fault at another time does
  so only in the places `Uncompared` lists: the copy a vote has elected but not
  loaded, the sample on its way to both computations, a stored value before its seal,
  a record behind its last validation (in the commit, between validation and copy)
  and a result on its way out. In the workflow a record hit between its acceptance
  test and the second capture is accepted with the old checkpoint; the commit finds it
  and puts the entry record back, which the classifier calls `detected`. A stop is
  reported late, after a commit, only for a hit on the monitor itself, and the value
  is then right.
* **Plugin.** Faults land in the window, no deeper than drawn and once for an
  opening; with the measured length no trial of an image that keeps to its path is
  wasted; an image no fault reached is never blamed for one. A trial with a
  budget ends in a record unless its image left the text.
* **Fuzz trial and engine.** A record that was there at the last look is not lost
  to the deadline or to an exit; a completed trial carries the whole record; no
  trial leaves a child behind, and every trial and campaign ends. Rows, histogram
  and error agree, and a class never says more than the record. Reading the cells
  of a row back gives the class the row states.
* **E2E engine.** Rows are consecutive iterations of one process, each with the
  whole fault chosen for it; replies that come late and stops told before a
  continue are not taken for others. The table has every reading, each code under
  the name the image has for it, and each row the result the image counted. A QEMU
  left on the port costs three exceptions, which the properties name. If its image had
  counted failures, the first row says `fail` whatever came of its iteration
  (`e2e_csv.go:145` takes the difference to nothing; `ResultOf`). If it stood at its
  inject stop, the first continue ends at the other stop, a wrong one, although
  nothing strayed (`WrongStopIsTheImages`), and it applies the words the earlier
  session wrote (`FaultsAreWhole`). No failure goes unseen that way: a campaign is a
  success only when the image never failed. The campaign ends, with its child gone or
  killed, whatever GDB does.
* **Interface.** One run at a time, one listener for it, no late message of an
  earlier run; rows without a gap; every run gives the interface back.

### Findings

`baseline_claim` shows that a statement of the repository does not hold of its
code: the baseline "fails every fault it is given" (`harness/README.md:313`). It
passes one at iteration 195 of `workflow-tmr-single`: the fault's input
`0xFFFFFFFF` and the true one have the same remainder modulo 700.
`FaultsComeThrough` states what holds.

Other properties are stated around a sentence of the documentation that the code
does not keep. They say what does hold:

* `harness/README.md:104` says a trial injects at most one fault. A fault that
  sends the image back before its window opens a second one, and is injected
  again; `RecordIsOfTheLastOpening` (in `RecordIsTheTrials`) says what the record
  then holds.
* `harness/README.md:131` lists a class `masked`; the classifier calls it
  `passed` (`Verdict!OutcomeClass`).
* `qemu.go:117` says the wait is for the child's port. Any listener ends it, a QEMU
  left over for one: `RowsAreTheIterations` only says that the rows are of one
  process (`row.remote`).
* `e2e/engine.go:37` says a cancelled campaign returns `ctx.Err()`. Not while it is
  being set up: `Campaign` lets a cancelled run fail.
* `PLAN.md:145` and `view.go:143` say Export is enabled only when idle with results.
  The button is drawn as disabled during a run, but `activate` and `beginExport` look
  at the rows only, so the prompt opens and writes what has arrived so far: `Tui`'s
  `BeginExport` does not ask for the state, and `ResultsAreOfTheLastRun` holds of the
  rows at every moment.
* `PLAN.md:152` says deltas are computed over the full sequence. Clear during a run
  cuts it: `RowsAreOfTheLastRun` does not ask for the first row.

### Bounds, and why they are enough

* `MaxUpsets = 2`: the properties of the double record differ between no, one and
  two damaged copies; each copy is damaged at most once at a time.
* 4 words (two bits): enough for a value below, at, inside and above a range, a
  wrong tag, and a maximum at the word's end. All fields can be hit. In
  `recovery_block` the upsets are limited to the set `Flips` of field and word
  pairs, to keep the state space below a million states: another value inside the
  range, a value below it, a wider bound and a broken checksum. The theorems about
  it hold for every `Flips`.
* `MaxFaults = 3` in `control_flow`: a jump and two hits, one more than any
  property needs to be violated by a bug; runs of the program are restarted with
  a fresh monitor, so any number of runs is covered.
* `MaxCount = 2` in `tmr`: the saturation point is reached and passed.
* `MaxIteration = 6300`: the input has period 700 and the mixed campaign period
  9, so 6300 iterations meet every pair of input and fault.
* `sample_update` uses the real constants with a word of 2^15: no intermediate
  result of the code reaches it (the proof covers every word size that fits).
* `e2e_images`: as above for the workflow images; for the single techniques 2100
  iterations are a common multiple of the inputs' period 700 and the mixed
  rotations' periods (up to 6), so every input meets every fault.
* `fuzz_guests`: draws that give the ends of the range `100 + rng % 700`, inputs with
  bit 4 set and with it clear, and one far above it, which `tmr` and `recovery-block`
  take as drawn. A flipped bit 4 mostly stays in the records' range, bit 10 always leaves it. Other
  words are equal or not.
* `fuzz_plugin`: a window of two instructions has a first, a last and, with the
  fallback of 4, an offset behind it; the budgets expire before, at and behind
  the instruction that finishes the image, or never; 20 instructions are two runs
  of the image's ten, for two diversions.
* `fuzz_engine`: two records, a silent corruption by the fault and a right output
  that no fault reached, which with cuts, exits, deadlines and cancellations give
  an outcome, a crash, a hang and an invalid trial; one location streamed before
  the record; two trials have a first, a last and one in between for a
  cancellation; one campaign without a fault, and one that measures.
* `e2e_engine`: three iterations with two different faults, so that a value left
  over from one would show in the next; a channel of two stops is overrun by a stray
  stop. Each table of names knows some of the codes and not the others. `Former = 1`:
  a leftover image with no iteration or one, passed or failed, at each of its stops,
  with none, half or all of a fault written; more iterations only raise its counters.
* `tui`: two runs of two rows show everything one run can leave to the next; with
  channels of two a goroutine blocks on each of them.

Deadlock is checked in `checkpoint`, `recovery_block`, `tmr` and `control_flow`,
whose programs go on for ever. It is off where a campaign or a trial really ends,
and where a bound ends the behaviour (the last iteration of an image, the
alternate's loop, the last instruction of a plugin's trial, the last run of the
interface).

### Fairness

The techniques and images state safety only: straight-line code without waiting,
and a caller is free to stop calling. The host waits, and its models assume:

* `FuzzEngine`, `E2EEngine`: weak fairness of the host's goroutine (the Go scheduler
  runs it), of the process's own bookkeeping (copying the pipe, reaping), of the
  passing of deadlines and timers, and that a killed process dies. Nothing is
  assumed of the image, of QEMU's answers, of GDB or of the user: every wait of the
  code on them has a timeout, and that is what `CampaignEnds` and `E2EEnds` rest on.
* `Tui`: weak fairness of every run's goroutine and of the delivery of its messages
  by the Bubble Tea loop. Keys are never assumed to be pressed.
* `FuzzPlugin`: the emulator goes on executing instructions.

## 4. Proofs

TLAPS proves the following for every value of the constants that meets the
assumptions of the modules: any word size, any round function, any signatures that
differ between phases, any number of upsets, any window, budget and offset of the
plugin, any number of trials, of rows and of runs, any room in a channel.

What is assumed, and from which code:

* `WordAssumption`, `MixAssumption`: words are naturals and a round of the checksum
  is injective in each argument (section 2, abstractions).
* `SampleAssumption`, `RecoveryAssumption`: the records the callers build validate,
  and so do those of the updated samples (`checker.h`'s range and the operations'
  modulus).
* `ControlAssumption`: the signatures of the phases differ (`control_flow.h`).
* `TmrAssumption`: the fault count can count to one. `OperandAssumption`: the
  operands of the sample computations stay below the word size.
* `TuiAssumption`: a campaign has a row to ask for, a channel has room for one
  message and the build's tail for one line. That a campaign returns as `Campaign`
  promises is an assumption of the model (`EndCampaign`), not a result of it; the two
  engines are shown to keep it.
* `RecordsAssumption`: a record of an image has the keys the firmware's and the
  plugin's half of `write_raw_result` print.
* `NumbersAssumption`: under those keys stand numbers, as the `%u` and `%PRIu64` of the
  two halves print them. An empty text there would read in the row as a fact not told.
* `EngineAssumption`: at least one trial (`resolve.go:117-121` rejects a request for fewer) and
  only campaigns of the table.
* `E2EAssumption`: at least one iteration (`resolve.go:67-72` puts the default for
  none and rejects fewer) and room for one stop in the client's channel. A leftover
  QEMU runs the same image; one of another image has other symbols at the addresses
  of this one, and nothing is said of it. One that strayed before is covered as one
  that strays when it is resumed.
* `DrawAssumption`: the generator draws naturals. What the images make of a draw
  (`100 + rng % 700`, `100 + rng % 900`, or the draw itself) is in `Drawn`.
* `WorkloadAssumption`, `ImagesAssumption`: the word of all ones is odd, above every
  value and every iteration the model counts to, and has the remainder modulo 700
  that 0xFFFFFFFF has (395); at least one iteration.
* `PluginAssumption`: the window holds an instruction, the fallback length is not
  zero, and a budget leaves the model room to reach it.

| Theorem | States | Argument |
|---|---|---|
| `CheckerProofs!OneWordBreaksSeal`, `OneWordDetected` | a sealed record with exactly one word changed does not validate | the checksum is a chain of rounds, each injective in both arguments: a changed word changes the hash, and a changed hash stays changed |
| `CheckpointProofs!TypeCorrect` | `Spec => []TypeOK` | inductive as it stands, with `ChecksumType` and `InitSeals` |
| `CheckpointProofs!LossOnlyByUpset` | `Spec => []CheckpointLostOnlyByUpset` | strengthened by what holds at each `pc`: at a copy point the record about to be copied is valid unless touched since it was validated |
| `CheckpointProofs!ReportsAreTruthful` | `Spec => []ReportIsTruthful` | strengthened in the same way by what the pending result says at each `pc` |
| `CheckpointProofs!ImplementsStableStore` | `Spec => NeverLies` | step simulation: each step of the double record is a step or a stutter of `StableStore`; an upset maps to a loss because of `OneWordDetected` |
| `TechniqueProofs!LoopTypeCorrect`, `AlternateIsPrimary` | the alternate's loop computes the primary's value | loop invariant: the accumulator is `(Offset + i * reduced) % Modulus` |
| `TechniqueProofs!TmrTypeCorrect` | `TmrSpec => []TmrTypeOK` | inductive |
| `TechniqueProofs!OneFaultIsMasked` | `TmrSpec => MasksOneFault` | invariant: a copy that was not hit since the last write holds the value written, and the copy chosen by a vote is such a copy or one that agrees with it |
| `TechniqueProofs!FailureIsCounted` | `TmrSpec => []FailureLeavesTrace` | invariant `WrongReadCounted`: a read about to deliver a wrong value has already been counted |
| `RecoveryBlockProofs!RecoveryTypeCorrect` | `Spec => []TypeOK` | inductive, with the records the operations build |
| `RecoveryBlockProofs!AcceptedUpdatesAreRight`, `FailuresKeepEntry`, `AlternatesStartFresh` | `Spec => []AcceptedIsExpected`, `[]FailureKeepsEntry`, `[]AlternateStartsFresh` | one inductive invariant, `RecoveryInv` (below) |
| `RecoveryBlockProofs!FaultsAloneDecide` | `Spec => FaultsDecideOutcome` | `FaultsSteer`: without a hit the faults say at each `pc` which way the block goes; the wanted record of an intact entry validates, and each injected fault changes it |
| `TechniqueProofs!ControlTypeCorrect` | `Spec => []TypeOK` | inductive |
| `TechniqueProofs!CompletionsAreInOrder`, `StrayWorkIsBounded`, `NoFalseAlarm` | `Spec => []CompletedInOrder`, `[]StrayWorkIsOneBlock`, `[]DiagnosisIsRight` | one inductive invariant, `PathInv` (below) |
| `FuzzTargetProofs!PluginInvariant`, `RecordsAreTheTrials` | `PluginSpec => []RecordIsTheTrials` | the inductive invariant `PluginInv` (below), and lemmas on what a stream of locations and one record parses to |
| `FuzzTargetProofs!GuestsInvariant`, `RamFaultsAnswered`, `SilenceIsUncompared` | `Spec => []GuestsInv`, `[]RamFaultsAreAnswered`, `[]SilentOnlyUncompared` | the inductive invariant `GuestsInv` (below), one lemma per step of each image; then the classes of the classifier on what each kind of end publishes |
| `FuzzEngineProofs!TrialsAreTrue` | `Spec => []ResultIsTheChilds` | the inductive invariant `TrialInv` of a trial (below) |
| `FuzzEngineProofs!AccountsAgree`, `VerdictsAreTrue` | `Spec => []CampaignAgrees`, `[]VerdictIsSound` | `CampaignInv` (below), and the classes of the classifier one by one |
| `FuzzEngineProofs!TrialAndCampaignRefined` | `Spec => RefinesTrialAndCampaign` | step simulation: what a trial returns is one of the outcomes of `Trial`, and each step of the engine a step or a stutter of `Trial` and of `Campaign` |
| `E2EProofs!E2EInvariant`, `SessionsAreSound`, `CampaignsAreTheImages` | `Spec => []E2EInv`, `[]SessionIsSound`, `[]CampaignIsTheImages` | the inductive invariant `E2EInv` (below); the derived results from the counters row by row |
| `E2EProofs!CampaignRefined` | `Spec => IsACampaign` | step simulation: only `ReadRow` makes a row, only the user cancels, and once the engine gave up it only cleans up |
| `FuzzEngineProofs!RowsTellTheVerdict` | `Spec => []RowTellsTheVerdict` | facts keep apart in their columns and never meet a field the host fills first (`ColumnsApart`); the class rests only on facts that have a column (`SameClass`), so the row read back has it |
| `E2EProofs!TablesAreTheCampaigns` | `Spec => []TableIsTheCampaign` | the lists of columns technique by technique, the rank of a kept column (`KeptFields`), and the derived results of `CampaignIsTheImages` (`ResultIsTheCount`) |
| `E2EProofs!ImagesInvariant`, `ProtectedRunsAreSafe`, `FaultsAreAnswered`, `UnprotectedFaultsComeThrough` | `ImagesSpec => []ImagesInv`, `[]ProtectedRunIsSafe`, `[]EachFaultHasItsAnswer`, `[]FaultsComeThrough` | the inductive invariant `ImagesInv` (below), one lemma per step of each image; that the factor 37 is prime to 700 (`ResultTellsInput`) |
| `E2EProofs!CampaignsMeetThem`, `RowsTellTheTruth` | `ImagesSpec => []CampaignsMeetTheirFaults`, `[]RowTellsTheTruth` | the same invariant; the lists and tables name by name (`ResolvedIsOffered`, `MixedOrderIsComplete`), and the target of an iteration as that of its turn (`Turns`) |
| `TuiProofs!ShownIsTheLastRun` | `Spec => []ResultsAreOfTheLastRun` | the inductive invariant `TuiInv` (below) |

**Why the recovery block needs more than its properties.** What an accepted or
a failed block leaves behind is decided by records several steps earlier.
`RecoveryInv` says what those are. While a call is under way, and once the entry
capture has copied, the checkpoint is the record the call began with or was hit and no
longer seals (`CheckpointKept`, which rests on `OneWordDetected`). The active record is
at each step of an operation that record with the operation's stores in it
(`StartsFresh`, `Rewrites`), at the acceptance test what the faults of this call made
of it (`Sifted`), and behind it the wanted record (`Passes`), unless a hit in one of the
windows is on the list of hits. The second half of a restore is where the two meet: it
copies the entry record, or a checkpoint that was hit since it was validated. The
outcomes (`Outcome`) follow at the acceptance's copy and at the rollback's.

**Why the monitor needs more than its properties.** A completed program says
nothing of how it got there. `PathInv` says that the monitor always stands at some
phase, up to the fields that were hit (`MonitorSomewhere`); without a jump it is
the program's phase and the work so far is the prefix that belongs to it
(`OnPath`); after one covered jump it is another phase than the program's
(`OffPath`), so the next call of the monitor stops the program: it cannot complete,
and only the block it landed in has been worked.

**Why the interface needs more than its properties.** What is shown was sent long
before it is received, and keys are pressed in between. `TuiInv` numbers the
messages of each run as its goroutine sends them (`MessageAt`): the channel holds
those from the first one not taken to the last one sent, so their number is the
number sent less the number in the channel, and the number taken determines rows,
progress and tail unless they were cleared meanwhile (`RowsReach`, `TailReaches`).
A goroutine that has not ended is the one the interface holds (`Held`), which is
what makes a message of an earlier run impossible.

**Why the fuzz engine needs more than its properties.** A result is reported from
a buffer that was copied from a pipe that a child may still fill. `TrialInv` says
that there is one stream for each child, and that what was written, what is in
the buffer and what the runner last saw are beginnings of it (`PartOf`); what the
runner concluded at a step therefore stays true at the next one (`RunnerSound`),
and a result true when it is reported is true when it is taken (`ResultSound`).
`CampaignInv` adds how many rows there are at each step of the loop and how it
will end (`LoopSound`), and that no trial starts after a cancellation
(`CancelSeen`).

**Why the e2e engine needs more than its properties.** A row is made of what gdb
reads at one stop, of a fault chosen at an earlier one and written in two steps,
while replies, stops and timers arrive when they like. `E2EInv` says that at most
one command is under way, the one of the stage the engine is at or was at when it
gave up (`CommandAgrees`), and that the image runs only between a continue and the
stop that answers it (`RunningAgrees`). The stage therefore tells where the image
stands (`PlaceAgrees`), what its two words hold so far (`FaultAgrees`), how many
faults it has applied and whether one of them has no row yet (`AppliedAgrees`,
`Struck`), and what its counters are, those of the last row and at most one more
(`RowsAgree`). All of that is relative to where a leftover image began
(`LeftoverTypes`, `Behind`); one that was left at its inject stop is out of step with
the engine until its first stop ends the campaign (`OutOfStep`). An image that went
astray ends the campaign, so of it only the rows
made before are said. The first draft left open what the words hold before the
inject stop is taken; a fault left from the last iteration would then be applied
again.

**Why the plugin needs more than its properties.** A fault may send the image to
any of its instructions, so nothing can rest on its path. `PluginInv` follows what
holds in every run: the counters run side by side (`CountersAgree`), each fault
belongs to an opening of its own and the drawn offset is ahead while none landed
(`LandingsAgree`), `harness_done` is looked at one callback late
(`FinishingAgrees`), and what was written is some locations and at most one record,
of the plugin's state as it stays (`WrittenAgrees`). Only of an image that nothing
diverted (`OnItsPath`), and of one no fault reached (`Untouched`), does it say which
instruction is next and how far the window was counted; the seed and the blame of
a clean image rest on these two.

**Why the fuzz images need more than their properties.** What an image publishes at
its end was decided by a word that was hit some steps before. `GuestsInv` says
before each step what each word holds unless it was hit, which hits are still there
to be found, and which would have ended the run by then. A damaged copy of a record
stays unsealed until it is replaced (`RecordAgrees`, `CheckpointAgrees`,
`CopiesAgree`), but where a copy or a seal takes the hit along, and those are the
places `Uncompared` names. A monitor that was hit stays at odds with the step
(`MonitorAgrees`, `FlowAgrees`); a vote either has a copy outvoted or its count
hit (`VoteAgrees`, `TmrAgrees`); and `RecoveredAgrees` and `CommitAgrees` say what the
two calls returned and left. The baseline lets every fault through, not merely some
(`BaselineAgrees`): `FlipsMislead` shows that a flipped input never has the right
result, since neither bit is a multiple of 700 and the factor 37 is prime to it.
A fault in memory cannot hit a value that is only in a register (`Timed`). The
theorems hold for every draw and for the two bits the model flips.

**Why the e2e images need more than their properties.** Their properties speak of
the end of an iteration, and what stands there was decided by a fault written at its
start. `ImagesInv` says at each place of a main loop what the words hold, given that
fault. For the workflow: what was voted, what the record holds and which technique
has already answered (`AtRead` to `AtClassify` of `CombinedInv`). For a single
technique: its fresh state with the fault of this iteration written (`TmrStarts`,
`CheckpointStarts`), the rolled-back record with the reason in its facts
(`AlternateStarts`), the leg the monitor has reached (`ControlAfter`); and, by
then, that no iteration failed and that the faults injected so far are those of
the iterations so far (`Met`). The host's tables come in twice: every fault
they can choose is one the image handles (`ListedFaults`), and the order of a
mixed campaign meets every fault of its table (`MixedOrderIsComplete`), so one
round of it is enough. That the baseline fails unless a flipped input has the
remainder of the true one rests on `ResultTellsInput`: the result tells the
remainder, since 473 * 37 is 25 * 700 + 1. The run covers the period of the
inputs for one word of all ones; the theorems hold for every number of iterations.
TLC checked `ImagesInv` before the proof, on shorter campaigns: it names the set of
all faults so far, which is slow to evaluate.

**What the proofs showed of the models.** `VerdictIsSound` relied on the order in
which the classifier asks its questions; the invariant now names it
(`ClassIsTheImages` with `inOrder`). Campaigns of no trials and of no
iterations were allowed by the models and are not by the code. Of the definitions that were folds or merged
functions, `ParseFacts` states which telling of a key counts (the last),
`StreamIsATrials` that the record is the end of the stream, and the campaign table
and the raw result list their fields. Each means what it meant before.

Rows are filled without overwriting and lists of columns keep their order by rank
(`Columns`), where they were merged and selected before; the library states no theorem
on either of those. Reading a row back needs `NumbersAssumption`, which nothing
had stated.

The e2e images compare copies one by one where they counted distinct ones, and their
tables are functions by cases where they were merged from pairs; a row being true is
a definition of its own (`RowIsTrue`), which the invariant needs before the stop too.

Every invariant a run checks is the statement of a theorem.

Out of the prover's reach, here and later: liveness and `ENABLED` (`EveryRunReturns`,
`CampaignEnds`, `E2EEnds`, `BudgetEndsTheTrial`, and the refinements of specifications
that state fairness as far as they do); facts that need induction over data with an
operator parameter (folds); recursive operators (none
is used in a module with a theorem).

## 5. Plan

Done: the technique libraries with their proofs, the six e2e images with the
requests and campaigns that drive them, the six fuzz images, the plugin, the trial
runner and both engines, their rows, and the runs of the interface; the proofs of
the fuzz images, the e2e images, the plugin, the trial runner, both engines, their
rows and the interface.

Next:

1. **A vote in three comparisons**: hits between two comparisons of one vote in
   `Tmr`.
2. **The rest of the front end**: the form and its selections, the table's pages,
   the headless commands with their file and exit code, the Zig build's pipe.

## 6. Not modelled, and why

* Rendering, styles and key names of the interface (`view.go`, `styles.go`,
  `keymap.go`): layout only.
* The form (`form.go`) and the table's pages and cursor (`results.go`): sequential
  code on local state, behind the runs in the plan. `Tui` starts any run the
  interface could, whatever the form holds.
* The headless commands (`main.go`), the fuzz half of `resolve.go` and the parsing of
  numbers: sequential, behind the runs in the plan. Read while modelling: a hard
  error drops the partial rows there, which `e2e/engine.go:37-39` says never happens.
* The Zig build's pipe (`zigbuild/build.go`): `Tui` has a build as a run with lines
  and an end. After a line longer than the scanner's 64 KiB nobody reads on.
* Symbols and manifest (`internal/elf`, `manifest.go`) and the plugin's
  installation: the models take addresses, targets and arguments as given.
* Configuration and targets: static tables, and one TOML file decoded over
  defaults. The profile's `EntrySymbols` has no reader: the text range is bounded
  by a list of its own.
* The build description (`build.zig`), start-up assembly and linker scripts: data.
  What the models take of them is the order of the sections, the zeroed `.bss` and
  the start-up symbol. `IsELFStale` of the build package has no caller.
* Number and cell formatting and CSV quoting; the derivation of a trial's seed
  (one hash of its identity); the register table of the plugin (which register is
  hit is a choice).
* What an instruction computes: register faults and skipped instructions are a
  changed word or a diversion.
* Hits between two comparisons of one vote of `Tmr`.
* What becomes of the QEMU child when the interface is quit during a run: nothing
  in the repository says what should. `E2EEngine` has a QEMU left over from an
  earlier session on the port.

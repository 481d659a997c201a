------------------------------ MODULE FuzzTrial ------------------------------
(***************************************************************************)
(* One fuzz trial, internal/fuzz/runner.go: QEMU runs the image under the  *)
(* plugin, the runner polls cancellation, the result record and the exit of*)
(* the child, in that order, until the deadline, and ends the child.       *)
(*                                                                         *)
(* The image and the plugin are the environment here: a fault's location is*)
(* streamed when it lands, the result record is written once, in parts, and*)
(* the child may die at any point.  Time is the pair of facts that the     *)
(* deadline has passed and that a Terminate timer fired.                   *)
(***************************************************************************)
EXTENDS Verdict, QemuProcess

CONSTANTS
  Records,     \* what a plugin may find in the image when it writes its record
  MaxLocations \* bound: fault locations streamed in one trial

ASSUME RecordsAssumption ==
  MaxLocations \in Nat /\ \A record \in Records : DOMAIN record = RequiredFacts \cup PluginFacts

(* Under these keys the plugin prints numbers and nothing else. *)
ASSUME NumbersAssumption ==
  \A record \in Records : \A name \in DOMAIN record : record[name] \in Nat

-----------------------------------------------------------------------------
(* The ways a trial can end: the status of the process, the stderr that    *)
(* was captured, and the record behind it.                                 *)

Outcome(status, stderr, record) ==
  [status |-> status, stderr |-> stderr, record |-> record]

Pending == Outcome("none", <<>>, <<>>)

(* A fault in a register or the program counter is streamed as it lands,   *)
(* and a window that is opened again gets another (FuzzPlugin.tla).        *)
Streams(record) ==
  {[i \in 1 .. n |-> Location] \o WrittenRecord(record) : n \in 0 .. MaxLocations}

Cut(stream) == {SubSeq(stream, 1, n) : n \in 0 .. Len(stream)}

(* Ended by the runner at any time, by itself with all it wrote, or after  *)
(* the record was seen whole.                                              *)
Endings(record) ==
  LET cut      == UNION {Cut(stream) : stream \in Streams(record)}
      said(stderr) == record = <<>> \/ Keys(record, RequiredFacts) \in ToSet(stderr)
  IN  {Outcome(status, stderr, record) : status \in {"timeout", "cancelled"}, stderr \in cut}
      \cup {Outcome("exit", stderr, record) : stderr \in {s \in cut : said(s)}}
      \cup {Outcome("completed", stderr, record) : stderr \in {s \in cut : HasSentinel(s)}}

Outcomes ==
  {Outcome("not_started", <<>>, <<>>)}
  \cup UNION {Endings(record) : record \in Records \cup {<<>>}}

Verdict(ending, requiresInjection) ==
  Classify([facts |-> ParseFacts(ending.stderr), status |-> ending.status,
            timeout |-> ending.status = "timeout",
            requiresInjection |-> requiresInjection])

(* No row for it: RunQemuTrial returned an error. *)
Failed(ending) == ending.status \in {"not_started", "cancelled"}

-----------------------------------------------------------------------------
VARIABLES
  injecting,   \* the arguments of the plugin name a fault
  record,      \* the record being published, or <<>>
  cancelled,   \* the context of the run was cancelled
  late,        \* the trial's deadline has passed
  pc,          \* the runner
  polled,      \* history: how much of stderr the last look at it saw
  result       \* ProcessResult, and (history) the record behind it

trialVars == <<injecting, record, cancelled, late, pc, polled, result>>

NoResult == [status |-> "none", timeout |-> FALSE, stderr |-> <<>>, record |-> <<>>]

Idle ==
  /\ NoProcess
  /\ injecting = FALSE /\ record = <<>> /\ cancelled = FALSE /\ late = FALSE
  /\ pc = "idle" /\ polled = 0 /\ result = NoResult

-----------------------------------------------------------------------------
(* The child *)

(* Register and skip faults stream where they landed; a fault in memory    *)
(* only shows in the record.                                               *)
FaultLands ==
  /\ injecting /\ record = <<>> /\ Len(written) < MaxLocations
  /\ Write(Location)
  /\ UNCHANGED trialVars

BeginRecord ==
  /\ record = <<>>
  /\ record' \in {published \in Records : Flag(published, "injected") => injecting}
  /\ Write(Keys(record', RequiredFacts))
  /\ UNCHANGED <<injecting, cancelled, late, pc, polled, result>>

PluginPart == Keys(record, PluginFacts)

EndRecord ==
  /\ record # <<>> /\ ~HasSentinel(written)
  /\ IF PluginPart \in ToSet(written) THEN Write(Sentinel) ELSE Write(PluginPart)
  /\ UNCHANGED trialVars

ChildDies == Die /\ UNCHANGED trialVars

Child == FaultLands \/ BeginRecord \/ EndRecord \/ ChildDies

-----------------------------------------------------------------------------
(* The runner *)

StartTrial(fault) ==
  /\ pc = "idle" /\ pc' = "deadline"
  /\ Start /\ injecting' = fault
  /\ UNCHANGED <<record, cancelled, late, polled, result>>

(* exec fails: RunQemuTrial returns the error and no result. *)
StartFails ==
  /\ pc = "idle" /\ pc' = "returned"
  /\ result' = [NoResult EXCEPT !.status = "not_started"]
  /\ UNCHANGED <<processVars, injecting, record, cancelled, late, polled>>

(* The caller takes the result and lets go of the process. *)
TakeResult ==
  /\ pc = "returned" /\ pc' = "idle"
  /\ child' = "none" /\ signal' = "none" /\ written' = <<>> /\ copied' = 0
  /\ reaped' = FALSE /\ term' = "idle"
  /\ injecting' = FALSE /\ record' = <<>> /\ late' = FALSE /\ polled' = 0
  /\ result' = NoResult
  /\ UNCHANGED cancelled

(* End the child and wait: Terminate is called and then waited for in pc.  *)
EndChild(next) ==
  /\ Terminate /\ pc' = next
  /\ UNCHANGED <<injecting, record, cancelled, late, polled, result>>

Look(next) ==
  /\ pc' = next
  /\ UNCHANGED <<processVars, injecting, record, cancelled, late, polled, result>>

CheckDeadlineMisreported ==
  /\ pc = "deadline"
  /\ IF late THEN EndChild("cancelled") ELSE Look("ctx")

CheckDeadline ==
  /\ pc = "deadline"
  /\ IF late THEN EndChild("timeout") ELSE Look("ctx")

CheckCancelled ==
  /\ pc = "ctx"
  /\ IF cancelled THEN EndChild("cancelled") ELSE Look("result")

Report(status, timeout) ==
  result' = [status |-> status, timeout |-> timeout, stderr |-> Stderr,
             record |-> record]

CheckExitFirst ==
  /\ pc = "result"
  /\ polled' = copied
  /\ IF Exited THEN /\ pc' = "defer" /\ Report("exit", FALSE)
                    /\ UNCHANGED <<processVars, injecting, record, cancelled, late>>
     ELSE /\ IF HasSentinel(Stderr) THEN Terminate /\ pc' = "completed"
                                    ELSE UNCHANGED processVars /\ pc' = "exit"
          /\ UNCHANGED <<injecting, record, cancelled, late, result>>

CheckResult ==
  /\ pc = "result"
  /\ polled' = copied
  /\ IF HasSentinel(Stderr) THEN Terminate /\ pc' = "completed"
                            ELSE UNCHANGED processVars /\ pc' = "exit"
  /\ UNCHANGED <<injecting, record, cancelled, late, result>>

CheckExit ==
  /\ pc = "exit"
  /\ IF Exited THEN pc' = "defer" /\ Report("exit", FALSE)
               ELSE pc' = "deadline" /\ UNCHANGED result
  /\ UNCHANGED <<processVars, injecting, record, cancelled, late, polled>>

(* The stderr of a result is read after Terminate came back. *)
ReportEnded ==
  /\ pc \in {"timeout", "cancelled", "completed"} /\ Terminated
  /\ Report(pc, pc = "timeout")
  /\ pc' = "defer"
  /\ UNCHANGED <<processVars, injecting, record, cancelled, late, polled>>

(* The deferred call: once more, if the child is still not reaped. *)
Deferred ==
  /\ pc = "defer"
  /\ IF Exited THEN Look("returned") ELSE EndChild("closing")

ReturnTrial ==
  /\ pc = "closing" /\ Terminated
  /\ Look("returned")

Runner == \/ StartFails \/ CheckDeadline \/ CheckCancelled \/ CheckResult
          \/ CheckExit \/ ReportEnded \/ Deferred \/ ReturnTrial

-----------------------------------------------------------------------------
(* Time and the user *)

DeadlinePasses ==
  /\ child # "none" /\ ~late /\ late' = TRUE
  /\ UNCHANGED <<processVars, injecting, record, cancelled, pc, polled, result>>

Cancel ==
  /\ ~cancelled /\ cancelled' = TRUE
  /\ UNCHANGED <<processVars, injecting, record, late, pc, polled, result>>

Process == ProcessStep /\ UNCHANGED trialVars

Killed == KilledDies /\ UNCHANGED trialVars

-----------------------------------------------------------------------------
(* Properties *)

Returned == pc = "returned"

TrialTypeOK ==
  /\ ProcessTypeOK
  /\ injecting \in BOOLEAN /\ cancelled \in BOOLEAN /\ late \in BOOLEAN
  /\ record \in Records \cup {<<>>}
  /\ pc \in {"idle", "deadline", "ctx", "result", "exit", "timeout", "cancelled",
             "completed", "defer", "closing", "returned"}
  /\ polled \in 0 .. copied
  /\ result.status \in {"none", "not_started", "timeout", "cancelled", "completed", "exit"}

(* A completed trial carries the whole record the plugin wrote, wherever   *)
(* the pipe, the child and the signal were when the runner looked.         *)
CompletedIsWhole ==
  result.status = "completed" =>
    /\ record # <<>>
    /\ \A name \in DOMAIN record :
         Present(ParseFacts(result.stderr), name)
         /\ ParseFacts(result.stderr)[name] = record[name]

(* "exit" is said only of a child that ended by itself, and with everything*)
(* it wrote: a crash verdict never hides a record still in the pipe.       *)
ExitIsTheChilds ==
  result.status = "exit" => signal = "none" /\ result.stderr = written

(* A record that was there at the runner's last look is never lost to the  *)
(* deadline or to an exit: the result is looked for before both.           *)
LastLookWins ==
  result.status \in {"timeout", "exit"} =>
    ~HasSentinel(SubSeq(written, 1, polled))

(* No trial leaves a QEMU behind: when it returns, the child was reaped or *)
(* has been killed after its grace period.                                 *)
NoChildLeft == Returned /\ child # "none" => GoneOrKilled

(* What RunQemuTrial returns is true of its child, in any interleaving of  *)
(* the child, the pipe, the reaper, the deadline and the user.             *)
ResultIsTheChilds ==
  /\ TrialTypeOK
  /\ CompletedIsWhole
  /\ ExitIsTheChilds
  /\ LastLookWins
  /\ NoChildLeft

(* To the campaign a trial is one step: it ends exactly once, with an      *)
(* outcome Trial.tla allows, whatever the steps in between.                *)
ReturnedOutcome ==
  IF Returned
  THEN Outcome(result.status, result.stderr, result.record)
  ELSE Pending

Abstract == INSTANCE Trial WITH outcome <- ReturnedOutcome

IsATrial == Abstract!Spec
=============================================================================

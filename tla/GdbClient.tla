------------------------------ MODULE GdbClient ------------------------------
(***************************************************************************)
(* The GDB client, internal/gdbmi/client.go, with the gdb process it talks *)
(* to and the image behind that.                                           *)
(*                                                                         *)
(* A command is handed to gdb and waited for; gdb carries it out, on the   *)
(* image when it is about one, whether the client still waits or has given *)
(* up.  Stops arrive on their own in the channel stops.  The image runs    *)
(* from the inject breakpoint of an iteration to its observe breakpoint and*)
(* on to the inject breakpoint of the next, applies the fault it finds in  *)
(* its two words, and counts the iteration as a pass or a failure.         *)
(***************************************************************************)
EXTENDS Naturals, Sequences

CONSTANT StopCapacity     \* of the channel stops

VARIABLES
  gdb,         \* the gdb process: "none", "up", "gone", "wedged"
  command,     \* what gdb is at: an operation, or "none", and its argument
  reply,       \* of the command the client waits for: "none", "ok", "error"
  stops,       \* the channel of stops
  remote,      \* the process gdb is connected to: "none", "child", "leftover"
  image,       \* the image there: its place, its words and its counters
  running,     \* the image runs
  applied,     \* history: the faults the image applied, by iteration
  counted,     \* history: how it counted each iteration
  strayed      \* history: it stopped, or was lost, somewhere else

clientVars == <<gdb, command, reply, stops>>
imageVars == <<remote, image, running, applied, counted, strayed>>
gdbVars == <<clientVars, imageVars>>

Operation(name) == [op |-> name, value |-> 0]

Nothing == Operation("none")

NoFault == [target |-> 0, value |-> 0]

Image(place, iteration) ==
  [at |-> place, iteration |-> iteration, fault |-> NoFault, lastTarget |-> 0,
   passes |-> 0, failures |-> 0]

NoGdb ==
  /\ gdb = "none" /\ command = Nothing /\ reply = "none" /\ stops = <<>>
  /\ remote = "none" /\ running = FALSE /\ strayed = FALSE
  /\ applied = <<>> /\ counted = <<>>

-----------------------------------------------------------------------------
(* The client: send and what comes of it *)

StartGdb == gdb' = "up" /\ UNCHANGED <<command, reply, stops, imageVars>>

Send(operation) ==
  /\ command' = operation /\ reply' = "none"
  /\ UNCHANGED <<gdb, stops, imageVars>>

Answered == reply = "ok" /\ UNCHANGED gdbVars

Refused == reply = "error" /\ UNCHANGED gdbVars

(* The timer of send: the command stays with gdb. *)
TimedOut == reply = "none" /\ UNCHANGED gdbVars

(* ContinueUntilBreakpoint drains the stops before it continues. *)
ContinueUndrained ==
  /\ command' = Operation("continue") /\ reply' = "none"
  /\ UNCHANGED <<gdb, stops, imageVars>>

Continue ==
  /\ command' = Operation("continue") /\ reply' = "none" /\ stops' = <<>>
  /\ UNCHANGED <<gdb, imageVars>>

TakeStop == stops # <<>> /\ stops' = Tail(stops) /\ UNCHANGED <<gdb, command, reply, imageVars>>

CloseUnbounded ==
  /\ command = Nothing /\ gdb' = "gone" /\ UNCHANGED <<command, reply, stops, imageVars>>

(* Close: gdb exits, or does not within the time it is given. *)
Close ==
  /\ gdb' \in {"gone", "wedged"} /\ UNCHANGED <<command, reply, stops, imageVars>>

-----------------------------------------------------------------------------
(* gdb and the image *)

(* onNotification: a stop that does not fit is dropped. *)
Notified(stop) == IF Len(stops) < StopCapacity THEN Append(stops, stop) ELSE stops

Done(answer) == command' = Nothing /\ reply' = answer

OnSymbols ==
  /\ command.op \in {"setup", "insert"} /\ \E answer \in {"ok", "error"} : Done(answer)
  /\ UNCHANGED <<gdb, stops, imageVars>>

(* target-select remote; the halt on connecting may be told as a stop. *)
Connect(server) ==
  /\ command.op = "connect"
  /\ Done("ok") /\ remote' = server
  /\ stops' \in {stops, Notified("halted")}
  /\ UNCHANGED <<gdb, image, running, applied, counted, strayed>>

Resume ==
  /\ command.op = "continue" /\ ~running
  /\ Done("ok") /\ running' = TRUE
  /\ UNCHANGED <<gdb, stops, remote, image, applied, counted, strayed>>

Access ==
  /\ command.op \in {"read", "row"} /\ ~running /\ Done("ok")
  /\ UNCHANGED <<gdb, stops, imageVars>>

WriteWord ==
  /\ command.op \in {"value", "target"} /\ ~running /\ Done("ok")
  /\ image' = [image EXCEPT !.fault[command.op] = command.value]
  /\ UNCHANGED <<gdb, stops, remote, running, applied, counted, strayed>>

(* The connection, the command or the image is not up to it. *)
Fail ==
  /\ command # Nothing /\ Done("error")
  /\ UNCHANGED <<gdb, stops, imageVars>>

Stopped(stop) == running' = FALSE /\ stops' = Notified(stop)

ReachInject ==
  /\ running /\ image.at \in {"boot", "observe"}
  /\ Stopped("inject")
  /\ image' = [image EXCEPT !.at = "inject", !.iteration = @ + 1, !.lastTarget = 0]
  /\ UNCHANGED <<gdb, command, reply, remote, applied, counted, strayed>>

(* apply_pending_fault takes the target; the value stays in its word. *)
ReachObserve ==
  /\ running /\ image.at = "inject"
  /\ Stopped("observe")
  /\ applied' = Append(applied, [iteration |-> image.iteration, fault |-> image.fault])
  /\ \E verdict \in {"pass", "fail"} :
       /\ counted' = Append(counted, verdict)
       /\ image' =
            [image EXCEPT
              !.at = "observe", !.lastTarget = image.fault.target, !.fault.target = 0,
              !.passes = IF verdict = "pass" THEN @ + 1 ELSE @,
              !.failures = IF verdict = "fail" THEN @ + 1 ELSE @]
  /\ UNCHANGED <<gdb, command, reply, remote, strayed>>

(* A fault sends the image elsewhere: a stop of another kind, or none. *)
Stray ==
  /\ running /\ image.at # "lost" /\ strayed' = TRUE
  /\ image' = [image EXCEPT !.at = "lost"]
  /\ \/ Stopped("elsewhere")
     \/ UNCHANGED <<running, stops>>
  /\ UNCHANGED <<gdb, command, reply, remote, applied, counted>>
=============================================================================

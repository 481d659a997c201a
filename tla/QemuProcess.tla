----------------------------- MODULE QemuProcess -----------------------------
(***************************************************************************)
(* A QEMU child and the goroutines around it, internal/qemu/qemu.go.       *)
(*                                                                         *)
(* The child writes stderr into a pipe; one goroutine of os/exec copies the*)
(* pipe into the buffer Stderr() reads, and the reaper closes the channel  *)
(* done once Wait has seen the child dead and the pipe drained.  Terminate *)
(* is a machine of its own that its caller starts and waits for.           *)
(***************************************************************************)
EXTENDS Naturals, Sequences

VARIABLES
  child,       \* "none", "running", "dead"
  signal,      \* the last signal sent to it: "none", "term", "kill"
  written,     \* what it wrote to stderr
  copied,      \* how much of that the buffer holds
  reaped,      \* the channel done is closed
  term         \* Terminate: "idle", "term" and "kill" (waiting), "over"

processVars == <<child, signal, written, copied, reaped, term>>

ProcessTypeOK ==
  /\ child \in {"none", "running", "dead"}
  /\ signal \in {"none", "term", "kill"}
  /\ copied \in 0 .. Len(written)
  /\ reaped \in BOOLEAN
  /\ term \in {"idle", "term", "kill", "over"}

NoProcess ==
  /\ child = "none" /\ signal = "none"
  /\ written = <<>> /\ copied = 0
  /\ reaped = FALSE /\ term = "idle"

Start ==
  /\ child' = "running" /\ signal' = "none"
  /\ written' = <<>> /\ copied' = 0
  /\ reaped' = FALSE /\ term' = "idle"

Exited == reaped

Stderr == SubSeq(written, 1, copied)

-----------------------------------------------------------------------------
(* The child and the goroutines that watch it *)

Write(chunk) ==
  /\ child = "running"
  /\ written' = Append(written, chunk)
  /\ UNCHANGED <<child, signal, copied, reaped, term>>

Die ==
  /\ child = "running" /\ child' = "dead"
  /\ UNCHANGED <<signal, written, copied, reaped, term>>

CopyStderr ==
  /\ copied < Len(written) /\ copied' = copied + 1
  /\ UNCHANGED <<child, signal, written, reaped, term>>

Reap ==
  /\ child = "dead" /\ copied = Len(written) /\ ~reaped /\ reaped' = TRUE
  /\ UNCHANGED <<child, signal, written, copied, term>>

-----------------------------------------------------------------------------
(* Terminate: SIGTERM, wait, SIGKILL, wait; each wait ends with the child  *)
(* reaped or with the timer, and the second timer gives the child up.      *)

Terminate ==
  /\ IF Exited THEN term' = "over" /\ UNCHANGED signal
               ELSE term' = "term" /\ signal' = "term"
  /\ UNCHANGED <<child, written, copied, reaped>>

ReapSeen ==
  /\ term \in {"term", "kill"} /\ reaped
  /\ term' = "over"
  /\ UNCHANGED <<child, signal, written, copied, reaped>>

TermTimeoutNever ==
  /\ term = "term" /\ reaped /\ term' = "over"
  /\ UNCHANGED <<child, signal, written, copied, reaped>>

TermTimeout ==
  /\ term = "term" /\ term' = "kill" /\ signal' = "kill"
  /\ UNCHANGED <<child, written, copied, reaped>>

KillTimeout ==
  /\ term = "kill" /\ term' = "over"
  /\ UNCHANGED <<child, signal, written, copied, reaped>>

Terminated == term = "over"

(* Nothing is left behind: the child is gone or has been sent SIGKILL. *)
GoneOrKilled == reaped \/ signal = "kill"

(* What happens around the caller, whoever it is. *)
ProcessStep == CopyStderr \/ Reap \/ ReapSeen \/ TermTimeout \/ KillTimeout

(* The kernel delivers SIGKILL. *)
KilledDies == signal = "kill" /\ Die
=============================================================================

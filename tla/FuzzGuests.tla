----------------------------- MODULE FuzzGuests -----------------------------
(***************************************************************************)
(* The six single-shot fuzz images, each with at most one data fault: the  *)
(* two workflows (FuzzWorkflow.tla) and the four techniques on their own   *)
(* (FuzzImages.tla), over the library calls of FuzzState.tla.              *)
(***************************************************************************)
EXTENDS FuzzWorkflow, FuzzImages

Next ==
  Upset \/ Vote \/ RunBlock \/ CommitOrRestart \/ RunWorkflow \/ RunTechnique

Spec == Init /\ [][Next]_guestVars

-----------------------------------------------------------------------------
(* Properties *)

GuestsTypeOK ==
  /\ image \in Images /\ initial \in Nat /\ expected \in Nat
  /\ sample \in Nat /\ value \in Nat
  /\ triplet \in [a : Nat, b : Nat, c : Nat, fault_count : Nat]
  /\ elected \in {"a", "b"}
  /\ \A copy \in {"active", "checkpoint"} :
       record[copy] \in [value : Nat, sealed : BOOLEAN, fit : BOOLEAN]
  /\ op \in {"primary", "alternate"}
  /\ monitor \in [phase : Nat, signature : Nat]
  /\ \A fact \in {"detected", "corrected", "safe_state"} : facts[fact] \in 0 .. 1
  /\ facts.output \in Nat

(* What an image publishes never contradicts itself to the classifier: a   *)
(* faulted trial that completes is never thrown away as invalid.           *)
FactsAgree == Done => Ending # "invalid_trial"

(* slides/presentation.md: under ram-bitflip the combined image "corrects  *)
(* or fail-safes every fault it doesn't simply mask".                      *)
RamFaultsOnWorkflow ==
  Done /\ image = "combined" /\ campaign = "ram-bitflip" =>
    /\ Ending \in {"passed", "corrected", "fail_safe"}
    /\ Ending # "fail_safe" => facts.output = expected

(* Which technique says what of a flipped bit of its exported state: the   *)
(* vote corrects, the records and the monitor stop, and only words nothing *)
(* reads any more pass.                                                    *)
RamFaultsOnTechniques ==
  Done /\ image \notin {"combined", "baseline"} /\ campaign = "ram-bitflip" =>
    Ending = CASE hit.word \in {"a", "b", "c", "fault_count"} -> "corrected"
               [] hit.word \in {"active", "active_field"} ->
                    IF image = "checkpoint" /\ initial = expected
                    THEN "corrected" ELSE "fail_safe"
               [] hit.word \in {"phase", "signature"} -> "fail_safe"
               [] OTHER -> "passed"

(* A stop comes before the result: the output is then nothing new, what    *)
(* the image started with or never wrote, or a copy that does not          *)
(* validate.                                                               *)
StopsHoldTheResultBack ==
  Done /\ image # "combined" /\ Ending = "fail_safe" =>
    \/ facts.output = IF image = "control-flow" THEN 0 ELSE initial
    \/ image = "recovery-block" /\ ~Valid(record.active)

(* The reverse of a stop: guard also says safe_state of a run whose record *)
(* is committed, when the monitor itself was hit behind the transition to  *)
(* the commit; the committed value is then the right one.                  *)
LateStopIsTheMonitors ==
  Done /\ image = "combined" /\ Ending = "fail_safe" /\ status \in {"COMMITTED", "RESTORED"} =>
    /\ Struck({"phase", "signature"}, {"check", "commit_copy", "restarted", "leave", "finish"})
    /\ facts.output = expected

(* A bit flipped in the exported state of a protected image as its window  *)
(* opens is answered: corrected, stopped or without effect, each by the    *)
(* technique it hit.  No image contradicts itself to the classifier, and a *)
(* stop holds the result back, but for one the monitor makes behind the    *)
(* commit, whose result is right.                                          *)
RamFaultsAreAnswered ==
  /\ GuestsTypeOK /\ FactsAgree /\ RamFaultsOnWorkflow /\ RamFaultsOnTechniques
  /\ StopsHoldTheResultBack /\ LateStopIsTheMonitors

(* The places where no technique compares the word that is hit with        *)
(* another: the copy elected but not loaded, a value on its way in or out, *)
(* a stored value before its seal, a record behind its last validation.    *)
Uncompared ==
  CASE image = "tmr" ->
         Struck({"a"}, {"load"}) \/ Struck({"value"}, {"publish"})
    [] image = "checkpoint" ->
         Struck({"active"}, {"commit_copy", "restarted"})
    [] image = "recovery-block" ->
         \/ Struck({"sample"}, {"capture", "capture_copy", "store"})
         \/ Struck({"active"}, {"seal", "recapture", "recapture_copy", "recovered"})
    [] image = "control-flow" ->
         Struck({"sample"}, {"start", "compute"}) \/ Struck({"value"}, {"validate", "commit"})
    [] image = "combined" ->
         \/ Struck({"a"}, {"load"})
         \/ Struck({"sample"}, {"compute", "capture", "capture_copy", "store"})
         \/ Struck({"active"},
                   {"seal", "commit_copy", "restarted", "leave", "finish", "publish"})
    [] image = "baseline" ->
         \/ Struck({"a"}, {"start"}) \/ Struck({"sample"}, {"compute"})
         \/ Struck({"active"}, {"publish"})

(* A fault gets a wrong output through in silence only where nothing       *)
(* compares the word it hits, and in the baseline, which never compares,   *)
(* it always does.  Elsewhere a wrong output is answered for, and with a   *)
(* stop: but in the workflow, when the accepted record is hit before its   *)
(* second capture, the commit finds it and puts the entry record back.     *)
SilentOnlyUncompared ==
  Done =>
    /\ Ending = "sdc" => Uncompared
    /\ Ending = "detected" =>
         image = "combined" /\ Struck({"active", "active_field"}, {"recapture"})
    /\ image = "baseline" => Ending = IF Uncompared THEN "sdc" ELSE "passed"
=============================================================================

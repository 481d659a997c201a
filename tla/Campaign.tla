------------------------------ MODULE Campaign ------------------------------
(***************************************************************************)
(* What a campaign promises whoever started it, abstractly: its rows come  *)
(* one at a time, it ends once, without an error exactly when it has all   *)
(* its rows, and as cancelled only when it was cancelled.  FuzzEngine.tla  *)
(* and E2EEngine.tla implement it; Tui.tla assumes it of its runs.         *)
(***************************************************************************)
EXTENDS Naturals

CONSTANT Count      \* the rows of a complete campaign

VARIABLES
  done,             \* how many rows it has produced
  cancelled,        \* its context was cancelled
  result            \* "running", or how Run returned

campaignVars == <<done, cancelled, result>>

Errors == {"cancelled", "failed"}

Init == done = 0 /\ cancelled = FALSE /\ result = "running"

CompleteOne ==
  /\ result = "running" /\ done < Count /\ done' = done + 1
  /\ UNCHANGED <<cancelled, result>>

Cancel == ~cancelled /\ cancelled' = TRUE /\ UNCHANGED <<done, result>>

End ==
  /\ result = "running" /\ result' \in Errors \cup {"none"}
  /\ result' = "none" => done = Count
  /\ result' = "cancelled" => cancelled
  /\ result' \in Errors => done < Count
  /\ UNCHANGED <<done, cancelled>>

Next == CompleteOne \/ Cancel \/ End

Spec == Init /\ [][Next]_campaignVars
=============================================================================

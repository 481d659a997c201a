---------------------------- MODULE StableStore ----------------------------
(***************************************************************************)
(* What a checkpointed record promises its user: a working value and a     *)
(* saved value that a fault may destroy, visibly, and never falsify.       *)
(***************************************************************************)
CONSTANTS
  Values,     \* the values the user writes
  Lost        \* what a damaged copy reads as: detected, not one of Values

VARIABLES work, saved

storeVars == <<work, saved>>

StoreInit == work \in Values /\ saved = work

(* A write may fail, visibly, when the copy it updates was damaged. *)
Write(v) == work' \in {v, Lost} /\ saved' = saved

Commit == work # Lost /\ saved' = work /\ work' = work

Rollback == saved # Lost /\ work' = saved /\ saved' = saved

LoseWork  == work' = Lost /\ saved' = saved

LoseSaved == saved' = Lost /\ work' = work

StoreNext ==
  \/ \E v \in Values : Write(v)
  \/ Commit
  \/ Rollback
  \/ LoseWork
  \/ LoseSaved

StoreSpec == StoreInit /\ [][StoreNext]_storeVars
=============================================================================

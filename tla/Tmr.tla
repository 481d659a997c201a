-------------------------------- MODULE Tmr --------------------------------
(***************************************************************************)
(* The triple-modular-redundant integer of src/c/tmr/tmr.h: three copies,  *)
(* a majority vote on every read and a saturating count of the reads whose *)
(* copies were not unanimous.                                              *)
(*                                                                         *)
(* A read is split where its comparisons end and the chosen copy is loaded *)
(* into *out: an upset may land between the two.  A write is one step, for *)
(* an upset between its three stores is one that comes before or after it. *)
(***************************************************************************)
EXTENDS Naturals

CONSTANTS
  Values,     \* the integers
  MaxCount    \* where fault_count saturates, UINT32_MAX in the code

ASSUME TmrAssumption == Values # {} /\ MaxCount \in Nat \ {0}

VARIABLES
  copy,          \* the copies a, b and c
  fault_count,
  pc, source,    \* the read under way and the copy it will deliver
  out, read_status,  \* what the last read returned
  intended,      \* history: the value last written
  hit_copies,    \* history: the copies hit since then
  late           \* history: the source was hit after the vote

tmrVars == <<copy, fault_count, pc, source, out, read_status, intended, hit_copies, late>>

Copies == {"a", "b", "c"}

(* tmr_int_init, also the only way to clear the fault count. *)
TmrInit ==
  /\ intended \in Values /\ out = intended
  /\ copy = [x \in Copies |-> intended]
  /\ fault_count = 0 /\ hit_copies = {}
  /\ pc = "idle" /\ source = "a" /\ read_status = "OK" /\ late = FALSE

Reinit(v) ==
  /\ pc = "idle"
  /\ copy' = [x \in Copies |-> v] /\ fault_count' = 0
  /\ intended' = v /\ hit_copies' = {}
  /\ UNCHANGED <<pc, source, out, read_status, late>>

-----------------------------------------------------------------------------
(* tmr_int_write *)
WriteTwo(v) ==
  /\ pc = "idle"
  /\ copy' = [copy EXCEPT !["a"] = v, !["b"] = v]
  /\ intended' = v /\ hit_copies' = {}
  /\ UNCHANGED <<fault_count, pc, source, out, read_status, late>>

Write(v) ==
  /\ pc = "idle"
  /\ copy' = [x \in Copies |-> v]
  /\ intended' = v /\ hit_copies' = {}
  /\ UNCHANGED <<fault_count, pc, source, out, read_status, late>>

(* tmr_int_bump_fault_count *)
BumpUnbounded(n) == n + 1

BumpWrapping(n) == (n + 1) % (MaxCount + 1)

Bump(n) == IF n # MaxCount THEN n + 1 ELSE n

(* tmr_int_read: the vote, then the load of the copy it settled on. *)
Unanimous == copy["a"] = copy["b"] /\ copy["b"] = copy["c"]

(* The copy the comparisons choose, in their order. *)
Majority(x) ==
  \/ x = "a" /\ (copy["a"] = copy["b"] \/ copy["a"] = copy["c"])
  \/ x = "b" /\ copy["b"] = copy["c"] /\ copy["a"] # copy["b"]

Vote ==
  /\ pc = "idle"
  /\ fault_count' = IF Unanimous THEN fault_count ELSE Bump(fault_count)
  /\ late' = FALSE
  /\ \/ \E x \in Copies :
          /\ Majority(x)
          /\ source' = x /\ pc' = "deliver" /\ UNCHANGED read_status
     \/ /\ \A x \in Copies : ~Majority(x)
        /\ read_status' = "NO_MAJORITY" /\ UNCHANGED <<pc, source>>
  /\ UNCHANGED <<copy, out, intended, hit_copies>>

Deliver ==
  /\ pc = "deliver"
  /\ out' = copy[source] /\ read_status' = "OK"
  /\ pc' = "idle"
  /\ UNCHANGED <<copy, fault_count, source, intended, hit_copies, late>>

(* A memory upset, or tmr_int_inject_fault_a and tmr_int_inject_all one    *)
(* copy at a time.  Nothing repairs a copy but the next write.             *)
Upset(x, v) ==
  /\ v # copy[x]
  /\ copy' = [copy EXCEPT ![x] = v]
  /\ hit_copies' = hit_copies \union {x}
  /\ late' = (late \/ (pc = "deliver" /\ x = source))
  /\ UNCHANGED <<fault_count, pc, source, out, read_status, intended>>

TmrNext ==
  \/ \E v \in Values : Reinit(v) \/ Write(v)
  \/ Vote \/ Deliver
  \/ \E x \in Copies, v \in Values : Upset(x, v)

TmrSpec == TmrInit /\ [][TmrNext]_tmrVars

-----------------------------------------------------------------------------
TmrTypeOK ==
  /\ copy \in [Copies -> Values]
  /\ fault_count \in 0 .. MaxCount
  /\ pc \in {"idle", "deliver"} /\ source \in Copies
  /\ out \in Values /\ read_status \in {"OK", "NO_MAJORITY"}
  /\ intended \in Values /\ hit_copies \subseteq Copies /\ late \in BOOLEAN

AtMostOneHit == \E x \in Copies : hit_copies \subseteq {x}

(* With at most one copy hit since the last write, however often and at    *)
(* whatever time, a read finds a majority and returns the value written,   *)
(* unless the copy was hit between the vote and the load.                  *)
MasksOneFault ==
  [][AtMostOneHit =>
       /\ (Deliver /\ ~late) => out' = intended
       /\ Vote => pc' = "deliver"]_tmrVars

(* A read that goes wrong leaves a trace: the fault count is not zero after*)
(* it, however many reads went before, unless all three copies were hit    *)
(* and happen to agree.                                                    *)
FailureLeavesTrace ==
  [][/\ (Deliver /\ ~late /\ hit_copies # Copies /\ out' # intended) => fault_count' > 0
     /\ (Vote /\ pc' = "idle") => fault_count' > 0]_tmrVars
=============================================================================

------------------------------ MODULE Columns -------------------------------
(***************************************************************************)
(* What both kinds of rows are made with, internal/result: a row to which  *)
(* fields are added without changing one, and a list of fields of which    *)
(* some are kept.                                                          *)
(***************************************************************************)
EXTENDS Integers, Sequences, FiniteSets

(* A map written to only where it has nothing yet. *)
Filled(row, more) ==
  [field \in DOMAIN row \cup DOMAIN more |->
     IF field \in DOMAIN row THEN row[field] ELSE more[field]]

(* The chosen fields in their order: each comes at the place of its rank.  *)
Kept(fields, chosen) ==
  LET at      == {i \in DOMAIN fields : fields[i] \in chosen}
      Rank(i) == Cardinality({j \in at : j <= i})
  IN  [n \in 1 .. Cardinality(at) |-> fields[CHOOSE i \in at : Rank(i) = n]]
=============================================================================

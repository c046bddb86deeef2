------------------------------ MODULE Ordering -------------------------------
(***************************************************************************)
(* The order things come in when the code goes through an ordered map, or  *)
(* erases from a sequence what does not satisfy a condition.               *)
(***************************************************************************)
EXTENDS Integers, Sequences, FiniteSets

\* The numbers of a set in ascending order.
Ascending(S) ==
  CHOOSE s \in [1 .. Cardinality(S) -> S] : \A i, j \in DOMAIN s : i < j => s[i] < s[j]

\* The elements of a sequence at some places, in its order.
Picked(seq, places) == LET at == Ascending(places) IN [i \in DOMAIN at |-> seq[at[i]]]
=============================================================================

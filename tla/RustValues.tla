----------------------------- MODULE RustValues -----------------------------
(***************************************************************************)
(* The few Rust idioms the playback modules share: the absent Option, the  *)
(* bounded `min` and Vec::retain.                                          *)
(***************************************************************************)
EXTENDS Integers, Sequences, FiniteSets, SequencesExt

CONSTANT None    \* Option::None

AtMost(n, bound) == IF n <= bound THEN n ELSE bound

(* Vec::retain: the elements of q that are in S, in order.  The k-th of    *)
(* them is the element at the kept index that has k kept indices up to it. *)
Retain(q, S) ==
  LET keep == {i \in DOMAIN q : q[i] \in S}
      Nth(k) == CHOOSE i \in keep : Cardinality({j \in keep : j <= i}) = k
  IN  [k \in 1..Cardinality(keep) |-> q[Nth(k)]]
=============================================================================

----------------------------- MODULE MCRouting -----------------------------
(***************************************************************************)
(* A loud vendor with three arrivals and a quiet one with one, over three  *)
(* windows of two ticks, with the bulkhead off and with a burst of one.    *)
(***************************************************************************)
EXTENDS Routing, TLC

CONSTANTS a1, a2, a3, q

Loud == {a1, a2, a3}
MCArrivals == Loud \cup {q}
MCVendor == [a \in MCArrivals |-> IF a = q THEN "quiet" ELSE "loud"]
MCBursts == {0, 1}
LoudSymmetry == Permutations(Loud)
============================================================================

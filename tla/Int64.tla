-------------------------------- MODULE Int64 --------------------------------
(***************************************************************************)
(* The 64-bit signed integers of the gate's balances.  A release build     *)
(* checks no addition and fetch_add never does: a sum past either end      *)
(* comes back at the other.  Half is 2^63; a configuration gives it a      *)
(* small value, so that a few amounts reach the ends.                      *)
(***************************************************************************)
EXTENDS Integers

CONSTANT Half

ASSUME HalfAssumption == Half \in Nat \ {0}

I64 == -Half .. Half - 1

(* What is stored for x, the exact sum or difference of two numbers of I64. *)
WrapI64(x) ==
    IF x >= Half THEN x - 2 * Half
    ELSE IF x < -Half THEN x + 2 * Half
    ELSE x

(* How many times the stored number went round to stand for x.             *)
Laps(x) == IF x >= Half THEN 1 ELSE IF x < -Half THEN -1 ELSE 0

=============================================================================

--------------------------- MODULE MCHyperionGate ---------------------------
(***************************************************************************)
(* Small instances of HyperionGate.                                        *)
(***************************************************************************)
EXTENDS HyperionGate, TLC

(* Requests differ in nothing but their names. *)
RequestSymmetry == Permutations(Requests)

(* One unit, and the smallest i64 of a word in which Half is 2: two        *)
(* deposits of 1 wrap a balance up, one of -2 after another wraps it down. *)
EdgeTotals == {1, -2}

=============================================================================

----------------------------- MODULE MCHandoffs -----------------------------
(* Handoff detection on small instances. *)
EXTENDS Handoffs, TLC

\* The cells are interchangeable.
CellSymmetry == Permutations(Cells)
=============================================================================

--------------------------- MODULE MCConsolidation ---------------------------
(* Instances of Consolidation: one or two consolidators, two or three       *)
(* contents.                                                                *)
EXTENDS Consolidation, TLC

CONSTANTS c1, c2, x, y, z

\* Contents and consolidators are told apart by equality only.
Symmetry == Permutations(Contents) \cup Permutations(Consolidators)
=============================================================================

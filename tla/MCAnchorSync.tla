---------------------------- MODULE MCAnchorSync ----------------------------
(* Two jobs over two anchors, three synchronizations, every kind of row the   *)
(* table may hold from before the ordering migration.                         *)
EXTENDS AnchorSync, TLC

MCSymmetry == Permutations(Syncs) \cup Permutations(Anchors)
==============================================================================

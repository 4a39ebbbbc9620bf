---------------------------- MODULE MCStaleEvidence ----------------------------
(* Two requests over three keys where two files may stay.                        *)
EXTENDS StaleEvidence, TLC

MCSymmetry == Permutations(Keys) \cup Permutations(Requests)
===============================================================================

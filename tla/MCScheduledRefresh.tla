-------------------------- MODULE MCScheduledRefresh --------------------------
(* Two processes that may run cycles at once, and a source listed twice.        *)
EXTENDS ScheduledRefresh, TLC

CONSTANTS s1, a1

MCSourceList == <<s1, s1>>
MCAnchorOf == [s \in Sources |-> a1]
MCSymmetry == Permutations(Cycles)
===============================================================================

---------------------------- MODULE MCNoVacancy ----------------------------
(* Values of constants for TLC that a .cfg file cannot state. *)
EXTENDS NoVacancy

CONSTANTS b1, s1

MCWeights == {0, -2}
MCDistances == {0}
MCSetting == [weight |-> -1, above |-> FALSE, distance |-> 1]
MCGroups == {[bigsign |-> s1, devices |-> {b1}]}
=============================================================================

---------------------------- MODULE MCHaltSequence ----------------------------
(* Node lists for TLC: one and two nodes, and the same node named twice. *)
EXTENDS HaltSequence

CONSTANTS n1, n2

OneNode  == { << n1 >> }
TwoNodes == { << n1 >>, << n1, n2 >>, << n1, n1 >> }
=============================================================================

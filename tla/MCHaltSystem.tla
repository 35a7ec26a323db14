----------------------------- MODULE MCHaltSystem -----------------------------
(* Jobs for TLC: a command on either of two nodes, one of which status shows. *)
EXTENDS HaltSystem

CONSTANTS n1, n2

Job(b, nodes, confirmed) == [backend |-> b, nodes |-> nodes, confirmed |-> confirmed]

Fence(n) == Job("ipmi", << n >>, TRUE)
MCJobs   == {Fence(n1), Fence(n2), Job("kubernetes", << n1, n2 >>, FALSE)}
MCAsked  == {Fence(n1)}
=============================================================================

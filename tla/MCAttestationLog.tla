--------------------------- MODULE MCAttestationLog ---------------------------
(* Symmetry of the halts, for the runs without liveness or refinement. *)
EXTENDS AttestationLog, TLC

Symmetry == Permutations(Halts)
=============================================================================

------------------------------ MODULE MCKeyFiles ------------------------------
(* Keygens, and halts, are interchangeable. *)
EXTENDS KeyFiles, TLC

Symmetry == Permutations(Keygens) \union Permutations(Halts)
=============================================================================

------------------------------- MODULE MCRelay -------------------------------
(* Small instances of Relay for TLC.                                       *)
EXTENDS RelayProofs, TLC

Symmetry == Permutations(Injectors)
==============================================================================

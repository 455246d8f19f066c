---------------------------- MODULE MCFilterSlot ----------------------------
(* Small instances of FilterSlot for TLC.                                  *)
EXTENDS FilterSlot, TLC

Symmetry == Permutations(Filters)
==============================================================================

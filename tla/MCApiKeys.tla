------------------------------ MODULE MCApiKeys ------------------------------
(* Small instances of ApiKeys for TLC.                                     *)
EXTENDS ApiKeysProofs, TLC

CONSTANTS k0, k1, k2

(* The debug key, with AuthAll.                                            *)
InitialAll == k0 :> Bits
SomeWishes == SUBSET (Bits \ {"reserved"}) \cup {Bits, {"reserved"}}

Symmetry == Permutations(Requests)
==============================================================================

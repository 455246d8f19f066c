----------------------------- MODULE MCWsFilter -----------------------------
(* Small instances of WsFilter for TLC.                                    *)
EXTENDS WsFilter, TLC

Symmetry == Permutations(Packets \ Injected)
==============================================================================

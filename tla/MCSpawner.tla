------------------------------ MODULE MCSpawner ------------------------------
(* Small instances of Spawner for TLC.                                     *)
EXTENDS SpawnerProofs, TLC

(* A listener is told from another only by its state, a proxy too.         *)
Symmetry == Permutations(Listeners) \cup Permutations(Proxies)
==============================================================================

----------------------------- MODULE MCRecvChans -----------------------------
(* Small instances of RecvChans for TLC: the model values of recv.cfg and  *)
(* recv_pruner.cfg.                                                        *)
EXTENDS RecvChans, TLC
==============================================================================

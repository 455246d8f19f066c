-------------------------------- MODULE MCUdp --------------------------------
(* Small instances of Udp for TLC.                                         *)
EXTENDS Udp, TLC
==============================================================================

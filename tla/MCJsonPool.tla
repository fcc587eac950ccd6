------------------------------ MODULE MCJsonPool ------------------------------
(* Two rounds compete for a pool of three units; a value may take two.       *)
EXTENDS JsonPool
MCProviders == 0 .. 1
MCSizes == 1 .. 3
=============================================================================

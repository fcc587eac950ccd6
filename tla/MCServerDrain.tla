---------------------------- MODULE MCServerDrain ----------------------------
(* Two slots, one upload permit, with and without a withdrawal.              *)
EXTENDS ServerDrain
=============================================================================

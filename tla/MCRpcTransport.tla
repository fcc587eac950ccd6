---------------------------- MODULE MCRpcTransport ----------------------------
(* Three calls at a time over one or two slots.  A tick is a second for the    *)
(* waits; the 55.2 s of a signing read are shortened to what exceeds them.     *)
EXTENDS RpcTransport

MCLimits == [k \in Kinds |-> IF k = "probe" THEN 2 ELSE 6]
MCLanes == [k \in Kinds |-> IF k = "probe" THEN 1 ELSE 2]

Mix(k) == [i \in 1 .. 3 |-> k[i]]
MCMixes ==
  { Mix(<<"own", "own", "own">>), Mix(<<"own", "own", "probe">>),
    Mix(<<"own", "bare", "bare">>), Mix(<<"own", "read", "read">>),
    Mix(<<"own", "own", "bare">>) }
ProbeMixes == { Mix(<<"probe", "probe", "probe">>) }
=============================================================================

----------------------------- MODULE MCAuditStore -----------------------------
(* Three deliveries of one request, two to one replica and one to another.   *)
EXTENDS AuditStore

CONSTANTS first, retry, elsewhere, here, there

MCHome == [c \in Calls |-> IF c = elsewhere THEN there ELSE here]
MCIdentity == [c \in Calls |-> "key"]
=============================================================================

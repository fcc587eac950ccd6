---------------------------- MODULE MCAuditSigning ----------------------------
(* A KMS wallet and a local wallet of one request.                           *)
EXTENDS AuditSigning

CONSTANTS kmsWallet, localWallet

\* One request whose KMS wallet and local wallet sign side by side.
BothWallets == [q \in Requests |-> <<kmsWallet, localWallet>>]
EachItsKind == [w \in Signings |-> IF w = kmsWallet THEN "kms" ELSE "local"]
EachItsKey == [w \in Signings |-> w]
=============================================================================

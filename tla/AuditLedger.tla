------------------------------ MODULE AuditLedger ------------------------------
(***************************************************************************)
(* What the audit store promises of its begin calls: each commits at most  *)
(* once and all of it at once - the intent of its identity, its attempt    *)
(* and the count - and only within the quota and with the input that       *)
(* identity was first armed for (begin_inner in crates/pillar-runtime/src/ *)
(* audit.rs, and "Durable signing audit" in SECURITY.md).                  *)
(***************************************************************************)
EXTENDS Naturals

CONSTANTS Calls, Identity, Inputs, MaxAttempts

VARIABLES attempts,  \* the calls whose attempt is committed
          count,     \* attempt_count
          intents,   \* the input of each identity's intent row, or {}
          input      \* what each call wants signed

ledger == <<attempts, count, intents, input>>

LedgerInit ==
  /\ attempts = {} /\ count = 0
  /\ intents = [k \in {Identity[c] : c \in Calls} |-> {}]
  /\ input \in [Calls -> Inputs]

Admits(c) ==
  /\ count < MaxAttempts
  /\ intents[Identity[c]] \in {{}, {input[c]}}

Arm(c) ==
  /\ c \notin attempts /\ Admits(c)
  /\ attempts' = attempts \cup {c}
  /\ count' = count + 1
  /\ intents' = [intents EXCEPT ![Identity[c]] = {input[c]}]
  /\ UNCHANGED input

LedgerSpec == LedgerInit /\ [][\E c \in Calls : Arm(c)]_ledger
=============================================================================

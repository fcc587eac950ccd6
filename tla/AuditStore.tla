------------------------------- MODULE AuditStore -------------------------------
(***************************************************************************)
(* PostgresAuditStore::begin, crates/pillar-runtime/src/audit.rs, statement *)
(* by statement: the session mutex and its queue, the session taken out of *)
(* its slot while in use, dialing, the transaction, timeouts and cancelled *)
(* callers, lost connections, and several replicas on one namespace row.   *)
(*                                                                         *)
(* PostgreSQL is external and modelled by what begin_inner relies on: a    *)
(* row lock per transaction, statements of one connection in order, COMMIT *)
(* all or nothing - and not undone because the client has stopped waiting. *)
(* A call dials at most one connection, so the connection has its name.    *)
(***************************************************************************)
EXTENDS Naturals, FiniteSets

CONSTANTS Calls,        \* begin calls
          Replicas,     \* processes that share the namespace
          Home,         \* the replica of each call
          Identity, Inputs, MaxAttempts,
          NoCall        \* no call, and no connection

ASSUME StoreAssumption ==
  /\ IsFiniteSet(Calls) /\ NoCall \notin Calls
  /\ Home \in [Calls -> Replicas]
  /\ MaxAttempts \in Nat \ {0}

VARIABLES
  attempts, count, intents,  \* the committed rows
  input,
  lock,      \* the transaction that holds the namespace row FOR UPDATE
  tx,        \* the transaction of each call, as its backend sees it
  mutex,     \* the call that holds the session mutex of each replica
  slot,      \* the session in the mutex: the connection, or NoCall
  link,      \* each connection: none, open or closed
  via,       \* the connection each call uses
  pc         \* where each call is

rows == <<attempts, count, intents>>
vars == <<rows, input, lock, tx, mutex, slot, link, via, pc>>

Init ==
  /\ attempts = {} /\ count = 0
  /\ intents = [k \in {Identity[c] : c \in Calls} |-> {}]
  /\ input \in [Calls -> Inputs]
  /\ lock = NoCall /\ tx = [c \in Calls |-> "none"]
  /\ mutex = [r \in Replicas |-> NoCall] /\ slot = [r \in Replicas |-> NoCall]
  /\ link = [c \in Calls |-> "none"] /\ via = [c \in Calls |-> NoCall]
  /\ pc = [c \in Calls |-> "idle"]

At(c, place) == pc[c] = place
Go(c, place) == pc' = [pc EXCEPT ![c] = place]
Tx(c, state) == tx' = [tx EXCEPT ![c] = state]

\* The places where a call holds the mutex, and among them a transaction.
InTransaction == {"lock", "intent", "attempt", "commit"}
Holding == {"dial", "begin"} \cup InTransaction

-----------------------------------------------------------------------------
(* The caller. *)

Begin(c) ==
  /\ At(c, "idle") /\ Go(c, "queue")
  /\ UNCHANGED <<rows, input, lock, tx, mutex, slot, link, via>>

\* queue(): the wait for the mutex ends at its deadline, or the caller goes.
QueueFails(c) ==
  /\ At(c, "queue")
  /\ Go(c, "err")
  /\ UNCHANGED <<rows, input, lock, tx, mutex, slot, link, via>>

\* The mutex is granted: the session leaves its slot, and if there is none or
\* it is closed, one is dialed.
Acquire(c) ==
  LET r == Home[c]
      usable == slot[r] # NoCall /\ link[slot[r]] = "open" IN
  /\ At(c, "queue") /\ mutex[r] = NoCall
  /\ mutex' = [mutex EXCEPT ![r] = c]
  /\ slot' = [slot EXCEPT ![r] = NoCall]
  /\ via' = [via EXCEPT ![c] = IF usable THEN slot[r] ELSE NoCall]
  /\ Go(c, IF usable THEN "begin" ELSE "dial")
  /\ UNCHANGED <<rows, input, lock, tx, link>>

Dial(c) ==
  /\ At(c, "dial")
  /\ link' = [link EXCEPT ![c] = "open"]
  /\ via' = [via EXCEPT ![c] = c]
  /\ Go(c, "begin")
  /\ UNCHANGED <<rows, input, lock, tx, mutex, slot>>

Connected(c) == link[via[c]] = "open"

\* What is still to be executed on a connection before a new statement.
Busy(k) == {c \in Calls : via[c] = k /\ tx[c] \in {"open", "locked", "commit", "rollback"}}

\* BEGIN, behind whatever the connection still has queued; FOR UPDATE is sent.
OpenTransaction(c) ==
  /\ At(c, "begin") /\ Connected(c) /\ Busy(via[c]) = {}
  /\ Tx(c, "open") /\ Go(c, "lock")
  /\ UNCHANGED <<rows, input, lock, mutex, slot, link, via>>

\* The mutex is released with the session back in its slot.
Return(c, place) ==
  /\ mutex' = [mutex EXCEPT ![Home[c]] = NoCall]
  /\ slot' = [slot EXCEPT ![Home[c]] = via[c]]
  /\ Go(c, place)
  /\ UNCHANGED <<input, link, via>>

\* Fault: a refusal leaves its transaction open on the session it returns.
RefuseOpen(c) ==
  /\ Return(c, "err")
  /\ UNCHANGED <<rows, lock, tx>>

\* A refusal drops the transaction, which queues ROLLBACK; the session stays.
Refuse(c) ==
  /\ Tx(c, "rollback")
  /\ Return(c, "err")
  /\ UNCHANGED <<rows, lock>>

Quota == count < MaxAttempts

\* The locked row is read.
ReadRow(c) ==
  /\ At(c, "lock") /\ Connected(c) /\ tx[c] = "locked"
  /\ \/ ~ Quota /\ Refuse(c)
     \/ /\ Quota /\ Go(c, "intent")
        /\ UNCHANGED <<rows, input, lock, tx, mutex, slot, link, via>>

\* Fault: the row that was there already is not compared.
SameIntentAlways(c) == TRUE

\* The intent row after INSERT ... ON CONFLICT DO NOTHING is this input's.
SameIntent(c) == intents[Identity[c]] \in {{}, {input[c]}}

CheckIntent(c) ==
  /\ At(c, "intent") /\ Connected(c)
  /\ \/ ~ SameIntent(c) /\ Refuse(c)
     \/ /\ SameIntent(c) /\ Go(c, "attempt")
        /\ UNCHANGED <<rows, input, lock, tx, mutex, slot, link, via>>

\* The attempt is inserted, the count updated, and COMMIT sent.
SendCommit(c) ==
  /\ At(c, "attempt") /\ Connected(c)
  /\ Tx(c, "commit") /\ Go(c, "commit")
  /\ UNCHANGED <<rows, input, lock, mutex, slot, link, via>>

Committed(c) == tx[c] = "committed"

\* COMMIT is answered: begin returns the attempt.
Answered(c) ==
  /\ At(c, "commit") /\ Connected(c) /\ Committed(c)
  /\ Return(c, "ok")
  /\ UNCHANGED <<rows, lock, tx>>

\* Fault: after a timeout the session goes back into its slot.
AbandonKeeping(c) ==
  /\ mutex' = [mutex EXCEPT ![Home[c]] = NoCall]
  /\ slot' = [slot EXCEPT ![Home[c]] = via[c]]
  /\ UNCHANGED link

\* finish() after Unavailable, or the future dropped: the session goes with
\* its connection, and the mutex is released.
Abandon(c) ==
  /\ mutex' = [mutex EXCEPT ![Home[c]] = NoCall]
  /\ link' = IF via[c] = NoCall THEN link ELSE [link EXCEPT ![via[c]] = "closed"]
  /\ UNCHANGED slot

\* The store's timeout, the request's deadline, an error of the database, a
\* failed dial, or the caller dropped: in any place, with any statement in
\* flight.
Fails(c) ==
  /\ pc[c] \in Holding
  /\ Abandon(c)
  /\ Go(c, "err")
  /\ UNCHANGED <<rows, input, lock, tx, via>>

-----------------------------------------------------------------------------
(* The database. *)

\* FOR UPDATE is granted, to a waiting backend whether or not its client is.
GrantLock(c) ==
  /\ tx[c] = "open" /\ lock = NoCall
  /\ lock' = c /\ Tx(c, "locked")
  /\ UNCHANGED <<rows, input, mutex, slot, link, via, pc>>

\* COMMIT, possibly after its client is gone.
Commit(c) ==
  /\ tx[c] = "commit"
  /\ attempts' = attempts \cup {c}
  /\ count' = count + 1
  /\ intents' = [intents EXCEPT ![Identity[c]] = {input[c]}]
  /\ lock' = NoCall /\ Tx(c, "committed")
  /\ UNCHANGED <<input, mutex, slot, link, via, pc>>

\* ROLLBACK, asked for or because the connection is gone (a COMMIT in flight
\* may be lost with it).
Rollback(c) ==
  /\ \/ tx[c] = "rollback"
     \/ tx[c] \in {"open", "locked", "commit"} /\ link[via[c]] = "closed"
  /\ lock' = IF lock = c THEN NoCall ELSE lock
  /\ Tx(c, "rolled")
  /\ UNCHANGED <<rows, input, mutex, slot, link, via, pc>>

\* The database or the network closes a connection, in use or not.
Disconnect(k) ==
  /\ link[k] = "open"
  /\ link' = [link EXCEPT ![k] = "closed"]
  /\ UNCHANGED <<rows, input, lock, tx, mutex, slot, via, pc>>

-----------------------------------------------------------------------------
CallStep(c) ==
  \/ Acquire(c) \/ Dial(c) \/ OpenTransaction(c) \/ ReadRow(c) \/ CheckIntent(c)
  \/ SendCommit(c) \/ Answered(c) \/ QueueFails(c) \/ Fails(c)

DbStep(c) == GrantLock(c) \/ Commit(c) \/ Rollback(c)

Next == \E c \in Calls : Begin(c) \/ CallStep(c) \/ DbStep(c) \/ Disconnect(c)

\* Every wait of a call has a deadline, and backends go on (lock, statement and
\* idle-in-transaction timeouts are set at session startup).
Spec == /\ Init /\ [][Next]_vars
        /\ \A c \in Calls : WF_vars(CallStep(c)) /\ WF_vars(DbStep(c))

-----------------------------------------------------------------------------
(* Properties. *)

\* Every variable has its type.
TypeOK ==
  /\ attempts \in SUBSET Calls /\ count \in Nat /\ input \in [Calls -> Inputs]
  /\ lock \in Calls \cup {NoCall}
  /\ tx \in [Calls -> {"none", "open", "locked", "commit", "committed",
                       "rollback", "rolled"}]
  /\ mutex \in [Replicas -> Calls \cup {NoCall}]
  /\ slot \in [Replicas -> Calls \cup {NoCall}]
  /\ link \in [Calls -> {"none", "open", "closed"}]
  /\ via \in [Calls -> Calls \cup {NoCall}]
  /\ pc \in [Calls -> {"idle", "queue", "ok", "err"} \cup Holding]

\* The retained rows agree: the count is the number of attempts and within the
\* quota, an identity has one input however often and from wherever it is
\* retried ("cannot silently change its signing input/public key").
RowsAgree ==
  /\ count = Cardinality(attempts) /\ count <= MaxAttempts
  /\ \A c \in attempts : intents[Identity[c]] = {input[c]}

\* A call that was answered with an attempt has it committed.
OkIsCommitted == \A c \in Calls : At(c, "ok") => c \in attempts

\* A session waiting in its slot has nothing in flight but a ROLLBACK: whoever
\* takes it next never waits for a statement an earlier caller gave up on
\* ("invalidates only its owned session generation and aborts that driver").
NoInheritedWait ==
  \A r \in Replicas : slot[r] # NoCall =>
    \A c \in Calls : via[c] = slot[r] => tx[c] \notin {"open", "locked", "commit"}
                                         \/ link[slot[r]] = "closed"

\* Only one transaction at a time is past the namespace row.
LockOwned ==
  \A c \in Calls : /\ pc[c] \in {"intent", "attempt"} /\ Connected(c) => lock = c
                   /\ tx[c] \in {"locked", "commit"} => lock = c

(* The parts of the inductive invariant behind these. *)

\* A backend's view and its caller's place: a transaction is open only between
\* BEGIN and the answer to COMMIT, unless its caller has given up or its
\* connection is gone.
PlacesOK ==
  \A c \in Calls :
    /\ pc[c] \in {"idle", "queue", "dial", "begin"} => tx[c] = "none"
    /\ At(c, "lock") => tx[c] \in {"open", "locked", "rolled"}
    /\ pc[c] \in {"intent", "attempt"} => tx[c] \in {"locked", "rolled"}
    /\ At(c, "commit") => tx[c] \in {"commit", "committed", "rolled"}
    /\ At(c, "ok") => tx[c] = "committed"
    /\ tx[c] = "rollback" => At(c, "err")
    /\ pc[c] \in InTransaction /\ tx[c] = "rolled" => link[via[c]] = "closed"
    /\ tx[c] \in {"open", "locked", "commit"} /\ link[via[c]] = "open" =>
         pc[c] \in InTransaction

\* A connection is its dialer's replica's, and so are its users; whoever has one
\* has one that was dialed.
SessionsOK ==
  /\ \A c \in Calls :
       /\ pc[c] \in {"idle", "queue", "dial"} => via[c] = NoCall /\ link[c] = "none"
       /\ At(c, "begin") \/ tx[c] # "none" => via[c] # NoCall
       /\ via[c] # NoCall => link[via[c]] # "none" /\ Home[via[c]] = Home[c]
  /\ \A r \in Replicas : slot[r] # NoCall =>
       link[slot[r]] # "none" /\ Home[slot[r]] = r

\* The session is in its slot or with the call that holds the mutex.
MutexOK ==
  /\ \A c \in Calls : pc[c] \in Holding => mutex[Home[c]] = c
  /\ \A r \in Replicas : mutex[r] # NoCall => slot[r] = NoCall

\* The row lock is held from FOR UPDATE to the end of the transaction; what was
\* read under it is still so when COMMIT is executed.
CheckedUnderLock ==
  /\ intents \in [{Identity[c] : c \in Calls} -> SUBSET Inputs]
  /\ attempts = {c \in Calls : Committed(c)}
  /\ \A c \in Calls :
       /\ lock = c <=> tx[c] \in {"locked", "commit", "rollback"}
       /\ tx[c] = "commit" \/ (tx[c] = "locked" /\ pc[c] \in {"intent", "attempt"}) =>
            Quota
       /\ tx[c] = "commit" \/ (tx[c] = "locked" /\ At(c, "attempt")) => SameIntent(c)

\* The invariant of the store, which every step preserves.
StoreInv ==
  /\ TypeOK /\ RowsAgree /\ OkIsCommitted /\ NoInheritedWait /\ LockOwned
  /\ PlacesOK /\ SessionsOK /\ MutexOK /\ CheckedUnderLock

Ledger == INSTANCE AuditLedger

\* The store implements the ledger: a begin takes effect at one instant, at
\* most once, or not at all.
ImplementsLedger == Ledger!LedgerSpec

\* A begin ends, and whatever it left behind in the database lets go of the
\* namespace row.
BeginsEnd ==
  \A c \in Calls : At(c, "queue") ~> pc[c] \in {"ok", "err"} /\ lock # c
=============================================================================

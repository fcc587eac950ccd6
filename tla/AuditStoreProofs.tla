---------------------------- MODULE AuditStoreProofs ----------------------------
(***************************************************************************)
(* The audit store implements its ledger, for every number of calls and    *)
(* replicas and every quota.                                               *)
(*                                                                         *)
(* A begin reads the quota and the intent row in one statement and commits *)
(* in a later one, with timeouts, lost connections and other replicas in   *)
(* between.  The argument is that what it read stays so: the row lock is   *)
(* held from FOR UPDATE to the end of the transaction whatever becomes of  *)
(* its caller (CheckedUnderLock), and only the holder of the lock commits. *)
(* For the session in its slot the argument is that a connection never     *)
(* leaves its replica (SessionsOK), that it is in the slot or with the     *)
(* holder of the mutex (MutexOK), and that a caller who gives up with a    *)
(* transaction open closes it (PlacesOK).                                  *)
(***************************************************************************)
EXTENDS AuditStore, FiniteSetTheorems, TLAPS

\* The store starts empty, with nothing in flight.
LEMMA InitStore == Init => StoreInv
<1>. SUFFICES ASSUME Init PROVE StoreInv
  OBVIOUS
<1>. USE StoreAssumption DEF Init
<1>1. TypeOK /\ PlacesOK /\ SessionsOK /\ MutexOK
  BY DEF TypeOK, PlacesOK, SessionsOK, MutexOK, At, Holding, InTransaction
<1>2. RowsAgree
  BY FS_EmptySet DEF RowsAgree
<1>3. OkIsCommitted /\ NoInheritedWait /\ LockOwned /\ CheckedUnderLock
  BY DEF OkIsCommitted, NoInheritedWait, LockOwned, CheckedUnderLock, At, Committed
<1>. QED BY <1>1, <1>2, <1>3 DEF StoreInv

\* A call begins.
LEMMA BeginStep ==
  ASSUME StoreInv, NEW c \in Calls, Begin(c)
  PROVE  StoreInv'
<1>. USE StoreAssumption DEF StoreInv, TypeOK, Holding, InTransaction, rows
<1>1. TypeOK'
  BY DEF Begin, At, Go
<1>2. RowsAgree'
  BY DEF Begin, At, Go, RowsAgree
<1>3. OkIsCommitted'
  BY DEF Begin, At, Go, OkIsCommitted, PlacesOK, CheckedUnderLock, Committed
<1>4. NoInheritedWait'
  BY DEF Begin, At, Go, NoInheritedWait, PlacesOK, SessionsOK, MutexOK
<1>5. LockOwned'
  BY DEF Begin, At, Go, LockOwned, PlacesOK, SessionsOK, CheckedUnderLock,
      Connected
<1>6. PlacesOK'
  BY DEF Begin, At, Go, PlacesOK, SessionsOK
<1>7. SessionsOK'
  BY DEF Begin, At, Go, SessionsOK, PlacesOK
<1>8. MutexOK'
  BY DEF Begin, At, Go, MutexOK
<1>9. CheckedUnderLock'
  BY DEF Begin, At, Go, CheckedUnderLock, PlacesOK, SessionsOK, SameIntent,
      Quota, Committed
<1>. QED BY <1>1, <1>2, <1>3, <1>4, <1>5, <1>6, <1>7, <1>8, <1>9

\* The wait for the mutex ends.
LEMMA QueueFailsStep ==
  ASSUME StoreInv, NEW c \in Calls, QueueFails(c)
  PROVE  StoreInv'
<1>. USE StoreAssumption DEF StoreInv, TypeOK, Holding, InTransaction, rows
<1>1. TypeOK'
  BY DEF QueueFails, At, Go
<1>2. RowsAgree'
  BY DEF QueueFails, At, Go, RowsAgree
<1>3. OkIsCommitted'
  BY DEF QueueFails, At, Go, OkIsCommitted, PlacesOK, CheckedUnderLock,
      Committed
<1>4. NoInheritedWait'
  BY DEF QueueFails, At, Go, NoInheritedWait, PlacesOK, SessionsOK, MutexOK
<1>5. LockOwned'
  BY DEF QueueFails, At, Go, LockOwned, PlacesOK, SessionsOK,
      CheckedUnderLock, Connected
<1>6. PlacesOK'
  BY DEF QueueFails, At, Go, PlacesOK, SessionsOK
<1>7. SessionsOK'
  BY DEF QueueFails, At, Go, SessionsOK, PlacesOK
<1>8. MutexOK'
  BY DEF QueueFails, At, Go, MutexOK
<1>9. CheckedUnderLock'
  BY DEF QueueFails, At, Go, CheckedUnderLock, PlacesOK, SessionsOK,
      SameIntent, Quota, Committed
<1>. QED BY <1>1, <1>2, <1>3, <1>4, <1>5, <1>6, <1>7, <1>8, <1>9

\* The mutex is granted: the session, if it is usable, leaves its slot, where
\* nothing was in flight on it, and goes to a call of its own replica.
LEMMA AcquireStep ==
  ASSUME StoreInv, NEW c \in Calls, Acquire(c)
  PROVE  StoreInv'
<1>. USE StoreAssumption DEF StoreInv, TypeOK, Holding, InTransaction, rows
<1>1. TypeOK'
  BY DEF Acquire, At, Go
<1>2. RowsAgree'
  BY DEF Acquire, At, Go, RowsAgree
<1>3. OkIsCommitted'
  BY DEF Acquire, At, Go, OkIsCommitted, PlacesOK, CheckedUnderLock, Committed
<1>4. NoInheritedWait'
  BY DEF Acquire, At, Go, NoInheritedWait, PlacesOK, SessionsOK, MutexOK
<1>5. LockOwned'
  BY DEF Acquire, At, Go, LockOwned, PlacesOK, SessionsOK, CheckedUnderLock,
      Connected
<1>6. PlacesOK'
  <2>1. via[c] = NoCall /\ tx[c] = "none" /\ tx' = tx /\ link' = link
    BY DEF Acquire, At, PlacesOK, SessionsOK
  <2>2. pc'[c] \in {"begin", "dial"} /\ \A d \in Calls \ {c} : pc'[d] = pc[d] /\ via'[d] = via[d]
    BY DEF Acquire, Go
  <2>. QED BY <2>1, <2>2 DEF PlacesOK, At
<1>7. SessionsOK'
  <2>. DEFINE usable == slot[Home[c]] # NoCall /\ link[slot[Home[c]]] = "open"
  <2>1. /\ pc' = [pc EXCEPT ![c] = IF usable THEN "begin" ELSE "dial"]
        /\ via' = [via EXCEPT ![c] = IF usable THEN slot[Home[c]] ELSE NoCall]
        /\ slot' = [slot EXCEPT ![Home[c]] = NoCall]
        /\ pc[c] = "queue" /\ tx' = tx /\ link' = link
    BY DEF Acquire, At, Go
  <2>2. tx[c] = "none" /\ link[c] = "none" /\ Home[c] \in Replicas
    BY <2>1 DEF PlacesOK, SessionsOK
  <2>3. CASE usable
    BY <2>1, <2>2, <2>3 DEF SessionsOK, At
  <2>4. CASE ~ usable
    <3>. HIDE DEF usable
    <3>. QED BY <2>1, <2>2, <2>4 DEF SessionsOK, At
  <2>. QED BY <2>3, <2>4
<1>8. MutexOK'
  <2>1. /\ mutex' = [mutex EXCEPT ![Home[c]] = c] /\ mutex[Home[c]] = NoCall
        /\ slot' = [slot EXCEPT ![Home[c]] = NoCall]
        /\ \A d \in Calls \ {c} : pc'[d] = pc[d]
    BY DEF Acquire, Go
  <2>2. \A d \in Calls : pc'[d] \in Holding => mutex'[Home[d]] = d
    BY <2>1 DEF MutexOK
  <2>. QED BY <2>1, <2>2 DEF MutexOK
<1>9. CheckedUnderLock'
  BY DEF Acquire, At, Go, CheckedUnderLock, PlacesOK, SessionsOK, SameIntent,
      Quota, Committed
<1>. QED BY <1>1, <1>2, <1>3, <1>4, <1>5, <1>6, <1>7, <1>8, <1>9

\* A dialed connection was nobody's before.
LEMMA DialStep ==
  ASSUME StoreInv, NEW c \in Calls, Dial(c)
  PROVE  StoreInv'
<1>. USE StoreAssumption DEF StoreInv, TypeOK, Holding, InTransaction, rows
<1>1. TypeOK'
  BY DEF Dial, At, Go
<1>2. RowsAgree'
  BY DEF Dial, At, Go, RowsAgree
<1>3. OkIsCommitted'
  BY DEF Dial, At, Go, OkIsCommitted, PlacesOK, CheckedUnderLock, Committed
<1>4. NoInheritedWait'
  BY DEF Dial, At, Go, NoInheritedWait, PlacesOK, SessionsOK, MutexOK
<1>5. LockOwned'
  BY DEF Dial, At, Go, LockOwned, PlacesOK, SessionsOK, CheckedUnderLock,
      Connected
<1>6. PlacesOK'
  BY DEF Dial, At, Go, PlacesOK, SessionsOK
<1>7. SessionsOK'
  BY DEF Dial, At, Go, SessionsOK, PlacesOK
<1>8. MutexOK'
  BY DEF Dial, At, Go, MutexOK
<1>9. CheckedUnderLock'
  BY DEF Dial, At, Go, CheckedUnderLock, PlacesOK, SessionsOK, SameIntent,
      Quota, Committed
<1>. QED BY <1>1, <1>2, <1>3, <1>4, <1>5, <1>6, <1>7, <1>8, <1>9

\* A transaction is opened on a session that is in no slot.
LEMMA OpenTransactionStep ==
  ASSUME StoreInv, NEW c \in Calls, OpenTransaction(c)
  PROVE  StoreInv'
<1>. USE StoreAssumption DEF StoreInv, TypeOK, Holding, InTransaction, rows
<1>1. TypeOK'
  BY DEF OpenTransaction, At, Go, Tx, Connected, Busy
<1>2. RowsAgree'
  BY DEF OpenTransaction, At, Go, Tx, Connected, Busy, RowsAgree
<1>3. OkIsCommitted'
  BY DEF OpenTransaction, At, Go, Tx, Connected, Busy, OkIsCommitted,
      PlacesOK, CheckedUnderLock, Committed
<1>4. NoInheritedWait'
  BY DEF OpenTransaction, At, Go, Tx, Connected, Busy, NoInheritedWait,
      PlacesOK, SessionsOK, MutexOK
<1>5. LockOwned'
  BY DEF OpenTransaction, At, Go, Tx, Connected, Busy, LockOwned, PlacesOK,
      SessionsOK, CheckedUnderLock
<1>6. PlacesOK'
  BY DEF OpenTransaction, At, Go, Tx, Connected, Busy, PlacesOK, SessionsOK
<1>7. SessionsOK'
  BY DEF OpenTransaction, At, Go, Tx, Connected, Busy, SessionsOK, PlacesOK
<1>8. MutexOK'
  BY DEF OpenTransaction, At, Go, Tx, Connected, Busy, MutexOK
<1>9. CheckedUnderLock'
  BY DEF OpenTransaction, At, Go, Tx, Connected, Busy, CheckedUnderLock,
      PlacesOK, SessionsOK, SameIntent, Quota, Committed
<1>. QED BY <1>1, <1>2, <1>3, <1>4, <1>5, <1>6, <1>7, <1>8, <1>9

\* The quota is looked at under the lock.
LEMMA ReadRowStep ==
  ASSUME StoreInv, NEW c \in Calls, ReadRow(c)
  PROVE  StoreInv'
<1>. USE StoreAssumption DEF StoreInv, TypeOK, Holding, InTransaction, rows
<1>1. TypeOK'
  BY DEF ReadRow, Refuse, Return, At, Go, Tx, Connected, Quota
<1>2. RowsAgree'
  BY DEF ReadRow, Refuse, Return, At, Go, Tx, Connected, Quota, RowsAgree
<1>3. OkIsCommitted'
  BY DEF ReadRow, Refuse, Return, At, Go, Tx, Connected, Quota,
      OkIsCommitted, PlacesOK, CheckedUnderLock, Committed
<1>4. NoInheritedWait'
  BY DEF ReadRow, Refuse, Return, At, Go, Tx, Connected, Quota,
      NoInheritedWait, PlacesOK, SessionsOK, MutexOK
<1>5. LockOwned'
  BY DEF ReadRow, Refuse, Return, At, Go, Tx, Connected, Quota, LockOwned,
      PlacesOK, SessionsOK, CheckedUnderLock
<1>6. PlacesOK'
  BY DEF ReadRow, Refuse, Return, At, Go, Tx, Connected, Quota, PlacesOK,
      SessionsOK
<1>7. SessionsOK'
  BY DEF ReadRow, Refuse, Return, At, Go, Tx, Connected, Quota, SessionsOK,
      PlacesOK
<1>8. MutexOK'
  BY DEF ReadRow, Refuse, Return, At, Go, Tx, Connected, Quota, MutexOK
<1>9. CheckedUnderLock'
  BY DEF ReadRow, Refuse, Return, At, Go, Tx, Connected, Quota,
      CheckedUnderLock, PlacesOK, SessionsOK, SameIntent, Committed
<1>. QED BY <1>1, <1>2, <1>3, <1>4, <1>5, <1>6, <1>7, <1>8, <1>9

\* The intent is compared under the lock.
LEMMA CheckIntentStep ==
  ASSUME StoreInv, NEW c \in Calls, CheckIntent(c)
  PROVE  StoreInv'
<1>. USE StoreAssumption DEF StoreInv, TypeOK, Holding, InTransaction, rows
<1>1. TypeOK'
  BY DEF CheckIntent, Refuse, Return, At, Go, Tx, Connected
<1>2. RowsAgree'
  BY DEF CheckIntent, Refuse, Return, At, Go, Tx, Connected, RowsAgree
<1>3. OkIsCommitted'
  BY DEF CheckIntent, Refuse, Return, At, Go, Tx, Connected, OkIsCommitted,
      PlacesOK, CheckedUnderLock, Committed
<1>4. NoInheritedWait'
  BY DEF CheckIntent, Refuse, Return, At, Go, Tx, Connected, NoInheritedWait,
      PlacesOK, SessionsOK, MutexOK
<1>5. LockOwned'
  BY DEF CheckIntent, Refuse, Return, At, Go, Tx, Connected, LockOwned,
      PlacesOK, SessionsOK, CheckedUnderLock
<1>6. PlacesOK'
  BY DEF CheckIntent, Refuse, Return, At, Go, Tx, Connected, PlacesOK,
      SessionsOK
<1>7. SessionsOK'
  BY DEF CheckIntent, Refuse, Return, At, Go, Tx, Connected, SessionsOK,
      PlacesOK
<1>8. MutexOK'
  BY DEF CheckIntent, Refuse, Return, At, Go, Tx, Connected, MutexOK
<1>9. CheckedUnderLock'
  BY DEF CheckIntent, Refuse, Return, At, Go, Tx, Connected,
      CheckedUnderLock, PlacesOK, SessionsOK, SameIntent, Quota, Committed
<1>. QED BY <1>1, <1>2, <1>3, <1>4, <1>5, <1>6, <1>7, <1>8, <1>9

\* COMMIT is sent by the holder of the lock.
LEMMA SendCommitStep ==
  ASSUME StoreInv, NEW c \in Calls, SendCommit(c)
  PROVE  StoreInv'
<1>. USE StoreAssumption DEF StoreInv, TypeOK, Holding, InTransaction, rows
<1>1. TypeOK'
  BY DEF SendCommit, At, Go, Tx, Connected
<1>2. RowsAgree'
  BY DEF SendCommit, At, Go, Tx, Connected, RowsAgree
<1>3. OkIsCommitted'
  BY DEF SendCommit, At, Go, Tx, Connected, OkIsCommitted, PlacesOK,
      CheckedUnderLock, Committed
<1>4. NoInheritedWait'
  BY DEF SendCommit, At, Go, Tx, Connected, NoInheritedWait, PlacesOK,
      SessionsOK, MutexOK
<1>5. LockOwned'
  BY DEF SendCommit, At, Go, Tx, Connected, LockOwned, PlacesOK, SessionsOK,
      CheckedUnderLock
<1>6. PlacesOK'
  BY DEF SendCommit, At, Go, Tx, Connected, PlacesOK, SessionsOK
<1>7. SessionsOK'
  BY DEF SendCommit, At, Go, Tx, Connected, SessionsOK, PlacesOK
<1>8. MutexOK'
  BY DEF SendCommit, At, Go, Tx, Connected, MutexOK
<1>9. CheckedUnderLock'
  BY DEF SendCommit, At, Go, Tx, Connected, CheckedUnderLock, PlacesOK,
      SessionsOK, SameIntent, Quota, Committed
<1>. QED BY <1>1, <1>2, <1>3, <1>4, <1>5, <1>6, <1>7, <1>8, <1>9

\* The session of a call that was answered has nothing in flight.
LEMMA AnsweredStep ==
  ASSUME StoreInv, NEW c \in Calls, Answered(c)
  PROVE  StoreInv'
<1>. USE StoreAssumption DEF StoreInv, TypeOK, Holding, InTransaction, rows
<1>1. TypeOK'
  BY DEF Answered, Return, At, Go, Connected, Committed
<1>2. RowsAgree'
  BY DEF Answered, Return, At, Go, Connected, Committed, RowsAgree
<1>3. OkIsCommitted'
  BY DEF Answered, Return, At, Go, Connected, Committed, OkIsCommitted,
      PlacesOK, CheckedUnderLock
<1>4. NoInheritedWait'
  BY DEF Answered, Return, At, Go, Connected, Committed, NoInheritedWait,
      PlacesOK, SessionsOK, MutexOK
<1>5. LockOwned'
  BY DEF Answered, Return, At, Go, Connected, Committed, LockOwned, PlacesOK,
      SessionsOK, CheckedUnderLock
<1>6. PlacesOK'
  BY DEF Answered, Return, At, Go, Connected, Committed, PlacesOK, SessionsOK
<1>7. SessionsOK'
  BY DEF Answered, Return, At, Go, Connected, Committed, SessionsOK, PlacesOK
<1>8. MutexOK'
  BY DEF Answered, Return, At, Go, Connected, Committed, MutexOK
<1>9. CheckedUnderLock'
  BY DEF Answered, Return, At, Go, Connected, Committed, CheckedUnderLock,
      PlacesOK, SessionsOK, SameIntent, Quota
<1>. QED BY <1>1, <1>2, <1>3, <1>4, <1>5, <1>6, <1>7, <1>8, <1>9

\* A call that gives up takes its connection with it.
LEMMA FailsStep ==
  ASSUME StoreInv, NEW c \in Calls, Fails(c)
  PROVE  StoreInv'
<1>. USE StoreAssumption DEF StoreInv, TypeOK, Holding, InTransaction, rows
<1>1. TypeOK'
  BY DEF Fails, Abandon, Go
<1>2. RowsAgree'
  BY DEF Fails, Abandon, Go, RowsAgree, At
<1>3. OkIsCommitted'
  BY DEF Fails, Abandon, Go, OkIsCommitted, PlacesOK, CheckedUnderLock,
      Committed, At
<1>4. NoInheritedWait'
  BY DEF Fails, Abandon, Go, NoInheritedWait, PlacesOK, SessionsOK, MutexOK, At
<1>5. LockOwned'
  BY DEF Fails, Abandon, Go, LockOwned, PlacesOK, SessionsOK,
      CheckedUnderLock, Connected, At
<1>6. PlacesOK'
  BY DEF Fails, Abandon, Go, PlacesOK, SessionsOK, At
<1>7. SessionsOK'
  BY DEF Fails, Abandon, Go, SessionsOK, PlacesOK, At
<1>8. MutexOK'
  BY DEF Fails, Abandon, Go, MutexOK, At
<1>9. CheckedUnderLock'
  BY DEF Fails, Abandon, Go, CheckedUnderLock, PlacesOK, SessionsOK,
      SameIntent, Quota, Committed, At
<1>. QED BY <1>1, <1>2, <1>3, <1>4, <1>5, <1>6, <1>7, <1>8, <1>9

\* The row lock goes to one backend.
LEMMA GrantLockStep ==
  ASSUME StoreInv, NEW c \in Calls, GrantLock(c)
  PROVE  StoreInv'
<1>. USE StoreAssumption DEF StoreInv, TypeOK, Holding, InTransaction, rows
<1>1. TypeOK'
  BY DEF GrantLock, Tx
<1>2. RowsAgree'
  BY DEF GrantLock, Tx, RowsAgree, At
<1>3. OkIsCommitted'
  BY DEF GrantLock, Tx, OkIsCommitted, PlacesOK, CheckedUnderLock, Committed,
      At
<1>4. NoInheritedWait'
  BY DEF GrantLock, Tx, NoInheritedWait, PlacesOK, SessionsOK, MutexOK, At
<1>5. LockOwned'
  BY DEF GrantLock, Tx, LockOwned, PlacesOK, SessionsOK, CheckedUnderLock,
      Connected, At
<1>6. PlacesOK'
  BY DEF GrantLock, Tx, PlacesOK, SessionsOK, At
<1>7. SessionsOK'
  BY DEF GrantLock, Tx, SessionsOK, PlacesOK, At
<1>8. MutexOK'
  BY DEF GrantLock, Tx, MutexOK, At
<1>9. CheckedUnderLock'
  BY DEF GrantLock, Tx, CheckedUnderLock, PlacesOK, SessionsOK, SameIntent,
      Quota, Committed, At
<1>. QED BY <1>1, <1>2, <1>3, <1>4, <1>5, <1>6, <1>7, <1>8, <1>9

\* COMMIT adds an attempt that was not there, within the quota that was read
\* under the same lock, and for an input its identity may have.
LEMMA CommitStep ==
  ASSUME StoreInv, NEW c \in Calls, Commit(c)
  PROVE  StoreInv'
<1>. USE StoreAssumption DEF StoreInv, TypeOK, Holding, InTransaction, rows
<1>1. TypeOK'
  BY DEF Commit, Tx
<1>2. RowsAgree'
  <2>1. c \notin attempts /\ Quota /\ SameIntent(c)
    BY DEF Commit, CheckedUnderLock, Committed
  <2>2. IsFiniteSet(attempts)
    BY FS_Subset
  <2>3. Cardinality(attempts') = Cardinality(attempts) + 1
    BY <2>1, <2>2, FS_AddElement DEF Commit
  <2>4. count' = Cardinality(attempts') /\ count' <= MaxAttempts
    BY <2>1, <2>3 DEF Commit, RowsAgree, Quota
  <2>5. ASSUME NEW d \in attempts' PROVE intents'[Identity[d]] = {input'[d]}
    <3>1. d \in Calls /\ (d = c \/ d \in attempts) /\ input' = input
      BY DEF Commit
    <3>2. intents' = [intents EXCEPT ![Identity[c]] = {input[c]}]
      BY DEF Commit
    <3>3. CASE Identity[d] = Identity[c]
      BY <2>1, <3>1, <3>2, <3>3 DEF RowsAgree, SameIntent, CheckedUnderLock
    <3>4. CASE Identity[d] # Identity[c]
      BY <3>1, <3>2, <3>4 DEF RowsAgree, CheckedUnderLock
    <3>. QED BY <3>3, <3>4
  <2>. QED BY <2>4, <2>5 DEF RowsAgree
<1>3. OkIsCommitted'
  BY DEF Commit, Tx, OkIsCommitted, PlacesOK, CheckedUnderLock, Committed, At
<1>4. NoInheritedWait'
  BY DEF Commit, Tx, NoInheritedWait, PlacesOK, SessionsOK, MutexOK, At
<1>5. LockOwned'
  BY DEF Commit, Tx, LockOwned, PlacesOK, SessionsOK, CheckedUnderLock,
      Connected, At
<1>6. PlacesOK'
  BY DEF Commit, Tx, PlacesOK, SessionsOK, At
<1>7. SessionsOK'
  BY DEF Commit, Tx, SessionsOK, PlacesOK, At
<1>8. MutexOK'
  BY DEF Commit, Tx, MutexOK, At
<1>9. CheckedUnderLock'
  BY DEF Commit, Tx, CheckedUnderLock, PlacesOK, SessionsOK, SameIntent,
      Quota, Committed, At
<1>. QED BY <1>1, <1>2, <1>3, <1>4, <1>5, <1>6, <1>7, <1>8, <1>9

\* A backend lets go of the row.
LEMMA RollbackStep ==
  ASSUME StoreInv, NEW c \in Calls, Rollback(c)
  PROVE  StoreInv'
<1>. USE StoreAssumption DEF StoreInv, TypeOK, Holding, InTransaction, rows
<1>1. TypeOK'
  BY DEF Rollback, Tx
<1>2. RowsAgree'
  BY DEF Rollback, Tx, RowsAgree, At
<1>3. OkIsCommitted'
  BY DEF Rollback, Tx, OkIsCommitted, PlacesOK, CheckedUnderLock, Committed, At
<1>4. NoInheritedWait'
  BY DEF Rollback, Tx, NoInheritedWait, PlacesOK, SessionsOK, MutexOK, At
<1>5. LockOwned'
  BY DEF Rollback, Tx, LockOwned, PlacesOK, SessionsOK, CheckedUnderLock,
      Connected, At
<1>6. PlacesOK'
  BY DEF Rollback, Tx, PlacesOK, SessionsOK, At
<1>7. SessionsOK'
  BY DEF Rollback, Tx, SessionsOK, PlacesOK, At
<1>8. MutexOK'
  BY DEF Rollback, Tx, MutexOK, At
<1>9. CheckedUnderLock'
  BY DEF Rollback, Tx, CheckedUnderLock, PlacesOK, SessionsOK, SameIntent,
      Quota, Committed, At
<1>. QED BY <1>1, <1>2, <1>3, <1>4, <1>5, <1>6, <1>7, <1>8, <1>9

\* A closed connection stays closed.
LEMMA DisconnectStep ==
  ASSUME StoreInv, NEW c \in Calls, Disconnect(c)
  PROVE  StoreInv'
<1>. USE StoreAssumption DEF StoreInv, TypeOK, Holding, InTransaction, rows
<1>1. TypeOK'
  BY DEF Disconnect
<1>2. RowsAgree'
  BY DEF Disconnect, RowsAgree, At
<1>3. OkIsCommitted'
  BY DEF Disconnect, OkIsCommitted, PlacesOK, CheckedUnderLock, Committed, At
<1>4. NoInheritedWait'
  BY DEF Disconnect, NoInheritedWait, PlacesOK, SessionsOK, MutexOK, At
<1>5. LockOwned'
  BY DEF Disconnect, LockOwned, PlacesOK, SessionsOK, CheckedUnderLock,
      Connected, At
<1>6. PlacesOK'
  BY DEF Disconnect, PlacesOK, SessionsOK, At
<1>7. SessionsOK'
  BY DEF Disconnect, SessionsOK, PlacesOK, At
<1>8. MutexOK'
  BY DEF Disconnect, MutexOK, At
<1>9. CheckedUnderLock'
  BY DEF Disconnect, CheckedUnderLock, PlacesOK, SessionsOK, SameIntent,
      Quota, Committed, At
<1>. QED BY <1>1, <1>2, <1>3, <1>4, <1>5, <1>6, <1>7, <1>8, <1>9

-----------------------------------------------------------------------------
\* Every step of a call, of the database or of the network preserves the
\* invariant.
LEMMA StoreStep == StoreInv /\ [Next]_vars => StoreInv'
<1>. SUFFICES ASSUME StoreInv, [Next]_vars PROVE StoreInv'
  OBVIOUS
<1>1. ASSUME NEW c \in Calls, CallStep(c) PROVE StoreInv'
  BY <1>1, AcquireStep, DialStep, OpenTransactionStep, ReadRowStep, CheckIntentStep,
     SendCommitStep, AnsweredStep, QueueFailsStep, FailsStep DEF CallStep
<1>2. ASSUME NEW c \in Calls, DbStep(c) PROVE StoreInv'
  BY <1>2, GrantLockStep, CommitStep, RollbackStep DEF DbStep
<1>3. CASE UNCHANGED vars
  <2>. USE <1>3 DEF vars, rows, StoreInv, At
  <2>1. TypeOK' /\ RowsAgree' /\ OkIsCommitted'
    BY DEF TypeOK, RowsAgree, OkIsCommitted
  <2>2. NoInheritedWait' /\ LockOwned'
    BY DEF NoInheritedWait, LockOwned, Connected
  <2>3. PlacesOK' /\ SessionsOK' /\ MutexOK'
    BY DEF PlacesOK, SessionsOK, MutexOK
  <2>4. CheckedUnderLock'
    BY DEF CheckedUnderLock, Committed, Quota, SameIntent
  <2>. QED BY <2>1, <2>2, <2>3, <2>4
<1>. QED BY <1>1, <1>2, <1>3, BeginStep, DisconnectStep DEF Next

\* In every state of every run of the store its rows agree, an answered attempt
\* is committed, a session in its slot has nothing in flight and one transaction
\* at a time is past the namespace row (begin_inner, finish, record of audit.rs).
THEOREM StoreInvHolds == Spec => []StoreInv
<1>. QED BY InitStore, StoreStep, PTL DEF Spec

\* A begin takes effect at its COMMIT, once and all of it, within the quota and
\* for the input its identity was first armed with: every other step leaves the
\* ledger as it is (begin_inner).
THEOREM StoreImplementsLedger == Spec => ImplementsLedger
<1>1. Init => Ledger!LedgerInit
  BY DEF Init, Ledger!LedgerInit
<1>2. StoreInv /\ [Next]_vars => [\E c \in Calls : Ledger!Arm(c)]_(Ledger!ledger)
  <2>. SUFFICES ASSUME StoreInv, [Next]_vars
                PROVE  (\E c \in Calls : Ledger!Arm(c)) \/ UNCHANGED Ledger!ledger
    OBVIOUS
  <2>1. ASSUME NEW c \in Calls, Commit(c) PROVE Ledger!Arm(c)
    <3>1. c \notin attempts /\ Quota /\ SameIntent(c)
      BY <2>1 DEF Commit, StoreInv, CheckedUnderLock, Committed
    <3>. QED BY <2>1, <3>1 DEF Commit, Quota, SameIntent, Ledger!Arm, Ledger!Admits
  <2>2. ASSUME NEW c \in Calls, CallStep(c) PROVE UNCHANGED Ledger!ledger
    BY <2>2 DEF CallStep, Acquire, Dial, OpenTransaction, ReadRow, CheckIntent,
       SendCommit, Answered, QueueFails, Fails, Refuse, Return, rows, Ledger!ledger
  <2>3. ASSUME NEW c \in Calls, Begin(c) \/ GrantLock(c) \/ Rollback(c) \/ Disconnect(c)
        PROVE  UNCHANGED Ledger!ledger
    BY <2>3 DEF Begin, GrantLock, Rollback, Disconnect, rows, Ledger!ledger
  <2>4. CASE UNCHANGED vars
    BY <2>4 DEF vars, rows, Ledger!ledger
  <2>. QED BY <2>1, <2>2, <2>3, <2>4 DEF Next, DbStep
<1>. QED BY <1>1, <1>2, StoreInvHolds, PTL DEF Spec, ImplementsLedger, Ledger!LedgerSpec
=============================================================================

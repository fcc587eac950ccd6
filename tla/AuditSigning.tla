------------------------------ MODULE AuditSigning ------------------------------
(***************************************************************************)
(* Signing under the durable audit:                                        *)
(*   - sign_wallet, begin_effect and AttemptGuard, crates/pillar-core/src/ *)
(*     audit.rs, and the completion workers of audit_workers.rs            *)
(*   - sign_owned_effect and the local signer, crates/pillar-signer/src/   *)
(*   - begin_inner and record_inner of PostgresAuditStore, crates/         *)
(*     pillar-runtime/src/audit.rs                                         *)
(*   - the wallets of one request, sign_request_v2_inner of pillar-core.   *)
(*                                                                         *)
(* A "signing" is one sign_wallet future; it makes at most one attempt, so *)
(* it also names its attempt row.  Callers are dropped, workers outlive    *)
(* them, the store refuses or loses answers, and the process crashes.      *)
(* The KMS permit (FairBudget) and the store's session mutex are left out: *)
(* every transaction is one step of the database.                          *)
(***************************************************************************)
EXTENDS Integers, FiniteSets, Sequences

CONSTANTS Signings,
          Requests,
          Wallets,      \* the signings of each request, in wallet order
          Kind,         \* "kms" or "local", the signer of each
          Identity,     \* (request hash, wallet, key reference, key version)
          Inputs,       \* the transformed 32-byte inputs, with public key
          MaxAttempts,  \* the namespace quota
          Capacity      \* AuditWorkers: limits.kms.active

Members(q) == {Wallets[q][i] : i \in DOMAIN Wallets[q]}

\* A signing is the wallet future of one request.
ASSUME SigningsAssumption ==
  /\ Kind \in [Signings -> {"kms", "local"}]
  /\ Wallets \in [Requests -> Seq(Signings)]
  /\ \A w \in Signings : \E q \in Requests : w \in Members(q)
  /\ \A p, q \in Requests : Members(p) \cap Members(q) # {} => p = q
  /\ MaxAttempts \in Nat \ {0} /\ Capacity \in Nat \ {0}

VARIABLES
  attempts, count,  \* the committed attempt rows, and attempt_count
  intents,          \* the intent row of each identity: its input, or {}
  evidence,         \* the kinds of evidence rows of each attempt
  tx,               \* the begin transaction of each signing
  input,            \* what each signing signs
  scope,            \* WalletScope.attempts: none, open, recorded
  caller, result,   \* the sign_wallet future, and what its signer returned
  worker,           \* the completion worker of sign_owned_effect
  effect,           \* the signing call as its process saw it
  guard,            \* the task AttemptGuard::drop spawned
  slots,            \* the AuditWorkers permits taken
  reply,            \* what each request was answered
  spoilt            \* the signings the store or a crash failed

store == <<attempts, count, intents, evidence, tx, input>>
vars == <<store, scope, caller, result, worker, effect, guard, slots, reply,
          spoilt>>

Per(v) == [w \in Signings |-> v]
RequestOf(w) == CHOOSE q \in Requests : w \in Members(q)

Init ==
  /\ attempts = {} /\ count = 0 /\ evidence = Per({})
  /\ intents = [k \in {Identity[w] : w \in Signings} |-> {}]
  /\ tx = Per("none") /\ input \in [Signings -> Inputs]
  /\ scope = Per("none") /\ caller = Per("idle") /\ result = Per("none")
  /\ worker = Per("none") /\ effect = Per("none") /\ guard = Per("none")
  /\ slots = {} /\ reply = [q \in Requests |-> "pending"] /\ spoilt = {}

-----------------------------------------------------------------------------
(* The store. *)

\* begin_inner under the row lock: the quota, the intent row inserted or
\* compared, the attempt, the count, COMMIT; or a refusal that changes
\* nothing.  It may run after the caller has stopped waiting.
Admissible(w) ==
  /\ count < MaxAttempts
  /\ intents[Identity[w]] \in {{}, {input[w]}}

DbBegin(w) ==
  /\ tx[w] = "sent"
  /\ \/ /\ Admissible(w)
        /\ intents' = [intents EXCEPT ![Identity[w]] = {input[w]}]
        /\ attempts' = attempts \cup {w}
        /\ count' = count + 1
        /\ tx' = [tx EXCEPT ![w] = "committed"]
     \/ /\ tx' = [tx EXCEPT ![w] = "refused"]
        /\ UNCHANGED <<intents, attempts, count>>
  /\ UNCHANGED <<evidence, input, scope, caller, result, worker, effect, guard,
                 slots, reply, spoilt>>

\* Fault: the outcome of COMMIT is not looked at.
EvidenceUnsure(w, kind, answered) ==
  /\ evidence' \in {[evidence EXCEPT ![w] = @ \cup {kind}], evidence}
  /\ spoilt' = IF answered THEN spoilt ELSE spoilt \cup {w}
  /\ UNCHANGED <<attempts, count, intents, tx, input>>

\* One store.record: committed and answered, or an error, whether or not the
\* row was written.
Evidence(w, kind, answered) ==
  /\ evidence' \in {[evidence EXCEPT ![w] = @ \cup {kind}]}
                     \cup (IF answered THEN {} ELSE {evidence})
  /\ spoilt' = IF answered THEN spoilt ELSE spoilt \cup {w}
  /\ UNCHANGED <<attempts, count, intents, tx, input>>

\* The same, and the mark in the wallet scope that follows a success.
Record(w, kind, answered) ==
  /\ Evidence(w, kind, answered)
  /\ scope' = IF answered THEN [scope EXCEPT ![w] = "recorded"] ELSE scope

-----------------------------------------------------------------------------
(* The caller: sign_wallet around the signer. *)

\* AuditWorkers::reserve finds a free permit of the semaphore.
SlotFree == Cardinality(slots) < Capacity

Going(w) == reply[RequestOf(w)] = "pending"

\* The signer starts: the KMS path reserves its worker before begin_effect
\* (no slot or no permit: an error without an attempt).
Start(w) ==
  /\ caller[w] = "idle" /\ Going(w)
  /\ \/ /\ Kind[w] = "kms" => SlotFree
        /\ slots' = IF Kind[w] = "kms" THEN slots \cup {<<w, "effect">>} ELSE slots
        /\ caller' = [caller EXCEPT ![w] = "begin"]
        /\ tx' = [tx EXCEPT ![w] = "sent"]
        /\ UNCHANGED result
     \/ /\ Kind[w] = "kms"
        /\ caller' = [caller EXCEPT ![w] = "wrap"]
        /\ result' = [result EXCEPT ![w] = "err"]
        /\ UNCHANGED <<slots, tx>>
  /\ UNCHANGED <<attempts, count, intents, evidence, input, scope, worker,
                 effect, guard, reply, spoilt>>

\* Fault: the effect does not wait for the COMMIT.
ArmedEarly(w) == tx[w] \in {"sent", "committed"}

\* The store's begin answers with the id of a committed attempt.
Armed(w) == tx[w] = "committed"

\* begin_effect returns the committed attempt: the worker is spawned with the
\* reservation, or the local key signs in the same poll.
Begun(w) ==
  /\ caller[w] = "begin" /\ Armed(w)
  /\ scope' = [scope EXCEPT ![w] = "open"]
  /\ \/ /\ Kind[w] = "kms"
        /\ worker' = [worker EXCEPT ![w] = "spawned"]
        /\ caller' = [caller EXCEPT ![w] = "await"]
        /\ UNCHANGED <<effect, result>>
     \/ /\ Kind[w] = "local"
        /\ caller' = [caller EXCEPT ![w] = "external"]
        /\ effect' = [effect EXCEPT ![w] = "signed"]
        /\ UNCHANGED <<worker, result>>
     \/ /\ Kind[w] = "local"
        /\ caller' = [caller EXCEPT ![w] = "wrap"]
        /\ effect' = [effect EXCEPT ![w] = "failed"]
        /\ result' = [result EXCEPT ![w] = "err"]
        /\ UNCHANGED worker
  /\ UNCHANGED <<store, guard, slots, reply, spoilt>>

\* begin_effect fails: refused, or the answer did not come in time and the
\* transaction may have committed, or still commit.  The signer returns an
\* error and the reservation is dropped.
BeginFails(w) ==
  /\ caller[w] = "begin"
  /\ caller' = [caller EXCEPT ![w] = "wrap"]
  /\ result' = [result EXCEPT ![w] = "err"]
  /\ slots' = slots \ {<<w, "effect">>}
  /\ UNCHANGED <<store, scope, worker, effect, guard, reply, spoilt>>

\* local_returned.
LocalReturned(w, answered) ==
  /\ caller[w] = "external"
  /\ Record(w, "external", answered)
  /\ caller' = [caller EXCEPT ![w] = "wrap"]
  /\ result' = [result EXCEPT ![w] = IF answered THEN "ok" ELSE "err"]
  /\ UNCHANGED <<worker, effect, guard, slots, reply>>

\* The request's deadline ends the wait for the worker.
AwaitExpires(w) ==
  /\ caller[w] = "await"
  /\ caller' = [caller EXCEPT ![w] = "wrap"]
  /\ result' = [result EXCEPT ![w] = "err"]
  /\ UNCHANGED <<store, scope, worker, effect, guard, slots, reply, spoilt>>

\* Fault: a dropped future leaves its open attempt as it is.
DropWithoutGuard(S, marks) ==
  /\ slots' = slots \ {<<w, "effect">> : w \in {v \in S : caller[v] = "begin"}}
  /\ UNCHANGED guard

\* The futures of S are dropped: a reservation not handed to a worker goes
\* back, and AttemptGuard::drop has the attempts the scopes' marks leave open
\* recorded unknown by tasks, with a slot each while there are some (the
\* futures go in any order).
DropGuards(S, marks) ==
  LET open == {w \in S : marks[w] = "open"}
      kept == slots \ {<<w, "effect">> : w \in {v \in S : caller[v] = "begin"}}
  IN
  /\ guard' = [w \in Signings |-> IF w \in open THEN "pending" ELSE guard[w]]
  /\ \E taken \in SUBSET {<<w, "guard">> : w \in open} :
       /\ Cardinality(kept \cup taken) <= Capacity
       /\ \/ Cardinality(slots \cup taken) >= Capacity
          \/ Cardinality(taken) = Cardinality(open)
       /\ slots' = kept \cup taken

\* sign_wallet, after its signer returned: evidence for the attempt, if there
\* is one, and the answer; then the guard.
Wrap(w, answered) ==
  /\ caller[w] = "wrap"
  /\ \/ /\ scope[w] = "none" /\ answered
        /\ caller' = [caller EXCEPT ![w] = "err"]
        /\ UNCHANGED <<store, scope, spoilt>>
     \/ /\ scope[w] # "none"
        /\ Record(w, IF result[w] = "ok" THEN "wallet" ELSE "unknown", answered)
        /\ caller' = [caller EXCEPT ![w] = IF answered THEN result[w] ELSE "err"]
  /\ DropGuards({w}, scope')
  /\ UNCHANGED <<result, worker, effect, reply>>

\* The detached task of the guard.
GuardRecords(w, answered) ==
  /\ guard[w] = "pending"
  /\ Evidence(w, "unknown", answered)
  /\ guard' = [guard EXCEPT ![w] = "none"]
  /\ slots' = slots \ {<<w, "guard">>}
  /\ UNCHANGED <<scope, caller, result, worker, effect, reply>>

-----------------------------------------------------------------------------
(* The worker of sign_owned_effect. *)

Listening(w) == caller[w] = "await"

WorkerGoes(w, to) == worker' = [worker EXCEPT ![w] = to]
\* Fault: the reservation is not given back.
WorkerEndsHolding(w) == worker' = [worker EXCEPT ![w] = "none"] /\ UNCHANGED slots

WorkerEnds(w) ==
  /\ worker' = [worker EXCEPT ![w] = "none"]
  /\ slots' = slots \ {<<w, "effect">>}

\* The first poll: the effect starts only if somebody still waits for it.
WorkerStart(w) ==
  /\ worker[w] = "spawned"
  /\ \/ /\ Listening(w)
        /\ WorkerGoes(w, "signing")
        /\ effect' = [effect EXCEPT ![w] = "running"]
     \/ ~ Listening(w) /\ WorkerGoes(w, "unstarted") /\ UNCHANGED effect
  /\ UNCHANGED <<store, scope, caller, result, guard, slots, reply, spoilt>>

\* The select: the caller is gone before the effect is over.
CallerLost(w) ==
  /\ worker[w] = "signing" /\ ~ Listening(w)
  /\ WorkerGoes(w, "lost")
  /\ UNCHANGED <<store, scope, caller, result, effect, guard, slots, reply, spoilt>>

\* The effect returns a signature, an error, or nothing in 55.2 seconds.
EffectReturns(w, outcome) ==
  /\ worker[w] \in {"signing", "alone"}
  /\ effect' = [effect EXCEPT ![w] = outcome]
  /\ \/ worker[w] = "signing" /\ WorkerGoes(w, "returned") /\ UNCHANGED slots
     \/ /\ worker[w] = "alone" /\ outcome = "signed"
        /\ WorkerGoes(w, "late") /\ UNCHANGED slots
     \/ worker[w] = "alone" /\ outcome = "failed" /\ WorkerEnds(w)
  /\ UNCHANGED <<store, scope, caller, result, guard, reply, spoilt>>

\* What the effect showed to a worker whose caller still waits.
Observed(w) == IF effect[w] = "signed" THEN "external" ELSE "unknown"

\* What the worker records: unknown for an effect not started or outliving
\* its caller, else what the effect returned.
WorkerRecords(w, answered) ==
  /\ \/ /\ worker[w] = "unstarted"
        /\ Record(w, "unknown", answered) /\ WorkerEnds(w)
     \/ /\ worker[w] = "lost"
        /\ Record(w, "unknown", answered)
        /\ WorkerGoes(w, "alone") /\ UNCHANGED slots
     \/ /\ worker[w] = "late"
        /\ Record(w, "external", answered) /\ WorkerEnds(w)
     \/ /\ worker[w] = "returned"
        /\ Record(w, Observed(w), answered)
        /\ WorkerGoes(w, IF effect[w] = "signed" /\ answered THEN "sendOk" ELSE "sendErr")
        /\ UNCHANGED slots
     \/ /\ worker[w] = "unsent"
        /\ Record(w, "unknown", answered) /\ WorkerEnds(w)
  /\ UNCHANGED <<caller, result, effect, guard, reply>>

\* The result goes to the caller, or nobody is there to take it.
Send(w) ==
  /\ worker[w] \in {"sendOk", "sendErr"}
  /\ \/ /\ Listening(w)
        /\ caller' = [caller EXCEPT ![w] = "wrap"]
        /\ result' = [result EXCEPT ![w] = IF worker[w] = "sendOk" THEN "ok" ELSE "err"]
        /\ WorkerEnds(w)
     \/ /\ ~ Listening(w)
        /\ WorkerGoes(w, "unsent")
        /\ UNCHANGED <<caller, result, slots>>
  /\ UNCHANGED <<store, scope, effect, guard, reply, spoilt>>

-----------------------------------------------------------------------------
(* The request. *)

\* The wallet futures of S that are not finished are dropped.
Unfinished(S) == {w \in S : caller[w] \notin {"ok", "err", "gone"}}
Abandon(S) ==
  /\ caller' = [w \in Signings |-> IF w \in Unfinished(S) THEN "gone" ELSE caller[w]]
  /\ DropGuards(Unfinished(S), scope)

\* try_collect over the buffered wallets: every signature, or the first error
\* in wallet order, with the other futures dropped.
Respond(q) ==
  /\ reply[q] = "pending"
  /\ \/ /\ \A w \in Members(q) : caller[w] = "ok"
        /\ reply' = [reply EXCEPT ![q] = "ok"]
        /\ UNCHANGED <<caller, guard, slots>>
     \/ /\ \E i \in DOMAIN Wallets[q] :
             /\ caller[Wallets[q][i]] = "err"
             /\ \A j \in 1 .. i - 1 : caller[Wallets[q][j]] = "ok"
        /\ reply' = [reply EXCEPT ![q] = "err"]
        /\ Abandon(Members(q))
  /\ UNCHANGED <<store, scope, result, worker, effect, spoilt>>

\* The client goes away, or the server cuts the request off.
Disconnect(q) ==
  /\ reply[q] = "pending"
  /\ reply' = [reply EXCEPT ![q] = "gone"]
  /\ Abandon(Members(q))
  /\ UNCHANGED <<store, scope, result, worker, effect, spoilt>>

\* The process stops (a crash, or the runtime dropped and its workers
\* aborted): what was in flight is gone and nothing is recorded for it.
InFlight ==
  {w \in Signings : \/ caller[w] \notin {"idle", "ok", "err", "gone"}
                    \/ worker[w] # "none" \/ guard[w] # "none"}
Crash ==
  /\ InFlight # {}
  /\ LET cut == {q \in Requests : reply[q] = "pending"
                                    /\ Members(q) \cap InFlight # {}} IN
     /\ reply' = [q \in Requests |-> IF q \in cut THEN "gone" ELSE reply[q]]
     /\ caller' = [w \in Signings |->
          IF RequestOf(w) \in cut /\ caller[w] \notin {"ok", "err"}
          THEN "gone" ELSE caller[w]]
  /\ worker' = Per("none") /\ guard' = Per("none") /\ slots' = {}
  /\ spoilt' = spoilt \cup InFlight
  /\ UNCHANGED <<store, scope, result, effect>>

-----------------------------------------------------------------------------
CallerStep(w) ==
  \/ Begun(w) \/ BeginFails(w) \/ AwaitExpires(w)
  \/ \E answered \in BOOLEAN : LocalReturned(w, answered) \/ Wrap(w, answered)

WorkerStep(w) ==
  \/ WorkerStart(w) \/ CallerLost(w) \/ Send(w)
  \/ \E outcome \in {"signed", "failed"} : EffectReturns(w, outcome)
  \/ \E answered \in BOOLEAN : WorkerRecords(w, answered)

GuardStep(w) == \E answered \in BOOLEAN : GuardRecords(w, answered)

Next ==
  \/ \E w \in Signings : \/ DbBegin(w) \/ Start(w)
                         \/ CallerStep(w) \/ WorkerStep(w) \/ GuardStep(w)
  \/ \E q \in Requests : Respond(q) \/ Disconnect(q)
  \/ Crash

\* Futures and tasks are polled, and every wait has a deadline: begin and
\* record the store's timeout, the effect 55.2 s, the request its own.
Spec ==
  /\ Init /\ [][Next]_vars
  /\ \A w \in Signings : /\ WF_vars(CallerStep(w)) /\ WF_vars(WorkerStep(w))
                         /\ WF_vars(GuardStep(w))

-----------------------------------------------------------------------------
(* Properties. *)

Kinds == {"external", "wallet", "unknown"}

\* Every variable has its type.
TypeOK ==
  /\ attempts \in SUBSET Signings /\ count \in Nat
  /\ evidence \in [Signings -> SUBSET Kinds]
  /\ tx \in [Signings -> {"none", "sent", "committed", "refused"}]
  /\ input \in [Signings -> Inputs]
  /\ scope \in [Signings -> {"none", "open", "recorded"}]
  /\ caller \in [Signings -> {"idle", "begin", "await", "external", "wrap",
                              "ok", "err", "gone"}]
  /\ result \in [Signings -> {"none", "ok", "err"}]
  /\ worker \in [Signings -> {"none", "spawned", "unstarted", "signing", "lost",
                              "alone", "late", "returned", "sendOk", "sendErr",
                              "unsent"}]
  /\ effect \in [Signings -> {"none", "running", "signed", "failed"}]
  /\ guard \in [Signings -> {"none", "pending"}]
  /\ slots \in SUBSET (Signings \X {"effect", "guard"})
  /\ reply \in [Requests -> {"pending", "ok", "err", "gone"}]
  /\ spoilt \in SUBSET Signings

\* No signing call is ever made whose attempt is not committed: a refusal, a
\* lost answer or a full quota authorizes nothing (SECURITY.md, gate 2).
EffectAfterCommit == \A w \in Signings : effect[w] # "none" => w \in attempts

\* A request is answered with signatures only when every wallet's attempt has
\* the evidence of its signature committed, the signer's and the wallet's
\* (SECURITY.md, gate 3: "COMMIT returned-signature fingerprints ... before
\* 200").
SuccessIsEvidenced ==
  \A q \in Requests : reply[q] = "ok" =>
    \A w \in Members(q) :
      w \in attempts /\ {"external", "wallet"} \subseteq evidence[w]

\* The evidence tells the truth: a returned signature was returned, and
\* evidence is only ever about a committed attempt.
EvidenceIsTrue ==
  \A w \in Signings :
    /\ evidence[w] # {} => w \in attempts
    /\ "external" \in evidence[w] => effect[w] = "signed"

(* The parts of the inductive invariant behind these and the next. *)

Finished == {"ok", "err", "gone"}

\* A signing's scope knows its attempt from the answer of begin on, and nothing
\* happens under an attempt the scope does not know.
ScopeOK(w) ==
  /\ w \in attempts <=> tx[w] = "committed"
  /\ scope[w] # "none" => tx[w] = "committed"
  /\ scope[w] = "none" =>
       /\ worker[w] = "none" /\ effect[w] = "none" /\ guard[w] = "none"
       /\ evidence[w] = {} /\ caller[w] \notin {"await", "external"}
  /\ caller[w] \in {"idle", "begin"} => scope[w] = "none" /\ result[w] = "none"
  /\ caller[w] = "idle" => tx[w] = "none"
  /\ scope[w] = "recorded" => evidence[w] # {}

\* What the worker does, what the effect shows and what is recorded of it.
EffectOK(w) ==
  /\ worker[w] \in {"spawned", "unstarted"} => effect[w] = "none"
  /\ worker[w] \in {"signing", "lost", "alone"} => effect[w] = "running"
  /\ worker[w] \in {"returned", "sendErr", "unsent"} => effect[w] \in {"signed", "failed"}
  /\ worker[w] = "late" \/ caller[w] = "external" => effect[w] = "signed"
  /\ worker[w] # "none" => Kind[w] = "kms"
  /\ "external" \in evidence[w] => effect[w] = "signed"

\* A success on its way to the client has its evidence committed behind it.
AnswerOK(w) ==
  /\ worker[w] = "sendOk" \/ result[w] = "ok" => "external" \in evidence[w]
  /\ caller[w] = "wrap" => result[w] # "none"
  /\ caller[w] = "ok" => {"external", "wallet"} \subseteq evidence[w]

\* A worker runs on the reservation its caller made, and gives it back; so does
\* the task of a guard that got one.
SlotOwned(w) ==
  /\ <<w, "effect">> \in slots <=>
       worker[w] # "none" \/ (caller[w] = "begin" /\ Kind[w] = "kms")
  /\ <<w, "guard">> \in slots => guard[w] = "pending"

\* Somebody still owes the evidence an attempt lacks.
EvidenceOwed(w) ==
  w \notin spoilt =>
    /\ scope[w] = "open" /\ caller[w] \in Finished =>
         guard[w] = "pending" \/ evidence[w] # {}
    /\ effect[w] = "running" => worker[w] \in {"signing", "lost", "alone"}
    /\ Kind[w] = "kms" /\ effect[w] = "signed" =>
         worker[w] \in {"returned", "late"} \/ "external" \in evidence[w]

SigningOK(w) ==
  ScopeOK(w) /\ EffectOK(w) /\ AnswerOK(w) /\ SlotOwned(w) /\ EvidenceOwed(w)

\* The completion workers keep to the pool.
SlotsBounded == IsFiniteSet(slots) /\ Cardinality(slots) <= Capacity

\* An answered request has no wallet left that runs.
RepliesOK ==
  \A q \in Requests : \A w \in Members(q) :
    /\ reply[q] # "pending" => caller[w] \in Finished
    /\ reply[q] = "ok" => caller[w] = "ok"

\* What every step preserves: types, no effect before its commit, no untrue
\* evidence, no slot without its owner, and the rest.
SigningInv ==
  /\ TypeOK /\ EffectAfterCommit /\ EvidenceIsTrue
  /\ SlotsBounded /\ RepliesOK /\ \A w \in Signings : SigningOK(w)

Quiet(w) ==
  /\ caller[w] \in Finished
  /\ worker[w] = "none" /\ guard[w] = "none"

\* No attempt is forgotten: when nothing of a signing is left running and
\* neither the store nor a crash got in the way, the attempt its caller knew
\* of has evidence, and a signature a worker got back, however late, has its
\* own (SECURITY.md: "Caller drop records outcome_unknown; a ... worker can
\* append late evidence").
NothingForgotten ==
  \A w \in Signings :
    Quiet(w) /\ scope[w] # "none" /\ w \notin spoilt =>
      /\ evidence[w] # {}
      /\ Kind[w] = "kms" /\ effect[w] = "signed" => "external" \in evidence[w]
      /\ effect[w] # "running"

\* Every started signing comes to rest and gives its slots back.
SigningsEnd ==
  \A w \in Signings :
    caller[w] # "idle" ~> Quiet(w) /\ \A k \in {"effect", "guard"} : <<w, k>> \notin slots
=============================================================================

------------------------------ MODULE ExactQuorum ------------------------------
(***************************************************************************)
(* One exact-agreement round over a pool of providers:                     *)
(* ExactQuorumAccumulator of crates/pillar-runtime/src/provider_health/    *)
(* quorum.rs and the loop of resolve_provider_quorum_for_indices around    *)
(* it.  Every provider of the pool is asked; the answers arrive in any     *)
(* order, one per turn of the loop, and the loop stops as soon as it may.  *)
(*                                                                         *)
(* The quorum strategy enters as Quorums, the sets of providers whose      *)
(* (category, entity) voters satisfy it; DispatchPlan.tla says which these     *)
(* are.  A response is represented by its fingerprint.                     *)
(***************************************************************************)
EXTENDS Integers, FiniteSets

CONSTANTS Providers,     \* the indices dispatched in this round
          Fingerprints,  \* the distinct responses providers may give
          Quorums        \* the sets that QuorumRule::is_met_by accepts

\* is_met_by only gains from another voter, and required_provider_quorum and
\* plan_dispatch refuse a pool that cannot meet its own strategy.
ASSUME PoolAssumption ==
  /\ Providers \in SUBSET Nat
  /\ IsFiniteSet(Providers)
  /\ Quorums \in SUBSET (SUBSET Providers)
  /\ \A S \in Quorums, T \in SUBSET Providers : S \subseteq T => T \in Quorums
  /\ Providers \in Quorums
  /\ {} \notin Quorums

\* What an answer is when it is not a response: no usable result or a remote
\* failure, a refusal by a local budget, or a configuration error.
NoVote == {"remote", "admission", "configuration"}

\* A provider may give any response: there is never only one.
ASSUME RepliesAssumption ==
  /\ Fingerprints \cap NoVote = {}
  /\ \E f, g \in Fingerprints : f # g

VARIABLES
  reply,       \* what each provider will answer (the round's environment)
  pending,     \* ExactQuorumAccumulator.pending
  voters,      \* .voters: the indices recorded for each fingerprint
  retained,    \* the index whose value each candidate keeps
  errorCount,  \* .error_count
  deferred,    \* .deferred: a local refusal was met
  result       \* what the loop returned, "running" before that

vars == <<reply, pending, voters, retained, errorCount, deferred, result>>

Running == [kind |-> "running"]
Agreed(f, i) == [kind |-> "agreed", fingerprint |-> f, from |-> i]
Failed(kind) == [kind |-> kind]

Init ==
  /\ reply \in [Providers -> Fingerprints \cup NoVote]
  /\ pending = Providers
  /\ voters = [f \in Fingerprints |-> {}]
  /\ retained = [f \in Fingerprints |-> 0]
  /\ errorCount = 0
  /\ deferred = FALSE
  /\ result = Running

-----------------------------------------------------------------------------
IsMetBy(S) == S \in Quorums

Recorded == {f \in Fingerprints : voters[f] # {}}
Candidates == {f \in Recorded : IsMetBy(voters[f])}

\* Fault: providers that have not answered do not count on their own.
CanReachRecorded == \E f \in Recorded : IsMetBy(voters[f] \cup pending)

CanReachQuorum ==
  \/ IsMetBy(pending)
  \/ \E f \in Recorded : IsMetBy(voters[f] \cup pending)

\* Fault: the first response to meet the rule wins.
FirstToMeet(f) == Candidates = {f}

\* unambiguous_result: f alone meets the rule, and neither the pending
\* providers alone nor another response joined by them could.
Unambiguous(f) ==
  /\ Candidates = {f}
  /\ ~ IsMetBy(pending)
  /\ \A g \in Recorded \ {f} : ~ IsMetBy(voters[g] \cup pending)

\* Fault: the highest index is the one retained.
RecordHighest(p) ==
  /\ pending' = pending \ {p}
  /\ \/ /\ reply[p] \in Fingerprints
        /\ voters' = [voters EXCEPT ![reply[p]] = @ \cup {p}]
        /\ retained' = [retained EXCEPT ![reply[p]] =
             IF \A q \in voters[reply[p]] : p > q THEN p ELSE @]
     \/ reply[p] \notin Fingerprints /\ UNCHANGED <<voters, retained>>
  /\ UNCHANGED <<errorCount, deferred>>

\* Fault: a refusal by a local budget is a failed vote.
RecordRefusal(p) ==
  /\ pending' = pending \ {p}
  /\ \/ /\ reply[p] \in Fingerprints
        /\ voters' = [voters EXCEPT ![reply[p]] = @ \cup {p}]
        /\ retained' = [retained EXCEPT ![reply[p]] =
             IF \A q \in voters[reply[p]] : p < q THEN p ELSE @]
        /\ UNCHANGED errorCount
     \/ /\ reply[p] \notin Fingerprints
        /\ errorCount' = errorCount + 1
        /\ UNCHANGED <<voters, retained>>
  /\ UNCHANGED deferred

\* record_result and record: one answer enters the tally.
Record(p) ==
  /\ pending' = pending \ {p}
  /\ \/ /\ reply[p] \in Fingerprints
        /\ voters' = [voters EXCEPT ![reply[p]] = @ \cup {p}]
        /\ retained' = [retained EXCEPT ![reply[p]] =
             IF \A q \in voters[reply[p]] : p < q THEN p ELSE @]
        /\ UNCHANGED <<errorCount, deferred>>
     \/ /\ reply[p] = "remote"
        /\ errorCount' = errorCount + 1
        /\ UNCHANGED <<voters, retained, deferred>>
     \/ /\ reply[p] = "admission"
        /\ deferred' = TRUE
        /\ UNCHANGED <<voters, retained, errorCount>>

\* finish, over the tally the last answer left.
Conclude ==
  \/ \E f \in Fingerprints :
       /\ Candidates' = {f}
       /\ result' = Agreed(f, retained'[f])
  \/ /\ Candidates' = {} /\ deferred'
     /\ \A f, g \in Recorded' : f = g
     /\ result' = Failed("admission")
  \/ /\ \A f \in Fingerprints : Candidates' # {f}
     /\ Candidates' # {} \/ ~ deferred' \/ \E f, g \in Recorded' : f # g
     /\ result' = Failed("incomplete")

\* One turn of the loop: record the answer, return an unambiguous result, go
\* on while a quorum is still possible and answers are outstanding.
Arrive(p) ==
  /\ result = Running /\ p \in pending
  /\ reply[p] # "configuration"
  /\ Record(p)
  /\ \/ \E f \in Fingerprints :
          Unambiguous(f)' /\ result' = Agreed(f, retained'[f])
     \/ /\ \A f \in Fingerprints : ~ Unambiguous(f)'
        /\ CanReachQuorum' /\ pending' # {}
        /\ result' = Running
     \/ /\ \A f \in Fingerprints : ~ Unambiguous(f)'
        /\ ~ CanReachQuorum' \/ pending' = {}
        /\ Conclude
  /\ UNCHANGED reply

\* A configuration error is nobody's vote: the round returns it at once.
ArriveConfiguration(p) ==
  /\ result = Running /\ p \in pending
  /\ reply[p] = "configuration"
  /\ result' = Failed("configuration")
  /\ UNCHANGED <<reply, pending, voters, retained, errorCount, deferred>>

Next == \E p \in Providers : Arrive(p) \/ ArriveConfiguration(p)

Spec == Init /\ [][Next]_vars

-----------------------------------------------------------------------------
(* Properties. *)

\* Every variable of the round has its type.
TypeOK ==
  /\ reply \in [Providers -> Fingerprints \cup NoVote]
  /\ pending \in SUBSET Providers
  /\ voters \in [Fingerprints -> SUBSET Providers]
  /\ retained \in [Fingerprints -> Nat]
  /\ errorCount \in Nat
  /\ deferred \in BOOLEAN
  /\ \/ result = Running
     \/ result \in [kind : {"admission", "incomplete", "configuration"}]
     \/ \E f \in Fingerprints, i \in Providers : result = Agreed(f, i)

\* The responses that would meet the strategy had every answer been awaited.
Supporters(f) == {p \in Providers : reply[p] = f}
Winners == {f \in Fingerprints : IsMetBy(Supporters(f))}

\* Whatever the order of the answers and however early the round stops, the
\* response it returns is the only one the whole pool supports: a late
\* second winner cannot be outrun (unambiguous_result).
AgreedIsUnique == result.kind = "agreed" => Winners = {result.fingerprint}

\* The round gives up (can_reach_quorum, finish) only when the whole pool has
\* no unique winner: no arrival order loses an agreement.
FailureIsReal ==
  result.kind \in {"incomplete", "admission"} =>
    \A f \in Fingerprints : Winners # {f}

\* The value returned is the one the lowest recorded index gave, so it does
\* not depend on which of the recorded answers came first.
LowestIndexRetained ==
  result.kind = "agreed" =>
    /\ result.from \in voters[result.fingerprint]
    /\ \A p \in voters[result.fingerprint] : result.from <= p

\* A pending answer that may still be a response or a failure.
Continuations == [pending -> Fingerprints \cup {"remote"}]
WinnersUnder(c) ==
  {f \in Fingerprints :
     IsMetBy(voters[f] \cup {p \in pending : c[p] = f})}

\* The round waits for nobody whose answer cannot matter: while it runs, some
\* answers of the pending providers would lead to agreement on one response
\* and others would not.  (With two winners already recorded the outcome is
\* settled, and the code still waits: can_reach_quorum is true for ever.)
NoNeedlessWait ==
  result = Running /\ (\A f, g \in Candidates : f = g) =>
    /\ \E c \in Continuations : \E f \in Fingerprints : WinnersUnder(c) = {f}
    /\ \E c \in Continuations : \A f \in Fingerprints : WinnersUnder(c) # {f}

\* A refusal by a local budget is no vote: it is neither counted as an error
\* nor as agreement, and the round reports it only when no two providers
\* disagreed (SECURITY.md, "admission outcomes, not failed provider votes").
RefusalIsNoVote ==
  /\ errorCount = Cardinality({p \in Providers \ pending : reply[p] = "remote"})
  /\ result.kind = "admission" =>
       /\ \E p \in Providers \ pending : reply[p] = "admission"
       /\ \A p, q \in Providers \ pending :
            reply[p] \in Fingerprints /\ reply[q] \in Fingerprints =>
              reply[p] = reply[q]

\* The loop goes on only without an unambiguous result, while a quorum can be
\* reached and an answer is outstanding; and deferred tells of a refusal.
LoopGoesOn ==
  /\ result = Running => /\ \A f \in Fingerprints : ~ Unambiguous(f)
                         /\ CanReachQuorum /\ pending # {}
  /\ deferred <=> \E p \in Providers \ pending : reply[p] = "admission"

\* What holds while a round runs: types, refusals are no votes, and nothing is
\* awaited in vain.
RoundSound == TypeOK /\ RefusalIsNoVote /\ LoopGoesOn /\ NoNeedlessWait

\* The tally holds exactly the answers received; the invariant the others
\* rest on.
TallyExact ==
  /\ \A f \in Fingerprints :
       voters[f] = {p \in Providers \ pending : reply[p] = f}
  /\ \A f \in Recorded :
       /\ retained[f] \in voters[f]
       /\ \A p \in voters[f] : retained[f] <= p
=============================================================================

--------------------------- MODULE ExactQuorumProofs ---------------------------
(***************************************************************************)
(* Order independence of an exact-agreement round, for every pool, every   *)
(* set of responses and every monotone strategy.  The inductive invariant  *)
(* says that the tally holds exactly the answers received, and that a      *)
(* round which returned did so with the verdict of the whole pool.         *)
(***************************************************************************)
EXTENDS ExactQuorum, FiniteSetTheorems, TLAPS

TallyTypes ==
  /\ reply \in [Providers -> Fingerprints \cup NoVote]
  /\ pending \in SUBSET Providers
  /\ voters \in [Fingerprints -> SUBSET Providers]
  /\ retained \in [Fingerprints -> Nat]

Verdicts == AgreedIsUnique /\ FailureIsReal /\ LowestIndexRetained

RoundInv == TallyTypes /\ TallyExact /\ Verdicts

\* A response supported by a quorum among the answers received is supported
\* by the whole pool, and one that the pending answers cannot complete is not.
LEMMA TallyBounds ==
  ASSUME TallyTypes, TallyExact
  PROVE  /\ \A f \in Fingerprints : /\ Supporters(f) \in SUBSET Providers
                                    /\ voters[f] \subseteq Supporters(f)
                                    /\ Supporters(f) \subseteq voters[f] \cup pending
         /\ \A f \in Candidates : f \in Winners
         /\ \A f \in Winners : IsMetBy(voters[f] \cup pending)
         /\ \A f \in Winners \ Recorded : IsMetBy(pending)
<1>1. \A f \in Fingerprints : /\ Supporters(f) \in SUBSET Providers
                              /\ voters[f] \subseteq Supporters(f)
                              /\ Supporters(f) \subseteq voters[f] \cup pending
                              /\ voters[f] \cup pending \in SUBSET Providers
  BY DEF TallyTypes, TallyExact, Supporters
<1>2. \A f \in Candidates : f \in Winners
  BY <1>1, PoolAssumption DEF Candidates, Recorded, Winners, IsMetBy
<1>3. \A f \in Winners : IsMetBy(voters[f] \cup pending)
  BY <1>1, PoolAssumption DEF Winners, IsMetBy
<1>4. \A f \in Winners \ Recorded : IsMetBy(pending)
  <2>1. \A f \in Winners \ Recorded : voters[f] \cup pending = pending
    BY DEF Recorded, Winners
  <2>. QED BY <2>1, <1>3
<1>. QED BY <1>1, <1>2, <1>3, <1>4

UnambiguousIsWinner ==
  \A f \in Fingerprints : Unambiguous(f) => Winners = {f}

\* unambiguous_result returns the unique winner of the whole pool.
LEMMA UnambiguousWins == TallyTypes /\ TallyExact => UnambiguousIsWinner
<1>. SUFFICES ASSUME TallyTypes, TallyExact, NEW f \in Fingerprints,
                     Unambiguous(f)
              PROVE  Winners = {f}
  BY DEF UnambiguousIsWinner
<1>1. f \in Candidates
  BY DEF Unambiguous
<1>2. f \in Winners
  BY <1>1, TallyBounds
<1>3. ASSUME NEW g \in Winners, g # f PROVE FALSE
  <2>1. CASE g \in Recorded
    BY <2>1, <1>3, TallyBounds DEF Unambiguous
  <2>2. CASE g \notin Recorded
    BY <2>2, TallyBounds DEF Unambiguous
  <2>. QED BY <2>1, <2>2
<1>. QED BY <1>2, <1>3

\* When no quorum can be reached any more nobody wins; when nothing is
\* pending the candidates are the winners.
LEMMA StoppedTally ==
  TallyTypes /\ TallyExact =>
    /\ ~ CanReachQuorum => Winners = {} /\ Candidates = {}
    /\ pending = {} => Candidates = Winners
<1>. SUFFICES ASSUME TallyTypes, TallyExact
              PROVE  /\ ~ CanReachQuorum => Winners = {} /\ Candidates = {}
                     /\ pending = {} => Candidates = Winners
  OBVIOUS
<1>1. ~ CanReachQuorum => Winners = {} /\ Candidates = {}
  <2>1. ASSUME ~ CanReachQuorum, NEW g \in Winners PROVE FALSE
    <3>1. CASE g \in Recorded
      BY <3>1, <2>1, TallyBounds DEF CanReachQuorum
    <3>2. CASE g \notin Recorded
      BY <3>2, <2>1, TallyBounds DEF CanReachQuorum
    <3>. QED BY <3>1, <3>2
  <2>. QED BY <2>1, TallyBounds
<1>2. ASSUME pending = {} PROVE Candidates = Winners
  <2>1. \A g \in Winners : g \in Recorded /\ IsMetBy(voters[g])
    <3>1. \A g \in Winners : voters[g] \cup pending = voters[g]
      BY <1>2
    <3>2. ~ IsMetBy(pending)
      BY <1>2, PoolAssumption DEF IsMetBy
    <3>. QED BY <3>1, <3>2, TallyBounds
  <2>. QED BY <2>1, TallyBounds DEF Candidates
<1>. QED BY <1>1, <1>2

\* Recording an answer keeps the tally exact.
LEMMA RecordKeepsTally ==
  ASSUME TallyTypes, TallyExact, NEW p \in pending, Record(p), reply' = reply
  PROVE  TallyTypes' /\ TallyExact'
<1>. USE DEF TallyTypes
<1>1. p \in Providers /\ p \in Nat
  BY PoolAssumption
<1>2. CASE reply[p] \in Fingerprints
  <2>. DEFINE f == reply[p]
  <2>1. /\ pending' = pending \ {p}
        /\ voters' = [voters EXCEPT ![f] = @ \cup {p}]
        /\ retained' = [retained EXCEPT ![f] =
             IF \A q \in voters[f] : p < q THEN p ELSE @]
    BY <1>2, RepliesAssumption DEF Record, NoVote
  <2>. HIDE DEF f
  <2>2. f \in Fingerprints /\ reply[p] = f
    BY <1>2 DEF f
  <2>3. TallyTypes'
    BY <2>1, <2>2, <1>1
  <2>4. \A g \in Fingerprints :
          voters'[g] = {q \in Providers \ pending' : reply'[q] = g}
    <3>. TAKE g \in Fingerprints
    <3>1. CASE g = f
      BY <3>1, <2>1, <2>2, <1>1 DEF TallyExact
    <3>2. CASE g # f
      BY <3>2, <2>1, <2>2, <1>1 DEF TallyExact
    <3>. QED BY <3>1, <3>2
  <2>5. \A g \in Recorded' : /\ retained'[g] \in voters'[g]
                             /\ \A q \in voters'[g] : retained'[g] <= q
    <3>. TAKE g \in Recorded'
    <3>0. g \in Fingerprints
      BY DEF Recorded
    <3>1. CASE g # f
      BY <3>0, <3>1, <2>1, <2>2 DEF TallyExact, Recorded
    <3>2. CASE g = f /\ \A q \in voters[f] : p < q
      <4>1. retained'[g] = p /\ voters'[g] = voters[f] \cup {p}
        BY <3>2, <2>1, <2>2
      <4>2. \A q \in voters[f] : p < q /\ q \in Nat
        BY <3>2, <2>2, PoolAssumption
      <4>3. ASSUME NEW q \in voters'[g] PROVE p <= q
        <5>1. q = p \/ q \in voters[f]
          BY <4>1, <4>3
        <5>2. CASE q = p
          BY <5>2, <1>1
        <5>3. CASE q \in voters[f]
          <6>1. p < q /\ q \in Nat
            BY <5>3, <4>2
          <6>. QED BY <6>1, <1>1
        <5>. QED BY <5>1, <5>2, <5>3
      <4>. QED BY <4>1, <4>3
    <3>3. CASE g = f /\ ~ \A q \in voters[f] : p < q
      <4>1. retained'[g] = retained[f] /\ voters'[g] = voters[f] \cup {p}
        BY <3>3, <2>1, <2>2
      <4>2. f \in Recorded
        BY <3>3, <2>2 DEF Recorded
      <4>3. /\ retained[f] \in voters[f]
            /\ \A q \in voters[f] : retained[f] <= q
        BY <4>2 DEF TallyExact
      <4>4. PICK q \in voters[f] : ~ (p < q)
        BY <3>3
      <4>5. q \in Nat /\ retained[f] \in Nat
        BY <2>2, PoolAssumption
      <4>6. retained[f] <= p
        <5>1. retained[f] <= q
          BY <4>3, <4>4
        <5>. QED BY <5>1, <4>4, <4>5, <1>1
      <4>. QED BY <4>1, <4>3, <4>6
    <3>. QED BY <3>1, <3>2, <3>3
  <2>. QED BY <2>3, <2>4, <2>5 DEF TallyExact
<1>3. CASE reply[p] \notin Fingerprints
  <2>1. pending' = pending \ {p} /\ voters' = voters /\ retained' = retained
    BY <1>3 DEF Record
  <2>. QED BY <2>1, <1>1, <1>3 DEF TallyExact, Recorded
<1>. QED BY <1>2, <1>3

\* A round starts with an empty, exact tally.
LEMMA InitRound == Init => RoundInv
BY DEF Init, RoundInv, TallyTypes, TallyExact, Recorded, Verdicts,
   AgreedIsUnique, FailureIsReal, LowestIndexRetained, Running

\* One turn of the loop: if it returns, it returns the verdict of the pool.
LEMMA ArriveStep ==
  ASSUME RoundInv, NEW p \in Providers, Arrive(p)
  PROVE  RoundInv'
<1>1. p \in pending /\ Record(p) /\ reply' = reply
  BY DEF Arrive
<1>2. TallyTypes' /\ TallyExact'
  BY <1>1, RecordKeepsTally DEF RoundInv
<1>3. ASSUME NEW f \in Fingerprints, Winners' = {f}, f \in Recorded',
             result' = Agreed(f, retained'[f])
      PROVE  Verdicts'
  <2>1. /\ result'.kind = "agreed" /\ result'.fingerprint = f
        /\ result'.from = retained'[f]
    BY <1>3 DEF Agreed
  <2>2. AgreedIsUnique' /\ FailureIsReal'
    BY <2>1, <1>3 DEF AgreedIsUnique, FailureIsReal
  <2>3. LowestIndexRetained'
    BY <2>1, <1>2, <1>3 DEF LowestIndexRetained, TallyExact
  <2>. QED BY <2>2, <2>3 DEF Verdicts
<1>4. ASSUME \A f \in Fingerprints : Winners' # {f},
             result' = Failed("admission") \/ result' = Failed("incomplete")
      PROVE  Verdicts'
  BY <1>4 DEF Verdicts, AgreedIsUnique, FailureIsReal, LowestIndexRetained,
              Failed
<1>5. CASE \E f \in Fingerprints :
             Unambiguous(f)' /\ result' = Agreed(f, retained'[f])
  <2>1. PICK f \in Fingerprints :
          Unambiguous(f)' /\ result' = Agreed(f, retained'[f])
    BY <1>5
  <2>2. UnambiguousIsWinner'
    BY <1>2, UnambiguousWins, PTL
  <2>3. f \in Recorded'
    BY <2>1 DEF Unambiguous, Candidates
  <2>4. Winners' = {f}
    BY <2>1, <2>2 DEF UnambiguousIsWinner
  <2>. QED BY <1>2, <1>3, <2>1, <2>3, <2>4 DEF RoundInv
<1>6. CASE result' = Running
  BY <1>2, <1>6 DEF RoundInv, Verdicts, AgreedIsUnique, FailureIsReal,
                    LowestIndexRetained, Running
<1>7. CASE (~ CanReachQuorum' \/ pending' = {}) /\ Conclude
  <2>0. (/\ ~ CanReachQuorum => Winners = {} /\ Candidates = {}
         /\ pending = {} => Candidates = Winners)'
    BY <1>2, StoppedTally, PTL
  <2>1. Candidates' = Winners'
    BY <1>7, <2>0
  <2>2. CASE \E f \in Fingerprints :
               Candidates' = {f} /\ result' = Agreed(f, retained'[f])
    <3>1. PICK f \in Fingerprints :
            Candidates' = {f} /\ result' = Agreed(f, retained'[f])
      BY <2>2
    <3>2. f \in Recorded'
      BY <3>1 DEF Candidates
    <3>. QED BY <1>2, <1>3, <2>1, <3>1, <3>2 DEF RoundInv
  <2>3. CASE Candidates' = {} /\ result' = Failed("admission")
    BY <1>2, <1>4, <2>1, <2>3 DEF RoundInv
  <2>4. CASE /\ \A f \in Fingerprints : Candidates' # {f}
             /\ result' = Failed("incomplete")
    BY <1>2, <1>4, <2>1, <2>4 DEF RoundInv
  <2>. QED BY <1>7, <2>2, <2>3, <2>4 DEF Conclude
<1>. QED BY <1>5, <1>6, <1>7 DEF Arrive

\* The tally stays exact and every returned verdict is the pool's, in every
\* state of every round (resolve_provider_quorum_for_indices).
THEOREM RoundInvHolds == Spec => []RoundInv
<1>1. RoundInv /\ [Next]_vars => RoundInv'
  <2>. SUFFICES ASSUME RoundInv, [Next]_vars PROVE RoundInv'
    OBVIOUS
  <2>1. ASSUME NEW p \in Providers, Arrive(p) PROVE RoundInv'
    BY <2>1, ArriveStep
  <2>2. ASSUME NEW p \in Providers, ArriveConfiguration(p) PROVE RoundInv'
    BY <2>2 DEF ArriveConfiguration, RoundInv, TallyTypes, TallyExact, Recorded,
       Verdicts, AgreedIsUnique, FailureIsReal, LowestIndexRetained, Failed
  <2>3. CASE UNCHANGED vars
    BY <2>3 DEF vars, RoundInv, TallyTypes, TallyExact, Recorded, Verdicts,
       AgreedIsUnique, FailureIsReal, LowestIndexRetained, Winners, Supporters
  <2>. QED BY <2>1, <2>2, <2>3 DEF Next
<1>. QED BY <1>1, InitRound, PTL DEF Spec

\* No round returns a response that is not the pool's only winner, whatever
\* the order of the answers (unambiguous_result, finish).
THEOREM AgreementIsUnique == Spec => []AgreedIsUnique
<1>1. RoundInv => AgreedIsUnique
  BY DEF RoundInv, Verdicts
<1>. QED BY <1>1, RoundInvHolds, PTL

\* No round gives up on a pool that has a unique winner, whatever the order
\* of the answers (can_reach_quorum, finish).
THEOREM NoAgreementLost == Spec => []FailureIsReal
<1>1. RoundInv => FailureIsReal
  BY DEF RoundInv, Verdicts
<1>. QED BY <1>1, RoundInvHolds, PTL

\* The value a round returns is the lowest recorded voter's (record).
THEOREM LowestIndexKept == Spec => []LowestIndexRetained
<1>1. RoundInv => LowestIndexRetained
  BY DEF RoundInv, Verdicts
<1>. QED BY <1>1, RoundInvHolds, PTL

-----------------------------------------------------------------------------
(* What a running round waits for, and what a refusal counts for. *)

\* A round starts by waiting for the whole pool, which is a quorum.
LEMMA InitSound == Init => RefusalIsNoVote /\ LoopGoesOn /\ TypeOK
<1>. SUFFICES ASSUME Init PROVE RefusalIsNoVote /\ LoopGoesOn /\ TypeOK
  OBVIOUS
<1>1. Recorded = {} /\ Candidates = {} /\ IsMetBy(pending) /\ pending # {}
  BY PoolAssumption DEF Init, Recorded, Candidates, IsMetBy
<1>2. {p \in Providers \ pending : reply[p] = "remote"} = {}
  BY DEF Init
<1>3. RefusalIsNoVote
  BY <1>2, FS_EmptySet DEF Init, RefusalIsNoVote, Running
<1>4. LoopGoesOn
  BY <1>1 DEF Init, LoopGoesOn, CanReachQuorum, Unambiguous
<1>5. TypeOK
  BY DEF Init, TypeOK
<1>. QED BY <1>3, <1>4, <1>5

\* The failures counted are those of the providers that answered.
LEMMA RecordCounts ==
  ASSUME TallyTypes, NEW p \in pending, Record(p), reply' = reply,
         errorCount = Cardinality({q \in Providers \ pending : reply[q] = "remote"}),
         deferred <=> \E q \in Providers \ pending : reply[q] = "admission",
         deferred \in BOOLEAN
  PROVE  /\ errorCount' = Cardinality({q \in Providers \ pending' : reply'[q] = "remote"})
         /\ errorCount' \in Nat /\ deferred' \in BOOLEAN
         /\ deferred' <=> \E q \in Providers \ pending' : reply'[q] = "admission"
<1>. DEFINE remote == {q \in Providers \ pending : reply[q] = "remote"}
<1>1. p \in Providers /\ pending' = pending \ {p} /\ pending \in SUBSET Providers
  BY DEF TallyTypes, Record
<1>2. IsFiniteSet(remote) /\ p \notin remote
  BY PoolAssumption, FS_Subset
<1>3. Cardinality(remote) \in Nat
  BY <1>2, FS_CardinalityType
<1>4. Cardinality(remote \cup {p}) = Cardinality(remote) + 1
  BY <1>2, FS_AddElement
<1>5. {q \in Providers \ pending' : reply'[q] = "remote"}
        = IF reply[p] = "remote" THEN remote \cup {p} ELSE remote
  BY <1>1
<1>6. errorCount' = IF reply[p] = "remote" THEN errorCount + 1 ELSE errorCount
  BY RepliesAssumption DEF Record, NoVote
<1>7. deferred' = (deferred \/ reply[p] = "admission")
  BY RepliesAssumption DEF Record, NoVote
<1>8. (\E q \in Providers \ pending' : reply'[q] = "admission")
        <=> (deferred \/ reply[p] = "admission")
  BY <1>1
<1>9. /\ errorCount' = Cardinality({q \in Providers \ pending' : reply'[q] = "remote"})
      /\ errorCount' \in Nat
  <2>. DEFINE after == {q \in Providers \ pending' : reply'[q] = "remote"}
  <2>0. errorCount = Cardinality(remote)
    OBVIOUS
  <2>1. CASE reply[p] = "remote"
    <3>1. after = remote \cup {p} /\ errorCount' = errorCount + 1
      BY <1>5, <1>6, <2>1
    <3>. HIDE DEF after, remote
    <3>2. errorCount' = Cardinality(after) /\ errorCount' \in Nat
      BY <1>3, <1>4, <2>0, <3>1
    <3>. QED BY <3>2 DEF after
  <2>2. CASE reply[p] # "remote"
    BY <1>3, <1>5, <1>6, <2>2
  <2>. QED BY <2>1, <2>2
<1>10. /\ deferred' \in BOOLEAN
       /\ deferred' <=> \E q \in Providers \ pending' : reply'[q] = "admission"
  BY <1>7, <1>8
<1>. QED BY <1>9, <1>10

\* While the round runs and has not seen two winners, there are answers that
\* make one response win alone, and answers that do not.
LEMMA WaitIsNeeded ==
  ASSUME TallyTypes, TallyExact, LoopGoesOn, result = Running,
         \A f, g \in Candidates : f = g
  PROVE  /\ \E c \in Continuations : \E f \in Fingerprints : WinnersUnder(c) = {f}
         /\ \E c \in Continuations : \A f \in Fingerprints : WinnersUnder(c) # {f}
<1>. DEFINE All(r) == [p \in pending |-> r]
<1>1. /\ \A f \in Fingerprints : ~ Unambiguous(f)
      /\ CanReachQuorum
      /\ \A f \in Fingerprints : voters[f] \in SUBSET Providers
      /\ pending \in SUBSET Providers
  BY DEF LoopGoesOn, TallyTypes
<1>2. \A r \in Fingerprints \cup {"remote"} : All(r) \in Continuations
  BY DEF Continuations
<1>3. "remote" \notin Fingerprints
  BY RepliesAssumption DEF NoVote
<1>4. \A r \in Fingerprints \cup {"remote"}, f \in Fingerprints :
        {p \in pending : All(r)[p] = f} = IF f = r THEN pending ELSE {}
  BY <1>3
<1>5. \A f \in Fingerprints : IsMetBy(voters[f]) <=> f \in Candidates
  BY PoolAssumption DEF Candidates, Recorded, IsMetBy
<1>6. ASSUME NEW r \in Fingerprints \cup {"remote"}
      PROVE  WinnersUnder(All(r)) = {f \in Fingerprints :
               f \in Candidates \/ (f = r /\ IsMetBy(voters[f] \cup pending))}
  <2>1. ASSUME NEW f \in Fingerprints
        PROVE  IsMetBy(voters[f] \cup {p \in pending : All(r)[p] = f})
                 <=> f \in Candidates \/ (f = r /\ IsMetBy(voters[f] \cup pending))
    <3>1. CASE f = r
      <4>1. f \in Candidates => IsMetBy(voters[f] \cup pending)
        <5>1. voters[f] \cup pending \in SUBSET Providers
                /\ voters[f] \subseteq voters[f] \cup pending
          BY <1>1
        <5>. QED BY <1>5, <5>1, PoolAssumption DEF IsMetBy
      <4>2. {p \in pending : All(r)[p] = f} = pending
        BY <1>4, <3>1
      <4>. HIDE DEF All
      <4>. QED BY <3>1, <4>1, <4>2
    <3>2. CASE f # r
      <4>1. voters[f] \cup {p \in pending : All(r)[p] = f} = voters[f]
        BY <1>4, <3>2
      <4>. HIDE DEF All
      <4>. QED BY <1>5, <3>2, <4>1
    <3>. QED BY <3>1, <3>2
  <2>. HIDE DEF All
  <2>. QED BY <2>1 DEF WinnersUnder
<1>. HIDE DEF All
<1>7. \E f \in Fingerprints : Candidates \subseteq {f} /\ IsMetBy(voters[f] \cup pending)
  <2>1. ASSUME NEW f \in Fingerprints, IsMetBy(pending) \/ IsMetBy(voters[f])
        PROVE  IsMetBy(voters[f] \cup pending)
    BY <1>1, <2>1, PoolAssumption DEF IsMetBy
  <2>2. CASE Candidates = {}
    BY <1>1, <2>1, <2>2, RepliesAssumption DEF CanReachQuorum, Recorded
  <2>3. ASSUME NEW f \in Candidates PROVE f \in Fingerprints /\ Candidates \subseteq {f}
    BY DEF Candidates, Recorded
  <2>. QED BY <1>5, <2>1, <2>2, <2>3
<1>8. \E c \in Continuations : \E f \in Fingerprints : WinnersUnder(c) = {f}
  <2>1. PICK f \in Fingerprints :
          Candidates \subseteq {f} /\ IsMetBy(voters[f] \cup pending)
    BY <1>7
  <2>2. WinnersUnder(All(f)) = {g \in Fingerprints :
          g \in Candidates \/ (g = f /\ IsMetBy(voters[g] \cup pending))}
    BY <1>6
  <2>3. WinnersUnder(All(f)) = {f}
    BY <2>1, <2>2
  <2>. QED BY <1>2, <2>3
<1>9. \E c \in Continuations : \A f \in Fingerprints : WinnersUnder(c) # {f}
  <2>1. CASE Candidates = {}
    <3>1. WinnersUnder(All("remote")) = {f \in Fingerprints :
            f \in Candidates \/ (f = "remote" /\ IsMetBy(voters[f] \cup pending))}
      BY <1>6
    <3>2. WinnersUnder(All("remote")) = {}
      BY <1>3, <2>1, <3>1
    <3>. QED BY <1>2, <3>2
  <2>2. ASSUME NEW f \in Candidates
        PROVE  \E c \in Continuations : \A h \in Fingerprints : WinnersUnder(c) # {h}
    <3>1. f \in Fingerprints /\ Candidates = {f}
      BY <2>2 DEF Candidates, Recorded
    <3>2. PICK g \in Fingerprints \ {f} : IsMetBy(voters[g] \cup pending)
      <4>1. CASE IsMetBy(pending)
        <5>1. PICK g \in Fingerprints : g # f
          BY RepliesAssumption
        <5>. QED BY <1>1, <4>1, <5>1, PoolAssumption DEF IsMetBy
      <4>2. CASE ~ IsMetBy(pending)
        BY <1>1, <3>1, <4>2 DEF Unambiguous, Recorded
      <4>. QED BY <4>1, <4>2
    <3>3. f \in WinnersUnder(All(g)) /\ g \in WinnersUnder(All(g))
      BY <1>6, <2>2, <3>1, <3>2
    <3>. QED BY <1>2, <3>2, <3>3
  <2>. QED BY <2>1, <2>2
<1>. QED BY <1>8, <1>9

\* What the rest of the round's state is, given the tally (RoundInv).
Sound == TypeOK /\ RefusalIsNoVote /\ LoopGoesOn

\* One answer: it is counted for what it is, and if the round goes on it is
\* because the outcome is open.
LEMMA ArriveKeepsSound ==
  ASSUME RoundInv, RoundInv', Sound, NEW p \in Providers, Arrive(p)
  PROVE  Sound'
<1>1. /\ p \in pending /\ Record(p) /\ reply' = reply
      /\ TallyTypes /\ TallyTypes' /\ TallyExact'
  BY DEF Arrive, RoundInv
<1>2. /\ errorCount' = Cardinality({q \in Providers \ pending' : reply'[q] = "remote"})
      /\ errorCount' \in Nat /\ deferred' \in BOOLEAN
      /\ deferred' <=> \E q \in Providers \ pending' : reply'[q] = "admission"
  BY <1>1, RecordCounts DEF Sound, TypeOK, RefusalIsNoVote, LoopGoesOn
<1>3. \A f \in Recorded' : retained'[f] \in Providers
  BY <1>1 DEF TallyExact, TallyTypes, Recorded
<1>4. ASSUME NEW f \in Fingerprints, f \in Recorded', result' = Agreed(f, retained'[f])
      PROVE  Sound'
  BY <1>1, <1>2, <1>3, <1>4
     DEF Sound, TypeOK, TallyTypes, RefusalIsNoVote, LoopGoesOn, Agreed, Running
<1>5. CASE \E f \in Fingerprints : Unambiguous(f)' /\ result' = Agreed(f, retained'[f])
  BY <1>4, <1>5 DEF Unambiguous, Candidates
<1>6. CASE /\ \A f \in Fingerprints : ~ Unambiguous(f)'
           /\ CanReachQuorum' /\ pending' # {} /\ result' = Running
  BY <1>1, <1>2, <1>6 DEF Sound, TypeOK, TallyTypes, RefusalIsNoVote, LoopGoesOn, Running
<1>7. CASE Conclude
  <2>1. CASE \E f \in Fingerprints : Candidates' = {f} /\ result' = Agreed(f, retained'[f])
    BY <1>4, <2>1 DEF Candidates
  <2>2. CASE /\ deferred' /\ result' = Failed("admission")
             /\ \A f, g \in Recorded' : f = g
    <3>1. \A q \in Providers \ pending' : reply'[q] \in Fingerprints => reply'[q] \in Recorded'
      BY <1>1 DEF TallyExact, Recorded
    <3>. QED BY <1>1, <1>2, <2>2, <3>1
             DEF Sound, TypeOK, TallyTypes, RefusalIsNoVote, LoopGoesOn, Failed, Running
  <2>3. CASE result' = Failed("incomplete")
    BY <1>1, <1>2, <2>3
       DEF Sound, TypeOK, TallyTypes, RefusalIsNoVote, LoopGoesOn, Failed, Running
  <2>. QED BY <1>7, <2>1, <2>2, <2>3 DEF Conclude
<1>. QED BY <1>5, <1>6, <1>7 DEF Arrive

\* Whatever arrives in whatever order, the round's state is well formed, a
\* refusal by a local budget is neither an error nor a vote, and an answer is
\* awaited only as long as it can change the outcome (record_result,
\* can_reach_quorum, unambiguous_result).
THEOREM RoundIsSound == Spec => []RoundSound
<1>1. RoundInv /\ RoundInv' /\ Sound /\ [Next]_vars => Sound'
  <2>. SUFFICES ASSUME RoundInv, RoundInv', Sound, [Next]_vars PROVE Sound'
    OBVIOUS
  <2>1. ASSUME NEW p \in Providers, Arrive(p) PROVE Sound'
    BY <2>1, ArriveKeepsSound
  <2>2. ASSUME NEW p \in Providers, ArriveConfiguration(p) PROVE Sound'
    BY <2>2 DEF ArriveConfiguration, Sound, TypeOK, RefusalIsNoVote, LoopGoesOn,
       Failed, Running
  <2>3. CASE UNCHANGED vars
    BY <2>3 DEF vars, Sound, TypeOK, RefusalIsNoVote, LoopGoesOn, CanReachQuorum,
       Unambiguous, Recorded, Candidates, IsMetBy
  <2>. QED BY <2>1, <2>2, <2>3 DEF Next
<1>2. RoundInv /\ Sound => RoundSound
  BY WaitIsNeeded DEF RoundInv, Sound, RoundSound, NoNeedlessWait
<1>3. Init => Sound
  BY InitSound DEF Sound
<1>. QED BY <1>1, <1>2, <1>3, RoundInvHolds, PTL DEF Spec

=============================================================================

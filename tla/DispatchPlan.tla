------------------------------ MODULE DispatchPlan ------------------------------
(***************************************************************************)
(* From a chain's providers and quorum strategy to the order in which one  *)
(* call asks them: resolve_max, is_strategy_satisfiable, the ordering      *)
(* functions of crates/pillar-config/src/provider_validation.rs,           *)
(* ProviderConfig::validate, and plan_dispatch_for_keys of crates/         *)
(* pillar-runtime/src/provider_health/quorum.rs.                           *)
(*                                                                         *)
(* A requirement is a function from categories, "any" included, to counts; *)
(* a strategy has the sequences allOf and oneOf of them.  assign_entities  *)
(* enters by what it decides (Fits of EntitySlots.tla).                    *)
(***************************************************************************)
EXTENDS Integers, Sequences, SequencesExt, FiniteSets, FiniteSetsExt, EntitySlots

CONSTANTS Providers,   \* the indices of the pool, 0 .. n-1
          Categories,  \* a sequence: PROVIDER_CATEGORIES
          Entities,
          Strategies,  \* the strategies as configured
          MinimumMaxEntities  \* the restriction on what "max" may resolve to

AnyCategory == "any"  \* PROVIDER_CATEGORY_ANY
MaxQuorum == -1       \* Quorum::Max
Normal == 0           \* ProviderRank
HighLatency == 1
Unhealthy == 2

\* A list of requirements: counts for some of the categories, "any" among them,
\* each a number or "max".
IsRequirementList(reqs) ==
  /\ reqs \in Seq(Range(reqs))
  /\ \A i \in DOMAIN reqs :
       /\ DOMAIN reqs[i] \subseteq Range(Categories) \cup {AnyCategory}
       /\ \A c \in DOMAIN reqs[i] : reqs[i][c] \in Nat \cup {MaxQuorum}

ASSUME ProvidersAssumption ==
  /\ Providers \in SUBSET Nat /\ IsFiniteSet(Providers)
  /\ Categories \in Seq(Range(Categories)) /\ AnyCategory \notin Range(Categories)
  /\ \A s \in Strategies : IsRequirementList(s.allOf) /\ IsRequirementList(s.oneOf)
  /\ MinimumMaxEntities \in Nat

VARIABLES
  voters,    \* ProviderConfig.voters: the category and entity of each URI
  raw,       \* the strategy of the file
  strategy,  \* ProviderConfig.strategy
  rank,      \* what the rank tracker answers for each provider
  phase,     \* "file", "refused", "loaded", "planned" or "unhealthy"
  order,     \* the indices of the plan
  wave       \* first_wave

planVars == <<voters, raw, strategy, rank, phase, order, wave>>

PlanInit ==
  /\ voters \in [Providers -> [category : Range(Categories), entity : Entities]]
  /\ raw \in Strategies /\ strategy = raw
  /\ rank \in [Providers -> {Normal, HighLatency, Unhealthy}]
  /\ phase = "file" /\ order = <<>> /\ wave = 0

-----------------------------------------------------------------------------
(* Strategies over sets of providers. *)

\* voter_entities and entities_per_category.
VoterEntities(S) ==
  [c \in Range(Categories) |-> {voters[p].entity : p \in {q \in S : voters[q].category = c}}]

\* The slots that a list of requirements has for a category (or for "any").
Slots(reqs, c) ==
  UNION {{i} \X (1 .. reqs[i][c]) : i \in {j \in DOMAIN reqs : c \in DOMAIN reqs[j]}}
CategorySlots(reqs) == UNION {{c} \X Slots(reqs, c) : c \in Range(Categories)}
Need(reqs, c) == Cardinality(Slots(reqs, c))

\* Fault: entities may serve two categories.
RequirementSetShared(counts, reqs) ==
  /\ Cardinality(Pool(counts)) >= Need(reqs, AnyCategory)
  /\ \A c \in Range(Categories) : Cardinality(counts[c]) >= Need(reqs, c)

\* check_requirement_set.
CheckRequirementSet(counts, reqs) ==
  LET pool == Cardinality(Pool(counts)) IN
  /\ \A i \in DOMAIN reqs : \A c \in DOMAIN reqs[i] : reqs[i][c] # MaxQuorum
  /\ pool >= Need(reqs, AnyCategory) /\ pool >= Cardinality(CategorySlots(reqs))
  /\ Fits(counts, [c \in Range(Categories) |-> Need(reqs, c)])

IsSatisfiable(counts, s) ==
  \/ s.oneOf = <<>> /\ CheckRequirementSet(counts, s.allOf)
  \/ \E i \in DOMAIN s.oneOf :
       CheckRequirementSet(counts, Append(s.allOf, s.oneOf[i]))

IsMetBy(S, s) == IsSatisfiable(VoterEntities(S), s)

\* resolve_max, for one requirement: "max" is every entity of the category.
Resolved(req) ==
  [c \in DOMAIN req |->
     IF req[c] # MaxQuorum THEN req[c]
     ELSE IF c = AnyCategory THEN Cardinality(Pool(VoterEntities(Providers)))
     ELSE Cardinality(VoterEntities(Providers)[c])]

\* Fault: a strategy that asks for nobody is let in.
ValidVoters(s) == IsMetBy(Providers, s)

\* ProviderConfig::validate (and check_strategy_config before it).
Valid(s) == ~ IsMetBy({}, s) /\ IsMetBy(Providers, s)

\* The minimum of resolve_max: a "max" of too few entities is refused.
FloorKept(req) ==
  \A c \in DOMAIN req : req[c] = MaxQuorum => Resolved(req)[c] >= MinimumMaxEntities

\* The pair of files is resolved and validated, or refused.
Load ==
  /\ phase = "file"
  /\ strategy' = [allOf |-> [i \in DOMAIN raw.allOf |-> Resolved(raw.allOf[i])],
                  oneOf |-> [i \in DOMAIN raw.oneOf |-> Resolved(raw.oneOf[i])]]
  /\ phase' = IF /\ \A req \in Range(raw.allOf) \cup Range(raw.oneOf) : FloorKept(req)
                 /\ Valid(strategy')
              THEN "loaded" ELSE "refused"
  /\ UNCHANGED <<voters, raw, rank, order, wave>>

-----------------------------------------------------------------------------
(* The order of one call. *)

Healthy == {p \in Providers : rank[p] # Unhealthy}

\* The sorts of the code: S by its keys, sequences of numbers, the first
\* difference deciding.
Lex(a, b) == \E i \in DOMAIN a : a[i] < b[i] /\ \A j \in 1 .. i - 1 : a[j] = b[j]
InOrder(S, key) ==
  CHOOSE seq \in SetToSeqs(S) :
    \A i, j \in DOMAIN seq : i < j => Lex(key[seq[i]], key[seq[j]])

\* By rank, ties in index order.
RankKey == [p \in Providers |-> <<rank[p], p>>]

\* The sort key of a category: required first, then by its best rank, then by
\* its place in the list.
CategoryKey(c) ==
  LET required == UNION {DOMAIN strategy.allOf[i] : i \in DOMAIN strategy.allOf} IN
  << IF {AnyCategory, c} \cap required # {} THEN 0 ELSE 1,
     Min({rank[p] : p \in {q \in Healthy : voters[q].category = c}}),
     CHOOSE i \in DOMAIN Categories : Categories[i] = c >>

\* The URIs of p's category and entity: the first of them, and how many come
\* before p.
Bucket(p) == {q \in Healthy : voters[q] = voters[p]}
First(p) == InOrder(Bucket(p), RankKey)[1]
Turn(p) == Cardinality({q \in Bucket(p) : Lex(RankKey[q], RankKey[p])})

\* Category by category, one URI per entity in turn.
OrderKey ==
  [p \in Healthy |->
     CategoryKey(voters[p].category) \o <<Turn(p), rank[First(p)], First(p)>>]

\* minimal_satisfying_selection: from the back, drop whoever is not needed.
Kept(seq, s) ==
  LET kept[n \in 0 .. Len(seq)] ==
        IF n = 0 THEN Range(seq)
        ELSE LET before == kept[n - 1]
                 without == before \ {seq[Len(seq) + 1 - n]}
             IN IF IsMetBy(without, s) THEN without ELSE before
  IN kept[Len(seq)]

\* selected_first: the kept ones, then the others, each in the order they had.
SelectedFirst(seq, kept) ==
  LET places == InOrder(DOMAIN seq, [i \in DOMAIN seq |-> <<IF seq[i] \in kept THEN 0 ELSE 1, i>>])
  IN [i \in DOMAIN seq |-> seq[places[i]]]

\* The strategy with one of its alternatives.
Alone(i) == [allOf |-> strategy.allOf, oneOf |-> <<strategy.oneOf[i]>>]

\* The sum of their ranks, as the number of pairs it counts.
RankSum(S) == Cardinality({x \in S \X (1 .. Unhealthy) : x[2] <= rank[x[1]]})

\* What is kept for the alternative that keeps fewest, best ranked, named first.
Chosen(seq) ==
  LET usable == {i \in DOMAIN strategy.oneOf : IsMetBy(Range(seq), Alone(i))}
      key == [i \in usable |-> LET kept == Kept(seq, Alone(i)) IN
                                << Cardinality(kept), RankSum(kept), i >>]
  IN Kept(seq, Alone(InOrder(usable, key)[1]))

\* Rank order is enough when the strategy asks for one vote of any category.
RanksOnly ==
  /\ strategy.oneOf = <<>>
  /\ \A i \in DOMAIN strategy.allOf : DOMAIN strategy.allOf[i] \subseteq {AnyCategory}
  /\ Need(strategy.allOf, AnyCategory) <= 1

\* Fault: the minimal quorum is not put first.
OrderedPlainly == IF RanksOnly THEN InOrder(Healthy, RankKey) ELSE InOrder(Healthy, OrderKey)

\* order_providers_for_quorum and prioritize_minimal_quorum.
Ordered ==
  LET seq == InOrder(Healthy, OrderKey) IN
  IF RanksOnly THEN InOrder(Healthy, RankKey)
  ELSE SelectedFirst(seq, IF strategy.oneOf = <<>> THEN Kept(seq, strategy) ELSE Chosen(seq))

Prefix(seq, n) == {seq[i] : i \in 1 .. n}

\* min_providers_for_strategy, at least one.
FirstWave(seq) ==
  LET enough == {n \in 1 .. Len(seq) : IsMetBy(Prefix(seq, n), strategy)} IN
  IF enough = {} THEN Len(seq) ELSE Min(enough)

\* Every configured index is asked, the unhealthy ones last.
WithUnhealthy(seq) == seq \o InOrder(Providers \ Healthy, RankKey)

\* plan_dispatch_for_keys: a refusal when the healthy cannot meet the
\* strategy, or everybody in order.
Plan ==
  /\ phase = "loaded"
  /\ \/ /\ ~ IsMetBy(Healthy, strategy)
        /\ phase' = "unhealthy"
        /\ UNCHANGED <<order, wave>>
     \/ /\ IsMetBy(Healthy, strategy)
        /\ order' = WithUnhealthy(Ordered)
        /\ wave' = FirstWave(Ordered)
        /\ phase' = "planned"
  /\ UNCHANGED <<voters, raw, strategy, rank>>

PlanNext == Load \/ Plan

PlanSpec == PlanInit /\ [][PlanNext]_planVars

-----------------------------------------------------------------------------
(* Properties. *)

Loaded == phase \in {"loaded", "planned", "unhealthy"}

\* "max" is everybody: whatever meets a strategy that asks a category, or any,
\* for its maximum has heard every entity of it, and no fewer than the
\* restriction allows (resolve_max).
MaxMeansAll ==
  Loaded =>
    \A i \in DOMAIN raw.allOf : \A c \in DOMAIN raw.allOf[i] :
      raw.allOf[i][c] = MaxQuorum =>
        \A S \in SUBSET Providers : IsMetBy(S, strategy) =>
          LET heard(T) == IF c = AnyCategory THEN Pool(VoterEntities(T)) ELSE VoterEntities(T)[c]
          IN heard(S) = heard(Providers) /\ Cardinality(heard(S)) >= MinimumMaxEntities

\* The sets that meet a validated strategy are what a round of agreement
\* relies on (ExactQuorum's PoolAssumption): another voter never unmakes a
\* quorum, the whole pool is one, and nobody is not.  And "max" is everybody.
QuorumsSound ==
  /\ MaxMeansAll
  /\ Loaded =>
       /\ \A S, T \in SUBSET Providers :
            S \subseteq T /\ IsMetBy(S, strategy) => IsMetBy(T, strategy)
       /\ IsMetBy(Providers, strategy) /\ ~ IsMetBy({}, strategy)

\* single_entity_trust_root looks at one voter at a time, and that is enough:
\* an entity that could meet the strategy alone through several categories
\* can through one of them.
TrustRootExact ==
  Loaded =>
    ((\E p \in Providers : IsMetBy({p}, strategy)) <=>
     (\E e \in Entities : IsMetBy({p \in Providers : voters[p].entity = e}, strategy)))

\* A call asks every configured provider once, healthy ones first.
PlanCoversPool ==
  phase = "planned" =>
    /\ Range(order) = Providers /\ IsInjective(order)
    /\ \A i, j \in DOMAIN order :
         i < j /\ rank[order[i]] = Unhealthy => rank[order[j]] = Unhealthy

\* The providers asked at once could meet the strategy, all of them are
\* healthy, and no fewer healthy ones could ("fire the smallest prefix that
\* could meet it at once", "Puts a minimal allOf-only quorum first"): dropping
\* from the back finds not only a set of which nobody can be spared but one of
\* the fewest.  The rest of the pool follows.
FirstWaveMinimal ==
  /\ PlanCoversPool
  /\ phase = "planned" =>
       /\ Prefix(order, wave) \subseteq Healthy /\ IsMetBy(Prefix(order, wave), strategy)
       /\ \A S \in SUBSET Healthy : IsMetBy(S, strategy) => wave <= Cardinality(S)
=============================================================================

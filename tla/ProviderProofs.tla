---------------------------- MODULE ProviderProofs ----------------------------
(***************************************************************************)
(* The providers: their health, the strategies that choose among them and  *)
(* the matching that decides whether a strategy can be met.                *)
(*                                                                         *)
(* HealthCache: health is served, ranked and reported for the              *)
(* configuration it was probed from, for any number of calls, refreshes    *)
(* and attempts and any ages allowed.  Generations only grow, so a probe   *)
(* between two looks at the generation that agree is of that generation    *)
(* (RoundOK).  The one value cached without the second look is the startup *)
(* probe's, and it is only a hit for a generation not younger than its     *)
(* probe: for an unpinned call because the generation now serving is that  *)
(* old, for a pinned one because nothing was pinned before the process     *)
(* served (CacheOK and ReaderOK).                                          *)
(*                                                                         *)
(* DispatchPlan: for every pool, set of categories and strategy.  More     *)
(* providers have more entities of every category, and a list of           *)
(* requirements only counts entities and fits them to slots, so what meets *)
(* it still does with more.  "max" was made the number of entities the     *)
(* whole pool has, so whoever meets it has them all.  A strategy one       *)
(* entity meets has at most one slot, which one of its voters fills.       *)
(* The sorts put everybody at one place, since no two keys are the same.   *)
(* Whoever the loop from the back keeps cannot be spared; then there are   *)
(* no more of them than slots, or than votes asked for, so no quorum is    *)
(* smaller, and with the kept ones first the first wave is them.           *)
(*                                                                         *)
(* Assignment: for every list of slots.  Between slots the held entities   *)
(* are matched with the filled slots; the search is a tree whose links     *)
(* lead to the start; while entities are handed over one is to spare.      *)
(* When no path is left the categories that were reached have one slot     *)
(* more than all of their entities.                                        *)
(***************************************************************************)
EXTENDS HealthCache, DispatchPlan, Assignment, FiniteSetTheorems, FunctionTheorems,
        SequenceTheorems, WellFoundedInduction, TLAPS

-----------------------------------------------------------------------------
(* HealthCache. *)

ReaderPcs == {"idle", "peek", "lock", "join", "report", "done", "unavailable", "gone"}
RoundPcs == {"idle", "label", "look", "probe", "probing", "probed", "decided"}
RoundType ==
  [pc : RoundPcs, pin : -1 .. MaxGeneration, label : 0 .. MaxGeneration,
   probed : 0 .. MaxGeneration, started : 0 .. MaxClock, ok : BOOLEAN,
   attempt : 0 .. Attempts - 1]
ReaderType ==
  [pc : ReaderPcs, pin : -1 .. MaxGeneration, since : 0 .. MaxGeneration,
   now : 0 .. MaxClock, answer : Entries]
Probing == {"probe", "probing", "probed", "decided"}

\* All that holds of one call.
CallOK(r) == ReaderOK(r) /\ ServedFromOwnGeneration(r) /\ ServedWithinStale(r)

\* Only time and the configuration move on, and what is retained gets newer.
MovesOn ==
  /\ generation' >= generation /\ clock' >= clock
  /\ retained'.gen >= retained.gen /\ (Serving => Serving')

\* The refresh task goes on for the call that joins it.
TaskGoesOn ==
  /\ round["refresh"].pc # "idle" => round'["refresh"].pc # "idle"
  /\ round'["refresh"].pin = round["refresh"].pin
  /\ round'["refresh"].pc \in Probing /\ round["refresh"].pin = NoPin =>
       \/ round'["refresh"].label = generation
       \/ round["refresh"].pc \in Probing
          /\ round'["refresh"].label = round["refresh"].label

\* The fields, as numbers.
LEMMA Numbers ==
  ASSUME TypeOK
  PROVE  /\ generation \in Int /\ clock \in Int /\ retained.gen \in Int
         /\ cache.gen \in Int /\ cache.probed \in Int /\ cache.at \in Int
         /\ \A r \in Readers : /\ reader[r].pin \in Int /\ reader[r].since \in Int
                               /\ reader[r].now \in Int /\ reader[r].pc \in ReaderPcs
                               /\ reader[r].answer.probed \in Int /\ reader[r].answer.at \in Int
         /\ \A x \in Rounds : /\ round[x].pin \in Int /\ round[x].label \in Int
                              /\ round[x].probed \in Int /\ round[x].started \in Int
                              /\ round[x].pc \in RoundPcs
BY DEF TypeOK, Entries, ReaderPcs, RoundPcs

\* A call the step leaves alone stays well.
LEMMA CallKept ==
  ASSUME TypeOK, TypeOK', NEW r \in Readers, CallOK(r), reader'[r] = reader[r],
         MovesOn, reader[r].pc = "join" => TaskGoesOn,
         reader[r].pin # NoPin /\ cache'.gen = reader[r].pin => cache'.probed = reader[r].pin
  PROVE  CallOK(r)'
<1>0. /\ generation \in Int /\ clock \in Int /\ retained.gen \in Int
      /\ generation' \in Int /\ clock' \in Int /\ retained'.gen \in Int
      /\ reader[r].pin \in Int /\ reader[r].since \in Int /\ reader[r].now \in Int
      /\ round["refresh"].label \in Int
  BY Numbers DEF Rounds, TypeOK
<1>1. ServedFromOwnGeneration(r)' /\ ServedWithinStale(r)'
  BY DEF CallOK, ServedFromOwnGeneration, ServedWithinStale, Served
<1>2. ReaderOK(r)'
  <2>1. /\ reader'[r].pin <= generation' /\ reader'[r].since <= generation'
        /\ reader'[r].now <= clock'
    BY <1>0 DEF CallOK, ReaderOK, MovesOn
  <2>2. IF reader'[r].pc = "idle" THEN reader'[r].pin = NoPin
        ELSE Serving' /\ (reader'[r].pin # NoPin <=> Kind[r] = "ready")
    BY DEF CallOK, ReaderOK, MovesOn
  <2>3. reader'[r].pc = "join" =>
          /\ round'["refresh"].pc # "idle" /\ round'["refresh"].pin = reader'[r].pin
          /\ round'["refresh"].pc \in Probing /\ reader'[r].pin = NoPin =>
               round'["refresh"].label >= reader'[r].since
    BY <1>0 DEF CallOK, ReaderOK, TaskGoesOn, Probing
  <2>4. reader'[r].pc \in {"report", "unavailable"} =>
          Kind[r] = "report" /\ (reader'[r].answer.observed => retained'.gen >= reader'[r].since)
    BY <1>0 DEF CallOK, ReaderOK, MovesOn
  <2>. QED BY <2>1, <2>2, <2>3, <2>4 DEF ReaderOK, Probing
<1>. QED BY <1>1, <1>2 DEF CallOK

\* A round the step leaves alone stays well.
LEMMA RoundKept ==
  ASSUME TypeOK, TypeOK', MovesOn, NEW x \in Rounds, RoundOK(x), round'[x] = round[x]
  PROVE  RoundOK(x)'
<1>0. /\ generation \in Int /\ retained.gen \in Int /\ generation' \in Int /\ retained'.gen \in Int
      /\ round[x].pin \in Int /\ round[x].label \in Int /\ round[x].probed \in Int
  BY Numbers DEF TypeOK
<1>. QED BY <1>0 DEF RoundOK, MovesOn

\* A step that leaves the calls and the cache alone.
LEMMA CallsKept ==
  ASSUME ServedSound, TypeOK', MovesOn, TaskGoesOn, reader' = reader, cache' = cache,
         retained'.gen <= generation'
  PROVE  CacheOK' /\ \A r \in Readers : CallOK(r)'
<1>0. /\ TypeOK /\ CacheOK /\ generation \in Int /\ retained.gen \in Int
      /\ generation' \in Int /\ retained'.gen \in Int /\ cache.gen \in Int /\ cache.probed \in Int
  BY Numbers DEF ServedSound, TypeOK
<1>1. CacheOK'
  BY <1>0 DEF CacheOK, MovesOn, TaskGoesOn
<1>2. ASSUME NEW r \in Readers PROVE CallOK(r)'
  <2>1. /\ CallOK(r) /\ reader'[r] = reader[r]
        /\ reader[r].pin # NoPin /\ cache'.gen = reader[r].pin => cache'.probed = reader[r].pin
    BY DEF ServedSound, CallOK, ReaderOK
  <2>. QED BY <1>0, <2>1, CallKept
<1>. QED BY <1>1, <1>2

\* The parts, put together.
LEMMA Together ==
  ASSUME TypeOK', CacheOK', \A x \in Rounds : RoundOK(x)', \A r \in Readers : CallOK(r)'
  PROVE  ServedSound'
BY DEF ServedSound, CallOK

\* Time passes.
LEMMA TickStep == ASSUME ServedSound, Tick PROVE ServedSound'
<1>. USE TimesAssumption
<1>1. /\ TypeOK /\ CacheOK /\ clock' = clock + 1 /\ clock < MaxClock
      /\ UNCHANGED <<generation, cache, retained, ranked, round, reader>>
  BY DEF Tick, ServedSound
<1>2. TypeOK'
  BY <1>1 DEF TypeOK
<1>3. MovesOn /\ TaskGoesOn
  BY <1>1, Numbers DEF MovesOn, TaskGoesOn, Serving, Rounds
<1>4. \A x \in Rounds : RoundOK(x)'
  BY <1>1, <1>2, <1>3, RoundKept DEF ServedSound
<1>5. retained'.gen <= generation'
  BY <1>1 DEF CacheOK
<1>. QED BY <1>1, <1>2, <1>3, <1>4, <1>5, CallsKept, Together

\* A new configuration is served.
LEMMA PublishStep == ASSUME ServedSound, Publish PROVE ServedSound'
<1>. USE TimesAssumption
<1>1. /\ TypeOK /\ CacheOK /\ generation' = generation + 1 /\ generation < MaxGeneration
      /\ UNCHANGED <<clock, cache, retained, ranked, round, reader>>
  BY DEF Publish, ServedSound
<1>2. TypeOK'
  BY <1>1 DEF TypeOK
<1>3. MovesOn /\ TaskGoesOn
  BY <1>1, Numbers DEF MovesOn, TaskGoesOn, Serving, Rounds
<1>4. \A x \in Rounds : RoundOK(x)'
  BY <1>1, <1>2, <1>3, RoundKept DEF ServedSound
<1>5. retained'.gen <= generation'
  BY <1>1, Numbers DEF CacheOK
<1>. QED BY <1>1, <1>2, <1>3, <1>4, <1>5, CallsKept, Together

\* The rank loop's timer fires.
LEMMA RankTimerStep == ASSUME ServedSound, RankTimer PROVE ServedSound'
<1>1. /\ TypeOK /\ CacheOK /\ round' = [round EXCEPT !["rank"].pc = "label"]
      /\ round["rank"].pc = "idle" /\ RoundOK("rank")
      /\ UNCHANGED <<generation, clock, cache, retained, ranked, reader>>
  BY DEF RankTimer, ServedSound, Rounds
<1>2. TypeOK'
  BY <1>1 DEF TypeOK, Rounds
<1>3. MovesOn /\ TaskGoesOn
  BY <1>1, Numbers DEF MovesOn, TaskGoesOn, Serving, TypeOK, Rounds
<1>4. \A x \in Rounds : RoundOK(x)'
  <2>1. RoundOK("rank")'
    BY <1>1 DEF RoundOK, TypeOK, Rounds
  <2>2. \A x \in Rounds \ {"rank"} : round'[x] = round[x]
    BY <1>1 DEF TypeOK
  <2>. QED BY <1>1, <1>2, <1>3, <2>1, <2>2, RoundKept DEF ServedSound
<1>5. retained'.gen <= generation'
  BY <1>1 DEF CacheOK
<1>. QED BY <1>1, <1>2, <1>3, <1>4, <1>5, CallsKept, Together

\* A round reads the generation.
LEMMA LabelStep == ASSUME ServedSound, NEW x \in Rounds, Label(x) PROVE ServedSound'
<1>. USE TimesAssumption
<1>1. /\ TypeOK /\ CacheOK /\ x \in {"startup", "rank"} /\ round[x].pc = "label"
      /\ round' = [round EXCEPT ![x].pc = "probe", ![x].label = generation]
      /\ RoundOK(x)
      /\ UNCHANGED <<generation, clock, cache, retained, ranked, reader>>
  BY DEF Label, ServedSound
<1>2. TypeOK'
  BY <1>1 DEF TypeOK, Rounds
<1>3. MovesOn /\ TaskGoesOn
  BY <1>1, Numbers DEF MovesOn, TaskGoesOn, Serving, TypeOK, Rounds
<1>4. \A y \in Rounds : RoundOK(y)'
  <2>1. RoundOK(x)'
    BY <1>1, Numbers DEF RoundOK, TypeOK, Rounds
  <2>2. \A y \in Rounds \ {x} : round'[y] = round[y]
    BY <1>1 DEF TypeOK
  <2>. QED BY <1>1, <1>2, <1>3, <2>1, <2>2, RoundKept DEF ServedSound
<1>5. retained'.gen <= generation'
  BY <1>1 DEF CacheOK
<1>. QED BY <1>1, <1>2, <1>3, <1>4, <1>5, CallsKept, Together

\* A round reads the snapshot it probes.
LEMMA ProbeStep == ASSUME ServedSound, NEW x \in Rounds, Probe(x) PROVE ServedSound'
<1>. USE TimesAssumption
<1>1. /\ TypeOK /\ CacheOK /\ round[x].pc = "probe" /\ RoundOK(x)
      /\ round' = [round EXCEPT ![x].pc = "probing",
                                ![x].probed = Generation(round[x].pin),
                                ![x].started = clock]
      /\ UNCHANGED <<generation, clock, cache, retained, ranked, reader>>
  BY DEF Probe, ServedSound
<1>2. TypeOK'
  <2>1. Generation(round[x].pin) \in 0 .. MaxGeneration
    BY <1>1 DEF Generation, TypeOK, NoPin
  <2>2. round \in [Rounds -> RoundType] /\ clock \in 0 .. MaxClock
    BY <1>1 DEF TypeOK, RoundType, RoundPcs
  <2>3. [round[x] EXCEPT !.pc = "probing", !.probed = Generation(round[x].pin),
                         !.started = clock] \in RoundType
    BY <2>1, <2>2 DEF RoundType, RoundPcs
  <2>4. round' \in [Rounds -> RoundType]
    BY <1>1, <2>2, <2>3
  <2>. QED BY <1>1, <2>4 DEF TypeOK, RoundType, RoundPcs
<1>3. MovesOn /\ TaskGoesOn
  BY <1>1, Numbers DEF MovesOn, TaskGoesOn, Serving, TypeOK, Rounds, Probing
<1>4. \A y \in Rounds : RoundOK(y)'
  <2>1. RoundOK(x)'
    BY <1>1, Numbers DEF RoundOK, TypeOK, Generation
  <2>2. \A y \in Rounds \ {x} : round'[y] = round[y]
    BY <1>1 DEF TypeOK
  <2>. QED BY <1>1, <1>2, <1>3, <2>1, <2>2, RoundKept DEF ServedSound
<1>5. retained'.gen <= generation'
  BY <1>1 DEF CacheOK
<1>. QED BY <1>1, <1>2, <1>3, <1>4, <1>5, CallsKept, Together

\* A probe returns, and its report is retained or not.
LEMMA ProbedStep ==
  ASSUME ServedSound, NEW x \in Rounds, NEW ok \in BOOLEAN, Probed(x, ok)
  PROVE  ServedSound'
<1>. USE TimesAssumption
<1>1. /\ TypeOK /\ CacheOK /\ round[x].pc = "probing" /\ RoundOK(x)
      /\ round' = [round EXCEPT ![x].pc = "probed", ![x].ok = ok]
      /\ UNCHANGED <<generation, clock, cache, ranked, reader>>
  BY DEF Probed, ServedSound
<1>2. /\ retained' \in [gen : -1 .. MaxGeneration, started : 0 .. MaxClock,
                        completed : 0 .. MaxClock]
      /\ retained'.gen >= retained.gen /\ retained'.gen <= generation
      /\ ok => retained'.gen >= round[x].probed
  <2>1. CASE ok /\ Newer(round[x].probed, round[x].started)
    <3>1. retained' = [gen |-> round[x].probed, started |-> round[x].started,
                       completed |-> clock]
      BY <2>1 DEF Probed
    <3>. QED BY <1>1, <2>1, <3>1, Numbers DEF TypeOK, RoundOK, Newer
  <2>2. CASE ~ (ok /\ Newer(round[x].probed, round[x].started))
    <3>1. retained' = retained
      BY <2>2 DEF Probed
    <3>. QED BY <1>1, <2>2, <3>1, Numbers DEF TypeOK, RoundOK, Newer, CacheOK
  <2>. QED BY <2>1, <2>2
<1>3. TypeOK'
  <2>1. round \in [Rounds -> RoundType]
    BY <1>1 DEF TypeOK, RoundType, RoundPcs
  <2>2. [round[x] EXCEPT !.pc = "probed", !.ok = ok] \in RoundType
    BY <2>1 DEF RoundType, RoundPcs
  <2>3. round' \in [Rounds -> RoundType]
    BY <1>1, <2>1, <2>2
  <2>. QED BY <1>1, <1>2, <2>3 DEF TypeOK, RoundType, RoundPcs
<1>4. MovesOn /\ TaskGoesOn
  BY <1>1, <1>2, Numbers DEF MovesOn, TaskGoesOn, Serving, TypeOK, Rounds, Probing
<1>5. \A y \in Rounds : RoundOK(y)'
  <2>1. RoundOK(x)'
    BY <1>1, <1>2, Numbers DEF RoundOK, TypeOK
  <2>2. \A y \in Rounds \ {x} : round'[y] = round[y]
    BY <1>1 DEF TypeOK
  <2>. QED BY <1>1, <1>3, <1>4, <2>1, <2>2, RoundKept DEF ServedSound
<1>. QED BY <1>1, <1>2, <1>3, <1>4, <1>5, CallsKept, Together

\* The rank loop seeds the tracker, or does not.
LEMMA RankEndStep == ASSUME ServedSound, RankEnd PROVE ServedSound'
<1>. USE TimesAssumption
<1>1. /\ TypeOK /\ CacheOK /\ RoundOK("rank") /\ round["rank"].pc = "probed"
      /\ round' = [round EXCEPT !["rank"] = Rest]
      /\ ranked' \in {ranked, [label |-> round["rank"].label, probed |-> round["rank"].probed]}
      /\ UNCHANGED <<generation, clock, cache, retained, reader>>
  BY DEF RankEnd, SeedRank, ServedSound, Rounds
<1>2. TypeOK'
  <2>1. round \in [Rounds -> RoundType]
    BY <1>1 DEF TypeOK, RoundType, RoundPcs
  <2>2. Rest \in RoundType
    BY DEF Rest, RoundType, RoundPcs, NoPin
  <2>3. round' \in [Rounds -> RoundType]
    BY <1>1, <2>1, <2>2
  <2>4. ranked' \in [label : 0 .. MaxGeneration, probed : 0 .. MaxGeneration]
    BY <1>1, <2>1 DEF TypeOK, RoundType, Rounds
  <2>. QED BY <1>1, <2>3, <2>4 DEF TypeOK, RoundType, RoundPcs
<1>3. MovesOn /\ TaskGoesOn
  BY <1>1, Numbers DEF MovesOn, TaskGoesOn, Serving, TypeOK, Rounds
<1>4. \A x \in Rounds : RoundOK(x)'
  <2>1. RoundOK("rank")'
    <3>1. round'["rank"] = Rest /\ generation \in 0 .. MaxGeneration /\ generation' = generation
      BY <1>1 DEF TypeOK, Rounds
    <3>. QED BY <3>1 DEF RoundOK, Rest, NoPin
  <2>2. \A x \in Rounds \ {"rank"} : round'[x] = round[x]
    BY <1>1 DEF TypeOK
  <2>. QED BY <1>1, <1>2, <1>3, <2>1, <2>2, RoundKept DEF ServedSound
<1>5. retained'.gen <= generation'
  BY <1>1 DEF CacheOK
<1>. QED BY <1>1, <1>2, <1>3, <1>4, <1>5, CallsKept, Together

\* The startup report warms the cache.
LEMMA WarmStep == ASSUME ServedSound, Warm PROVE ServedSound'
<1>. USE TimesAssumption
<1>1. /\ TypeOK /\ CacheOK /\ RoundOK("startup") /\ round["startup"].pc = "probed"
      /\ cache' = [gen |-> round["startup"].label, probed |-> round["startup"].probed,
                   at |-> clock, observed |-> round["startup"].ok]
      /\ round' = [round EXCEPT !["startup"] = Rest]
      /\ ranked' \in {ranked, [label |-> round["startup"].label, probed |-> round["startup"].probed]}
      /\ UNCHANGED <<generation, clock, retained, reader>>
  BY DEF Warm, SeedRank, ServedSound, Rounds
<1>2. TypeOK'
  <2>1. round \in [Rounds -> RoundType]
    BY <1>1 DEF TypeOK, RoundType, RoundPcs
  <2>2. Rest \in RoundType
    BY DEF Rest, RoundType, RoundPcs, NoPin
  <2>3. round' \in [Rounds -> RoundType]
    BY <1>1, <2>1, <2>2
  <2>4. ranked' \in [label : 0 .. MaxGeneration, probed : 0 .. MaxGeneration]
    BY <1>1, <2>1 DEF TypeOK, RoundType, Rounds
  <2>5. round["startup"] \in RoundType /\ clock \in 0 .. MaxClock
    BY <1>1, <2>1 DEF Rounds, TypeOK
  <2>6. cache' \in Entries
    BY <1>1, <2>5 DEF Entries, RoundType
  <2>. QED BY <1>1, <2>3, <2>4, <2>6 DEF TypeOK, RoundType, RoundPcs
<1>3. /\ MovesOn /\ TaskGoesOn /\ ~ Serving /\ Serving'
      /\ round'["refresh"] = round["refresh"] /\ round'["startup"] = Rest
  BY <1>1, Numbers DEF MovesOn, TaskGoesOn, Serving, TypeOK, Rounds, Rest
<1>4. \A x \in Rounds : RoundOK(x)'
  <2>1. RoundOK("startup")'
    <3>1. generation \in 0 .. MaxGeneration /\ generation' = generation
      BY <1>1 DEF TypeOK
    <3>. QED BY <1>3, <3>1 DEF RoundOK, Rest, NoPin
  <2>2. \A x \in Rounds \ {"startup"} : round'[x] = round[x]
    BY <1>1 DEF TypeOK
  <2>. QED BY <1>1, <1>2, <1>3, <2>1, <2>2, RoundKept DEF ServedSound
<1>5. CacheOK'
  <2>1. round["refresh"].pin = NoPin
    BY <1>1, <1>3 DEF CacheOK
  <2>. QED BY <1>1, <1>3, <2>1 DEF CacheOK, RoundOK
<1>6. ASSUME NEW r \in Readers PROVE CallOK(r)'
  <2>1. CallOK(r) /\ reader[r].pin = NoPin /\ reader'[r] = reader[r]
    BY <1>1, <1>3 DEF ServedSound, CallOK, ReaderOK
  <2>. QED BY <1>1, <1>2, <1>3, <2>1, CallKept
<1>. QED BY <1>2, <1>4, <1>5, <1>6, Together

\* A step of one call that leaves the cache alone.
LEMMA OneCall ==
  ASSUME ServedSound, TypeOK', NEW r \in Readers, CallOK(r)', CacheOK',
         \A v \in Readers \ {r} : reader'[v] = reader[v],
         UNCHANGED <<generation, clock, cache, retained>>,
         \A x \in Rounds \ {"refresh"} : round'[x] = round[x],
         \/ round' = round
         \/ round["refresh"].pc = "idle" /\ RoundOK("refresh")'
  PROVE  ServedSound'
<1>0. TypeOK /\ \A x \in Rounds : RoundOK(x)
  BY DEF ServedSound
<1>1. MovesOn
  BY <1>0, Numbers DEF MovesOn, Serving, Rounds
<1>2. \A x \in Rounds : RoundOK(x)'
  BY <1>0, <1>1, RoundKept
<1>3. ASSUME NEW v \in Readers \ {r} PROVE CallOK(v)'
  <2>1. /\ CallOK(v) /\ reader'[v] = reader[v]
        /\ reader[v].pin # NoPin /\ cache'.gen = reader[v].pin => cache'.probed = reader[v].pin
    BY DEF ServedSound, CallOK, ReaderOK
  <2>2. reader[v].pc = "join" => TaskGoesOn
    BY <2>1 DEF CallOK, ReaderOK, TaskGoesOn
  <2>. QED BY <1>0, <1>1, <2>1, <2>2, CallKept
<1>. QED BY <1>2, <1>3, Together

\* A call pins, or not, and takes the time.
LEMMA BeginStep == ASSUME ServedSound, NEW r \in Readers, Begin(r) PROVE ServedSound'
<1>. USE TimesAssumption
<1>1. /\ TypeOK /\ CacheOK /\ Serving
      /\ reader' = [reader EXCEPT ![r].pc = "peek",
                      ![r].pin = IF Kind[r] = "ready" THEN generation ELSE NoPin,
                      ![r].since = generation, ![r].now = clock]
      /\ UNCHANGED <<generation, clock, cache, retained, ranked, round>>
  BY DEF Begin, ServedSound
<1>2. /\ reader \in [Readers -> ReaderType]
      /\ generation \in 0 .. MaxGeneration /\ clock \in 0 .. MaxClock
  BY <1>1 DEF TypeOK, ReaderType, ReaderPcs
<1>3. TypeOK'
  <2>. DEFINE pinned == IF Kind[r] = "ready" THEN generation ELSE NoPin
  <2>0. pinned \in -1 .. MaxGeneration
    BY <1>2 DEF NoPin
  <2>. HIDE DEF pinned
  <2>1. [reader[r] EXCEPT !.pc = "peek", !.pin = pinned,
                          !.since = generation, !.now = clock] \in ReaderType
    BY <1>2, <2>0 DEF ReaderType, ReaderPcs
  <2>2. reader' \in [Readers -> ReaderType]
    BY <1>1, <1>2, <2>1 DEF pinned
  <2>. QED BY <1>1, <2>2 DEF TypeOK, ReaderType, ReaderPcs
<1>4. /\ reader'[r].pc = "peek" /\ reader'[r].pin = (IF Kind[r] = "ready" THEN generation ELSE NoPin)
      /\ reader'[r].since = generation /\ reader'[r].now = clock
      /\ \A v \in Readers \ {r} : reader'[v] = reader[v]
  BY <1>1, <1>2 DEF ReaderType
<1>5. CallOK(r)'
  <2>1. Serving' /\ ~ Served(r)'
    BY <1>1, <1>4 DEF Serving, Served
  <2>2. cache.gen = generation => cache.probed = generation
    BY <1>1, Numbers DEF CacheOK
  <2>. QED BY <1>1, <1>2, <1>4, <2>1, <2>2
       DEF CallOK, ReaderOK, ServedFromOwnGeneration, ServedWithinStale, NoPin
<1>6. CacheOK'
  BY <1>1 DEF CacheOK, Serving
<1>. QED BY <1>1, <1>3, <1>4, <1>5, <1>6, OneCall

\* A call is answered with a value that is its own.
LEMMA AnsweredWell ==
  ASSUME TypeOK, TypeOK', NEW r \in Readers, CallOK(r), reader[r].pc \in {"peek", "join"},
         NEW value \in Entries, reader'[r] = Answer(r, value), MovesOn,
         reader[r].pin # NoPin /\ cache'.gen = reader[r].pin => cache'.probed = reader[r].pin,
         value.observed => retained'.gen >= value.probed,
         value \notin {None, Error} =>
           /\ IF Kind[r] = "ready" THEN value.probed = reader[r].pin
              ELSE value.probed >= reader[r].since
           /\ value.at + Stale >= reader[r].now
  PROVE  CallOK(r)'
<1>. USE TimesAssumption
<1>0. /\ generation \in Int /\ clock \in Int /\ generation' \in Int /\ clock' \in Int
      /\ retained'.gen \in Int /\ reader[r] \in ReaderType
  BY Numbers DEF TypeOK, ReaderType, ReaderPcs
<1>1. /\ reader'[r].pin = reader[r].pin /\ reader'[r].since = reader[r].since
      /\ reader'[r].now = reader[r].now /\ reader'[r].answer = value
      /\ reader'[r].pc \in {"report", "done"}
      /\ reader'[r].pc = "report" => Kind[r] = "report"
  BY <1>0 DEF Answer, ReaderType
<1>2. value.observed => value \notin {None, Error}
  BY DEF None, Error
<1>3. ServedFromOwnGeneration(r)' /\ ServedWithinStale(r)'
  BY <1>1 DEF ServedFromOwnGeneration, ServedWithinStale, Served
<1>4. ReaderOK(r)'
  <2>1. /\ reader[r].pin <= generation' /\ reader[r].since <= generation'
        /\ reader[r].now <= clock'
    BY <1>0 DEF CallOK, ReaderOK, MovesOn, ReaderType
  <2>2. Serving' /\ (reader[r].pin # NoPin <=> Kind[r] = "ready")
    BY DEF CallOK, ReaderOK, MovesOn
  <2>3. reader'[r].pc = "report" => (value.observed => retained'.gen >= reader[r].since)
    BY <1>0, <1>1, <1>2 DEF ReaderType, Entries
  <2>. QED BY <1>1, <2>1, <2>2, <2>3 DEF ReaderOK
<1>. QED BY <1>3, <1>4 DEF CallOK

\* An answered call has its type.
LEMMA AnswerTyped ==
  ASSUME TypeOK, NEW r \in Readers, NEW value \in Entries
  PROVE  Answer(r, value) \in ReaderType
<1>1. reader[r] \in ReaderType
  BY DEF TypeOK, ReaderType, ReaderPcs
<1>. QED BY <1>1 DEF Answer, ReaderType, ReaderPcs

\* The refresh task, spawned or ended.
LEMMA SpawnTyped ==
  ASSUME TypeOK, NEW p \in -1 .. MaxGeneration
  PROVE  /\ Spawn(p) \in [Rounds -> RoundType]
         /\ \A x \in Rounds \ {"refresh"} : Spawn(p)[x] = round[x]
         /\ Spawn(p)["refresh"] = [Rest EXCEPT !.pc = "look", !.pin = p]
<1>1. round \in [Rounds -> RoundType]
  BY DEF TypeOK, RoundType, RoundPcs
<1>0. Rest \in RoundType
  BY TimesAssumption DEF Rest, RoundType, RoundPcs, NoPin
<1>2. [Rest EXCEPT !.pc = "look", !.pin = p] \in RoundType
  BY <1>0 DEF RoundType, RoundPcs
<1>. QED BY <1>1, <1>2 DEF Spawn, Rounds

\* A call looks at the cache.
LEMMA PeekStep == ASSUME ServedSound, NEW r \in Readers, Peek(r) PROVE ServedSound'
<1>. USE TimesAssumption
<1>0. /\ TypeOK /\ CacheOK /\ CallOK(r) /\ reader[r].pc = "peek" /\ Serving
      /\ UNCHANGED <<generation, clock, cache, retained, ranked>>
  BY DEF Peek, ServedSound, CallOK, ReaderOK
<1>1. /\ reader \in [Readers -> ReaderType] /\ reader[r] \in ReaderType
      /\ cache \in Entries /\ generation \in 0 .. MaxGeneration /\ retained.gen \in Int
  BY <1>0, Numbers DEF TypeOK, ReaderType, ReaderPcs
<1>2. ASSUME CacheHit(reader[r].pin), Elapsed(reader[r].now, cache.at) <= Stale,
             reader' = [reader EXCEPT ![r] = Answer(r, cache)],
             \/ round' = round
             \/ round["refresh"].pc = "idle" /\ round' = Spawn(NoPin)
      PROVE  ServedSound'
  <2>0. NoPin \in -1 .. MaxGeneration /\ NoPin <= generation
    BY <1>1 DEF NoPin
  <2>1. /\ Spawn(NoPin) \in [Rounds -> RoundType]
        /\ \A x \in Rounds \ {"refresh"} : Spawn(NoPin)[x] = round[x]
        /\ Spawn(NoPin)["refresh"] = [Rest EXCEPT !.pc = "look", !.pin = NoPin]
    BY <1>0, <2>0, SpawnTyped
  <2>2. TypeOK'
    <3>1. reader' \in [Readers -> ReaderType]
      BY <1>0, <1>1, <1>2, AnswerTyped
    <3>2. round' \in [Rounds -> RoundType]
      BY <1>0, <1>2, <2>1 DEF TypeOK, RoundType, RoundPcs
    <3>. QED BY <1>0, <3>1, <3>2 DEF TypeOK, ReaderType, ReaderPcs, RoundType, RoundPcs
  <2>3. \A x \in Rounds \ {"refresh"} : round'[x] = round[x]
    BY <1>2, <2>1
  <2>4. MovesOn
    BY <1>0, <2>3, Numbers DEF MovesOn, Serving, Rounds
  <2>5. round' = round \/ (round["refresh"].pc = "idle" /\ RoundOK("refresh")')
    <3>1. CASE round' = Spawn(NoPin) /\ round["refresh"].pc = "idle"
      <4>1. round'["refresh"].pc = "look" /\ round'["refresh"].pin = NoPin
        BY <2>1, <3>1 DEF Rest
      <4>. QED BY <1>0, <2>0, <3>1, <4>1 DEF RoundOK
    <3>. QED BY <1>2, <3>1
  <2>6. CacheOK'
    BY <1>0, <1>2, <2>1, <2>3, ZenonT(30) DEF CacheOK, Serving, Rounds, Rest
  <2>7. CallOK(r)'
    <3>1. cache.gen = Generation(reader[r].pin)
      BY <1>2 DEF CacheHit
    <3>2. IF Kind[r] = "ready" THEN cache.probed = reader[r].pin
          ELSE cache.probed >= reader[r].since
      BY <1>0, <1>1, <3>1 DEF CallOK, ReaderOK, CacheOK, Generation, ReaderType, Entries
    <3>3. cache.at + Stale >= reader[r].now
      BY <1>1, <1>2 DEF Elapsed, ReaderType, Entries
    <3>4. cache.observed => retained'.gen >= cache.probed
      BY <1>0 DEF CacheOK
    <3>5. /\ reader'[r] = Answer(r, cache)
          /\ reader[r].pin # NoPin /\ cache'.gen = reader[r].pin => cache'.probed = reader[r].pin
      BY <1>0, <1>1, <1>2 DEF CallOK, ReaderOK
    <3>. QED BY <1>0, <1>1, <2>2, <2>4, <3>2, <3>3, <3>4, <3>5, AnsweredWell
  <2>8. \A v \in Readers \ {r} : reader'[v] = reader[v]
    BY <1>1, <1>2
  <2>. QED BY <1>0, <2>2, <2>3, <2>5, <2>6, <2>7, <2>8, OneCall
<1>3. ASSUME reader' = [reader EXCEPT ![r].pc = "lock"], round' = round PROVE ServedSound'
  <2>1. /\ reader'[r] = [reader[r] EXCEPT !.pc = "lock"]
        /\ \A v \in Readers \ {r} : reader'[v] = reader[v]
    BY <1>1, <1>3
  <2>2. TypeOK'
    <3>1. [reader[r] EXCEPT !.pc = "lock"] \in ReaderType
      BY <1>1 DEF ReaderType, ReaderPcs
    <3>2. reader' \in [Readers -> ReaderType]
      BY <1>1, <1>3, <3>1
    <3>. QED BY <1>0, <1>3, <3>2 DEF TypeOK, ReaderType, ReaderPcs
  <2>3. CallOK(r)'
    BY <1>0, <1>1, <1>3, <2>1 DEF CallOK, ReaderOK, ServedFromOwnGeneration, ServedWithinStale,
       Served, Serving, ReaderType
  <2>4. CacheOK'
    BY <1>0, <1>3 DEF CacheOK, Serving
  <2>. QED BY <1>0, <1>3, <2>1, <2>2, <2>3, <2>4, OneCall
<1>. QED
  <2>. DEFINE age == Elapsed(reader[r].now, cache.at)
  <2>1. age \in Int
    BY <1>1 DEF Elapsed, ReaderType, Entries
  <2>2. CASE /\ CacheHit(reader[r].pin) /\ age <= Ttl
             /\ reader' = [reader EXCEPT ![r] = Answer(r, cache)] /\ UNCHANGED round
    BY <1>2, <2>1, <2>2
  <2>3. CASE /\ CacheHit(reader[r].pin) /\ age > Ttl /\ age <= Stale
             /\ round' = IF round["refresh"].pc = "idle" THEN Spawn(NoPin) ELSE round
             /\ reader' = [reader EXCEPT ![r] = Answer(r, cache)]
    BY <1>2, <2>3
  <2>4. CASE reader' = [reader EXCEPT ![r].pc = "lock"] /\ UNCHANGED round
    BY <1>3, <2>4
  <2>. QED BY <2>2, <2>3, <2>4 DEF Peek

\* A call gets the lock and spawns the task.
LEMMA LockStep == ASSUME ServedSound, NEW r \in Readers, Lock(r) PROVE ServedSound'
<1>. USE TimesAssumption
<1>0. /\ TypeOK /\ CacheOK /\ CallOK(r) /\ reader[r].pc = "lock" /\ Serving
      /\ round["refresh"].pc = "idle" /\ round' = Spawn(reader[r].pin)
      /\ reader' = [reader EXCEPT ![r].pc = "join"]
      /\ UNCHANGED <<generation, clock, cache, retained, ranked>>
  BY DEF Lock, ServedSound, CallOK, ReaderOK
<1>1. reader \in [Readers -> ReaderType] /\ reader[r] \in ReaderType
  BY <1>0 DEF TypeOK, ReaderType, ReaderPcs
<1>2. /\ reader'[r] = [reader[r] EXCEPT !.pc = "join"]
      /\ \A v \in Readers \ {r} : reader'[v] = reader[v]
  BY <1>0, <1>1
<1>3. /\ reader[r].pin \in -1 .. MaxGeneration
      /\ round' \in [Rounds -> RoundType]
      /\ \A x \in Rounds \ {"refresh"} : round'[x] = round[x]
      /\ round'["refresh"] = [Rest EXCEPT !.pc = "look", !.pin = reader[r].pin]
  <2>1. reader[r].pin \in -1 .. MaxGeneration
    BY <1>1 DEF ReaderType
  <2>. QED BY <1>0, <2>1, SpawnTyped
<1>4. TypeOK'
  <2>1. [reader[r] EXCEPT !.pc = "join"] \in ReaderType
    BY <1>1 DEF ReaderType, ReaderPcs
  <2>2. reader' \in [Readers -> ReaderType]
    BY <1>0, <1>1, <2>1
  <2>. QED BY <1>0, <1>3, <2>2 DEF TypeOK, ReaderType, ReaderPcs, RoundType, RoundPcs
<1>5. Serving'
  BY <1>0, <1>3 DEF Serving, Rounds
<1>6. round'["refresh"].pc = "look" /\ round'["refresh"].pin = reader[r].pin
  BY <1>3 DEF Rest
<1>7. CallOK(r)'
  BY <1>0, <1>1, <1>2, <1>5, <1>6 DEF CallOK, ReaderOK, ServedFromOwnGeneration,
     ServedWithinStale, Served, ReaderType
<1>8. CacheOK'
  BY <1>0, <1>5, <1>6 DEF CacheOK, CallOK, ReaderOK
<1>9. RoundOK("refresh")'
  BY <1>0, <1>6 DEF RoundOK, CallOK, ReaderOK
<1>. QED BY <1>0, <1>2, <1>3, <1>4, <1>7, <1>8, <1>9, OneCall

\* A call's client goes away.
LEMMA AbandonStep == ASSUME ServedSound, NEW r \in Readers, Abandon(r) PROVE ServedSound'
<1>0. /\ TypeOK /\ CacheOK /\ CallOK(r) /\ reader[r].pc # "idle"
      /\ reader' = [reader EXCEPT ![r].pc = "gone"]
      /\ UNCHANGED <<generation, clock, cache, retained, ranked, round>>
  BY DEF Abandon, ServedSound, CallOK
<1>1. reader \in [Readers -> ReaderType] /\ reader[r] \in ReaderType
  BY <1>0 DEF TypeOK, ReaderType, ReaderPcs
<1>2. /\ reader'[r] = [reader[r] EXCEPT !.pc = "gone"]
      /\ \A v \in Readers \ {r} : reader'[v] = reader[v]
  BY <1>0, <1>1
<1>3. TypeOK'
  <2>1. [reader[r] EXCEPT !.pc = "gone"] \in ReaderType
    BY <1>1 DEF ReaderType, ReaderPcs
  <2>2. reader' \in [Readers -> ReaderType]
    BY <1>0, <1>1, <2>1
  <2>. QED BY <1>0, <2>2 DEF TypeOK, ReaderType, ReaderPcs
<1>4. CallOK(r)'
  BY <1>0, <1>1, <1>2 DEF CallOK, ReaderOK, ServedFromOwnGeneration,
     ServedWithinStale, Served, ReaderType, Serving
<1>5. CacheOK'
  BY <1>0 DEF CacheOK, Serving
<1>. QED BY <1>0, <1>2, <1>3, <1>4, <1>5, OneCall

\* A call looks for the retained report.
LEMMA ReportStep == ASSUME ServedSound, NEW r \in Readers, Report(r) PROVE ServedSound'
<1>0. /\ TypeOK /\ CacheOK /\ CallOK(r) /\ reader[r].pc = "report"
      /\ UNCHANGED <<generation, clock, cache, retained, ranked, round>>
  BY DEF Report, ServedSound, CallOK
<1>1. reader \in [Readers -> ReaderType] /\ reader[r] \in ReaderType
  BY <1>0 DEF TypeOK, ReaderType, ReaderPcs
<1>2. PICK p \in {"done", "unavailable"} : reader' = [reader EXCEPT ![r].pc = p]
  BY DEF Report
<1>3. /\ reader'[r] = [reader[r] EXCEPT !.pc = p]
      /\ \A v \in Readers \ {r} : reader'[v] = reader[v]
  BY <1>1, <1>2
<1>4. TypeOK'
  <2>1. [reader[r] EXCEPT !.pc = p] \in ReaderType
    BY <1>1 DEF ReaderType, ReaderPcs
  <2>2. reader' \in [Readers -> ReaderType]
    BY <1>1, <1>2, <2>1
  <2>. QED BY <1>0, <2>2 DEF TypeOK, ReaderType, ReaderPcs
<1>5. CallOK(r)'
  BY <1>0, <1>1, <1>3 DEF CallOK, ReaderOK, ServedFromOwnGeneration,
     ServedWithinStale, Served, ReaderType, Serving
<1>6. CacheOK'
  BY <1>0 DEF CacheOK, Serving
<1>. QED BY <1>0, <1>3, <1>4, <1>5, <1>6, OneCall

\* The task ends with a value that is every joining call's own.
LEMMA TaskEnded ==
  ASSUME ServedSound, NEW value \in Entries, TaskEnds(value),
         UNCHANGED <<generation, clock, retained, ranked>>,
         cache' \in Entries, cache'.gen <= cache'.probed, cache'.probed <= generation,
         cache'.observed => retained.gen >= cache'.probed,
         value.observed => retained.gen >= value.probed,
         \A r \in Readers : reader[r].pin # NoPin /\ cache'.gen = reader[r].pin =>
                              cache'.probed = reader[r].pin,
         \A r \in Readers :
           reader[r].pc = "join" /\ value \notin {None, Error} =>
             /\ IF Kind[r] = "ready" THEN value.probed = reader[r].pin
                ELSE value.probed >= reader[r].since
             /\ value.at + Stale >= reader[r].now
  PROVE  ServedSound'
<1>. USE TimesAssumption
<1>0. /\ TypeOK /\ CacheOK /\ generation \in 0 .. MaxGeneration
      /\ round' = [round EXCEPT !["refresh"] = Rest]
      /\ reader' = [r \in Readers |->
                      IF reader[r].pc = "join" THEN Answer(r, value) ELSE reader[r]]
  BY DEF ServedSound, TypeOK, TaskEnds
<1>1. round \in [Rounds -> RoundType] /\ reader \in [Readers -> ReaderType]
  BY <1>0 DEF TypeOK, RoundType, RoundPcs, ReaderType, ReaderPcs
<1>2. /\ round'["refresh"].pc = "idle" /\ round'["refresh"].pin = NoPin
      /\ \A x \in Rounds \ {"refresh"} : round'[x] = round[x]
  BY <1>0, <1>1 DEF Rounds, Rest
<1>3. TypeOK'
  <2>1. Rest \in RoundType
    BY DEF Rest, RoundType, RoundPcs, NoPin
  <2>2. round' \in [Rounds -> RoundType]
    BY <1>0, <1>1, <2>1
  <2>3. reader' \in [Readers -> ReaderType]
    BY <1>0, <1>1, AnswerTyped
  <2>. QED BY <1>0, <2>2, <2>3 DEF TypeOK, RoundType, RoundPcs, ReaderType, ReaderPcs
<1>4. MovesOn
  BY <1>0, <1>2, Numbers DEF MovesOn, Serving, Rounds
<1>5. \A x \in Rounds : RoundOK(x)'
  <2>1. RoundOK("refresh")'
    BY <1>0, <1>2 DEF RoundOK, NoPin
  <2>. QED BY <1>0, <1>2, <1>3, <1>4, <2>1, RoundKept DEF ServedSound
<1>6. CacheOK'
  BY <1>0, <1>2 DEF CacheOK
<1>7. ASSUME NEW r \in Readers PROVE CallOK(r)'
  <2>1. CallOK(r)
    BY DEF ServedSound, CallOK
  <2>2. CASE reader[r].pc = "join"
    <3>1. reader'[r] = Answer(r, value)
      BY <1>0, <2>2
    <3>. QED BY <1>0, <1>3, <1>4, <2>1, <2>2, <3>1, AnsweredWell
  <2>3. CASE reader[r].pc # "join"
    <3>1. reader'[r] = reader[r]
      BY <1>0, <2>3
    <3>. QED BY <1>0, <1>3, <1>4, <2>1, <2>3, <3>1, CallKept
  <2>. QED BY <2>2, <2>3
<1>. QED BY <1>3, <1>5, <1>6, <1>7, Together

\* What is known of the call that joins the refresh task.
LEMMA Joined ==
  ASSUME ServedSound, NEW r \in Readers, reader[r].pc = "join"
  PROVE  /\ reader[r].pin = round["refresh"].pin
         /\ Kind[r] = "ready" <=> round["refresh"].pin # NoPin
         /\ reader[r].since <= generation /\ reader[r].now <= clock
         /\ round["refresh"].pc \in Probing /\ round["refresh"].pin = NoPin =>
              round["refresh"].label >= reader[r].since
BY DEF ServedSound, ReaderOK, Probing

\* The error is no value.
LEMMA ErrorEnds ==
  ASSUME ServedSound, TaskEnds(Error), UNCHANGED <<generation, clock, cache, retained, ranked>>
  PROVE  ServedSound'
<1>1. Error \in Entries /\ ~ Error.observed
  <2>1. None \in Entries /\ ~ None.observed
    BY TimesAssumption DEF None, Entries
  <2>. QED BY <2>1, TimesAssumption DEF Error, Entries
<1>2. /\ cache' \in Entries /\ cache'.gen <= cache'.probed /\ cache'.probed <= generation
      /\ cache'.observed => retained.gen >= cache'.probed
      /\ \A r \in Readers : reader[r].pin # NoPin /\ cache'.gen = reader[r].pin =>
                              cache'.probed = reader[r].pin
  BY DEF ServedSound, CacheOK, ReaderOK, TypeOK
<1>. QED BY <1>1, <1>2, TaskEnded

\* The cached value answers a task whose generation it has and which it is not
\* too old for.
LEMMA CachedEnds ==
  ASSUME ServedSound, TaskEnds(cache), UNCHANGED <<generation, clock, cache, retained, ranked>>,
         Elapsed(clock, cache.at) <= Stale,
         \/ cache.gen = Generation(round["refresh"].pin)
         \/ /\ round["refresh"].pc = "decided" /\ cache.gen = round["refresh"].label
  PROVE  ServedSound'
<1>. USE TimesAssumption
<1>0. /\ TypeOK /\ CacheOK /\ RoundOK("refresh") /\ cache \in Entries
      /\ \A r \in Readers : reader[r] \in ReaderType
      /\ generation \in Int /\ clock \in Int /\ round["refresh"].label \in Int
  BY Numbers DEF ServedSound, Rounds, TypeOK, ReaderType, ReaderPcs
<1>1. /\ cache' \in Entries /\ cache'.gen <= cache'.probed /\ cache'.probed <= generation
      /\ cache'.observed => retained.gen >= cache'.probed
      /\ \A r \in Readers : reader[r].pin # NoPin /\ cache'.gen = reader[r].pin =>
                              cache'.probed = reader[r].pin
  BY <1>0 DEF ServedSound, CacheOK, ReaderOK
<1>2. cache.at + Stale >= clock
  BY <1>0 DEF Elapsed, Entries
<1>3. ASSUME NEW r \in Readers, reader[r].pc = "join"
      PROVE  /\ IF Kind[r] = "ready" THEN cache.probed = reader[r].pin
                ELSE cache.probed >= reader[r].since
             /\ cache.at + Stale >= reader[r].now
  <2>1. /\ reader[r].pin = round["refresh"].pin
        /\ Kind[r] = "ready" <=> round["refresh"].pin # NoPin
        /\ reader[r].since <= generation /\ reader[r].now <= clock
        /\ round["refresh"].pc = "decided" /\ round["refresh"].pin = NoPin =>
             round["refresh"].label >= reader[r].since
    BY <1>3, Joined DEF Probing
  <2>2. /\ reader[r].since \in Int /\ reader[r].now \in Int
        /\ cache.at \in Int /\ cache.gen \in Int /\ cache.probed \in Int
    BY <1>0, Numbers
  <2>3. cache.at + Stale >= reader[r].now
    BY <1>0, <1>2, <2>1, <2>2
  <2>4. CASE Kind[r] = "ready"
    <3>1. cache.gen = reader[r].pin /\ reader[r].pin # NoPin
      BY <1>0, <2>1, <2>4 DEF Generation, RoundOK
    <3>. QED BY <1>1, <2>3, <2>4, <3>1
  <2>5. CASE Kind[r] # "ready"
    <3>1. cache.gen >= reader[r].since
      BY <1>0, <2>1, <2>2, <2>5 DEF Generation
    <3>. QED BY <1>0, <2>2, <2>3, <2>5, <3>1 DEF CacheOK
  <2>. QED BY <2>4, <2>5
<1>. QED BY <1>0, <1>1, <1>3, TaskEnded

\* A step of the refresh task that leaves the rest alone.
LEMMA TaskStep ==
  ASSUME ServedSound, UNCHANGED <<generation, clock, cache, retained, ranked, reader>>,
         NEW rec \in RoundType, round' = [round EXCEPT !["refresh"] = rec],
         TaskGoesOn, RoundOK("refresh")'
  PROVE  ServedSound'
<1>1. TypeOK /\ CacheOK /\ round \in [Rounds -> RoundType]
  BY DEF ServedSound, TypeOK, RoundType, RoundPcs
<1>2. TypeOK'
  <2>1. round' \in [Rounds -> RoundType]
    BY <1>1
  <2>. QED BY <1>1, <2>1 DEF TypeOK, RoundType, RoundPcs
<1>3. \A x \in Rounds \ {"refresh"} : round'[x] = round[x]
  BY <1>1
<1>4. MovesOn
  BY <1>1, <1>3, Numbers DEF MovesOn, Serving, Rounds
<1>5. \A x \in Rounds : RoundOK(x)'
  BY <1>1, <1>2, <1>3, <1>4, RoundKept DEF ServedSound
<1>6. retained'.gen <= generation'
  BY <1>1 DEF CacheOK
<1>. QED BY <1>1, <1>2, <1>4, <1>5, <1>6, CallsKept, Together

\* The task looks at the cache.
LEMMA LookStep == ASSUME ServedSound, Look PROVE ServedSound'
<1>. USE TimesAssumption
<1>0. /\ TypeOK /\ CacheOK /\ RoundOK("refresh") /\ round["refresh"].pc = "look"
      /\ round["refresh"] \in RoundType /\ round \in [Rounds -> RoundType]
      /\ generation \in 0 .. MaxGeneration /\ clock \in Int /\ cache.at \in Int
      /\ UNCHANGED <<generation, clock, cache, retained, ranked>>
  BY Numbers DEF Look, ServedSound, Rounds, TypeOK, RoundType, RoundPcs
<1>1. CASE /\ cache.gen = Generation(round["refresh"].pin)
           /\ Elapsed(clock, cache.at) <= Ttl /\ TaskEnds(cache)
  <2>1. Elapsed(clock, cache.at) <= Stale
    BY <1>0, <1>1 DEF Elapsed
  <2>. QED BY <1>0, <1>1, <2>1, CachedEnds
<1>2. CASE /\ round' = [round EXCEPT !["refresh"].pc = "probe",
                          !["refresh"].label = Generation(round["refresh"].pin)]
           /\ UNCHANGED reader
  <2>. DEFINE gen == Generation(round["refresh"].pin)
              rec == [round["refresh"] EXCEPT !.pc = "probe", !.label = gen]
  <2>1. /\ gen \in 0 .. MaxGeneration /\ gen <= generation
        /\ IF round["refresh"].pin = NoPin THEN gen = generation
           ELSE gen = round["refresh"].pin
    BY <1>0 DEF Generation, RoundType, NoPin, RoundOK
  <2>. HIDE DEF gen
  <2>2. rec \in RoundType
    BY <1>0, <2>1 DEF RoundType, RoundPcs
  <2>3. round' = [round EXCEPT !["refresh"] = rec]
    BY <1>0, <1>2 DEF gen, Rounds
  <2>4. /\ round'["refresh"].pc = "probe" /\ round'["refresh"].label = gen
        /\ round'["refresh"].pin = round["refresh"].pin
    BY <1>0, <2>3 DEF Rounds, RoundType
  <2>5. TaskGoesOn
    BY <2>1, <2>4 DEF TaskGoesOn
  <2>6. RoundOK("refresh")'
    BY <1>0, <2>1, <2>4 DEF RoundOK
  <2>. HIDE DEF rec
  <2>. QED BY <1>0, <1>2, <2>2, <2>3, <2>5, <2>6, TaskStep
<1>. QED BY <1>1, <1>2 DEF Look

\* The task retries, or gives up.
LEMMA OvertakenStep == ASSUME ServedSound, Overtaken PROVE ServedSound'
<1>. USE TimesAssumption
<1>0. /\ RoundOK("refresh") /\ round["refresh"].pc = "probed"
      /\ round["refresh"] \in RoundType /\ round \in [Rounds -> RoundType]
      /\ UNCHANGED <<generation, clock, cache, retained, ranked>>
  BY DEF Overtaken, ServedSound, Rounds, TypeOK, RoundType, RoundPcs
<1>1. CASE TaskEnds(Error)
  BY <1>0, <1>1, ErrorEnds
<1>2. CASE /\ round["refresh"].attempt + 1 < Attempts
           /\ round' = [round EXCEPT !["refresh"].pc = "look", !["refresh"].attempt = @ + 1]
           /\ UNCHANGED reader
  <2>. DEFINE n == round["refresh"].attempt + 1
              rec == [round["refresh"] EXCEPT !.pc = "look", !.attempt = n]
  <2>1. n \in 0 .. Attempts - 1
    BY <1>0, <1>2 DEF RoundType
  <2>3. round' = [round EXCEPT !["refresh"] = rec]
    BY <1>0, <1>2 DEF Rounds
  <2>. HIDE DEF n
  <2>2. rec \in RoundType
    BY <1>0, <2>1 DEF RoundType, RoundPcs
  <2>4. round'["refresh"].pc = "look" /\ round'["refresh"].pin = round["refresh"].pin
    BY <1>0, <2>3 DEF Rounds, RoundType
  <2>5. TaskGoesOn
    BY <2>4 DEF TaskGoesOn, Probing
  <2>6. RoundOK("refresh")'
    BY <1>0, <2>4 DEF RoundOK
  <2>. HIDE DEF rec
  <2>. QED BY <1>0, <1>2, <2>2, <2>3, <2>5, <2>6, TaskStep
<1>. QED BY <1>1, <1>2 DEF Overtaken

\* The generation agrees with the label, so the probe does.
LEMMA UnmovedStep == ASSUME ServedSound, Unmoved PROVE ServedSound'
<1>0. /\ RoundOK("refresh") /\ round["refresh"].pc = "probed"
      /\ Generation(round["refresh"].pin) = round["refresh"].label
      /\ round["refresh"] \in RoundType /\ round \in [Rounds -> RoundType]
      /\ generation \in Int
      /\ round' = [round EXCEPT !["refresh"].pc = "decided"]
      /\ UNCHANGED <<generation, clock, cache, retained, ranked, reader>>
  BY Numbers DEF Unmoved, ServedSound, Rounds, TypeOK, RoundType, RoundPcs
<1>. DEFINE rec == [round["refresh"] EXCEPT !.pc = "decided"]
<1>1. rec \in RoundType /\ round' = [round EXCEPT !["refresh"] = rec]
  BY <1>0 DEF RoundType, RoundPcs, Rounds
<1>2. /\ round'["refresh"].pc = "decided" /\ round'["refresh"].pin = round["refresh"].pin
      /\ round'["refresh"].label = round["refresh"].label
      /\ round'["refresh"].probed = round["refresh"].probed
      /\ round'["refresh"].ok = round["refresh"].ok
  BY <1>0, <1>1 DEF Rounds, RoundType
<1>3. round["refresh"].probed = round["refresh"].label
  BY <1>0 DEF RoundOK, Generation, RoundType
<1>4. TaskGoesOn
  BY <1>0, <1>2 DEF TaskGoesOn, Probing
<1>5. RoundOK("refresh")'
  BY <1>0, <1>2, <1>3 DEF RoundOK
<1>. HIDE DEF rec
<1>. QED BY <1>0, <1>1, <1>4, <1>5, TaskStep

\* The task publishes, falls back, or fails.
LEMMA SettleStep == ASSUME ServedSound, Settle PROVE ServedSound'
<1>. USE TimesAssumption
<1>0. /\ TypeOK /\ CacheOK /\ RoundOK("refresh") /\ round["refresh"].pc = "decided"
      /\ round["refresh"] \in RoundType /\ clock \in 0 .. MaxClock
      /\ generation \in 0 .. MaxGeneration
      /\ UNCHANGED <<generation, clock, retained, ranked>>
  BY DEF Settle, ServedSound, Rounds, TypeOK, RoundType, RoundPcs
<1>. DEFINE value == [gen |-> round["refresh"].label, probed |-> round["refresh"].probed,
                      at |-> clock, observed |-> TRUE]
<1>1. CASE round["refresh"].ok /\ cache' = value /\ TaskEnds(value)
  <2>1. round["refresh"].probed = round["refresh"].label
    BY <1>0 DEF RoundOK
  <2>2. /\ value \in Entries /\ value.gen = round["refresh"].label
        /\ value.probed = round["refresh"].label /\ value.at = clock
    BY <1>0, <2>1 DEF Entries, RoundType
  <2>3. /\ value.gen <= value.probed /\ value.probed <= generation
        /\ retained.gen >= value.probed
    BY <1>0, <1>1, <2>1, <2>2 DEF RoundOK, RoundType
  <2>4. ASSUME NEW r \in Readers, reader[r].pc = "join"
        PROVE  /\ IF Kind[r] = "ready" THEN value.probed = reader[r].pin
                  ELSE value.probed >= reader[r].since
               /\ value.at + Stale >= reader[r].now
    <3>1. /\ reader[r].pin = round["refresh"].pin
          /\ Kind[r] = "ready" <=> round["refresh"].pin # NoPin
          /\ reader[r].now <= clock
          /\ round["refresh"].pin = NoPin => round["refresh"].label >= reader[r].since
      BY <1>0, <2>4, Joined DEF Probing
    <3>2. reader[r].now \in Int
      BY <1>0, Numbers
    <3>3. value.at + Stale >= reader[r].now
      BY <1>0, <2>2, <3>1, <3>2
    <3>. QED BY <1>0, <2>2, <3>1, <3>3 DEF RoundOK
  <2>. HIDE DEF value
  <2>. QED BY <1>0, <1>1, <2>2, <2>3, <2>4, TaskEnded
<1>2. CASE /\ cache.gen = round["refresh"].label /\ Elapsed(clock, cache.at) <= Stale
           /\ TaskEnds(cache) /\ UNCHANGED cache
  BY <1>0, <1>2, CachedEnds
<1>3. CASE TaskEnds(Error) /\ UNCHANGED cache
  BY <1>0, <1>3, ErrorEnds
<1>. QED BY <1>1, <1>2, <1>3 DEF Settle

\* The first states.
LEMMA InitSound == Init => ServedSound
<1>. SUFFICES ASSUME Init PROVE ServedSound
  OBVIOUS
<1>. USE TimesAssumption
<1>1. /\ \A x \in Rounds : /\ round[x].pc \in {"idle", "label"} /\ round[x].pin = NoPin
      /\ round["startup"].pc = "label"
      /\ round \in [Rounds -> RoundType]
  <2>1. Rest \in RoundType /\ Rest.pc = "idle" /\ Rest.pin = NoPin
    BY DEF Rest, RoundType, RoundPcs, NoPin
  <2>2. [Rest EXCEPT !.pc = "label"] \in RoundType
    BY <2>1 DEF RoundType, RoundPcs
  <2>. QED BY <2>1, <2>2 DEF Init, Rounds, RoundType
<1>2. None \in Entries /\ None.gen = -1 /\ None.probed = -1 /\ ~ None.observed
  BY DEF None, Entries
<1>3. \A r \in Readers :
        /\ reader[r] \in ReaderType /\ reader[r].pc = "idle" /\ reader[r].pin = NoPin
        /\ reader[r].since = 0 /\ reader[r].now = 0
  <2>. DEFINE call == [pc |-> "idle", pin |-> NoPin, since |-> 0, now |-> 0, answer |-> None]
  <2>1. call \in ReaderType /\ call.pc = "idle" /\ call.pin = NoPin /\ call.since = 0 /\ call.now = 0
    BY <1>2 DEF ReaderType, ReaderPcs, NoPin
  <2>2. \A r \in Readers : reader[r] = call
    BY DEF Init
  <2>. HIDE DEF call
  <2>. QED BY <2>1, <2>2
<1>4. TypeOK
  <2>1. reader \in [Readers -> ReaderType]
    BY <1>3 DEF Init
  <2>. QED BY <1>1, <1>2, <2>1 DEF Init, TypeOK, RoundType, RoundPcs, ReaderType, ReaderPcs
<1>5. CacheOK
  BY <1>1, <1>2 DEF Init, CacheOK, Serving, Rounds
<1>6. \A x \in Rounds : RoundOK(x)
  BY <1>1 DEF Init, RoundOK, NoPin
<1>7. ASSUME NEW r \in Readers
      PROVE  ReaderOK(r) /\ ServedFromOwnGeneration(r) /\ ServedWithinStale(r)
  BY <1>3 DEF Init, ReaderOK, ServedFromOwnGeneration, ServedWithinStale, Served, NoPin
<1>. QED BY <1>4, <1>5, <1>6, <1>7 DEF ServedSound

\* Every step.
LEMMA StepSound == ServedSound /\ [Next]_vars => ServedSound'
<1>. SUFFICES ASSUME ServedSound, [Next]_vars PROVE ServedSound'
  OBVIOUS
<1>1. CASE Tick \/ Publish \/ RankTimer
  BY <1>1, TickStep, PublishStep, RankTimerStep
<1>2. CASE RoundStep
  <2>1. ASSUME NEW x \in Rounds, Label(x) \/ Probe(x) \/ \E ok \in BOOLEAN : Probed(x, ok)
        PROVE  ServedSound'
    BY <2>1, LabelStep, ProbeStep, ProbedStep
  <2>2. CASE RankEnd \/ Warm \/ Look \/ Overtaken \/ Unmoved \/ Settle
    BY <2>2, RankEndStep, WarmStep, LookStep, OvertakenStep, UnmovedStep, SettleStep
  <2>. QED BY <1>2, <2>1, <2>2 DEF RoundStep, Rounds
<1>3. ASSUME NEW r \in Readers, ReaderStep(r) \/ Abandon(r) PROVE ServedSound'
  BY <1>3, BeginStep, PeekStep, LockStep, ReportStep, AbandonStep DEF ReaderStep
<1>4. CASE UNCHANGED vars
  <2>1. TypeOK /\ TypeOK' /\ retained'.gen <= generation'
    BY <1>4 DEF ServedSound, TypeOK, CacheOK, vars
  <2>2. MovesOn /\ TaskGoesOn
    BY <1>4, <2>1, Numbers DEF MovesOn, TaskGoesOn, Serving, Rounds, vars
  <2>3. \A x \in Rounds : RoundOK(x)'
    BY <1>4, <2>1, <2>2, RoundKept DEF ServedSound, vars
  <2>. QED BY <1>4, <2>1, <2>2, <2>3, CallsKept, Together DEF vars
<1>. QED BY <1>1, <1>2, <1>3, <1>4 DEF Next

\* A health value is served only for the configuration it was probed from and
\* within the stale allowance, whatever the cache, the pins and the refresh
\* task went through: ProviderHealthCache::read and refresh_with_guard.
THEOREM ServedSoundHolds == Spec => []ServedSound
<1>. QED BY InitSound, StepSound, PTL DEF Spec

\* No report is ranked under a configuration it was not probed from:
\* seed_provider_rank_if_current, by the rank loop and at startup.
THEOREM RankedHolds == Spec => []RankedAsProbed
<1>1. Init => RankedAsProbed
  BY DEF Init, RankedAsProbed
<1>2. ServedSound /\ RankedAsProbed /\ [Next]_vars => RankedAsProbed'
  <2>. SUFFICES ASSUME ServedSound, RankedAsProbed, [Next]_vars PROVE RankedAsProbed'
    OBVIOUS
  <2>1. ASSUME NEW x \in {"startup", "rank"}, round[x].pc = "probed", SeedRank(x)
        PROVE  RankedAsProbed'
    <3>1. /\ RoundOK(x) /\ generation \in Int /\ round[x].label \in Int
          /\ round[x].probed \in Int
      BY Numbers DEF ServedSound, Rounds
    <3>2. CASE generation = round[x].label
      BY <2>1, <3>1, <3>2 DEF RoundOK, SeedRank, RankedAsProbed
    <3>3. CASE generation # round[x].label
      BY <2>1, <3>3 DEF SeedRank, RankedAsProbed
    <3>. QED BY <3>2, <3>3
  <2>2. CASE RankEnd
    BY <2>1, <2>2 DEF RankEnd, RankedAsProbed
  <2>3. CASE Warm
    BY <2>1, <2>3 DEF Warm
  <2>4. CASE UNCHANGED ranked
    BY <2>4 DEF RankedAsProbed
  <2>. QED BY <2>2, <2>3, <2>4 DEF Next, vars, Tick, Publish, RankTimer, RoundStep, Label, Probe,
           Probed, Look, Overtaken, Unmoved, Settle, ReaderStep, Begin, Peek, Lock, Report, Abandon
<1>. QED BY <1>1, <1>2, ServedSoundHolds, PTL DEF Spec

\* The report endpoint finds the report of the configuration whose health was
\* just read: get_provider_health_report after retain_report.
THEOREM ReportHolds == Spec => []ReportFollowsHealth
<1>1. ServedSound => ReportFollowsHealth
  <2>. SUFFICES ASSUME ServedSound, NEW r \in Readers, reader[r].pc = "unavailable",
                       ~ (generation > reader[r].since), reader[r].answer.observed
                PROVE  retained.gen = reader[r].since
    BY DEF ReportFollowsHealth
  <2>1. /\ retained.gen >= reader[r].since /\ retained.gen <= generation
        /\ generation \in Int /\ retained.gen \in Int /\ reader[r].since \in Int
    BY Numbers DEF ServedSound, ReaderOK, CacheOK
  <2>. QED BY <2>1
<1>. QED BY <1>1, ServedSoundHolds, PTL

\* A round that ends late does not replace the report of a newer generation, nor
\* that of a later start in its own (the end of RpcProviderHealthSource::probe_report).
THEOREM NewestRetained == Spec => NewestRoundRetained
<1>. DEFINE KeepsRound == retained' # retained =>
                      /\ retained'.completed = clock
                      /\ \/ retained'.gen > retained.gen
                         \/ retained'.gen = retained.gen /\ retained'.started >= retained.started
<1>1. ASSUME NEW x \in Rounds, NEW ok \in BOOLEAN, Probed(x, ok) PROVE KeepsRound
  BY <1>1 DEF Probed, Newer
<1>2. ASSUME UNCHANGED retained PROVE KeepsRound
  BY <1>2
<1>3. ASSUME Next PROVE KeepsRound
  <2>. HIDE DEF KeepsRound
  <2>. QED BY <1>1, <1>2, <1>3 DEF Next, vars, Tick, Publish, RankTimer, RoundStep, Label, Probe, Rounds,
     RankEnd, Warm, Look, Overtaken, Unmoved, Settle, ReaderStep, Begin, Peek, Lock, Report, Abandon
<1>. QED BY <1>3, PTL DEF Spec, NewestRoundRetained

-----------------------------------------------------------------------------
(* DispatchPlan: strategies. *)

\* The sets of a finite family of finite sets have finitely many elements.
LEMMA FamilyFinite ==
  ASSUME NEW D, IsFiniteSet(D), NEW f, DOMAIN f = D, \A x \in D : IsFiniteSet(f[x])
  PROVE  IsFiniteSet(UNION {f[x] : x \in D})
<1>. DEFINE T == {f[x] : x \in D}
            g == [x \in D |-> f[x]]
<1>1. g \in [D -> T] /\ \A t \in T : \E x \in D : g[x] = t
  OBVIOUS
<1>2. \A t \in T : IsFiniteSet(t)
  OBVIOUS
<1>. HIDE DEF T, g
<1>3. IsFiniteSet(T)
  BY <1>1, FS_Surjection DEF Surjection
<1>4. IsFiniteSet(UNION T)
  BY <1>2, <1>3, FS_UNION
<1>. QED BY <1>4 DEF T

\* A category's slots can be counted.
LEMMA SlotsFinite ==
  ASSUME NEW reqs, IsRequirementList(reqs), NEW c
  PROVE  IsFiniteSet(Slots(reqs, c)) /\ Need(reqs, c) \in Nat
<1>. DEFINE D == {j \in DOMAIN reqs : c \in DOMAIN reqs[j]}
            f == [i \in D |-> {i} \X (1 .. reqs[i][c])]
<1>1. IsFiniteSet(D)
  <2>1. DOMAIN reqs = 1 .. Len(reqs) /\ Len(reqs) \in Nat
    BY DEF IsRequirementList
  <2>2. IsFiniteSet(DOMAIN reqs)
    BY <2>1, FS_Interval
  <2>. QED BY <2>2, FS_Subset
<1>2. ASSUME NEW i \in D PROVE IsFiniteSet(f[i])
  <2>1. reqs[i][c] \in Int
    BY DEF IsRequirementList, MaxQuorum
  <2>2. IsFiniteSet(1 .. reqs[i][c])
    BY <2>1, FS_Interval
  <2>3. IsFiniteSet({i} \X (1 .. reqs[i][c]))
    BY <2>2, FS_Singleton, FS_Product
  <2>. QED BY <2>3
<1>3. Slots(reqs, c) = UNION {f[i] : i \in D}
  BY DEF Slots
<1>4. DOMAIN f = D
  OBVIOUS
<1>. HIDE DEF D, f
<1>5. IsFiniteSet(Slots(reqs, c))
  BY <1>1, <1>2, <1>3, <1>4, FamilyFinite
<1>. QED BY <1>5, FS_CardinalityType DEF Need

\* So can the categories.
LEMMA CategoriesFinite == IsFiniteSet(Range(Categories))
<1>1. DOMAIN Categories = 1 .. Len(Categories) /\ Len(Categories) \in Nat
  BY ProvidersAssumption
<1>2. IsFiniteSet(DOMAIN Categories)
  BY <1>1, FS_Interval
<1>. DEFINE g == [i \in DOMAIN Categories |-> Categories[i]]
<1>3. g \in [DOMAIN Categories -> Range(Categories)]
      /\ \A t \in Range(Categories) : \E x \in DOMAIN Categories : g[x] = t
  BY DEF Range
<1>. QED BY <1>2, <1>3, FS_Surjection DEF Surjection

\* And with them all the slots of a policy.
LEMMA AllSlotsFinite ==
  ASSUME NEW reqs, IsRequirementList(reqs)
  PROVE  IsFiniteSet(CategorySlots(reqs)) /\ Cardinality(CategorySlots(reqs)) \in Nat
<1>. DEFINE D == Range(Categories)
            f == [c \in D |-> {c} \X Slots(reqs, c)]
<1>1. IsFiniteSet(D)
  BY CategoriesFinite
<1>2. ASSUME NEW c \in D PROVE IsFiniteSet(f[c])
  <2>1. IsFiniteSet({c} \X Slots(reqs, c))
    BY SlotsFinite, FS_Singleton, FS_Product
  <2>. QED BY <2>1
<1>3. CategorySlots(reqs) = UNION {f[i] : i \in D}
  BY DEF CategorySlots
<1>4. DOMAIN f = D
  OBVIOUS
<1>. HIDE DEF D, f
<1>5. IsFiniteSet(CategorySlots(reqs))
  BY <1>1, <1>2, <1>3, <1>4, FamilyFinite
<1>. QED BY <1>5, FS_CardinalityType

\* A requirement is among the slots of its list.
LEMMA NeedAtLeast ==
  ASSUME NEW reqs, IsRequirementList(reqs), NEW i \in DOMAIN reqs, NEW c \in DOMAIN reqs[i],
         reqs[i][c] \in Nat
  PROVE  reqs[i][c] <= Need(reqs, c)
<1>. DEFINE n == reqs[i][c]
            S == {i} \X (1 .. n)
<1>1. S \subseteq Slots(reqs, c)
  BY DEF Slots
<1>2. IsFiniteSet(1 .. n) /\ Cardinality(1 .. n) = n
  BY FS_Interval
<1>3. IsFiniteSet({i}) /\ Cardinality({i}) = 1
  BY FS_Singleton
<1>. HIDE DEF n
<1>4. Cardinality(S) = 1 * n
  BY <1>2, <1>3, FS_Product, ZenonT(30)
<1>. HIDE DEF S
<1>5. IsFiniteSet(Slots(reqs, c)) /\ Need(reqs, c) \in Nat
  BY SlotsFinite
<1>6. Cardinality(S) <= Need(reqs, c)
  BY <1>1, <1>5, FS_Subset DEF Need
<1>7. n \in Nat
  BY DEF n
<1>8. n <= Need(reqs, c)
  BY <1>4, <1>5, <1>6, <1>7
<1>. QED BY <1>8 DEF n

\* The voters of a pool.
VotersOK == voters \in [Providers -> [category : Range(Categories), entity : Entities]]

\* A set of providers has finitely many entities, and a larger one no fewer.
LEMMA EntitiesGrow ==
  ASSUME NEW S \in SUBSET Providers, NEW T \in SUBSET Providers, S \subseteq T
  PROVE  /\ DOMAIN VoterEntities(S) = Range(Categories)
         /\ \A c \in Range(Categories) :
              VoterEntities(S)[c] = {voters[p].entity : p \in {q \in S : voters[q].category = c}}
         /\ \A c \in Range(Categories) : VoterEntities(S)[c] \subseteq VoterEntities(T)[c]
         /\ Pool(VoterEntities(S)) \subseteq Pool(VoterEntities(T))
         /\ IsFiniteSet(Pool(VoterEntities(T)))
         /\ Cardinality(Pool(VoterEntities(S))) \in Nat /\ Cardinality(Pool(VoterEntities(T))) \in Nat
         /\ Cardinality(Pool(VoterEntities(S))) <= Cardinality(Pool(VoterEntities(T)))
<1>1. \A X \in SUBSET Providers :
        /\ DOMAIN VoterEntities(X) = Range(Categories)
        /\ \A c \in Range(Categories) :
             VoterEntities(X)[c] = {voters[p].entity : p \in {q \in X : voters[q].category = c}}
  BY DEF VoterEntities
<1>2. \A c \in Range(Categories) : VoterEntities(S)[c] \subseteq VoterEntities(T)[c]
  BY <1>1
<1>3. Pool(VoterEntities(S)) \subseteq Pool(VoterEntities(T))
  BY <1>1, <1>2 DEF Pool
<1>4. IsFiniteSet(Pool(VoterEntities(T)))
  <2>. DEFINE E == {voters[p].entity : p \in Providers}
              g == [p \in Providers |-> voters[p].entity]
  <2>1. g \in [Providers -> E] /\ \A t \in E : \E p \in Providers : g[p] = t
    OBVIOUS
  <2>2. IsFiniteSet(E)
    BY <2>1, ProvidersAssumption, FS_Surjection DEF Surjection
  <2>3. Pool(VoterEntities(T)) \subseteq E
    BY <1>1 DEF Pool
  <2>. HIDE DEF E
  <2>. QED BY <2>2, <2>3, FS_Subset
<1>5. /\ Cardinality(Pool(VoterEntities(S))) \in Nat /\ Cardinality(Pool(VoterEntities(T))) \in Nat
      /\ Cardinality(Pool(VoterEntities(S))) <= Cardinality(Pool(VoterEntities(T)))
  BY <1>3, <1>4, FS_Subset, FS_CardinalityType
<1>. QED BY <1>1, <1>2, <1>3, <1>4, <1>5

\* Whatever fits a set of voters fits a larger one.
LEMMA RequirementsGrow ==
  ASSUME NEW S \in SUBSET Providers, NEW T \in SUBSET Providers, S \subseteq T,
         NEW reqs, IsRequirementList(reqs), CheckRequirementSet(VoterEntities(S), reqs)
  PROVE  CheckRequirementSet(VoterEntities(T), reqs)
<1>. DEFINE a == VoterEntities(S)
            b == VoterEntities(T)
            need == [c \in Range(Categories) |-> Need(reqs, c)]
<1>1. /\ DOMAIN a = Range(Categories) /\ DOMAIN b = Range(Categories)
      /\ \A c \in Range(Categories) : a[c] \subseteq b[c]
      /\ Pool(a) \subseteq Pool(b)
      /\ Cardinality(Pool(a)) \in Nat /\ Cardinality(Pool(b)) \in Nat
      /\ Cardinality(Pool(a)) <= Cardinality(Pool(b))
  BY EntitiesGrow
<1>2. Need(reqs, AnyCategory) \in Nat /\ Cardinality(CategorySlots(reqs)) \in Nat
  BY SlotsFinite, AllSlotsFinite
<1>. HIDE DEF a, b, need
<1>3. /\ \A i \in DOMAIN reqs : \A c \in DOMAIN reqs[i] : reqs[i][c] # MaxQuorum
      /\ Cardinality(Pool(a)) >= Need(reqs, AnyCategory)
      /\ Cardinality(Pool(a)) >= Cardinality(CategorySlots(reqs)) /\ Fits(a, need)
  BY DEF CheckRequirementSet, a, need
<1>4. Fits(b, need)
  BY <1>1, <1>3 DEF Fits
<1>5. Cardinality(Pool(b)) >= Need(reqs, AnyCategory)
      /\ Cardinality(Pool(b)) >= Cardinality(CategorySlots(reqs))
  BY <1>1, <1>2, <1>3
<1>. QED BY <1>3, <1>4, <1>5 DEF CheckRequirementSet, b, need

\* The lists one of which a quorum has to meet.
Lists(s) ==
  IF s.oneOf = <<>> THEN {s.allOf} ELSE {Append(s.allOf, s.oneOf[i]) : i \in DOMAIN s.oneOf}

IsStrategy(s) == IsRequirementList(s.allOf) /\ IsRequirementList(s.oneOf)

\* A strategy is one of its lists, which all begin with what all_of asks.
LEMMA ListsSound ==
  ASSUME NEW s, IsStrategy(s)
  PROVE  /\ \A pool : IsSatisfiable(pool, s)
                          <=> \E reqs \in Lists(s) : CheckRequirementSet(pool, reqs)
         /\ \A reqs \in Lists(s) :
              /\ IsRequirementList(reqs) /\ DOMAIN s.allOf \subseteq DOMAIN reqs
              /\ \A i \in DOMAIN s.allOf : reqs[i] = s.allOf[i]
<1>1. /\ s.allOf \in Seq(Range(s.allOf)) /\ s.oneOf \in Seq(Range(s.oneOf))
      /\ DOMAIN s.oneOf = 1 .. Len(s.oneOf) /\ DOMAIN s.allOf = 1 .. Len(s.allOf)
      /\ Len(s.allOf) \in Nat
  BY DEF IsStrategy, IsRequirementList
<1>2. ASSUME NEW pool
      PROVE  IsSatisfiable(pool, s) <=> \E reqs \in Lists(s) : CheckRequirementSet(pool, reqs)
  <2>1. CASE s.oneOf = <<>>
    <3>1. DOMAIN s.oneOf = {}
      BY <2>1
    <3>. QED BY <2>1, <3>1 DEF IsSatisfiable, Lists
  <2>2. CASE s.oneOf # <<>>
    BY <2>2 DEF IsSatisfiable, Lists
  <2>. QED BY <2>1, <2>2
<1>3. ASSUME NEW i \in DOMAIN s.oneOf
      PROVE  /\ IsRequirementList(Append(s.allOf, s.oneOf[i]))
             /\ DOMAIN s.allOf \subseteq DOMAIN Append(s.allOf, s.oneOf[i])
             /\ \A k \in DOMAIN s.allOf : Append(s.allOf, s.oneOf[i])[k] = s.allOf[k]
  <2>. DEFINE x == s.oneOf[i]
              reqs == Append(s.allOf, x)
              V == Range(s.allOf) \cup {x}
  <2>1. s.allOf \in Seq(V) /\ x \in V
    BY <1>1 DEF Range
  <2>2. /\ reqs \in Seq(V) /\ Len(reqs) = Len(s.allOf) + 1
        /\ \A k \in 1 .. Len(s.allOf) : reqs[k] = s.allOf[k]
        /\ reqs[Len(s.allOf) + 1] = x
    <3>. HIDE DEF x, V
    <3>. QED BY <2>1, AppendProperties
  <2>. HIDE DEF reqs, V
  <2>3. DOMAIN reqs = 1 .. Len(s.allOf) + 1
    BY <2>2
  <2>4. \A k \in DOMAIN reqs : k \in DOMAIN s.allOf \/ k = Len(s.allOf) + 1
    BY <1>1, <2>3
  <2>5. reqs \in Seq(Range(reqs))
    <3>1. reqs \in [1 .. Len(s.allOf) + 1 -> Range(reqs)]
      BY <2>2, <2>3 DEF Range
    <3>. QED BY <1>1, <3>1
  <2>6. IsRequirementList(reqs)
    BY <1>1, <2>2, <2>4, <2>5 DEF IsStrategy, IsRequirementList
  <2>. QED BY <1>1, <2>2, <2>3, <2>6 DEF reqs
<1>. QED BY <1>2, <1>3 DEF Lists, IsStrategy

\* Another voter never unmakes a quorum.
LEMMA QuorumsGrow ==
  ASSUME NEW s, IsStrategy(s), NEW S \in SUBSET Providers, NEW T \in SUBSET Providers,
         S \subseteq T, IsMetBy(S, s)
  PROVE  IsMetBy(T, s)
<1>1. PICK reqs \in Lists(s) : CheckRequirementSet(VoterEntities(S), reqs)
  BY ListsSound DEF IsMetBy
<1>2. IsRequirementList(reqs)
  BY ListsSound
<1>3. CheckRequirementSet(VoterEntities(T), reqs)
  BY <1>1, <1>2, RequirementsGrow
<1>. QED BY <1>3, ListsSound DEF IsMetBy

-----------------------------------------------------------------------------
(* DispatchPlan: loading and planning. *)

\* What is loaded is the file's strategy with every "max" resolved, none of them
\* too small, and it validates.
LoadedOK ==
  /\ strategy.allOf = [i \in DOMAIN raw.allOf |-> Resolved(raw.allOf[i])]
  /\ strategy.oneOf = [i \in DOMAIN raw.oneOf |-> Resolved(raw.oneOf[i])]
  /\ \A i \in DOMAIN raw.allOf : FloorKept(raw.allOf[i])
  /\ Valid(strategy)

PlanInv == VotersOK /\ raw \in Strategies /\ (Loaded => LoadedOK)

\* A resolved list is a list of requirements, without "max".
LEMMA ResolvedList ==
  ASSUME NEW list, IsRequirementList(list)
  PROVE  IsRequirementList([i \in DOMAIN list |-> Resolved(list[i])])
<1>. DEFINE r == [i \in DOMAIN list |-> Resolved(list[i])]
<1>1. DOMAIN list = 1 .. Len(list) /\ Len(list) \in Nat
  BY DEF IsRequirementList
<1>2. r \in Seq(Range(r)) /\ DOMAIN r = DOMAIN list
  <2>1. r \in [1 .. Len(list) -> Range(r)]
    BY <1>1 DEF Range
  <2>. QED BY <1>1, <2>1
<1>3. ASSUME NEW i \in DOMAIN list, NEW c \in DOMAIN list[i]
      PROVE  Resolved(list[i])[c] \in Nat
  <2>1. Providers \in SUBSET Providers
    OBVIOUS
  <2>2. Cardinality(Pool(VoterEntities(Providers))) \in Nat
    BY <2>1, EntitiesGrow
  <2>3. ASSUME c # AnyCategory PROVE Cardinality(VoterEntities(Providers)[c]) \in Nat
    <3>1. c \in Range(Categories)
      BY <2>3 DEF IsRequirementList
    <3>2. IsFiniteSet(Pool(VoterEntities(Providers)))
          /\ c \in DOMAIN VoterEntities(Providers)
      BY <2>1, <3>1, EntitiesGrow
    <3>3. VoterEntities(Providers)[c] \subseteq Pool(VoterEntities(Providers))
      BY <3>2 DEF Pool
    <3>. QED BY <3>2, <3>3, FS_Subset, FS_CardinalityType
  <2>4. list[i][c] # MaxQuorum => list[i][c] \in Nat
    BY DEF IsRequirementList
  <2>. QED BY <2>2, <2>3, <2>4 DEF Resolved
<1>4. \A i \in DOMAIN list : DOMAIN r[i] = DOMAIN list[i]
  BY DEF Resolved
<1>. QED BY <1>2, <1>3, <1>4 DEF IsRequirementList

\* A strategy that was loaded was validated against the whole pool.
LEMMA LoadedStrategy ==
  ASSUME PlanInv, Loaded
  PROVE  IsStrategy(strategy) /\ IsMetBy(Providers, strategy) /\ ~ IsMetBy({}, strategy)
<1>1. IsRequirementList(raw.allOf) /\ IsRequirementList(raw.oneOf)
  BY ProvidersAssumption DEF PlanInv
<1>2. IsStrategy(strategy)
  BY <1>1, ResolvedList DEF PlanInv, LoadedOK, IsStrategy
<1>. QED BY <1>2 DEF PlanInv, LoadedOK, Valid

\* Loading resolves what was configured; planning leaves it alone.
LEMMA PlanStep == PlanInv /\ [PlanNext]_planVars => PlanInv'
<1>. SUFFICES ASSUME PlanInv, [PlanNext]_planVars PROVE PlanInv'
  OBVIOUS
<1>1. CASE Load
  <2>1. UNCHANGED <<voters, raw>> /\ VotersOK' /\ raw' \in Strategies
    BY <1>1 DEF Load, PlanInv, VotersOK
  <2>2. /\ strategy'.allOf = [i \in DOMAIN raw.allOf |-> Resolved(raw.allOf[i])]
        /\ strategy'.oneOf = [i \in DOMAIN raw.oneOf |-> Resolved(raw.oneOf[i])]
    BY <1>1 DEF Load
  <2>3. ASSUME Loaded'
        PROVE  (\A i \in DOMAIN raw.allOf : FloorKept(raw.allOf[i])) /\ Valid(strategy')
    BY <1>1, <2>3 DEF Load, Loaded, Range
  <2>4. /\ \A req : Resolved(req)' = Resolved(req) /\ FloorKept(req)' = FloorKept(req)
        /\ \A S, s : IsMetBy(S, s)' = IsMetBy(S, s)
    BY <2>1 DEF Resolved, FloorKept, IsMetBy, VoterEntities
  <2>. QED BY <2>1, <2>2, <2>3, <2>4 DEF PlanInv, LoadedOK, Valid
<1>2. CASE Plan \/ UNCHANGED planVars
  <2>1. UNCHANGED <<voters, raw, strategy>> /\ (Loaded' => Loaded)
    BY <1>2 DEF Plan, planVars, Loaded
  <2>2. VotersOK' = VotersOK
    BY <2>1 DEF VotersOK
  <2>3. /\ \A req : Resolved(req)' = Resolved(req) /\ FloorKept(req)' = FloorKept(req)
        /\ \A S, s : IsMetBy(S, s)' = IsMetBy(S, s)
    BY <2>1 DEF Resolved, FloorKept, IsMetBy, VoterEntities
  <2>4. LoadedOK => LoadedOK'
    BY <2>1, <2>3 DEF LoadedOK, Valid
  <2>. QED BY <2>1, <2>2, <2>4 DEF PlanInv
<1>. QED BY <1>1, <1>2 DEF PlanNext

\* Whatever is configured, a loaded strategy is the resolved one and was found
\* satisfiable (load and validate of the provider configuration).
THEOREM PlanInvHolds == PlanSpec => []PlanInv
<1>1. PlanInit => PlanInv
  BY DEF PlanInit, PlanInv, VotersOK, Loaded
<1>. QED BY <1>1, PlanStep, PTL DEF PlanSpec

\* Whoever meets a list has heard as many entities as it asks for in a category.
LEMMA HeardEnough ==
  ASSUME NEW S \in SUBSET Providers, NEW reqs, IsRequirementList(reqs),
         CheckRequirementSet(VoterEntities(S), reqs), NEW c \in Range(Categories)
  PROVE  Cardinality(VoterEntities(S)[c]) >= Need(reqs, c)
<1>. DEFINE a == VoterEntities(S)
<1>1. DOMAIN a = Range(Categories) /\ IsFiniteSet(Pool(a))
  BY EntitiesGrow
<1>. HIDE DEF a
<1>2. PICK given \in [DOMAIN a -> SUBSET Pool(a)] :
        given[c] \subseteq a[c] /\ Cardinality(given[c]) = Need(reqs, c)
  BY <1>1 DEF CheckRequirementSet, Fits, a
<1>3. a[c] \subseteq Pool(a)
  BY <1>1 DEF Pool
<1>4. IsFiniteSet(a[c])
  BY <1>1, <1>3, FS_Subset
<1>5. Cardinality(given[c]) <= Cardinality(a[c]) /\ Cardinality(a[c]) \in Nat
      /\ Cardinality(given[c]) \in Nat
  BY <1>2, <1>4, FS_Subset, FS_CardinalityType
<1>. QED BY <1>2, <1>5 DEF a

\* "max" of a loaded strategy is everybody.
LEMMA MaxIsAll == ASSUME PlanInv PROVE MaxMeansAll
<1>. DEFINE heard(c, T) == IF c = AnyCategory THEN Pool(VoterEntities(T)) ELSE VoterEntities(T)[c]
<1>. SUFFICES ASSUME Loaded, NEW i \in DOMAIN raw.allOf, NEW c \in DOMAIN raw.allOf[i],
                     raw.allOf[i][c] = MaxQuorum,
                     NEW S \in SUBSET Providers, IsMetBy(S, strategy)
              PROVE  /\ heard(c, S) = heard(c, Providers)
                     /\ Cardinality(heard(c, S)) >= MinimumMaxEntities
  BY DEF MaxMeansAll
<1>1. IsStrategy(strategy)
  BY LoadedStrategy
<1>2. /\ i \in DOMAIN strategy.allOf /\ strategy.allOf[i] = Resolved(raw.allOf[i])
      /\ FloorKept(raw.allOf[i])
  BY DEF PlanInv, LoadedOK
<1>3. c \in Range(Categories) \/ c = AnyCategory
  BY ProvidersAssumption DEF PlanInv, IsRequirementList
<1>. DEFINE n == strategy.allOf[i][c]
<1>4. c \in DOMAIN strategy.allOf[i] /\ n = Cardinality(heard(c, Providers)) /\ n >= MinimumMaxEntities
  BY <1>2 DEF Resolved, FloorKept
<1>5. PICK reqs \in Lists(strategy) : CheckRequirementSet(VoterEntities(S), reqs)
  BY <1>1, ListsSound DEF IsMetBy
<1>6. IsRequirementList(reqs) /\ i \in DOMAIN reqs /\ reqs[i] = strategy.allOf[i]
  BY <1>1, <1>2, ListsSound
<1>7. /\ heard(c, S) \subseteq heard(c, Providers) /\ IsFiniteSet(heard(c, Providers))
      /\ Cardinality(heard(c, S)) \in Nat /\ Cardinality(heard(c, Providers)) \in Nat
  <2>1. /\ DOMAIN VoterEntities(Providers) = Range(Categories)
        /\ \A d \in Range(Categories) : VoterEntities(S)[d] \subseteq VoterEntities(Providers)[d]
        /\ Pool(VoterEntities(S)) \subseteq Pool(VoterEntities(Providers))
        /\ IsFiniteSet(Pool(VoterEntities(Providers)))
    BY EntitiesGrow
  <2>2. \A d \in Range(Categories) : VoterEntities(Providers)[d] \subseteq Pool(VoterEntities(Providers))
    BY <2>1 DEF Pool
  <2>3. heard(c, S) \subseteq heard(c, Providers) /\ heard(c, Providers) \subseteq Pool(VoterEntities(Providers))
    BY <1>3, <2>1, <2>2
  <2>. HIDE DEF heard
  <2>4. IsFiniteSet(heard(c, Providers))
    BY <2>1, <2>3, FS_Subset
  <2>. QED BY <2>3, <2>4, FS_Subset, FS_CardinalityType
<1>8. n \in Nat /\ n <= Need(reqs, c) /\ Need(reqs, c) \in Nat
  <2>1. n \in Nat
    BY <1>4, <1>7
  <2>. QED BY <1>4, <1>6, <2>1, NeedAtLeast, SlotsFinite
<1>9. Cardinality(heard(c, S)) >= Need(reqs, c)
  <2>1. CASE c = AnyCategory
    BY <1>5, <2>1 DEF CheckRequirementSet
  <2>2. CASE c # AnyCategory
    BY <1>3, <1>5, <1>6, <2>2, HeardEnough
  <2>. QED BY <2>1, <2>2
<1>. HIDE DEF heard, n
<1>10. Cardinality(heard(c, S)) >= n
  BY <1>7, <1>8, <1>9
<1>11. heard(c, S) = heard(c, Providers)
  BY <1>4, <1>7, <1>10, FS_Subset
<1>. QED BY <1>4, <1>11, <1>7, <1>8

\* The sets that meet a loaded strategy are what ExactQuorum assumes of them,
\* for every pool and every strategy, and "max" is everybody.
THEOREM QuorumsAreSound == PlanSpec => []QuorumsSound
<1>1. PlanInv => QuorumsSound
  <2>. SUFFICES ASSUME PlanInv PROVE QuorumsSound
    OBVIOUS
  <2>1. ASSUME Loaded, NEW S \in SUBSET Providers, NEW T \in SUBSET Providers,
               S \subseteq T, IsMetBy(S, strategy)
        PROVE  IsMetBy(T, strategy)
    BY <2>1, LoadedStrategy, QuorumsGrow
  <2>. QED BY <2>1, LoadedStrategy, MaxIsAll DEF QuorumsSound
<1>. QED BY <1>1, PlanInvHolds, PTL

\* Of the voters of one entity that meet a list, one meets it alone: the list has
\* room for one entity, in one category at most.
LEMMA OneVoterServes ==
  ASSUME VotersOK, NEW e, NEW reqs, IsRequirementList(reqs),
         NEW S, S = {p \in Providers : voters[p].entity = e}, S # {},
         CheckRequirementSet(VoterEntities(S), reqs)
  PROVE  \E p \in S : CheckRequirementSet(VoterEntities({p}), reqs)
<1>. DEFINE a == VoterEntities(S)
            need == [c \in Range(Categories) |-> Need(reqs, c)]
<1>1. /\ DOMAIN a = Range(Categories)
      /\ \A c \in Range(Categories) :
           a[c] = {voters[p].entity : p \in {q \in S : voters[q].category = c}}
  BY EntitiesGrow
<1>2. ASSUME NEW p \in S
      PROVE  /\ DOMAIN VoterEntities({p}) = Range(Categories)
             /\ VoterEntities({p})[voters[p].category] = {e}
             /\ Pool(VoterEntities({p})) = {e}
  <2>. DEFINE b == VoterEntities({p})
              k == voters[p].category
  <2>1. {p} \in SUBSET Providers /\ k \in Range(Categories) /\ voters[p].entity = e
    BY DEF VotersOK
  <2>2. /\ DOMAIN b = Range(Categories)
        /\ \A c \in Range(Categories) :
             b[c] = {voters[r].entity : r \in {q \in {p} : voters[q].category = c}}
    BY <2>1, EntitiesGrow
  <2>3. b[k] = {e} /\ \A c \in Range(Categories) : c # k => b[c] = {}
    <3>1. {q \in {p} : voters[q].category = k} = {p}
      OBVIOUS
    <3>2. b[k] = {voters[r].entity : r \in {p}}
      BY <2>1, <2>2, <3>1
    <3>3. ASSUME NEW c \in Range(Categories), c # k PROVE b[c] = {}
      <4>1. {q \in {p} : voters[q].category = c} = {}
        BY <3>3
      <4>2. b[c] = {voters[r].entity : r \in {}}
        BY <2>2, <4>1
      <4>. QED BY <4>2
    <3>. HIDE DEF b, k
    <3>. QED BY <2>1, <3>2, <3>3
  <2>. HIDE DEF b, k
  <2>4. Pool(b) = {e}
    <3>1. \A x : x \in Pool(b) <=> \E c \in Range(Categories) : x \in b[c]
      BY <2>2 DEF Pool
    <3>2. e \in Pool(b)
      BY <2>1, <2>3, <3>1
    <3>3. ASSUME NEW x \in Pool(b) PROVE x = e
      <4>1. PICK c \in Range(Categories) : x \in b[c]
        BY <3>1
      <4>. QED BY <2>3, <4>1
    <3>. QED BY <3>2, <3>3
  <2>. QED BY <2>2, <2>3, <2>4 DEF b, k
<1>3. \A c \in Range(Categories) : a[c] \subseteq {e}
  BY <1>1
<1>4. Pool(a) = {e}
  <2>1. PICK p \in S : TRUE
    OBVIOUS
  <2>2. p \in Providers /\ voters[p].category \in Range(Categories) /\ voters[p].entity = e
    BY DEF VotersOK
  <2>3. e \in a[voters[p].category]
    BY <1>1, <2>2
  <2>4. \A x : x \in Pool(a) <=> \E c \in Range(Categories) : x \in a[c]
    BY <1>1 DEF Pool
  <2>. HIDE DEF a
  <2>. QED BY <1>3, <2>2, <2>3, <2>4
<1>. HIDE DEF a, need
<1>5. /\ \A i \in DOMAIN reqs : \A c \in DOMAIN reqs[i] : reqs[i][c] # MaxQuorum
      /\ Cardinality(Pool(a)) >= Need(reqs, AnyCategory)
      /\ Cardinality(Pool(a)) >= Cardinality(CategorySlots(reqs)) /\ Fits(a, need)
  BY DEF CheckRequirementSet, a, need
<1>6. PICK given \in [Range(Categories) -> SUBSET {e}] :
        \A c \in Range(Categories) :
          /\ given[c] \subseteq a[c] /\ Cardinality(given[c]) = need[c]
          /\ \A d \in Range(Categories) : c # d => given[c] \cap given[d] = {}
  BY <1>1, <1>4, <1>5 DEF Fits
<1>7. PICK p \in S : \A c \in Range(Categories) : c # voters[p].category => given[c] = {}
  <2>1. CASE \A c \in Range(Categories) : given[c] = {}
    BY <2>1
  <2>2. ASSUME NEW c \in Range(Categories), given[c] # {}
        PROVE  \E p \in S : \A d \in Range(Categories) : d # voters[p].category => given[d] = {}
    <3>1. e \in given[c] /\ e \in a[c]
      BY <1>6, <2>2
    <3>2. PICK p \in S : voters[p].category = c
      BY <1>1, <3>1
    <3>3. \A d \in Range(Categories) : c # d => given[d] = {}
      BY <1>6, <3>1
    <3>. QED BY <3>2, <3>3
  <2>. QED BY <2>1, <2>2
<1>. DEFINE b == VoterEntities({p})
<1>8. /\ DOMAIN b = Range(Categories) /\ b[voters[p].category] = {e} /\ Pool(b) = {e}
  BY <1>2
<1>. HIDE DEF b
<1>9. \A c \in Range(Categories) : given[c] \subseteq b[c]
  BY <1>6, <1>7, <1>8
<1>10. Fits(b, need)
  BY <1>6, <1>8, <1>9 DEF Fits
<1>11. CheckRequirementSet(b, reqs)
  BY <1>4, <1>5, <1>8, <1>10 DEF CheckRequirementSet, need
<1>. QED BY <1>11 DEF b

\* Looking at one voter at a time finds every entity that could meet a loaded
\* strategy alone, through whatever categories (single_entity_trust_root).
THEOREM TrustRootIsExact == PlanSpec => []TrustRootExact
<1>1. ASSUME PlanInv, Loaded PROVE TrustRootExact
  <2>1. IsStrategy(strategy) /\ ~ IsMetBy({}, strategy) /\ VotersOK
    BY <1>1, LoadedStrategy DEF PlanInv
  <2>2. ASSUME NEW p \in Providers, IsMetBy({p}, strategy)
        PROVE  \E e \in Entities : IsMetBy({q \in Providers : voters[q].entity = e}, strategy)
    <3>. DEFINE S == {q \in Providers : voters[q].entity = voters[p].entity}
    <3>1. voters[p].entity \in Entities /\ {p} \in SUBSET Providers /\ S \in SUBSET Providers /\ {p} \subseteq S
      BY <2>1 DEF VotersOK
    <3>. HIDE DEF S
    <3>2. IsMetBy(S, strategy)
      BY <2>1, <2>2, <3>1, QuorumsGrow
    <3>. QED BY <3>1, <3>2 DEF S
  <2>3. ASSUME NEW e \in Entities, IsMetBy({q \in Providers : voters[q].entity = e}, strategy)
        PROVE  \E p \in Providers : IsMetBy({p}, strategy)
    <3>. DEFINE S == {q \in Providers : voters[q].entity = e}
    <3>1. S # {} /\ S \subseteq Providers
      BY <2>1, <2>3
    <3>2. PICK reqs \in Lists(strategy) : CheckRequirementSet(VoterEntities(S), reqs)
      BY <2>1, <2>3, ListsSound DEF IsMetBy
    <3>3. IsRequirementList(reqs)
      BY <2>1, ListsSound
    <3>4. PICK p \in S : CheckRequirementSet(VoterEntities({p}), reqs)
      BY <2>1, <3>1, <3>2, <3>3, OneVoterServes
    <3>5. IsMetBy({p}, strategy)
      BY <2>1, <3>4, ListsSound DEF IsMetBy
    <3>. QED BY <3>1, <3>4, <3>5
  <2>. QED BY <2>2, <2>3 DEF TrustRootExact
<1>2. PlanInv => TrustRootExact
  BY <1>1 DEF TrustRootExact
<1>. QED BY <1>2, PlanInvHolds, PTL

-----------------------------------------------------------------------------
(* DispatchPlan: the sorts. *)

\* A set of places has a first one.
LEMMA FirstExists ==
  ASSUME NEW T \in SUBSET Nat, T # {}
  PROVE  Min(T) \in T /\ \A y \in T : Min(T) <= y
<1>1. \E x \in T : \A y \in T : ~ (<<y, x>> \in OpToRel(<, Nat))
  BY NatLessThanWellFounded, WFMin, Zenon
<1>2. PICK x \in T : \A y \in T : ~ (<<y, x>> \in OpToRel(<, Nat))
  BY <1>1
<1>3. ASSUME NEW y \in T PROVE x <= y
  <2>1. x \in Nat /\ y \in Nat /\ <<y, x>> \in Nat \X Nat
    OBVIOUS
  <2>2. <<y, x>> \in OpToRel(<, Nat) <=> y < x
    BY <2>1 DEF OpToRel
  <2>3. ~ (y < x)
    BY <1>2, <2>2
  <2>. QED BY <2>1, <2>3
<1>. QED BY <1>3 DEF Min

\* Keys that can be compared: n numbers each.
AreKeys(S, key, n) ==
  /\ \A p \in S : DOMAIN key[p] = 1 .. n /\ \A i \in 1 .. n : key[p][i] \in Int
  /\ \A p, q \in S : (\A i \in 1 .. n : key[p][i] = key[q][i]) => p = q

\* Keys are totally ordered by their first difference.
LEMMA LexOrders ==
  ASSUME NEW S, NEW key, NEW n \in Nat, AreKeys(S, key, n)
  PROVE  /\ \A p \in S : ~ Lex(key[p], key[p])
         /\ \A p, q, r \in S : Lex(key[p], key[q]) /\ Lex(key[q], key[r]) => Lex(key[p], key[r])
         /\ \A p, q \in S : p = q \/ Lex(key[p], key[q]) \/ Lex(key[q], key[p])
<1>1. \A p \in S : ~ Lex(key[p], key[p])
  BY DEF Lex, AreKeys
<1>2. ASSUME NEW p \in S, NEW q \in S, NEW r \in S, Lex(key[p], key[q]), Lex(key[q], key[r])
      PROVE  Lex(key[p], key[r])
  <2>1. PICK i \in 1 .. n : key[p][i] < key[q][i] /\ \A j \in 1 .. i - 1 : key[p][j] = key[q][j]
    BY <1>2 DEF Lex, AreKeys
  <2>2. PICK k \in 1 .. n : key[q][k] < key[r][k] /\ \A j \in 1 .. k - 1 : key[q][j] = key[r][j]
    BY <1>2 DEF Lex, AreKeys
  <2>3. \A j \in 1 .. n : key[p][j] \in Int /\ key[q][j] \in Int /\ key[r][j] \in Int
    BY DEF AreKeys
  <2>4. CASE i <= k
    <3>1. key[p][i] < key[r][i]
      <4>1. CASE i = k
        BY <2>1, <2>2, <2>3, <4>1
      <4>2. CASE i < k
        <5>1. i \in 1 .. k - 1
          BY <4>2
        <5>. QED BY <2>1, <2>2, <5>1
      <4>. QED BY <2>4, <4>1, <4>2
    <3>2. \A j \in 1 .. i - 1 : j \in 1 .. k - 1
      BY <2>4
    <3>3. \A j \in 1 .. i - 1 : key[p][j] = key[r][j]
      BY <2>1, <2>2, <3>2
    <3>. QED BY <3>1, <3>3 DEF Lex, AreKeys
  <2>5. CASE k < i
    <3>0. k \in 1 .. i - 1
      BY <2>5
    <3>1. key[p][k] < key[r][k]
      BY <2>1, <2>2, <3>0
    <3>2. \A j \in 1 .. k - 1 : j \in 1 .. i - 1
      BY <2>5
    <3>3. \A j \in 1 .. k - 1 : key[p][j] = key[r][j]
      BY <2>1, <2>2, <3>2
    <3>. QED BY <3>1, <3>3 DEF Lex, AreKeys
  <2>. QED BY <2>4, <2>5
<1>3. ASSUME NEW p \in S, NEW q \in S, p # q PROVE Lex(key[p], key[q]) \/ Lex(key[q], key[p])
  <2>. DEFINE D == {i \in 1 .. n : key[p][i] # key[q][i]}
  <2>1. D # {} /\ D \in SUBSET Nat
    BY <1>3 DEF AreKeys
  <2>2. PICK i \in D : \A j \in D : i <= j
    BY <2>1, FirstExists
  <2>3. \A j \in 1 .. i - 1 : j \in 1 .. n /\ ~ (i <= j)
    OBVIOUS
  <2>4. \A j \in 1 .. i - 1 : key[p][j] = key[q][j]
    BY <2>2, <2>3
  <2>5. key[p][i] < key[q][i] \/ key[q][i] < key[p][i]
    BY DEF AreKeys
  <2>6. DOMAIN key[p] = 1 .. n /\ DOMAIN key[q] = 1 .. n
    BY DEF AreKeys
  <2>. QED BY <2>4, <2>5, <2>6 DEF Lex
<1>. QED BY <1>1, <1>2, <1>3

\* More come before a later one.
LEMMA MoreBefore ==
  ASSUME NEW S, IsFiniteSet(S), NEW key, NEW n \in Nat, AreKeys(S, key, n),
         NEW p \in S, NEW q \in S, Lex(key[p], key[q])
  PROVE  LET below(y) == {x \in S : Lex(key[x], key[y])} IN
         /\ Cardinality(below(p)) \in Nat /\ Cardinality(below(q)) \in Nat
         /\ Cardinality(below(p)) < Cardinality(below(q))
<1>. DEFINE below(y) == {x \in S : Lex(key[x], key[y])}
<1>1. p \notin below(p) /\ below(p) \cup {p} \in SUBSET below(q)
  BY LexOrders
<1>2. /\ IsFiniteSet(below(p)) /\ IsFiniteSet(below(q))
      /\ Cardinality(below(p)) \in Nat /\ Cardinality(below(q)) \in Nat
  BY FS_Subset, FS_CardinalityType
<1>. HIDE DEF below
<1>3. Cardinality(below(p) \cup {p}) = Cardinality(below(p)) + 1
  BY <1>1, <1>2, FS_AddElement
<1>4. Cardinality(below(p) \cup {p}) <= Cardinality(below(q))
  BY <1>1, <1>2, FS_Subset
<1>5. Cardinality(below(p)) < Cardinality(below(q))
  BY <1>2, <1>3, <1>4
<1>. QED BY <1>2, <1>5 DEF below

\* A finite set can be put in the order of its keys: everyone at one place, and
\* the place is how many come before.
LEMMA InOrderSorts ==
  ASSUME NEW S, IsFiniteSet(S), NEW key, NEW n \in Nat, AreKeys(S, key, n)
  PROVE  /\ InOrder(S, key) \in [1 .. Cardinality(S) -> S]
         /\ \A i, j \in 1 .. Cardinality(S) : InOrder(S, key)[i] = InOrder(S, key)[j] => i = j
         /\ \A p \in S : \E i \in 1 .. Cardinality(S) : InOrder(S, key)[i] = p
         /\ \A i, j \in 1 .. Cardinality(S) :
              i < j => Lex(key[InOrder(S, key)[i]], key[InOrder(S, key)[j]])
<1>. DEFINE N == Cardinality(S)
            below(p) == {q \in S : Lex(key[q], key[p])}
            pos == [p \in S |-> Cardinality(below(p)) + 1]
<1>1. N \in Nat /\ IsFiniteSet(1 .. N) /\ Cardinality(1 .. N) = N
  BY FS_CardinalityType, FS_Interval
<1>2. ASSUME NEW p \in S PROVE IsFiniteSet(below(p)) /\ Cardinality(below(p)) \in Nat
  BY FS_Subset, FS_CardinalityType
<1>3. ASSUME NEW p \in S PROVE pos[p] \in 1 .. N
  <2>1. below(p) \in SUBSET (S \ {p})
    BY LexOrders
  <2>2. IsFiniteSet(S \ {p}) /\ Cardinality(S \ {p}) = N - 1
    BY FS_RemoveElement
  <2>3. Cardinality(below(p)) <= N - 1
    <3>. HIDE DEF below, N
    <3>. QED BY <2>1, <2>2, FS_Subset
  <2>4. pos[p] = Cardinality(below(p)) + 1
    OBVIOUS
  <2>. HIDE DEF below, N, pos
  <2>. QED BY <1>1, <1>2, <2>3, <2>4
<1>4. ASSUME NEW p \in S, NEW q \in S, Lex(key[p], key[q]) PROVE pos[p] < pos[q]
  <2>1. /\ Cardinality(below(p)) \in Nat /\ Cardinality(below(q)) \in Nat
        /\ Cardinality(below(p)) < Cardinality(below(q))
    BY <1>4, MoreBefore
  <2>2. pos[p] = Cardinality(below(p)) + 1 /\ pos[q] = Cardinality(below(q)) + 1
    OBVIOUS
  <2>. HIDE DEF below, pos
  <2>. QED BY <2>1, <2>2
<1>5. ASSUME NEW p \in S, NEW q \in S, pos[p] = pos[q] PROVE p = q
  <2>1. pos[p] \in Int /\ pos[q] \in Int
    BY <1>1, <1>3
  <2>. HIDE DEF pos, below
  <2>2. ~ Lex(key[p], key[q]) /\ ~ Lex(key[q], key[p])
    BY <1>4, <1>5, <2>1
  <2>. QED BY <2>2, LexOrders
<1>6. pos \in [S -> 1 .. N]
  BY <1>3
<1>. HIDE DEF pos, below
<1>7. \A i \in 1 .. N : \E p \in S : pos[p] = i
  <2>1. pos \in Injection(S, 1 .. N)
    BY <1>5, <1>6 DEF Injection, IsInjective
  <2>2. pos \in Surjection(S, 1 .. N)
    BY <1>1, <2>1, FS_Injection
  <2>. QED BY <2>2 DEF Surjection
<1>. DEFINE seq == [i \in 1 .. N |-> CHOOSE p \in S : pos[p] = i]
<1>8. \A i \in 1 .. N : seq[i] \in S /\ pos[seq[i]] = i
  BY <1>7
<1>9. seq \in [1 .. N -> S] /\ DOMAIN seq = 1 .. N
  BY <1>8
<1>. HIDE DEF seq
<1>10. \A i, j \in 1 .. N : i < j => Lex(key[seq[i]], key[seq[j]])
  <2>1. ASSUME NEW i \in 1 .. N, NEW j \in 1 .. N, i < j PROVE Lex(key[seq[i]], key[seq[j]])
    <3>1. seq[i] \in S /\ seq[j] \in S /\ pos[seq[i]] = i /\ pos[seq[j]] = j
      BY <1>8
    <3>2. ~ Lex(key[seq[j]], key[seq[i]]) /\ seq[i] # seq[j]
      BY <1>4, <2>1, <3>1
    <3>. QED BY <3>1, <3>2, LexOrders
  <2>. QED BY <2>1
<1>11. \A i, j \in 1 .. N : i # j => seq[i] # seq[j]
  BY <1>8
<1>12. seq \in SetToSeqs(S)
  BY <1>9, <1>11 DEF SetToSeqs
<1>. DEFINE o == InOrder(S, key)
<1>13. /\ o \in SetToSeqs(S)
       /\ \A i, j \in DOMAIN o : i < j => Lex(key[o[i]], key[o[j]])
  BY <1>9, <1>10, <1>12 DEF InOrder
<1>. HIDE DEF o
<1>14. /\ o \in [1 .. N -> S] /\ DOMAIN o = 1 .. N
       /\ \A i, j \in 1 .. N : o[i] = o[j] => i = j
  BY <1>13 DEF SetToSeqs
<1>15. \A p \in S : \E i \in 1 .. N : o[i] = p
  <2>1. o \in Injection(1 .. N, S)
    BY <1>14 DEF Injection, IsInjective
  <2>2. o \in Surjection(1 .. N, S)
    BY <1>1, <2>1, FS_Injection
  <2>. QED BY <2>2 DEF Surjection
<1>16. \A i, j \in 1 .. N : i < j => Lex(key[o[i]], key[o[j]])
  BY <1>13, <1>14
<1>. QED BY <1>14, <1>15, <1>16 DEF o

-----------------------------------------------------------------------------
(* DispatchPlan: nobody can be spared, so nobody does with fewer. *)

\* What a list asks for, in numbers: at least as many voters.
LEMMA EnoughVoters ==
  ASSUME NEW S \in SUBSET Providers, NEW reqs, IsRequirementList(reqs),
         CheckRequirementSet(VoterEntities(S), reqs)
  PROVE  /\ Cardinality(S) \in Nat
         /\ Cardinality(S) >= Need(reqs, AnyCategory)
         /\ Cardinality(S) >= Cardinality(CategorySlots(reqs))
<1>. DEFINE P == Pool(VoterEntities(S))
            g == [p \in S |-> voters[p].entity]
            E == {g[p] : p \in S}
<1>1. IsFiniteSet(S) /\ Cardinality(S) \in Nat
  BY ProvidersAssumption, FS_Subset, FS_CardinalityType
<1>2. P \subseteq E /\ IsFiniteSet(P) /\ Cardinality(P) \in Nat
  <2>1. /\ DOMAIN VoterEntities(S) = Range(Categories)
        /\ \A c \in Range(Categories) :
             VoterEntities(S)[c] = {voters[p].entity : p \in {q \in S : voters[q].category = c}}
        /\ IsFiniteSet(P) /\ Cardinality(P) \in Nat
    BY EntitiesGrow
  <2>2. \A c \in Range(Categories) : VoterEntities(S)[c] \subseteq E
    BY <2>1
  <2>. QED BY <2>1, <2>2 DEF Pool
<1>3. g \in Surjection(S, E)
  BY DEF Surjection
<1>. HIDE DEF g, E, P
<1>4. IsFiniteSet(E) /\ Cardinality(E) <= Cardinality(S) /\ Cardinality(E) \in Nat
  BY <1>1, <1>3, FS_Surjection, FS_CardinalityType
<1>5. Cardinality(P) <= Cardinality(E)
  BY <1>2, <1>4, FS_Subset
<1>6. Cardinality(P) >= Need(reqs, AnyCategory) /\ Cardinality(P) >= Cardinality(CategorySlots(reqs))
  BY DEF CheckRequirementSet, P
<1>7. Need(reqs, AnyCategory) \in Nat /\ Cardinality(CategorySlots(reqs)) \in Nat
  BY SlotsFinite, AllSlotsFinite
<1>. QED BY <1>1, <1>2, <1>4, <1>5, <1>6, <1>7

\* Two finite sets of one size: the first can be laid over the second.
LEMMA Overlay ==
  ASSUME NEW S, NEW T, IsFiniteSet(S), IsFiniteSet(T), Cardinality(S) = Cardinality(T)
  PROVE  \E f \in [S -> T] : \A t \in T : \E x \in S : f[x] = t
<1>. DEFINE n == Cardinality(S)
<1>1. PICK f \in Bijection(1 .. n, S) : TRUE
  BY FS_CardinalityType DEF ExistsBijection
<1>2. PICK g \in Bijection(1 .. n, T) : TRUE
  BY FS_CardinalityType DEF ExistsBijection
<1>3. /\ f \in [1 .. n -> S] /\ (\A i, j \in 1 .. n : f[i] = f[j] => i = j)
      /\ \A x \in S : \E i \in 1 .. n : f[i] = x
  BY <1>1 DEF Bijection, Injection, Surjection, IsInjective
<1>4. g \in [1 .. n -> T] /\ \A t \in T : \E i \in 1 .. n : g[i] = t
  BY <1>2 DEF Bijection, Surjection
<1>. HIDE DEF n
<1>. DEFINE at0(x) == CHOOSE i \in 1 .. n : f[i] = x
            h == [x \in S |-> g[at0(x)]]
<1>5. \A x \in S : at0(x) \in 1 .. n /\ f[at0(x)] = x
  BY <1>3
<1>6. h \in [S -> T]
  BY <1>4, <1>5
<1>7. ASSUME NEW t \in T PROVE \E x \in S : h[x] = t
  <2>1. PICK i \in 1 .. n : g[i] = t
    BY <1>4
  <2>2. f[i] \in S /\ at0(f[i]) = i
    BY <1>3, <1>5
  <2>3. h[f[i]] = t
    BY <2>1, <2>2
  <2>. QED BY <2>2, <2>3
<1>. QED BY <1>6, <1>7

\* Who is given a slot is counted by the slots.
LEMMA GivenCounted ==
  ASSUME NEW reqs, IsRequirementList(reqs), NEW given, NEW E, IsFiniteSet(E),
         given \in [Range(Categories) -> SUBSET E],
         \A c \in Range(Categories) : Cardinality(given[c]) = Need(reqs, c)
  PROVE  LET U == UNION {given[c] : c \in Range(Categories)} IN
         IsFiniteSet(U) /\ Cardinality(U) \in Nat
         /\ Cardinality(U) <= Cardinality(CategorySlots(reqs))
<1>. DEFINE D == Range(Categories)
            C == CategorySlots(reqs)
            U == UNION {given[c] : c \in Range(Categories)}
<1>1. ASSUME NEW c \in D
      PROVE  \E f : f \in [Slots(reqs, c) -> given[c]]
                    /\ \A t \in given[c] : \E x \in Slots(reqs, c) : f[x] = t
  <2>1. IsFiniteSet(given[c]) /\ given[c] \subseteq E
    BY FS_Subset
  <2>2. IsFiniteSet(Slots(reqs, c)) /\ Cardinality(Slots(reqs, c)) = Cardinality(given[c])
    BY SlotsFinite DEF Need
  <2>. QED BY <2>1, <2>2, Overlay
<1>. DEFINE lay == [c \in D |-> CHOOSE f : f \in [Slots(reqs, c) -> given[c]]
                                 /\ \A t \in given[c] : \E x \in Slots(reqs, c) : f[x] = t]
<1>2. \A c \in D : /\ lay[c] \in [Slots(reqs, c) -> given[c]]
                   /\ \A t \in given[c] : \E x \in Slots(reqs, c) : lay[c][x] = t
  BY <1>1
<1>. HIDE DEF lay
<1>. DEFINE h == [x \in C |-> lay[x[1]][x[2]]]
<1>3. \A x \in C : x[1] \in D /\ x[2] \in Slots(reqs, x[1])
  BY DEF CategorySlots
<1>4. h \in [C -> U]
  BY <1>2, <1>3
<1>5. ASSUME NEW t \in U PROVE \E x \in C : h[x] = t
  <2>1. PICK c \in D : t \in given[c]
    OBVIOUS
  <2>2. PICK y \in Slots(reqs, c) : lay[c][y] = t
    BY <1>2, <2>1
  <2>3. <<c, y>> \in C
    BY DEF CategorySlots
  <2>4. h[<<c, y>>] = t
    BY <2>2, <2>3
  <2>. QED BY <2>3, <2>4
<1>6. IsFiniteSet(C) /\ Cardinality(C) \in Nat
  BY AllSlotsFinite
<1>. HIDE DEF h, C, U
<1>7. h \in Surjection(C, U)
  BY <1>4, <1>5 DEF Surjection
<1>8. IsFiniteSet(U) /\ Cardinality(U) <= Cardinality(C) /\ Cardinality(U) \in Nat
  BY <1>6, <1>7, FS_Surjection, FS_CardinalityType
<1>. QED BY <1>8 DEF C, U


\* A set from which nobody can be spared is no larger than what the list asks
\* for: one voter for each of its entities would do, and each of them has a slot
\* or is needed to make up the number.
LEMMA MinimalIsSmall ==
  ASSUME VotersOK, NEW K \in SUBSET Providers, NEW reqs, IsRequirementList(reqs),
         CheckRequirementSet(VoterEntities(K), reqs),
         \A p \in K : ~ CheckRequirementSet(VoterEntities(K \ {p}), reqs)
  PROVE  \/ Cardinality(K) <= Need(reqs, AnyCategory)
         \/ Cardinality(K) <= Cardinality(CategorySlots(reqs))
<1>. DEFINE a == VoterEntities(K)
            A == Need(reqs, AnyCategory)
            C == Cardinality(CategorySlots(reqs))
            need == [c \in Range(Categories) |-> Need(reqs, c)]
<1>1. /\ DOMAIN a = Range(Categories) /\ IsFiniteSet(Pool(a)) /\ Cardinality(Pool(a)) \in Nat
      /\ \A c \in Range(Categories) :
           a[c] = {voters[p].entity : p \in {q \in K : voters[q].category = c}}
  BY EntitiesGrow
<1>2. A \in Nat /\ C \in Nat
  BY SlotsFinite, AllSlotsFinite
<1>3. /\ \A i \in DOMAIN reqs : \A c \in DOMAIN reqs[i] : reqs[i][c] # MaxQuorum
      /\ Cardinality(Pool(a)) >= A /\ Cardinality(Pool(a)) >= C /\ Fits(a, need)
  BY DEF CheckRequirementSet
<1>4. IsFiniteSet(K) /\ Cardinality(K) \in Nat
  BY ProvidersAssumption, FS_Subset, FS_CardinalityType
<1>5. \A e : e \in Pool(a) <=> \E p \in K : voters[p].entity = e
  <2>1. \A p \in K : voters[p].category \in Range(Categories)
    BY DEF VotersOK
  <2>2. \A e : e \in Pool(a) <=> \E c \in Range(Categories) : e \in a[c]
    BY <1>1 DEF Pool
  <2>3. \A e : \A c \in Range(Categories) :
          e \in a[c] <=> \E p \in K : voters[p].category = c /\ voters[p].entity = e
    BY <1>1
  <2>. HIDE DEF a
  <2>. QED BY <2>1, <2>2, <2>3
<1>. HIDE DEF need
<1>6. PICK given \in [Range(Categories) -> SUBSET Pool(a)] :
        \A c \in Range(Categories) :
          /\ given[c] \subseteq a[c] /\ Cardinality(given[c]) = need[c]
          /\ \A d \in Range(Categories) : c # d => given[c] \cap given[d] = {}
  BY <1>1, <1>3 DEF Fits
<1>. DEFINE U == UNION {given[c] : c \in Range(Categories)}
            serves(p, e) == /\ p \in K /\ voters[p].entity = e
                            /\ \A c \in Range(Categories) : e \in given[c] => voters[p].category = c
            r == [e \in Pool(a) |-> CHOOSE p : serves(p, e)]
<1>7. IsFiniteSet(U) /\ Cardinality(U) \in Nat /\ Cardinality(U) <= C /\ U \subseteq Pool(a)
  <2>1. \A c \in Range(Categories) : Cardinality(given[c]) = Need(reqs, c)
    BY <1>6 DEF need
  <2>2. U \subseteq Pool(a)
    BY <1>6
  <2>. HIDE DEF a
  <2>. QED BY <1>1, <2>1, <2>2, GivenCounted
<1>8. ASSUME NEW e \in Pool(a) PROVE \E p : serves(p, e)
  <2>1. CASE \E c \in Range(Categories) : e \in given[c]
    <3>1. PICK c \in Range(Categories) : e \in given[c]
      BY <2>1
    <3>2. PICK p \in K : voters[p].category = c /\ voters[p].entity = e
      BY <1>1, <1>6, <3>1
    <3>3. \A d \in Range(Categories) : e \in given[d] => d = c
      BY <1>6, <3>1
    <3>. QED BY <3>2, <3>3
  <2>2. CASE ~ \E c \in Range(Categories) : e \in given[c]
    BY <1>5, <2>2
  <2>. QED BY <2>1, <2>2
<1>9. \A e \in Pool(a) :
        /\ r[e] \in K /\ voters[r[e]].entity = e
        /\ \A c \in Range(Categories) : e \in given[c] => voters[r[e]].category = c
  BY <1>8
<1>. HIDE DEF r, serves, a
\* The servers of a set of entities.
<1>10. ASSUME NEW X \in SUBSET Pool(a), Cardinality(X) < Cardinality(K)
       PROVE  \E p \in K : \A e \in X : r[e] # p
  <2>. DEFINE Y == {r[e] : e \in X}
              g == [e \in X |-> r[e]]
  <2>1. g \in Surjection(X, Y) /\ Y \subseteq K
    BY <1>9 DEF Surjection
  <2>2. IsFiniteSet(X)
    BY <1>1, FS_Subset
  <2>. HIDE DEF g, Y
  <2>3. Cardinality(Y) <= Cardinality(X) /\ Cardinality(X) \in Nat /\ IsFiniteSet(Y) /\ Cardinality(Y) \in Nat
    BY <2>1, <2>2, FS_Surjection, FS_CardinalityType
  <2>4. Y # K
    BY <1>4, <1>10, <2>3
  <2>. QED BY <2>1, <2>4 DEF Y
\* Whoever serves no slot is needed for the number.
<1>11. ASSUME NEW p \in K, \A e \in U : r[e] # p
       PROVE  LET n == Cardinality(Pool(VoterEntities(K \ {p}))) IN n \in Nat /\ (n < A \/ n < C)
  <2>. DEFINE b == VoterEntities(K \ {p})
              n == Cardinality(Pool(b))
  <2>0. K \ {p} \in SUBSET Providers
    OBVIOUS
  <2>1. /\ DOMAIN b = Range(Categories) /\ n \in Nat
        /\ \A c \in Range(Categories) :
             b[c] = {voters[x].entity : x \in {q \in K \ {p} : voters[q].category = c}}
    BY <2>0, EntitiesGrow
  <2>2. ASSUME NEW c \in Range(Categories), NEW e \in given[c] PROVE e \in b[c]
    <3>1. e \in U /\ e \in Pool(a)
      BY <1>6
    <3>2. r[e] \in K \ {p} /\ voters[r[e]].entity = e /\ voters[r[e]].category = c
      BY <1>9, <1>11, <3>1
    <3>. HIDE DEF b
    <3>. QED BY <2>1, <3>2
  <2>3. ~ CheckRequirementSet(b, reqs)
    OBVIOUS
  <2>. HIDE DEF b
  <2>4. \A c \in Range(Categories) : given[c] \subseteq b[c] /\ given[c] \subseteq Pool(b)
    BY <2>1, <2>2 DEF Pool
  <2>5. given \in [DOMAIN b -> SUBSET Pool(b)]
    BY <2>1, <2>4
  <2>6. Fits(b, need)
    BY <1>6, <2>1, <2>4, <2>5 DEF Fits
  <2>7. ~ (n >= A /\ n >= C)
    BY <1>3, <2>3, <2>6 DEF CheckRequirementSet, need
  <2>8. n < A \/ n < C
    <3>. HIDE DEF A, C, n
    <3>. QED BY <1>2, <2>1, <2>7
  <2>. QED BY <2>1, <2>8 DEF b
<1>12. ASSUME NEW p \in K
       PROVE  /\ Cardinality(Pool(a)) <= Cardinality(Pool(VoterEntities(K \ {p}))) + 1
              /\ (\A e \in Pool(a) : r[e] # p)
                   => Cardinality(Pool(a)) <= Cardinality(Pool(VoterEntities(K \ {p})))
  <2>. DEFINE b == VoterEntities(K \ {p})
              x == voters[p].entity
  <2>0. K \ {p} \in SUBSET Providers
    OBVIOUS
  <2>1. /\ DOMAIN b = Range(Categories) /\ IsFiniteSet(Pool(b)) /\ Cardinality(Pool(b)) \in Nat
        /\ \A c \in Range(Categories) :
             b[c] = {voters[y].entity : y \in {q \in K \ {p} : voters[q].category = c}}
    BY <2>0, EntitiesGrow
  <2>2. ASSUME NEW q \in K, q # p PROVE voters[q].entity \in Pool(b)
    <3>1. voters[q].category \in Range(Categories)
      BY DEF VotersOK
    <3>2. voters[q].entity \in b[voters[q].category]
      <4>1. q \in {x0 \in K \ {p} : voters[x0].category = voters[q].category}
        BY <2>2
      <4>. HIDE DEF b
      <4>. QED BY <2>1, <3>1, <4>1
    <3>. QED BY <2>1, <3>1, <3>2 DEF Pool
  <2>. HIDE DEF b
  <2>3. Pool(a) \subseteq Pool(b) \cup {x}
    BY <1>5, <2>2
  <2>. HIDE DEF x
  <2>4. IsFiniteSet(Pool(b) \cup {x}) /\ Cardinality(Pool(b) \cup {x}) <= Cardinality(Pool(b)) + 1
    <3>1. /\ IsFiniteSet(Pool(b) \cup {x})
          /\ Cardinality(Pool(b) \cup {x}) =
               IF x \in Pool(b) THEN Cardinality(Pool(b)) ELSE Cardinality(Pool(b)) + 1
      BY <2>1, FS_AddElement
    <3>. QED BY <2>1, <3>1
  <2>5. Cardinality(Pool(a)) <= Cardinality(Pool(b) \cup {x}) /\ Cardinality(Pool(b) \cup {x}) \in Nat
    BY <2>3, <2>4, FS_Subset, FS_CardinalityType
  <2>6. ASSUME \A e \in Pool(a) : r[e] # p PROVE Cardinality(Pool(a)) <= Cardinality(Pool(b))
    <3>1. Pool(a) \subseteq Pool(b)
      BY <1>9, <2>2, <2>6
    <3>. QED BY <2>1, <3>1, FS_Subset
  <2>. QED BY <1>1, <2>1, <2>4, <2>5, <2>6 DEF b
<1>13. ASSUME Cardinality(K) > A, Cardinality(K) > C PROVE FALSE
  <2>. DEFINE P == Cardinality(Pool(a))
  <2>1. CASE P < Cardinality(K)
    <3>1. PICK p \in K : \A e \in Pool(a) : r[e] # p
      BY <1>10, <2>1
    <3>2. \A e \in U : r[e] # p
      BY <1>7, <3>1
    <3>. DEFINE n == Cardinality(Pool(VoterEntities(K \ {p})))
    <3>3. n \in Nat /\ (n < A \/ n < C)
      BY <1>11, <3>2
    <3>4. P <= n
      BY <1>12, <3>1
    <3>. HIDE DEF n, A, C, P
    <3>. QED BY <1>1, <1>2, <1>3, <3>3, <3>4 DEF P
  <2>2. CASE P >= Cardinality(K)
    <3>0. Cardinality(U) < Cardinality(K)
      <4>. HIDE DEF A, C, U
      <4>. QED BY <1>2, <1>4, <1>7, <1>13
    <3>1. PICK p \in K : \A e \in U : r[e] # p
      <4>. HIDE DEF U
      <4>. QED BY <1>7, <1>10, <3>0
    <3>. DEFINE n == Cardinality(Pool(VoterEntities(K \ {p})))
    <3>3. n \in Nat /\ (n < A \/ n < C)
      BY <1>11, <3>1
    <3>4. P <= n + 1
      BY <1>12
    <3>. HIDE DEF n, A, C, P
    <3>. QED BY <1>1, <1>2, <1>4, <1>13, <2>2, <3>3, <3>4 DEF P
  <2>. HIDE DEF P
  <2>3. P \in Nat
    BY <1>1 DEF P
  <2>. QED BY <1>4, <2>1, <2>2, <2>3
<1>14. ~ (Cardinality(K) > A /\ Cardinality(K) > C)
  BY <1>13
<1>. HIDE DEF A, C
<1>15. Cardinality(K) <= A \/ Cardinality(K) <= C
  BY <1>2, <1>4, <1>14
<1>. QED BY <1>15 DEF A, C

\* So nobody meets the list with fewer.
LEMMA MinimalIsSmallest ==
  ASSUME VotersOK, NEW K \in SUBSET Providers, NEW reqs, IsRequirementList(reqs),
         CheckRequirementSet(VoterEntities(K), reqs),
         \A p \in K : ~ CheckRequirementSet(VoterEntities(K \ {p}), reqs),
         NEW S \in SUBSET Providers, CheckRequirementSet(VoterEntities(S), reqs)
  PROVE  Cardinality(K) <= Cardinality(S)
<1>1. Cardinality(K) \in Nat /\ Cardinality(S) \in Nat
  BY ProvidersAssumption, FS_Subset, FS_CardinalityType
<1>2. /\ Cardinality(S) >= Need(reqs, AnyCategory) /\ Need(reqs, AnyCategory) \in Nat
      /\ Cardinality(S) >= Cardinality(CategorySlots(reqs)) /\ Cardinality(CategorySlots(reqs)) \in Nat
  BY EnoughVoters, SlotsFinite, AllSlotsFinite
<1>3. \/ Cardinality(K) <= Need(reqs, AnyCategory)
      \/ Cardinality(K) <= Cardinality(CategorySlots(reqs))
  BY MinimalIsSmall
<1>. QED BY <1>1, <1>2, <1>3

-----------------------------------------------------------------------------
(* DispatchPlan: dropping from the back. *)

\* A loop that starts with a set and drops an element where it may, as a function
\* of the number of rounds.
Dropping(f, k, seq, s) ==
  f = [n \in 0 .. k |->
         IF n = 0 THEN Range(seq)
         ELSE LET before == f[n - 1]
                  without == before \ {seq[Len(seq) + 1 - n]}
              IN IF IsMetBy(without, s) THEN without ELSE before]

\* There is one for any number of rounds.
LEMMA DroppingExists ==
  ASSUME NEW seq, NEW s, NEW k \in Nat
  PROVE  \E f : Dropping(f, k, seq, s)
<1>. DEFINE step(X, n) == LET without == X \ {seq[Len(seq) + 1 - n]}
                          IN IF IsMetBy(without, s) THEN without ELSE X
            val(f, n) == IF n = 0 THEN Range(seq) ELSE step(f[n - 1], n)
            Bad == {m \in Nat : ~ \E f : Dropping(f, m, seq, s)}
<1>0. \A f, m : Dropping(f, m, seq, s) <=> f = [n \in 0 .. m |-> val(f, n)]
  BY DEF Dropping
<1>. SUFFICES ASSUME Bad # {} PROVE FALSE
  OBVIOUS
<1>1. PICK m \in Bad : \A y \in Bad : m <= y
  BY FirstExists
<1>2. CASE m = 0
  <2>. DEFINE f == [n \in 0 .. 0 |-> Range(seq)]
  <2>1. f = [n \in 0 .. 0 |-> val(f, n)]
    <3>1. \A n \in 0 .. 0 : n = 0
      OBVIOUS
    <3>. QED BY <3>1
  <2>. HIDE DEF f
  <2>. QED BY <1>0, <1>2, <2>1
<1>3. CASE m # 0
  <2>1. m - 1 \in Nat /\ m - 1 \notin Bad
    <3>1. m - 1 \in Nat /\ ~ (m <= m - 1)
      BY <1>3
    <3>. QED BY <1>1, <3>1
  <2>2. PICK f : f = [n \in 0 .. m - 1 |-> val(f, n)]
    <3>1. \E f : Dropping(f, m - 1, seq, s)
      BY <2>1
    <3>. HIDE DEF val
    <3>. QED BY <1>0, <3>1
  <2>. DEFINE g == [n \in 0 .. m |-> IF n = m THEN step(f[m - 1], m) ELSE f[n]]
  <2>. HIDE DEF step
  <2>3. ASSUME NEW n \in 0 .. m PROVE g[n] = val(g, n)
    <3>1. CASE n = m
      <4>1. m - 1 \in 0 .. m /\ m - 1 # m
        BY <1>3
      <4>2. g[m - 1] = f[m - 1] /\ g[n] = step(f[m - 1], m)
        BY <3>1, <4>1
      <4>. QED BY <1>3, <3>1, <4>2
    <3>2. CASE n # m
      <4>1. n \in 0 .. m - 1
        BY <3>2
      <4>2. g[n] = f[n] /\ f[n] = val(f, n)
        BY <2>2, <3>2, <4>1
      <4>3. n # 0 => n - 1 \in 0 .. m /\ n - 1 # m
        BY <4>1
      <4>4. n # 0 => g[n - 1] = f[n - 1]
        BY <4>3
      <4>. QED BY <4>2, <4>4
    <3>. QED BY <3>1, <3>2
  <2>4. g = [n \in 0 .. m |-> g[n]]
    OBVIOUS
  <2>. HIDE DEF g, val
  <2>5. g = [n \in 0 .. m |-> val(g, n)]
    BY <2>3, <2>4
  <2>. QED BY <1>0, <2>5
<1>. QED BY <1>2, <1>3

\* What the loop keeps meets the strategy, and nobody of it can be spared: whoever
\* could not be dropped when his turn came cannot be dropped from fewer.
LEMMA KeptIsMinimal ==
  ASSUME NEW s, IsStrategy(s), NEW seq \in Seq(Providers), IsMetBy(Range(seq), s)
  PROVE  /\ Kept(seq, s) \in SUBSET Range(seq) /\ IsMetBy(Kept(seq, s), s)
         /\ \A p \in Kept(seq, s) : ~ IsMetBy(Kept(seq, s) \ {p}, s)
<1>. DEFINE L == Len(seq)
            back(n) == seq[L + 1 - n]
            Good(X, n) == /\ X \in SUBSET Range(seq) /\ IsMetBy(X, s)
                          /\ \A m \in 1 .. n : back(m) \in X => ~ IsMetBy(X \ {back(m)}, s)
<1>1. L \in Nat /\ DOMAIN seq = 1 .. L /\ Range(seq) \in SUBSET Providers
  BY DEF Range
<1>2. PICK f : Dropping(f, L, seq, s) /\ Kept(seq, s) = f[L]
  <2>1. \E f : Dropping(f, L, seq, s)
    BY <1>1, DroppingExists
  <2>. QED BY <2>1 DEF Dropping, Kept
<1>3. f[0] = Range(seq)
  BY <1>1, <1>2 DEF Dropping
<1>4. ASSUME NEW n \in 1 .. L
      PROVE  f[n] = IF IsMetBy(f[n - 1] \ {back(n)}, s) THEN f[n - 1] \ {back(n)} ELSE f[n - 1]
  <2>1. n \in 0 .. L /\ n # 0
    OBVIOUS
  <2>. QED BY <1>2, <2>1 DEF Dropping
<1>. HIDE DEF back, L
<1>5. Good(f[0], 0)
  BY <1>3
<1>6. ASSUME NEW n \in 1 .. L, Good(f[n - 1], n - 1) PROVE Good(f[n], n)
  <2>1. f[n] \in SUBSET f[n - 1] /\ IsMetBy(f[n], s)
    BY <1>4, <1>6
  <2>2. ASSUME NEW m \in 1 .. n, back(m) \in f[n] PROVE ~ IsMetBy(f[n] \ {back(m)}, s)
    <3>1. CASE m = n
      <4>1. f[n] = f[n - 1] /\ ~ IsMetBy(f[n - 1] \ {back(n)}, s)
        BY <1>4, <2>2, <3>1
      <4>. QED BY <3>1, <4>1
    <3>2. CASE m # n
      <4>1. m \in 1 .. n - 1
        BY <1>1, <3>2
      <4>2. ~ IsMetBy(f[n - 1] \ {back(m)}, s)
        BY <1>6, <2>1, <2>2, <4>1
      <4>3. /\ f[n] \ {back(m)} \in SUBSET Providers /\ f[n - 1] \ {back(m)} \in SUBSET Providers
            /\ f[n] \ {back(m)} \subseteq f[n - 1] \ {back(m)}
        BY <1>1, <1>6, <2>1
      <4>. QED BY <4>2, <4>3, QuorumsGrow
    <3>. QED BY <3>1, <3>2
  <2>. QED BY <1>6, <2>1, <2>2
<1>. HIDE DEF Good
<1>7. Good(f[L], L)
  <2>. DEFINE Bad == {n \in 0 .. L : ~ Good(f[n], n)}
  <2>. SUFFICES ASSUME Bad # {} PROVE FALSE
    BY <1>1
  <2>1. Bad \in SUBSET Nat
    BY <1>1
  <2>2. PICK n \in Bad : \A y \in Bad : n <= y
    BY <2>1, FirstExists
  <2>3. n # 0
    BY <1>5, <2>2
  <2>4. n \in 1 .. L /\ n - 1 \in 0 .. L /\ ~ (n <= n - 1)
    BY <1>1, <2>3
  <2>5. Good(f[n - 1], n - 1)
    BY <2>2, <2>4
  <2>. QED BY <1>6, <2>4, <2>5
<1>8. ASSUME NEW p \in f[L] PROVE ~ IsMetBy(f[L] \ {p}, s)
  <2>1. PICK i \in 1 .. L : seq[i] = p
    BY <1>1, <1>7 DEF Range, Good
  <2>2. L + 1 - i \in 1 .. L /\ L + 1 - (L + 1 - i) = i
    BY <1>1
  <2>3. back(L + 1 - i) = p
    BY <2>1, <2>2 DEF back
  <2>. QED BY <1>7, <2>2, <2>3 DEF Good
<1>. QED BY <1>2, <1>7, <1>8 DEF Good


\* What is kept for a strategy of one list is a smallest set that meets it.
LEMMA KeptIsSmallest ==
  ASSUME VotersOK, NEW s, IsStrategy(s), NEW reqs, Lists(s) = {reqs},
         NEW seq \in Seq(Providers), IsMetBy(Range(seq), s)
  PROVE  /\ Kept(seq, s) \in SUBSET Range(seq) /\ IsMetBy(Kept(seq, s), s)
         /\ \A S \in SUBSET Providers : IsMetBy(S, s) => Cardinality(Kept(seq, s)) <= Cardinality(S)
<1>. DEFINE K == Kept(seq, s)
<1>1. /\ K \in SUBSET Range(seq) /\ IsMetBy(K, s)
      /\ \A p \in K : ~ IsMetBy(K \ {p}, s)
  BY KeptIsMinimal
<1>2. Range(seq) \in SUBSET Providers
  BY DEF Range
<1>3. IsRequirementList(reqs) /\ \A S : IsMetBy(S, s) <=> CheckRequirementSet(VoterEntities(S), reqs)
  BY ListsSound DEF IsMetBy
<1>. HIDE DEF K
<1>4. K \in SUBSET Providers
  BY <1>1, <1>2
<1>5. ASSUME NEW S \in SUBSET Providers, IsMetBy(S, s) PROVE Cardinality(K) <= Cardinality(S)
  BY <1>1, <1>3, <1>4, <1>5, MinimalIsSmallest
<1>. QED BY <1>1, <1>5 DEF K

\* A strategy with one of its alternatives has one list, and is met by whoever
\* meets the strategy through that alternative.
LEMMA AloneSound ==
  ASSUME IsStrategy(strategy), strategy.oneOf # <<>>
  PROVE  /\ \A i \in DOMAIN strategy.oneOf :
              /\ IsStrategy(Alone(i))
              /\ Lists(Alone(i)) = {Append(strategy.allOf, strategy.oneOf[i])}
         /\ \A S : IsMetBy(S, strategy) <=> \E i \in DOMAIN strategy.oneOf : IsMetBy(S, Alone(i))
         /\ IsFiniteSet(DOMAIN strategy.oneOf) /\ DOMAIN strategy.oneOf \in SUBSET Nat
<1>1. ASSUME NEW i \in DOMAIN strategy.oneOf
      PROVE  /\ IsStrategy(Alone(i))
             /\ Lists(Alone(i)) = {Append(strategy.allOf, strategy.oneOf[i])}
  <2>. DEFINE one == <<strategy.oneOf[i]>>
  <2>1. DOMAIN one = {1} /\ one[1] = strategy.oneOf[i] /\ one # <<>> /\ Len(one) = 1
    OBVIOUS
  <2>2. one \in Seq(Range(one))
    BY <2>1 DEF Range
  <2>. HIDE DEF one
  <2>3. IsRequirementList(one)
    BY <2>1, <2>2 DEF IsStrategy, IsRequirementList
  <2>4. Alone(i).allOf = strategy.allOf /\ Alone(i).oneOf = one
    BY DEF Alone, one
  <2>5. IsStrategy(Alone(i))
    BY <2>3, <2>4 DEF IsStrategy
  <2>6. Lists(Alone(i)) = {Append(strategy.allOf, strategy.oneOf[i])}
    BY <2>1, <2>4 DEF Lists
  <2>. QED BY <2>5, <2>6
<1>2. ASSUME NEW S
      PROVE  IsMetBy(S, strategy) <=> \E i \in DOMAIN strategy.oneOf : IsMetBy(S, Alone(i))
  <2>1. IsMetBy(S, strategy) <=>
          \E reqs \in Lists(strategy) : CheckRequirementSet(VoterEntities(S), reqs)
    BY ListsSound DEF IsMetBy
  <2>2. Lists(strategy) = {Append(strategy.allOf, strategy.oneOf[i]) : i \in DOMAIN strategy.oneOf}
    BY DEF Lists
  <2>3. ASSUME NEW i \in DOMAIN strategy.oneOf
        PROVE  IsMetBy(S, Alone(i)) <=>
                 CheckRequirementSet(VoterEntities(S), Append(strategy.allOf, strategy.oneOf[i]))
    <3>1. IsStrategy(Alone(i)) /\ Lists(Alone(i)) = {Append(strategy.allOf, strategy.oneOf[i])}
      BY <1>1
    <3>2. IsSatisfiable(VoterEntities(S), Alone(i)) <=>
            \E reqs \in Lists(Alone(i)) : CheckRequirementSet(VoterEntities(S), reqs)
      BY <3>1, ListsSound
    <3>. QED BY <3>1, <3>2 DEF IsMetBy
  <2>. QED BY <2>1, <2>2, <2>3
<1>3. IsFiniteSet(DOMAIN strategy.oneOf) /\ DOMAIN strategy.oneOf \in SUBSET Nat
  <2>1. DOMAIN strategy.oneOf = 1 .. Len(strategy.oneOf) /\ Len(strategy.oneOf) \in Nat
    BY DEF IsStrategy, IsRequirementList
  <2>. QED BY <2>1, FS_Interval
<1>. QED BY <1>1, <1>2, <1>3

\* What comes first in the order of the keys is behind nobody in the first key.
LEMMA FirstIsLeast ==
  ASSUME NEW S, IsFiniteSet(S), S # {}, NEW key, NEW n \in Nat, n >= 1, AreKeys(S, key, n)
  PROVE  /\ InOrder(S, key)[1] \in S
         /\ \A p \in S : key[InOrder(S, key)[1]][1] <= key[p][1]
<1>. DEFINE o == InOrder(S, key)
            N == Cardinality(S)
<1>1. N \in Nat /\ N # 0
  BY FS_CardinalityType, FS_EmptySet
<1>2. /\ o \in [1 .. N -> S] /\ \A p \in S : \E i \in 1 .. N : o[i] = p
      /\ \A i, j \in 1 .. N : i < j => Lex(key[o[i]], key[o[j]])
  BY InOrderSorts
<1>. HIDE DEF o, N
<1>3. 1 \in 1 .. N /\ o[1] \in S
  BY <1>1, <1>2
<1>4. ASSUME NEW p \in S PROVE key[o[1]][1] <= key[p][1]
  <2>1. PICK i \in 1 .. N : o[i] = p
    BY <1>2
  <2>2. key[p][1] \in Int /\ key[o[1]][1] \in Int /\ DOMAIN key[o[1]] = 1 .. n
    BY <1>3 DEF AreKeys
  <2>3. CASE i = 1
    BY <2>1, <2>2, <2>3
  <2>4. CASE i # 1
    <3>1. 1 < i
      BY <1>1, <2>4
    <3>2. Lex(key[o[1]], key[p])
      BY <1>2, <1>3, <2>1, <3>1
    <3>3. PICK k \in 1 .. n : key[o[1]][k] < key[p][k] /\ \A j \in 1 .. k - 1 : key[o[1]][j] = key[p][j]
      BY <2>2, <3>2 DEF Lex
    <3>4. CASE k = 1
      BY <2>2, <3>3, <3>4
    <3>5. CASE k # 1
      <4>1. 1 \in 1 .. k - 1
        BY <3>5
      <4>. QED BY <2>2, <3>3, <4>1
    <3>. QED BY <3>4, <3>5
  <2>. QED BY <2>3, <2>4
<1>. QED BY <1>3, <1>4 DEF o

\* A strategy with alternatives: the alternative that keeps fewest keeps no more
\* than anybody who meets the strategy has.
LEMMA ChosenIsSmallest ==
  ASSUME VotersOK, IsStrategy(strategy), strategy.oneOf # <<>>,
         NEW seq \in Seq(Providers), IsMetBy(Range(seq), strategy)
  PROVE  /\ Chosen(seq) \in SUBSET Range(seq) /\ IsMetBy(Chosen(seq), strategy)
         /\ \A S \in SUBSET Range(seq) :
              IsMetBy(S, strategy) => Cardinality(Chosen(seq)) <= Cardinality(S)
<1>. DEFINE D == DOMAIN strategy.oneOf
            H == Range(seq)
            usable == {i \in D : IsMetBy(H, Alone(i))}
            key == [i \in usable |-> << Cardinality(Kept(seq, Alone(i))), RankSum(Kept(seq, Alone(i))), i >>]
            best == InOrder(usable, key)[1]
<1>1. H \in SUBSET Providers
  BY DEF Range
<1>2. ASSUME NEW i \in usable
      PROVE  /\ Kept(seq, Alone(i)) \in SUBSET H /\ IsMetBy(Kept(seq, Alone(i)), Alone(i))
             /\ \A S \in SUBSET Providers :
                  IsMetBy(S, Alone(i)) => Cardinality(Kept(seq, Alone(i))) <= Cardinality(S)
             /\ Cardinality(Kept(seq, Alone(i))) \in Nat /\ RankSum(Kept(seq, Alone(i))) \in Nat
  <2>1. /\ Kept(seq, Alone(i)) \in SUBSET H /\ IsMetBy(Kept(seq, Alone(i)), Alone(i))
        /\ \A S \in SUBSET Providers :
             IsMetBy(S, Alone(i)) => Cardinality(Kept(seq, Alone(i))) <= Cardinality(S)
    <3>1. IsStrategy(Alone(i)) /\ Lists(Alone(i)) = {Append(strategy.allOf, strategy.oneOf[i])}
      BY AloneSound
    <3>. QED BY <3>1, KeptIsSmallest
  <2>. DEFINE K == Kept(seq, Alone(i))
  <2>2. IsFiniteSet(K)
    BY <1>1, <2>1, ProvidersAssumption, FS_Subset
  <2>. HIDE DEF K
  <2>3. Unhealthy \in Int
    BY DEF Unhealthy
  <2>4. IsFiniteSet(K \X (1 .. Unhealthy))
    <3>1. IsFiniteSet(1 .. Unhealthy)
      BY <2>3, FS_Interval
    <3>. QED BY <2>2, <3>1, FS_Product
  <2>5. {x \in K \X (1 .. Unhealthy) : x[2] <= rank[x[1]]} \in SUBSET (K \X (1 .. Unhealthy))
    OBVIOUS
  <2>6. RankSum(K) \in Nat
    BY <2>4, <2>5, FS_Subset, FS_CardinalityType DEF RankSum
  <2>7. Cardinality(K) \in Nat
    BY <2>2, FS_CardinalityType
  <2>. QED BY <2>1, <2>6, <2>7 DEF K
<1>3. usable # {} /\ IsFiniteSet(usable) /\ usable \in SUBSET Nat
  <2>1. \E i \in D : IsMetBy(H, Alone(i))
    BY AloneSound
  <2>2. IsFiniteSet(D) /\ D \in SUBSET Nat
    BY AloneSound
  <2>3. usable \in SUBSET D /\ usable # {}
    BY <2>1
  <2>. HIDE DEF usable, D
  <2>. QED BY <2>2, <2>3, FS_Subset
<1>4. AreKeys(usable, key, 3)
  <2>1. ASSUME NEW i \in usable
        PROVE  DOMAIN key[i] = 1 .. 3 /\ key[i][3] = i /\ i \in Int
               /\ key[i][1] = Cardinality(Kept(seq, Alone(i))) /\ key[i][1] \in Int /\ key[i][2] \in Int
    <3>1. i \in Int
      BY <1>3
    <3>. HIDE DEF usable
    <3>. QED BY <1>2, <3>1
  <2>2. 3 \in 1 .. 3 /\ \A j \in 1 .. 3 : j = 1 \/ j = 2 \/ j = 3
    OBVIOUS
  <2>. HIDE DEF key, usable
  <2>. QED BY <2>1, <2>2 DEF AreKeys
<1>5. \A i \in usable : key[i][1] = Cardinality(Kept(seq, Alone(i)))
  OBVIOUS
<1>6. Chosen(seq) = Kept(seq, Alone(best))
  BY DEF Chosen
<1>. HIDE DEF usable, key
<1>7. best \in usable /\ \A i \in usable : key[best][1] <= key[i][1]
  BY <1>3, <1>4, FirstIsLeast
<1>. HIDE DEF best
<1>8. best \in D
  BY <1>7 DEF usable
<1>9. Chosen(seq) \in SUBSET H /\ IsMetBy(Chosen(seq), strategy)
  BY <1>2, <1>6, <1>7, <1>8, AloneSound
<1>10. ASSUME NEW S \in SUBSET H, IsMetBy(S, strategy)
       PROVE  Cardinality(Chosen(seq)) <= Cardinality(S)
  <2>1. PICK i \in D : IsMetBy(S, Alone(i))
    BY <1>10, AloneSound
  <2>2. S \in SUBSET Providers /\ IsStrategy(Alone(i))
    BY <1>1, AloneSound
  <2>3. IsMetBy(H, Alone(i))
    BY <1>1, <2>1, <2>2, QuorumsGrow
  <2>4. i \in usable
    BY <2>3 DEF usable
  <2>5. Cardinality(Kept(seq, Alone(i))) <= Cardinality(S) /\ Cardinality(Kept(seq, Alone(i))) \in Nat
    BY <1>2, <2>1, <2>2, <2>4
  <2>6. Cardinality(Chosen(seq)) <= Cardinality(Kept(seq, Alone(i))) /\ Cardinality(Chosen(seq)) \in Nat
    BY <1>2, <1>5, <1>6, <1>7, <2>4
  <2>7. Cardinality(S) \in Nat
    BY <2>2, ProvidersAssumption, FS_Subset, FS_CardinalityType
  <2>. QED BY <2>5, <2>6, <2>7
<1>. QED BY <1>9, <1>10

-----------------------------------------------------------------------------
(* DispatchPlan: the order of one call. *)

RankOK == rank \in [Providers -> {Normal, HighLatency, Unhealthy}]

\* Everybody of S at one place of the sequence.
Enumerates(seq, S) ==
  /\ seq \in [1 .. Cardinality(S) -> S]
  /\ \A i, j \in 1 .. Cardinality(S) : seq[i] = seq[j] => i = j
  /\ \A p \in S : \E i \in 1 .. Cardinality(S) : seq[i] = p

\* Ranks, and the index where they tie, tell any two providers apart.
LEMMA RanksAreKeys ==
  ASSUME RankOK, NEW S \in SUBSET Providers
  PROVE  IsFiniteSet(S) /\ AreKeys(S, RankKey, 2)
<1>1. IsFiniteSet(S)
  BY ProvidersAssumption, FS_Subset
<1>2. ASSUME NEW p \in S
      PROVE  /\ DOMAIN RankKey[p] = 1 .. 2 /\ RankKey[p][1] = rank[p] /\ rank[p] \in Int
             /\ RankKey[p][2] = p /\ p \in Int
  <2>1. p \in Providers /\ p \in Int /\ rank[p] \in Int
    BY ProvidersAssumption DEF RankOK, Normal, HighLatency, Unhealthy
  <2>2. RankKey[p] = <<rank[p], p>>
    BY <2>1 DEF RankKey
  <2>. QED BY <2>1, <2>2
<1>3. 2 \in 1 .. 2 /\ \A i \in 1 .. 2 : i = 1 \/ i = 2
  OBVIOUS
<1>. QED BY <1>1, <1>2, <1>3 DEF AreKeys

\* Six numbers in a row.
LEMMA SixNumbers ==
  ASSUME NEW a \in Int, NEW b \in Int, NEW c \in Int, NEW d \in Int, NEW e \in Int, NEW f \in Int
  PROVE  LET w == <<a, b, c>> \o <<d, e, f>> IN
         /\ DOMAIN w = 1 .. 6 /\ \A i \in 1 .. 6 : w[i] \in Int
         /\ w[4] = d /\ w[6] = f
<1>. DEFINE u == <<a, b, c>>
            v == <<d, e, f>>
<1>1. u \in Seq(Int) /\ v \in Seq(Int) /\ Len(u) = 3 /\ Len(v) = 3 /\ v[1] = d /\ v[3] = f
  OBVIOUS
<1>. HIDE DEF u, v
<1>2. PICK w : /\ w = u \o v /\ w \in Seq(Int) /\ Len(w) = Len(u) + Len(v)
               /\ \A i \in 1 .. Len(u) + Len(v) : w[i] = IF i <= Len(u) THEN u[i] ELSE v[i - Len(u)]
  <2>1. u \o v \in Seq(Int)
    BY <1>1, ConcatProperties, Zenon
  <2>2. Len(u \o v) = Len(u) + Len(v)
    BY <1>1, ConcatProperties, Zenon
  <2>3. \A i \in 1 .. Len(u) + Len(v) : (u \o v)[i] = IF i <= Len(u) THEN u[i] ELSE v[i - Len(u)]
    BY <1>1, ConcatProperties, Zenon
  <2>. QED BY <2>1, <2>2, <2>3, Zenon
<1>3. Len(w) = 6 /\ w[4] = v[1] /\ w[6] = v[3]
  BY <1>1, <1>2
<1>4. DOMAIN w = 1 .. 6 /\ \A i \in 1 .. 6 : w[i] \in Int
  <2>1. DOMAIN w = 1 .. Len(w) /\ \A i \in 1 .. Len(w) : w[i] \in Int
    BY <1>2, ElementOfSeq, LenProperties
  <2>. QED BY <1>3, <2>1, Zenon
<1>. QED BY <1>1, <1>2, <1>3, <1>4, Zenon DEF u, v

\* The first of a category's URIs of one entity is one of them.
LEMMA FirstInBucket ==
  ASSUME RankOK, NEW p \in Healthy
  PROVE  /\ First(p) \in Bucket(p) /\ First(p) \in Healthy /\ voters[First(p)] = voters[p]
         /\ Bucket(p) \in SUBSET Providers /\ p \in Bucket(p)
         /\ Turn(p) \in Nat
<1>1. Bucket(p) \in SUBSET Providers /\ p \in Bucket(p)
  BY DEF Bucket, Healthy
<1>2. IsFiniteSet(Bucket(p)) /\ AreKeys(Bucket(p), RankKey, 2)
  BY <1>1, RanksAreKeys
<1>3. First(p) \in Bucket(p)
  BY <1>1, <1>2, FirstIsLeast DEF First
<1>4. {q \in Bucket(p) : Lex(RankKey[q], RankKey[p])} \in SUBSET Bucket(p)
  OBVIOUS
<1>5. Turn(p) \in Nat
  BY <1>2, <1>4, FS_Subset, FS_CardinalityType DEF Turn
<1>. QED BY <1>1, <1>3, <1>5 DEF Bucket

\* Category by category and turn by turn, any two healthy providers are told
\* apart: of one category and entity they have different turns.
LEMMA OrderKeysAreKeys ==
  ASSUME VotersOK, RankOK
  PROVE  AreKeys(Healthy, OrderKey, 6)
<1>1. ASSUME NEW p \in Healthy
      PROVE  /\ DOMAIN OrderKey[p] = 1 .. 6 /\ \A i \in 1 .. 6 : OrderKey[p][i] \in Int
             /\ OrderKey[p][4] = Turn(p) /\ OrderKey[p][6] = First(p)
  <2>. DEFINE c == voters[p].category
              ranks == {rank[q] : q \in {x \in Healthy : voters[x].category = c}}
  <2>1. p \in Providers /\ c \in Range(Categories)
    BY DEF Healthy, VotersOK
  <2>2. ranks \in SUBSET Nat /\ ranks # {}
    BY DEF Healthy, RankOK, Normal, HighLatency, Unhealthy
  <2>3. Min(ranks) \in Int
    <3>. HIDE DEF ranks
    <3>1. Min(ranks) \in ranks
      BY <2>2, FirstExists
    <3>2. \A x \in ranks : x \in Int
      BY <2>2
    <3>. QED BY <3>1, <3>2, Zenon
  <2>4. (CHOOSE i \in DOMAIN Categories : Categories[i] = c) \in Int
    <3>1. \E i \in DOMAIN Categories : Categories[i] = c
      BY <2>1 DEF Range
    <3>2. DOMAIN Categories = 1 .. Len(Categories)
      BY ProvidersAssumption
    <3>. QED BY <3>1, <3>2
  <2>5. Turn(p) \in Int /\ First(p) \in Int /\ rank[First(p)] \in Int
    <3>1. First(p) \in Providers /\ Turn(p) \in Int
      BY FirstInBucket DEF Healthy
    <3>. QED BY <3>1, ProvidersAssumption DEF RankOK, Normal, HighLatency, Unhealthy
  <2>6. PICK x \in Int, y \in Int, z \in Int : CategoryKey(c) = <<x, y, z>>
    <3>. DEFINE required == UNION {DOMAIN strategy.allOf[i] : i \in DOMAIN strategy.allOf}
                x == IF {AnyCategory, c} \cap required # {} THEN 0 ELSE 1
                z == CHOOSE i \in DOMAIN Categories : Categories[i] = c
    <3>1. CategoryKey(c) = <<x, Min(ranks), z>>
      BY Zenon DEF CategoryKey
    <3>2. x \in Int
      OBVIOUS
    <3>. HIDE DEF x
    <3>. QED BY <2>3, <2>4, <3>1, <3>2
  <2>7. OrderKey[p] = <<x, y, z>> \o <<Turn(p), rank[First(p)], First(p)>>
    BY <2>6 DEF OrderKey
  <2>. HIDE DEF c, ranks
  <2>. QED BY <2>5, <2>7, SixNumbers
<1>2. ASSUME NEW p \in Healthy, NEW q \in Healthy, OrderKey[p][4] = OrderKey[q][4], OrderKey[p][6] = OrderKey[q][6]
      PROVE  p = q
  <2>1. First(p) = First(q) /\ Turn(p) = Turn(q)
    BY <1>1, <1>2
  <2>2. voters[p] = voters[q]
    BY <2>1, FirstInBucket
  <2>. DEFINE B == Bucket(p)
  <2>3. B = Bucket(q) /\ p \in B /\ q \in B /\ B \in SUBSET Providers
    BY <2>2, FirstInBucket DEF Bucket
  <2>4. IsFiniteSet(B) /\ AreKeys(B, RankKey, 2)
    BY <2>3, RanksAreKeys
  <2>. DEFINE ahead(y) == Cardinality({x \in B : Lex(RankKey[x], RankKey[y])})
  <2>5. ahead(p) = ahead(q)
    BY <2>1, <2>3 DEF Turn
  <2>. HIDE DEF B
  <2>6. \A y, z \in B : Lex(RankKey[y], RankKey[z]) => ahead(y) \in Nat /\ ahead(z) \in Nat /\ ahead(y) < ahead(z)
    BY <2>4, MoreBefore
  <2>. HIDE DEF ahead
  <2>7. ~ Lex(RankKey[p], RankKey[q]) /\ ~ Lex(RankKey[q], RankKey[p])
    BY <2>3, <2>5, <2>6
  <2>. QED BY <2>3, <2>4, <2>7, LexOrders
<1>3. 4 \in 1 .. 6 /\ 6 \in 1 .. 6
  OBVIOUS
<1>. QED BY <1>1, <1>2, <1>3 DEF AreKeys


\* Places without a gap are the first places.
LEMMA FirstPlaces ==
  ASSUME NEW L \in Nat, NEW J \in SUBSET (1 .. L),
         \A i \in 1 .. L : \A j \in J : i < j => i \in J
  PROVE  J = 1 .. Cardinality(J) /\ Cardinality(J) \in 0 .. L
<1>. DEFINE T == (1 .. L + 1) \ J
<1>1. T # {} /\ T \in SUBSET Nat
  <2>1. L + 1 \in T
    OBVIOUS
  <2>. QED BY <2>1
<1>2. PICK m \in T : \A y \in T : m <= y
  BY <1>1, FirstExists
<1>3. m \in 1 .. L + 1 /\ m \notin J
  OBVIOUS
<1>4. ASSUME NEW x \in 1 .. m - 1 PROVE x \in J
  <2>1. x \in 1 .. L + 1 /\ ~ (m <= x)
    BY <1>3
  <2>. QED BY <1>2, <2>1
<1>5. ASSUME NEW x \in J PROVE x \in 1 .. m - 1
  <2>1. x \in 1 .. L
    OBVIOUS
  <2>2. ~ (m < x)
    <3>1. SUFFICES ASSUME m < x PROVE m \in J
      BY <1>3
    <3>2. m \in 1 .. L
      BY <1>3, <2>1, <3>1
    <3>. QED BY <3>1, <3>2
  <2>3. m # x
    BY <1>3
  <2>. QED BY <1>3, <2>1, <2>2, <2>3
<1>. HIDE DEF T
<1>6. J = 1 .. m - 1
  BY <1>4, <1>5
<1>7. m - 1 \in 0 .. L
  BY <1>3
<1>8. Cardinality(1 .. m - 1) = m - 1
  BY <1>7, FS_Interval
<1>. QED BY <1>6, <1>7, <1>8

\* What is selected comes first: the sequence stays an enumeration, and its first
\* places are taken by the selected ones, all of them.
LEMMA SelectedComeFirst ==
  ASSUME NEW H, IsFiniteSet(H), NEW seq, Enumerates(seq, H), NEW K \in SUBSET H
  PROVE  /\ Enumerates(SelectedFirst(seq, K), H)
         /\ Cardinality(K) \in 0 .. Cardinality(H)
         /\ Prefix(SelectedFirst(seq, K), Cardinality(K)) = K
<1>. DEFINE N == Cardinality(H)
            key == [i \in DOMAIN seq |-> <<IF seq[i] \in K THEN 0 ELSE 1, i>>]
            places == InOrder(DOMAIN seq, key)
            r == SelectedFirst(seq, K)
<1>1. /\ N \in Nat /\ DOMAIN seq = 1 .. N /\ IsFiniteSet(1 .. N) /\ Cardinality(1 .. N) = N
      /\ seq \in [1 .. N -> H] /\ (\A i, j \in 1 .. N : seq[i] = seq[j] => i = j)
      /\ \A p \in H : \E i \in 1 .. N : seq[i] = p
  <2>1. N \in Nat
    BY FS_CardinalityType
  <2>2. /\ seq \in [1 .. N -> H] /\ (\A i, j \in 1 .. N : seq[i] = seq[j] => i = j)
        /\ \A p \in H : \E i \in 1 .. N : seq[i] = p
    BY DEF Enumerates
  <2>. HIDE DEF N
  <2>3. IsFiniteSet(1 .. N) /\ Cardinality(1 .. N) = N
    BY <2>1, FS_Interval
  <2>. QED BY <2>1, <2>2, <2>3
<1>2. \A i \in 1 .. N :
        /\ DOMAIN key[i] = 1 .. 2 /\ key[i][2] = i
        /\ key[i][1] = IF seq[i] \in K THEN 0 ELSE 1
  <2>. HIDE DEF N
  <2>. QED BY <1>1
<1>3. r = [i \in 1 .. N |-> seq[places[i]]]
  <2>. HIDE DEF N
  <2>. QED BY <1>1 DEF SelectedFirst
<1>. HIDE DEF key, r, N
<1>4. AreKeys(1 .. N, key, 2)
  <2>1. 2 \in 1 .. 2 /\ \A i \in 1 .. 2 : i = 1 \/ i = 2
    OBVIOUS
  <2>2. \A i \in 1 .. N : key[i][1] \in Int /\ key[i][2] \in Int
    BY <1>2
  <2>. QED BY <1>2, <2>1, <2>2 DEF AreKeys
<1>5. /\ places \in [1 .. N -> 1 .. N]
      /\ \A i, j \in 1 .. N : places[i] = places[j] => i = j
      /\ \A p \in 1 .. N : \E i \in 1 .. N : places[i] = p
      /\ \A i, j \in 1 .. N : i < j => Lex(key[places[i]], key[places[j]])
  <2>. DEFINE I == 1 .. N
              o == InOrder(I, key)
  <2>1. IsFiniteSet(I) /\ AreKeys(I, key, 2) /\ Cardinality(I) = N /\ places = o
    BY <1>1, <1>4
  <2>. HIDE DEF I
  <2>2. /\ o \in [1 .. Cardinality(I) -> I]
        /\ \A i, j \in 1 .. Cardinality(I) : o[i] = o[j] => i = j
        /\ \A p \in I : \E i \in 1 .. Cardinality(I) : o[i] = p
        /\ \A i, j \in 1 .. Cardinality(I) : i < j => Lex(key[o[i]], key[o[j]])
    BY <2>1, InOrderSorts
  <2>. HIDE DEF o, places
  <2>. QED BY <2>1, <2>2 DEF I
<1>. HIDE DEF places
<1>6. Enumerates(r, H)
  <2>1. r \in [1 .. N -> H]
    BY <1>1, <1>3, <1>5
  <2>2. ASSUME NEW i \in 1 .. N, NEW j \in 1 .. N, r[i] = r[j] PROVE i = j
    <3>1. /\ places[i] \in 1 .. N /\ places[j] \in 1 .. N
          /\ r[i] = seq[places[i]] /\ r[j] = seq[places[j]]
      BY <1>3, <1>5
    <3>2. places[i] = places[j]
      BY <1>1, <2>2, <3>1
    <3>. QED BY <1>5, <3>2
  <2>3. ASSUME NEW p \in H PROVE \E i \in 1 .. N : r[i] = p
    <3>1. PICK j \in 1 .. N : seq[j] = p
      BY <1>1
    <3>2. PICK i \in 1 .. N : places[i] = j
      BY <1>5
    <3>. QED BY <1>3, <3>1, <3>2
  <2>. QED BY <2>1, <2>2, <2>3 DEF Enumerates, N
<1>. DEFINE J == {i \in 1 .. N : r[i] \in K}
<1>7. ASSUME NEW i \in 1 .. N, NEW j \in J, i < j PROVE i \in J
  <2>1. /\ places[i] \in 1 .. N /\ places[j] \in 1 .. N /\ Lex(key[places[i]], key[places[j]])
        /\ seq[places[j]] \in K /\ r[i] = seq[places[i]]
    BY <1>3, <1>5, <1>7
  <2>2. key[places[j]][1] = 0
    BY <1>2, <2>1
  <2>3. PICK k \in 1 .. 2 : /\ key[places[i]][k] < key[places[j]][k]
                            /\ \A l \in 1 .. k - 1 : key[places[i]][l] = key[places[j]][l]
    BY <1>2, <2>1 DEF Lex
  <2>4. key[places[i]][1] # 1
    <3>1. CASE k = 1
      BY <2>2, <2>3, <3>1
    <3>2. CASE k = 2
      <4>1. 1 \in 1 .. k - 1
        BY <3>2
      <4>. QED BY <2>2, <2>3, <4>1
    <3>. QED BY <3>1, <3>2
  <2>5. seq[places[i]] \in K
    BY <1>2, <2>1, <2>4
  <2>. QED BY <2>1, <2>5
<1>8. J = 1 .. Cardinality(J) /\ Cardinality(J) \in 0 .. N
  <2>1. J \in SUBSET (1 .. N)
    OBVIOUS
  <2>. HIDE DEF J
  <2>. QED BY <1>1, <1>7, <2>1, FirstPlaces
<1>9. Cardinality(J) = Cardinality(K)
  <2>. DEFINE f == [i \in J |-> r[i]]
  <2>1. /\ r \in [1 .. N -> H] /\ (\A i, j \in 1 .. N : r[i] = r[j] => i = j)
        /\ \A p \in H : \E i \in 1 .. N : r[i] = p
    BY <1>6 DEF Enumerates, N
  <2>2. f \in Surjection(J, K)
    <3>1. f \in [J -> K]
      OBVIOUS
    <3>2. ASSUME NEW p \in K PROVE \E i \in J : f[i] = p
      <4>1. PICK i \in 1 .. N : r[i] = p
        BY <2>1
      <4>. QED BY <4>1
    <3>. QED BY <3>1, <3>2 DEF Surjection
  <2>3. f \in Injection(J, K)
    BY <2>1 DEF Injection, IsInjective
  <2>4. IsFiniteSet(J)
    BY <1>1, FS_Subset
  <2>. HIDE DEF f, J
  <2>. QED BY <2>2, <2>3, <2>4, FS_Surjection
<1>10. Prefix(r, Cardinality(K)) = K
  <2>1. 1 .. Cardinality(K) = J
    BY <1>8, <1>9
  <2>2. Prefix(r, Cardinality(K)) = {r[i] : i \in J}
    BY <2>1, Zenon DEF Prefix
  <2>3. \A p \in H : \E i \in 1 .. N : r[i] = p
    BY <1>6 DEF Enumerates, N
  <2>4. {r[i] : i \in J} = K
    BY <2>3
  <2>. QED BY <2>2, <2>4
<1>11. Cardinality(K) \in 0 .. N
  BY <1>8, <1>9
<1>. QED BY <1>6, <1>10, <1>11 DEF r, N

\* One vote of any category: whoever is asked first gives it.
LEMMA OneIsEnough ==
  ASSUME VotersOK, IsStrategy(strategy), RanksOnly, NEW S \in SUBSET Providers,
         IsMetBy(S, strategy), NEW p \in Providers
  PROVE  IsMetBy({p}, strategy)
<1>. DEFINE reqs == strategy.allOf
            b == VoterEntities({p})
<1>1. strategy.oneOf = <<>> /\ Lists(strategy) = {reqs} /\ IsRequirementList(reqs)
  BY DEF RanksOnly, Lists, IsStrategy
<1>2. \A X : IsMetBy(X, strategy) <=> CheckRequirementSet(VoterEntities(X), reqs)
  BY <1>1, ListsSound DEF IsMetBy
<1>3. \A i \in DOMAIN reqs : \A c \in DOMAIN reqs[i] : reqs[i][c] # MaxQuorum
  BY <1>2 DEF CheckRequirementSet
<1>4. \A c \in Range(Categories) : Slots(reqs, c) = {}
  <2>1. ASSUME NEW c \in Range(Categories) PROVE Slots(reqs, c) = {}
    <3>1. \A i \in DOMAIN reqs : c \notin DOMAIN reqs[i]
      BY ProvidersAssumption DEF RanksOnly
    <3>. QED BY <3>1 DEF Slots
  <2>. QED BY <2>1
<1>5. CategorySlots(reqs) = {} /\ Cardinality(CategorySlots(reqs)) = 0
      /\ \A c \in Range(Categories) : Need(reqs, c) = 0
  <2>1. CategorySlots(reqs) = {}
    BY <1>4 DEF CategorySlots
  <2>. QED BY <1>4, <2>1, FS_EmptySet DEF Need
<1>6. {p} \in SUBSET Providers
  OBVIOUS
<1>7. /\ DOMAIN b = Range(Categories) /\ IsFiniteSet(Pool(b)) /\ Cardinality(Pool(b)) \in Nat
      /\ \A c \in Range(Categories) :
           b[c] = {voters[y].entity : y \in {q \in {p} : voters[q].category = c}}
  BY <1>6, EntitiesGrow
<1>8. voters[p].entity \in Pool(b)
  <2>1. voters[p].category \in Range(Categories)
    BY DEF VotersOK
  <2>2. voters[p].entity \in b[voters[p].category]
    BY <1>7, <2>1
  <2>. HIDE DEF b
  <2>. QED BY <1>7, <2>1, <2>2 DEF Pool
<1>. HIDE DEF b
<1>9. Cardinality(Pool(b)) >= 1
  <2>1. Cardinality(Pool(b)) # 0
    BY <1>7, <1>8, FS_EmptySet
  <2>. QED BY <1>7, <2>1
<1>10. Fits(b, [c \in Range(Categories) |-> Need(reqs, c)])
  <2>. DEFINE none == [c \in DOMAIN b |-> {}]
  <2>1. none \in [DOMAIN b -> SUBSET Pool(b)]
    OBVIOUS
  <2>2. \A c \in DOMAIN b :
          /\ none[c] \subseteq b[c] /\ Cardinality(none[c]) = [k \in Range(Categories) |-> Need(reqs, k)][c]
          /\ \A d \in DOMAIN b : c # d => none[c] \cap none[d] = {}
    BY <1>5, <1>7, FS_EmptySet
  <2>. HIDE DEF none
  <2>. QED BY <2>1, <2>2 DEF Fits
<1>11. Need(reqs, AnyCategory) <= 1 /\ Need(reqs, AnyCategory) \in Nat
  BY <1>1, SlotsFinite DEF RanksOnly
<1>12. CheckRequirementSet(b, reqs)
  <2>1. Cardinality(Pool(b)) >= Need(reqs, AnyCategory) /\ Cardinality(Pool(b)) >= Cardinality(CategorySlots(reqs))
    <3>. HIDE DEF reqs
    <3>. QED BY <1>5, <1>7, <1>9, <1>11
  <2>. QED BY <1>3, <1>10, <2>1 DEF CheckRequirementSet
<1>. QED BY <1>2, <1>12 DEF b


\* The order of the healthy is an enumeration of them that begins with a smallest
\* set meeting the strategy.
LEMMA OrderedBeginsSmallest ==
  ASSUME VotersOK, RankOK, IsStrategy(strategy), IsMetBy(Healthy, strategy), ~ IsMetBy({}, strategy)
  PROVE  /\ Enumerates(Ordered, Healthy)
         /\ \E k \in 1 .. Cardinality(Healthy) :
              /\ IsMetBy(Prefix(Ordered, k), strategy)
              /\ \A S \in SUBSET Healthy : IsMetBy(S, strategy) => k <= Cardinality(S)
<1>. DEFINE H == Healthy
            N == Cardinality(H)
            seq == InOrder(H, OrderKey)
<1>1. H \in SUBSET Providers /\ IsFiniteSet(H) /\ N \in Nat /\ N # 0 /\ AreKeys(H, RankKey, 2)
  <2>1. H \in SUBSET Providers
    BY DEF Healthy
  <2>2. IsFiniteSet(H) /\ AreKeys(H, RankKey, 2)
    BY <2>1, RanksAreKeys
  <2>3. H # {}
    OBVIOUS
  <2>. QED BY <2>1, <2>2, <2>3, FS_CardinalityType, FS_EmptySet
<1>2. ASSUME NEW S \in SUBSET H, IsMetBy(S, strategy) PROVE Cardinality(S) \in Nat /\ Cardinality(S) # 0
  <2>1. IsFiniteSet(S) /\ S # {}
    BY <1>1, <1>2, FS_Subset
  <2>. QED BY <2>1, FS_CardinalityType, FS_EmptySet
<1>3. CASE RanksOnly
  <2>. DEFINE o == InOrder(H, RankKey)
  <2>1. Ordered = o
    BY <1>3 DEF Ordered
  <2>2. Enumerates(o, H)
    BY <1>1, InOrderSorts DEF Enumerates
  <2>. HIDE DEF o
  <2>3. 1 \in 1 .. N /\ o[1] \in Providers
    BY <1>1, <2>2 DEF Enumerates
  <2>4. Prefix(o, 1) = {o[1]}
    <3>1. \A i \in 1 .. 1 : i = 1
      OBVIOUS
    <3>2. 1 \in 1 .. 1
      OBVIOUS
    <3>. QED BY <3>1, <3>2, Zenon DEF Prefix
  <2>5. IsMetBy(Prefix(o, 1), strategy)
    BY <1>1, <1>3, <2>3, <2>4, OneIsEnough
  <2>6. \A S \in SUBSET H : IsMetBy(S, strategy) => 1 <= Cardinality(S)
    BY <1>2
  <2>. QED BY <2>1, <2>2, <2>3, <2>5, <2>6
<1>4. CASE ~ RanksOnly
  <2>. DEFINE K == IF strategy.oneOf = <<>> THEN Kept(seq, strategy) ELSE Chosen(seq)
              k == Cardinality(K)
  <2>1. Enumerates(seq, H)
    BY <1>1, OrderKeysAreKeys, InOrderSorts DEF Enumerates
  <2>2. Ordered = SelectedFirst(seq, K)
    BY <1>4 DEF Ordered
  <2>. HIDE DEF seq
  <2>3. seq \in Seq(Providers) /\ Range(seq) = H
    <3>. HIDE DEF H, N
    <3>1. /\ seq \in [1 .. N -> H] /\ DOMAIN seq = 1 .. N
          /\ \A p \in H : \E i \in 1 .. N : seq[i] = p
      BY <2>1 DEF Enumerates, N
    <3>2. seq \in [1 .. N -> Providers]
      BY <1>1, <3>1
    <3>3. Range(seq) = H
      BY <3>1 DEF Range
    <3>. QED BY <1>1, <3>2, <3>3
  <2>4. /\ K \in SUBSET H /\ IsMetBy(K, strategy)
        /\ \A S \in SUBSET H : IsMetBy(S, strategy) => k <= Cardinality(S)
    <3>1. CASE strategy.oneOf = <<>>
      <4>1. Lists(strategy) = {strategy.allOf}
        BY <3>1 DEF Lists
      <4>2. /\ Kept(seq, strategy) \in SUBSET Range(seq) /\ IsMetBy(Kept(seq, strategy), strategy)
            /\ \A S \in SUBSET Providers :
                 IsMetBy(S, strategy) => Cardinality(Kept(seq, strategy)) <= Cardinality(S)
        BY <2>3, <4>1, KeptIsSmallest
      <4>3. K = Kept(seq, strategy)
        BY <3>1
      <4>. HIDE DEF K
      <4>. QED BY <1>1, <2>3, <4>2, <4>3
    <3>2. CASE strategy.oneOf # <<>>
      <4>1. /\ Chosen(seq) \in SUBSET Range(seq) /\ IsMetBy(Chosen(seq), strategy)
            /\ \A S \in SUBSET Range(seq) :
                 IsMetBy(S, strategy) => Cardinality(Chosen(seq)) <= Cardinality(S)
        BY <2>3, <3>2, ChosenIsSmallest
      <4>2. K = Chosen(seq)
        BY <3>2
      <4>. HIDE DEF K
      <4>. QED BY <2>3, <4>1, <4>2
    <3>. QED BY <3>1, <3>2
  <2>. HIDE DEF K
  <2>5. /\ Enumerates(Ordered, H) /\ k \in 0 .. N /\ Prefix(Ordered, k) = K
    BY <1>1, <2>1, <2>2, <2>4, SelectedComeFirst
  <2>6. k # 0
    BY <1>2, <2>4
  <2>7. k \in 1 .. N
    <3>. HIDE DEF k, N
    <3>. QED BY <1>1, <2>5, <2>6
  <2>. QED BY <2>4, <2>5, <2>7
<1>. QED BY <1>3, <1>4

\* The first wave is the smallest prefix that meets the strategy.
LEMMA WaveIsSmallest ==
  ASSUME NEW N \in Nat, NEW o, DOMAIN o = 1 .. N, Len(o) = N,
         NEW k \in 1 .. N, IsMetBy(Prefix(o, k), strategy)
  PROVE  FirstWave(o) \in 1 .. N /\ FirstWave(o) <= k /\ IsMetBy(Prefix(o, FirstWave(o)), strategy)
<1>. DEFINE enough == {n \in 1 .. N : IsMetBy(Prefix(o, n), strategy)}
<1>1. FirstWave(o) = Min(enough)
  <2>1. enough # {}
    OBVIOUS
  <2>2. FirstWave(o) = IF enough = {} THEN Len(o) ELSE Min(enough)
    BY DEF FirstWave
  <2>. QED BY <2>1, <2>2
<1>2. enough \in SUBSET Nat /\ k \in enough
  OBVIOUS
<1>. HIDE DEF enough
<1>3. Min(enough) \in enough /\ \A y \in enough : Min(enough) <= y
  BY <1>2, FirstExists
<1>. QED BY <1>1, <1>2, <1>3 DEF enough

\* A plan asks every provider once, the healthy ones first, and at first no more
\* of them than whoever meets the strategy needs.
PlanOK(o, w) ==
  /\ Range(o) = Providers /\ IsInjective(o)
  /\ \A i, j \in DOMAIN o : i < j /\ rank[o[i]] = Unhealthy => rank[o[j]] = Unhealthy
  /\ Prefix(o, w) \subseteq Healthy /\ IsMetBy(Prefix(o, w), strategy)
  /\ \A S \in SUBSET Healthy : IsMetBy(S, strategy) => w <= Cardinality(S)

\* One enumeration after another.
LEMMA JoinedEnumerations ==
  ASSUME NEW A, NEW B, IsFiniteSet(A), IsFiniteSet(B), A \cap B = {},
         NEW s, NEW t, Enumerates(s, A), Enumerates(t, B)
  PROVE  LET n == Cardinality(A)
             m == Cardinality(B)
         IN /\ n \in Nat /\ m \in Nat /\ Len(s) = n /\ DOMAIN (s \o t) = 1 .. n + m
            /\ Range(s \o t) = A \cup B /\ IsInjective(s \o t)
            /\ \A i \in 1 .. n + m : (s \o t)[i] \in B <=> n < i
            /\ \A i \in 1 .. n : (s \o t)[i] = s[i]
<1>. DEFINE n == Cardinality(A)
            m == Cardinality(B)
            C == A \cup B
<1>1. n \in Nat /\ m \in Nat
  BY FS_CardinalityType
<1>2. /\ s \in [1 .. n -> A] /\ (\A i, j \in 1 .. n : s[i] = s[j] => i = j)
      /\ \A p \in A : \E i \in 1 .. n : s[i] = p
  BY DEF Enumerates
<1>3. /\ t \in [1 .. m -> B] /\ (\A i, j \in 1 .. m : t[i] = t[j] => i = j)
      /\ \A p \in B : \E i \in 1 .. m : t[i] = p
  BY DEF Enumerates
<1>. HIDE DEF n, m
<1>4. s \in Seq(C) /\ t \in Seq(C) /\ Len(s) = n /\ Len(t) = m
  <2>1. s \in [1 .. n -> C] /\ t \in [1 .. m -> C] /\ DOMAIN s = 1 .. n /\ DOMAIN t = 1 .. m
    BY <1>2, <1>3
  <2>. HIDE DEF C
  <2>. QED BY <1>1, <2>1
<1>. HIDE DEF C
<1>5. PICK o : /\ o = s \o t /\ o \in Seq(C) /\ Len(o) = Len(s) + Len(t)
               /\ \A i \in 1 .. Len(s) + Len(t) : o[i] = IF i <= Len(s) THEN s[i] ELSE t[i - Len(s)]
  <2>1. s \o t \in Seq(C)
    BY <1>4, ConcatProperties, Zenon
  <2>2. Len(s \o t) = Len(s) + Len(t)
    BY <1>4, ConcatProperties, Zenon
  <2>3. \A i \in 1 .. Len(s) + Len(t) : (s \o t)[i] = IF i <= Len(s) THEN s[i] ELSE t[i - Len(s)]
    BY <1>4, ConcatProperties, Zenon
  <2>. QED BY <2>1, <2>2, <2>3, Zenon
<1>6. DOMAIN o = 1 .. n + m
  BY <1>1, <1>4, <1>5
<1>7. \A i \in 1 .. n : i \in 1 .. n + m /\ o[i] = s[i] /\ o[i] \in A
  BY <1>1, <1>2, <1>4, <1>5
<1>8. ASSUME NEW i \in 1 .. n + m, n < i PROVE i - n \in 1 .. m /\ o[i] = t[i - n] /\ o[i] \in B
  <2>1. i - n \in 1 .. m
    BY <1>1, <1>8
  <2>2. o[i] = t[i - n]
    BY <1>1, <1>4, <1>5, <1>8
  <2>. QED BY <1>3, <2>1, <2>2
<1>9. \A i \in 1 .. n + m : i \in 1 .. n \/ n < i
  BY <1>1
<1>10. \A i \in 1 .. n : ~ (n < i)
  BY <1>1
<1>11. \A i \in 1 .. n + m : o[i] \in B <=> n < i
  BY <1>7, <1>8, <1>9, <1>10
<1>12. Range(o) = C
  <2>1. ASSUME NEW p \in A PROVE \E i \in 1 .. n + m : o[i] = p
    BY <1>2, <1>7
  <2>2. ASSUME NEW p \in B PROVE \E i \in 1 .. n + m : o[i] = p
    <3>1. PICK i \in 1 .. m : t[i] = p
      BY <1>3
    <3>2. n + i \in 1 .. n + m /\ n < n + i /\ (n + i) - n = i
      BY <1>1
    <3>. QED BY <1>8, <3>1, <3>2
  <2>3. \A i \in 1 .. n + m : o[i] \in A \cup B
    BY <1>7, <1>8, <1>9
  <2>. QED BY <1>6, <2>1, <2>2, <2>3 DEF Range, C
<1>13. ASSUME NEW i \in 1 .. n + m, NEW j \in 1 .. n + m, o[i] = o[j] PROVE i = j
  <2>1. CASE n < i
    <3>1. n < j
      BY <1>11, <1>13, <2>1
    <3>2. t[i - n] = t[j - n] /\ i - n \in 1 .. m /\ j - n \in 1 .. m
      BY <1>8, <1>13, <2>1, <3>1
    <3>3. i - n = j - n
      BY <1>3, <3>2
    <3>. QED BY <1>1, <3>3
  <2>2. CASE ~ (n < i)
    <3>1. ~ (n < j)
      BY <1>11, <1>13, <2>2
    <3>2. i \in 1 .. n /\ j \in 1 .. n
      BY <1>9, <2>2, <3>1
    <3>. QED BY <1>2, <1>7, <1>13, <3>2
  <2>. QED BY <2>1, <2>2
<1>14. IsInjective(o)
  BY <1>6, <1>13 DEF IsInjective
<1>. QED BY <1>1, <1>4, <1>5, <1>6, <1>7, <1>11, <1>12, <1>14 DEF n, m, C

\* What is planned for a loaded strategy that the healthy can meet.
LEMMA PlanIsOK ==
  ASSUME VotersOK, RankOK, IsStrategy(strategy), IsMetBy(Healthy, strategy), ~ IsMetBy({}, strategy)
  PROVE  PlanOK(WithUnhealthy(Ordered), FirstWave(Ordered))
<1>. DEFINE H == Healthy
            B == Providers \ Healthy
            t == InOrder(B, RankKey)
            s == Ordered
            n == Cardinality(H)
            m == Cardinality(B)
            w == FirstWave(s)
            o == s \o t
<1>1. Enumerates(s, H)
  BY OrderedBeginsSmallest
<1>2. PICK k \in 1 .. n :
        /\ IsMetBy(Prefix(s, k), strategy)
        /\ \A S \in SUBSET H : IsMetBy(S, strategy) => k <= Cardinality(S)
  BY OrderedBeginsSmallest
<1>3. H \in SUBSET Providers /\ B \in SUBSET Providers /\ H \cap B = {} /\ H \cup B = Providers
  BY DEF Healthy
<1>4. IsFiniteSet(H) /\ IsFiniteSet(B) /\ AreKeys(B, RankKey, 2)
  BY <1>3, RanksAreKeys
<1>5. Enumerates(t, B)
  <2>. HIDE DEF B
  <2>. QED BY <1>4, InOrderSorts DEF Enumerates
<1>6. \A p \in Providers : p \in B <=> rank[p] = Unhealthy
  BY DEF Healthy
<1>7. WithUnhealthy(Ordered) = o
  BY DEF WithUnhealthy
<1>. HIDE DEF H, B, t, s
<1>8. /\ n \in Nat /\ m \in Nat /\ Len(s) = n /\ DOMAIN o = 1 .. n + m
      /\ Range(o) = H \cup B /\ IsInjective(o)
      /\ \A i \in 1 .. n + m : o[i] \in B <=> n < i
      /\ \A i \in 1 .. n : o[i] = s[i]
  BY <1>1, <1>3, <1>4, <1>5, JoinedEnumerations, ZenonT(60)
<1>9. s \in [1 .. n -> H] /\ DOMAIN s = 1 .. n
  BY <1>1 DEF Enumerates
<1>. HIDE DEF o, n, m
<1>10. w \in 1 .. n /\ w <= k /\ IsMetBy(Prefix(s, w), strategy)
  BY <1>2, <1>8, <1>9, WaveIsSmallest
<1>. HIDE DEF w
<1>11. Prefix(o, w) = Prefix(s, w) /\ Prefix(o, w) \subseteq H
  <2>1. \A i \in 1 .. w : o[i] = s[i] /\ o[i] \in H
    BY <1>8, <1>9, <1>10
  <2>. QED BY <2>1 DEF Prefix
<1>12. \A S \in SUBSET H : IsMetBy(S, strategy) => w <= Cardinality(S)
  <2>1. ASSUME NEW S \in SUBSET H, IsMetBy(S, strategy) PROVE w <= Cardinality(S)
    <3>1. Cardinality(S) \in Nat
      BY <1>4, FS_Subset, FS_CardinalityType
    <3>2. k <= Cardinality(S) /\ k \in Int /\ w \in Int
      BY <1>2, <1>10, <2>1
    <3>. QED BY <1>10, <3>1, <3>2
  <2>. QED BY <2>1
<1>13. ASSUME NEW i \in DOMAIN o, NEW j \in DOMAIN o, i < j, rank[o[i]] = Unhealthy
       PROVE  rank[o[j]] = Unhealthy
  <2>1. o[i] \in Providers /\ o[j] \in Providers /\ i \in 1 .. n + m /\ j \in 1 .. n + m
    BY <1>3, <1>8 DEF Range
  <2>2. n < i
    BY <1>6, <1>8, <1>13, <2>1
  <2>3. n < j
    BY <1>8, <1>13, <2>1, <2>2
  <2>. QED BY <1>6, <1>8, <2>1, <2>3
<1>14. Range(o) = Providers
  BY <1>3, <1>8
<1>15. PlanOK(o, w)
  BY <1>8, <1>10, <1>11, <1>12, <1>13, <1>14 DEF PlanOK, H
<1>. QED BY <1>7, <1>15 DEF w, s


\* What planning keeps: the tracker's ranks, and a plan that is in order.
WaveInv == PlanInv /\ RankOK /\ (phase = "planned" => PlanOK(order, wave))

\* Planning makes such a plan, and nothing is changed of it or of what it was made
\* from afterwards.
LEMMA WaveStep == WaveInv /\ [PlanNext]_planVars => WaveInv'
<1>. SUFFICES ASSUME WaveInv, [PlanNext]_planVars PROVE WaveInv'
  OBVIOUS
<1>1. PlanInv'
  BY PlanStep DEF WaveInv
<1>2. rank' = rank /\ RankOK'
  <2>1. rank' = rank
    BY DEF PlanNext, Load, Plan, planVars
  <2>. QED BY <2>1 DEF WaveInv, RankOK
<1>3. ASSUME phase' = "planned" PROVE PlanOK(order, wave)'
  <2>1. UNCHANGED <<voters, strategy>>
    BY <1>3 DEF PlanNext, Load, Plan, planVars
  <2>2. PICK o : o = order'
    OBVIOUS
  <2>3. PICK w : w = wave'
    OBVIOUS
  <2>4. PlanOK(o, w)
    <3>1. CASE phase = "planned"
      <4>1. order' = order /\ wave' = wave
        BY <3>1 DEF PlanNext, Load, Plan, planVars
      <4>. QED BY <2>2, <2>3, <3>1, <4>1 DEF WaveInv
    <3>2. CASE phase # "planned"
      <4>1. /\ phase = "loaded" /\ IsMetBy(Healthy, strategy)
            /\ o = WithUnhealthy(Ordered) /\ w = FirstWave(Ordered)
        BY <1>3, <2>2, <2>3, <3>2 DEF PlanNext, Load, Plan, planVars
      <4>2. IsStrategy(strategy) /\ ~ IsMetBy({}, strategy) /\ VotersOK /\ RankOK
        BY <4>1, LoadedStrategy DEF WaveInv, PlanInv, Loaded
      <4>. QED BY <4>1, <4>2, PlanIsOK
    <3>. QED BY <3>1, <3>2
  <2>5. Healthy' = Healthy
    BY <1>2 DEF Healthy
  <2>6. \A S, s : IsMetBy(S, s)' = IsMetBy(S, s)
    BY <2>1 DEF IsMetBy, VoterEntities
  <2>7. PlanOK(o, w)'
    BY <1>2, <2>1, <2>4, <2>5, <2>6 DEF PlanOK
  <2>. QED BY <2>2, <2>3, <2>7
<1>. QED BY <1>1, <1>2, <1>3 DEF WaveInv

\* The first wave meets the strategy and no fewer healthy providers could, for every
\* pool, strategy and rank, and every provider is asked once, the healthy ones first
\* (order_providers_for_quorum, minimal_satisfying_selection, plan_dispatch_for_keys).
THEOREM FirstWaveIsSmallest == PlanSpec => []FirstWaveMinimal
<1>1. PlanInit => WaveInv
  <2>1. PlanInit => PlanInv /\ RankOK /\ phase = "file"
    BY DEF PlanInit, PlanInv, VotersOK, RankOK, Loaded
  <2>. QED BY <2>1 DEF WaveInv
<1>2. WaveInv => FirstWaveMinimal
  BY DEF WaveInv, PlanOK, FirstWaveMinimal, PlanCoversPool
<1>. QED BY <1>1, <1>2, WaveStep, PTL DEF PlanSpec

-----------------------------------------------------------------------------
(* Assignment: the invariant. *)

AssignTypeOK ==
  /\ counts \in [SlotCategories -> SUBSET SlotEntities] /\ slots \in Seq(SlotCategories)
  /\ filled \in 0 .. Len(slots) /\ owner \in [SlotEntities -> SlotCategories \cup {NoCategory}]
  /\ passed \in [SlotCategories -> SUBSET SlotEntities]
  /\ seen \subseteq SlotCategories /\ frontier \subseteq seen
  /\ via \in [SlotCategories -> (SlotCategories \cup {NoCategory}) \X Nat]
  /\ pc \in {"slot", "search", "flip", "yes", "no"}

\* The entities that are held, each by a category it belongs to.
Owned == {e \in SlotEntities : owner[e] # NoCategory}
OwnedOK ==
  /\ \A e \in Owned : e \in counts[owner[e]]
  /\ \A c \in SlotCategories : passed[c] \subseteq Owned

\* m gives each of the first n slots an entity of X that its category holds,
\* and none is left over.
Matching(m, X, own, n) ==
  /\ m \in [1 .. n -> X]
  /\ \A i, j \in 1 .. n : m[i] = m[j] => i = j
  /\ \A i \in 1 .. n : own[m[i]] = slots[i]
  /\ \A e \in X : \E i \in 1 .. n : m[i] = e

\* Between slots every held entity is in a slot.  While entities are handed
\* over, the category at has one more than its slots.
Matched == \E m \in [1 .. filled -> Owned] : Matching(m, Owned, owner, filled)
Spare ==
  \E x \in Owned :
    /\ owner[x] = at
    /\ \E m \in [1 .. filled -> Owned \ {x}] : Matching(m, Owned \ {x}, owner, filled)

\* The search is a tree: whoever was reached holds an entity that its
\* predecessor, which is nearer to the start, could use.
Tree(d) ==
  \A c \in seen \ {Start} :
    via[c][1] \in seen /\ d[via[c][1]] < d[c] /\ via[c][2] \in counts[via[c][1]]
SearchTree ==
  \E d \in [SlotCategories -> Nat] : Tree(d) /\ \A c \in seen \ {Start} : owner[via[c][2]] = c

\* The part of it that the hand-overs still have to go is as it was found.
FlipTree ==
  \E d \in [SlotCategories -> Nat] :
    Tree(d) /\ \A c \in seen \ {Start} : d[c] <= d[at] => owner[via[c][2]] = c

\* What was popped has no free entity and no holder the search has not reached.
Closed == \A c \in seen \ frontier : \A e \in counts[c] : owner[e] \in seen

AssignInv ==
  /\ AssignTypeOK /\ OwnedOK
  /\ pc # "flip" => Matched
  /\ pc \in {"search", "flip", "no"} => filled < Len(slots) /\ Start \in seen
  /\ pc = "search" => SearchTree
  /\ pc \in {"search", "no"} => Closed
  /\ pc = "no" => frontier = {}
  /\ pc = "flip" => at \in seen /\ Spare /\ FlipTree
  /\ pc = "yes" => filled = Len(slots)

-----------------------------------------------------------------------------
(* Assignment: every step keeps it, and it makes the answer right. *)

\* A slot more, and an entity for it.
LEMMA MatchingGrows ==
  ASSUME AssignTypeOK, NEW n \in Nat, NEW X, NEW own, NEW m, Matching(m, X, own, n),
         NEW x, x \notin X, NEW new, \A e \in X : new[e] = own[e], new[x] = slots[n + 1]
  PROVE  \E k \in [1 .. n + 1 -> X \cup {x}] : Matching(k, X \cup {x}, new, n + 1)
<1>. DEFINE k == [i \in 1 .. n + 1 |-> IF i = n + 1 THEN x ELSE m[i]]
<1>1. \A i \in 1 .. n + 1 : i = n + 1 \/ (i \in 1 .. n /\ m[i] \in X)
  BY DEF Matching
<1>2. k \in [1 .. n + 1 -> X \cup {x}]
  BY <1>1
<1>3. \A i \in 1 .. n : i \in 1 .. n + 1 /\ i # n + 1
  OBVIOUS
<1>4. k[n + 1] = x /\ \A i \in 1 .. n : k[i] = m[i]
  BY <1>3
<1>. HIDE DEF k
<1>5. \A i, j \in 1 .. n + 1 : k[i] = k[j] => i = j
  BY <1>1, <1>4 DEF Matching
<1>6. \A i \in 1 .. n + 1 : new[k[i]] = slots[i]
  BY <1>1, <1>4 DEF Matching
<1>7. \A e \in X \cup {x} : \E i \in 1 .. n + 1 : k[i] = e
  <2>1. n + 1 \in 1 .. n + 1
    OBVIOUS
  <2>2. \A e \in X : \E i \in 1 .. n : m[i] = e
    BY DEF Matching
  <2>. QED BY <1>3, <1>4, <2>1, <2>2
<1>8. Matching(k, X \cup {x}, new, n + 1)
  BY <1>2, <1>5, <1>6, <1>7 DEF Matching
<1>. QED BY <1>2, <1>8

\* A hand-over: the slot of y, if it has one, takes the spare entity x of the
\* same category, and y is the spare one.
LEMMA MatchingSwaps ==
  ASSUME NEW n \in Nat, NEW X, NEW own, NEW m, NEW x \in X, Matching(m, X \ {x}, own, n),
         NEW y \in X, own[x] = own[y], NEW new, \A e \in X \ {y} : new[e] = own[e]
  PROVE  \E k \in [1 .. n -> X \ {y}] : Matching(k, X \ {y}, new, n)
<1>. DEFINE k == [i \in 1 .. n |-> IF m[i] = y THEN x ELSE m[i]]
<1>1. \A i \in 1 .. n : m[i] \in X /\ m[i] # x /\ own[m[i]] = slots[i]
  BY DEF Matching
<1>2. \A i \in 1 .. n : k[i] = IF m[i] = y THEN x ELSE m[i]
  OBVIOUS
<1>3. k \in [1 .. n -> X \ {y}]
  BY <1>1
<1>. HIDE DEF k
<1>4. \A i, j \in 1 .. n : k[i] = k[j] => i = j
  BY <1>1, <1>2 DEF Matching
<1>5. \A i \in 1 .. n : new[k[i]] = slots[i]
  BY <1>1, <1>2
<1>6. ASSUME NEW e \in X \ {y} PROVE \E i \in 1 .. n : k[i] = e
  <2>1. CASE e = x
    <3>1. PICK i \in 1 .. n : m[i] = y
      BY <2>1 DEF Matching
    <3>. QED BY <1>2, <2>1, <3>1
  <2>2. CASE e # x
    <3>1. PICK i \in 1 .. n : m[i] = e
      BY <2>2 DEF Matching
    <3>. QED BY <1>2, <3>1
  <2>. QED BY <2>1, <2>2
<1>7. Matching(k, X \ {y}, new, n)
  BY <1>3, <1>4, <1>5, <1>6 DEF Matching
<1>. QED BY <1>3, <1>7

\* A step that moves no entity and no slot keeps the matching.
LEMMA MatchedKept ==
  ASSUME Matched, slots' = slots, filled' = filled, owner' = owner
  PROVE  Owned' = Owned /\ Matched'
<1>1. Owned' = Owned
  BY DEF Owned
<1>2. PICK m \in [1 .. filled -> Owned] : Matching(m, Owned, owner, filled)
  BY DEF Matched
<1>3. Matching(m, Owned, owner, filled)'
  BY <1>1, <1>2 DEF Matching
<1>4. m \in [1 .. filled -> Owned]'
  BY <1>1, <1>2
<1>. QED BY <1>1, <1>3, <1>4 DEF Matched

\* Nothing is held before the first slot.
LEMMA AssignInitInv == ASSUME AssignInit PROVE AssignInv
<1>. USE SlotsAssumption
<1>1. slots \in Seq(SlotCategories) /\ Len(slots) \in Nat
  <2>1. PICK n \in 0 .. MaxSlots : slots \in [1 .. n -> SlotCategories]
    BY DEF AssignInit
  <2>. QED BY <2>1
<1>2. AssignTypeOK
  BY <1>1 DEF AssignInit, AssignTypeOK
<1>3. Owned = {}
  BY DEF AssignInit, Owned
<1>4. OwnedOK
  BY <1>3 DEF OwnedOK, AssignInit
<1>5. Matched
  <2>1. 1 .. filled = {}
    BY DEF AssignInit
  <2>. DEFINE m == [i \in {} |-> 0]
  <2>2. m \in [1 .. filled -> Owned] /\ Matching(m, Owned, owner, filled)
    BY <1>3, <2>1 DEF Matching
  <2>. QED BY <2>2 DEF Matched
<1>. QED BY <1>2, <1>4, <1>5 DEF AssignInv, AssignInit

\* A slot is filled from the entities nobody holds, or the search begins.
LEMMA SlotStep == ASSUME AssignInv, Slot PROVE AssignInv'
<1>. USE SlotsAssumption
<1>1. /\ pc = "slot" /\ filled < Len(slots) /\ Matched /\ UNCHANGED <<counts, slots, at>>
      /\ AssignTypeOK /\ OwnedOK
  BY DEF Slot, AssignInv
<1>2. /\ Len(slots) \in Nat /\ filled \in Nat /\ filled + 1 \in 1 .. Len(slots)
      /\ Start \in SlotCategories /\ counts[Start] \subseteq SlotEntities
      /\ slots' = slots /\ counts' = counts
  BY <1>1 DEF AssignTypeOK, Start
<1>3. /\ Passing(Start) \subseteq counts[Start]
      /\ Passing(Start) \subseteq Owned
      /\ passed' = [passed EXCEPT ![Start] = Passing(Start)]
  <2>1. ASSUME NEW e \in Passing(Start) PROVE e \in Owned
    <3>0. e \in counts[Start]
      BY DEF Passing
    <3>1. e \in counts[Start] /\ e <= e /\ e \in SlotEntities
      <4>1. e \in SlotEntities
        BY <1>2, <3>0
      <4>2. e \in Nat
        BY <4>1
      <4>. QED BY <3>0, <4>1, <4>2
    <3>2. e \in passed[Start] \/ owner[e] # NoCategory
      BY <3>1 DEF Passing
    <3>. QED BY <1>1, <1>2, <3>1, <3>2 DEF OwnedOK, Owned
  <2>. QED BY <2>1 DEF Passing, Slot
<1>4. /\ passed' \in [SlotCategories -> SUBSET SlotEntities] /\ passed'[Start] = Passing(Start)
      /\ \A c \in SlotCategories : passed'[c] \subseteq Owned
  BY <1>1, <1>2, <1>3 DEF AssignTypeOK, OwnedOK, Owned
<1>5. CASE passed'[Start] # counts[Start]
  <2>. DEFINE T == counts[Start] \ passed'[Start]
              x == Min(T)
  <2>1. /\ owner' = [owner EXCEPT ![x] = Start] /\ filled' = filled + 1
        /\ UNCHANGED <<frontier, seen, via, pc>>
    BY <1>5 DEF Slot
  <2>2. x \in T /\ \A y \in T : x <= y
    <3>1. T \in SUBSET Nat /\ T # {}
      BY <1>2, <1>3, <1>4, <1>5
    <3>. HIDE DEF T
    <3>. QED BY <3>1, FirstExists
  <2>. HIDE DEF x
  <2>3. x \in SlotEntities /\ x \in counts[Start] /\ x \in Nat
    BY <1>2, <2>2
  <2>4. owner[x] = NoCategory
    <3>1. PICK y \in counts[Start] : y <= x /\ ~ (y \in passed[Start] \/ owner[y] # NoCategory)
      BY <1>4, <2>2, <2>3 DEF Passing
    <3>2. y \notin Passing(Start)
      <4>1. y <= y
        BY <1>2
      <4>. QED BY <3>1, <4>1 DEF Passing
    <3>3. y \in T /\ y \in Nat
      BY <1>2, <1>4, <3>1, <3>2
    <3>4. x <= y
      BY <2>2, <3>3
    <3>5. x = y
      BY <2>3, <3>1, <3>3, <3>4
    <3>. QED BY <3>1, <3>5
  <2>. HIDE DEF T
  <2>5. /\ owner' \in [SlotEntities -> SlotCategories \cup {NoCategory}] /\ owner'[x] = Start
        /\ \A e \in SlotEntities \ {x} : owner'[e] = owner[e]
    BY <1>1, <1>2, <2>1, <2>3 DEF AssignTypeOK
  <2>6. Owned' = Owned \cup {x} /\ x \notin Owned
    BY <1>2, <2>3, <2>4, <2>5 DEF Owned
  <2>7. AssignTypeOK'
    BY <1>1, <1>2, <1>4, <2>1, <2>5 DEF AssignTypeOK
  <2>8. OwnedOK'
    BY <1>1, <1>2, <1>4, <2>3, <2>5, <2>6 DEF OwnedOK, Owned
  <2>9. Matched'
    <3>1. PICK m \in [1 .. filled -> Owned] : Matching(m, Owned, owner, filled)
      BY <1>1 DEF Matched
    <3>2. (\A e \in Owned : owner'[e] = owner[e]) /\ owner'[x] = slots[filled + 1]
      BY <2>5, <2>6 DEF Owned, Start
    <3>3. \E k \in [1 .. filled + 1 -> Owned \cup {x}] :
            Matching(k, Owned \cup {x}, owner', filled + 1)
      BY <1>1, <1>2, <2>6, <3>1, <3>2, MatchingGrows
    <3>4. PICK k \in [1 .. filled' -> Owned'] : Matching(k, Owned', owner', filled')
      BY <2>1, <2>6, <3>3
    <3>5. Matching(k, Owned, owner, filled)'
      BY <1>2, <3>4 DEF Matching
    <3>. QED BY <3>5 DEF Matched
  <2>. QED BY <1>1, <2>1, <2>7, <2>8, <2>9 DEF AssignInv
<1>6. CASE passed'[Start] = counts[Start]
  <2>1. /\ frontier' = {Start} /\ seen' = {Start} /\ pc' = "search" /\ UNCHANGED <<owner, filled>>
        /\ via' = [c \in SlotCategories |-> <<NoCategory, 0>>]
    BY <1>6 DEF Slot
  <2>2. Owned' = Owned /\ Start' = Start
    BY <1>2, <2>1 DEF Owned, Start
  <2>3. AssignTypeOK'
    BY <1>1, <1>2, <1>4, <2>1 DEF AssignTypeOK
  <2>4. OwnedOK' /\ Matched'
    <3>1. OwnedOK'
      BY <1>1, <1>2, <1>4, <2>1, <2>2 DEF OwnedOK
    <3>2. Matched'
      BY <1>1, <1>2, <2>1, MatchedKept
    <3>. QED BY <3>1, <3>2
  <2>5. SearchTree'
    <3>. DEFINE d == [c \in SlotCategories |-> 0]
    <3>1. d \in [SlotCategories -> Nat] /\ (seen \ {Start})' = {}
      BY <2>1, <2>2
    <3>. HIDE DEF d
    <3>2. Tree(d)' /\ \A c \in seen' \ {Start'} : owner'[via'[c][2]] = c
      BY <3>1 DEF Tree
    <3>. QED BY <3>1, <3>2 DEF SearchTree
  <2>. QED BY <1>1, <1>2, <2>1, <2>2, <2>3, <2>4, <2>5 DEF AssignInv, Closed
<1>. QED BY <1>5, <1>6

\* A category is popped: it gets a free entity to spare, or its entities'
\* holders are reached.
LEMMA SearchStep == ASSUME AssignInv, NEW c \in SlotCategories, Search(c) PROVE AssignInv'
<1>. USE SlotsAssumption
<1>1. /\ pc = "search" /\ c \in frontier /\ filled < Len(slots) /\ Start \in seen
      /\ Matched /\ SearchTree /\ Closed /\ AssignTypeOK /\ OwnedOK
      /\ UNCHANGED <<counts, slots, filled, passed>>
  BY DEF Search, AssignInv
<1>2. c \in seen /\ Start' = Start /\ counts[c] \subseteq SlotEntities
      /\ slots' = slots /\ counts' = counts /\ filled' = filled /\ passed' = passed
  BY <1>1 DEF AssignTypeOK, Start
<1>3. PICK d \in [SlotCategories -> Nat] :
        Tree(d) /\ \A k \in seen \ {Start} : owner[via[k][2]] = k
  BY <1>1 DEF SearchTree
<1>4. CASE Free(c) # {}
  <2>0. PICK x : x = Min(Free(c))
    OBVIOUS
  <2>1. /\ owner' = [owner EXCEPT ![x] = c] /\ at' = c /\ pc' = "flip"
        /\ UNCHANGED <<frontier, seen, via>>
    BY <1>4, <2>0 DEF Search
  <2>2. x \in Free(c)
    <3>1. Free(c) \in SUBSET Nat
      BY <1>2 DEF Free
    <3>. QED BY <1>4, <2>0, <3>1, FirstExists
  <2>3. x \in SlotEntities /\ x \in counts[c] /\ owner[x] = NoCategory
    BY <1>2, <2>2 DEF Free
  <2>4. /\ owner' \in [SlotEntities -> SlotCategories \cup {NoCategory}] /\ owner'[x] = c
        /\ \A e \in SlotEntities \ {x} : owner'[e] = owner[e]
    BY <1>1, <2>1, <2>3 DEF AssignTypeOK
  <2>5. Owned' = Owned \cup {x} /\ x \notin Owned
    BY <2>3, <2>4 DEF Owned
  <2>6. AssignTypeOK'
    BY <1>1, <2>1, <2>4 DEF AssignTypeOK
  <2>7. OwnedOK'
    BY <1>1, <1>2, <2>3, <2>4, <2>5 DEF OwnedOK, Owned
  <2>8. Spare'
    <3>1. PICK m \in [1 .. filled -> Owned] : Matching(m, Owned, owner, filled)
      BY <1>1 DEF Matched
    <3>2. Owned' \ {x} = Owned /\ \A e \in Owned : owner'[e] = owner[e]
      BY <2>4, <2>5 DEF Owned
    <3>4. Matching(m, Owned, owner', filled)
      BY <3>1, <3>2 DEF Matching
    <3>5. Matching(m, Owned \ {x}, owner, filled)'
      BY <1>2, <3>2, <3>4 DEF Matching
    <3>6. x \in Owned' /\ owner'[x] = at' /\ m \in [1 .. filled' -> Owned' \ {x}]
      BY <1>2, <2>1, <2>4, <2>5, <3>1, <3>2
    <3>. QED BY <3>5, <3>6 DEF Spare
  <2>9. FlipTree'
    <3>1. Tree(d)'
      BY <1>2, <1>3, <2>1 DEF Tree
    <3>2. ASSUME NEW k \in seen' \ {Start'} PROVE owner'[via'[k][2]] = k
      <4>1. k \in seen \ {Start} /\ via' = via /\ k \in SlotCategories
        BY <1>1, <1>2, <2>1, <3>2 DEF AssignTypeOK
      <4>2. owner[via[k][2]] = k /\ via[k][2] \in counts[via[k][1]] /\ via[k][1] \in SlotCategories
        BY <1>1, <1>3, <4>1 DEF Tree, AssignTypeOK
      <4>3. via[k][2] \in SlotEntities /\ via[k][2] # x
        BY <1>1, <2>3, <4>1, <4>2 DEF AssignTypeOK
      <4>. QED BY <2>4, <4>1, <4>2, <4>3
    <3>. QED BY <3>1, <3>2 DEF FlipTree
  <2>. QED BY <1>1, <1>2, <2>1, <2>6, <2>7, <2>8, <2>9 DEF AssignInv
<1>5. CASE Free(c) = {}
  <2>0. PICK reached : reached = {owner[e] : e \in counts[c]} \ seen
    OBVIOUS
  <2>1. /\ frontier' = (frontier \ {c}) \cup reached /\ seen' = seen \cup reached
        /\ via' = [h \in SlotCategories |->
             IF h \in reached THEN <<c, Min({e \in counts[c] : owner[e] = h})>> ELSE via[h]]
        /\ UNCHANGED <<owner, at, pc>>
    BY <1>5, <2>0 DEF Search
  <2>2. \A e \in counts[c] : owner[e] \in SlotCategories
    BY <1>1, <1>2, <1>5 DEF Free, AssignTypeOK
  <2>3. reached \subseteq SlotCategories /\ reached \cap seen = {}
    BY <2>0, <2>2
  <2>4. ASSUME NEW h \in reached
        PROVE  /\ via'[h][1] = c /\ via'[h][2] \in counts[c] /\ owner[via'[h][2]] = h
               /\ via'[h] \in (SlotCategories \cup {NoCategory}) \X Nat
    <3>. DEFINE T == {e \in counts[c] : owner[e] = h}
    <3>1. T \in SUBSET Nat /\ T # {}
      BY <1>2, <2>0, <2>4
    <3>2. Min(T) \in T
      BY <3>1, FirstExists
    <3>3. via'[h] = <<c, Min(T)>>
      BY <2>1, <2>3
    <3>4. Min(T) \in counts[c] /\ owner[Min(T)] = h /\ Min(T) \in Nat
      BY <3>1, <3>2
    <3>. HIDE DEF T
    <3>5. via'[h] \in (SlotCategories \cup {NoCategory}) \X Nat
      BY <3>3, <3>4
    <3>6. via'[h][1] = c /\ via'[h][2] = Min(T)
      BY <3>3
    <3>. QED BY <3>4, <3>5, <3>6
  <2>5. \A h \in SlotCategories \ reached : via'[h] = via[h]
    BY <2>1
  <2>6. via' \in [SlotCategories -> (SlotCategories \cup {NoCategory}) \X Nat]
    <3>1. \A h \in SlotCategories : via'[h] \in (SlotCategories \cup {NoCategory}) \X Nat
      BY <1>1, <2>4, <2>5 DEF AssignTypeOK
    <3>. QED BY <2>1, <3>1
  <2>7. \A e \in counts[c] : owner[e] \in seen'
    BY <2>0, <2>1
  <2>8. AssignTypeOK'
    BY <1>1, <1>2, <2>1, <2>3, <2>6 DEF AssignTypeOK
  <2>9. OwnedOK' /\ Matched'
    <3>1. Owned' = Owned
      BY <2>1 DEF Owned
    <3>2. OwnedOK'
      BY <1>1, <1>2, <2>1, <3>1 DEF OwnedOK
    <3>3. Matched'
      BY <1>1, <1>2, <2>1, MatchedKept
    <3>. QED BY <3>2, <3>3
  <2>10. Closed'
    BY <1>1, <1>2, <2>1, <2>7 DEF Closed
  <2>11. SearchTree'
    <3>0. [k \in SlotCategories |-> IF k \in reached THEN d[c] + 1 ELSE d[k]] \in [SlotCategories -> Nat]
      OBVIOUS
    <3>1. PICK g \in [SlotCategories -> Nat] :
            \A k \in SlotCategories : g[k] = IF k \in reached THEN d[c] + 1 ELSE d[k]
      BY <3>0
    <3>2. ASSUME NEW k \in seen' \ {Start'}
          PROVE  /\ via'[k][1] \in seen' /\ g[via'[k][1]] < g[k] /\ via'[k][2] \in counts'[via'[k][1]]
                 /\ owner'[via'[k][2]] = k
      <4>1. CASE k \in reached
        <5>1. c \notin reached /\ g[c] = d[c] /\ g[k] = d[c] + 1 /\ d[c] \in Nat
          BY <1>2, <2>3, <3>1, <4>1
        <5>2. /\ via'[k][1] = c /\ via'[k][2] \in counts[c] /\ owner[via'[k][2]] = k
          BY <2>4, <4>1
        <5>3. c \in seen' /\ g[c] < g[k] /\ counts'[c] = counts[c] /\ owner' = owner
          BY <1>2, <2>1, <5>1
        <5>. QED BY <5>2, <5>3
      <4>2. CASE k \notin reached
        <5>1. k \in seen \ {Start} /\ k \in SlotCategories
          BY <1>1, <1>2, <2>1, <4>2 DEF AssignTypeOK
        <5>2. /\ via[k][1] \in seen /\ d[via[k][1]] < d[k] /\ via[k][2] \in counts[via[k][1]]
              /\ owner[via[k][2]] = k /\ via[k][1] \in SlotCategories
          BY <1>1, <1>3, <5>1 DEF Tree, AssignTypeOK
        <5>3. via'[k] = via[k] /\ g[k] = d[k] /\ g[via[k][1]] = d[via[k][1]]
          BY <2>3, <2>5, <3>1, <4>2, <5>1, <5>2
        <5>. QED BY <1>2, <2>1, <5>2, <5>3
      <4>. QED BY <4>1, <4>2
    <3>3. Tree(g)'
      BY <3>2 DEF Tree
    <3>. QED BY <3>1, <3>2, <3>3 DEF SearchTree
  <2>. QED BY <1>1, <1>2, <2>1, <2>8, <2>9, <2>10, <2>11 DEF AssignInv
<1>. QED BY <1>4, <1>5

\* An entity goes to the predecessor, which then has one to spare; at the start
\* the spare one fills the slot.
LEMMA FlipStep == ASSUME AssignInv, Flip PROVE AssignInv'
<1>. USE SlotsAssumption
<1>1. /\ pc = "flip" /\ filled < Len(slots) /\ Start \in seen /\ at \in seen /\ Spare /\ FlipTree
      /\ AssignTypeOK /\ OwnedOK /\ UNCHANGED <<counts, slots, passed, frontier, seen, via>>
  BY DEF Flip, AssignInv
<1>2. /\ slots' = slots /\ counts' = counts /\ seen' = seen /\ via' = via /\ passed' = passed
      /\ frontier' = frontier /\ at \in SlotCategories /\ Start \in SlotCategories
      /\ filled \in Nat /\ Len(slots) \in Nat
  BY <1>1 DEF AssignTypeOK
<1>3. PICK x \in Owned : /\ owner[x] = at
                         /\ \E m \in [1 .. filled -> Owned \ {x}] : Matching(m, Owned \ {x}, owner, filled)
  BY <1>1 DEF Spare
<1>4. PICK m \in [1 .. filled -> Owned \ {x}] : Matching(m, Owned \ {x}, owner, filled)
  BY <1>3
<1>5. PICK d \in [SlotCategories -> Nat] :
        Tree(d) /\ \A k \in seen \ {Start} : d[k] <= d[at] => owner[via[k][2]] = k
  BY <1>1 DEF FlipTree
<1>6. CASE at # Start
  <2>0. PICK y, b : y = via[at][2] /\ b = via[at][1]
    OBVIOUS
  <2>1. /\ owner' = [owner EXCEPT ![y] = b] /\ at' = b /\ filled' = filled /\ pc' = "flip"
        /\ Start' = Start
    BY <1>1, <1>2, <1>6, <2>0 DEF Flip, Start
  <2>2. /\ owner[y] = at /\ b \in seen /\ b \in SlotCategories /\ d[b] < d[at] /\ y \in counts[b]
    <3>1. at \in seen \ {Start} /\ d[at] <= d[at]
      BY <1>1, <1>2, <1>6
    <3>. QED BY <1>1, <1>5, <2>0, <3>1 DEF Tree, AssignTypeOK
  <2>3. y \in SlotEntities /\ y \in Owned
    <3>1. y \in SlotEntities
      BY <1>1, <2>2 DEF AssignTypeOK
    <3>. QED BY <1>2, <2>2, <3>1 DEF Owned
  <2>4. /\ owner' \in [SlotEntities -> SlotCategories \cup {NoCategory}] /\ owner'[y] = b
        /\ \A e \in SlotEntities \ {y} : owner'[e] = owner[e]
    BY <1>1, <2>1, <2>2, <2>3 DEF AssignTypeOK
  <2>5. Owned' = Owned
    BY <2>2, <2>3, <2>4 DEF Owned
  <2>6. AssignTypeOK'
    BY <1>1, <1>2, <2>1, <2>4 DEF AssignTypeOK
  <2>7. OwnedOK'
    BY <1>1, <1>2, <2>2, <2>4, <2>5 DEF OwnedOK, Owned
  <2>8. Spare'
    <3>1. \A e \in Owned \ {y} : owner'[e] = owner[e]
      BY <2>4 DEF Owned
    <3>2. PICK k \in [1 .. filled -> Owned \ {y}] : Matching(k, Owned \ {y}, owner', filled)
      BY <1>2, <1>3, <1>4, <2>2, <2>3, <3>1, MatchingSwaps
    <3>3. Matching(k, Owned \ {y}, owner, filled)'
      BY <1>2, <2>1, <2>5, <3>2 DEF Matching
    <3>. QED BY <2>1, <2>3, <2>4, <2>5, <3>2, <3>3 DEF Spare
  <2>9. FlipTree'
    <3>1. Tree(d)'
      BY <1>2, <1>5, <2>1 DEF Tree
    <3>2. ASSUME NEW k \in seen' \ {Start'}, d[k] <= d[at'] PROVE owner'[via'[k][2]] = k
      <4>1. k \in seen \ {Start} /\ k \in SlotCategories /\ d[k] <= d[b] /\ via' = via
        BY <1>1, <1>2, <2>1, <3>2 DEF AssignTypeOK
      <4>2. d[k] < d[at] /\ k # at
        BY <1>2, <2>2, <4>1
      <4>3. d[k] <= d[at]
        BY <1>2, <4>1, <4>2
      <4>4. owner[via[k][2]] = k /\ via[k][2] \in counts[via[k][1]] /\ via[k][1] \in SlotCategories
        BY <1>1, <1>5, <4>1, <4>3 DEF Tree, AssignTypeOK
      <4>5. via[k][2] \in SlotEntities /\ via[k][2] # y
        BY <1>1, <2>2, <4>2, <4>4 DEF AssignTypeOK
      <4>. QED BY <2>4, <4>1, <4>4, <4>5
    <3>. QED BY <3>1, <3>2 DEF FlipTree
  <2>. QED BY <1>1, <1>2, <2>1, <2>2, <2>6, <2>7, <2>8, <2>9 DEF AssignInv
<1>7. CASE at = Start
  <2>1. filled' = filled + 1 /\ pc' = "slot" /\ owner' = owner
    BY <1>7 DEF Flip
  <2>2. Owned' = Owned
    BY <2>1 DEF Owned
  <2>3. AssignTypeOK' /\ OwnedOK'
    BY <1>1, <1>2, <2>1, <2>2 DEF AssignTypeOK, OwnedOK
  <2>4. Matched'
    <3>1. x \notin Owned \ {x} /\ (Owned \ {x}) \cup {x} = Owned /\ owner[x] = slots[filled + 1]
      BY <1>3, <1>7 DEF Start
    <3>2. \E k \in [1 .. filled + 1 -> Owned] : Matching(k, Owned, owner, filled + 1)
      <4>1. \E k \in [1 .. filled + 1 -> (Owned \ {x}) \cup {x}] :
              Matching(k, (Owned \ {x}) \cup {x}, owner, filled + 1)
        BY <1>1, <1>2, <1>4, <3>1, MatchingGrows
      <4>. QED BY <3>1, <4>1
    <3>3. PICK k \in [1 .. filled' -> Owned'] : Matching(k, Owned', owner', filled')
      BY <2>1, <2>2, <3>2
    <3>4. Matching(k, Owned, owner, filled)'
      BY <1>2, <3>3 DEF Matching
    <3>. QED BY <3>3, <3>4 DEF Matched
  <2>. QED BY <2>1, <2>3, <2>4 DEF AssignInv
<1>. QED BY <1>6, <1>7

\* The answer changes nothing it was found from.
LEMMA ConcludeStep == ASSUME AssignInv, Conclude PROVE AssignInv'
<1>1. /\ counts' = counts /\ slots' = slots /\ filled' = filled /\ owner' = owner
      /\ passed' = passed /\ frontier' = frontier /\ seen' = seen /\ via' = via /\ at' = at
  BY DEF Conclude
<1>2. Owned' = Owned /\ Start' = Start
  BY <1>1 DEF Owned, Start
<1>3. pc # "flip" /\ Matched /\ AssignTypeOK /\ OwnedOK
  BY DEF Conclude, AssignInv
<1>4. AssignTypeOK' /\ OwnedOK'
  <2>1. pc' \in {"yes", "no"}
    BY DEF Conclude
  <2>. QED BY <1>1, <1>2, <1>3, <2>1 DEF AssignTypeOK, OwnedOK
<1>5. Matched'
  BY <1>1, <1>3, MatchedKept
<1>6. CASE pc = "slot" /\ filled = Len(slots) /\ pc' = "yes"
  BY <1>1, <1>4, <1>5, <1>6 DEF AssignInv
<1>7. CASE pc = "search" /\ frontier = {} /\ pc' = "no"
  <2>1. Closed /\ filled < Len(slots) /\ Start \in seen
    BY <1>7 DEF AssignInv
  <2>2. Closed'
    BY <1>1, <2>1 DEF Closed
  <2>. QED BY <1>1, <1>2, <1>4, <1>5, <1>7, <2>1, <2>2 DEF AssignInv
<1>. QED BY <1>6, <1>7 DEF Conclude

\* Every reachable state of assign_entities is a matching with its search or
\* hand-over under way, whatever the pool and the slots.
THEOREM AssignInvHolds == AssignSpec => []AssignInv
<1>1. AssignInit => AssignInv
  BY AssignInitInv
<1>2. AssignInv /\ [AssignNext]_assignVars => AssignInv'
  <2>. SUFFICES ASSUME AssignInv, [AssignNext]_assignVars PROVE AssignInv'
    OBVIOUS
  <2>1. CASE Slot
    BY <2>1, SlotStep
  <2>2. ASSUME NEW c \in SlotCategories, Search(c) PROVE AssignInv'
    BY <2>2, SearchStep
  <2>3. CASE Flip
    BY <2>3, FlipStep
  <2>4. CASE Conclude
    BY <2>4, ConcludeStep
  <2>5. CASE UNCHANGED assignVars
    <3>. USE <2>5 DEF assignVars
    <3>1. Owned' = Owned /\ Start' = Start
      BY DEF Owned, Start
    <3>2. AssignTypeOK' <=> AssignTypeOK
      BY DEF AssignTypeOK
    <3>3. OwnedOK' <=> OwnedOK
      BY <3>1 DEF OwnedOK
    <3>4. Matched' <=> Matched
      BY <3>1 DEF Matched, Matching
    <3>5. Spare' <=> Spare
      BY <3>1 DEF Spare, Matching
    <3>6. SearchTree' <=> SearchTree
      BY <3>1 DEF SearchTree, Tree
    <3>7. FlipTree' <=> FlipTree
      BY <3>1 DEF FlipTree, Tree
    <3>8. Closed' <=> Closed
      BY DEF Closed
    <3>. QED BY <3>1, <3>2, <3>3, <3>4, <3>5, <3>6, <3>7, <3>8 DEF AssignInv
  <2>. QED BY <2>1, <2>2, <2>3, <2>4, <2>5 DEF AssignNext
<1>. QED BY <1>1, <1>2, PTL DEF AssignSpec

\* Accepted: the matching is the assignment.
LEMMA YesIsRight == ASSUME AssignInv, pc = "yes" PROVE Assignable(counts, slots)
<1>1. Matched /\ AssignTypeOK /\ OwnedOK /\ filled = Len(slots)
  BY DEF AssignInv
<1>2. DOMAIN slots = 1 .. filled /\ \A i \in 1 .. filled : slots[i] \in SlotCategories
  BY <1>1 DEF AssignTypeOK
<1>3. PICK m \in [1 .. filled -> Owned] : Matching(m, Owned, owner, filled)
  BY <1>1 DEF Matched
<1>4. m \in [DOMAIN slots -> SlotEntities]
  BY <1>2, <1>3 DEF Owned
<1>5. \A i \in DOMAIN slots : m[i] \in counts[slots[i]]
  <2>1. ASSUME NEW i \in DOMAIN slots PROVE m[i] \in counts[slots[i]]
    <3>1. m[i] \in Owned /\ owner[m[i]] = slots[i]
      BY <1>2, <1>3 DEF Matching
    <3>. QED BY <1>1, <3>1 DEF OwnedOK
  <2>. QED BY <2>1
<1>6. \A i, j \in DOMAIN slots : m[i] = m[j] => i = j
  BY <1>2, <1>3 DEF Matching
<1>. QED BY <1>4, <1>5, <1>6 DEF Assignable

\* Refused: the categories the search reached hold only entities of each
\* other, one for each of their filled slots, and they have a slot more.
LEMMA NoIsRight == ASSUME AssignInv, pc = "no" PROVE ~ Assignable(counts, slots)
<1>. USE SlotsAssumption
<1>1. /\ Matched /\ AssignTypeOK /\ OwnedOK /\ filled < Len(slots) /\ Start \in seen
      /\ Closed /\ frontier = {}
  BY DEF AssignInv
<1>2. /\ DOMAIN slots = 1 .. Len(slots) /\ filled \in Nat /\ Len(slots) \in Nat
      /\ seen \subseteq SlotCategories
      /\ \A i \in DOMAIN slots : slots[i] \in SlotCategories
  BY <1>1 DEF AssignTypeOK
<1>. SUFFICES ASSUME Assignable(counts, slots) PROVE FALSE
  OBVIOUS
<1>3. PICK f \in [DOMAIN slots -> SlotEntities] :
        /\ \A i \in DOMAIN slots : f[i] \in counts[slots[i]]
        /\ \A i, j \in DOMAIN slots : f[i] = f[j] => i = j
  BY DEF Assignable
<1>4. PICK m \in [1 .. filled -> Owned] : Matching(m, Owned, owner, filled)
  BY <1>1 DEF Matched
<1>. DEFINE F == {i \in 1 .. filled : slots[i] \in seen}
            K == F \cup {filled + 1}
            W == {e \in SlotEntities : owner[e] \in seen}
<1>5. IsFiniteSet(F) /\ IsFiniteSet(W)
  <2>1. IsFiniteSet(1 .. filled)
    BY <1>2, FS_Interval
  <2>. QED BY <2>1, FS_Subset
<1>6. Cardinality(F) \in Nat /\ IsFiniteSet(K) /\ Cardinality(K) = Cardinality(F) + 1
  <2>1. filled + 1 \notin F
    BY <1>2
  <2>. HIDE DEF F
  <2>. QED BY <1>5, <2>1, FS_AddElement, FS_CardinalityType
<1>7. Cardinality(K) <= Cardinality(W)
  <2>1. \A i \in K : i \in DOMAIN slots /\ slots[i] \in seen
    BY <1>1, <1>2 DEF Start
  <2>2. \A i \in K : f[i] \in W
    <3>1. ASSUME NEW i \in K PROVE f[i] \in W
      <4>1. f[i] \in counts[slots[i]] /\ f[i] \in SlotEntities /\ slots[i] \in seen \ frontier
        BY <1>1, <1>3, <2>1
      <4>2. owner[f[i]] \in seen
        BY <1>1, <4>1 DEF Closed
      <4>. QED BY <4>1, <4>2
    <3>. QED BY <3>1
  <2>. HIDE DEF K, W
  <2>3. [i \in K |-> f[i]] \in Injection(K, W)
    BY <1>3, <2>1, <2>2 DEF Injection, IsInjective
  <2>. QED BY <1>5, <2>3, FS_Injection
<1>8. Cardinality(W) <= Cardinality(F)
  <2>1. \A i \in F : m[i] \in W
    BY <1>4 DEF Matching, Owned
  <2>2. ASSUME NEW e \in W PROVE \E i \in F : m[i] = e
    <3>1. e \in Owned
      BY <1>2 DEF Owned
    <3>2. PICK i \in 1 .. filled : m[i] = e
      BY <1>4, <3>1 DEF Matching
    <3>3. owner[e] = slots[i]
      BY <1>4, <3>2 DEF Matching
    <3>. QED BY <3>2, <3>3
  <2>. HIDE DEF F, W
  <2>3. [i \in F |-> m[i]] \in Surjection(F, W)
    BY <2>1, <2>2 DEF Surjection
  <2>. QED BY <1>5, <2>3, FS_Surjection
<1>9. Cardinality(W) \in Nat
  BY <1>5, FS_CardinalityType
<1>. HIDE DEF F, K, W
<1>. QED BY <1>6, <1>7, <1>8, <1>9

\* The slots of a category.
SlotsOf(c) == {i \in DOMAIN slots : slots[i] = c}

\* What check_requirement_set asks of an assignment is that one exists: as many
\* entities for each category as it has slots, shared by no other.
LEMMA FitsIsAssignable ==
  ASSUME AssignTypeOK
  PROVE  Fits(counts, [c \in DOMAIN counts |-> Cardinality({i \in DOMAIN slots : slots[i] = c})])
         <=> Assignable(counts, slots)
<1>. USE SlotsAssumption
<1>. DEFINE need == [c \in DOMAIN counts |-> Cardinality({i \in DOMAIN slots : slots[i] = c})]
<1>1. /\ DOMAIN slots = 1 .. Len(slots) /\ Len(slots) \in Nat /\ DOMAIN counts = SlotCategories
      /\ \A i \in DOMAIN slots : slots[i] \in SlotCategories
      /\ \A c \in SlotCategories : counts[c] \subseteq SlotEntities
  BY DEF AssignTypeOK
<1>2. \A c \in SlotCategories : need[c] = Cardinality(SlotsOf(c))
  BY <1>1 DEF SlotsOf
<1>3. \A c \in SlotCategories : IsFiniteSet(SlotsOf(c))
  <2>1. IsFiniteSet(DOMAIN slots)
    BY <1>1, FS_Interval
  <2>. QED BY <2>1, FS_Subset DEF SlotsOf
<1>. HIDE DEF need
<1>4. ASSUME Fits(counts, need) PROVE Assignable(counts, slots)
  <2>1. PICK given \in [DOMAIN counts -> SUBSET Pool(counts)] :
          \A c \in DOMAIN counts :
            /\ given[c] \subseteq counts[c] /\ Cardinality(given[c]) = need[c]
            /\ \A d \in DOMAIN counts : c # d => given[c] \cap given[d] = {}
    BY <1>4 DEF Fits
  <2>. DEFINE b(c) == CHOOSE h : h \in Bijection(SlotsOf(c), given[c])
              f == [i \in DOMAIN slots |-> b(slots[i])[i]]
  <2>2. ASSUME NEW c \in SlotCategories PROVE b(c) \in Bijection(SlotsOf(c), given[c])
    <3>1. IsFiniteSet(given[c])
      <4>1. given[c] \in SUBSET SlotEntities
        BY <1>1, <2>1
      <4>. QED BY <4>1, FS_Subset
    <3>2. Cardinality(given[c]) = Cardinality(SlotsOf(c))
      BY <1>1, <1>2, <2>1
    <3>3. ExistsBijection(SlotsOf(c), given[c])
      BY <1>3, <3>1, <3>2, FS_SameCardinalityBij
    <3>. QED BY <3>3 DEF ExistsBijection
  <2>. HIDE DEF b
  <2>3. ASSUME NEW c \in SlotCategories
        PROVE  /\ b(c) \in [SlotsOf(c) -> given[c]]
               /\ \A i, j \in SlotsOf(c) : b(c)[i] = b(c)[j] => i = j
    BY <2>2 DEF Bijection, Injection, IsInjective
  <2>4. ASSUME NEW i \in DOMAIN slots
        PROVE  f[i] = b(slots[i])[i] /\ i \in SlotsOf(slots[i]) /\ f[i] \in given[slots[i]]
    <3>1. f[i] = b(slots[i])[i]
      OBVIOUS
    <3>2. slots[i] \in SlotCategories /\ i \in SlotsOf(slots[i])
      BY <1>1 DEF SlotsOf
    <3>3. b(slots[i]) \in [SlotsOf(slots[i]) -> given[slots[i]]]
      BY <2>3, <3>2
    <3>4. b(slots[i])[i] \in given[slots[i]]
      BY <3>2, <3>3
    <3>. QED BY <3>1, <3>2, <3>4
  <2>. HIDE DEF f
  <2>5. \A i \in DOMAIN slots : f[i] \in counts[slots[i]] /\ f[i] \in SlotEntities
    BY <1>1, <2>1, <2>4
  <2>6. ASSUME NEW i \in DOMAIN slots, NEW j \in DOMAIN slots, f[i] = f[j] PROVE i = j
    <3>1. slots[i] = slots[j]
      BY <1>1, <2>1, <2>4, <2>6
    <3>. QED BY <1>1, <2>3, <2>4, <2>6, <3>1
  <2>7. f \in [DOMAIN slots -> SlotEntities]
    BY <2>5 DEF f
  <2>. QED BY <2>5, <2>6, <2>7 DEF Assignable
<1>5. ASSUME Assignable(counts, slots) PROVE Fits(counts, need)
  <2>1. PICK f \in [DOMAIN slots -> SlotEntities] :
          /\ \A i \in DOMAIN slots : f[i] \in counts[slots[i]]
          /\ \A i, j \in DOMAIN slots : f[i] = f[j] => i = j
    BY <1>5 DEF Assignable
  <2>. DEFINE given == [c \in DOMAIN counts |-> {f[i] : i \in SlotsOf(c)}]
  <2>2. \A c \in SlotCategories : given[c] = {f[i] : i \in SlotsOf(c)}
    BY <1>1
  <2>3. \A c \in SlotCategories : given[c] \subseteq counts[c]
    BY <2>1, <2>2 DEF SlotsOf
  <2>4. given \in [DOMAIN counts -> SUBSET Pool(counts)]
    BY <1>1, <2>3 DEF Pool
  <2>. HIDE DEF given
  <2>5. ASSUME NEW c \in SlotCategories PROVE Cardinality(given[c]) = need[c]
    <3>1. [i \in SlotsOf(c) |-> f[i]] \in Bijection(SlotsOf(c), given[c])
      <4>1. \A i, j \in SlotsOf(c) : f[i] = f[j] => i = j
        BY <2>1 DEF SlotsOf
      <4>2. \A i \in SlotsOf(c) : f[i] \in given[c]
        BY <2>2
      <4>3. \A e \in given[c] : \E i \in SlotsOf(c) : f[i] = e
        BY <2>2
      <4>. QED BY <4>1, <4>2, <4>3 DEF Bijection, Injection, Surjection, IsInjective
    <3>2. ExistsBijection(SlotsOf(c), given[c])
      BY <3>1 DEF ExistsBijection
    <3>. QED BY <1>2, <1>3, <3>2, FS_Bijection
  <2>6. \A c, d \in SlotCategories : c # d => given[c] \cap given[d] = {}
    BY <2>1, <2>2 DEF SlotsOf
  <2>. QED BY <1>1, <2>3, <2>4, <2>5, <2>6 DEF Fits
<1>6. Fits(counts, need) <=> Assignable(counts, slots)
  BY <1>4, <1>5
<1>. QED BY <1>6 DEF need

\* The matching of assign_entities answers right, for every pool of entities
\* and every list of slots: it accepts a policy exactly when each slot can have
\* an entity of its own, which is the sense in which check_requirement_set
\* uses it.
THEOREM AssignmentIsRight == AssignSpec => []AssignmentDecides
<1>1. AssignInv => AssignmentDecides
  <2>. SUFFICES ASSUME AssignInv PROVE AssignmentDecides
    OBVIOUS
  <2>1. AnswerRight
    BY YesIsRight, NoIsRight DEF AnswerRight
  <2>2. AssignTypeOK
    BY DEF AssignInv
  <2>. QED BY <2>1, <2>2, FitsIsAssignable DEF AssignmentDecides, AnswerRight
<1>. QED BY <1>1, AssignInvHolds, PTL
=============================================================================

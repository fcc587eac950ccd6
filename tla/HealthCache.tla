------------------------------ MODULE HealthCache ------------------------------
(***************************************************************************)
(* Provider health across configuration refreshes:                         *)
(*   - ProviderHealthCache, crates/pillar-core/src/provider_health_cache.rs *)
(*   - the generation counter and the request pin of                       *)
(*     ProviderSnapshotHandle, crates/pillar-runtime/src/                  *)
(*     provider_snapshot.rs                                                *)
(*   - the retained report of RpcProviderHealthSource, crates/             *)
(*     pillar-runtime/src/provider_health/source.rs                        *)
(*   - the callers: /provider-health, /ready, /provider-health/report, the *)
(*     startup probe and the rank loop (server_app).                       *)
(*                                                                         *)
(* A health value is represented by the generation it was really probed    *)
(* from and the time it was published.  Three rounds may probe at a time:  *)
(* the startup probe, the rank loop's and the one refresh task that holds  *)
(* refresh_lock.  Every await of the code separates two steps.             *)
(***************************************************************************)
EXTENDS Integers

CONSTANTS Readers,        \* the calls that read health
          Kind,           \* which endpoint each call serves
          Ttl,            \* PROVIDER_HEALTH_CACHE_TTL_MS, in clock units
          Stale,          \* PROVIDER_HEALTH_CACHE_STALE_MS
          Attempts,       \* PROBE_GENERATION_ATTEMPTS
          MaxGeneration,  \* bound on configuration refreshes
          MaxClock        \* bound on the clock

ASSUME TimesAssumption ==
  /\ Ttl \in Nat /\ Stale \in Nat /\ Ttl < Stale
  /\ Attempts \in Nat \ {0}
  /\ MaxGeneration \in Nat /\ MaxClock \in Nat
  /\ Kind \in [Readers -> {"health", "ready", "report"}]

VARIABLES
  generation,  \* RuntimeProviderSnapshot.generation now serving
  clock,       \* what (self.now)() returns
  cache,       \* ProviderHealthCache.state
  retained,    \* RpcProviderHealthSource.retained_report
  ranked,      \* the last report seeded into the rank tracker
  round,       \* the three probing rounds; "refresh" holds refresh_lock
  reader       \* the calls

vars == <<generation, clock, cache, retained, ranked, round, reader>>

NoPin == -1
None == [gen |-> -1, probed |-> -1, at |-> 0, observed |-> FALSE]
Error == [None EXCEPT !.at = 1]
Rest == [pc |-> "idle", pin |-> NoPin, label |-> 0, probed |-> 0,
         started |-> 0, ok |-> FALSE, attempt |-> 0]

Init ==
  /\ generation = 0 /\ clock = 0
  /\ cache = None
  /\ retained = [gen |-> -1, started |-> 0, completed |-> 0]
  /\ ranked = [label |-> 0, probed |-> 0]
  /\ round = [x \in {"startup", "rank", "refresh"} |->
                IF x = "startup" THEN [Rest EXCEPT !.pc = "label"] ELSE Rest]
  /\ reader = [r \in Readers |->
                 [pc |-> "idle", pin |-> NoPin, since |-> 0, now |-> 0,
                  answer |-> None]]

-----------------------------------------------------------------------------
(* The clock and the configuration. *)

Tick ==
  /\ clock < MaxClock
  /\ clock' = clock + 1
  /\ UNCHANGED <<generation, cache, retained, ranked, round, reader>>

\* ProviderSnapshotHandle::publish of a candidate that differs.
Publish ==
  /\ generation < MaxGeneration
  /\ generation' = generation + 1
  /\ UNCHANGED <<clock, cache, retained, ranked, round, reader>>

\* ProviderSnapshotHandle::load and generation, inside or outside a pin.
Generation(pin) == IF pin = NoPin THEN generation ELSE pin

\* elapsed_ms: a time in the future has no known age.
Elapsed(now, earlier) == IF earlier > now THEN Stale + 1 ELSE now - earlier

Serving == round["startup"].pc = "idle"

-----------------------------------------------------------------------------
(* The probe every round runs: probe_report. *)

\* It reads the snapshot, which need not be the generation read before.
Probe(x) ==
  /\ round[x].pc = "probe"
  /\ round' = [round EXCEPT ![x].pc = "probing",
                            ![x].probed = Generation(round[x].pin),
                            ![x].started = clock]
  /\ UNCHANGED <<generation, clock, cache, retained, ranked, reader>>

\* Fault: a round has to start later, whatever its generation.
NewerStart(gen, started) == started > retained.started

Newer(gen, started) ==
  \/ gen > retained.gen
  \/ gen = retained.gen /\ started >= retained.started

\* The probe returns; a successful one is retained unless a newer round was.
Probed(x, ok) ==
  /\ round[x].pc = "probing"
  /\ round' = [round EXCEPT ![x].pc = "probed", ![x].ok = ok]
  /\ retained' =
       IF ok /\ Newer(round[x].probed, round[x].started)
       THEN [gen |-> round[x].probed, started |-> round[x].started,
             completed |-> clock]
       ELSE retained
  /\ UNCHANGED <<generation, clock, cache, ranked, reader>>

\* The startup probe and the rank loop read the generation before probing.
Label(x) ==
  /\ x \in {"startup", "rank"} /\ round[x].pc = "label"
  /\ round' = [round EXCEPT ![x].pc = "probe", ![x].label = generation]
  /\ UNCHANGED <<generation, clock, cache, retained, ranked, reader>>

\* The rank loop's timer.
RankTimer ==
  /\ Serving /\ round["rank"].pc = "idle"
  /\ round' = [round EXCEPT !["rank"].pc = "label"]
  /\ UNCHANGED <<generation, clock, cache, retained, ranked, reader>>

\* Fault: a report is ranked without asking whether it is still current.
SeedRankAlways(x) ==
  ranked' = [label |-> round[x].label, probed |-> round[x].probed]

\* seed_provider_rank_if_current.
SeedRank(x) ==
  ranked' = IF generation = round[x].label
            THEN [label |-> round[x].label, probed |-> round[x].probed]
            ELSE ranked

RankEnd ==
  /\ round["rank"].pc = "probed"
  /\ IF round["rank"].ok THEN SeedRank("rank") ELSE UNCHANGED ranked
  /\ round' = [round EXCEPT !["rank"] = Rest]
  /\ UNCHANGED <<generation, clock, cache, retained, reader>>

\* Startup: warm with the report, or with an empty one if the probe failed.
Warm ==
  /\ round["startup"].pc = "probed"
  /\ cache' = [gen |-> round["startup"].label, probed |-> round["startup"].probed,
               at |-> clock, observed |-> round["startup"].ok]
  /\ SeedRank("startup")
  /\ round' = [round EXCEPT !["startup"] = Rest]
  /\ UNCHANGED <<generation, clock, retained, reader>>

-----------------------------------------------------------------------------
(* ProviderHealthCache::read. *)

\* The answer of a read; the report endpoint goes on to the retained report.
Answer(r, value) ==
  [reader[r] EXCEPT !.answer = value,
     !.pc = IF Kind[r] = "report" /\ value # Error THEN "report" ELSE "done"]

\* Spawning the task that owns the guard; at most one handle is joined.
Spawn(pin) == [round EXCEPT !["refresh"] = [Rest EXCEPT !.pc = "look", !.pin = pin]]

\* The call: /ready pins the generation, and read takes the time.
Begin(r) ==
  /\ Serving /\ reader[r].pc = "idle"
  /\ reader' = [reader EXCEPT ![r].pc = "peek",
                  ![r].pin = IF Kind[r] = "ready" THEN generation ELSE NoPin,
                  ![r].since = generation, ![r].now = clock]
  /\ UNCHANGED <<generation, clock, cache, retained, ranked, round>>

\* Fault: the cached value of another generation is a hit.
CacheHitAny(pin) == cache # None

CacheHit(pin) == cache # None /\ cache.gen = Generation(pin)

\* The look at the cache: fresh, stale (and a background refresh), or a miss.
Peek(r) ==
  /\ reader[r].pc = "peek"
  /\ LET age == Elapsed(reader[r].now, cache.at) IN
     \/ /\ CacheHit(reader[r].pin) /\ age <= Ttl
        /\ reader' = [reader EXCEPT ![r] = Answer(r, cache)]
        /\ UNCHANGED round
     \/ /\ CacheHit(reader[r].pin) /\ age > Ttl /\ age <= Stale
        /\ round' = IF round["refresh"].pc = "idle" THEN Spawn(NoPin) ELSE round
        /\ reader' = [reader EXCEPT ![r] = Answer(r, cache)]
     \/ /\ ~ (CacheHit(reader[r].pin) /\ age <= Stale)
        /\ reader' = [reader EXCEPT ![r].pc = "lock"]
        /\ UNCHANGED round
  /\ UNCHANGED <<generation, clock, cache, retained, ranked>>

\* The refresh lock is acquired, the refresh spawned with the caller's pin.
Lock(r) ==
  /\ reader[r].pc = "lock" /\ round["refresh"].pc = "idle"
  /\ round' = Spawn(reader[r].pin)
  /\ reader' = [reader EXCEPT ![r].pc = "join"]
  /\ UNCHANGED <<generation, clock, cache, retained, ranked>>

\* The client goes away; the refresh task does not.
Abandon(r) ==
  /\ reader[r].pc \in {"peek", "lock", "join", "report"}
  /\ reader' = [reader EXCEPT ![r].pc = "gone"]
  /\ UNCHANGED <<generation, clock, cache, retained, ranked, round>>

\* get_provider_health_report, after its read.
Report(r) ==
  /\ reader[r].pc = "report"
  /\ LET found == /\ retained.gen = reader[r].since
                  /\ Elapsed(clock, retained.completed) <= Stale IN
     reader' = [reader EXCEPT ![r].pc = IF found THEN "done" ELSE "unavailable"]
  /\ UNCHANGED <<generation, clock, cache, retained, ranked, round>>

-----------------------------------------------------------------------------
(* ProviderHealthCache::refresh_with_guard. *)

\* Fault: the refresh guard is not dropped.
TaskEndsHolding(value) ==
  /\ round' = [round EXCEPT !["refresh"] = [Rest EXCEPT !.pc = "label"]]
  /\ reader' = [r \in Readers |->
                  IF reader[r].pc = "join" THEN Answer(r, value) ELSE reader[r]]

\* The task ends: the guard is dropped and the caller that joins it, if it is
\* still there, gets the value.
TaskEnds(value) ==
  /\ round' = [round EXCEPT !["refresh"] = Rest]
  /\ reader' = [r \in Readers |->
                  IF reader[r].pc = "join" THEN Answer(r, value) ELSE reader[r]]

\* One attempt: the generation, then a cached value fresh enough for it.
Look ==
  /\ round["refresh"].pc = "look"
  /\ LET gen == Generation(round["refresh"].pin)
         fresh == cache # None /\ cache.gen = gen /\ Elapsed(clock, cache.at) <= Ttl
     IN
     \/ fresh /\ TaskEnds(cache)
     \/ /\ ~ fresh
        /\ round' = [round EXCEPT !["refresh"].pc = "probe",
                                  !["refresh"].label = gen]
        /\ UNCHANGED reader
  /\ UNCHANGED <<generation, clock, cache, retained, ranked>>

\* The configuration moved under the probe: try again, or give up.
Overtaken ==
  /\ round["refresh"].pc = "probed"
  /\ Generation(round["refresh"].pin) # round["refresh"].label
  /\ \/ /\ round["refresh"].attempt + 1 < Attempts
        /\ round' = [round EXCEPT !["refresh"].pc = "look",
                                  !["refresh"].attempt = @ + 1]
        /\ UNCHANGED reader
     \/ /\ round["refresh"].attempt + 1 = Attempts
        /\ TaskEnds(Error)
  /\ UNCHANGED <<generation, clock, cache, retained, ranked>>

\* It did not: go on to publish the observation or to fall back.
Unmoved ==
  /\ round["refresh"].pc = "probed"
  /\ Generation(round["refresh"].pin) = round["refresh"].label
  /\ round' = [round EXCEPT !["refresh"].pc = "decided"]
  /\ UNCHANGED <<generation, clock, cache, retained, ranked, reader>>

\* publish, or the stale value of the same generation, or the error.
Settle ==
  /\ round["refresh"].pc = "decided"
  /\ LET x == round["refresh"]
         value == [gen |-> x.label, probed |-> x.probed, at |-> clock,
                   observed |-> TRUE]
         stale == /\ cache # None /\ cache.gen = x.label
                  /\ Elapsed(clock, cache.at) <= Stale IN
     \/ x.ok /\ cache' = value /\ TaskEnds(value)
     \/ ~ x.ok /\ stale /\ TaskEnds(cache) /\ UNCHANGED cache
     \/ ~ x.ok /\ ~ stale /\ TaskEnds(Error) /\ UNCHANGED cache
  /\ UNCHANGED <<generation, clock, retained, ranked>>

-----------------------------------------------------------------------------
RoundStep ==
  \/ \E x \in {"startup", "rank", "refresh"} :
       \/ Label(x) \/ Probe(x)
       \/ \E ok \in BOOLEAN : Probed(x, ok)
  \/ RankEnd \/ Warm \/ Look \/ Overtaken \/ Unmoved \/ Settle

ReaderStep(r) == Begin(r) \/ Peek(r) \/ Lock(r) \/ Report(r)

Next ==
  \/ Tick \/ Publish \/ RankTimer \/ RoundStep
  \/ \E r \in Readers : ReaderStep(r) \/ Abandon(r)

\* Tasks and handlers are polled; every probe returns within its deadline.
Fairness ==
  /\ \A x \in {"startup", "refresh"} :
       WF_vars(Label(x) \/ Probe(x) \/ \E ok \in BOOLEAN : Probed(x, ok))
  /\ WF_vars(Warm \/ Look \/ Overtaken \/ Unmoved \/ Settle)
  /\ \A r \in Readers : WF_vars(Peek(r) \/ Report(r)) /\ SF_vars(Lock(r))

Spec == Init /\ [][Next]_vars /\ Fairness

-----------------------------------------------------------------------------
(* Properties. *)

Rounds == {"startup", "rank", "refresh"}
Entries ==
  [gen : -1 .. MaxGeneration, probed : -1 .. MaxGeneration,
   at : 0 .. MaxClock + 1, observed : BOOLEAN]

\* Every variable has its type.
TypeOK ==
  /\ generation \in 0 .. MaxGeneration /\ clock \in 0 .. MaxClock
  /\ cache \in Entries
  /\ retained \in [gen : -1 .. MaxGeneration, started : 0 .. MaxClock,
                   completed : 0 .. MaxClock]
  /\ ranked \in [label : 0 .. MaxGeneration, probed : 0 .. MaxGeneration]
  /\ round \in [Rounds ->
       [pc : {"idle", "label", "look", "probe", "probing", "probed", "decided"},
        pin : -1 .. MaxGeneration, label : 0 .. MaxGeneration,
        probed : 0 .. MaxGeneration, started : 0 .. MaxClock, ok : BOOLEAN,
        attempt : 0 .. Attempts - 1]]
  /\ reader \in [Readers ->
       [pc : {"idle", "peek", "lock", "join", "report", "done", "unavailable", "gone"},
        pin : -1 .. MaxGeneration, since : 0 .. MaxGeneration, now : 0 .. MaxClock,
        answer : Entries]]

Served(r) ==
  /\ reader[r].answer \notin {None, Error}
  /\ reader[r].pc \in {"done", "report", "unavailable"}

\* A health value is only served for the configuration it was probed from: a
\* pinned /ready gets its own generation, any other caller one that was
\* serving after its call began (README: "pins one generation for the whole
\* operation"; refresh_with_guard's "one gate for both outcomes").
ServedFromOwnGeneration(r) ==
  Served(r) => IF Kind[r] = "ready" THEN reader[r].answer.probed = reader[r].pin
               ELSE reader[r].answer.probed >= reader[r].since

\* No value is served that was past the stale allowance when the call began,
\* although the time is read before the lock and the value after it.
ServedWithinStale(r) == Served(r) => reader[r].answer.at + Stale >= reader[r].now

(* The parts of the inductive invariant behind these and the next. *)

\* A round is labelled before it probes, both under its pin if it has one; and
\* what it observed is retained, if nothing newer is.
RoundOK(x) ==
  LET y == round[x] IN
  /\ y.pin <= generation /\ (x # "refresh" => y.pin = NoPin)
  /\ y.pc \in {"probe", "probing", "probed", "decided"} =>
       y.label <= generation /\ (y.pin # NoPin => y.label = y.pin)
  /\ y.pc \in {"probing", "probed", "decided"} =>
       /\ y.label <= y.probed /\ y.probed <= generation
       /\ y.pin # NoPin => y.probed = y.pin
  /\ y.pc = "decided" => y.probed = y.label
  /\ y.pc \in {"probed", "decided"} /\ y.ok => retained.gen >= y.probed

\* Only the startup probe may have cached a value under an older label than it
\* was probed from, before anything was pinned.
CacheOK ==
  /\ cache.gen <= cache.probed /\ cache.probed <= generation
  /\ cache.observed => retained.gen >= cache.probed
  /\ retained.gen <= generation
  /\ ~ Serving => round["refresh"].pin = NoPin
  /\ round["refresh"].pin # NoPin /\ cache.gen = round["refresh"].pin => cache.probed = cache.gen

\* A call that joins the refresh task is the one whose pin the task runs under,
\* and the task looks at the configuration after the call began.
ReaderOK(r) ==
  LET c == reader[r] IN
  /\ c.pin <= generation /\ c.since <= generation /\ c.now <= clock
  /\ IF c.pc = "idle" THEN c.pin = NoPin ELSE Serving /\ (c.pin # NoPin <=> Kind[r] = "ready")
  /\ c.pin # NoPin /\ cache.gen = c.pin => cache.probed = c.pin
  /\ c.pc = "join" =>
       /\ round["refresh"].pc # "idle" /\ round["refresh"].pin = c.pin
       /\ round["refresh"].pc \in {"probe", "probing", "probed", "decided"} /\ c.pin = NoPin =>
            round["refresh"].label >= c.since
  /\ c.pc \in {"report", "unavailable"} =>
       Kind[r] = "report" /\ (c.answer.observed => retained.gen >= c.since)

\* The invariant of what is served and by whom it was probed.
ServedSound ==
  /\ TypeOK /\ CacheOK /\ \A x \in Rounds : RoundOK(x)
  /\ \A r \in Readers :
       ReaderOK(r) /\ ServedFromOwnGeneration(r) /\ ServedWithinStale(r)

\* A report is ranked only if the configuration did not move under its probe
\* (seed_provider_rank_if_current), startup included.
RankedAsProbed == ranked.label = ranked.probed

\* /provider-health/report has no hole: when the read before it succeeded, a
\* report of the generation it started from is retained (only its age can
\* make it unavailable), unless a configuration refresh landed in between or
\* the value read is the empty one of a failed startup probe.
ReportFollowsHealth ==
  \A r \in Readers : reader[r].pc = "unavailable" =>
    \/ generation > reader[r].since
    \/ ~ reader[r].answer.observed
    \/ retained.gen = reader[r].since

\* What is retained for the report endpoint is never replaced by a round of an
\* older generation, whenever it started, nor by one of the same generation that
\* started earlier (AUDIT M-14, "an older round cannot overwrite a newer one"),
\* although a pinned /ready may probe an older generation later than the others.
NewestRoundRetained ==
  [][retained' # retained =>
       /\ retained'.completed = clock
       /\ \/ retained'.gen > retained.gen
          \/ retained'.gen = retained.gen /\ retained'.started >= retained.started]_vars

\* Every call is answered: no abandoned caller, failed probe or overtaken
\* refresh leaves the refresh lock held.
ReadsEnd ==
  \A r \in Readers :
    reader[r].pc \in {"peek", "lock", "join"} ~>
      reader[r].pc \in {"done", "gone", "report", "unavailable"}
=============================================================================

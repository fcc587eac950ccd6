# Pillar in TLA+

Pillar is a verifier: it receives a LayerZero signing request over HTTP, asks a
pool of RPC providers what happened on the source chain, demands *exact*
agreement under a configured quorum strategy, checks that the packet is final
enough and not signed yet, and signs the answer with KMS or local keys, keeping
durable evidence of every signature when the audit is switched on. This
directory holds TLA+ models of the parts of it that are hard to test: the
admission budgets, the agreement round and its memory pool, the strategies
behind it, the parser gate every response passes, the configuration refresh and
the health cache across it, the signing workflow read by read over chains that
move, the audited signing path and its store, and the socket server with its
shutdown. TLC checks them on small instances; TLAPS proves every safety property
that holds, and both refinements, for every instance.

Paths below are relative to `src/crates/`.

## 1. Inventory

### The parts, their state, and how they meet

| Part | Code | State | Operations | Hard because of |
|---|---|---|---|---|
| Admission budgets | `pillar-core/src/execution.rs` | counters, lane queues and flags behind one `parking_lot::Mutex`; an atomic per waiter | `acquire_for`, `try_acquire_for`, `finish`, drop of a registration, `close`, `cap_lane`, `dispatch` | grants, deadlines, cancellations and close race on one waiter; four caps at once; no waiter may be forgotten |
| Exact agreement | `pillar-runtime/src/provider_health/quorum.rs` | voters, candidates, error count, pending set of one round | `record_result`, `record`, `unambiguous_result`, `can_reach_quorum`, `finish` | answers arrive in any order and the round stops early; the result must not depend on the order |
| JSON vote memory | same file | one atomic counter shared by all rounds; a lease per candidate | `reserve`, `grow`, `drop`, `record_json_result_with_budget` | lock-free updates by concurrent rounds |
| Strategies and dispatch order | `pillar-config/src/provider_validation.rs`, `pillar-config/src/lib.rs`, `quorum.rs`, `rank.rs` | none: functions of the configuration and the ranks | `resolve_max`, `validate`, `assign_entities`, `order_providers_for_quorum`, `plan_dispatch_for_keys` | an entity may serve several categories; "max"; a matching with hand-overs |
| Configuration snapshots | `pillar-runtime/src/provider_snapshot.rs`, `config_loader.rs` | the serving snapshot with its generation; a task-local pin | `publish`, `load`, `generation`, pinned scopes, the refresh loop | the generation moves under everything that awaits |
| Provider health | `pillar-core/src/provider_health_cache.rs`, `pillar-runtime/src/provider_health/source.rs`, `server_app/` | the cached value, the retained report, the rank tracker, the refresh lock | `read`, `refresh_with_guard`, `warm`, `probe_report`, `/provider-health`, `/ready`, `/provider-health/report`, startup probe, rank loop | overlapping probe rounds, clients that leave, values that age |
| Durable audit | `pillar-core/src/audit.rs`, `audit_workers.rs`, `pillar-runtime/src/audit.rs` | intents, attempts and evidence in PostgreSQL; a session, a `reachable` flag; completion slots | `sign_wallet`, `begin_effect`, `AttemptGuard::drop`, `begin`, `record` | lost answers, late commits, dropped callers, crashes between commit, effect and evidence |
| Signers | `pillar-signer/src/` | KMS clients; local keys | `sign_owned_effect`, the local signer | a KMS call cannot be called back once its caller is gone |
| Audit store | `pillar-runtime/src/audit.rs` | a mutex around one session per replica; the namespace row, intents and attempts in PostgreSQL | `session`, `begin_inner`, `bounded`, `finish` | a COMMIT outlives its caller; replicas meet on one row lock; a session may be mid-transaction |
| Parser gate | `pillar-runtime/src/provider_health/transport.rs` | two semaphores, a waiter count, the parser budget | `limited_rpc`, `acquire_json_parse_slot` | three nested timers; whose expiry is it? |
| Signing workflow | `pillar-core/src/lib.rs` | the request in flight, its pin | pin, admission, routing, packet, readiness, expiry, payload lookup, extra context, call data, wallets | every answer is put together from reads made at different moments |
| Source readiness | `layerzero_runtime/validation_readiness.rs`, `provider_health/evm_observations.rs`, `source_events_*.rs` | the reads of one observation | nine observers | receipt, head, finality and canonical header may come from different forks |
| Payload lookup | `layerzero_runtime/validation_payload*.rs`, `provider_health/evm_payload_observations.rs`, `canton_sequencer.rs` | the reads of one lookup | nine observers | a commit reclaims the record the next read looks for |
| READ markers | `layerzero_runtime/validation_read_markers.rs`, `read_payload.rs` | headers, pins, answers | headers, timestamps, confirmations, calls by hash | headers of two heights, the head and the call are separate reads |
| HTTP server | `pillar-cli/src/main.rs`, `connections.rs`, `response_body.rs` | connections, their permits and flags, drain state | accept, evict idle, withdraw, drain, cut | shutdown races running requests; a wake-up may be lost |
| HTTP API, packet decoders, configuration tables, metrics, client | the remaining crates | none shared | functions of their input | volume, not order |

A connection takes a slot of the server; its request passes the upload and the
signing budget (a `FairBudget` each), pins a configuration generation, and runs
one agreement round per question (`plan_dispatch` fixes
whom to ask in which order, provider calls pass an RPC `FairBudget` and the
parser gate, JSON answers take memory from the pool). Agreement reached, each wallet signs
through the KMS `FairBudget` and the audit. Beside all this the refresh loop
publishes configurations, and health rounds probe the providers and feed the
ranks that the dispatch order uses.

### What makes each part correct

* **Budgets**: no cap is ever exceeded; no permit is idle while a waiter could
  use it; every call is counted exactly once; waiters of one key are served in
  order; the waiting room is bounded; nobody waits for ever.
* **Agreement**: an answer is returned only if no other could have won; a
  failure is returned only if nobody could have; neither depends on arrival
  order; a refusal of our own is not a provider's vote.
* **Memory pool**: counter = sum of leases, within the limit; every retained
  value is paid for; a round that loses a swap tries again and gets through.
* **Strategies**: satisfiability means that distinct entities fill the slots;
  quorums are monotone, never empty; the first wave is a quorum of the fewest
  healthy providers and everybody is asked eventually.
* **Health**: a value is served only for the generation it was observed in and
  only while it is not too old; an older round never replaces a newer one;
  reads end.
* **Audit**: no effect before its committed attempt; no success without
  committed evidence; evidence is true; no attempt is forgotten; one identity
  never signs two inputs; slots come back.

* **Store**: a begin takes effect at one instant, once or not at all; replicas
  stay within one quota; nobody inherits another's statement; every begin ends.
* **Parser gate**: slots and registrations come back; a local wait is not a
  provider's failure.
* **Configuration**: the served pair validates together and keeps the startup
  chains; once the operator is done, the last pair serves; a request sees one
  generation.
* **Workflow**: what is signed is final and is what the chain says; a packet
  that was signed for already is not signed again; a READ answer was read at the
  block its marker means.
* **Server**: slots are exact; eviction spares requests; every accepted client
  is served or dropped; the server stops.

`PROJECT.json` lists the hazards behind these, each at its line.

## 2. The modules

| Module | Models | Used with |
|---|---|---|
| `FairBudget` | the budget, step by step | refines `Admission` |
| `Admission` | what a budget promises, without queues, counters or locks | |
| `BudgetProofs` | theorems about `FairBudget` and `JsonPool` | |
| `ExactQuorum` | one agreement round | its `Quorums` are what `DispatchPlan` calls `IsMetBy` |
| `ExactQuorumProofs` | theorems about `ExactQuorum` | |
| `JsonPool` | the shared memory of JSON votes | the rounds of `ExactQuorum`, as far as memory goes |
| `EntitySlots` | what `assign_entities` decides (`Fits`) | extended by `Assignment` and `DispatchPlan` |
| `Assignment` | `assign_entities` and `augment` as an algorithm | decides `Fits` |
| `DispatchPlan` | loading a strategy, and the order of one call | its `QuorumsSound` is the assumption of `ExactQuorum` |
| `RpcTransport` | one provider call through `limited_rpc` and the parser gate | its RPC permit and the order of grants are `FairBudget`'s |
| `RpcTransportProofs` | theorems about `RpcTransport` | |
| `HealthCache` | health reads, probe rounds, configuration generations | |
| `ProviderProofs` | theorems about `HealthCache`, `DispatchPlan` and `Assignment` | |
| `AuditSigning` | audited signing with dropped callers, lost answers and crashes | its begin is one step, which is what `AuditLedger` promises |
| `AuditSigningProofs` | theorems about `AuditSigning` | |
| `AuditStore` | `begin`, statement by statement, over sessions and replicas | refines `AuditLedger` |
| `AuditLedger` | what a begin promises | |
| `AuditStoreProofs` | theorems about `AuditStore`, the refinement among them | |
| `ConfigRefresh` | the bucket, the refresh loop, the serving snapshot | extended by `SignWorkflow` |
| `SourceReadiness` | a source chain and the readiness reads of it | extended by `SignWorkflow` |
| `PayloadLookup` | a destination and the duplicate check there | extended by `SignWorkflow` |
| `ReadMarkers` | a READ target and the blocks a command is answered from | extended by `SignWorkflow` |
| `SignWorkflow` | one request from its pin to its signature, over all four | each read is one `ExactQuorum` round |
| `SignWorkflowProofs` | theorems about `SignWorkflow` and the four it extends | |
| `ServerDrain` | the server task, its connections and its shutdown | |
| `ServerDrainProofs` | theorems about `ServerDrain` | |

`MC*.tla` and `*.cfg` instantiate them. Definitions commented "Fault:" are
plausible mistakes in the definition that follows them; no specification uses
them. Substituting one for the definition it precedes makes the property it is
paired with in `PROJECT.json` fail, which shows that the property depends on
that code.

### FairBudget

`active`, `waiting`, `next`, `closed`, `laneActive`, `laneLimit`, `queue`,
`resourceActive` and `laneResourceActive` are the fields of `State` and `Lane`;
`wstate` is `Waiter.state` (the atomic), `lane`, `resource` and `outcome` are
the `Registration`, `started`, `counted`, `skipped` the tallies. `pc` says where
each call is; the calls whose `pc` is in `Critical` hold the Mutex.

A call enters (`AcquireEnter`, `TryEnter`, `UnknownLane`), dispatches under the
Mutex (`Dispatch`, one grant per step, since a granted waiter runs on without
the Mutex), decides (`AcquireDecide`, `TryDecide`: refuse, take a permit or
queue), waits, and observes a grant, a close or its deadline
(`ObserveGrant`, `ObserveClosed`, `ObserveDeadline`). `Finish` and `Cancel` lead
to `Drop`, which is `Registration::drop` with its trailing dispatch. `Close` and
`CapLane` are the operations from outside. The clock is abstract: a deadline may
be seen at any time while waiting. The four answers of `dropped_outcome`, and
the two of a deadline, are one label each: no property tells them apart.

### ExactQuorum

`reply` fixes what each provider will answer: a fingerprint, a remote failure, a
local refusal or a configuration error. `Arrive(p)` is one turn of the loop of
`resolve_provider_quorum_for_indices`, from the arrival of an answer to the
return or the next wait: `Record`, `Unambiguous`, `CanReachQuorum`, `Conclude`
(`finish`). The strategy is the set `Quorums`, which may be any upward-closed
set of provider sets that holds the pool and not the empty set.

### JsonPool

`Load` and `Swap` are the two halves of a turn of the compare-and-swap loops of
`reserve` and `grow`: whatever happens between them makes the swap fail. (The
weak swap may also fail without a reason; it then reads the value it had.)
`VoteCovered` is a vote that needs no memory, `TooLarge` a value over the limit,
`End` and `DropLease` the accumulator going out of scope, lease by lease.
`estimate_json_retained_bytes` is an input (`Sizes`).

### Assignment and DispatchPlan

`Assignment` runs `assign_entities` slot by slot, `augment`'s search one category
per step and its hand-overs one per step, from every policy and every pool. The
order of the search queue only picks among augmenting paths and is left open.
`DispatchPlan` has two steps: `Load` resolves "max", applies the restriction on
it and validates; `Plan` orders the pool for one call. Its operators are the
functions of the same meaning in `provider_validation.rs`; the nested sorts of
the code are one sort by keys (`InOrder` by `RankKey` or `OrderKey`), the loop that
drops providers from the back is a recursive function (`Kept`), the slots of a
policy are a set (`CategorySlots`), and the matching is stated by what it decides (`Fits` of
`EntitySlots`); that `Assignment` decides it is checked and proved.

### HealthCache

A value is its generation label, the generation really probed and the time it
was published. Three rounds may overlap: `startup`, `rank` and `refresh`, the
last being the task that owns the refresh guard. Every await separates two
steps: reading the generation (`Label`, `Look`), the probe's own read of the
snapshot (`Probe`), its end and the retained report (`Probed`), the comparison
with the generation now (`Overtaken`, `Unmoved`), the publication or fallback
(`Settle`). A reader takes the time (`Begin`), looks (`Peek`), waits for the lock
(`Lock`), may leave at any time (`Abandon`), and `/provider-health/report` reads
the retained report afterwards (`Report`). `Publish` moves the generation at any
time; a pin makes `Generation` constant for its reader.

### AuditSigning

A signing is one `sign_wallet` future and the attempt it makes. `DbBegin` is the
begin transaction as the database runs it, which may be after its caller gave
up (`BeginFails`). A KMS signing reserves a completion slot (`Start`), hands it to
its worker (`Begun`), waits (`AwaitExpires`); the worker signs (`WorkerStart`,
`EffectReturns`), notices a lost caller (`CallerLost`), records (`WorkerRecords`)
and sends (`Send`). A local key signs in the poll that armed it. `Wrap` is the
end of `sign_wallet`, with the evidence of the wallet and the guard; a dropped
future's guard records from a task of its own (`GuardRecords`). Each record may
be committed and answered, committed without an answer, or lost. `Respond` is
`try_collect`, `Disconnect` a client that leaves, `Crash` the end of the process.

A signing here stands for `begin` as `AuditLedger` states it; that the store
keeps that promise with sessions, lost commits and replicas is `AuditStore`'s
subject.

### AuditStore

A call queues for the session mutex of its replica (`Begin`, `QueueFails`), takes
the session out of its slot (`Acquire`) or dials (`Dial`), and runs the statements
of `begin_inner` one by one: `OpenTransaction`, `ReadRow` (the row lock),
`CheckIntent`, `SendCommit`, `Answered`. `Return` is `finish` with a session that
is fit for the next caller, `Abandon` the drop of one that is not, `Fails` any
statement's timeout or lost connection. `GrantLock`, `Commit`, `Rollback` and
`Disconnect` are PostgreSQL: they go on after the caller has given up. The
ledger's variables are the store's committed rows, so the refinement mapping is
the identity and says *when* a begin takes effect: at `Commit`.

### RpcTransport

Time passes in ticks; `left` and `wait` are what remains of `limited_rpc`'s
deadline and of the inner wait. A call starts, its response reaches the parser
(`Answered`), waits for a permit of the parser budget (`Grant`, `Granted`), for a
slot (`SlotTaken`), is parsed (`Finish`), or a timer elapses: `WaitOver` is an
inner one and an admission outcome, `RpcTimedOut` the outer one and the
provider's failure. Probes, a request's own reads, READ targets and calls without
resources take the four paths of `acquire_json_parse_slot`.

### ConfigRefresh

A document is named by the rollout that wrote it. `Write` is the operator, one
object at a time; `Wake`, `Fetch`, `FetchFails`, `LoadTimesOut` and `Apply` are the
loop: both objects fetched side by side, the checks of the load (`BindingHolds`,
the pair's own validation as `Pairs`, `CarriesRoster`), `accept_refreshed_snapshot`
and `publish`, which keeps the generation of an unchanged configuration.

### SourceReadiness, PayloadLookup, ReadMarkers

Each holds a chain that moves on its own and a check made of reads, each read
seeing the chain at one moment. A block is its height and the fork it was mined
on. The families of chains differ in the tables `*Observer` and `*Lookup`: which
reads they make, which of them only after the others have answered, what they
compare.

A packet at its destination is open, committed or delivered, with the verifier's
record beside it; `lookup` keeps both as they were at `Ask`, and the answers so far.
An answer is "yes" or "no", and of the state also "other": Aptos V301's states 1, 3
and 4, and a Stellar simulation that failed on a missing contract, which are unsigned
without another read (only VERIFYING is asked further on Aptos). A count of zero is
no record to the observers of Solana, Aptos and the Move chains (`Counts`, beside
`Enough`, which compares with what is required only). On the EVM's READ library
(`reads`) the record of a verifier is not asked for and no confirmations are required.
`RecordGap` and `PacketGap` are where the
observers may miss what was signed for:

* the record is read beside or after the state, and a commit reclaims it in between
  (the Move chains with ULN302, Sui, Stellar, Canton);
* the record is a stored zero (`SECURITY.md:166-171` documents it for the Move
  chains; Solana's observer does the same);
* the state was "other";
* the packet was delivered under the lookup, on Aptos or Stellar, between the
  read of the nonce, which said "no", and that of the hash, which delivery cleared.

`NotSignedAgain` says that there are no others. Leaving any of them out of the
property makes TLC find it violated.

`ReadMarkers` has headers, the parent link and timestamps, the head and
the pinned block, and the calls by hash.

### SignWorkflow

`stage` is where `sign_request_v2_inner` is; the three joined checks proceed in
any order (`passed`), each by its reads. `used` collects the generations the
request's reads were dispatched under: `Load` is the snapshot handle under a pin.
`Route` is the receive library of a V2 send, `RefreshEvent` the second read and
`Hydrated` the guid that makes a routed send subject to the payload lookup.
`Refuse` ends a request at any stage; a read that fails is one.

### ServerDrain

`pc` is the server task: accept, wait for a permit (try, evict, wait), the
withdrawal, the drain, the join and the hard cut. A connection's record is its
phase and its flags (`idle`, `complete`, the close channel, `keep`); `Start`,
`Enter`, `Uploaded`, `Respond`, `BodyComplete`, `Flushed` are one request on it,
`Graceful`, `Close`, `Cut`, `Aborted` its ends.

## 3. The runs

| Run | Instance | Shows |
|---|---|---|
| `budget` | 4 calls, 2 lanes, a resource shared by the lanes (limit 1), `active` 2, 1 per lane, 1 waiting place | `BudgetInv`, the invariant of the proofs, with the caps, no idle permit and one count per call; `SnapshotSound`; `ImplementsAdmission` |
| `budget_working` | 3 calls, lane caps 2 that `cap_lane` lowers, two waiting places, holders finish, no deadline has to pass | `NoOvertaking`; `QueueDrains`: no wake-up is lost |
| `quorum` | 5 providers of 3 entities, 3 responses, any two entities are a quorum | `AgreedIsUnique`, `FailureIsReal`, `LowestIndexRetained`, `RoundSound` |
| `json_pool` | 2 rounds, 2 providers, 2 responses, sizes 1..3, a value may take 2 of a pool of 3 | `PoolExact`, `ValuesCovered`, `ReservationsEnd` |
| `health` | a report read beside a pinned `/ready` or the rank loop, 2 refreshes of the configuration (1 with the rank loop), clock 0..2 | `ServedSound`, `RankedAsProbed`, `ReportFollowsHealth`, `NewestRoundRetained`, `ReadsEnd` |
| `audit_wallets` | a request with a KMS and a local wallet, one completion slot | `SigningInv` (no effect before its commit, true evidence), `SuccessIsEvidenced`, `NothingForgotten`, `SigningsEnd` |
| `audit_store` | 3 deliveries of one request over 2 replicas, 2 inputs, quota 2 | `StoreInv`, `ImplementsLedger`, `BeginsEnd` |
| `dispatch_plan` | every pool of 3 URIs, 2 categories, 3 entities, every rank, 9 strategies; and `assign_entities` on every pool of 3 entities in 3 categories and every policy of up to 3 slots | `QuorumsSound`, `TrustRootExact`, `FirstWaveMinimal`, `AssignmentDecides` |
| `rpc_transport` | 3 calls in five mixes of kinds, 1 slot, 2 parser permits, waits of 2 ticks in calls of 6 | `GateInv`, `PromptIsNotBlamed` |
| `rpc_blame` | 3 probes, the same gate, calls of 2 ticks | violates `LocalIsAdmission`: the finding below |
| `server_drain` | 2 connections, 2 slots, 1 upload permit, with and without withdrawal | `ServerInv`, `EvictionSparesRequests`, `StreamsResolve`, `ServerStops` |
| `sign_workflow` | one of ten requests, nine source and nine destination families, four rollouts | `SignedIsFinal`, `NotSignedAgain`, `ReadIsPinned`, `WorkflowInv`, `ServingSound`, `Converges` |

Every property is stated in words above its definition. All runs but
`rpc_blame` finish without a violation. The models only stop where the system
does (every call over, a round decided, a bound reached), so deadlock is not
checked, except in `server_drain`, whose server stops in one place only.

### The finding

`rpc_blame` shows a disagreement of the code with `SECURITY.md:264-265`, "Local
capacity or drain failures remain admission outcomes, not failed provider
votes." (lines 187-188 say the same of the budgets: "Local overload/wait failures [...]
are admission outcomes, not provider-health/quorum or signer backend faults.")
`limited_rpc` bounds the call *including* the waits for this process's own
parser permit (2 s) and slot (2 s) and reports its own expiry as "provider
response timed out" (`transport.rs:507`, `522`). A background call has 2 s in all, so
a probe that waits for a local slot is recorded, and ranked, as a slow provider.
`PromptIsNotBlamed` says how far the claim does hold: for every call whose
response reaches the parser with both inner waits before its deadline, or whose
deadline is the request's own.

### Why the bounds are enough

* `budget`: both lanes can be full with a waiter behind each, and a fourth call
  arrives while a grant, an expiry and a cancellation are under way; the shared
  resource is the tighter cap, so the dispatch scan has to skip a lane. Calls are
  interchangeable, hence the symmetry. In `budget_working`, without symmetry, two
  calls of one key can queue in one lane, so that arrival order matters.
* `quorum`: two responses can both reach a quorum (entities with two
  providers), so early decision and ambiguity really occur; fingerprints are
  interchangeable.
* `json_pool`: the pool holds one large and one small value, so rounds compete
  and a replacement has to grow a lease, and a swap is lost to a reservation, a
  growth or a drop of the other round.
* `health`: with `Ttl` 0 and `Stale` 1 a clock of 0..2 passes through every age
  class; two refreshes can overtake both attempts of a refresh task. The rank
  loop does not touch the cache, so it is met apart from `/ready`.
* `audit_wallets`: one slot makes the guard compete with a worker; two wallets are
  enough for one to fail while the other signs. `audit_store`: three deliveries
  let a late commit meet a retry, here and on another replica, when one place of
  the quota is left.
* `dispatch_plan`: three entities in three categories give augmenting paths of
  every length up to three.
* `rpc_transport`: two calls fill the budget and one the slots, so the third waits
  at either place; a signing read's 55.2 s are shortened to six ticks, which
  exceed both inner waits, so it can reach the parser with time for both or not.
* `server_drain`: two connections fill the slots, so a third client makes the
  server evict; `Conns` names live connections and is reused.
* `sign_workflow`: one of the surroundings moves at a time (`MCInit`, `MCNext`),
  because the checks of a request share nothing but their request. The source
  grows from one block to `MaxHeight` 3 with `MaxForks` 2, under every family: a
  transaction can be confirmed, moved to another fork with another message and
  back. The READ target starts at 2 of `TargetHeight` 4 blocks, with
  reorganizations up to `Depth` 2, the confirmations of one of its markers. The
  rollouts include one that names its providers, one that drops a chain and one
  that names them again, so every kind of half-written pair is fetched; one
  fetch fails or hangs (`MaxFaults` 1). The destination that moves starts in any
  state, required confirmations and stored record from 0, and its requests, which
  name a verifier, come from a source whose check makes no read.

### Fairness

* `WorkingSpec` of `FairBudget`: the executor polls every ready call, and holders
  of a permit finish: every permit holder of the code runs under a request
  deadline. No fairness on deadlines, closes or cancellations.
* `JsonPool`: a round runs on in its compare-and-swap loop, which has no await and
  no early return but for a full pool. That it gets through is then up to the
  loop: after a lost swap it has to go on with the value it observed
  (`ReservationsEnd`; the fault `SwapStale` tries again with the old one). Votes,
  drops and ends of rounds are not fair.
* `HealthCache`: tasks are polled and probes return (each provider call has a
  timeout); strong fairness on `Lock` because tokio's Mutex serves its waiters
  in order. None on the clock, publications, clients leaving, the rank loop.
* `AuditSigning`: futures and tasks are polled, and every wait of theirs has a
  deadline (the store's timeout, 55.2 s for an effect, the request's own). None
  on the database, on clients or on crashes.
* `AuditStore`: a call's waits are bounded (`bounded`, `queue`), and backends go on:
  lock, statement and idle-in-transaction timeouts are set at session startup.
* `ConfigRefresh` (in `SignWorkflow`): the loop sleeps, fetches and applies; a fetch
  that never answers is cut off by the thirty seconds of `load_remote_snapshot`.
  None on the operator, the chains or the request.
* `ServerDrain`: the server task is polled and its timers elapse; strong fairness
  on the signal, since the `select!` of the accept loop picks at random among
  ready branches; each phase of a connection has its timer (header read,
  keep-alive, request, write, lifetime). None on clients.

## 4. The proofs

### BudgetProofs

**FairBudget.** Assumed: `LimitsAssumption` (what `FairBudget::build` and
`with_lane_resource_limit` accept) and `CallsAssumption` (the calls of a history
are finitely many; the absence of a resource is not a resource). Any number of
calls, lanes and resources.

`BudgetInvHolds` is the inductive invariant. `CapsHold` is not inductive: the
code compares *counters*, so one needs that each counter is the number of
permits it stands for (`CountersOK`) and is within its cap (`CountsCapped`); that
the counters survive a drop needs to know what a waiter can be at each point
(`PhasesOK`) and that the queues hold exactly the waiting calls, once each
(`QueuesOK`); `NoIdlePermit` is a conjunct because the Mutex may only be released
when it holds (`MutexOK`); `TalliesOK` says when a call has been counted.
`NextBudgetInv` has one lemma per action, over lemmas about what adding and
removing one call does to the cardinalities (`GrantCounts`, `UngrantCounts`) and
to a queue (`QueueRemove`, `QueueAppend`).

From it: `CapsAlwaysHold`, `NoPermitIdles`, `EachCallCountedOnce`, the action
property `ArrivalOrderKept`, and `BudgetImplementsAdmission`, the refinement: the
permits out are the calls whose waiter is granted, the budget is open until
closed, and every step is an `Ask`, `Admit`, `Return`, `Shut` or a stutter
(`StepRefines`); `Admit`'s caps follow from `CanGrant` through `CountersOK`.

`SnapshotHolds`: what a lane reports adds up. The calls of a lane that started
are those settled, those active and those waiting, three sets that do not meet
(`DisjointSize`); each has the size the code keeps for it: a settled call has
one outcome (`TerminalSize`), a queue has its waiting calls once each
(`QueueLength`), the active ones are a counter. The bound on the waiting room
follows from one on the lanes where somebody waits, which is inductive beside
`BudgetInv`: only a lane where nobody waits may exceed the shared allowance, and
only by one.

**JsonPool.** Assumed: `SizesAssumption` (a value fits the pool, sizes are at
least one). `PoolInv` is `PoolExact`, `ValuesCovered` and that finitely many units
are leased. A unit is a lease with a number up to its size (`Leased`), so that the
sum of the leases is a cardinality, and a lease that is made, grown or dropped
adds or removes as many units as the counter changes by (`UnitsSize`, `LeaseGrows`,
`LeaseDropped`). The swap only succeeds on the value that was loaded, which is
what makes `Load` and `Swap` together one addition. `ValuesCovered` needs that the
value of a reservation under way is the size it will be charged.

### ExactQuorumProofs

Assumed: `PoolAssumption` (a finite pool; quorums upward closed, the pool one of
them, the empty set not), which `QuorumsAreSound` proves of every strategy `DispatchPlan` loads, and
`RepliesAssumption` (a fingerprint is no failure, and there are at least two). `RoundInvHolds` is the
inductive invariant: the tally is exactly what the answered providers said
(`TallyExact`), and what the round has decided is right (`Verdicts`). The
argument of a step: the supporters of a response lie between its voters and its
voters joined by the pending (`TallyBounds`), so with monotone quorums an
unambiguous response is the only winner of the whole pool (`UnambiguousWins`) and
a stopped tally has the winners of the whole pool (`StoppedTally`). From it:
`AgreementIsUnique`, `NoAgreementLost`, `LowestIndexKept`. `RoundIsSound` is about the
round while it runs: a refusal of our own is no vote and no provider's failure,
the loop goes on only while no response has won and one still can
(`LoopGoesOn`, inductive with the tally), and as long as the votes agree the
outcome really is open: the outstanding providers could still answer in ways that end the round
differently, which is where a second response is needed.

### ProviderProofs

**HealthCache.** Assumed: `TimesAssumption` (a value is stale later than it is
old). `ServedSoundHolds` is the inductive invariant. Generations only grow, so a
probe between two looks at the generation that agree was of that generation
(`RoundOK`). The one value cached without the second look is the startup probe's;
it is only a hit for a generation not younger than its probe, for an unpinned
call because the generation now serving is that old, for a pinned one because
nothing was pinned before the process served (`CacheOK`, `ReaderOK`). From it:
`RankedHolds`, `ReportHolds`, and the action property `NewestRetained`: a retained
report is replaced only by one that is not before it in the order of generation,
then start.

**DispatchPlan.** Assumed: `ProvidersAssumption` (finitely many voters; strategies
are lists of counts or "max"). `PlanInvHolds`: a loaded strategy is the resolved
one and was satisfiable by the pool. More voters have more entities in every
category (`EntitiesGrow`) and a requirement set counts entities and fits them to
slots, so it stays met (`RequirementsGrow`, `QuorumsGrow`); "max" became the number
of entities of the whole pool, so whoever meets it has them all (`MaxIsAll`).
Hence `QuorumsAreSound`, the assumption of `ExactQuorum`. `TrustRootIsExact`: a
strategy that one entity meets has at most one slot, and one of its voters
belongs to that slot's category (`OneVoterServes`).

`FirstWaveIsSmallest` says of the plan that its first wave meets the strategy and
that no quorum of healthy providers is smaller; `WaveInv` is the inductive
invariant (ranks, `PlanInvHolds`, and a plan that stays right once made). Four
steps lead to it. A sort by keys that differ puts everybody at one place
(`InOrderSorts`), and the keys do differ: two URIs of one category and entity have
different turns (`OrderKeysAreKeys`). The loop from the back ends with a set that
meets the strategy and of which nobody can be spared, because who could not be
dropped when his turn came cannot be dropped from fewer (`KeptIsMinimal`). Such a
set is not only minimal but of the fewest: a larger set than the list has slots or
"any" votes has a voter without a slot of his own, or two voters of one entity, so
somebody could be spared (`MinimalIsSmall`), and every quorum is at least that
large (`EnoughVoters`). The alternative that keeps fewest is behind no other
(`ChosenIsSmallest`), and with the kept ones first (`SelectedComeFirst`) the
shortest prefix that meets the strategy is no longer than they are. The library's
induction takes an operator and cannot be used; the loop's rounds are argued by
the least number of rounds at which the claim would fail (`FirstExists`).

**Assignment.** Assumed: `SlotsAssumption` (finitely many entities, ordered).
`AssignInvHolds` is the inductive invariant. Between slots the held entities are
matched one to one with the filled slots (`Matched`). What the search has seen is
a tree: every category but the start was reached through an entity it holds from
a category nearer to the start (`SearchTree`, with a depth as the witness), and
what was popped has only holders that were seen (`Closed`). During the hand-overs
category `at` holds one entity more than its slots (`Spare`), and the part of the
tree nearer to the start is untouched (`FlipTree`), because depths fall from
step to step and each hand-over changes one link at `at`. `AssignmentIsRight`:
accepted, the matching is the assignment (`YesIsRight`); refused, the categories
seen have all their entities in their own filled slots and one slot more, so an
assignment would map more slots than entities one to one (`NoIsRight`).
`FitsIsAssignable` turns an entity per slot into as many per category.

### RpcTransportProofs

Assumed: `TransportAssumption` (positive limits and waits). `GateHolds`: a call
counts in the pools by where it is and by its kind, and each move adjusts the
pools by what it changes in those counts (`MoveCounts`). `PromptNotBlamed`: a
prompt call's inner wait runs out before its deadline (`TimersOK`), since the two
timers tick together, the wait was cut to the request's deadline or began with
the slot's wait to spare, and it is renewed for the slot only while it runs.

### AuditStoreProofs

Assumed: `StoreAssumption` (each call has its replica, the quota is positive).
`StoreInvHolds` is the inductive invariant: the row lock is held from `FOR UPDATE` to
the end of the transaction whatever becomes of its caller, so what a begin read
under it still holds when it commits (`CheckedUnderLock`); a connection never
leaves its replica and is in the slot or with the holder of the mutex
(`SessionsOK`, `MutexOK`); a caller who gives up inside a transaction closes its
connection (`PlacesOK`). `StoreImplementsLedger`: `Commit` of a checked begin is the
ledger's begin, every other step a stutter.

### AuditSigningProofs

Assumed: `SigningsAssumption` (each signing belongs to one request; quota and
slots are positive). A step mostly belongs to one signing, so `SigningInvHolds` is
about each signing by itself (`SigningOK`), with `OneSigning` for the others;
`Respond`, `Disconnect` and `Crash` touch many and have their own lemmas. The heart is
`EvidenceOwed`: while an attempt lacks its evidence, a worker or the guard's task
that will write it is alive, or the store or a crash failed it. From it:
`SuccessStandsOnEvidence` and `NoAttemptForgotten`.

### ServerDrainProofs

Assumed: `ServerAssumption` (at least as many connection names as slots).
`ServerInv` is inductive as it stands (`ServerInvHolds`): permits are counted
against the registered connections, flags say what a connection does, a wake-up
follows every idle one, the drain meets every registration. `EvictionSpares` is
the action property on top of it.

### SignWorkflowProofs

Assumed: `RolloutsAssumption` (the process started from a valid pair that carries
the roster), `SourceAssumption`, `RequiredAssumption` (a destination requires some
confirmations), `TargetAssumption`, `RequestsAssumption` (shapes). The theorems are
about `Spec`, in which all surroundings move at once; the run moves them one at
a time.

`AllOK` is the inductive invariant: what serves is validated (`RefreshOK`), the
request is where its checks let it be (`StageOK`) under one generation
(`OneGeneration`), and what it has read is still as good as when it was read, for
the source (`SourceOK`), the destination (`LookupOK`) and the target (`ReadingOK`). The
surroundings move in few ways that matter: a replaced source block gets a fork
number nobody has seen and was not final (`ChainMoved`), a destination packet
only goes on (`DestMoved`), a replaced target block gets a new fork number and
was not deeper than `Depth` (`TargetMoved`). Under each, the three parts stay
(`SourceStays`, `LookupStays`, `ReadingStays`), and each read of a request adds to
them. A sufficient answer is then about a final block (`SufficientIsFinal`), a
lookup that passed met a packet that was not signed for but for the gaps
(`NotSignedMeans`; a record that counted is only lost to a commit, and then the state
that is read after it tells), and
an answer was read by hash at the block of its marker (`AnswersFollow`). From it:
`ServingSoundHolds`, `WorkflowInvHolds`, `SignedIsFinalHolds`, `NotSignedAgainHolds`,
`ReadIsPinnedHolds`.

### Only model-checked

Liveness (`QueueDrains`, `ReservationsEnd`, `ReadsEnd`, `SigningsEnd`, `BeginsEnd`,
`StreamsResolve`, `ServerStops`, `Converges`): the prover has no fairness.
`LocalIsAdmission` is the property that does not hold.

## 5. Not modelled

* The permits of READ calls (chain, then process), the byte charge of their
  results, and the token cache of the Canton ledger: planned, below.
* The store's probe lane and `reachable` flag: they feed a gauge and `/ready`
  only, and a signing never reads them.
* `RefreshOwner`'s abort of a refresh at shutdown; the per-chain observations
  that a new report carries over from the last; what a probe asks a chain.
* The hedge of the Azure signer (only used without audit) and the unaudited
  signing path; `sign_wallet` for a wallet whose signer never began an effect
  yet returned a signature (the code refuses it; no signer does it).
* The stagger delays of a dispatch: every provider is asked, and answers come
  in any order, which covers every delay.
* HTTP routing and parsing, cryptography, metrics, logging: functions of their
  input without shared state.
* Packet and proof decoding, ABI, JSON and hashing of the chain families, and
  the generated tables. They are most of the repository's lines (the address
  table alone is 25,000, a family's decoder or codec one to three thousand) and
  none of its control: TLC could only repeat them on inputs, which the
  repository's own tests and recorded vectors do. The models take what these
  functions return, right or refused, and check what the code does with it; so
  the share of the implementation the models stand for stays small.
* Two target chains of one READ command, and several requests at once: the
  checks of one chain or request share no state with those of another but the
  budgets, the pool and the gate, which have their own modules.

## 6. Plan

Done, in this order: `FairBudget` with `Admission` and its proofs, `ExactQuorum`
and its proofs, `JsonPool`, `HealthCache`, `AuditSigning`, `Assignment`,
`DispatchPlan`; then `ServerDrain`, `AuditStore` with `AuditLedger`, `ConfigRefresh`,
`SourceReadiness`, `PayloadLookup`, `ReadMarkers`, `SignWorkflow`, `RpcTransport`;
then the proofs of all of them.

Next:

1. `ReadCalls` (`read_payload.rs`): the chain and process permits of READ calls
   under the request deadline, and how long a call of one chain can be kept by
   stalled others.
2. `CantonAuth` (`canton_ledger.rs`): the cached token, its refresh and
   invalidation by concurrent calls.

----------------------------- MODULE ConfigRefresh -----------------------------
(***************************************************************************)
(* The provider configuration of a process that reads it from a bucket:    *)
(* RemoteProviderSource::load and StaticProviderConfig of crates/          *)
(* pillar-config/src/lib.rs, the refresh loop of crates/pillar-runtime/    *)
(* src/config_loader.rs and ProviderSnapshotHandle of provider_snapshot.rs.*)
(*                                                                         *)
(* The bucket holds two objects, the providers and the quorum strategy.    *)
(* An operator replaces them one at a time, rollout after rollout, while   *)
(* the loop fetches both side by side: a document is named by the rollout  *)
(* that wrote it, and a digest is that name.  Whether a strategy can be    *)
(* met by a pool (DispatchPlan.tla) is given by Pairs.                     *)
(***************************************************************************)
EXTENDS Integers, Sequences

CONSTANTS Roster,      \* RuntimeConfig.available_chain_names
          Rollouts,    \* what each rollout writes: [carries, bound]
          Pairs,       \* the providers and strategies that validate together
          MaxFaults    \* how often a read of the bucket fails or hangs

Last == Len(Rollouts)
Objects == {"providers", "strategy"}
Absent == 0            \* a fetch that has not answered
Failed == -1           \* a fetch that failed

ASSUME RolloutsAssumption ==
  /\ Rollouts \in Seq([carries : SUBSET STRING, bound : BOOLEAN]) /\ Last > 0
  /\ Roster \in SUBSET STRING /\ Roster # {} /\ Roster \subseteq Rollouts[1].carries
  /\ Pairs \subseteq (1 .. Last) \X (1 .. Last) /\ <<1, 1>> \in Pairs
  /\ MaxFaults \in Nat

VARIABLES
  remote,   \* PROVIDER_CONFIG_TYPE is S3 or GCS; a LOCAL process has no loop
  bucket,   \* the rollout that wrote each object
  poll,     \* what the running load has fetched; <<>> while the loop sleeps
  serving,  \* the RuntimeProviderSnapshot of the handle
  faults

refreshVars == <<remote, bucket, poll, serving, faults>>

RefreshTypeOK ==
  /\ remote \in BOOLEAN
  /\ bucket \in [Objects -> 1 .. Last]
  /\ poll \in {<<>>} \cup [Objects -> {Failed, Absent} \cup 1 .. Last]
  /\ serving \in [generation : Nat, providers : 1 .. Last,
                  strategy : 1 .. Last, chains : SUBSET STRING]
  /\ faults \in 0 .. MaxFaults

\* publish_startup: generation 0 is the pair the process started with.
RefreshInit ==
  /\ remote \in BOOLEAN
  /\ bucket = [o \in Objects |-> 1] /\ poll = <<>> /\ faults = 0
  /\ serving = [generation |-> 0, providers |-> 1, strategy |-> 1, chains |-> Roster]

-----------------------------------------------------------------------------
(* The load checks. *)

\* Fault: the digest is not compared.
BindingIgnored(p, s) == TRUE

\* check_providers_binding: a strategy that names its providers goes with them.
BindingHolds(p, s) == Rollouts[s].bound => p = s

\* check_for_missing_chain_names.
CarriesRoster(p) == Roster \subseteq Rollouts[p].carries

\* RemoteProviderSource::load.
Loads(p, s) ==
  /\ p > Absent /\ s > Absent
  /\ BindingHolds(p, s) /\ <<p, s>> \in Pairs /\ CarriesRoster(p)

\* candidate: what the pair would serve, within the startup chains.
Candidate(p) == Roster \cap Rollouts[p].carries

\* accept_refreshed_snapshot, whose quorum check Pairs implies.
Accepted(p) == Candidate(p) # {}

\* publish: an unchanged configuration keeps its generation.
Published(p, s) ==
  IF serving.providers = p /\ serving.strategy = s /\ serving.chains = Candidate(p)
  THEN serving
  ELSE [generation |-> serving.generation + 1, providers |-> p, strategy |-> s,
        chains |-> Candidate(p)]

-----------------------------------------------------------------------------
(* The operator and the loop. *)

\* An object is replaced by the next rollout's; a rollout ends before the next.
Write(o) ==
  /\ remote /\ bucket[o] < Last /\ \A other \in Objects : bucket[other] >= bucket[o]
  /\ bucket' = [bucket EXCEPT ![o] = @ + 1]
  /\ UNCHANGED <<remote, poll, serving, faults>>

\* Sixty seconds have passed: both fetches start.
Wake ==
  /\ remote /\ poll = <<>>
  /\ poll' = [o \in Objects |-> Absent]
  /\ UNCHANGED <<remote, bucket, serving, faults>>

Fetch(o) ==
  /\ poll # <<>> /\ poll[o] = Absent
  /\ poll' = [poll EXCEPT ![o] = bucket[o]]
  /\ UNCHANGED <<remote, bucket, serving, faults>>

FetchFails(o) ==
  /\ poll # <<>> /\ poll[o] = Absent /\ faults < MaxFaults
  /\ poll' = [poll EXCEPT ![o] = Failed]
  /\ faults' = faults + 1
  /\ UNCHANGED <<remote, bucket, serving>>

\* load_remote_snapshot gives up after thirty seconds.
LoadTimesOut ==
  /\ poll # <<>> /\ faults < MaxFaults
  /\ \E o \in Objects : poll[o] = Absent
  /\ poll' = <<>> /\ faults' = faults + 1
  /\ UNCHANGED <<remote, bucket, serving>>

\* Fault: a refused load ends the loop.
ApplyOnce ==
  /\ poll # <<>> /\ \A o \in Objects : poll[o] # Absent
  /\ Loads(poll["providers"], poll["strategy"])
  /\ serving' = Published(poll["providers"], poll["strategy"])
  /\ poll' = <<>> /\ UNCHANGED <<remote, bucket, faults>>

\* apply_refreshed_snapshot: the load is published, or what serves stays.
Apply ==
  /\ poll # <<>> /\ \A o \in Objects : poll[o] # Absent
  /\ serving' = IF /\ Loads(poll["providers"], poll["strategy"])
                   /\ Accepted(poll["providers"])
                THEN Published(poll["providers"], poll["strategy"]) ELSE serving
  /\ poll' = <<>>
  /\ UNCHANGED <<remote, bucket, faults>>

Refresh ==
  \/ \E o \in Objects : Write(o)
  \/ Wake \/ LoadTimesOut \/ Apply
  \/ \E o \in Objects : Fetch(o) \/ FetchFails(o)

-----------------------------------------------------------------------------
(* What serves. *)

\* The served pair is one that validates, a strategy that names its providers
\* is served with no others, however the operator's two writes and the loop's
\* two reads interleave, and no refresh adds a chain to the startup set or takes
\* one away (check_providers_binding, candidate and StaticProviderConfig::new).
ServingSound ==
  /\ <<serving.providers, serving.strategy>> \in Pairs
  /\ Rollouts[serving.strategy].bound => serving.providers = serving.strategy
  /\ serving.chains = Roster

\* Once the operator is done, a last pair that loads is what serves, whatever
\* half-written or failed reads came before ("a refresh keeps the serving
\* configuration and retries", SECURITY.md).
Converges ==
  remote /\ (\A o \in Objects : bucket[o] = Last) /\ Loads(Last, Last)
    ~> (serving.providers = Last /\ serving.strategy = Last)
===============================================================================

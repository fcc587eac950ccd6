-------------------------------- MODULE JsonPool --------------------------------
(***************************************************************************)
(* The process-wide memory pool behind JSON votes: JsonQuorumBudget and    *)
(* record_json_result_with_budget of crates/pillar-runtime/src/            *)
(* provider_health/quorum.rs.  Rounds of concurrent requests share one     *)
(* atomic counter, changed by compare-and-swap loops without a lock; each  *)
(* candidate response of a round owns a lease for the one value it keeps.  *)
(***************************************************************************)
EXTENDS Integers, FiniteSets

CONSTANTS Rounds, Providers, Fingerprints,
          Limit,      \* MAX_JSON_QUORUM_CANDIDATE_BYTES
          MaxValue,   \* MAX_JSON_RETAINED_VALUE_BYTES
          Sizes       \* what estimate_json_retained_bytes may add up to

ASSUME SizesAssumption ==
  /\ Limit \in Nat /\ MaxValue \in 1 .. Limit
  /\ Sizes \in SUBSET (Nat \ {0}) /\ Providers \in SUBSET Nat

VARIABLES
  used,     \* JsonQuorumBudget.used
  lease,    \* the bytes of each candidate's JsonMemoryLease, 0 without one
  held,     \* the estimated bytes of the value each candidate retains
  voters,   \* QuorumCandidate.indices
  failed, refused,  \* the providers recorded as errors, and as Overloaded
  job,      \* the reservation a round is in the middle of, or Idle
  ended     \* the rounds whose accumulator is being dropped

poolVars == <<used, lease, held, voters, failed, refused, job, ended>>

Idle == [bytes |-> 0]
PerCandidate(v) == [r \in Rounds |-> [f \in Fingerprints |-> v]]

PoolInit ==
  /\ used = 0
  /\ lease = PerCandidate(0) /\ held = PerCandidate(0)
  /\ voters = PerCandidate({})
  /\ failed = [r \in Rounds |-> {}] /\ refused = [r \in Rounds |-> {}]
  /\ job = [r \in Rounds |-> Idle]
  /\ ended = {}

-----------------------------------------------------------------------------
Answered(r) ==
  failed[r] \cup refused[r] \cup UNION {voters[r][f] : f \in Fingerprints}

\* The vote of p would make its value the one the candidate keeps.
Replacing(r, p, f) == \A q \in voters[r][f] : p < q

\* record, for a vote whose value is kept (or dropped) without a new lease.
Tally(r, p, f, bytes) ==
  /\ voters' = [voters EXCEPT ![r][f] = @ \cup {p}]
  /\ held' = [held EXCEPT ![r][f] = IF Replacing(r, p, f) THEN bytes ELSE @]

Open(r, p) == r \notin ended /\ job[r] = Idle /\ p \notin Answered(r)

\* The estimate exceeds the limit for one value: an error vote.
TooLarge(r, p, bytes) ==
  /\ Open(r, p) /\ bytes > MaxValue
  /\ failed' = [failed EXCEPT ![r] = @ \cup {p}]
  /\ UNCHANGED <<used, lease, held, voters, refused, job, ended>>

\* Fault: a value that replaces another is not charged again.
VoteUncharged(r, p, f, bytes) ==
  /\ Open(r, p) /\ bytes <= MaxValue
  /\ Replacing(r, p, f) => lease[r][f] > 0
  /\ Tally(r, p, f, bytes)
  /\ UNCHANGED <<used, lease, failed, refused, job, ended>>

\* The value is not kept, or the candidate's lease already covers it.
VoteCovered(r, p, f, bytes) ==
  /\ Open(r, p) /\ bytes <= MaxValue
  /\ Replacing(r, p, f) => bytes <= lease[r][f]
  /\ Tally(r, p, f, bytes)
  /\ UNCHANGED <<used, lease, failed, refused, job, ended>>

\* grow (of an existing lease) or reserve: the first load of the counter.
Load(r, p, f, bytes) ==
  /\ Open(r, p) /\ bytes <= MaxValue
  /\ Replacing(r, p, f) /\ bytes > lease[r][f]
  /\ job' = [job EXCEPT ![r] = [bytes |-> bytes, provider |-> p,
                                fingerprint |-> f, current |-> used]]
  /\ UNCHANGED <<used, lease, held, voters, failed, refused, ended>>

\* Fault: the counter is stored without comparing.
SwapBlind(r) ==
  /\ job[r] # Idle
  /\ LET j == job[r]
         next == j.current + (j.bytes - lease[r][j.fingerprint]) IN
     \/ /\ next > Limit
        /\ refused' = [refused EXCEPT ![r] = @ \cup {j.provider}]
        /\ UNCHANGED <<used, lease, held, voters>>
     \/ /\ next <= Limit
        /\ used' = next
        /\ lease' = [lease EXCEPT ![r][j.fingerprint] = j.bytes]
        /\ Tally(r, j.provider, j.fingerprint, j.bytes)
        /\ UNCHANGED refused
  /\ job' = [job EXCEPT ![r] = Idle]
  /\ UNCHANGED <<failed, ended>>

\* Fault: a swap that fails is tried again with the value first loaded.
SwapStale(r) ==
  /\ job[r] # Idle
  /\ LET j == job[r]
         next == j.current + (j.bytes - lease[r][j.fingerprint]) IN
     \/ /\ next > Limit
        /\ refused' = [refused EXCEPT ![r] = @ \cup {j.provider}]
        /\ UNCHANGED <<used, lease, held, voters>>
     \/ /\ next <= Limit /\ used = j.current
        /\ used' = next
        /\ lease' = [lease EXCEPT ![r][j.fingerprint] = j.bytes]
        /\ Tally(r, j.provider, j.fingerprint, j.bytes)
        /\ UNCHANGED refused
  /\ job' = [job EXCEPT ![r] = Idle]
  /\ UNCHANGED <<failed, ended>>

\* One turn of the compare-and-swap loop: the loaded value leaves no room;
\* or the swap succeeds and the vote is recorded; or another round was
\* faster (or the weak swap failed) and the value is read again.
Swap(r) ==
  /\ job[r] # Idle
  /\ LET j == job[r]
         next == j.current + (j.bytes - lease[r][j.fingerprint]) IN
     \/ /\ next > Limit
        /\ refused' = [refused EXCEPT ![r] = @ \cup {j.provider}]
        /\ job' = [job EXCEPT ![r] = Idle]
        /\ UNCHANGED <<used, lease, held, voters>>
     \/ /\ next <= Limit /\ used = j.current
        /\ used' = next
        /\ lease' = [lease EXCEPT ![r][j.fingerprint] = j.bytes]
        /\ Tally(r, j.provider, j.fingerprint, j.bytes)
        /\ job' = [job EXCEPT ![r] = Idle]
        /\ UNCHANGED refused
     \/ /\ next <= Limit /\ used # j.current
        /\ job' = [job EXCEPT ![r].current = used]
        /\ UNCHANGED <<used, lease, held, voters, refused>>
  /\ UNCHANGED <<failed, ended>>

\* The round returns, gives up or is cancelled between two answers, and its
\* accumulator goes out of scope.
End(r) ==
  /\ r \notin ended /\ job[r] = Idle
  /\ ended' = ended \cup {r}
  /\ UNCHANGED <<used, lease, held, voters, failed, refused, job>>

\* JsonMemoryLease::drop, one candidate at a time.
DropLease(r, f) ==
  /\ r \in ended /\ lease[r][f] > 0
  /\ used' = used - lease[r][f]
  /\ lease' = [lease EXCEPT ![r][f] = 0]
  /\ held' = [held EXCEPT ![r][f] = 0]
  /\ UNCHANGED <<voters, failed, refused, job, ended>>

PoolNext ==
  \/ \E r \in Rounds, p \in Providers, b \in Sizes :
       \/ TooLarge(r, p, b)
       \/ \E f \in Fingerprints : VoteCovered(r, p, f, b) \/ Load(r, p, f, b)
  \/ \E r \in Rounds : Swap(r) \/ End(r)
  \/ \E r \in Rounds, f \in Fingerprints : DropLease(r, f)

\* A compare-and-swap loop runs on: there is no await in it.
PoolSpec ==
  /\ PoolInit /\ [][PoolNext]_poolVars
  /\ \A r \in Rounds : WF_poolVars(Swap(r))

-----------------------------------------------------------------------------
(* Properties. *)

Jobs == [bytes : Nat, provider : Providers, fingerprint : Fingerprints, current : Nat]

PoolTypeOK ==
  /\ used \in Nat /\ ended \subseteq Rounds
  /\ lease \in [Rounds -> [Fingerprints -> Nat]] /\ held \in [Rounds -> [Fingerprints -> Nat]]
  /\ voters \in [Rounds -> [Fingerprints -> SUBSET Providers]]
  /\ failed \in [Rounds -> SUBSET Providers] /\ refused \in [Rounds -> SUBSET Providers]
  /\ job \in [Rounds -> {Idle} \cup Jobs]

\* The units of memory that leases stand for.
Leased == {k \in Rounds \X Fingerprints \X (1 .. Limit) : k[3] <= lease[k[1]][k[2]]}

\* The counter is the sum of the leases held, through every interleaving of
\* the compare-and-swap loops and the drops, and stays within the limit:
\* nothing leaks, nothing is given back twice (reserve, grow, drop).
PoolExact ==
  /\ PoolTypeOK
  /\ used = Cardinality(Leased) /\ used <= Limit

\* A value kept as a candidate is paid for by its candidate's lease, also
\* when a lower index replaces a smaller value (covered, grow), and no lease
\* is larger than one value may be.  What a round is about to reserve is still
\* more than the lease it found, however long the loop takes: the charge is
\* never negative, and the lease is not dropped under it.
ValuesCovered ==
  \A r \in Rounds :
    /\ \A f \in Fingerprints : held[r][f] <= lease[r][f] /\ lease[r][f] \in 0 .. MaxValue
    /\ job[r] # Idle => /\ r \notin ended
                        /\ job[r].bytes \in lease[r][job[r].fingerprint] + 1 .. MaxValue

\* Every reservation ends, granted or refused, although any turn of its loop may
\* find that another round has changed the counter and has to go round again: a
\* loop that misses the value it lost to would spin on its thread for ever
\* (reserve, grow).
ReservationsEnd == \A r \in Rounds : job[r] # Idle ~> job[r] = Idle
=============================================================================

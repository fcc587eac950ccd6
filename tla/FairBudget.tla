------------------------------ MODULE FairBudget ------------------------------
(***************************************************************************)
(* The admission budget of crates/pillar-core/src/execution.rs: permits    *)
(* for a fixed list of lanes, capped globally, per lane, per resource and  *)
(* per (lane, resource), with a bounded waiting room served round robin.   *)
(*                                                                         *)
(* A "call" is one acquire_for or try_acquire_for future together with the *)
(* Registration it leaves behind.  The budget's Mutex is modelled by the   *)
(* program counters: a call whose pc is in Critical holds it.  The loop of *)
(* dispatch grants one waiter per step while the Mutex is held, because a  *)
(* granted waiter reads its own state, and runs on, without the Mutex.     *)
(***************************************************************************)
EXTENDS Integers, FiniteSets, Sequences, SequencesExt

CONSTANTS Calls,              \* the acquisitions of one history
          N,                  \* number of lanes; lane indices are 0 .. N-1
          Resources,          \* the resource strings callers supply
          NoResource,         \* acquire without a resource
          ActiveLimit,        \* BudgetLimits.active
          PerLane,            \* BudgetLimits.per_lane
          WaitingLimit,       \* BudgetLimits.waiting
          PerLaneWaiting,     \* BudgetLimits.per_lane_waiting
          ResourceLimit,      \* Shared.resource_limit
          LaneResourceLimit,  \* Shared.lane_resource_limit, 0 for None
          FinishOutcomes      \* what holders of a permit report to finish

Lanes == 0 .. N - 1
LaneCapped == LaneResourceLimit # 0
\* enum Outcome, by who decides it: the holder's report to finish, the clock
\* (TimedOut or WaitExpired), the budget (Overloaded, Shutdown), or
\* dropped_outcome, whose four answers are one label.
Outcomes == FinishOutcomes \cup {"Late", "Overloaded", "Shutdown", "Dropped"}

\* What FairBudget::build and with_lane_resource_limit accept.
ASSUME LimitsAssumption ==
  /\ N \in Nat \ {0}
  /\ ActiveLimit \in Nat \ {0}
  /\ PerLane \in 1 .. ActiveLimit
  /\ N > 1 => PerLane < ActiveLimit
  /\ WaitingLimit \in Nat
  /\ PerLaneWaiting \in Nat
  /\ ResourceLimit \in Nat \ {0}
  /\ LaneResourceLimit \in Nat
  /\ LaneCapped => /\ LaneResourceLimit <= ResourceLimit
                   /\ ResourceLimit > 1 => LaneResourceLimit < ResourceLimit

ASSUME CallsAssumption ==
  /\ IsFiniteSet(Calls)
  /\ NoResource \notin Resources

VARIABLES
  active, waiting, next, closed,       \* struct State
  laneActive, laneLimit, queue,        \* struct Lane
  resourceActive, laneResourceActive,  \* the permits out per key
  wstate,      \* Waiter.state: fresh, 0 waiting, 1 granted, 2 dropped, 3 closed
  lane, resource, outcome,             \* struct Registration
  started,     \* the calls counted in Shared.started
  counted,     \* the outcomes count() recorded for each call
  skipped,     \* the calls counted in Shared.skipped
  pc           \* where each call is

stateVars == <<active, waiting, next, closed, laneActive, laneLimit, queue,
               resourceActive, laneResourceActive, wstate>>
callVars == <<lane, resource, outcome, started, counted, skipped, pc>>
vars == <<active, waiting, next, closed, laneActive, laneLimit, queue,
          resourceActive, laneResourceActive, wstate,
          lane, resource, outcome, started, counted, skipped, pc>>

Critical == {"acquiring", "queued", "trying", "releasing"}
PCs == Critical \cup {"idle", "awaiting", "holding", "leaving", "over"}
MutexFree == \A c \in Calls : pc[c] \notin Critical

Init ==
  /\ active = 0 /\ waiting = 0 /\ next = 0 /\ closed = FALSE
  /\ laneActive = [l \in Lanes |-> 0]
  /\ laneLimit = [l \in Lanes |-> PerLane]
  /\ queue = [l \in Lanes |-> <<>>]
  /\ resourceActive = [r \in Resources |-> 0]
  /\ laneResourceActive = [l \in Lanes |-> [r \in Resources |-> 0]]
  /\ wstate = [c \in Calls |-> "fresh"]
  /\ lane = [c \in Calls |-> 0]
  /\ resource = [c \in Calls |-> NoResource]
  /\ outcome = [c \in Calls |-> "none"]
  /\ started = {} /\ skipped = {}
  /\ counted = [c \in Calls |-> <<>>]
  /\ pc = [c \in Calls |-> "idle"]

-----------------------------------------------------------------------------
(* The helpers of impl FairBudget. *)

\* Fault: the caps per resource are not looked at.
CanGrantAnyResource(l, r) == active < ActiveLimit /\ laneActive[l] < laneLimit[l]

CanGrant(l, r) ==
  /\ active < ActiveLimit
  /\ laneActive[l] < laneLimit[l]
  /\ r # NoResource =>
       /\ resourceActive[r] < ResourceLimit
       /\ LaneCapped => laneResourceActive[l][r] < LaneResourceLimit

Grant(c) ==
  /\ active' = active + 1
  /\ laneActive' = [laneActive EXCEPT ![lane[c]] = @ + 1]
  /\ resourceActive' = [r \in Resources |->
       IF r = resource[c] THEN resourceActive[r] + 1 ELSE resourceActive[r]]
  /\ laneResourceActive' = [l \in Lanes |-> [r \in Resources |->
       IF LaneCapped /\ l = lane[c] /\ r = resource[c]
       THEN laneResourceActive[l][r] + 1 ELSE laneResourceActive[l][r]]]
  /\ wstate' = [wstate EXCEPT ![c] = "granted"]

\* Fault: the permit goes back without its resource.
UngrantKeepsResource(c) ==
  /\ active' = active - 1
  /\ laneActive' = [laneActive EXCEPT ![lane[c]] = @ - 1]
  /\ UNCHANGED <<resourceActive, laneResourceActive>>

\* The permit of c goes back: the arm "1" of Registration::drop.
Ungrant(c) ==
  /\ active' = active - 1
  /\ laneActive' = [laneActive EXCEPT ![lane[c]] = @ - 1]
  /\ resourceActive' = [r \in Resources |->
       IF r = resource[c] THEN resourceActive[r] - 1 ELSE resourceActive[r]]
  /\ laneResourceActive' = [l \in Lanes |-> [r \in Resources |->
       IF LaneCapped /\ l = lane[c] /\ r = resource[c]
       THEN laneResourceActive[l][r] - 1 ELSE laneResourceActive[l][r]]]

Count(c, o) == counted' = [counted EXCEPT ![c] = Append(@, o)]

\* Waiter i of lane l can take a permit now.
Ready(l, i) == CanGrant(l, resource[queue[l][i]])
\* The distance of lane l from the lane the round robin looks at first.
Offset(l) == IF l >= next THEN l - next ELSE l - next + N

\* Fault: the scan takes any ready waiter of the lane.
SelectedAnywhere(l, i) ==
  /\ Ready(l, i)
  /\ \A m \in Lanes : Offset(m) < Offset(l) =>
       \A j \in DOMAIN queue[m] : ~ Ready(m, j)

\* The scan of dispatch picks waiter i of lane l: the first ready waiter of
\* the first lane, from next on, that has one.
Selected(l, i) ==
  /\ Ready(l, i)
  /\ \A j \in 1 .. i - 1 : ~ Ready(l, j)
  /\ \A m \in Lanes : Offset(m) < Offset(l) =>
       \A j \in DOMAIN queue[m] : ~ Ready(m, j)

\* Fault: whoever holds the Mutex may release it without dispatching.
DispatchForgotten == TRUE

\* The loop of dispatch has nothing left to grant (or returned at once).
DispatchDone ==
  closed \/ \A l \in Lanes : \A i \in DOMAIN queue[l] : ~ Ready(l, i)

\* Fault: the shared allowance is off by one.
RefusesLate(l) ==
  \/ Len(queue[l]) >= PerLaneWaiting
  \/ waiting > WaitingLimit /\ (WaitingLimit = 0 \/ queue[l] # <<>>)

\* The shared allowance refuses, or the lane's own queue is full.
Refuses(l) ==
  \/ Len(queue[l]) >= PerLaneWaiting
  \/ /\ waiting >= WaitingLimit
     /\ WaitingLimit = 0 \/ queue[l] # <<>>

-----------------------------------------------------------------------------
(* The steps taken under the Mutex. *)

\* One turn of the loop in dispatch, run by the call that holds the Mutex.
Dispatch(c) ==
  /\ pc[c] \in Critical
  /\ ~ closed
  /\ \E l \in Lanes : \E i \in DOMAIN queue[l] :
       /\ Selected(l, i)
       /\ queue' = [queue EXCEPT ![l] = RemoveAt(@, i)]
       /\ waiting' = waiting - 1
       /\ Grant(queue[l][i])
       /\ next' = IF l = N - 1 THEN 0 ELSE l + 1
  /\ UNCHANGED <<closed, laneLimit, callVars>>

\* acquire_for names a lane that is not configured.
UnknownLane(c) ==
  /\ pc[c] = "idle"
  /\ pc' = [pc EXCEPT ![c] = "over"]
  /\ UNCHANGED <<stateVars, lane, resource, outcome, started, counted,
                 skipped>>

\* acquire_for takes the Mutex, counts the start and looks at the two early
\* returns (the clock may have passed the deadline by now); otherwise it goes
\* on to dispatch.
AcquireEnter(c, l, r) ==
  /\ pc[c] = "idle" /\ MutexFree
  /\ lane' = [lane EXCEPT ![c] = l]
  /\ resource' = [resource EXCEPT ![c] = r]
  /\ started' = started \cup {c}
  /\ \/ /\ closed
        /\ Count(c, "Shutdown")
        /\ pc' = [pc EXCEPT ![c] = "over"]
     \/ /\ ~ closed
        /\ Count(c, "Late")
        /\ pc' = [pc EXCEPT ![c] = "over"]
     \/ /\ ~ closed
        /\ pc' = [pc EXCEPT ![c] = "acquiring"]
        /\ UNCHANGED counted
  /\ UNCHANGED <<stateVars, outcome, skipped>>

\* After the first dispatch: a permit at once, a refusal, or a place in the
\* lane's queue (and the second dispatch).
AcquireDecide(c) ==
  /\ pc[c] = "acquiring" /\ DispatchDone
  /\ \/ /\ CanGrant(lane[c], resource[c])
        /\ Grant(c)
        /\ pc' = [pc EXCEPT ![c] = "awaiting"]
        /\ UNCHANGED <<queue, waiting, counted>>
     \/ /\ ~ CanGrant(lane[c], resource[c]) /\ Refuses(lane[c])
        /\ Count(c, "Overloaded")
        /\ pc' = [pc EXCEPT ![c] = "over"]
        /\ UNCHANGED <<queue, waiting, active, laneActive, resourceActive,
                       laneResourceActive, wstate>>
     \/ /\ ~ CanGrant(lane[c], resource[c]) /\ ~ Refuses(lane[c])
        /\ queue' = [queue EXCEPT ![lane[c]] = Append(@, c)]
        /\ waiting' = waiting + 1
        /\ wstate' = [wstate EXCEPT ![c] = "waiting"]
        /\ pc' = [pc EXCEPT ![c] = "queued"]
        /\ UNCHANGED <<active, laneActive, resourceActive,
                       laneResourceActive, counted>>
  /\ UNCHANGED <<next, closed, laneLimit, lane, resource, outcome, started,
                 skipped>>

\* The second dispatch is over and the Mutex is released.
AcquireEnqueued(c) ==
  /\ pc[c] = "queued" /\ DispatchDone
  /\ pc' = [pc EXCEPT ![c] = "awaiting"]
  /\ UNCHANGED <<stateVars, lane, resource, outcome, started, counted,
                 skipped>>

\* try_acquire_for: dispatch, then a permit or nothing, without waiting.  It
\* is skipped when closed, when no permit is free and past the deadline.
TryEnter(c, l, r) ==
  /\ pc[c] = "idle" /\ MutexFree
  /\ lane' = [lane EXCEPT ![c] = l]
  /\ resource' = [resource EXCEPT ![c] = r]
  /\ pc' = [pc EXCEPT ![c] = "trying"]
  /\ UNCHANGED <<stateVars, outcome, started, counted, skipped>>

TryDecide(c) ==
  /\ pc[c] = "trying" /\ DispatchDone
  /\ \/ /\ skipped' = skipped \cup {c}
        /\ pc' = [pc EXCEPT ![c] = "over"]
        /\ UNCHANGED <<active, laneActive, resourceActive,
                       laneResourceActive, wstate, started>>
     \/ /\ ~ closed /\ CanGrant(lane[c], resource[c])
        /\ started' = started \cup {c}
        /\ Grant(c)
        /\ pc' = [pc EXCEPT ![c] = "holding"]
        /\ UNCHANGED skipped
  /\ UNCHANGED <<waiting, next, closed, laneLimit, queue, lane, resource,
                 outcome, counted>>

\* close: the flag, every queued waiter told and counted, waiting = 0.
Close ==
  /\ MutexFree /\ ~ closed
  /\ closed' = TRUE
  /\ LET gone == UNION {Range(queue[l]) : l \in Lanes} IN
       /\ wstate' = [c \in Calls |->
            IF c \in gone THEN "closed" ELSE wstate[c]]
       /\ counted' = [c \in Calls |->
            IF c \in gone THEN Append(counted[c], "Shutdown") ELSE counted[c]]
  /\ queue' = [l \in Lanes |-> <<>>]
  /\ waiting' = 0
  /\ UNCHANGED <<active, next, laneActive, laneLimit, resourceActive,
                 laneResourceActive, lane, resource, outcome, started,
                 skipped, pc>>

\* cap_lane: accepted only before any call has started.
CapLane(l, limit) ==
  /\ MutexFree
  /\ limit \in 1 .. PerLane
  /\ started = {}
  /\ laneLimit' = [laneLimit EXCEPT ![l] = limit]
  /\ UNCHANGED <<active, waiting, next, closed, laneActive, queue,
                 resourceActive, laneResourceActive, wstate, callVars>>

-----------------------------------------------------------------------------
(* The steps taken without the Mutex: the loop of acquire_for, and the use *)
(* of the permit.  The deadline of a call is min(request deadline, start + *)
(* limits.wait); whether the clock has passed it is read on every turn of  *)
(* the loop, and either answer is possible.                                *)

\* The granted waiter is seen before the deadline.
ObserveGrant(c) ==
  /\ pc[c] = "awaiting" /\ wstate[c] = "granted"
  /\ pc' = [pc EXCEPT ![c] = "holding"]
  /\ UNCHANGED <<stateVars, lane, resource, outcome, started, counted, skipped>>

\* Fault: the expiry is counted by the loop and again by the drop.
ObserveDeadlineCounts(c) ==
  /\ pc[c] = "awaiting"
  /\ Count(c, "Late")
  /\ outcome' = [outcome EXCEPT ![c] = "Late"]
  /\ pc' = [pc EXCEPT ![c] = "leaving"]
  /\ UNCHANGED <<stateVars, lane, resource, started, skipped>>

\* The deadline passed, granted, closed or neither: the error drops the
\* registration.
ObserveDeadline(c) ==
  /\ pc[c] = "awaiting"
  /\ outcome' = [outcome EXCEPT ![c] = "Late"]
  /\ pc' = [pc EXCEPT ![c] = "leaving"]
  /\ UNCHANGED <<stateVars, lane, resource, started, counted, skipped>>

\* The waiter sees that close has counted and closed it.
ObserveClosed(c) ==
  /\ pc[c] = "awaiting" /\ wstate[c] = "closed"
  /\ outcome' = [outcome EXCEPT ![c] = "Shutdown"]
  /\ pc' = [pc EXCEPT ![c] = "leaving"]
  /\ UNCHANGED <<stateVars, lane, resource, started, counted, skipped>>

\* BudgetPermit::finish, and then the permit goes out of scope.
Finish(c, o) ==
  /\ pc[c] = "holding"
  /\ outcome' = [outcome EXCEPT ![c] = o]
  /\ pc' = [pc EXCEPT ![c] = "leaving"]
  /\ UNCHANGED <<stateVars, lane, resource, started, counted, skipped>>

\* The future is dropped while waiting, or the permit without finish.
Cancel(c) ==
  /\ pc[c] \in {"awaiting", "holding"}
  /\ pc' = [pc EXCEPT ![c] = "leaving"]
  /\ UNCHANGED <<stateVars, lane, resource, outcome, started, counted,
                 skipped>>

\* Registration::drop, up to its trailing dispatch.
Drop(c) ==
  /\ pc[c] = "leaving" /\ MutexFree
  /\ wstate' = [wstate EXCEPT ![c] = "dropped"]
  /\ \/ /\ wstate[c] = "waiting"
        /\ \E i \in DOMAIN queue[lane[c]] :
             /\ queue[lane[c]][i] = c
             /\ queue' = [queue EXCEPT ![lane[c]] = RemoveAt(@, i)]
        /\ waiting' = waiting - 1
        /\ UNCHANGED <<active, laneActive, resourceActive, laneResourceActive>>
     \/ /\ wstate[c] = "granted"
        /\ Ungrant(c)
        /\ UNCHANGED <<queue, waiting>>
     \/ /\ wstate[c] \notin {"waiting", "granted"}
        /\ UNCHANGED <<queue, waiting, active, laneActive, resourceActive,
                       laneResourceActive>>
  /\ \/ /\ wstate[c] = "closed"
        /\ UNCHANGED counted
     \/ /\ wstate[c] # "closed"
        /\ Count(c, IF outcome[c] = "none" THEN "Dropped" ELSE outcome[c])
  /\ outcome' = [outcome EXCEPT ![c] = "none"]
  /\ pc' = [pc EXCEPT ![c] = "releasing"]
  /\ UNCHANGED <<next, closed, laneLimit, lane, resource, started, skipped>>

Dropped(c) ==
  /\ pc[c] = "releasing" /\ DispatchDone
  /\ pc' = [pc EXCEPT ![c] = "over"]
  /\ UNCHANGED <<stateVars, lane, resource, outcome, started, counted,
                 skipped>>

-----------------------------------------------------------------------------
CallStep(c) ==
  \/ Dispatch(c) \/ AcquireDecide(c) \/ AcquireEnqueued(c) \/ TryDecide(c)
  \/ ObserveGrant(c) \/ ObserveClosed(c) \/ Drop(c) \/ Dropped(c)

Next ==
  \/ \E c \in Calls : CallStep(c) \/ ObserveDeadline(c) \/ Cancel(c)
                      \/ UnknownLane(c)
  \/ \E c \in Calls, o \in FinishOutcomes : Finish(c, o)
  \/ \E c \in Calls, l \in Lanes, r \in Resources \cup {NoResource} :
       AcquireEnter(c, l, r) \/ TryEnter(c, l, r)
  \/ \E l \in Lanes, k \in 1 .. PerLane : CapLane(l, k)
  \/ Close

Spec == Init /\ [][Next]_vars

\* The executor polls every ready call, and a caller that holds a permit
\* finishes; no deadline has to pass.
WorkingSpec ==
  /\ Spec
  /\ \A c \in Calls : /\ WF_vars(CallStep(c))
                      /\ WF_vars(\E o \in FinishOutcomes : Finish(c, o))

-----------------------------------------------------------------------------
(* Properties. *)

Granted == {c \in Calls : wstate[c] = "granted"}
Waiting == {c \in Calls : wstate[c] = "waiting"}
OfLane(l) == {c \in Calls : lane[c] = l}
OfResource(r) == {c \in Calls : resource[c] = r}

\* Every variable of the budget and of its calls has its type.
TypeOK ==
  /\ active \in Int /\ waiting \in Int /\ next \in Lanes /\ closed \in BOOLEAN
  /\ laneActive \in [Lanes -> Int]
  /\ laneLimit \in [Lanes -> 1 .. PerLane]
  /\ queue \in [Lanes -> Seq(Calls)]
  /\ resourceActive \in [Resources -> Int]
  /\ laneResourceActive \in [Lanes -> [Resources -> Int]]
  /\ wstate \in [Calls -> {"fresh", "waiting", "granted", "dropped", "closed"}]
  /\ lane \in [Calls -> Lanes]
  /\ resource \in [Calls -> Resources \cup {NoResource}]
  /\ outcome \in [Calls -> Outcomes \cup {"none"}]
  /\ started \in SUBSET Calls /\ skipped \in SUBSET Calls
  /\ counted \in [Calls -> Seq(Outcomes)]
  /\ pc \in [Calls -> PCs]

\* The permits really out never exceed any of the four caps: the total, the
\* lane's, the resource's and the (lane, resource) pair's (can_grant, grant
\* and Registration::drop keep their counters right on every path).
CapsHold ==
  /\ Cardinality(Granted) <= ActiveLimit
  /\ \A l \in Lanes : Cardinality(Granted \cap OfLane(l)) <= laneLimit[l]
  /\ \A r \in Resources :
       /\ Cardinality(Granted \cap OfResource(r)) <= ResourceLimit
       /\ LaneCapped => \A l \in Lanes :
            Cardinality(Granted \cap OfLane(l) \cap OfResource(r))
              <= LaneResourceLimit

\* No waiter is left in a queue that a permit could serve once the Mutex is
\* released: every release, refusal and expiry re-runs dispatch.
NoIdlePermit ==
  MutexFree /\ ~ closed =>
    \A l \in Lanes : \A i \in DOMAIN queue[l] : ~ Ready(l, i)

\* The outcomes counted for the calls of lane l.
Terminal(l) == UNION {{c} \X DOMAIN counted[c] : c \in OfLane(l)}

\* SECURITY.md "Admission accounting": in a coherent snapshot, started equals
\* all terminal outcomes plus active plus waiting, lane by lane.
SnapshotBalances ==
  MutexFree =>
    \A l \in Lanes :
      Cardinality(started \cap OfLane(l))
        = Cardinality(Terminal(l)) + laneActive[l] + Len(queue[l])

Occupied == {l \in Lanes : queue[l] # <<>>}

\* SECURITY.md: with shared allowance Q and N lanes at most Q + N wait, and
\* Q = 0 disables waiting.  The code keeps one below the documented bound, as
\* only a lane where nobody waits may exceed the allowance, by one.
WaitingBounded ==
  /\ waiting <= IF WaitingLimit = 0 THEN 0 ELSE WaitingLimit + N - 1
  /\ waiting > 0 => waiting < WaitingLimit + Cardinality(Occupied)

\* Both of what SECURITY.md says of a snapshot (started, terminal, active and
\* waiting counts of FairBudget::snapshot).
SnapshotSound == SnapshotBalances /\ WaitingBounded

\* Whatever races (a close, a deadline, a late grant, a cancellation), each
\* call is counted at most once, and exactly once when it is over.
CountedOnce ==
  \A c \in Calls :
    /\ Len(counted[c]) <= 1
    /\ pc[c] = "over" /\ c \in started => Len(counted[c]) = 1
    /\ c \notin started => counted[c] = <<>>

\* Within a lane, callers of the same resource are served in arrival order:
\* nobody takes a permit while an earlier one of the same kind still queues.
\* (Only direct grants and dispatch hand out permits; see Selected.)
NoOvertaking ==
  [][\A c \in Calls :
       wstate[c] # "granted" /\ wstate'[c] = "granted" =>
         \A i \in DOMAIN queue[lane[c]] :
           LET w == queue[lane[c]][i] IN
           w # c /\ resource[w] = resource[c] =>
             \E j \in 1 .. i - 1 : queue[lane[c]][j] = c]_vars

(* The parts of the inductive invariant behind CapsHold and the rest. *)

\* Where a call is determines what its waiter may be.
PhasesOK ==
  \A c \in Calls :
    /\ pc[c] \in {"idle", "acquiring", "trying"} => wstate[c] = "fresh"
    /\ pc[c] = "queued" => wstate[c] \in {"waiting", "granted"}
    /\ pc[c] \in {"awaiting", "leaving"} =>
         wstate[c] \in {"waiting", "granted", "closed"}
    /\ pc[c] = "holding" => wstate[c] = "granted"
    /\ pc[c] = "releasing" => wstate[c] = "dropped"
    /\ pc[c] = "over" => wstate[c] \in {"fresh", "dropped"}
    /\ pc[c] \in {"idle", "trying"} => c \notin started
    /\ pc[c] = "acquiring" => c \in started /\ ~ closed
    /\ wstate[c] # "fresh" => c \in started

\* At most one call is between lock and unlock.
MutexOK ==
  \A c, d \in Calls : pc[c] \in Critical /\ pc[d] \in Critical => c = d

\* The queues hold exactly the waiting calls, each once, in its own lane.
QueuesOK ==
  /\ \A l \in Lanes : \A i \in DOMAIN queue[l] :
       /\ wstate[queue[l][i]] = "waiting"
       /\ lane[queue[l][i]] = l
       /\ \A j \in DOMAIN queue[l] : queue[l][i] = queue[l][j] => i = j
  /\ \A c \in Waiting : \E i \in DOMAIN queue[lane[c]] : queue[lane[c]][i] = c
  /\ closed => \A l \in Lanes : queue[l] = <<>>
  /\ waiting = Cardinality(Waiting)

\* The counters can_grant reads are the numbers of permits out.
CountersOK ==
  /\ active = Cardinality(Granted)
  /\ \A l \in Lanes : laneActive[l] = Cardinality(Granted \cap OfLane(l))
  /\ \A r \in Resources :
       /\ resourceActive[r] = Cardinality(Granted \cap OfResource(r))
       /\ LaneCapped => \A l \in Lanes : laneResourceActive[l][r]
            = Cardinality(Granted \cap OfLane(l) \cap OfResource(r))

CountsCapped ==
  /\ active <= ActiveLimit
  /\ \A l \in Lanes : laneActive[l] <= laneLimit[l]
  /\ \A r \in Resources :
       /\ resourceActive[r] <= ResourceLimit
       /\ LaneCapped => \A l \in Lanes :
            laneResourceActive[l][r] <= LaneResourceLimit

\* A call has been counted once it is settled, and not before.
TalliesOK ==
  \A c \in Calls :
    Len(counted[c]) =
      IF c \in started /\ (pc[c] \in {"over", "releasing"} \/ wstate[c] = "closed")
      THEN 1 ELSE 0

\* The invariant every step of the budget preserves: the waiters, queues,
\* counters and tallies agree about every call.
BudgetInv ==
  /\ TypeOK /\ PhasesOK /\ MutexOK /\ QueuesOK /\ CountersOK /\ CountsCapped
  /\ TalliesOK /\ NoIdlePermit

\* The budget implements the abstract admission contract: a permit is out
\* from the step that grants it to the drop of its registration.
Contract == INSTANCE Admission WITH held <- Granted, open <- ~ closed
ImplementsAdmission == Contract!AdmissionSpec

\* No wake-up is lost: as long as permits are given back, every queued call
\* leaves the queue, without any deadline having to fire (WorkingSpec).
QueueDrains ==
  \A c \in Calls : wstate[c] = "waiting" ~> wstate[c] # "waiting"

=============================================================================

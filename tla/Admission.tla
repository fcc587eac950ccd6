------------------------------- MODULE Admission -------------------------------
(***************************************************************************)
(* What an admission budget promises its callers, without queues, counters *)
(* or locks: callers ask for a permit of a lane and perhaps a resource; a  *)
(* permit is handed out only while every cap has room for it, stays out    *)
(* until it is returned, and none is handed out after the budget has shut. *)
(***************************************************************************)
EXTENDS Integers, FiniteSets

CONSTANTS Calls, Lanes, Resources, NoResource,
          ActiveLimit, PerLane, ResourceLimit, LaneResourceLimit

VARIABLES held,            \* the calls that have a permit
          lane, resource,  \* what each call asked for
          open

HeldIn(S) == Cardinality(held \cap S)
InLane(l) == {c \in Calls : lane[c] = l}
OnResource(r) == {c \in Calls : resource[c] = r}

AdmissionInit ==
  /\ held = {}
  /\ lane \in [Calls -> Lanes]
  /\ resource \in [Calls -> Resources \cup {NoResource}]
  /\ open = TRUE

Ask(c, l, r) ==
  /\ c \notin held
  /\ lane' = [lane EXCEPT ![c] = l]
  /\ resource' = [resource EXCEPT ![c] = r]
  /\ UNCHANGED <<held, open>>

Admit(c) ==
  /\ open
  /\ c \notin held
  /\ HeldIn(Calls) < ActiveLimit
  /\ HeldIn(InLane(lane[c])) < PerLane
  /\ resource[c] # NoResource =>
       /\ HeldIn(OnResource(resource[c])) < ResourceLimit
       /\ LaneResourceLimit # 0 =>
            HeldIn(InLane(lane[c]) \cap OnResource(resource[c]))
              < LaneResourceLimit
  /\ held' = held \cup {c}
  /\ UNCHANGED <<lane, resource, open>>

Return(c) ==
  /\ c \in held
  /\ held' = held \ {c}
  /\ UNCHANGED <<lane, resource, open>>

Shut ==
  /\ open
  /\ open' = FALSE
  /\ UNCHANGED <<held, lane, resource>>

AdmissionNext ==
  \/ \E c \in Calls : Admit(c) \/ Return(c)
  \/ \E c \in Calls, l \in Lanes, r \in Resources \cup {NoResource} : Ask(c, l, r)
  \/ Shut

AdmissionSpec ==
  AdmissionInit /\ [][AdmissionNext]_<<held, lane, resource, open>>
=============================================================================

------------------------------ MODULE RpcTransport ------------------------------
(***************************************************************************)
(* One provider call through the transport of crates/pillar-runtime/src/   *)
(* provider_health/transport.rs: limited_rpc, which bounds the call, and    *)
(* inside it acquire_json_parse_slot, which every response passes before    *)
(* its body is read: the parser budget, then one of the shared slots, each  *)
(* with a wait of its own.                                                 *)
(*                                                                         *)
(* Time passes in ticks; a timer is what is left of it, and a task may look *)
(* at an elapsed timer late.  Where several have elapsed the inner one is   *)
(* polled first.  Admission to the RPC budget comes before the call's time  *)
(* starts; it and the order of grants are FairBudget.tla's.                *)
(***************************************************************************)
EXTENDS Integers, FiniteSets

CONSTANTS Calls,
          Mixes,            \* the kinds of call that may meet
          RpcLimit,         \* of each kind: 2 s for a probe, 55.2 s otherwise
          ParserWait,       \* BudgetLimits.wait of the parser budget, 2 s
          SlotWait,         \* the wait for a shared slot after it, 2 s
          ParserActive,     \* the parser budget's permits
          LaneActive,       \* and those of a lane; a probe's lane has one
          LaneWaiting,      \* per_lane_waiting
          Waiting,          \* waiting
          Slots,            \* MAX_CONCURRENT_JSON_PARSERS
          MaxWaiting        \* MAX_WAITING_JSON_PARSERS

\* Probes run in the background lane, a request's own reads in their chain's
\* lane, READ targets in a scope of their own, and bare calls without resources.
Kinds == {"probe", "own", "read", "bare"}
Unlimited == -1

ASSUME TransportAssumption ==
  /\ IsFiniteSet(Calls) /\ Mixes \subseteq [Calls -> Kinds]
  /\ RpcLimit \in [Kinds -> Nat \ {0}]
  /\ ParserWait \in Nat \ {0} /\ SlotWait \in Nat \ {0}
  /\ ParserActive \in Nat \ {0} /\ LaneActive \in [Kinds -> Nat \ {0}]
  /\ LaneWaiting \in Nat /\ Waiting \in Nat
  /\ Slots \in Nat \ {0} /\ MaxWaiting \in Nat

VARIABLES
  kind,      \* of each call
  place,     \* where it is
  left,      \* what is left of limited_rpc's deadline
  bound,     \* that deadline is the request's, which the inner waits see too
  wait,      \* what is left of the inner wait
  prompt,    \* the response reached the parser with time for both waits
  result,    \* how it ended
  free,      \* JSON_PARSE_SLOTS
  readFree,  \* READ_JSON_PARSE_SLOTS
  waiters,   \* JSON_PARSE_WAITERS
  closed     \* the budgets are closed: the server drains

pools == <<free, readFree, waiters>>
vars == <<kind, place, left, bound, wait, prompt, result, pools, closed>>

Init ==
  /\ kind \in Mixes
  /\ place = [c \in Calls |-> "new"] /\ left = [c \in Calls |-> 0]
  /\ bound = [c \in Calls |-> FALSE] /\ wait = [c \in Calls |-> Unlimited]
  /\ prompt = [c \in Calls |-> FALSE] /\ result = [c \in Calls |-> "none"]
  /\ free = Slots /\ readFree = Slots /\ waiters = 0 /\ closed = FALSE

\* The callers with execution resources go through the parser budget.
Budgeted == {"probe", "own"}
Ended == {"new", "done"}
LocalWait == {"parser", "granted", "slot"}

-----------------------------------------------------------------------------
(* The parser budget. *)

Holders == {c \in Calls : /\ kind[c] \in Budgeted
                          /\ place[c] \in {"granted", "slot", "body"}}
Queued == {c \in Calls : place[c] = "parser"}
OfLane(S, c) == {d \in S : kind[d] = kind[c]}

CanGrant(c) ==
  /\ ~ closed /\ Cardinality(Holders) < ParserActive
  /\ Cardinality(OfLane(Holders, c)) < LaneActive[kind[c]]

QueueFull(c) ==
  \/ Cardinality(OfLane(Queued, c)) >= LaneWaiting
  \/ Cardinality(Queued) >= Waiting /\ (Waiting = 0 \/ OfLane(Queued, c) # {})

\* dispatch has granted whatever can be: nobody waits beside a free permit.
Dispatched == \A c \in Queued : ~ CanGrant(c)

\* An inner wait never outlasts the request's deadline, which it looks up; the
\* maximum of limited_rpc it does not know.
Within(c, limit) == IF bound[c] /\ left[c] < limit THEN left[c] ELSE limit

-----------------------------------------------------------------------------
(* The life of a call. *)

At(c, p) == place' = [place EXCEPT ![c] = p]
Wait(c, limit) == wait' = [wait EXCEPT ![c] = limit]

\* limited_rpc, with its permit: the request's deadline or the maximum.
Start(c) ==
  /\ place[c] = "new" /\ At(c, "send")
  /\ \/ /\ left' = [left EXCEPT ![c] = RpcLimit[kind[c]]]
        /\ UNCHANGED bound
     \/ /\ kind[c] # "bare"
        /\ \E l \in 1 .. RpcLimit[kind[c]] - 1 : left' = [left EXCEPT ![c] = l]
        /\ bound' = [bound EXCEPT ![c] = TRUE]
  /\ UNCHANGED <<kind, wait, prompt, result, pools, closed>>

\* The permits and registrations a call holds are dropped with it.
Released(c) ==
  /\ free' = IF place[c] = "body" /\ kind[c] # "read" THEN free + 1 ELSE free
  /\ readFree' = IF place[c] = "body" /\ kind[c] = "read" THEN readFree + 1 ELSE readFree
  /\ waiters' = IF place[c] = "slot" /\ kind[c] = "bare" THEN waiters - 1 ELSE waiters

End(c, r) ==
  /\ At(c, "done") /\ result' = [result EXCEPT ![c] = r] /\ Released(c)
  /\ left' = [left EXCEPT ![c] = 0] /\ bound' = [bound EXCEPT ![c] = FALSE]
  /\ Wait(c, Unlimited) /\ prompt' = [prompt EXCEPT ![c] = FALSE]
  /\ UNCHANGED <<kind, closed>>

\* Fault: the slot is waited for as long as a call without resources would.
SlotTimeLong(c) == RpcLimit[kind[c]]

\* How long acquire_json_parse_slot waits for a slot.
SlotTime(c) ==
  IF kind[c] \in Budgeted THEN Within(c, SlotWait)
  ELSE IF kind[c] = "bare" THEN RpcLimit["bare"] ELSE Unlimited

\* The semaphore a call takes its slot from, and who queues for it; a slot that
\* comes free goes to one of those, so a newcomer needs one beyond theirs.
Pool(c) == IF kind[c] = "read" THEN readFree ELSE free
SlotQueue(c) ==
  Cardinality({d \in Calls : place[d] = "slot" /\ (kind[d] = "read" <=> kind[c] = "read")})
Spare(c) == Pool(c) > SlotQueue(c)
Unserved(c) == Pool(c) < SlotQueue(c)

Take(c) ==
  /\ At(c, "body") /\ Wait(c, Unlimited)
  /\ IF kind[c] = "read" THEN readFree' = readFree - 1 /\ UNCHANGED free
     ELSE free' = free - 1 /\ UNCHANGED readFree

\* The response has reached the parser with time for both waits.
Early(c) == prompt[c] \/ (place[c] = "send" /\ left[c] >= ParserWait + SlotWait)

\* A shared slot, or for a READ target one of its own: taken if there is one,
\* else waited for; a bare call registers first, or is refused.
EnterSlot(c) ==
  \/ /\ Spare(c) /\ Take(c)
     /\ prompt' = [prompt EXCEPT ![c] = FALSE]
     /\ UNCHANGED <<kind, left, bound, result, waiters, closed>>
  \/ /\ ~ Spare(c) /\ (kind[c] = "bare" => waiters < MaxWaiting)
     /\ At(c, "slot") /\ Wait(c, SlotTime(c))
     /\ waiters' = IF kind[c] = "bare" THEN waiters + 1 ELSE waiters
     /\ prompt' = [prompt EXCEPT ![c] = Early(c)]
     /\ UNCHANGED <<kind, left, bound, result, free, readFree, closed>>
  \/ ~ Spare(c) /\ kind[c] = "bare" /\ waiters >= MaxWaiting /\ End(c, "overloaded")

\* The provider has answered: acquire_json_parse_slot.
Answered(c) ==
  /\ place[c] = "send" /\ left[c] > 0 /\ Dispatched
  /\ \/ kind[c] \notin Budgeted /\ EnterSlot(c)
     \/ kind[c] \in Budgeted /\ CanGrant(c) /\ EnterSlot(c)
     \/ kind[c] \in Budgeted /\ closed /\ End(c, "closed")
     \/ /\ kind[c] \in Budgeted /\ ~ closed /\ ~ CanGrant(c) /\ ~ QueueFull(c)
        /\ At(c, "parser") /\ Wait(c, Within(c, ParserWait))
        /\ prompt' = [prompt EXCEPT ![c] = Early(c)]
        /\ UNCHANGED <<kind, left, bound, result, pools, closed>>
     \/ /\ kind[c] \in Budgeted /\ ~ closed /\ ~ CanGrant(c) /\ QueueFull(c)
        /\ End(c, "overloaded")

\* dispatch grants a queued waiter.
Grant(c) ==
  /\ place[c] = "parser" /\ CanGrant(c)
  /\ At(c, "granted")
  /\ UNCHANGED <<kind, left, bound, wait, prompt, result, pools, closed>>

\* The waiter sees its grant in time.
Granted(c) ==
  /\ place[c] = "granted" /\ wait[c] > 0
  /\ EnterSlot(c)

\* Fault: a bare call that gets its slot stays registered as a waiter.
SlotTakenRegistered(c) ==
  /\ place[c] = "slot" /\ Pool(c) > 0 /\ Take(c)
  /\ prompt' = [prompt EXCEPT ![c] = FALSE]
  /\ UNCHANGED <<kind, left, bound, result, waiters, closed>>

\* A slot has come free; JsonParseWaiter is dropped.
SlotTaken(c) ==
  /\ place[c] = "slot" /\ Pool(c) > 0 /\ Take(c)
  /\ prompt' = [prompt EXCEPT ![c] = FALSE]
  /\ waiters' = IF kind[c] = "bare" THEN waiters - 1 ELSE waiters
  /\ UNCHANGED <<kind, left, bound, result, closed>>

\* The inner wait is over: WaitExpired, Deadline and a late slot are overload,
\* and a closed budget is a drain.
WaitOver(c) ==
  /\ place[c] \in LocalWait /\ (place[c] = "slot" => Unserved(c))
  /\ \/ wait[c] = 0 /\ End(c, "overloaded")
     \/ place[c] = "parser" /\ wait[c] # 0 /\ closed /\ End(c, "closed")

\* The body is read and parsed, or is a provider's error.
Finish(c) ==
  /\ place[c] = "body"
  /\ End(c, "ok") \/ End(c, "remote")

\* limited_rpc's own timer: a failed answer of the provider, wherever the call
\* is, unless the future inside is ready.  "blamed" tells the RpcError::Remote of
\* a call that was waiting for this process.
RpcTimedOut(c) ==
  /\ left[c] = 0
  /\ \/ place[c] \in {"send", "body"} /\ End(c, "remote")
     \/ place[c] = "parser" /\ wait[c] # 0 /\ ~ closed /\ End(c, "blamed")
     \/ place[c] = "slot" /\ wait[c] # 0 /\ Unserved(c) /\ End(c, "blamed")

\* The caller is dropped, or the connection breaks.
Dropped(c) ==
  /\ place[c] \notin Ended
  /\ End(c, "gone") \/ (place[c] = "send" /\ End(c, "remote"))

\* close() at the end of the grace.
Close ==
  /\ ~ closed /\ closed' = TRUE
  /\ UNCHANGED <<kind, place, left, bound, wait, prompt, result, pools>>

Less(n) == IF n > 0 THEN n - 1 ELSE n

Tick ==
  /\ Dispatched /\ \E c \in Calls : left[c] > 0
  /\ left' = [c \in Calls |-> Less(left[c])]
  /\ wait' = [c \in Calls |-> Less(wait[c])]
  /\ UNCHANGED <<kind, place, bound, prompt, result, pools, closed>>

Next ==
  \/ Tick \/ Close
  \/ \E c \in Calls :
       \/ Start(c) \/ Answered(c) \/ Grant(c) \/ Granted(c) \/ SlotTaken(c)
       \/ WaitOver(c) \/ Finish(c) \/ RpcTimedOut(c) \/ Dropped(c)

Spec == Init /\ [][Next]_vars

-----------------------------------------------------------------------------
(* Properties. *)

\* Every variable has its type.
TypeOK ==
  /\ kind \in Mixes /\ closed \in BOOLEAN /\ bound \in [Calls -> BOOLEAN]
  /\ place \in [Calls -> {"new", "send", "body", "done"} \cup LocalWait]
  /\ left \in [Calls -> Nat] /\ prompt \in [Calls -> BOOLEAN]
  /\ result \in [Calls -> {"none", "ok", "remote", "blamed", "overloaded", "closed", "gone"}]
  /\ wait \in [Calls -> Nat \cup {Unlimited}]
  /\ free \in 0 .. Slots /\ readFree \in 0 .. Slots /\ waiters \in 0 .. MaxWaiting

\* However calls end - in time, refused, expired in any wait or dropped - the
\* slots they held and the registrations they made come back, READ bodies never
\* take a slot the other calls need, and the parser budget keeps its cap.
SlotsExact ==
  LET in(p, K) == Cardinality({c \in Calls : place[c] = p /\ kind[c] \in K}) IN
  /\ free = Slots - in("body", Kinds \ {"read"}) /\ readFree = Slots - in("body", {"read"})
  /\ waiters = in("slot", {"bare"})
  /\ Cardinality(Holders) <= ParserActive

\* The inner wait of a call with resources ends before its deadline does, if
\* that is the request's or left time for both waits when the response came.
TimersOK ==
  \A c \in Calls :
    /\ prompt[c] => place[c] \in LocalWait
    /\ kind[c] \in Budgeted /\ place[c] \in LocalWait =>
         /\ wait[c] # Unlimited
         /\ bound[c] => wait[c] <= left[c]
         /\ prompt[c] /\ wait[c] > 0 =>
              left[c] >= wait[c] + (IF place[c] = "slot" THEN 0 ELSE SlotWait)

\* The invariant of the slots and of the timers.
GateInv == TypeOK /\ SlotsExact /\ TimersOK

\* A call with resources whose response reached the parser with both inner waits
\* still before its deadline, or whose deadline is the request's, is never
\* reported as a failed answer of its provider because this process had no
\* slot: it ends as an admission outcome (acquire_json_parse_slot inside
\* limited_rpc).
PromptIsNotBlamed ==
  [][\A c \in Calls :
       kind[c] \in Budgeted /\ result'[c] = "blamed" /\ result[c] # "blamed" =>
         ~ bound[c] /\ ~ prompt[c]]_vars

\* "Local capacity or drain failures remain admission outcomes, not failed
\* provider votes" (SECURITY.md): no call is reported as its provider's failure
\* from the wait for a slot of this process.
LocalIsAdmission == \A c \in Calls : result[c] # "blamed"
=============================================================================

--------------------------- MODULE RpcTransportProofs ---------------------------
(***************************************************************************)
(* The transport's gate, for every number and mix of calls, every size of  *)
(* the pools and every length of the waits.                                *)
(*                                                                         *)
(* The pools are exact because a call counts in them by where it is and by *)
(* its kind, and every move of a call adjusts the pools by what the move   *)
(* changes in those counts (MoveCounts).  A prompt call is not blamed      *)
(* because its inner wait runs out first (TimersOK): the two timers tick   *)
(* together, the wait was cut to the request's deadline when it began or   *)
(* began with the time of the slot's wait to spare, and it is renewed for  *)
(* the slot only while it still runs.                                      *)
(***************************************************************************)
EXTENDS RpcTransport, FiniteSetTheorems, TLAPS

Results == {"none", "ok", "remote", "blamed", "overloaded", "closed", "gone"}
Places == {"new", "send", "body", "done"} \cup LocalWait

\* The calls that hold a shared slot, a slot of the READ targets, and a
\* registration as waiters.
Bodies == {c \in Calls : place[c] = "body" /\ kind[c] \in Kinds \ {"read"}}
ReadBodies == {c \in Calls : place[c] = "body" /\ kind[c] \in {"read"}}
Registered == {c \in Calls : place[c] = "slot" /\ kind[c] \in {"bare"}}

\* A set of calls has a natural number of them.
LEMMA Counted == ASSUME NEW S \in SUBSET Calls PROVE IsFiniteSet(S) /\ Cardinality(S) \in Nat
BY FS_Subset, FS_CardinalityType, TransportAssumption

\* What one call makes of a count.
LEMMA OneCall ==
  ASSUME NEW S \in SUBSET Calls, NEW T \in SUBSET Calls, NEW c \in Calls,
         \A d \in Calls \ {c} : d \in T <=> d \in S
  PROVE  Cardinality(T) = Cardinality(S) + (IF c \in T /\ c \notin S THEN 1 ELSE 0)
                                         - (IF c \in S /\ c \notin T THEN 1 ELSE 0)
<1>0. IsFiniteSet(S) /\ Cardinality(S) \in Nat
  BY Counted
<1>1. CASE c \in T
  <2>1. T = S \cup {c}
    BY <1>1
  <2>2. Cardinality(S \cup {c}) = IF c \in S THEN Cardinality(S) ELSE Cardinality(S) + 1
    BY <1>0, FS_AddElement
  <2>. QED BY <1>0, <1>1, <2>1, <2>2
<1>2. CASE c \notin T
  <2>1. T = S \ {c}
    BY <1>2
  <2>2. Cardinality(S \ {c}) = IF c \in S THEN Cardinality(S) - 1 ELSE Cardinality(S)
    BY <1>0, FS_RemoveElement
  <2>. QED BY <1>0, <1>2, <2>1, <2>2
<1>. QED BY <1>1, <1>2

\* What c's move to q changes in the number of calls of the kinds K at p.
Shift(c, q, p, K) ==
  IF kind[c] \notin K THEN 0
  ELSE IF q = p /\ place[c] # p THEN 1
  ELSE IF q # p /\ place[c] = p THEN -1 ELSE 0

\* A call's move from one place to another, in the counts.
LEMMA MoveCounts ==
  ASSUME TypeOK, NEW c \in Calls, NEW q, kind' = kind,
         place' = [place EXCEPT ![c] = q]
  PROVE  /\ Cardinality(Bodies') = Cardinality(Bodies) + Shift(c, q, "body", Kinds \ {"read"})
         /\ Cardinality(ReadBodies') = Cardinality(ReadBodies) + Shift(c, q, "body", {"read"})
         /\ Cardinality(Registered') = Cardinality(Registered) + Shift(c, q, "slot", {"bare"})
<1>0. /\ place'[c] = q /\ kind'[c] = kind[c] /\ kind[c] \in Kinds
      /\ \A d \in Calls \ {c} : place'[d] = place[d] /\ kind'[d] = kind[d]
  BY TransportAssumption DEF TypeOK
<1>1. /\ Bodies \in SUBSET Calls /\ ReadBodies \in SUBSET Calls /\ Registered \in SUBSET Calls
      /\ Bodies' \in SUBSET Calls /\ ReadBodies' \in SUBSET Calls /\ Registered' \in SUBSET Calls
  BY DEF Bodies, ReadBodies, Registered
<1>2. Cardinality(Bodies') = Cardinality(Bodies) + Shift(c, q, "body", Kinds \ {"read"})
  <2>1. \A d \in Calls \ {c} : d \in Bodies' <=> d \in Bodies
    BY <1>0 DEF Bodies
  <2>2. /\ c \in Bodies <=> place[c] = "body" /\ kind[c] \in Kinds \ {"read"}
        /\ c \in Bodies' <=> q = "body" /\ kind[c] \in Kinds \ {"read"}
    BY <1>0 DEF Bodies
  <2>3. Cardinality(Bodies') = Cardinality(Bodies)
          + (IF c \in Bodies' /\ c \notin Bodies THEN 1 ELSE 0)
          - (IF c \in Bodies /\ c \notin Bodies' THEN 1 ELSE 0)
    BY <1>1, <2>1, OneCall
  <2>4. Cardinality(Bodies) \in Nat
    BY Counted, <1>1
  <2>. QED BY <2>2, <2>3, <2>4 DEF Shift
<1>3. Cardinality(ReadBodies') = Cardinality(ReadBodies) + Shift(c, q, "body", {"read"})
  <2>1. \A d \in Calls \ {c} : d \in ReadBodies' <=> d \in ReadBodies
    BY <1>0 DEF ReadBodies
  <2>2. /\ c \in ReadBodies <=> place[c] = "body" /\ kind[c] \in {"read"}
        /\ c \in ReadBodies' <=> q = "body" /\ kind[c] \in {"read"}
    BY <1>0 DEF ReadBodies
  <2>3. Cardinality(ReadBodies') = Cardinality(ReadBodies)
          + (IF c \in ReadBodies' /\ c \notin ReadBodies THEN 1 ELSE 0)
          - (IF c \in ReadBodies /\ c \notin ReadBodies' THEN 1 ELSE 0)
    BY <1>1, <2>1, OneCall
  <2>4. Cardinality(ReadBodies) \in Nat
    BY Counted, <1>1
  <2>. QED BY <2>2, <2>3, <2>4 DEF Shift
<1>4. Cardinality(Registered') = Cardinality(Registered) + Shift(c, q, "slot", {"bare"})
  <2>1. \A d \in Calls \ {c} : d \in Registered' <=> d \in Registered
    BY <1>0 DEF Registered
  <2>2. /\ c \in Registered <=> place[c] = "slot" /\ kind[c] \in {"bare"}
        /\ c \in Registered' <=> q = "slot" /\ kind[c] \in {"bare"}
    BY <1>0 DEF Registered
  <2>3. Cardinality(Registered') = Cardinality(Registered)
          + (IF c \in Registered' /\ c \notin Registered THEN 1 ELSE 0)
          - (IF c \in Registered /\ c \notin Registered' THEN 1 ELSE 0)
    BY <1>1, <2>1, OneCall
  <2>4. Cardinality(Registered) \in Nat
    BY Counted, <1>1
  <2>. QED BY <2>2, <2>3, <2>4 DEF Shift
<1>. QED BY <1>2, <1>3, <1>4

\* The pools, as the counts they should be.
Exact ==
  /\ free = Slots - Cardinality(Bodies)
  /\ readFree = Slots - Cardinality(ReadBodies)
  /\ waiters = Cardinality(Registered)

\* The counts are natural numbers.
LEMMA Naturals3 ==
  /\ Cardinality(Bodies) \in Nat /\ Cardinality(ReadBodies) \in Nat
  /\ Cardinality(Registered) \in Nat
BY Counted DEF Bodies, ReadBodies, Registered

\* SlotsExact, with the pools' part named.
LEMMA ExactSlots == SlotsExact <=> Exact /\ Cardinality(Holders) <= ParserActive
BY DEF SlotsExact, Exact, Bodies, ReadBodies, Registered

\* The same after a step.
LEMMA ExactSlotsNext == SlotsExact' <=> Exact' /\ (Cardinality(Holders) <= ParserActive)'
BY DEF SlotsExact, Exact, Bodies, ReadBodies, Registered

\* A move that takes no new permit of the parser budget keeps its cap, and so
\* does one that takes a permit while there is one.
LEMMA CapKept ==
  ASSUME TypeOK, SlotsExact, NEW c \in Calls,
         \/ Holders' \subseteq Holders
         \/ Holders' \subseteq Holders \cup {c} /\ Cardinality(Holders) < ParserActive
  PROVE  Cardinality(Holders') <= ParserActive
<1>0. /\ IsFiniteSet(Holders) /\ Cardinality(Holders) \in Nat
      /\ Cardinality(Holders) <= ParserActive /\ ParserActive \in Nat
  BY Counted, ExactSlots, TransportAssumption DEF Holders
<1>1. CASE Holders' \subseteq Holders
  <2>1. Cardinality(Holders') \in Nat /\ Cardinality(Holders') <= Cardinality(Holders)
    BY <1>0, <1>1, FS_Subset, FS_CardinalityType
  <2>. QED BY <1>0, <2>1
<1>2. CASE Holders' \subseteq Holders \cup {c} /\ Cardinality(Holders) < ParserActive
  <2>0. /\ IsFiniteSet(Holders \cup {c})
        /\ Cardinality(Holders \cup {c}) =
             IF c \in Holders THEN Cardinality(Holders) ELSE Cardinality(Holders) + 1
    BY <1>0, FS_AddElement
  <2>1. /\ IsFiniteSet(Holders \cup {c})
        /\ Cardinality(Holders \cup {c}) <= Cardinality(Holders) + 1
        /\ Cardinality(Holders \cup {c}) \in Nat
    BY <1>0, <2>0
  <2>2. Cardinality(Holders') \in Nat /\ Cardinality(Holders') <= Cardinality(Holders \cup {c})
    BY <1>2, <2>1, FS_Subset, FS_CardinalityType
  <2>. QED BY <1>0, <1>2, <2>1, <2>2
<1>. QED BY <1>1, <1>2

\* The pools in their ranges, from the counts.
LEMMA Ranges ==
  ASSUME Exact', free' >= 0, readFree' >= 0, waiters' <= MaxWaiting
  PROVE  free' \in 0 .. Slots /\ readFree' \in 0 .. Slots /\ waiters' \in 0 .. MaxWaiting
<1>1. /\ Cardinality(Bodies') \in Nat /\ Cardinality(ReadBodies') \in Nat
      /\ Cardinality(Registered') \in Nat
  BY Counted DEF Bodies, ReadBodies, Registered
<1>. QED BY <1>1, TransportAssumption DEF Exact

\* However it ends, a call leaves the pools exact.
LEMMA EndKeeps ==
  ASSUME GateInv, NEW c \in Calls, NEW r \in Results, End(c, r)
  PROVE  GateInv'
<1>. USE TransportAssumption
<1>1. /\ TypeOK /\ SlotsExact /\ TimersOK /\ Exact /\ kind[c] \in Kinds
      /\ kind' = kind /\ closed' = closed
      /\ place' = [place EXCEPT ![c] = "done"] /\ result' = [result EXCEPT ![c] = r]
      /\ left' = [left EXCEPT ![c] = 0] /\ bound' = [bound EXCEPT ![c] = FALSE]
      /\ wait' = [wait EXCEPT ![c] = Unlimited] /\ prompt' = [prompt EXCEPT ![c] = FALSE]
  BY ExactSlots DEF GateInv, End, At, Wait, TypeOK
<1>2. Exact'
  <2>1. /\ Cardinality(Bodies') = Cardinality(Bodies) + Shift(c, "done", "body", Kinds \ {"read"})
        /\ Cardinality(ReadBodies') = Cardinality(ReadBodies) + Shift(c, "done", "body", {"read"})
        /\ Cardinality(Registered') = Cardinality(Registered) + Shift(c, "done", "slot", {"bare"})
    BY <1>1, MoveCounts
  <2>2. /\ free' = IF place[c] = "body" /\ kind[c] # "read" THEN free + 1 ELSE free
        /\ readFree' = IF place[c] = "body" /\ kind[c] = "read" THEN readFree + 1 ELSE readFree
        /\ waiters' = IF place[c] = "slot" /\ kind[c] = "bare" THEN waiters - 1 ELSE waiters
    BY DEF End, Released
  <2>. QED BY <1>1, <2>1, <2>2, Naturals3 DEF Exact, Shift, Kinds
<1>3. SlotsExact'
  <2>1. Holders' \subseteq Holders
    BY <1>1 DEF Holders, TypeOK
  <2>2. Cardinality(Holders') <= ParserActive
    BY <1>1, <2>1, CapKept
  <2>. QED BY <1>2, <2>2, ExactSlotsNext
<1>4. TypeOK'
  <2>1. place' \in [Calls -> Places]
    BY <1>1 DEF TypeOK, Places
  <2>2. free' >= 0 /\ readFree' >= 0 /\ waiters' <= MaxWaiting
    BY DEF GateInv, TypeOK, End, Released
  <2>3. free' \in 0 .. Slots /\ readFree' \in 0 .. Slots /\ waiters' \in 0 .. MaxWaiting
    BY <1>2, <2>2, Ranges
  <2>4. left' \in [Calls -> Nat] /\ wait' \in [Calls -> Nat \cup {Unlimited}]
    BY <1>1 DEF TypeOK
  <2>5. bound' \in [Calls -> BOOLEAN] /\ prompt' \in [Calls -> BOOLEAN]
    BY <1>1 DEF TypeOK
  <2>6. result' \in [Calls -> Results]
    BY <1>1 DEF TypeOK, Results
  <2>. QED BY <1>1, <2>1, <2>3, <2>4, <2>5, <2>6 DEF TypeOK, Places, Results
<1>5. TimersOK'
  BY <1>1 DEF TimersOK, TypeOK, LocalWait
<1>. QED BY <1>3, <1>4, <1>5 DEF GateInv

\* A call gets its slot or waits for one.
LEMMA EnterSlotKeeps ==
  ASSUME GateInv, NEW c \in Calls, EnterSlot(c), place[c] \in {"send", "granted"},
         place[c] = "granted" => wait[c] > 0,
         kind[c] \in Budgeted /\ place[c] = "send" => CanGrant(c)
  PROVE  GateInv'
<1>. USE TransportAssumption
<1>1. TypeOK /\ SlotsExact /\ TimersOK /\ Exact /\ kind[c] \in Kinds
  BY ExactSlots DEF GateInv, TypeOK
<1>2. Pool(c) \in Nat /\ SlotQueue(c) \in Nat
  BY <1>1, Counted DEF TypeOK, Pool, SlotQueue
<1>3. CASE /\ Spare(c) /\ Take(c)
           /\ prompt' = [prompt EXCEPT ![c] = FALSE]
           /\ UNCHANGED <<kind, left, bound, result, waiters, closed>>
  <2>0. /\ place' = [place EXCEPT ![c] = "body"] /\ wait' = [wait EXCEPT ![c] = Unlimited]
        /\ free' = IF kind[c] = "read" THEN free ELSE free - 1
        /\ readFree' = IF kind[c] = "read" THEN readFree - 1 ELSE readFree
        /\ UNCHANGED <<kind, left, bound, result, waiters, closed>>
    BY <1>3 DEF Take, At, Wait
  <2>1. Exact'
    <3>1. /\ Cardinality(Bodies') = Cardinality(Bodies) + Shift(c, "body", "body", Kinds \ {"read"})
          /\ Cardinality(ReadBodies') = Cardinality(ReadBodies) + Shift(c, "body", "body", {"read"})
          /\ Cardinality(Registered') = Cardinality(Registered) + Shift(c, "body", "slot", {"bare"})
      BY <1>1, <2>0, MoveCounts
    <3>. QED BY <1>1, <2>0, <3>1, Naturals3 DEF Exact, Shift, Kinds
  <2>2. SlotsExact'
    <3>1. \/ Holders' \subseteq Holders
          \/ Holders' \subseteq Holders \cup {c} /\ Cardinality(Holders) < ParserActive
      BY <1>1, <2>0 DEF Holders, TypeOK, CanGrant
    <3>2. Cardinality(Holders') <= ParserActive
      BY <1>1, <3>1, CapKept
    <3>. QED BY <2>1, <3>2, ExactSlotsNext
  <2>3. TypeOK'
    <3>1. free' >= 0 /\ readFree' >= 0 /\ waiters' <= MaxWaiting
      BY <1>1, <1>2, <1>3, <2>0 DEF TypeOK, Spare, Pool
    <3>2. free' \in 0 .. Slots /\ readFree' \in 0 .. Slots /\ waiters' \in 0 .. MaxWaiting
      BY <2>1, <3>1, Ranges
    <3>3. place' \in [Calls -> Places] /\ wait' \in [Calls -> Nat \cup {Unlimited}]
      BY <1>1, <2>0 DEF TypeOK, Places
    <3>4. prompt' \in [Calls -> BOOLEAN]
      BY <1>1, <1>3 DEF TypeOK
    <3>. QED BY <1>1, <2>0, <3>2, <3>3, <3>4 DEF TypeOK, Places
  <2>4. TimersOK'
    BY <1>1, <1>3, <2>0 DEF TimersOK, TypeOK, LocalWait
  <2>. QED BY <2>2, <2>3, <2>4 DEF GateInv
<1>4. CASE /\ ~ Spare(c) /\ (kind[c] = "bare" => waiters < MaxWaiting)
           /\ At(c, "slot") /\ Wait(c, SlotTime(c))
           /\ waiters' = IF kind[c] = "bare" THEN waiters + 1 ELSE waiters
           /\ prompt' = [prompt EXCEPT ![c] = Early(c)]
           /\ UNCHANGED <<kind, left, bound, result, free, readFree, closed>>
  <2>0. /\ place' = [place EXCEPT ![c] = "slot"] /\ wait' = [wait EXCEPT ![c] = SlotTime(c)]
        /\ SlotTime(c) \in Nat \cup {Unlimited} /\ Early(c) \in BOOLEAN
    BY <1>1, <1>4 DEF At, Wait, SlotTime, Within, TypeOK, Early
  <2>1. Exact'
    <3>1. /\ Cardinality(Bodies') = Cardinality(Bodies) + Shift(c, "slot", "body", Kinds \ {"read"})
          /\ Cardinality(ReadBodies') = Cardinality(ReadBodies) + Shift(c, "slot", "body", {"read"})
          /\ Cardinality(Registered') = Cardinality(Registered) + Shift(c, "slot", "slot", {"bare"})
      BY <1>1, <1>4, <2>0, MoveCounts
    <3>. QED BY <1>1, <1>4, <3>1, Naturals3 DEF Exact, Shift, Kinds
  <2>2. SlotsExact'
    <3>1. \/ Holders' \subseteq Holders
          \/ Holders' \subseteq Holders \cup {c} /\ Cardinality(Holders) < ParserActive
      BY <1>1, <1>4, <2>0 DEF Holders, TypeOK, CanGrant
    <3>2. Cardinality(Holders') <= ParserActive
      BY <1>1, <3>1, CapKept
    <3>. QED BY <2>1, <3>2, ExactSlotsNext
  <2>3. TypeOK'
    <3>1. free' >= 0 /\ readFree' >= 0 /\ waiters' <= MaxWaiting
      BY <1>1, <1>4 DEF TypeOK
    <3>2. free' \in 0 .. Slots /\ readFree' \in 0 .. Slots /\ waiters' \in 0 .. MaxWaiting
      BY <2>1, <3>1, Ranges
    <3>3. place' \in [Calls -> Places] /\ wait' \in [Calls -> Nat \cup {Unlimited}]
      BY <1>1, <2>0 DEF TypeOK, Places, LocalWait
    <3>4. prompt' \in [Calls -> BOOLEAN]
      BY <1>1, <1>4, <2>0 DEF TypeOK
    <3>. QED BY <1>1, <1>4, <3>2, <3>3, <3>4 DEF TypeOK, Places
  <2>4. TimersOK'
    <3>. SUFFICES ASSUME NEW d \in Calls
                  PROVE  /\ prompt'[d] => place'[d] \in LocalWait
                         /\ kind'[d] \in Budgeted /\ place'[d] \in LocalWait =>
                              /\ wait'[d] # Unlimited
                              /\ bound'[d] => wait'[d] <= left'[d]
                              /\ prompt'[d] /\ wait'[d] > 0 =>
                                   left'[d] >= wait'[d] + (IF place'[d] = "slot" THEN 0 ELSE SlotWait)
      BY DEF TimersOK
    <3>1. CASE d # c
      BY <1>1, <1>4, <2>0, <3>1 DEF TimersOK, TypeOK
    <3>2. CASE d = c
      <4>1. place'[c] = "slot" /\ wait'[c] = SlotTime(c) /\ left' = left /\ bound' = bound /\ kind' = kind
        BY <1>1, <1>4, <2>0 DEF TypeOK
      <4>2. prompt'[c] => Early(c)
        BY <1>1, <1>4 DEF TypeOK
      <4>3. SUFFICES ASSUME kind[c] \in Budgeted
                     PROVE  /\ SlotTime(c) # Unlimited
                            /\ bound[c] => SlotTime(c) <= left[c]
                            /\ Early(c) /\ SlotTime(c) > 0 => left[c] >= SlotTime(c)
        BY <3>2, <4>1, <4>2, <2>0 DEF LocalWait, TypeOK
      <4>4. SlotTime(c) = Within(c, SlotWait) /\ left[c] \in Nat
        BY <1>1, <4>3 DEF SlotTime, TypeOK
      <4>5. Early(c) => left[c] >= SlotWait
        <5>1. CASE prompt[c]
          <6>1. place[c] = "granted" /\ wait[c] > 0
            BY <1>1, <5>1 DEF TimersOK, LocalWait
          <6>. QED BY <1>1, <4>3, <5>1, <6>1 DEF TimersOK, LocalWait, TypeOK
        <5>2. CASE ~ prompt[c]
          BY <4>4, <5>2 DEF Early
        <5>. QED BY <5>1, <5>2
      <4>. QED BY <4>4, <4>5 DEF Within, Unlimited
    <3>. QED BY <3>1, <3>2
  <2>. QED BY <2>2, <2>3, <2>4 DEF GateInv
<1>5. CASE End(c, "overloaded")
  BY <1>5, EndKeeps DEF Results
<1>. QED BY <1>3, <1>4, <1>5 DEF EnterSlot

\* A move that touches no pool: to the parser's queue or out of it, or to send.
LEMMA MoveKeeps ==
  ASSUME GateInv, NEW c \in Calls, NEW q \in {"send", "parser", "granted"},
         place[c] \notin {"body", "slot"}, place' = [place EXCEPT ![c] = q],
         UNCHANGED <<kind, result, pools, closed>>,
         \/ Holders' \subseteq Holders
         \/ Holders' \subseteq Holders \cup {c} /\ Cardinality(Holders) < ParserActive,
         left' \in [Calls -> Nat], wait' \in [Calls -> Nat \cup {Unlimited}],
         bound' \in [Calls -> BOOLEAN], prompt' \in [Calls -> BOOLEAN], TimersOK'
  PROVE  GateInv'
<1>. USE TransportAssumption
<1>1. TypeOK /\ SlotsExact /\ Exact
  BY ExactSlots DEF GateInv
<1>2. Exact'
  <2>1. /\ Cardinality(Bodies') = Cardinality(Bodies) + Shift(c, q, "body", Kinds \ {"read"})
        /\ Cardinality(ReadBodies') = Cardinality(ReadBodies) + Shift(c, q, "body", {"read"})
        /\ Cardinality(Registered') = Cardinality(Registered) + Shift(c, q, "slot", {"bare"})
    BY <1>1, MoveCounts
  <2>. QED BY <1>1, <2>1, Naturals3 DEF Exact, Shift, pools
<1>3. SlotsExact'
  <2>1. Cardinality(Holders') <= ParserActive
    BY <1>1, CapKept
  <2>. QED BY <1>2, <2>1, ExactSlotsNext
<1>4. TypeOK'
  <2>1. place' \in [Calls -> Places]
    BY <1>1 DEF TypeOK, Places, LocalWait
  <2>. QED BY <1>1, <2>1 DEF TypeOK, Places, pools
<1>. QED BY <1>3, <1>4 DEF GateInv

\* limited_rpc starts its timer.
LEMMA StartStep == ASSUME GateInv, NEW c \in Calls, Start(c) PROVE GateInv'
<1>. USE TransportAssumption DEF GateInv
<1>1. /\ place[c] = "new" /\ place' = [place EXCEPT ![c] = "send"]
      /\ UNCHANGED <<kind, wait, prompt, result, pools, closed>>
  BY DEF Start, At
<1>2. Holders' \subseteq Holders
  BY <1>1 DEF Holders, TypeOK
<1>3. /\ left' \in [Calls -> Nat] /\ bound' \in [Calls -> BOOLEAN]
      /\ \A d \in Calls \ {c} : left'[d] = left[d] /\ bound'[d] = bound[d]
  <2>1. RpcLimit[kind[c]] \in Nat
    BY DEF TypeOK
  <2>2. CASE left' = [left EXCEPT ![c] = RpcLimit[kind[c]]] /\ UNCHANGED bound
    BY <2>1, <2>2 DEF TypeOK
  <2>3. CASE /\ \E l \in 1 .. RpcLimit[kind[c]] - 1 : left' = [left EXCEPT ![c] = l]
             /\ bound' = [bound EXCEPT ![c] = TRUE]
    <3>1. PICK l \in 1 .. RpcLimit[kind[c]] - 1 : left' = [left EXCEPT ![c] = l]
      BY <2>3
    <3>2. l \in Nat
      BY <2>1
    <3>3. left' \in [Calls -> Nat] /\ \A d \in Calls \ {c} : left'[d] = left[d]
      BY <3>1, <3>2 DEF TypeOK
    <3>4. bound' \in [Calls -> BOOLEAN] /\ \A d \in Calls \ {c} : bound'[d] = bound[d]
      BY <2>3 DEF TypeOK
    <3>. QED BY <3>3, <3>4
  <2>. QED BY <2>2, <2>3 DEF Start
<1>4. TimersOK'
  <2>. SUFFICES ASSUME NEW d \in Calls
                PROVE  /\ prompt'[d] => place'[d] \in LocalWait
                       /\ kind'[d] \in Budgeted /\ place'[d] \in LocalWait =>
                            /\ wait'[d] # Unlimited
                            /\ bound'[d] => wait'[d] <= left'[d]
                            /\ prompt'[d] /\ wait'[d] > 0 =>
                                 left'[d] >= wait'[d] + (IF place'[d] = "slot" THEN 0 ELSE SlotWait)
    BY DEF TimersOK
  <2>1. CASE d = c
    BY <1>1, <2>1 DEF TimersOK, TypeOK, LocalWait
  <2>2. CASE d # c
    BY <1>1, <1>3, <2>2 DEF TimersOK, TypeOK
  <2>. QED BY <2>1, <2>2
<1>. QED BY <1>1, <1>2, <1>3, <1>4, MoveKeeps DEF TypeOK

\* The response reaches the gate.
LEMMA AnsweredStep == ASSUME GateInv, NEW c \in Calls, Answered(c) PROVE GateInv'
<1>. USE TransportAssumption
<1>0. place[c] = "send" /\ left[c] > 0 /\ TypeOK /\ TimersOK /\ SlotsExact
  BY DEF Answered, GateInv
<1>1. CASE EnterSlot(c) /\ (kind[c] \in Budgeted => CanGrant(c))
  BY <1>0, <1>1, EnterSlotKeeps
<1>2. CASE End(c, "closed") \/ End(c, "overloaded")
  BY <1>2, EndKeeps DEF Results
<1>3. CASE /\ kind[c] \in Budgeted
           /\ At(c, "parser") /\ Wait(c, Within(c, ParserWait))
           /\ prompt' = [prompt EXCEPT ![c] = Early(c)]
           /\ UNCHANGED <<kind, left, bound, result, pools, closed>>
  <2>1. /\ place' = [place EXCEPT ![c] = "parser"] /\ Early(c) \in BOOLEAN
        /\ wait' = [wait EXCEPT ![c] = Within(c, ParserWait)] /\ Within(c, ParserWait) \in Nat
    BY <1>0, <1>3 DEF At, Wait, Within, TypeOK, Early
  <2>2. Holders' \subseteq Holders
    BY <1>0, <1>3, <2>1 DEF Holders, TypeOK
  <2>3. wait' \in [Calls -> Nat \cup {Unlimited}] /\ prompt' \in [Calls -> BOOLEAN]
    BY <1>0, <1>3, <2>1 DEF TypeOK
  <2>4. TimersOK'
    <3>. SUFFICES ASSUME NEW d \in Calls
                  PROVE  /\ prompt'[d] => place'[d] \in LocalWait
                         /\ kind'[d] \in Budgeted /\ place'[d] \in LocalWait =>
                              /\ wait'[d] # Unlimited
                              /\ bound'[d] => wait'[d] <= left'[d]
                              /\ prompt'[d] /\ wait'[d] > 0 =>
                                   left'[d] >= wait'[d] + (IF place'[d] = "slot" THEN 0 ELSE SlotWait)
      BY DEF TimersOK
    <3>1. CASE d # c
      BY <1>0, <1>3, <2>1, <3>1 DEF TimersOK, TypeOK
    <3>2. CASE d = c
      <4>1. /\ place'[c] = "parser" /\ wait'[c] = Within(c, ParserWait)
            /\ left' = left /\ bound' = bound /\ kind' = kind /\ left[c] \in Nat
        BY <1>0, <1>3, <2>1 DEF TypeOK
      <4>2. prompt'[c] => Early(c)
        BY <1>0, <1>3 DEF TypeOK
      <4>3. Early(c) => left[c] >= ParserWait + SlotWait
        BY <1>0 DEF Early, TimersOK, LocalWait
      <4>. QED BY <3>2, <4>1, <4>2, <4>3 DEF LocalWait, Within, Unlimited
    <3>. QED BY <3>1, <3>2
  <2>. QED BY <1>0, <1>3, <2>1, <2>2, <2>3, <2>4, MoveKeeps DEF TypeOK
<1>. QED BY <1>1, <1>2, <1>3 DEF Answered

\* dispatch grants a permit.
LEMMA GrantStep == ASSUME GateInv, NEW c \in Calls, Grant(c) PROVE GateInv'
<1>. USE TransportAssumption DEF GateInv
<1>1. /\ place[c] = "parser" /\ place' = [place EXCEPT ![c] = "granted"]
      /\ Cardinality(Holders) < ParserActive
      /\ UNCHANGED <<kind, left, bound, wait, prompt, result, pools, closed>>
  BY DEF Grant, At, CanGrant
<1>2. Holders' \subseteq Holders \cup {c}
  BY <1>1 DEF Holders, TypeOK
<1>3. TimersOK'
  BY <1>1 DEF TimersOK, TypeOK, LocalWait
<1>. QED BY <1>1, <1>2, <1>3, MoveKeeps DEF TypeOK

\* A slot comes free for a waiter.
LEMMA SlotTakenStep == ASSUME GateInv, NEW c \in Calls, SlotTaken(c) PROVE GateInv'
<1>. USE TransportAssumption
<1>1. TypeOK /\ SlotsExact /\ TimersOK /\ Exact /\ kind[c] \in Kinds
  BY ExactSlots DEF GateInv, TypeOK
<1>2. /\ place[c] = "slot" /\ Pool(c) > 0
      /\ place' = [place EXCEPT ![c] = "body"] /\ wait' = [wait EXCEPT ![c] = Unlimited]
      /\ prompt' = [prompt EXCEPT ![c] = FALSE]
      /\ free' = IF kind[c] = "read" THEN free ELSE free - 1
      /\ readFree' = IF kind[c] = "read" THEN readFree - 1 ELSE readFree
      /\ waiters' = IF kind[c] = "bare" THEN waiters - 1 ELSE waiters
      /\ UNCHANGED <<kind, left, bound, result, closed>>
  BY DEF SlotTaken, Take, At, Wait
<1>3. Exact'
  <2>1. /\ Cardinality(Bodies') = Cardinality(Bodies) + Shift(c, "body", "body", Kinds \ {"read"})
        /\ Cardinality(ReadBodies') = Cardinality(ReadBodies) + Shift(c, "body", "body", {"read"})
        /\ Cardinality(Registered') = Cardinality(Registered) + Shift(c, "body", "slot", {"bare"})
    BY <1>1, <1>2, MoveCounts
  <2>. QED BY <1>1, <1>2, <2>1, Naturals3 DEF Exact, Shift, Kinds
<1>4. SlotsExact'
  <2>1. Holders' \subseteq Holders
    BY <1>1, <1>2 DEF Holders, TypeOK
  <2>2. Cardinality(Holders') <= ParserActive
    BY <1>1, <2>1, CapKept
  <2>. QED BY <1>3, <2>2, ExactSlotsNext
<1>5. TypeOK'
  <2>1. free' >= 0 /\ readFree' >= 0 /\ waiters' <= MaxWaiting
    BY <1>1, <1>2 DEF TypeOK, Pool
  <2>2. free' \in 0 .. Slots /\ readFree' \in 0 .. Slots /\ waiters' \in 0 .. MaxWaiting
    BY <1>3, <2>1, Ranges
  <2>3. place' \in [Calls -> Places] /\ wait' \in [Calls -> Nat \cup {Unlimited}]
    BY <1>1, <1>2 DEF TypeOK, Places
  <2>4. prompt' \in [Calls -> BOOLEAN]
    BY <1>1, <1>2 DEF TypeOK
  <2>. QED BY <1>1, <1>2, <2>2, <2>3, <2>4 DEF TypeOK, Places
<1>6. TimersOK'
  BY <1>1, <1>2 DEF TimersOK, TypeOK, LocalWait
<1>. QED BY <1>4, <1>5, <1>6 DEF GateInv

\* Time passes for both timers.
LEMMA TickStep == ASSUME GateInv, Tick PROVE GateInv'
<1>. USE TransportAssumption
<1>1. /\ left' = [c \in Calls |-> Less(left[c])] /\ wait' = [c \in Calls |-> Less(wait[c])]
      /\ UNCHANGED <<kind, place, bound, prompt, result, pools, closed>>
      /\ TypeOK /\ SlotsExact /\ TimersOK
  BY DEF Tick, GateInv
<1>2. left' \in [Calls -> Nat] /\ wait' \in [Calls -> Nat \cup {Unlimited}]
  BY <1>1 DEF TypeOK, Less, Unlimited
<1>3. TypeOK' /\ SlotsExact'
  BY <1>1, <1>2 DEF TypeOK, SlotsExact, Holders, pools
<1>4. TimersOK'
  <2>. SUFFICES ASSUME NEW d \in Calls, kind[d] \in Budgeted, place[d] \in LocalWait
                PROVE  /\ wait'[d] # Unlimited
                       /\ bound[d] => wait'[d] <= left'[d]
                       /\ prompt[d] /\ wait'[d] > 0 =>
                            left'[d] >= wait'[d] + (IF place[d] = "slot" THEN 0 ELSE SlotWait)
    BY <1>1 DEF TimersOK
  <2>1. /\ left[d] \in Nat /\ wait[d] \in Nat
        /\ left'[d] = Less(left[d]) /\ wait'[d] = Less(wait[d])
    BY <1>1 DEF TypeOK, TimersOK
  <2>2. /\ bound[d] => wait[d] <= left[d]
        /\ prompt[d] /\ wait[d] > 0 =>
             left[d] >= wait[d] + (IF place[d] = "slot" THEN 0 ELSE SlotWait)
    BY <1>1 DEF TimersOK
  <2>3. wait'[d] # Unlimited /\ (bound[d] => wait'[d] <= left'[d])
    BY <2>1, <2>2 DEF Less, Unlimited
  <2>4. prompt[d] /\ wait'[d] > 0 =>
          left'[d] >= wait'[d] + (IF place[d] = "slot" THEN 0 ELSE SlotWait)
    BY <2>1, <2>2 DEF Less
  <2>. QED BY <2>3, <2>4
<1>. QED BY <1>3, <1>4 DEF GateInv

\* Nothing has started.
LEMMA InitGate == Init => GateInv
<1>. SUFFICES ASSUME Init PROVE GateInv
  OBVIOUS
<1>. USE TransportAssumption DEF Init
<1>1. TypeOK
  <2>1. bound \in [Calls -> BOOLEAN] /\ prompt \in [Calls -> BOOLEAN] /\ closed \in BOOLEAN
    OBVIOUS
  <2>2. place \in [Calls -> Places] /\ left \in [Calls -> Nat] /\ result \in [Calls -> Results]
    BY DEF Places, Results
  <2>3. wait \in [Calls -> Nat \cup {Unlimited}]
    OBVIOUS
  <2>4. free \in 0 .. Slots /\ readFree \in 0 .. Slots /\ waiters \in 0 .. MaxWaiting
    OBVIOUS
  <2>. QED BY <2>1, <2>2, <2>3, <2>4 DEF TypeOK, Places, Results
<1>2. SlotsExact
  <2>1. Bodies = {} /\ ReadBodies = {} /\ Registered = {} /\ Holders = {}
    BY DEF Bodies, ReadBodies, Registered, Holders
  <2>2. Exact /\ Cardinality(Holders) <= ParserActive
    BY <2>1, FS_EmptySet DEF Exact
  <2>. QED BY <2>2, ExactSlots
<1>3. TimersOK
  BY DEF TimersOK, LocalWait
<1>. QED BY <1>1, <1>2, <1>3 DEF GateInv

\* Every step keeps the invariant.
LEMMA StepGate == GateInv /\ [Next]_vars => GateInv'
<1>. SUFFICES ASSUME GateInv, [Next]_vars PROVE GateInv'
  OBVIOUS
<1>1. ASSUME NEW c \in Calls, Granted(c) PROVE GateInv'
  <2>1. place[c] = "granted" /\ wait[c] > 0 /\ EnterSlot(c)
    BY <1>1 DEF Granted
  <2>. QED BY <2>1, EnterSlotKeeps
<1>2. ASSUME NEW c \in Calls, WaitOver(c) \/ Finish(c) \/ RpcTimedOut(c) \/ Dropped(c)
      PROVE  GateInv'
  BY <1>2, EndKeeps DEF WaitOver, Finish, RpcTimedOut, Dropped, Results
<1>3. CASE Close
  BY <1>3 DEF Close, GateInv, TypeOK, SlotsExact, TimersOK, Holders, pools
<1>4. CASE UNCHANGED vars
  BY <1>4 DEF vars, GateInv, TypeOK, SlotsExact, TimersOK, Holders, pools
<1>. QED
  BY <1>1, <1>2, <1>3, <1>4, TickStep, StartStep, AnsweredStep, GrantStep, SlotTakenStep
     DEF Next

\* The slots, the registrations and the parser's permits come back however
\* calls end.
THEOREM GateHolds == Spec => []GateInv
BY InitGate, StepGate, PTL DEF Spec

\* A prompt call, or one bound by its request, is never blamed on its provider.
THEOREM PromptNotBlamed == Spec => PromptIsNotBlamed
<1>. DEFINE A == \A c \in Calls :
                   kind[c] \in Budgeted /\ result'[c] = "blamed" /\ result[c] # "blamed" =>
                     ~ bound[c] /\ ~ prompt[c]
<1>1. GateInv /\ [Next]_vars => [A]_vars
  <2>. SUFFICES ASSUME GateInv, Next, NEW d \in Calls, kind[d] \in Budgeted,
                       result'[d] = "blamed", result[d] # "blamed"
                PROVE  ~ bound[d] /\ ~ prompt[d]
    BY DEF vars
  <2>0. TypeOK /\ TimersOK
    BY DEF GateInv
  <2>1. ASSUME NEW c \in Calls, NEW r, End(c, r) PROVE c = d => r = "blamed"
    BY <2>0, <2>1 DEF End, TypeOK
  <2>2. ASSUME NEW c \in Calls, NEW r, End(c, r) PROVE c = d
    BY <2>0, <2>2 DEF End, TypeOK
  <2>3. ASSUME NEW c \in Calls, EnterSlot(c) PROVE FALSE
    BY <2>1, <2>2, <2>3 DEF EnterSlot
  <2>4. RpcTimedOut(d)
    BY <2>1, <2>2, <2>3 DEF Next, Tick, Close, Start, Answered, Grant, Granted, SlotTaken,
       WaitOver, Finish, RpcTimedOut, Dropped
  <2>5. /\ left[d] = 0 /\ wait[d] # 0 /\ place[d] \in {"parser", "slot"}
        /\ wait[d] \in Nat
    BY <2>0, <2>1, <2>4 DEF RpcTimedOut, TimersOK, LocalWait, TypeOK
  <2>. QED BY <2>0, <2>5, TransportAssumption DEF TimersOK, LocalWait
<1>. QED BY <1>1, GateHolds, PTL DEF Spec, PromptIsNotBlamed
=============================================================================

----------------------------- MODULE BudgetProofs -----------------------------
(* Proofs about the two kinds of budget of the process.  FairBudget, for every *)
(* number of calls, lanes and resources and every limit the constructors       *)
(* accept; and at the end JsonPool, for every number of rounds, providers and  *)
(* responses and every size and limit.                                         *)
EXTENDS FairBudget, JsonPool, FiniteSetTheorems, SequenceTheorems, TLAPS

\* Removing element i of a sequence keeps the others in order.
LEMMA RemoveAtProps ==
  ASSUME NEW S, NEW s \in Seq(S), NEW i \in 1 .. Len(s)
  PROVE  /\ RemoveAt(s, i) \in Seq(S)
         /\ Len(RemoveAt(s, i)) = Len(s) - 1
         /\ \A j \in 1 .. Len(s) - 1 :
              RemoveAt(s, i)[j] = IF j < i THEN s[j] ELSE s[j + 1]
<1> DEFINE a == SubSeq(s, 1, i - 1)
           b == SubSeq(s, i + 1, Len(s))
<1>1. a \in Seq(S) /\ Len(a) = i - 1 /\ \A j \in 1 .. i - 1 : a[j] = s[j]
  BY SubSeqProperties
<1>2. b \in Seq(S) /\ Len(b) = Len(s) - i
      /\ \A j \in 1 .. Len(s) - i : b[j] = s[j + i]
  BY SubSeqProperties
<1>3. RemoveAt(s, i) = a \o b
  BY DEF RemoveAt
<1> HIDE DEF a, b
<1>4. /\ a \o b \in Seq(S)
      /\ Len(a \o b) = Len(a) + Len(b)
      /\ \A j \in 1 .. Len(a) + Len(b) :
           (a \o b)[j] = IF j <= Len(a) THEN a[j] ELSE b[j - Len(a)]
  BY <1>1, <1>2, ConcatProperties
<1>5. Len(s) \in Nat /\ i \in Int
  OBVIOUS
<1>6. ASSUME NEW j \in 1 .. Len(s) - 1
      PROVE  (a \o b)[j] = IF j < i THEN s[j] ELSE s[j + 1]
  <2>1. CASE j < i
    BY <1>1, <1>2, <1>4, <1>5, <2>1
  <2>2. CASE ~ (j < i)
    <3>1. (a \o b)[j] = b[j - (i - 1)]
      BY <1>1, <1>2, <1>4, <1>5, <2>2
    <3>2. j - (i - 1) \in 1 .. Len(s) - i
      BY <1>5, <2>2
    <3>3. b[j - (i - 1)] = s[j - (i - 1) + i]
      BY <1>2, <3>2
    <3>4. j - (i - 1) + i = j + 1
      BY <1>5
    <3>5. QED BY <2>2, <3>1, <3>3, <3>4
  <2>3. QED BY <2>1, <2>2
<1>7. QED
  BY <1>1, <1>2, <1>3, <1>4, <1>5, <1>6

\* The sets of calls the counters count are finite.
LEMMA CallSetsFinite ==
  ASSUME NEW S, S \subseteq Calls
  PROVE  IsFiniteSet(S) /\ Cardinality(S) \in Nat
BY CallsAssumption, FS_Subset, FS_CardinalityType

\* Adding one call to a set of calls.
LEMMA AddCall ==
  ASSUME NEW S, S \subseteq Calls, NEW c \in Calls, c \notin S
  PROVE  Cardinality(S \cup {c}) = Cardinality(S) + 1
BY CallSetsFinite, FS_AddElement

\* Removing one call from a set of calls.
LEMMA RemoveCall ==
  ASSUME NEW S, S \subseteq Calls, NEW c \in S
  PROVE  Cardinality(S \ {c}) = Cardinality(S) - 1
BY CallSetsFinite, FS_RemoveElement

\* grant keeps every counter equal to the number of permits out.
LEMMA GrantCounts ==
  ASSUME TypeOK, CountersOK, NEW c \in Calls, wstate[c] # "granted",
         Grant(c), UNCHANGED <<lane, resource>>
  PROVE  CountersOK'
<1>1. Granted' = Granted \cup {c} /\ c \notin Granted /\ Granted \subseteq Calls
  BY DEF Grant, Granted, TypeOK
<1>2. ASSUME NEW X, X \subseteq Calls
      PROVE  Cardinality(Granted' \cap X) =
               IF c \in X THEN Cardinality(Granted \cap X) + 1
                          ELSE Cardinality(Granted \cap X)
  <2>1. CASE c \in X
    <3>1. Granted' \cap X = (Granted \cap X) \cup {c}
      BY <1>1, <2>1
    <3>2. QED BY <1>1, <2>1, <3>1, AddCall
  <2>2. CASE c \notin X
    <3>1. Granted' \cap X = Granted \cap X
      BY <1>1, <2>2
    <3>2. QED BY <2>2, <3>1
  <2>3. QED BY <2>1, <2>2
<1>3. \A l : OfLane(l)' = OfLane(l) /\ OfLane(l) \subseteq Calls
  BY DEF OfLane
<1>4. \A r : OfResource(r)' = OfResource(r) /\ OfResource(r) \subseteq Calls
  BY DEF OfResource
<1>5. active' = Cardinality(Granted')
  BY <1>1, AddCall DEF Grant, CountersOK
<1>6. ASSUME NEW l \in Lanes
      PROVE  laneActive'[l] = Cardinality(Granted' \cap OfLane(l)')
  <2>1. c \in OfLane(l) <=> l = lane[c]
    BY DEF OfLane
  <2>2. laneActive'[l] = IF l = lane[c] THEN laneActive[l] + 1 ELSE laneActive[l]
    BY DEF Grant, TypeOK
  <2>3. laneActive[l] = Cardinality(Granted \cap OfLane(l))
    BY DEF CountersOK
  <2>4. QED BY <1>2, <1>3, <2>1, <2>2, <2>3
<1>7. ASSUME NEW r \in Resources
      PROVE  resourceActive'[r] = Cardinality(Granted' \cap OfResource(r)')
  <2>1. c \in OfResource(r) <=> r = resource[c]
    BY DEF OfResource
  <2>2. resourceActive'[r] = IF r = resource[c] THEN resourceActive[r] + 1 ELSE resourceActive[r]
    BY DEF Grant, TypeOK
  <2>3. resourceActive[r] = Cardinality(Granted \cap OfResource(r))
    BY DEF CountersOK
  <2>4. QED BY <1>2, <1>4, <2>1, <2>2, <2>3
<1>8. ASSUME NEW r \in Resources, NEW l \in Lanes, LaneCapped
      PROVE  laneResourceActive'[l][r]
               = Cardinality(Granted' \cap OfLane(l)' \cap OfResource(r)')
  <2>1. Granted' \cap OfLane(l)' \cap OfResource(r)'
          = Granted' \cap (OfLane(l) \cap OfResource(r))
    BY <1>3, <1>4
  <2>2. Granted \cap OfLane(l) \cap OfResource(r)
          = Granted \cap (OfLane(l) \cap OfResource(r))
    OBVIOUS
  <2>3. c \in OfLane(l) \cap OfResource(r) <=> l = lane[c] /\ r = resource[c]
    BY DEF OfLane, OfResource
  <2>4. OfLane(l) \cap OfResource(r) \subseteq Calls
    BY DEF OfLane
  <2>5. laneResourceActive'[l][r] =
          IF l = lane[c] /\ r = resource[c]
          THEN laneResourceActive[l][r] + 1 ELSE laneResourceActive[l][r]
    BY <1>8 DEF Grant
  <2>6. laneResourceActive[l][r] = Cardinality(Granted \cap (OfLane(l) \cap OfResource(r)))
    BY <1>8, <2>2 DEF CountersOK
  <2>7. QED BY <1>2, <2>1, <2>3, <2>4, <2>5, <2>6
<1>9. QED
  BY <1>5, <1>6, <1>7, <1>8 DEF CountersOK

\* The drop of a granted registration keeps them equal too.
LEMMA UngrantCounts ==
  ASSUME TypeOK, CountersOK, NEW c \in Calls, wstate[c] = "granted",
         Ungrant(c), wstate' = [wstate EXCEPT ![c] = "dropped"],
         UNCHANGED <<lane, resource>>
  PROVE  CountersOK'
<1>1. Granted' = Granted \ {c} /\ c \in Granted /\ Granted \subseteq Calls
  BY DEF Granted, TypeOK
<1>2. ASSUME NEW X, X \subseteq Calls
      PROVE  Cardinality(Granted' \cap X) =
               IF c \in X THEN Cardinality(Granted \cap X) - 1
                          ELSE Cardinality(Granted \cap X)
  <2>1. CASE c \in X
    <3>1. Granted' \cap X = (Granted \cap X) \ {c}
      BY <1>1, <2>1
    <3>2. QED BY <1>1, <2>1, <3>1, RemoveCall
  <2>2. CASE c \notin X
    <3>1. Granted' \cap X = Granted \cap X
      BY <1>1, <2>2
    <3>2. QED BY <2>2, <3>1
  <2>3. QED BY <2>1, <2>2
<1>3. \A l : OfLane(l)' = OfLane(l) /\ OfLane(l) \subseteq Calls
  BY DEF OfLane
<1>4. \A r : OfResource(r)' = OfResource(r) /\ OfResource(r) \subseteq Calls
  BY DEF OfResource
<1>5. active' = Cardinality(Granted')
  BY <1>1, RemoveCall DEF Ungrant, CountersOK
<1>6. ASSUME NEW l \in Lanes
      PROVE  laneActive'[l] = Cardinality(Granted' \cap OfLane(l)')
  <2>1. c \in OfLane(l) <=> l = lane[c]
    BY DEF OfLane
  <2>2. laneActive'[l] = IF l = lane[c] THEN laneActive[l] - 1 ELSE laneActive[l]
    BY DEF Ungrant, TypeOK
  <2>3. laneActive[l] = Cardinality(Granted \cap OfLane(l))
    BY DEF CountersOK
  <2>4. QED BY <1>2, <1>3, <2>1, <2>2, <2>3
<1>7. ASSUME NEW r \in Resources
      PROVE  resourceActive'[r] = Cardinality(Granted' \cap OfResource(r)')
  <2>1. c \in OfResource(r) <=> r = resource[c]
    BY DEF OfResource
  <2>2. resourceActive'[r] = IF r = resource[c] THEN resourceActive[r] - 1 ELSE resourceActive[r]
    BY DEF Ungrant, TypeOK
  <2>3. resourceActive[r] = Cardinality(Granted \cap OfResource(r))
    BY DEF CountersOK
  <2>4. QED BY <1>2, <1>4, <2>1, <2>2, <2>3
<1>8. ASSUME NEW r \in Resources, NEW l \in Lanes, LaneCapped
      PROVE  laneResourceActive'[l][r]
               = Cardinality(Granted' \cap OfLane(l)' \cap OfResource(r)')
  <2>1. Granted' \cap OfLane(l)' \cap OfResource(r)'
          = Granted' \cap (OfLane(l) \cap OfResource(r))
    BY <1>3, <1>4
  <2>2. Granted \cap OfLane(l) \cap OfResource(r)
          = Granted \cap (OfLane(l) \cap OfResource(r))
    OBVIOUS
  <2>3. c \in OfLane(l) \cap OfResource(r) <=> l = lane[c] /\ r = resource[c]
    BY DEF OfLane, OfResource
  <2>4. OfLane(l) \cap OfResource(r) \subseteq Calls
    BY DEF OfLane
  <2>5. laneResourceActive'[l][r] =
          IF l = lane[c] /\ r = resource[c]
          THEN laneResourceActive[l][r] - 1 ELSE laneResourceActive[l][r]
    BY <1>8 DEF Ungrant
  <2>6. laneResourceActive[l][r] = Cardinality(Granted \cap (OfLane(l) \cap OfResource(r)))
    BY <1>8, <2>2 DEF CountersOK
  <2>7. QED BY <1>2, <2>1, <2>3, <2>4, <2>5, <2>6
<1>9. QED
  BY <1>5, <1>6, <1>7, <1>8 DEF CountersOK

\* A step that hands out and takes back no permit leaves the counters right.
LEMMA SameGrantsCounts ==
  ASSUME CountersOK, Granted' = Granted,
         \A c \in Granted : lane'[c] = lane[c] /\ resource'[c] = resource[c],
         UNCHANGED <<active, laneActive, resourceActive, laneResourceActive>>
  PROVE  CountersOK'
<1>1. \A l : Granted' \cap OfLane(l)' = Granted \cap OfLane(l)
  BY DEF OfLane, Granted
<1>2. \A r : Granted' \cap OfResource(r)' = Granted \cap OfResource(r)
  BY DEF OfResource, Granted
<1>3. \A l, r : Granted' \cap OfLane(l)' \cap OfResource(r)'
                = Granted \cap OfLane(l) \cap OfResource(r)
  BY <1>1, <1>2
<1>4. QED
  BY <1>1, <1>2, <1>3 DEF CountersOK

\* can_grant is exactly the room grant needs.
LEMMA GrantCapped ==
  ASSUME TypeOK, CountsCapped, NEW c \in Calls, CanGrant(lane[c], resource[c]),
         Grant(c), UNCHANGED laneLimit
  PROVE  CountsCapped'
<1> USE LimitsAssumption, CallsAssumption
<1>1. active' <= ActiveLimit
  BY DEF TypeOK, CanGrant, Grant
<1>2. ASSUME NEW l \in Lanes PROVE laneActive'[l] <= laneLimit'[l]
  <2>1. CASE l = lane[c]
    BY <2>1 DEF TypeOK, CanGrant, Grant
  <2>2. CASE l # lane[c]
    BY <2>2 DEF TypeOK, CountsCapped, Grant
  <2>3. QED BY <2>1, <2>2
<1>3. ASSUME NEW r \in Resources
      PROVE  /\ resourceActive'[r] <= ResourceLimit
             /\ LaneCapped => \A l \in Lanes :
                  laneResourceActive'[l][r] <= LaneResourceLimit
  <2>1. CASE r = resource[c]
    <3>0. r # NoResource /\ resourceActive[r] \in Int
      BY DEF TypeOK
    <3>1. resourceActive'[r] <= ResourceLimit
      <4>1. resourceActive[r] < ResourceLimit
        BY <2>1, <3>0 DEF CanGrant
      <4>2. resourceActive'[r] = resourceActive[r] + 1
        BY <2>1 DEF Grant
      <4>3. QED BY <3>0, <4>1, <4>2
    <3>2. ASSUME LaneCapped, NEW l \in Lanes
          PROVE  laneResourceActive'[l][r] <= LaneResourceLimit
      <4>1. CASE l = lane[c]
        <5>1. laneResourceActive[l][r] < LaneResourceLimit
          BY <2>1, <3>0, <3>2, <4>1 DEF CanGrant
        <5>2. laneResourceActive'[l][r] = laneResourceActive[l][r] + 1
          BY <2>1, <3>2, <4>1 DEF Grant
        <5>3. laneResourceActive[l][r] \in Int
          BY DEF TypeOK
        <5>4. QED BY <5>1, <5>2, <5>3
      <4>2. CASE l # lane[c]
        BY <3>2, <4>2 DEF TypeOK, CountsCapped, Grant
      <4>3. QED BY <4>1, <4>2
    <3>3. QED BY <3>1, <3>2
  <2>2. CASE r # resource[c]
    BY <2>2 DEF TypeOK, CountsCapped, Grant
  <2>3. QED BY <2>1, <2>2
<1>4. QED
  BY <1>1, <1>2, <1>3 DEF CountsCapped

\* grant and ungrant keep the types.
LEMMA GrantTypes ==
  ASSUME TypeOK, NEW c \in Calls, Grant(c)
  PROVE  /\ active' \in Int
         /\ laneActive' \in [Lanes -> Int]
         /\ resourceActive' \in [Resources -> Int]
         /\ laneResourceActive' \in [Lanes -> [Resources -> Int]]
         /\ wstate' \in [Calls -> {"fresh", "waiting", "granted", "dropped", "closed"}]
BY DEF TypeOK, Grant

LEMMA UngrantTypes ==
  ASSUME TypeOK, NEW c \in Calls, Ungrant(c)
  PROVE  /\ active' \in Int
         /\ laneActive' \in [Lanes -> Int]
         /\ resourceActive' \in [Resources -> Int]
         /\ laneResourceActive' \in [Lanes -> [Resources -> Int]]
BY DEF TypeOK, Ungrant

\* A permit that comes back leaves every cap respected.
LEMMA UngrantCapped ==
  ASSUME TypeOK, CountsCapped, NEW c \in Calls, Ungrant(c), UNCHANGED laneLimit
  PROVE  CountsCapped'
<1> USE LimitsAssumption
<1>1. active' <= ActiveLimit
  BY DEF TypeOK, CountsCapped, Ungrant
<1>2. ASSUME NEW l \in Lanes PROVE laneActive'[l] <= laneLimit'[l]
  BY DEF TypeOK, CountsCapped, Ungrant
<1>3. ASSUME NEW r \in Resources
      PROVE  /\ resourceActive'[r] <= ResourceLimit
             /\ LaneCapped => \A l \in Lanes :
                  laneResourceActive'[l][r] <= LaneResourceLimit
  BY DEF TypeOK, CountsCapped, Ungrant
<1>4. QED
  BY <1>1, <1>2, <1>3 DEF CountsCapped

\* Taking one waiter out of its queue, granted or dropped, keeps the queues
\* exact.
LEMMA QueueRemove ==
  ASSUME TypeOK, QueuesOK, NEW l \in Lanes, NEW i \in DOMAIN queue[l],
         NEW v, v # "waiting",
         queue' = [queue EXCEPT ![l] = RemoveAt(@, i)],
         wstate' = [wstate EXCEPT ![queue[l][i]] = v],
         waiting' = waiting - 1, UNCHANGED <<lane, closed>>
  PROVE  QueuesOK' /\ queue' \in [Lanes -> Seq(Calls)] /\ waiting' \in Int
<1> DEFINE c == queue[l][i]
           q == queue[l]
<1>1. q \in Seq(Calls) /\ i \in 1 .. Len(q) /\ c \in Calls
  BY SMTT(30) DEF TypeOK
<1>2. /\ queue'[l] \in Seq(Calls) /\ Len(queue'[l]) = Len(q) - 1
      /\ \A j \in 1 .. Len(q) - 1 :
           queue'[l][j] = IF j < i THEN q[j] ELSE q[j + 1]
  <2>1. queue'[l] = RemoveAt(q, i)
    BY DEF TypeOK
  <2>2. QED BY <1>1, <2>1, RemoveAtProps
<1>3. DOMAIN queue'[l] = 1 .. Len(q) - 1 /\ Len(q) \in Nat /\ i \in Int
  BY <1>1, <1>2
<1>4. \A m \in Lanes : m # l => queue'[m] = queue[m]
  BY DEF TypeOK
<1>5. wstate'[c] = v /\ \A d \in Calls : d # c => wstate'[d] = wstate[d]
  BY <1>1 DEF TypeOK
<1>6. wstate[c] = "waiting" /\ lane[c] = l
      /\ \A j \in 1 .. Len(q) : q[j] = c => i = j
  BY <1>1 DEF QueuesOK
<1>7. ASSUME NEW m \in Lanes, NEW j \in DOMAIN queue'[m]
      PROVE  /\ wstate'[queue'[m][j]] = "waiting"
             /\ lane'[queue'[m][j]] = m
             /\ \A k \in DOMAIN queue'[m] : queue'[m][j] = queue'[m][k] => j = k
  <2>1. CASE m = l
    <3>1. PICK h \in 1 .. Len(q) : h # i /\ queue'[l][j] = q[h]
                                   /\ h = IF j < i THEN j ELSE j + 1
      <4>1. j \in 1 .. Len(q) - 1
        BY <1>3, <1>7, <2>1
      <4>2. CASE j < i
        BY <1>2, <1>3, <4>1, <4>2
      <4>3. CASE ~ (j < i)
        <5>1. j + 1 \in 1 .. Len(q) /\ j + 1 # i
          BY <1>3, <4>1, <4>3
        <5>2. QED BY <1>2, <4>1, <4>3, <5>1
      <4>4. QED BY <4>2, <4>3
    <3>2. q[h] # c /\ q[h] \in Calls /\ wstate[q[h]] = "waiting" /\ lane[q[h]] = l
      BY <1>1, <1>6, <3>1 DEF QueuesOK
    <3>3. ASSUME NEW k \in DOMAIN queue'[l], queue'[l][j] = queue'[l][k]
          PROVE  j = k
      <4>1. PICK g \in 1 .. Len(q) : queue'[l][k] = q[g]
                                     /\ g = IF k < i THEN k ELSE k + 1
        BY <1>2, <1>3, <3>3, SMTT(30)
      <4>2. h = g
        BY <1>1, <3>1, <3>3, <4>1 DEF QueuesOK
      <4>3. QED BY <1>3, <1>7, <2>1, <3>1, <3>3, <4>1, <4>2
    <3>4. QED BY <1>5, <2>1, <3>1, <3>2, <3>3
  <2>2. CASE m # l
    <3>1. queue'[m] = queue[m] /\ queue[m] \in Seq(Calls) /\ queue[m][j] \in Calls
      BY <1>4, <1>7, <2>2 DEF TypeOK
    <3>2. wstate[queue[m][j]] = "waiting" /\ lane[queue[m][j]] = m
      BY <1>7, <3>1 DEF QueuesOK
    <3>3. queue[m][j] # c
      BY <1>6, <2>2, <3>2
    <3>4. QED BY <1>5, <1>7, <3>1, <3>2, <3>3 DEF QueuesOK
  <2>3. QED BY <2>1, <2>2
<1>8. Waiting' = Waiting \ {c} /\ c \in Waiting /\ Waiting \subseteq Calls
  BY <1>1, <1>5, <1>6 DEF Waiting
<1>9. ASSUME NEW d \in Waiting'
      PROVE  \E j \in DOMAIN queue'[lane'[d]] : queue'[lane'[d]][j] = d
  <2>1. d \in Calls /\ d \in Waiting /\ d # c /\ lane[d] \in Lanes
    BY <1>8 DEF TypeOK, Waiting
  <2>2. PICK h \in DOMAIN queue[lane[d]] : queue[lane[d]][h] = d
    BY <2>1 DEF QueuesOK
  <2>3. CASE lane[d] = l
    <3>1. h \in 1 .. Len(q) /\ h # i /\ q[h] = d
      BY <1>1, <2>1, <2>2, <2>3
    <3>2. CASE h < i
      BY <1>2, <1>3, <2>3, <3>1, <3>2
    <3>3. CASE h > i
      <4>1. h - 1 \in 1 .. Len(q) - 1 /\ ~ (h - 1 < i) /\ (h - 1) + 1 = h
        BY <1>3, <1>1, <3>1, <3>3
      <4>2. queue'[l][h - 1] = d
        BY <1>2, <3>1, <4>1
      <4>3. QED BY <1>3, <2>3, <4>1, <4>2
    <3>4. QED BY <1>1, <3>1, <3>2, <3>3
  <2>4. CASE lane[d] # l
    BY <1>4, <2>1, <2>2, <2>4
  <2>5. QED BY <2>3, <2>4
<1>10. waiting' = Cardinality(Waiting')
  BY <1>8, RemoveCall DEF QueuesOK
<1>11. closed' => \A m \in Lanes : queue'[m] = <<>>
  BY <1>1 DEF QueuesOK
<1>12. queue' \in [Lanes -> Seq(Calls)] /\ waiting' \in Int
  BY <1>2, <1>4 DEF TypeOK
<1>13. QED
  BY <1>7, <1>9, <1>10, <1>11, <1>12 DEF QueuesOK

\* push_back of a fresh call keeps the queues exact.
LEMMA QueueAppend ==
  ASSUME TypeOK, QueuesOK, NEW c \in Calls, wstate[c] = "fresh", ~ closed,
         queue' = [queue EXCEPT ![lane[c]] = Append(@, c)],
         wstate' = [wstate EXCEPT ![c] = "waiting"],
         waiting' = waiting + 1, UNCHANGED <<lane, closed>>
  PROVE  QueuesOK' /\ queue' \in [Lanes -> Seq(Calls)] /\ waiting' \in Int
<1> DEFINE l == lane[c]
           q == queue[l]
<1>1. l \in Lanes /\ q \in Seq(Calls) /\ Len(q) \in Nat
  BY DEF TypeOK
<1>2. /\ queue'[l] = Append(q, c) /\ queue'[l] \in Seq(Calls)
      /\ DOMAIN queue'[l] = 1 .. Len(q) + 1
      /\ queue'[l][Len(q) + 1] = c
      /\ \A j \in 1 .. Len(q) : queue'[l][j] = q[j]
  BY <1>1 DEF TypeOK
<1>3. \A m \in Lanes : m # l => queue'[m] = queue[m]
  BY DEF TypeOK
<1>4. wstate'[c] = "waiting" /\ \A d \in Calls : d # c => wstate'[d] = wstate[d]
  BY DEF TypeOK
<1>5. \A m \in Lanes : \A j \in DOMAIN queue[m] : queue[m][j] \in Calls /\ queue[m][j] # c
  BY DEF TypeOK, QueuesOK
<1>6. ASSUME NEW m \in Lanes, NEW j \in DOMAIN queue'[m]
      PROVE  /\ wstate'[queue'[m][j]] = "waiting"
             /\ lane'[queue'[m][j]] = m
             /\ \A k \in DOMAIN queue'[m] : queue'[m][j] = queue'[m][k] => j = k
  <2>1. CASE m = l /\ j = Len(q) + 1
    BY <1>1, <1>2, <1>4, <1>5, <2>1
  <2>2. CASE m = l /\ j # Len(q) + 1
    <3>1. j \in DOMAIN q /\ queue'[m][j] = q[j]
      BY <1>1, <1>2, <1>6, <2>2
    <3>2. QED BY <1>1, <1>2, <1>4, <1>5, <2>2, <3>1 DEF QueuesOK
  <2>3. CASE m # l
    BY <1>3, <1>4, <1>5, <1>6, <2>3 DEF QueuesOK
  <2>4. QED BY <2>1, <2>2, <2>3
<1>7. Waiting' = Waiting \cup {c} /\ c \notin Waiting /\ Waiting \subseteq Calls
  BY <1>4 DEF Waiting
<1>8. ASSUME NEW d \in Waiting'
      PROVE  \E j \in DOMAIN queue'[lane'[d]] : queue'[lane'[d]][j] = d
  <2>1. CASE d = c
    BY <1>1, <1>2, <2>1
  <2>2. CASE d # c
    <3>1. d \in Waiting /\ lane[d] \in Lanes
      BY <1>7, <2>2 DEF TypeOK, Waiting
    <3>2. PICK h \in DOMAIN queue[lane[d]] : queue[lane[d]][h] = d
      BY <3>1 DEF QueuesOK
    <3>3. CASE lane[d] = l
      <4>1. h \in 1 .. Len(q) /\ q[h] = d
        BY <1>1, <3>2, <3>3
      <4>2. h \in DOMAIN queue'[l] /\ queue'[l][h] = d
        BY <1>1, <1>2, <4>1
      <4>3. QED BY <3>3, <4>2
    <3>4. CASE lane[d] # l
      BY <1>3, <3>1, <3>2, <3>4
    <3>5. QED BY <3>3, <3>4
  <2>3. QED BY <2>1, <2>2
<1>9. waiting' = Cardinality(Waiting')
  BY <1>7, AddCall DEF QueuesOK
<1>10. queue' \in [Lanes -> Seq(Calls)] /\ waiting' \in Int
  BY <1>2, <1>3 DEF TypeOK
<1>11. QED
  BY <1>6, <1>8, <1>9, <1>10 DEF QueuesOK

\* A step that queues and unqueues nobody leaves the queues exact.
LEMMA SameQueues ==
  ASSUME QueuesOK, TypeOK, Waiting' = Waiting,
         \A c \in Waiting : lane'[c] = lane[c],
         UNCHANGED <<queue, waiting, closed>>
  PROVE  QueuesOK'
<1>1. \A l \in Lanes : \A i \in DOMAIN queue[l] : queue[l][i] \in Calls
  BY DEF TypeOK
<1>2. \A l \in Lanes : \A i \in DOMAIN queue[l] : queue[l][i] \in Waiting
  BY <1>1 DEF QueuesOK, Waiting
<1>3. \A c \in Waiting : wstate'[c] = "waiting" /\ lane'[c] = lane[c]
  BY DEF Waiting
<1>4. QED
  BY <1>2, <1>3 DEF QueuesOK

\* After a direct grant there is still no waiter a permit could serve.
LEMMA GrantLeavesNoneReady ==
  ASSUME TypeOK, NEW c \in Calls, Grant(c),
         \A l \in Lanes : \A i \in DOMAIN queue[l] : ~ Ready(l, i),
         UNCHANGED <<queue, laneLimit, resource>>
  PROVE  NoIdlePermit'
<1>1. ASSUME NEW l \in Lanes, NEW r \in Resources \cup {NoResource}, CanGrant(l, r)'
      PROVE  CanGrant(l, r)
  <2>1. active < ActiveLimit
    BY <1>1, LimitsAssumption DEF CanGrant, Grant, TypeOK
  <2>2. laneActive[l] < laneLimit[l]
    BY <1>1, LimitsAssumption DEF CanGrant, Grant, TypeOK
  <2>3. r # NoResource => resourceActive[r] < ResourceLimit
    BY <1>1, LimitsAssumption DEF CanGrant, Grant, TypeOK
  <2>4. r # NoResource /\ LaneCapped => laneResourceActive[l][r] < LaneResourceLimit
    <3> SUFFICES ASSUME r \in Resources, LaneCapped, r # NoResource
                 PROVE  laneResourceActive[l][r] < LaneResourceLimit
      OBVIOUS
    <3>1. laneResourceActive'[l][r] < LaneResourceLimit
      BY <1>1 DEF CanGrant
    <3>2. laneResourceActive'[l][r] =
            IF l = lane[c] /\ r = resource[c]
            THEN laneResourceActive[l][r] + 1 ELSE laneResourceActive[l][r]
      BY DEF Grant
    <3>3. laneResourceActive[l][r] \in Int /\ LaneResourceLimit \in Int
      BY LimitsAssumption DEF TypeOK
    <3>4. QED BY <3>1, <3>2, <3>3
  <2>5. QED BY <2>1, <2>2, <2>3, <2>4 DEF CanGrant
<1>2. ASSUME NEW l \in Lanes, NEW i \in DOMAIN queue[l] PROVE ~ Ready(l, i)'
  <2>1. resource[queue[l][i]] \in Resources \cup {NoResource}
    BY DEF TypeOK
  <2>2. QED BY <1>1, <2>1 DEF Ready
<1>3. QED
  BY <1>2 DEF NoIdlePermit

\* One turn of dispatch preserves the invariant.
LEMMA DispatchStep ==
  ASSUME BudgetInv, NEW c \in Calls, Dispatch(c)
  PROVE  BudgetInv'
<1> USE DEF BudgetInv
<1>0. PICK l \in Lanes : \E i \in DOMAIN queue[l] :
        /\ Selected(l, i)
        /\ queue' = [queue EXCEPT ![l] = RemoveAt(@, i)]
        /\ waiting' = waiting - 1
        /\ Grant(queue[l][i])
        /\ next' = IF l = N - 1 THEN 0 ELSE l + 1
  BY DEF Dispatch
<1>1. PICK i \in DOMAIN queue[l] :
        /\ Selected(l, i)
        /\ queue' = [queue EXCEPT ![l] = RemoveAt(@, i)]
        /\ waiting' = waiting - 1
        /\ Grant(queue[l][i])
        /\ next' = IF l = N - 1 THEN 0 ELSE l + 1
  BY <1>0
<1> DEFINE w == queue[l][i]
<1>2. w \in Calls /\ wstate[w] = "waiting" /\ lane[w] = l
  BY DEF TypeOK, QueuesOK
<1>3. UNCHANGED <<closed, laneLimit, lane, resource, outcome, started, counted,
                  skipped, pc>> /\ pc[c] \in Critical
  BY DEF Dispatch, callVars
<1>4. wstate' = [wstate EXCEPT ![w] = "granted"]
  BY <1>1 DEF Grant
<1>5. QueuesOK' /\ queue' \in [Lanes -> Seq(Calls)] /\ waiting' \in Int
  <2>1. "granted" # "waiting" OBVIOUS
  <2>2. QED BY <1>1, <1>3, <1>4, <2>1, QueueRemove
<1>6. next' \in Lanes
  BY <1>1, LimitsAssumption DEF Lanes
<1>7. TypeOK'
  BY <1>1, <1>2, <1>3, <1>5, <1>6, GrantTypes DEF TypeOK
<1>8. CountersOK'
  BY <1>1, <1>2, <1>3, GrantCounts
<1>9. CountsCapped'
  BY <1>1, <1>2, <1>3, GrantCapped DEF Selected, Ready
<1>10. PhasesOK'
  BY <1>2, <1>3, <1>4 DEF PhasesOK, TypeOK
<1>11. MutexOK'
  BY <1>3 DEF MutexOK
<1>12. TalliesOK'
  BY <1>2, <1>3, <1>4 DEF TalliesOK, TypeOK
<1>13. NoIdlePermit'
  BY <1>3 DEF NoIdlePermit, MutexFree
<1>14. QED
  BY <1>5, <1>7, <1>8, <1>9, <1>10, <1>11, <1>12, <1>13

\* A call's own step that touches neither the shared state nor its tally.
LEMMA QuietStep ==
  ASSUME BudgetInv, NEW c \in Calls, NEW to \in PCs,
         UNCHANGED stateVars, UNCHANGED <<lane, resource, started, counted, skipped>>,
         pc' = [pc EXCEPT ![c] = to],
         outcome' \in [Calls -> Outcomes \cup {"none"}],
         to \notin Critical,
         PhasesOK', TalliesOK', pc[c] \in Critical => DispatchDone
  PROVE  BudgetInv'
<1> USE DEF BudgetInv
<1>1. TypeOK'
  BY DEF TypeOK, stateVars
<1>2. Granted' = Granted /\ Waiting' = Waiting
  BY DEF Granted, Waiting, stateVars
<1>3. CountersOK'
  BY <1>2, SameGrantsCounts DEF stateVars
<1>4. CountsCapped'
  BY DEF CountsCapped, stateVars
<1>5. QueuesOK'
  BY <1>2, SameQueues DEF stateVars
<1>6. MutexOK'
  BY DEF MutexOK, TypeOK
<1>7. NoIdlePermit'
  <2>1. \A l \in Lanes : \A i \in DOMAIN queue[l] : Ready(l, i)' = Ready(l, i)
    BY DEF Ready, CanGrant, stateVars
  <2>2. MutexFree' => MutexFree \/ pc[c] \in Critical
    BY DEF MutexFree, TypeOK
  <2>3. QED
    BY <2>1, <2>2 DEF NoIdlePermit, DispatchDone, stateVars
<1>8. QED
  BY <1>1, <1>3, <1>4, <1>5, <1>6, <1>7

\* The steps that only move a call along.
LEMMA QuietSteps ==
  ASSUME BudgetInv, NEW c \in Calls,
         \/ UnknownLane(c) \/ AcquireEnqueued(c) \/ Dropped(c) \/ ObserveGrant(c)
         \/ ObserveDeadline(c) \/ ObserveClosed(c) \/ Cancel(c)
         \/ \E o \in FinishOutcomes : Finish(c, o)
  PROVE  BudgetInv'
<1> USE DEF BudgetInv
<1>1. CASE UnknownLane(c)
  <2>1. PhasesOK' /\ TalliesOK'
    BY <1>1 DEF UnknownLane, PhasesOK, TalliesOK, TypeOK, stateVars
  <2>2. QED
    BY <1>1, <2>1, QuietStep DEF UnknownLane, Critical, PCs, TypeOK
<1>2. CASE AcquireEnqueued(c)
  <2>1. PhasesOK' /\ TalliesOK'
    BY <1>2 DEF AcquireEnqueued, PhasesOK, TalliesOK, TypeOK, stateVars
  <2>2. QED
    BY <1>2, <2>1, QuietStep DEF AcquireEnqueued, Critical, PCs, TypeOK
<1>3. CASE Dropped(c)
  <2>1. PhasesOK' /\ TalliesOK'
    BY <1>3 DEF Dropped, PhasesOK, TalliesOK, TypeOK, stateVars
  <2>2. QED
    BY <1>3, <2>1, QuietStep DEF Dropped, Critical, PCs, TypeOK
<1>4. CASE ObserveGrant(c)
  <2>1. PhasesOK' /\ TalliesOK'
    BY <1>4 DEF ObserveGrant, PhasesOK, TalliesOK, TypeOK, stateVars
  <2>2. QED
    BY <1>4, <2>1, QuietStep DEF ObserveGrant, Critical, PCs, TypeOK
<1>5. CASE ObserveDeadline(c)
  <2>1. PhasesOK' /\ TalliesOK'
    BY <1>5 DEF ObserveDeadline, PhasesOK, TalliesOK, TypeOK, stateVars
  <2>2. QED
    BY <1>5, <2>1, QuietStep DEF ObserveDeadline, Critical, PCs, TypeOK, Outcomes
<1>6. CASE ObserveClosed(c)
  <2>1. PhasesOK' /\ TalliesOK'
    BY <1>6 DEF ObserveClosed, PhasesOK, TalliesOK, TypeOK, stateVars
  <2>2. QED
    BY <1>6, <2>1, QuietStep DEF ObserveClosed, Critical, PCs, TypeOK, Outcomes
<1>7. CASE Cancel(c)
  <2>1. PhasesOK' /\ TalliesOK'
    BY <1>7 DEF Cancel, PhasesOK, TalliesOK, TypeOK, stateVars
  <2>2. QED
    BY <1>7, <2>1, QuietStep DEF Cancel, Critical, PCs, TypeOK
<1>8. ASSUME NEW o \in FinishOutcomes, Finish(c, o)
      PROVE  BudgetInv'
  <2>1. PhasesOK' /\ TalliesOK'
    BY <1>8 DEF Finish, PhasesOK, TalliesOK, TypeOK, stateVars
  <2>2. QED
    BY <1>8, <2>1, QuietStep DEF Finish, Critical, PCs, TypeOK, Outcomes
<1>9. QED
  BY <1>1, <1>2, <1>3, <1>4, <1>5, <1>6, <1>7, <1>8

\* count() keeps the type of the tallies and adds one to the call's.
LEMMA CountOne ==
  ASSUME TypeOK, NEW c \in Calls, NEW o \in Outcomes,
         counted' = [counted EXCEPT ![c] = Append(@, o)]
  PROVE  /\ counted' \in [Calls -> Seq(Outcomes)]
         /\ Len(counted'[c]) = Len(counted[c]) + 1
         /\ \A d \in Calls : d # c => counted'[d] = counted[d]
<1>1. counted[c] \in Seq(Outcomes) /\ Append(counted[c], o) \in Seq(Outcomes)
      /\ Len(Append(counted[c], o)) = Len(counted[c]) + 1
  BY AppendProperties DEF TypeOK
<1>2. QED
  BY <1>1 DEF TypeOK

\* The arrival of a call, at acquire_for or at try_acquire_for.
LEMMA EnterSteps ==
  ASSUME BudgetInv, NEW c \in Calls, NEW l \in Lanes,
         NEW r \in Resources \cup {NoResource},
         AcquireEnter(c, l, r) \/ TryEnter(c, l, r)
  PROVE  BudgetInv'
<1> USE DEF BudgetInv
<1>1. /\ pc[c] = "idle" /\ MutexFree /\ wstate[c] = "fresh" /\ c \notin started
      /\ counted[c] = <<>>
  <2>1. pc[c] = "idle" /\ MutexFree
    BY DEF AcquireEnter, TryEnter
  <2>2. wstate[c] = "fresh" /\ c \notin started
    BY <2>1 DEF PhasesOK
  <2>3. Len(counted[c]) = 0 /\ counted[c] \in Seq(Outcomes)
    BY <2>2 DEF TalliesOK, TypeOK
  <2>4. QED
    BY <2>1, <2>2, <2>3, EmptySeq
<1>2. /\ UNCHANGED stateVars /\ UNCHANGED <<outcome, skipped>>
      /\ lane' = [lane EXCEPT ![c] = l] /\ resource' = [resource EXCEPT ![c] = r]
  BY DEF AcquireEnter, TryEnter
<1>3. \/ /\ pc' = [pc EXCEPT ![c] = "over"] /\ started' = started \cup {c}
         /\ \E o \in Outcomes : counted' = [counted EXCEPT ![c] = Append(@, o)]
      \/ /\ pc' = [pc EXCEPT ![c] = "acquiring"] /\ started' = started \cup {c}
         /\ UNCHANGED counted /\ ~ closed
      \/ /\ pc' = [pc EXCEPT ![c] = "trying"] /\ UNCHANGED <<counted, started>>
  <2>1. "Shutdown" \in Outcomes /\ "Late" \in Outcomes
    BY DEF Outcomes
  <2>2. CASE AcquireEnter(c, l, r)
    BY <2>1, <2>2 DEF AcquireEnter, Count
  <2>3. CASE TryEnter(c, l, r)
    BY <2>3 DEF TryEnter
  <2>4. QED BY <2>2, <2>3
<1>4. counted' \in [Calls -> Seq(Outcomes)]
  <2>1. UNCHANGED counted => counted' \in [Calls -> Seq(Outcomes)]
    BY DEF TypeOK
  <2>2. QED BY <1>3, <2>1, CountOne
<1>5. TypeOK'
  BY <1>2, <1>3, <1>4 DEF TypeOK, stateVars, PCs, Critical
<1>6. Granted' = Granted /\ Waiting' = Waiting /\ c \notin Granted /\ c \notin Waiting
  BY <1>1, <1>2 DEF Granted, Waiting, stateVars
<1>7. \A d \in Granted \cup Waiting : lane'[d] = lane[d] /\ resource'[d] = resource[d]
  BY <1>2, <1>6 DEF TypeOK, Granted, Waiting
<1>8. CountersOK'
  BY <1>2, <1>6, <1>7, SameGrantsCounts DEF stateVars
<1>9. CountsCapped'
  BY <1>2 DEF CountsCapped, stateVars
<1>10. QueuesOK'
  BY <1>2, <1>6, <1>7, SameQueues DEF stateVars
<1>11. MutexOK'
  BY <1>1, <1>3 DEF MutexOK, MutexFree, TypeOK
<1>12. PhasesOK'
  BY <1>1, <1>2, <1>3, SMTT(30) DEF PhasesOK, TypeOK, stateVars
<1>13. TalliesOK'
  <2>1. \A d \in Calls : d # c => counted'[d] = counted[d] /\ pc'[d] = pc[d]
                                  /\ (d \in started' <=> d \in started)
    BY <1>3 DEF TypeOK
  <2>2. CASE pc' = [pc EXCEPT ![c] = "over"] /\ started' = started \cup {c}
             /\ \E o \in Outcomes : counted' = [counted EXCEPT ![c] = Append(@, o)]
    <3>1. PICK o \in Outcomes : counted'[c] = Append(<<>>, o)
      BY <1>1, <2>2 DEF TypeOK
    <3>2. Len(counted'[c]) = 1
      BY <3>1
    <3>3. pc'[c] = "over" /\ c \in started'
      BY <2>2 DEF TypeOK
    <3>4. QED BY <1>2, <2>1, <3>2, <3>3 DEF TalliesOK, stateVars
  <2>3. CASE pc' = [pc EXCEPT ![c] = "acquiring"] /\ UNCHANGED counted
    BY <1>1, <1>2, <1>3, <2>1, <2>3 DEF TalliesOK, TypeOK, stateVars
  <2>4. CASE pc' = [pc EXCEPT ![c] = "trying"] /\ UNCHANGED counted
    BY <1>1, <1>2, <1>3, <2>1, <2>4 DEF TalliesOK, TypeOK, stateVars
  <2>5. QED BY <1>3, <2>2, <2>3, <2>4
<1>14. NoIdlePermit'
  <2>1. CASE MutexFree'
    <3>1. \A m \in Lanes : \A i \in DOMAIN queue[m] : queue[m][i] \in Waiting
      BY DEF QueuesOK, TypeOK, Waiting
    <3>2. \A m \in Lanes : \A i \in DOMAIN queue[m] : Ready(m, i)' = Ready(m, i)
      BY <1>2, <1>7, <3>1 DEF Ready, CanGrant, stateVars
    <3>3. QED BY <1>1, <1>2, <3>2 DEF NoIdlePermit, stateVars
  <2>2. CASE ~ MutexFree'
    BY <2>2 DEF NoIdlePermit
  <2>3. QED BY <2>1, <2>2
<1>15. QED
  BY <1>5, <1>8, <1>9, <1>10, <1>11, <1>12, <1>13, <1>14

\* The decision of acquire_for after its first dispatch.
LEMMA DecideStep ==
  ASSUME BudgetInv, NEW c \in Calls, AcquireDecide(c)
  PROVE  BudgetInv'
<1> USE DEF BudgetInv
<1>1. /\ pc[c] = "acquiring" /\ DispatchDone /\ wstate[c] = "fresh"
      /\ lane[c] \in Lanes /\ Len(counted[c]) = 0
  <2>1. pc[c] = "acquiring" /\ DispatchDone
    BY DEF AcquireDecide
  <2>2. wstate[c] = "fresh" /\ lane[c] \in Lanes
    BY <2>1 DEF PhasesOK, TypeOK
  <2>3. Len(counted[c]) = 0
    BY <2>1, <2>2 DEF TalliesOK
  <2>4. QED BY <2>1, <2>2, <2>3
<1>2. UNCHANGED <<next, closed, laneLimit, lane, resource, outcome, started, skipped>>
  BY DEF AcquireDecide
<1>3. c \in started /\ ~ closed
  BY <1>1 DEF PhasesOK
<1>4. \A l \in Lanes : \A i \in DOMAIN queue[l] : ~ Ready(l, i)
  BY <1>1, <1>3 DEF DispatchDone
<1>5. CASE /\ CanGrant(lane[c], resource[c]) /\ Grant(c)
           /\ pc' = [pc EXCEPT ![c] = "awaiting"]
           /\ UNCHANGED <<queue, waiting, counted>>
  <2>1. TypeOK'
    BY <1>2, <1>5, GrantTypes DEF TypeOK, PCs
  <2>2. CountersOK' /\ CountsCapped'
    BY <1>1, <1>2, <1>5, GrantCounts, GrantCapped
  <2>3. Waiting' = Waiting
    BY <1>1, <1>5 DEF Waiting, Grant, TypeOK
  <2>4. QueuesOK'
    BY <1>2, <1>5, <2>3, SameQueues
  <2>5. PhasesOK'
    BY <1>1, <1>2, <1>3, <1>5 DEF PhasesOK, Grant, TypeOK
  <2>6. MutexOK'
    BY <1>5 DEF MutexOK, TypeOK, Critical
  <2>7. TalliesOK'
    BY <1>1, <1>2, <1>5 DEF TalliesOK, Grant, TypeOK
  <2>8. NoIdlePermit'
    BY <1>2, <1>4, <1>5, GrantLeavesNoneReady
  <2>9. QED BY <2>1, <2>2, <2>4, <2>5, <2>6, <2>7, <2>8
<1>6. CASE /\ Count(c, "Overloaded")
           /\ pc' = [pc EXCEPT ![c] = "over"]
           /\ UNCHANGED <<queue, waiting, active, laneActive, resourceActive,
                          laneResourceActive, wstate>>
  <2>0. "Overloaded" \in Outcomes
    BY DEF Outcomes
  <2>1. /\ counted' \in [Calls -> Seq(Outcomes)]
        /\ Len(counted'[c]) = 1
        /\ \A d \in Calls : d # c => counted'[d] = counted[d]
    <3>1. counted' = [counted EXCEPT ![c] = Append(@, "Overloaded")]
      BY <1>6 DEF Count
    <3>2. Len(counted'[c]) = Len(counted[c]) + 1
      BY <2>0, <3>1, CountOne
    <3>3. Len(counted'[c]) = 1
      BY <1>1, <3>2
    <3>4. QED BY <2>0, <3>1, <3>3, CountOne
  <2>2. TypeOK'
    BY <1>2, <1>6, <2>1 DEF TypeOK, PCs
  <2>3. Granted' = Granted /\ Waiting' = Waiting
    BY <1>6 DEF Granted, Waiting
  <2>4. CountersOK' /\ CountsCapped'
    BY <1>2, <1>6, <2>3, SameGrantsCounts DEF CountsCapped
  <2>5. QueuesOK'
    BY <1>2, <1>6, <2>3, SameQueues
  <2>6. PhasesOK'
    BY <1>1, <1>2, <1>6 DEF PhasesOK, TypeOK
  <2>7. MutexOK'
    BY <1>6 DEF MutexOK, TypeOK, Critical
  <2>8. TalliesOK'
    <3>1. pc'[c] = "over" /\ \A d \in Calls : d # c => pc'[d] = pc[d]
      BY <1>6 DEF TypeOK
    <3>2. QED BY <1>2, <1>3, <1>6, <2>1, <3>1 DEF TalliesOK
  <2>9. NoIdlePermit'
    BY <1>2, <1>4, <1>6 DEF NoIdlePermit, Ready, CanGrant
  <2>10. QED BY <2>2, <2>4, <2>5, <2>6, <2>7, <2>8, <2>9
<1>7. CASE /\ queue' = [queue EXCEPT ![lane[c]] = Append(@, c)]
           /\ waiting' = waiting + 1
           /\ wstate' = [wstate EXCEPT ![c] = "waiting"]
           /\ pc' = [pc EXCEPT ![c] = "queued"]
           /\ UNCHANGED <<active, laneActive, resourceActive,
                          laneResourceActive, counted>>
  <2>1. QueuesOK' /\ queue' \in [Lanes -> Seq(Calls)] /\ waiting' \in Int
    BY <1>1, <1>2, <1>3, <1>7, QueueAppend
  <2>2. TypeOK'
    BY <1>2, <1>7, <2>1 DEF TypeOK, PCs, Critical
  <2>3. Granted' = Granted
    BY <1>1, <1>7 DEF Granted, TypeOK
  <2>4. CountersOK' /\ CountsCapped'
    BY <1>2, <1>7, <2>3, SameGrantsCounts DEF CountsCapped
  <2>5. PhasesOK'
    BY <1>1, <1>2, <1>3, <1>7 DEF PhasesOK, TypeOK
  <2>6. MutexOK'
    BY <1>1, <1>7 DEF MutexOK, TypeOK, Critical
  <2>7. TalliesOK'
    BY <1>1, <1>2, <1>7 DEF TalliesOK, TypeOK
  <2>8. pc'[c] \in Critical
    BY <1>7 DEF TypeOK, Critical
  <2>9. NoIdlePermit'
    BY <2>8 DEF NoIdlePermit, MutexFree
  <2>10. QED BY <2>1, <2>2, <2>4, <2>5, <2>6, <2>7, <2>9
<1>8. QED
  BY <1>5, <1>6, <1>7 DEF AcquireDecide

\* The decision of try_acquire_for.
LEMMA TryStep ==
  ASSUME BudgetInv, NEW c \in Calls, TryDecide(c)
  PROVE  BudgetInv'
<1> USE DEF BudgetInv
<1>1. /\ pc[c] = "trying" /\ DispatchDone /\ wstate[c] = "fresh"
      /\ c \notin started /\ lane[c] \in Lanes
  BY DEF TryDecide, PhasesOK, TypeOK
<1>2. UNCHANGED <<waiting, next, closed, laneLimit, queue, lane, resource,
                  outcome, counted>>
  BY DEF TryDecide
<1>3. CASE /\ skipped' = skipped \cup {c}
           /\ pc' = [pc EXCEPT ![c] = "over"]
           /\ UNCHANGED <<active, laneActive, resourceActive,
                          laneResourceActive, wstate, started>>
  <2>1. TypeOK'
    BY <1>2, <1>3 DEF TypeOK, PCs
  <2>2. Granted' = Granted /\ Waiting' = Waiting
    BY <1>3 DEF Granted, Waiting
  <2>3. CountersOK' /\ CountsCapped' /\ QueuesOK'
    BY <1>2, <1>3, <2>2, SameGrantsCounts, SameQueues DEF CountsCapped
  <2>4. PhasesOK' /\ TalliesOK'
    BY <1>1, <1>2, <1>3 DEF PhasesOK, TalliesOK, TypeOK
  <2>5. MutexOK'
    BY <1>3 DEF MutexOK, TypeOK, Critical
  <2>6. NoIdlePermit'
    BY <1>1, <1>2, <1>3 DEF NoIdlePermit, DispatchDone, Ready, CanGrant
  <2>7. QED BY <2>1, <2>3, <2>4, <2>5, <2>6
<1>4. CASE /\ ~ closed /\ CanGrant(lane[c], resource[c])
           /\ started' = started \cup {c}
           /\ Grant(c)
           /\ pc' = [pc EXCEPT ![c] = "holding"]
           /\ UNCHANGED skipped
  <2>1. TypeOK'
    BY <1>2, <1>4, GrantTypes DEF TypeOK, PCs
  <2>2. CountersOK' /\ CountsCapped'
    BY <1>1, <1>2, <1>4, GrantCounts, GrantCapped
  <2>3. Waiting' = Waiting
    BY <1>1, <1>4 DEF Waiting, Grant, TypeOK
  <2>4. QueuesOK'
    BY <1>2, <2>3, SameQueues
  <2>5. PhasesOK' /\ TalliesOK'
    BY <1>1, <1>2, <1>4 DEF PhasesOK, TalliesOK, Grant, TypeOK
  <2>6. MutexOK'
    BY <1>4 DEF MutexOK, TypeOK, Critical
  <2>7. NoIdlePermit'
    BY <1>1, <1>2, <1>4, GrantLeavesNoneReady DEF DispatchDone
  <2>8. QED BY <2>1, <2>2, <2>4, <2>5, <2>6, <2>7
<1>5. QED
  BY <1>3, <1>4 DEF TryDecide

\* close empties the queues, tells every waiter and counts it.
LEMMA CloseStep ==
  ASSUME BudgetInv, Close
  PROVE  BudgetInv'
<1> USE DEF BudgetInv
<1> DEFINE gone == UNION {Range(queue[l]) : l \in Lanes}
<1>1. gone = Waiting
  <2>1. ASSUME NEW c \in gone PROVE c \in Waiting
    <3>1. PICK l \in Lanes : c \in Range(queue[l])
      OBVIOUS
    <3>2. PICK i \in DOMAIN queue[l] : c = queue[l][i]
      BY <3>1 DEF Range
    <3>3. QED BY <3>2 DEF QueuesOK, TypeOK, Waiting
  <2>2. ASSUME NEW c \in Waiting PROVE c \in gone
    <3>1. lane[c] \in Lanes
      BY DEF Waiting, TypeOK
    <3>2. PICK i \in DOMAIN queue[lane[c]] : queue[lane[c]][i] = c
      BY DEF QueuesOK
    <3>3. c \in Range(queue[lane[c]])
      BY <3>2 DEF Range
    <3>4. QED BY <3>1, <3>3
  <2>3. QED BY <2>1, <2>2
<1> HIDE DEF gone
<1>2. /\ MutexFree /\ closed' = TRUE
      /\ wstate' = [c \in Calls |-> IF c \in Waiting THEN "closed" ELSE wstate[c]]
      /\ counted' = [c \in Calls |-> IF c \in Waiting
                       THEN Append(counted[c], "Shutdown") ELSE counted[c]]
      /\ queue' = [l \in Lanes |-> <<>>] /\ waiting' = 0
      /\ UNCHANGED <<active, next, laneActive, laneLimit, resourceActive,
                     laneResourceActive, lane, resource, outcome, started,
                     skipped, pc>>
  BY <1>1 DEF Close, gone
<1>3. ASSUME NEW c \in Calls
      PROVE  /\ counted'[c] \in Seq(Outcomes)
             /\ Len(counted'[c]) = IF c \in Waiting THEN Len(counted[c]) + 1
                                                    ELSE Len(counted[c])
  <2>1. "Shutdown" \in Outcomes /\ counted[c] \in Seq(Outcomes)
    BY DEF Outcomes, TypeOK
  <2>2. QED BY <1>2, <2>1, AppendProperties
<1>4. TypeOK'
  BY <1>2, <1>3 DEF TypeOK
<1>5. Granted' = Granted /\ Waiting' = {}
  BY <1>2 DEF Granted, Waiting
<1>6. CountersOK' /\ CountsCapped'
  BY <1>2, <1>5, SameGrantsCounts DEF CountsCapped
<1>7. QueuesOK'
  BY <1>2, <1>5, FS_EmptySet DEF QueuesOK
<1>8. PhasesOK'
  BY <1>2 DEF PhasesOK, TypeOK, Waiting, MutexFree, Critical
<1>9. MutexOK'
  BY <1>2 DEF MutexOK
<1>10. TalliesOK'
  <2> SUFFICES ASSUME NEW c \in Calls
               PROVE  Len(counted'[c]) =
                        IF c \in started /\ (pc[c] \in {"over", "releasing"}
                                             \/ wstate'[c] = "closed")
                        THEN 1 ELSE 0
    BY <1>2 DEF TalliesOK
  <2>1. CASE c \in Waiting
    <3>1. c \in started /\ wstate[c] = "waiting" /\ pc[c] \notin {"over", "releasing"}
      BY <2>1 DEF PhasesOK, Waiting, TypeOK
    <3>2. Len(counted[c]) = 0
      BY <3>1 DEF TalliesOK
    <3>3. QED BY <1>2, <1>3, <2>1, <3>1, <3>2
  <2>2. CASE c \notin Waiting
    BY <1>2, <1>3, <2>2 DEF TalliesOK
  <2>3. QED BY <2>1, <2>2
<1>11. NoIdlePermit'
  BY <1>2 DEF NoIdlePermit
<1>12. QED
  BY <1>4, <1>6, <1>7, <1>8, <1>9, <1>10, <1>11

\* cap_lane acts before any permit is out.
LEMMA CapLaneStep ==
  ASSUME BudgetInv, NEW l \in Lanes, NEW k \in 1 .. PerLane, CapLane(l, k)
  PROVE  BudgetInv'
<1> USE DEF BudgetInv
<1>1. /\ laneLimit' = [laneLimit EXCEPT ![l] = k] /\ started = {}
      /\ UNCHANGED <<active, waiting, next, closed, laneActive, queue,
                     resourceActive, laneResourceActive, wstate>>
      /\ UNCHANGED <<lane, resource, outcome, started, counted, skipped, pc>>
  BY DEF CapLane, callVars
<1>2. Granted = {} /\ Waiting = {}
  BY <1>1 DEF PhasesOK, Granted, Waiting
<1>3. TypeOK'
  BY <1>1 DEF TypeOK
<1>4. Granted' = Granted /\ Waiting' = Waiting
  BY <1>1 DEF Granted, Waiting
<1>5. CountersOK' /\ QueuesOK'
  BY <1>1, <1>4, SameGrantsCounts, SameQueues
<1>6. ASSUME NEW m \in Lanes PROVE laneActive'[m] <= laneLimit'[m]
  <2>1. Granted \cap OfLane(m) = {}
    BY <1>2
  <2>2. laneActive[m] = 0
    BY <2>1, FS_EmptySet DEF CountersOK
  <2>3. laneLimit'[m] \in 1 .. PerLane
    BY <1>3 DEF TypeOK
  <2>4. QED BY <1>1, <2>2, <2>3, LimitsAssumption
<1>7. CountsCapped'
  BY <1>1, <1>6 DEF CountsCapped
<1>8. PhasesOK' /\ MutexOK' /\ TalliesOK'
  BY <1>1 DEF PhasesOK, MutexOK, TalliesOK
<1>9. \A m \in Lanes : DOMAIN queue[m] = {}
  BY <1>2 DEF QueuesOK, TypeOK, Waiting
<1>10. NoIdlePermit'
  BY <1>1, <1>9 DEF NoIdlePermit
<1>11. QED
  BY <1>3, <1>5, <1>7, <1>8, <1>10

\* Registration::drop, whatever state the waiter was in.
LEMMA DropStep ==
  ASSUME BudgetInv, NEW c \in Calls, Drop(c)
  PROVE  BudgetInv'
<1> USE DEF BudgetInv
<1>1. /\ pc[c] = "leaving" /\ MutexFree
      /\ wstate[c] \in {"waiting", "granted", "closed"} /\ c \in started
      /\ lane[c] \in Lanes
  BY DEF Drop, PhasesOK, TypeOK
<1>2. /\ wstate' = [wstate EXCEPT ![c] = "dropped"]
      /\ pc' = [pc EXCEPT ![c] = "releasing"]
      /\ outcome' = [outcome EXCEPT ![c] = "none"]
      /\ UNCHANGED <<next, closed, laneLimit, lane, resource, started, skipped>>
  BY DEF Drop
<1>3. /\ counted' \in [Calls -> Seq(Outcomes)]
      /\ Len(counted'[c]) = 1
      /\ \A d \in Calls : d # c => counted'[d] = counted[d]
  <2>1. CASE wstate[c] = "closed" /\ UNCHANGED counted
    BY <1>1, <2>1 DEF TalliesOK, TypeOK
  <2>2. CASE wstate[c] # "closed"
             /\ Count(c, IF outcome[c] = "none" THEN "Dropped" ELSE outcome[c])
    <3>1. (IF outcome[c] = "none" THEN "Dropped" ELSE outcome[c]) \in Outcomes
      BY DEF TypeOK, Outcomes
    <3>2. Len(counted[c]) = 0
      BY <1>1, <2>2 DEF TalliesOK
    <3> DEFINE o == IF outcome[c] = "none" THEN "Dropped" ELSE outcome[c]
    <3>3. counted' = [counted EXCEPT ![c] = Append(@, o)]
      BY <2>2 DEF Count
    <3>4. o \in Outcomes
      BY <3>1
    <3> HIDE DEF o
    <3>5. Len(counted'[c]) = Len(counted[c]) + 1
      BY <3>3, <3>4, CountOne
    <3>6. Len(counted'[c]) = 1
      BY <3>2, <3>5
    <3>7. QED BY <3>3, <3>4, <3>6, CountOne
  <2>3. QED BY <2>1, <2>2 DEF Drop
<1>8. PhasesOK'
  BY <1>1, <1>2 DEF PhasesOK, TypeOK
<1>9. pc'[c] = "releasing" /\ \A d \in Calls : d # c =>
        pc'[d] = pc[d] /\ pc[d] \notin Critical /\ wstate'[d] = wstate[d]
  BY <1>1, <1>2 DEF TypeOK, MutexFree
<1>10. MutexOK'
  BY <1>9 DEF MutexOK
<1>11. TalliesOK'
  BY <1>1, <1>2, <1>3, <1>9 DEF TalliesOK
<1>12. NoIdlePermit'
  BY <1>9 DEF NoIdlePermit, MutexFree, Critical
<1>4. CASE wstate[c] = "waiting"
  <2>1. PICK i \in DOMAIN queue[lane[c]] :
          /\ queue[lane[c]][i] = c
          /\ queue' = [queue EXCEPT ![lane[c]] = RemoveAt(@, i)]
    BY <1>4 DEF Drop
  <2>2. waiting' = waiting - 1
        /\ UNCHANGED <<active, laneActive, resourceActive, laneResourceActive>>
    BY <1>4 DEF Drop
  <2>3. "dropped" # "waiting"
    OBVIOUS
  <2>4. QueuesOK' /\ queue' \in [Lanes -> Seq(Calls)] /\ waiting' \in Int
    BY <1>1, <1>2, <2>1, <2>2, <2>3, QueueRemove
  <2>5. Granted' = Granted
    BY <1>2, <1>4 DEF Granted, TypeOK
  <2>6. CountersOK' /\ CountsCapped'
    BY <1>2, <2>2, <2>5, SameGrantsCounts DEF CountsCapped
  <2>7. TypeOK'
    BY <1>2, <1>3, <2>2, <2>4 DEF TypeOK, PCs, Critical
  <2>8. QED BY <2>4, <2>6, <2>7, <1>8, <1>10, <1>11, <1>12
<1>5. CASE wstate[c] = "granted"
  <2>1. Ungrant(c) /\ UNCHANGED <<queue, waiting>>
    BY <1>5 DEF Drop
  <2>2. CountersOK' /\ CountsCapped'
    BY <1>2, <1>5, <2>1, UngrantCounts, UngrantCapped
  <2>3. Waiting' = Waiting
    BY <1>2, <1>5 DEF Waiting, TypeOK
  <2>4. QueuesOK'
    BY <1>2, <2>1, <2>3, SameQueues
  <2>5. TypeOK'
    BY <1>2, <1>3, <2>1, UngrantTypes DEF TypeOK, PCs, Critical
  <2>6. QED BY <2>2, <2>4, <2>5, <1>8, <1>10, <1>11, <1>12
<1>6. CASE wstate[c] = "closed"
  <2>1. UNCHANGED <<queue, waiting, active, laneActive, resourceActive,
                    laneResourceActive>>
    BY <1>6 DEF Drop
  <2>2. Granted' = Granted /\ Waiting' = Waiting
    BY <1>2, <1>6 DEF Granted, Waiting, TypeOK
  <2>3. CountersOK' /\ CountsCapped' /\ QueuesOK'
    BY <1>2, <2>1, <2>2, SameGrantsCounts, SameQueues DEF CountsCapped
  <2>4. TypeOK'
    BY <1>2, <1>3, <2>1 DEF TypeOK, PCs, Critical
  <2>5. QED BY <2>3, <2>4, <1>8, <1>10, <1>11, <1>12
<1>7. QED
  BY <1>1, <1>4, <1>5, <1>6

\* The budget starts in the invariant.
LEMMA InitBudgetInv == Init => BudgetInv
<1> SUFFICES ASSUME Init PROVE BudgetInv
  OBVIOUS
<1>1. TypeOK
  <2>1. 0 \in Lanes /\ PerLane \in 1 .. PerLane
    BY LimitsAssumption DEF Lanes
  <2>2. \A S : <<>> \in Seq(S)
    OBVIOUS
  <2>3. queue \in [Lanes -> Seq(Calls)] /\ counted \in [Calls -> Seq(Outcomes)]
    BY <2>2 DEF Init
  <2>4. /\ active \in Int /\ waiting \in Int /\ next \in Lanes /\ closed \in BOOLEAN
        /\ laneActive \in [Lanes -> Int] /\ laneLimit \in [Lanes -> 1 .. PerLane]
        /\ resourceActive \in [Resources -> Int]
        /\ laneResourceActive \in [Lanes -> [Resources -> Int]]
    <3>1. laneLimit \in [Lanes -> 1 .. PerLane]
      BY <2>1 DEF Init
    <3>2. laneActive \in [Lanes -> Int] /\ resourceActive \in [Resources -> Int]
      BY DEF Init
    <3>3. laneResourceActive \in [Lanes -> [Resources -> Int]]
      BY DEF Init
    <3>4. active = 0 /\ waiting = 0 /\ next = 0 /\ closed = FALSE
      BY DEF Init
    <3>5. active \in Int /\ waiting \in Int /\ next \in Lanes
      BY <2>1, <3>4
    <3>6. closed \in BOOLEAN
      BY <3>4, Zenon
    <3>7. QED BY <3>1, <3>2, <3>3, <3>5, <3>6
  <2>5. /\ wstate \in [Calls -> {"fresh", "waiting", "granted", "dropped", "closed"}]
        /\ lane \in [Calls -> Lanes]
        /\ resource \in [Calls -> Resources \cup {NoResource}]
        /\ outcome \in [Calls -> Outcomes \cup {"none"}]
        /\ started \in SUBSET Calls /\ skipped \in SUBSET Calls
        /\ pc \in [Calls -> PCs]
    BY <2>1 DEF Init, PCs
  <2>6. QED
    BY <2>3, <2>4, <2>5 DEF TypeOK
<1>2. Granted = {} /\ Waiting = {}
  BY DEF Init, Granted, Waiting
<1>3. \A X : Cardinality({} \cap X) = 0
  <2>1. \A X : {} \cap X = {}
    OBVIOUS
  <2>2. QED BY <2>1, FS_EmptySet
<1>4. CountersOK
  <2>1. \A X, Y : Cardinality({} \cap X \cap Y) = 0
    <3>1. \A X, Y : {} \cap X \cap Y = {}
      OBVIOUS
    <3>2. QED BY <3>1, FS_EmptySet
  <2>2. QED BY <1>2, <1>3, <2>1, FS_EmptySet DEF Init, CountersOK
<1>5. CountsCapped
  BY LimitsAssumption DEF Init, CountsCapped
<1>6. QueuesOK
  BY <1>2, FS_EmptySet DEF Init, QueuesOK
<1>7. PhasesOK /\ MutexOK
  BY DEF Init, PhasesOK, MutexOK, Critical
<1>8. TalliesOK
  BY DEF Init, TalliesOK
<1>9. NoIdlePermit
  BY DEF Init, NoIdlePermit
<1>10. QED
  BY <1>1, <1>4, <1>5, <1>6, <1>7, <1>8, <1>9 DEF BudgetInv

\* Every step, of any call, of close and of cap_lane, keeps the invariant.
LEMMA NextBudgetInv == BudgetInv /\ [Next]_vars => BudgetInv'
<1> SUFFICES ASSUME BudgetInv, [Next]_vars PROVE BudgetInv'
  OBVIOUS
<1>1. CASE UNCHANGED vars
  <2> USE <1>1 DEF vars, BudgetInv
  <2>1. TypeOK'
    BY DEF TypeOK
  <2>2. PhasesOK' /\ MutexOK' /\ TalliesOK' /\ CountsCapped'
    BY DEF PhasesOK, MutexOK, TalliesOK, CountsCapped
  <2>3. Granted' = Granted /\ Waiting' = Waiting
    BY DEF Granted, Waiting
  <2>4. CountersOK' /\ QueuesOK'
    BY <2>3, SameGrantsCounts, SameQueues
  <2>5. NoIdlePermit'
    BY DEF NoIdlePermit, MutexFree, Ready, CanGrant
  <2>6. QED BY <2>1, <2>2, <2>4, <2>5
<1>2. ASSUME NEW c \in Calls, CallStep(c) PROVE BudgetInv'
  BY <1>2, DispatchStep, DecideStep, TryStep, DropStep, QuietSteps DEF CallStep
<1>3. ASSUME NEW c \in Calls, ObserveDeadline(c) \/ Cancel(c) \/ UnknownLane(c)
      PROVE  BudgetInv'
  BY <1>3, QuietSteps
<1>4. ASSUME NEW c \in Calls, NEW o \in FinishOutcomes, Finish(c, o) PROVE BudgetInv'
  BY <1>4, QuietSteps
<1>5. QED
  BY <1>1, <1>2, <1>3, <1>4, EnterSteps, CapLaneStep, CloseStep DEF Next

\* The waiters, queues, counters and tallies of the budget always agree.
THEOREM BudgetInvHolds == Spec => []BudgetInv
BY InitBudgetInv, NextBudgetInv, PTL DEF Spec

\* The four caps of FairBudget bound the permits really out, for every number
\* of calls, lanes and resources and every accepted set of limits.
THEOREM CapsAlwaysHold == Spec => []CapsHold
<1>1. BudgetInv => CapsHold
  <2> SUFFICES ASSUME BudgetInv PROVE CapsHold
    OBVIOUS
  <2>1. CountersOK /\ CountsCapped
    BY DEF BudgetInv
  <2>2. QED BY <2>1 DEF CountersOK, CountsCapped, CapsHold
<1>2. QED
  BY <1>1, BudgetInvHolds, PTL

\* No queued waiter is left behind with a free permit: dispatch after every
\* release, expiry, refusal and arrival is enough.
THEOREM NoPermitIdles == Spec => []NoIdlePermit
<1>1. BudgetInv => NoIdlePermit
  BY DEF BudgetInv
<1>2. QED
  BY <1>1, BudgetInvHolds, PTL

\* Each call is counted under exactly one outcome, whatever races its end.
THEOREM EachCallCountedOnce == Spec => []CountedOnce
<1>1. BudgetInv => CountedOnce
  <2> SUFFICES ASSUME BudgetInv, NEW c \in Calls
               PROVE  /\ Len(counted[c]) <= 1
                      /\ pc[c] = "over" /\ c \in started => Len(counted[c]) = 1
                      /\ c \notin started => counted[c] = <<>>
    BY DEF CountedOnce
  <2>1. TalliesOK /\ counted[c] \in Seq(Outcomes)
    BY DEF BudgetInv, TypeOK
  <2>2. Len(counted[c]) = 0 => counted[c] = <<>>
    BY <2>1, EmptySeq
  <2>3. /\ Len(counted[c]) \in {0, 1}
        /\ pc[c] = "over" /\ c \in started => Len(counted[c]) = 1
        /\ c \notin started => Len(counted[c]) = 0
    BY <2>1 DEF TalliesOK
  <2>4. Len(counted[c]) <= 1
    <3>1. \A n : n \in {0, 1} => n <= 1
      OBVIOUS
    <3>2. QED BY <2>3, <3>1, Zenon
  <2>5. c \notin started => counted[c] = <<>>
    BY <2>2, <2>3
  <2>6. QED BY <2>3, <2>4, <2>5
<1>2. QED
  BY <1>1, BudgetInvHolds, PTL

-----------------------------------------------------------------------------
(* The refinement of Admission. *)

\* A grant the code makes is one the contract allows: what can_grant reads
\* off its counters is what Admit asks of the set of permits out.
LEMMA GrantIsAdmit ==
  ASSUME BudgetInv, NEW c \in Calls, wstate[c] # "granted", ~ closed,
         CanGrant(lane[c], resource[c]), Grant(c), UNCHANGED <<lane, resource, closed>>
  PROVE  Contract!Admit(c)
<1> USE DEF BudgetInv
<1>1. Granted' = Granted \cup {c} /\ c \notin Granted
  BY DEF Grant, Granted, TypeOK
<1>2. lane[c] \in Lanes /\ resource[c] \in Resources \cup {NoResource}
  BY DEF TypeOK
<1>3. \A l : Contract!InLane(l) = OfLane(l)
  BY DEF Contract!InLane, OfLane
<1>4. \A r : Contract!OnResource(r) = OfResource(r)
  BY DEF Contract!OnResource, OfResource
<1>0. \A S : Contract!HeldIn(S) = Cardinality(Granted \cap S)
  BY DEF Contract!HeldIn, Contract!Cardinality, Cardinality
<1>5. Contract!HeldIn(Calls) < ActiveLimit
  <2>1. Granted \cap Calls = Granted
    BY DEF Granted
  <2>2. QED BY <1>0, <2>1 DEF CountersOK, CanGrant
<1>6. Contract!HeldIn(Contract!InLane(lane[c])) < PerLane
  <2>1. laneActive[lane[c]] = Cardinality(Granted \cap OfLane(lane[c]))
    BY <1>2 DEF CountersOK
  <2>2. laneActive[lane[c]] < laneLimit[lane[c]]
    BY DEF CanGrant
  <2>3. /\ laneLimit[lane[c]] \in 1 .. PerLane /\ PerLane \in Int
        /\ laneActive[lane[c]] \in Int
    BY <1>2, LimitsAssumption DEF TypeOK
  <2>4. laneActive[lane[c]] < PerLane
    BY <2>2, <2>3
  <2>5. QED BY <1>0, <1>3, <2>1, <2>4
<1>7. ASSUME resource[c] # NoResource
      PROVE  /\ Contract!HeldIn(Contract!OnResource(resource[c])) < ResourceLimit
             /\ LaneResourceLimit # 0 =>
                  Contract!HeldIn(Contract!InLane(lane[c])
                                    \cap Contract!OnResource(resource[c]))
                    < LaneResourceLimit
  <2>1. resource[c] \in Resources
    BY <1>2, <1>7
  <2>2. Contract!HeldIn(Contract!OnResource(resource[c])) < ResourceLimit
    BY <1>0, <1>4, <1>7, <2>1 DEF CountersOK, CanGrant
  <2>3. ASSUME LaneResourceLimit # 0
        PROVE  Contract!HeldIn(Contract!InLane(lane[c])
                 \cap Contract!OnResource(resource[c])) < LaneResourceLimit
    <3>1. Granted \cap (OfLane(lane[c]) \cap OfResource(resource[c]))
            = Granted \cap OfLane(lane[c]) \cap OfResource(resource[c])
      OBVIOUS
    <3>2. laneResourceActive[lane[c]][resource[c]]
            = Cardinality(Granted \cap OfLane(lane[c]) \cap OfResource(resource[c]))
      BY <1>2, <2>1, <2>3 DEF CountersOK, LaneCapped
    <3>3. laneResourceActive[lane[c]][resource[c]] < LaneResourceLimit
      BY <1>7, <2>3 DEF CanGrant, LaneCapped
    <3>4. QED BY <1>0, <1>3, <1>4, <3>1, <3>2, <3>3
  <2>4. QED BY <2>2, <2>3
<1>8. QED
  BY <1>1, <1>5, <1>6, <1>7 DEF Contract!Admit

\* Every step of the budget is a step of the contract or changes nothing the
\* contract speaks of.
LEMMA StepRefines ==
  ASSUME BudgetInv, [Next]_vars
  PROVE  [Contract!AdmissionNext]_<<Granted, lane, resource, ~ closed>>
<1> DEFINE same == UNCHANGED <<Granted, lane, resource, ~ closed>>
<1>1. ASSUME UNCHANGED wstate, UNCHANGED <<lane, resource, closed>> PROVE same
  BY <1>1 DEF Granted
<1>2. CASE UNCHANGED vars
  BY <1>1, <1>2 DEF vars
<1>3. ASSUME NEW c \in Calls,
             \/ UnknownLane(c) \/ AcquireEnqueued(c) \/ Dropped(c) \/ ObserveGrant(c)
             \/ ObserveDeadline(c) \/ ObserveClosed(c) \/ Cancel(c)
             \/ \E o \in FinishOutcomes : Finish(c, o)
      PROVE  same
  BY <1>1, <1>3 DEF UnknownLane, AcquireEnqueued, Dropped, ObserveGrant,
       ObserveDeadline, ObserveClosed, Cancel, Finish, stateVars
<1>4. ASSUME NEW c \in Calls, Dispatch(c) PROVE \E w \in Calls : Contract!Admit(w)
  <2>1. PICK l \in Lanes : \E i \in DOMAIN queue[l] :
          Selected(l, i) /\ Grant(queue[l][i])
    BY <1>4 DEF Dispatch
  <2>2. PICK i \in DOMAIN queue[l] : Selected(l, i) /\ Grant(queue[l][i])
    BY <2>1
  <2>3. /\ queue[l][i] \in Calls /\ wstate[queue[l][i]] = "waiting"
        /\ lane[queue[l][i]] = l
    BY DEF BudgetInv, TypeOK, QueuesOK
  <2>4. CanGrant(lane[queue[l][i]], resource[queue[l][i]])
    BY <2>2, <2>3 DEF Selected, Ready
  <2>5. ~ closed /\ UNCHANGED <<lane, resource, closed>>
    BY <1>4 DEF Dispatch, callVars
  <2>6. QED BY <2>2, <2>3, <2>4, <2>5, GrantIsAdmit
<1>5. ASSUME NEW c \in Calls, AcquireDecide(c) PROVE same \/ Contract!Admit(c)
  <2>1. /\ UNCHANGED <<lane, resource, closed>> /\ wstate[c] = "fresh" /\ ~ closed
    BY <1>5 DEF AcquireDecide, BudgetInv, PhasesOK
  <2>2. CASE CanGrant(lane[c], resource[c]) /\ Grant(c)
    BY <2>1, <2>2, GrantIsAdmit
  <2>3. CASE wstate' = [wstate EXCEPT ![c] = "waiting"]
    BY <2>1, <2>3 DEF Granted, BudgetInv, TypeOK
  <2>4. CASE UNCHANGED wstate
    BY <1>1, <2>1, <2>4
  <2>5. QED BY <1>5, <2>2, <2>3, <2>4 DEF AcquireDecide
<1>6. ASSUME NEW c \in Calls, TryDecide(c) PROVE same \/ Contract!Admit(c)
  <2>1. UNCHANGED <<lane, resource, closed>> /\ wstate[c] = "fresh"
    BY <1>6 DEF TryDecide, BudgetInv, PhasesOK
  <2>2. CASE ~ closed /\ CanGrant(lane[c], resource[c]) /\ Grant(c)
    BY <2>1, <2>2, GrantIsAdmit
  <2>3. CASE UNCHANGED wstate
    BY <1>1, <2>1, <2>3
  <2>4. QED BY <1>6, <2>2, <2>3 DEF TryDecide
<1>7. ASSUME NEW c \in Calls, Drop(c) PROVE same \/ Contract!Return(c)
  <2>1. UNCHANGED <<lane, resource, closed>>
        /\ wstate' = [wstate EXCEPT ![c] = "dropped"]
    BY <1>7 DEF Drop
  <2>2. CASE wstate[c] = "granted"
    BY <2>1, <2>2 DEF Contract!Return, Granted, BudgetInv, TypeOK
  <2>3. CASE wstate[c] # "granted"
    BY <2>1, <2>3 DEF Granted, BudgetInv, TypeOK
  <2>4. QED BY <2>2, <2>3
<1>8. ASSUME NEW c \in Calls, NEW l \in Lanes, NEW r \in Resources \cup {NoResource},
             AcquireEnter(c, l, r) \/ TryEnter(c, l, r)
      PROVE  Contract!Ask(c, l, r)
  <2>1. wstate[c] = "fresh"
    BY <1>8 DEF AcquireEnter, TryEnter, BudgetInv, PhasesOK
  <2>2. /\ UNCHANGED <<wstate, closed>>
        /\ lane' = [lane EXCEPT ![c] = l] /\ resource' = [resource EXCEPT ![c] = r]
    BY <1>8 DEF AcquireEnter, TryEnter, stateVars
  <2>3. QED BY <2>1, <2>2 DEF Contract!Ask, Granted
<1>9. ASSUME NEW l \in Lanes, NEW k \in 1 .. PerLane, CapLane(l, k) PROVE same
  BY <1>1, <1>9 DEF CapLane, callVars
<1>10. ASSUME Close PROVE Contract!Shut
  <2>1. \A c \in Calls : wstate'[c] = "granted" <=> wstate[c] = "granted"
    <3>1. \A l \in Lanes : \A i \in DOMAIN queue[l] : wstate[queue[l][i]] = "waiting"
      BY DEF BudgetInv, QueuesOK
    <3>2. \A c \in UNION {Range(queue[l]) : l \in Lanes} : wstate[c] = "waiting"
      BY <3>1 DEF Range
    <3>3. QED BY <1>10, <3>2 DEF Close
  <2>2. Granted' = Granted
    BY <2>1 DEF Granted
  <2>3. ~ closed /\ closed' /\ UNCHANGED <<lane, resource>>
    BY <1>10 DEF Close
  <2>4. QED BY <2>2, <2>3 DEF Contract!Shut
<1>11. QED
  BY <1>2, <1>3, <1>4, <1>5, <1>6, <1>7, <1>8, <1>9, <1>10
     DEF Next, CallStep, Contract!AdmissionNext

\* The budget with its queues, Mutex and counters implements the contract of
\* Admission: permits only within every cap, and none after close.
THEOREM BudgetImplementsAdmission == Spec => ImplementsAdmission
<1>1. Init => Contract!AdmissionInit
  <2> SUFFICES ASSUME Init PROVE Contract!AdmissionInit
    OBVIOUS
  <2>1. BudgetInv
    BY InitBudgetInv
  <2>2. Granted = {} /\ ~ closed
    BY DEF Init, Granted
  <2>3. lane \in [Calls -> Lanes] /\ resource \in [Calls -> Resources \cup {NoResource}]
    BY <2>1 DEF BudgetInv, TypeOK
  <2>4. QED BY <2>2, <2>3 DEF Contract!AdmissionInit
<1>2. BudgetInv /\ [Next]_vars
        => [Contract!AdmissionNext]_<<Granted, lane, resource, ~ closed>>
  BY StepRefines
<1>3. QED
  BY <1>1, <1>2, BudgetInvHolds, PTL
     DEF Spec, ImplementsAdmission, Contract!AdmissionSpec

-----------------------------------------------------------------------------
(* First come, first served among callers of one lane and one resource. *)

\* Nobody is granted past an earlier queued call of its own lane and resource,
\* neither by dispatch nor by arriving at a moment when a permit is free.
THEOREM ArrivalOrderKept == Spec => NoOvertaking
<1> DEFINE ahead(c) == \A i \in DOMAIN queue[lane[c]] :
                         LET w == queue[lane[c]][i] IN
                         w # c /\ resource[w] = resource[c] =>
                           \E j \in 1 .. i - 1 : queue[lane[c]][j] = c
           fair(c) == wstate[c] # "granted" /\ wstate'[c] = "granted" => ahead(c)
<1>1. ASSUME BudgetInv, [Next]_vars, NEW c \in Calls PROVE fair(c)
  <2> USE <1>1 DEF BudgetInv
  <2>1. ASSUME UNCHANGED wstate PROVE fair(c)
    BY <2>1
  <2>2. ASSUME NEW d \in Calls, Dispatch(d) PROVE fair(c)
    <3>1. PICK l \in Lanes : \E i \in DOMAIN queue[l] :
            Selected(l, i) /\ Grant(queue[l][i])
      BY <2>2 DEF Dispatch
    <3>2. PICK i \in DOMAIN queue[l] : Selected(l, i) /\ Grant(queue[l][i])
      BY <3>1
    <3>3. lane[queue[l][i]] = l /\ queue[l][i] \in Calls /\ queue[l] \in Seq(Calls)
      BY DEF QueuesOK, TypeOK
    <3>4. wstate[c] # "granted" /\ wstate'[c] = "granted" => c = queue[l][i]
      BY <3>2, <3>3 DEF Grant, TypeOK
    <3>5. ASSUME c = queue[l][i], NEW k \in DOMAIN queue[l],
                 queue[l][k] # c, resource[queue[l][k]] = resource[c]
          PROVE  \E j \in 1 .. k - 1 : queue[l][j] = c
      <4>1. Ready(l, k) /\ k # i
        BY <3>2, <3>5 DEF Selected, Ready
      <4>2. ~ (k \in 1 .. i - 1)
        BY <3>2, <4>1 DEF Selected
      <4>3. k \in 1 .. Len(queue[l]) /\ i \in 1 .. Len(queue[l]) /\ Len(queue[l]) \in Nat
        BY <3>3
      <4>4. i \in 1 .. k - 1
        BY <4>1, <4>2, <4>3
      <4>5. QED BY <3>5, <4>4
    <3>6. QED BY <3>3, <3>4, <3>5
  <2>3. ASSUME NEW d \in Calls, DispatchDone, ~ closed,
               CanGrant(lane[d], resource[d]), Grant(d)
        PROVE  fair(c)
    <3>1. wstate[c] # "granted" /\ wstate'[c] = "granted" => c = d
      BY <2>3 DEF Grant, TypeOK
    <3>2. lane[d] \in Lanes
      BY DEF TypeOK
    <3>3. \A i \in DOMAIN queue[lane[d]] : resource[queue[lane[d]][i]] # resource[d]
      BY <2>3, <3>2 DEF DispatchDone, Ready
    <3>4. QED BY <3>1, <3>3
  <2>4. ASSUME NEW d \in Calls, AcquireDecide(d) PROVE fair(c)
    <3>1. ~ closed /\ DispatchDone
      BY <2>4 DEF AcquireDecide, PhasesOK
    <3>2. CASE CanGrant(lane[d], resource[d]) /\ Grant(d)
      BY <2>3, <3>1, <3>2
    <3>3. CASE UNCHANGED wstate \/ wstate' = [wstate EXCEPT ![d] = "waiting"]
      BY <3>3 DEF TypeOK
    <3>4. QED BY <2>4, <3>2, <3>3 DEF AcquireDecide
  <2>5. ASSUME NEW d \in Calls, TryDecide(d) PROVE fair(c)
    BY <2>1, <2>3, <2>5 DEF TryDecide
  <2>6. ASSUME NEW d \in Calls, Drop(d) PROVE fair(c)
    <3>1. wstate' = [wstate EXCEPT ![d] = "dropped"]
      BY <2>6 DEF Drop
    <3>2. QED BY <3>1 DEF TypeOK
  <2>7. ASSUME Close PROVE fair(c)
    <3>1. wstate'[c] = "closed" \/ wstate'[c] = wstate[c]
      BY <2>7 DEF Close
    <3>2. QED BY <3>1
  <2>8. CASE UNCHANGED vars
    BY <2>1, <2>8 DEF vars
  <2>9. ASSUME NEW d \in Calls,
               \/ UnknownLane(d) \/ AcquireEnqueued(d) \/ Dropped(d) \/ ObserveGrant(d)
               \/ ObserveDeadline(d) \/ ObserveClosed(d) \/ Cancel(d)
               \/ \E o \in FinishOutcomes : Finish(d, o)
        PROVE  fair(c)
    BY <2>1, <2>9 DEF UnknownLane, AcquireEnqueued, Dropped, ObserveGrant,
         ObserveDeadline, ObserveClosed, Cancel, Finish, stateVars
  <2>10. ASSUME NEW d \in Calls, NEW l \in Lanes, NEW r \in Resources \cup {NoResource},
                AcquireEnter(d, l, r) \/ TryEnter(d, l, r)
         PROVE  fair(c)
    BY <2>1, <2>10 DEF AcquireEnter, TryEnter, stateVars
  <2>11. ASSUME NEW l \in Lanes, NEW k \in 1 .. PerLane, CapLane(l, k) PROVE fair(c)
    BY <2>1, <2>11 DEF CapLane
  <2> HIDE DEF fair
  <2>12. QED
    BY <1>1, <2>2, <2>4, <2>5, <2>6, <2>7, <2>8, <2>9, <2>10, <2>11 DEF Next, CallStep
<1>2. BudgetInv /\ [Next]_vars => [\A c \in Calls : fair(c)]_vars
  BY <1>1
<1>3. QED
  BY <1>2, BudgetInvHolds, PTL DEF Spec, NoOvertaking

-----------------------------------------------------------------------------
(* What a snapshot says. *)

\* Two sets with a one-to-one map between them have the same size.
LEMMA SameSize ==
  ASSUME NEW S, IsFiniteSet(S), NEW T, NEW f \in [S -> T],
         \A x, y \in S : f[x] = f[y] => x = y, \A t \in T : \E x \in S : f[x] = t
  PROVE  Cardinality(T) = Cardinality(S)
<1>1. f \in Bijection(S, T)
  BY DEF Bijection, Injection, Surjection, IsInjective
<1>2. ExistsBijection(S, T)
  BY <1>1 DEF ExistsBijection
<1>. QED BY <1>2, FS_Bijection

\* The length of a lane's queue is the number of its waiting calls.
LEMMA QueueLength ==
  ASSUME BudgetInv, NEW l \in Lanes
  PROVE  Len(queue[l]) = Cardinality(Waiting \cap OfLane(l))
<1>1. queue[l] \in Seq(Calls) /\ Len(queue[l]) \in Nat /\ DOMAIN queue[l] = 1 .. Len(queue[l])
  BY DEF BudgetInv, TypeOK
<1>2. IsFiniteSet(1 .. Len(queue[l])) /\ Cardinality(1 .. Len(queue[l])) = Len(queue[l])
  BY <1>1, FS_Interval
<1>3. ASSUME NEW i \in 1 .. Len(queue[l]) PROVE queue[l][i] \in Waiting \cap OfLane(l)
  BY <1>1 DEF BudgetInv, QueuesOK, Waiting, OfLane
<1>4. queue[l] \in [1 .. Len(queue[l]) -> Waiting \cap OfLane(l)]
  BY <1>1, <1>3
<1>5. ASSUME NEW i \in 1 .. Len(queue[l]), NEW j \in 1 .. Len(queue[l]),
             queue[l][i] = queue[l][j]
      PROVE  i = j
  BY <1>1, <1>5 DEF BudgetInv, QueuesOK
<1>6. ASSUME NEW c \in Waiting \cap OfLane(l)
      PROVE  \E i \in 1 .. Len(queue[l]) : queue[l][i] = c
  BY <1>1 DEF BudgetInv, QueuesOK, OfLane
<1>. QED BY <1>2, <1>4, <1>5, <1>6, SameSize

\* Each settled call of a lane has one outcome among the lane's, and no other
\* call has any.
LEMMA TerminalSize ==
  ASSUME BudgetInv, NEW l \in Lanes
  PROVE  Cardinality(Terminal(l)) = Cardinality({c \in OfLane(l) : Len(counted[c]) = 1})
<1>. DEFINE S == {c \in OfLane(l) : Len(counted[c]) = 1}
            f == [c \in S |-> <<c, 1>>]
<1>1. ASSUME NEW c \in Calls
      PROVE  DOMAIN counted[c] = IF Len(counted[c]) = 1 THEN {1} ELSE {}
  <2>1. counted[c] \in Seq(Outcomes) /\ DOMAIN counted[c] = 1 .. Len(counted[c])
    BY DEF BudgetInv, TypeOK
  <2>2. Len(counted[c]) = 1 \/ Len(counted[c]) = 0
    BY DEF BudgetInv, TalliesOK
  <2>3. 1 .. 1 = {1} /\ 1 .. 0 = {}
    OBVIOUS
  <2>4. CASE Len(counted[c]) = 1
    BY <2>1, <2>3, <2>4
  <2>5. CASE Len(counted[c]) = 0
    BY <2>1, <2>3, <2>5
  <2>. QED BY <2>2, <2>4, <2>5
<1>2. S \subseteq Calls /\ OfLane(l) \subseteq Calls
  BY DEF OfLane
<1>3. IsFiniteSet(S)
  BY <1>2, CallSetsFinite
<1>4. ASSUME NEW c \in S PROVE <<c, 1>> \in Terminal(l)
  <2>1. c \in OfLane(l) /\ 1 \in DOMAIN counted[c]
    BY <1>1, <1>2
  <2>. QED BY <2>1 DEF Terminal
<1>5. f \in [S -> Terminal(l)]
  BY <1>4
<1>6. \A c, d \in S : f[c] = f[d] => c = d
  OBVIOUS
<1>7. ASSUME NEW t \in Terminal(l) PROVE \E c \in S : f[c] = t
  <2>1. PICK c \in OfLane(l) : t \in {c} \X DOMAIN counted[c]
    BY DEF Terminal
  <2>2. PICK i \in DOMAIN counted[c] : t = <<c, i>>
    BY <2>1
  <2>3. c \in S /\ i = 1
    BY <1>1, <1>2, <2>2
  <2>. QED BY <2>2, <2>3
<1>. HIDE DEF S, f
<1>8. Cardinality(Terminal(l)) = Cardinality(S)
  BY <1>3, <1>5, <1>6, <1>7, SameSize
<1>. QED BY <1>8 DEF S

\* Two sets that share nothing.
LEMMA DisjointSize ==
  ASSUME NEW S, NEW T, IsFiniteSet(S), IsFiniteSet(T), S \cap T = {}
  PROVE  IsFiniteSet(S \cup T) /\ Cardinality(S \cup T) = Cardinality(S) + Cardinality(T)
<1>1. /\ IsFiniteSet(S \cup T)
      /\ Cardinality(S \cup T) = Cardinality(S) + Cardinality(T) - Cardinality(S \cap T)
  BY FS_Union
<1>2. Cardinality(S \cap T) = 0 /\ Cardinality(S) \in Nat /\ Cardinality(T) \in Nat
  BY FS_EmptySet, FS_CardinalityType
<1>. QED BY <1>1, <1>2

\* A started call of a lane is settled, active or waiting once the Mutex is free.
LEMMA SnapshotAdds == ASSUME BudgetInv PROVE SnapshotBalances
<1>. SUFFICES ASSUME MutexFree, NEW l \in Lanes
              PROVE  Cardinality(started \cap OfLane(l))
                       = Cardinality(Terminal(l)) + laneActive[l] + Len(queue[l])
  BY DEF SnapshotBalances
<1>. DEFINE mine == started \cap OfLane(l)
            settled == {c \in OfLane(l) : Len(counted[c]) = 1}
            out == Granted \cap OfLane(l)
            queued == Waiting \cap OfLane(l)
<1>1. mine \subseteq Calls /\ settled \subseteq Calls /\ out \subseteq Calls /\ queued \subseteq Calls
  BY DEF OfLane
<1>2. ASSUME NEW c \in OfLane(l)
      PROVE  /\ c \in settled <=>
                  c \in started /\ (pc[c] \in {"over", "releasing"} \/ wstate[c] = "closed")
             /\ c \in out <=> wstate[c] = "granted"
             /\ c \in queued <=> wstate[c] = "waiting"
             /\ c \in Calls /\ pc[c] \in PCs /\ pc[c] \notin Critical
  <2>1. c \in Calls /\ lane[c] = l
    BY DEF OfLane
  <2>2. Len(counted[c]) =
          IF c \in started /\ (pc[c] \in {"over", "releasing"} \/ wstate[c] = "closed")
          THEN 1 ELSE 0
    BY <2>1 DEF BudgetInv, TalliesOK
  <2>3. pc[c] \in PCs /\ pc[c] \notin Critical
    BY <2>1 DEF BudgetInv, TypeOK, MutexFree
  <2>4. /\ c \in out <=> wstate[c] = "granted"
        /\ c \in queued <=> wstate[c] = "waiting"
    BY <2>1 DEF Granted, Waiting
  <2>5. c \in settled <=> Len(counted[c]) = 1
    OBVIOUS
  <2>. HIDE DEF settled, out, queued
  <2>. QED BY <2>1, <2>2, <2>3, <2>4, <2>5
<1>3. ASSUME NEW c \in OfLane(l)
      PROVE  /\ c \in mine <=> c \in settled \/ c \in out \/ c \in queued
             /\ ~ (c \in settled /\ c \in out) /\ ~ (c \in settled /\ c \in queued)
             /\ ~ (c \in out /\ c \in queued)
  <2>1. /\ pc[c] = "idle" => wstate[c] = "fresh" /\ c \notin started
        /\ pc[c] \in {"awaiting", "leaving"} => wstate[c] \in {"waiting", "granted", "closed"}
        /\ pc[c] = "holding" => wstate[c] = "granted"
        /\ pc[c] = "over" => wstate[c] \in {"fresh", "dropped"}
        /\ wstate[c] # "fresh" => c \in started
    BY <1>2 DEF BudgetInv, PhasesOK
  <2>2. pc[c] \in {"idle", "awaiting", "holding", "leaving", "over"}
    BY <1>2 DEF PCs
  <2>3. c \in mine <=> c \in started
    OBVIOUS
  <2>. HIDE DEF mine, settled, out, queued
  <2>. QED BY <1>2, <2>1, <2>2, <2>3
<1>4. mine = settled \cup (out \cup queued) /\ settled \cap (out \cup queued) = {}
      /\ out \cap queued = {}
  BY <1>3
<1>5. Cardinality(settled) = Cardinality(Terminal(l))
  BY TerminalSize
<1>6. Cardinality(out) = laneActive[l] /\ Cardinality(queued) = Len(queue[l])
  BY QueueLength DEF BudgetInv, CountersOK
<1>. HIDE DEF mine, settled, out, queued
<1>7. IsFiniteSet(settled) /\ IsFiniteSet(out) /\ IsFiniteSet(queued)
      /\ Cardinality(settled) \in Nat /\ Cardinality(out) \in Nat /\ Cardinality(queued) \in Nat
  BY <1>1, CallSetsFinite
<1>8. Cardinality(out \cup queued) = Cardinality(out) + Cardinality(queued)
      /\ IsFiniteSet(out \cup queued)
  BY <1>4, <1>7, DisjointSize
<1>9. Cardinality(mine) = Cardinality(settled) + Cardinality(out \cup queued)
  BY <1>4, <1>7, <1>8, DisjointSize
<1>. QED BY <1>5, <1>6, <1>7, <1>8, <1>9 DEF mine

\* The lanes are finitely many.
LEMMA LanesFinite ==
  ASSUME NEW S, S \subseteq Lanes
  PROVE  IsFiniteSet(S) /\ Cardinality(S) \in Nat /\ Cardinality(S) <= N
<1>1. IsFiniteSet(Lanes) /\ Cardinality(Lanes) = N
  BY FS_Interval, LimitsAssumption DEF Lanes
<1>. QED BY <1>1, FS_Subset, FS_CardinalityType

\* A waiter leaves: at most its own lane empties.
LEMMA LeaveKeepsRoom ==
  ASSUME BudgetInv, BudgetInv', WaitingBounded, NEW l \in Lanes, NEW q,
         queue' = [queue EXCEPT ![l] = q], waiting' = waiting - 1
  PROVE  WaitingBounded'
<1>1. waiting \in Nat /\ waiting' \in Nat
  <2>1. waiting = Cardinality(Waiting) /\ waiting' = Cardinality(Waiting')
    BY DEF BudgetInv, QueuesOK
  <2>2. Waiting \subseteq Calls /\ Waiting' \subseteq Calls
    BY DEF Waiting
  <2>. QED BY <2>1, <2>2, CallSetsFinite
<1>2. Occupied \ {l} \subseteq Occupied'
  BY DEF Occupied, BudgetInv, TypeOK
<1>3. /\ IsFiniteSet(Occupied) /\ IsFiniteSet(Occupied') /\ Cardinality(Occupied) \in Nat
      /\ Cardinality(Occupied') \in Nat /\ Cardinality(Occupied') <= N
  BY LanesFinite DEF Occupied
<1>4. Cardinality(Occupied \ {l}) >= Cardinality(Occupied) - 1
  BY <1>3, FS_RemoveElement
<1>5. Cardinality(Occupied') >= Cardinality(Occupied \ {l})
  BY <1>2, <1>3, FS_Subset
<1>6. Cardinality(Occupied \ {l}) \in Nat
  BY <1>3, FS_RemoveElement, FS_CardinalityType
<1>7. waiting' > 0 => waiting' < WaitingLimit + Cardinality(Occupied')
  BY <1>1, <1>3, <1>4, <1>5, <1>6, LimitsAssumption DEF WaitingBounded
<1>8. waiting' <= IF WaitingLimit = 0 THEN 0 ELSE WaitingLimit + N - 1
  BY <1>1, <1>3, <1>7, LimitsAssumption DEF WaitingBounded
<1>. QED BY <1>7, <1>8 DEF WaitingBounded

\* A waiter is queued: the allowance has room, or its lane was empty.
LEMMA JoinKeepsRoom ==
  ASSUME BudgetInv, WaitingBounded, NEW l \in Lanes, NEW c \in Calls, ~ Refuses(l),
         queue' = [queue EXCEPT ![l] = Append(@, c)], waiting' = waiting + 1
  PROVE  WaitingBounded'
<1>1. waiting \in Nat /\ queue[l] \in Seq(Calls)
  BY CallSetsFinite DEF BudgetInv, QueuesOK, Waiting, TypeOK
<1>2. queue'[l] = Append(queue[l], c) /\ queue'[l] # <<>>
      /\ \A m \in Lanes : m # l => queue'[m] = queue[m]
  <2>1. queue \in [Lanes -> Seq(Calls)]
    BY DEF BudgetInv, TypeOK
  <2>2. Append(queue[l], c) # <<>>
    BY <1>1, AppendProperties
  <2>. QED BY <2>1, <2>2
<1>3. Occupied' = Occupied \cup {l}
  BY <1>2 DEF Occupied
<1>4. IsFiniteSet(Occupied) /\ Cardinality(Occupied) \in Nat
      /\ Cardinality(Occupied') \in Nat /\ Cardinality(Occupied') <= N
  BY LanesFinite DEF Occupied
<1>5. Cardinality(Occupied') = IF l \in Occupied THEN Cardinality(Occupied)
                               ELSE Cardinality(Occupied) + 1
  BY <1>3, <1>4, FS_AddElement
<1>6. Cardinality(Occupied') # 0
  BY <1>3, <1>4, FS_AddElement, FS_EmptySet
<1>7. WaitingLimit # 0 /\ (waiting < WaitingLimit \/ l \notin Occupied)
  BY <1>1, LimitsAssumption DEF Refuses, Occupied
<1>8. waiting' < WaitingLimit + Cardinality(Occupied')
  BY <1>1, <1>4, <1>5, <1>6, <1>7, LimitsAssumption DEF WaitingBounded
<1>9. waiting' <= WaitingLimit + N - 1
  BY <1>1, <1>4, <1>8, LimitsAssumption
<1>. QED BY <1>7, <1>8, <1>9 DEF WaitingBounded

\* Every step keeps the waiting room within its bound.
LEMMA RoomStep ==
  ASSUME BudgetInv, BudgetInv', WaitingBounded, [Next]_vars
  PROVE  WaitingBounded'
<1>1. CASE UNCHANGED <<queue, waiting>>
  BY <1>1 DEF WaitingBounded, Occupied
<1>2. ASSUME NEW c \in Calls, Dispatch(c) PROVE WaitingBounded'
  <2>0. PICK l \in Lanes : \E i \in DOMAIN queue[l] :
          queue' = [queue EXCEPT ![l] = RemoveAt(@, i)] /\ waiting' = waiting - 1
    BY <1>2 DEF Dispatch
  <2>1. PICK i \in DOMAIN queue[l] :
          queue' = [queue EXCEPT ![l] = RemoveAt(@, i)] /\ waiting' = waiting - 1
    BY <2>0
  <2>2. queue' = [queue EXCEPT ![l] = RemoveAt(queue[l], i)]
    BY <2>1
  <2>. QED BY <2>1, <2>2, LeaveKeepsRoom
<1>3. ASSUME NEW c \in Calls, Drop(c) PROVE WaitingBounded'
  <2>1. CASE UNCHANGED <<queue, waiting>>
    BY <1>1, <2>1
  <2>2. CASE ~ UNCHANGED <<queue, waiting>>
    <3>1. PICK i \in DOMAIN queue[lane[c]] :
            queue' = [queue EXCEPT ![lane[c]] = RemoveAt(@, i)] /\ waiting' = waiting - 1
      BY <1>3, <2>2 DEF Drop
    <3>2. lane[c] \in Lanes
      BY DEF BudgetInv, TypeOK
    <3>3. queue' = [queue EXCEPT ![lane[c]] = RemoveAt(queue[lane[c]], i)]
      BY <3>1
    <3>. QED BY <3>1, <3>2, <3>3, LeaveKeepsRoom
  <2>. QED BY <2>1, <2>2
<1>4. ASSUME NEW c \in Calls, AcquireDecide(c) PROVE WaitingBounded'
  <2>1. CASE UNCHANGED <<queue, waiting>>
    BY <1>1, <2>1
  <2>2. CASE ~ UNCHANGED <<queue, waiting>>
    <3>1. /\ ~ Refuses(lane[c]) /\ queue' = [queue EXCEPT ![lane[c]] = Append(@, c)]
          /\ waiting' = waiting + 1
      BY <1>4, <2>2 DEF AcquireDecide
    <3>2. lane[c] \in Lanes
      BY DEF BudgetInv, TypeOK
    <3>. QED BY <3>1, <3>2, JoinKeepsRoom
  <2>. QED BY <2>1, <2>2
<1>5. CASE Close
  BY <1>5, LimitsAssumption DEF Close, WaitingBounded
<1>6. ASSUME NEW c \in Calls, CallStep(c) PROVE WaitingBounded'
  <2>1. CASE AcquireEnqueued(c) \/ TryDecide(c) \/ ObserveGrant(c) \/ ObserveClosed(c) \/ Dropped(c)
    <3>1. UNCHANGED <<queue, waiting>>
      BY <2>1 DEF AcquireEnqueued, TryDecide, ObserveGrant, ObserveClosed, Dropped, stateVars
    <3>. QED BY <1>1, <3>1
  <2>. QED BY <1>2, <1>3, <1>4, <1>6, <2>1 DEF CallStep
<1>7. ASSUME NEW c \in Calls,
             \/ ObserveDeadline(c) \/ Cancel(c) \/ UnknownLane(c)
             \/ \E o \in FinishOutcomes : Finish(c, o)
             \/ \E l \in Lanes, r \in Resources \cup {NoResource} :
                  AcquireEnter(c, l, r) \/ TryEnter(c, l, r)
      PROVE  UNCHANGED <<queue, waiting>>
  BY <1>7 DEF ObserveDeadline, Cancel, UnknownLane, Finish, AcquireEnter, TryEnter, stateVars
<1>8. ASSUME NEW l \in Lanes, NEW k \in 1 .. PerLane, CapLane(l, k)
      PROVE  UNCHANGED <<queue, waiting>>
  BY <1>8 DEF CapLane
<1>9. CASE UNCHANGED vars
  BY <1>1, <1>9 DEF vars
<1>. QED BY <1>1, <1>5, <1>6, <1>7, <1>8, <1>9 DEF Next

\* A snapshot taken under the Mutex adds up lane by lane, and the waiting room
\* keeps to the documented bound, whatever calls, lanes and limits there are
\* (FairBudget::snapshot, SECURITY.md "Admission accounting").
THEOREM SnapshotHolds == Spec => []SnapshotSound
<1>1. Init => WaitingBounded
  BY LimitsAssumption DEF Init, WaitingBounded
<1>2. BudgetInv /\ BudgetInv' /\ WaitingBounded /\ [Next]_vars => WaitingBounded'
  BY RoomStep
<1>3. BudgetInv /\ WaitingBounded => SnapshotSound
  BY SnapshotAdds DEF SnapshotSound
<1>. QED BY <1>1, <1>2, <1>3, BudgetInvHolds, PTL DEF Spec

-----------------------------------------------------------------------------
(* The memory pool of JSON votes. *)

\* The inductive invariant: both properties, and that the leased units are
\* finitely many, which their count needs.
PoolInv == PoolExact /\ ValuesCovered /\ IsFiniteSet(Leased)

\* The pool is empty at first.
LEMMA PoolInitInv == PoolInit => PoolInv
<1>. SUFFICES ASSUME PoolInit PROVE PoolInv
  OBVIOUS
<1>. USE SizesAssumption DEF PoolInit
<1>1. PoolTypeOK
  BY DEF PoolTypeOK, PerCandidate
<1>2. Leased = {}
  BY DEF Leased, PerCandidate
<1>3. IsFiniteSet(Leased) /\ Cardinality(Leased) = 0
  BY <1>2, FS_EmptySet
<1>4. ValuesCovered
  BY DEF ValuesCovered, PerCandidate
<1>. QED BY <1>1, <1>3, <1>4 DEF PoolInv, PoolExact

\* The units between two sizes of one lease.
Units(r, f, m, n) == {k \in {r} \X {f} \X (1 .. Limit) : m < k[3] /\ k[3] <= n}

\* There are as many as the sizes are apart.
LEMMA UnitsSize ==
  ASSUME NEW r, NEW f, NEW m \in Nat, NEW n \in Nat, m <= n, n <= Limit
  PROVE  IsFiniteSet(Units(r, f, m, n)) /\ Cardinality(Units(r, f, m, n)) = n - m
<1>. USE SizesAssumption
<1>. DEFINE S == m + 1 .. n
            T == Units(r, f, m, n)
            g == [b \in S |-> <<r, f, b>>]
<1>1. IsFiniteSet(S) /\ Cardinality(S) = n - m
  <2>1. IsFiniteSet(S) /\ Cardinality(S) = IF m + 1 > n THEN 0 ELSE n - (m + 1) + 1
    <3>1. m + 1 \in Int /\ n \in Int
      OBVIOUS
    <3>. QED BY <3>1, FS_Interval
  <2>. QED BY <2>1
<1>2. g \in [S -> T]
  BY DEF Units
<1>3. ASSUME NEW a \in S, NEW b \in S, g[a] = g[b] PROVE a = b
  BY <1>3
<1>4. ASSUME NEW t \in T PROVE \E b \in S : g[b] = t
  <2>1. t[3] \in S /\ t = <<r, f, t[3]>>
    BY <1>4 DEF Units
  <2>. QED BY <2>1
<1>. HIDE DEF g, S, T
<1>5. Cardinality(T) = Cardinality(S)
  BY <1>1, <1>2, <1>3, <1>4, SameSize
<1>6. IsFiniteSet(T)
  BY <1>1, <1>2, <1>4, FS_Surjection DEF Surjection
<1>. QED BY <1>1, <1>5, <1>6 DEF T

\* A lease that grows takes what it grows by.
LEMMA LeaseGrows ==
  ASSUME PoolInv, NEW r \in Rounds, NEW f \in Fingerprints, NEW n \in Nat,
         lease[r][f] <= n, n <= Limit, lease' = [lease EXCEPT ![r][f] = n]
  PROVE  IsFiniteSet(Leased') /\ Cardinality(Leased') = used + (n - lease[r][f])
<1>. USE SizesAssumption
<1>1. /\ lease \in [Rounds -> [Fingerprints -> Nat]] /\ IsFiniteSet(Leased)
      /\ used = Cardinality(Leased) /\ used \in Nat
  BY DEF PoolInv, PoolExact, PoolTypeOK
<1>. DEFINE D == Units(r, f, lease[r][f], n)
<1>2. IsFiniteSet(D) /\ Cardinality(D) = n - lease[r][f]
  BY <1>1, UnitsSize
<1>3. \A q \in Rounds, h \in Fingerprints :
        lease'[q][h] = IF q = r /\ h = f THEN n ELSE lease[q][h]
  BY <1>1
<1>4. Leased \cap D = {}
  BY <1>1 DEF Leased, Units
<1>5. Leased' = Leased \cup D
  BY <1>1, <1>3 DEF Leased, Units
<1>. HIDE DEF D
<1>6. IsFiniteSet(Leased') /\ Cardinality(Leased') = Cardinality(Leased) + Cardinality(D)
  BY <1>1, <1>2, <1>4, <1>5, DisjointSize
<1>. QED BY <1>1, <1>2, <1>6

\* A lease that is dropped gives back what it had.
LEMMA LeaseDropped ==
  ASSUME PoolInv, NEW r \in Rounds, NEW f \in Fingerprints, lease' = [lease EXCEPT ![r][f] = 0]
  PROVE  /\ IsFiniteSet(Leased') /\ Cardinality(Leased') = used - lease[r][f]
         /\ lease[r][f] <= used
<1>. USE SizesAssumption
<1>1. /\ lease \in [Rounds -> [Fingerprints -> Nat]] /\ IsFiniteSet(Leased)
      /\ used = Cardinality(Leased) /\ used \in Nat /\ lease[r][f] \in 0 .. MaxValue
  BY DEF PoolInv, PoolExact, PoolTypeOK, ValuesCovered
<1>. DEFINE D == Units(r, f, 0, lease[r][f])
<1>2. IsFiniteSet(D) /\ Cardinality(D) = lease[r][f]
  BY <1>1, UnitsSize
<1>3. \A q \in Rounds, h \in Fingerprints :
        lease'[q][h] = IF q = r /\ h = f THEN 0 ELSE lease[q][h]
  BY <1>1
<1>4. Leased' \cap D = {}
  BY <1>1, <1>3 DEF Leased, Units
<1>5. Leased = Leased' \cup D
  BY <1>1, <1>3 DEF Leased, Units
<1>. HIDE DEF D
<1>6. IsFiniteSet(Leased')
  BY <1>1, <1>5, FS_Subset
<1>7. Cardinality(Leased) = Cardinality(Leased') + Cardinality(D) /\ Cardinality(Leased') \in Nat
  BY <1>2, <1>4, <1>5, <1>6, DisjointSize, FS_CardinalityType
<1>. QED BY <1>1, <1>2, <1>6, <1>7

\* A vote within the lease of its candidate, or without a value to keep.
LEMMA VoteCoveredKeeps ==
  ASSUME PoolInv, NEW r \in Rounds, NEW p \in Providers, NEW f \in Fingerprints,
         NEW b \in Sizes, VoteCovered(r, p, f, b)
  PROVE  PoolInv'
<1>. USE SizesAssumption DEF PoolInv, PoolExact, VoteCovered, Tally
<1>1. b \in Nat /\ lease' = lease /\ used' = used /\ job' = job /\ ended' = ended
  OBVIOUS
<1>2. Leased' = Leased
  BY <1>1 DEF Leased
<1>3. /\ held' \in [Rounds -> [Fingerprints -> Nat]]
      /\ \A q \in Rounds, h \in Fingerprints : held'[q][h] <= lease[q][h]
  BY <1>1 DEF PoolTypeOK, ValuesCovered
<1>4. voters' \in [Rounds -> [Fingerprints -> SUBSET Providers]]
  BY DEF PoolTypeOK
<1>5. PoolTypeOK'
  BY <1>1, <1>3, <1>4 DEF PoolTypeOK
<1>6. ValuesCovered'
  BY <1>1, <1>3 DEF ValuesCovered
<1>. QED BY <1>1, <1>2, <1>5, <1>6

\* A reservation begins: it asks for more than the candidate's lease.
LEMMA LoadKeeps ==
  ASSUME PoolInv, NEW r \in Rounds, NEW p \in Providers, NEW f \in Fingerprints,
         NEW b \in Sizes, Load(r, p, f, b)
  PROVE  PoolInv'
<1>. USE SizesAssumption DEF PoolInv, PoolExact, Load
<1>. DEFINE j == [bytes |-> b, provider |-> p, fingerprint |-> f, current |-> used]
<1>1. b \in Nat /\ j \in Jobs /\ j.bytes = b /\ j.fingerprint = f
  BY DEF PoolTypeOK, Jobs
<1>2. job' \in [Rounds -> {Idle} \cup Jobs] /\ job'[r] = j
      /\ \A q \in Rounds \ {r} : job'[q] = job[q]
  BY <1>1 DEF PoolTypeOK
<1>. HIDE DEF j
<1>3. Leased' = Leased
  BY DEF Leased
<1>4. PoolTypeOK'
  BY <1>2 DEF PoolTypeOK
<1>5. ValuesCovered'
  BY <1>1, <1>2 DEF ValuesCovered, Open, PoolTypeOK
<1>. QED BY <1>3, <1>4, <1>5

\* A turn of the loop: refused, swapped and recorded, or read again.
LEMMA SwapKeeps == ASSUME PoolInv, NEW r \in Rounds, Swap(r) PROVE PoolInv'
<1>. USE SizesAssumption DEF PoolInv, PoolExact
<1>. DEFINE j == job[r]
            f == j.fingerprint
            total == j.current + (j.bytes - lease[r][f])
<1>1. j # Idle /\ j \in Jobs /\ failed' = failed /\ ended' = ended /\ r \notin ended
  BY DEF Swap, PoolTypeOK, ValuesCovered
<1>2. /\ f \in Fingerprints /\ j.bytes \in Nat /\ j.provider \in Providers /\ j.current \in Nat
      /\ lease[r][f] \in Nat /\ lease[r][f] < j.bytes /\ j.bytes <= MaxValue
  BY <1>1 DEF Jobs, ValuesCovered, PoolTypeOK
<1>3. CASE /\ refused' = [refused EXCEPT ![r] = @ \cup {j.provider}]
           /\ job' = [job EXCEPT ![r] = Idle] /\ UNCHANGED <<used, lease, held, voters>>
  <2>1. Leased' = Leased
    BY <1>3 DEF Leased
  <2>2. PoolTypeOK'
    BY <1>1, <1>2, <1>3 DEF PoolTypeOK
  <2>3. ValuesCovered'
    BY <1>1, <1>3 DEF ValuesCovered, PoolTypeOK
  <2>. QED BY <1>3, <2>1, <2>2, <2>3
<1>4. CASE /\ total <= Limit /\ used = j.current /\ used' = total
           /\ lease' = [lease EXCEPT ![r][f] = j.bytes]
           /\ Tally(r, j.provider, f, j.bytes)
           /\ job' = [job EXCEPT ![r] = Idle] /\ UNCHANGED refused
  <2>1. IsFiniteSet(Leased') /\ Cardinality(Leased') = used'
    <3>1. j.bytes <= Limit /\ lease[r][f] <= j.bytes
      BY <1>2
    <3>. HIDE DEF PoolInv, PoolExact
    <3>2. IsFiniteSet(Leased') /\ Cardinality(Leased') = used + (j.bytes - lease[r][f])
      BY <1>2, <1>4, <3>1, LeaseGrows
    <3>. QED BY <1>4, <3>2
  <2>2. used' \in Nat /\ used' <= Limit
    BY <1>2, <1>4 DEF PoolTypeOK
  <2>3. /\ lease' \in [Rounds -> [Fingerprints -> Nat]]
        /\ \A q \in Rounds, h \in Fingerprints :
             lease'[q][h] = IF q = r /\ h = f THEN j.bytes ELSE lease[q][h]
    BY <1>2, <1>4 DEF PoolTypeOK
  <2>4. /\ held' \in [Rounds -> [Fingerprints -> Nat]]
        /\ \A q \in Rounds, h \in Fingerprints :
             held'[q][h] = held[q][h] \/ (q = r /\ h = f /\ held'[q][h] = j.bytes)
    BY <1>2, <1>4 DEF PoolTypeOK, Tally
  <2>5. voters' \in [Rounds -> [Fingerprints -> SUBSET Providers]]
    BY <1>2, <1>4 DEF PoolTypeOK, Tally
  <2>6. job' \in [Rounds -> {Idle} \cup Jobs] /\ job'[r] = Idle
        /\ \A q \in Rounds \ {r} : job'[q] = job[q]
    BY <1>4 DEF PoolTypeOK
  <2>7. PoolTypeOK'
    BY <1>1, <1>4, <2>2, <2>3, <2>4, <2>5, <2>6 DEF PoolTypeOK
  <2>8. \A q \in Rounds, h \in Fingerprints :
          held'[q][h] <= lease'[q][h] /\ lease'[q][h] \in 0 .. MaxValue
    <3>1. \A q \in Rounds, h \in Fingerprints :
            /\ held[q][h] <= lease[q][h] /\ lease[q][h] \in 0 .. MaxValue
            /\ held[q][h] \in Nat
      BY DEF ValuesCovered, PoolTypeOK
    <3>. QED BY <1>2, <2>3, <2>4, <3>1
  <2>9. ASSUME NEW q \in Rounds, job'[q] # Idle
        PROVE  q \notin ended' /\ job'[q].bytes \in lease'[q][job'[q].fingerprint] + 1 .. MaxValue
    <3>1. q # r /\ job'[q] = job[q] /\ job[q].fingerprint \in Fingerprints
      BY <2>6, <2>9 DEF PoolTypeOK, Jobs
    <3>2. lease'[q][job[q].fingerprint] = lease[q][job[q].fingerprint]
      BY <2>3, <3>1
    <3>. QED BY <1>1, <2>9, <3>1, <3>2 DEF ValuesCovered
  <2>10. ValuesCovered'
    BY <2>8, <2>9 DEF ValuesCovered
  <2>. QED BY <2>1, <2>2, <2>7, <2>10
<1>5. CASE job' = [job EXCEPT ![r].current = used] /\ UNCHANGED <<used, lease, held, voters, refused>>
  <2>1. Leased' = Leased
    BY <1>5 DEF Leased
  <2>2. job' = [job EXCEPT ![r] = [j EXCEPT !.current = used]]
    BY <1>5
  <2>3. /\ [j EXCEPT !.current = used] \in Jobs
        /\ [j EXCEPT !.current = used].bytes = j.bytes
        /\ [j EXCEPT !.current = used].fingerprint = f
    BY <1>1 DEF Jobs, PoolTypeOK
  <2>4. /\ job' \in [Rounds -> {Idle} \cup Jobs]
        /\ job'[r].bytes = j.bytes /\ job'[r].fingerprint = f
        /\ \A q \in Rounds \ {r} : job'[q] = job[q]
    BY <2>2, <2>3 DEF PoolTypeOK
  <2>5. PoolTypeOK'
    BY <1>1, <1>5, <2>4 DEF PoolTypeOK
  <2>6. ValuesCovered'
    BY <1>1, <1>5, <2>4 DEF ValuesCovered
  <2>. QED BY <1>5, <2>1, <2>5, <2>6
<1>. QED BY <1>3, <1>4, <1>5 DEF Swap

\* A lease returns with its candidate.
LEMMA DropLeaseKeeps ==
  ASSUME PoolInv, NEW r \in Rounds, NEW f \in Fingerprints, DropLease(r, f) PROVE PoolInv'
<1>0. lease' = [lease EXCEPT ![r][f] = 0] /\ used' = used - lease[r][f]
  BY DEF DropLease
<1>1. /\ IsFiniteSet(Leased') /\ Cardinality(Leased') = used' /\ lease[r][f] <= used
      /\ lease[r][f] \in Nat /\ used \in Nat
  <2>1. lease[r][f] \in Nat /\ used \in Nat
    BY DEF PoolInv, PoolExact, PoolTypeOK
  <2>. QED BY <1>0, <2>1, LeaseDropped
<1>. USE SizesAssumption DEF PoolInv, PoolExact, DropLease
<1>2. used' \in Nat /\ used' <= Limit
  BY <1>1
<1>3. /\ lease' \in [Rounds -> [Fingerprints -> Nat]] /\ held' \in [Rounds -> [Fingerprints -> Nat]]
      /\ \A q \in Rounds, h \in Fingerprints :
           /\ lease'[q][h] = IF q = r /\ h = f THEN 0 ELSE lease[q][h]
           /\ held'[q][h] = IF q = r /\ h = f THEN 0 ELSE held[q][h]
  BY DEF PoolTypeOK
<1>4. PoolTypeOK'
  BY <1>2, <1>3 DEF PoolTypeOK
<1>5. \A q \in Rounds, h \in Fingerprints :
        held'[q][h] <= lease'[q][h] /\ lease'[q][h] \in 0 .. MaxValue
  BY <1>3 DEF ValuesCovered
<1>6. ASSUME NEW q \in Rounds, job'[q] # Idle
      PROVE  q \notin ended' /\ job'[q].bytes \in lease'[q][job'[q].fingerprint] + 1 .. MaxValue
  <2>1. q # r /\ job'[q] = job[q] /\ job[q].fingerprint \in Fingerprints
    BY <1>6 DEF PoolTypeOK, Jobs, ValuesCovered
  <2>2. lease'[q][job[q].fingerprint] = lease[q][job[q].fingerprint]
    BY <1>3, <2>1
  <2>. QED BY <1>6, <2>1, <2>2 DEF ValuesCovered
<1>7. ValuesCovered'
  BY <1>5, <1>6 DEF ValuesCovered
<1>. QED BY <1>1, <1>2, <1>4, <1>7

\* Every step keeps the invariant; the ones left touch no lease.
LEMMA PoolNextInv == PoolInv /\ [PoolNext]_poolVars => PoolInv'
<1>. SUFFICES ASSUME PoolInv, [PoolNext]_poolVars PROVE PoolInv'
  OBVIOUS
<1>1. ASSUME NEW r \in Rounds, NEW p \in Providers, NEW b \in Sizes, TooLarge(r, p, b)
      PROVE  PoolInv'
  <2>. USE <1>1 DEF PoolInv, PoolExact, TooLarge
  <2>1. Leased' = Leased
    BY DEF Leased
  <2>2. PoolTypeOK' /\ ValuesCovered'
    BY DEF PoolTypeOK, ValuesCovered
  <2>. QED BY <2>1, <2>2
<1>2. ASSUME NEW r \in Rounds, End(r) PROVE PoolInv'
  <2>. USE <1>2 DEF PoolInv, PoolExact, End
  <2>1. Leased' = Leased
    BY DEF Leased
  <2>2. PoolTypeOK' /\ ValuesCovered'
    BY DEF PoolTypeOK, ValuesCovered
  <2>. QED BY <2>1, <2>2
<1>3. CASE UNCHANGED poolVars
  <2>. USE <1>3 DEF PoolInv, PoolExact, poolVars
  <2>1. Leased' = Leased
    BY DEF Leased
  <2>2. PoolTypeOK' /\ ValuesCovered'
    BY DEF PoolTypeOK, ValuesCovered
  <2>. QED BY <2>1, <2>2
<1>. QED BY <1>1, <1>2, <1>3, VoteCoveredKeeps, LoadKeeps, SwapKeeps, DropLeaseKeeps DEF PoolNext

\* The pool's inductive invariant (reserve, grow, JsonMemoryLease::drop).
THEOREM PoolInvHolds == PoolSpec => []PoolInv
BY PoolInitInv, PoolNextInv, PTL DEF PoolSpec

\* However the compare-and-swap loops and the drops of any number of rounds
\* interleave, the counter is the sum of the leases and within the limit.
THEOREM PoolStaysExact == PoolSpec => []PoolExact
<1>1. PoolInv => PoolExact
  BY DEF PoolInv
<1>. QED BY <1>1, PoolInvHolds, PTL

\* Every retained value is paid for by its candidate's lease, and a reservation
\* under way charges a positive amount (record_json_result_with_budget).
THEOREM ValuesStayCovered == PoolSpec => []ValuesCovered
<1>1. PoolInv => ValuesCovered
  BY DEF PoolInv
<1>. QED BY <1>1, PoolInvHolds, PTL
=============================================================================

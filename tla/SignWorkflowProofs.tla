--------------------------- MODULE SignWorkflowProofs ---------------------------
(***************************************************************************)
(* What a signature stands on, for any chains, requests and refreshes.     *)
(*                                                                         *)
(* The surroundings of a request move in a few ways that its checks depend *)
(* on: a source block that is replaced gets a fork number nobody has seen  *)
(* and was not final (ChainMoved), a destination packet only goes on       *)
(* (DestMoved), a target block that is replaced gets a new fork number too *)
(* and was not deeper than Depth (TargetMoved).  Under each of them what   *)
(* the request has read stays as good as it was, and each read adds to it. *)
(***************************************************************************)
EXTENDS SignWorkflow, SequenceTheorems, TLAPS

-----------------------------------------------------------------------------
(* What serves. *)

\* The types and the soundness of what serves, together.
RefreshOK == RefreshTypeOK /\ ServingSound

\* A pair that loads is sound to serve.
LEMMA PublishedSound ==
  ASSUME RefreshOK, NEW p \in 1 .. Last, NEW s \in 1 .. Last, Loads(p, s),
         serving' = Published(p, s)
  PROVE  /\ serving' \in [generation : Nat, providers : 1 .. Last,
                          strategy : 1 .. Last, chains : SUBSET STRING]
         /\ ServingSound'
<1>1. Candidate(p) = Roster /\ Roster \in SUBSET STRING
  BY RolloutsAssumption DEF Loads, CarriesRoster, Candidate
<1>2. CASE serving' = serving
  BY <1>2 DEF RefreshOK, RefreshTypeOK, ServingSound
<1>3. CASE serving' = [generation |-> serving.generation + 1, providers |-> p,
                       strategy |-> s, chains |-> Roster]
  <2>1. serving.generation \in Nat
    BY DEF RefreshOK, RefreshTypeOK
  <2>. QED BY <1>1, <1>3, <2>1 DEF Loads, BindingHolds, ServingSound
<1>. QED BY <1>1, <1>2, <1>3 DEF Published

\* Every step of the operator and of the loop.
LEMMA RefreshStep == ASSUME RefreshOK, Refresh PROVE RefreshOK'
<1>. USE RolloutsAssumption
<1>0. /\ RefreshTypeOK /\ ServingSound /\ Last \in Nat
  BY DEF RefreshOK, Last
<1>1. ASSUME NEW o \in Objects, Write(o) PROVE RefreshOK'
  <2>1. bucket' \in [Objects -> 1 .. Last]
    BY <1>0, <1>1 DEF Write, RefreshTypeOK
  <2>. QED BY <1>0, <1>1, <2>1 DEF Write, RefreshOK, RefreshTypeOK, ServingSound
<1>2. CASE Wake
  BY <1>0, <1>2 DEF Wake, RefreshOK, RefreshTypeOK, ServingSound
<1>3. ASSUME NEW o \in Objects, Fetch(o) \/ FetchFails(o) PROVE RefreshOK'
  <2>1. poll \in [Objects -> {Failed, Absent} \cup 1 .. Last]
    BY <1>0, <1>3 DEF Fetch, FetchFails, RefreshTypeOK
  <2>2. poll' \in [Objects -> {Failed, Absent} \cup 1 .. Last]
    BY <1>0, <1>3, <2>1 DEF Fetch, FetchFails, RefreshTypeOK
  <2>3. faults' \in 0 .. MaxFaults /\ serving' = serving /\ UNCHANGED <<remote, bucket>>
    BY <1>0, <1>3 DEF Fetch, FetchFails, RefreshTypeOK
  <2>. QED BY <1>0, <2>2, <2>3 DEF RefreshOK, RefreshTypeOK, ServingSound
<1>4. CASE LoadTimesOut
  <2>1. faults' \in 0 .. MaxFaults
    BY <1>0, <1>4 DEF LoadTimesOut, RefreshTypeOK
  <2>. QED BY <1>0, <1>4, <2>1 DEF LoadTimesOut, RefreshOK, RefreshTypeOK, ServingSound
<1>5. CASE Apply
  <2>1. CASE Loads(poll["providers"], poll["strategy"]) /\ Accepted(poll["providers"])
    <3>1. poll \in [Objects -> {Failed, Absent} \cup 1 .. Last]
      BY <1>0, <1>5 DEF Apply, RefreshTypeOK
    <3>2. poll["providers"] \in 1 .. Last /\ poll["strategy"] \in 1 .. Last
      BY <2>1, <3>1 DEF Loads, Objects, Absent, Failed
    <3>3. serving' = Published(poll["providers"], poll["strategy"])
      BY <1>5, <2>1 DEF Apply
    <3>4. /\ serving' \in [generation : Nat, providers : 1 .. Last,
                          strategy : 1 .. Last, chains : SUBSET STRING]
          /\ ServingSound'
      BY <2>1, <3>2, <3>3, PublishedSound
    <3>. QED BY <1>0, <1>5, <3>4 DEF Apply, RefreshOK, RefreshTypeOK
  <2>2. CASE ~ (Loads(poll["providers"], poll["strategy"]) /\ Accepted(poll["providers"]))
    BY <1>0, <1>5, <2>2 DEF Apply, RefreshOK, RefreshTypeOK, ServingSound
  <2>. QED BY <2>1, <2>2
<1>. QED BY <1>1, <1>2, <1>3, <1>4, <1>5 DEF Refresh

-----------------------------------------------------------------------------
(* The source. *)

EventType == [height : Nat, fork : Nat, says : Messages \cup {None}, guid : BOOLEAN]
ChainType ==
  [source : Sources, blocks : Seq(0 .. MaxForks), final : Nat, at : Nat, says : Messages]

\* How the source moves, whoever moves it.
ChainMoved ==
  /\ SourceTypeOK' /\ ChainOK' /\ chain'.source = chain.source /\ seen' = seen
  /\ forks' >= forks /\ Tip' >= Tip /\ chain'.final >= chain.final
  /\ \A h \in 1 .. Tip :
       \/ /\ chain'.blocks[h] = chain.blocks[h]
          /\ chain.at = h => chain'.at = h /\ chain'.says = chain.says
       \/ chain'.blocks[h] > forks /\ h > chain.final

\* A block is added.
LEMMA MineMoves == ASSUME SourceTypeOK, ChainOK, Mine PROVE ChainMoved
<1>. USE SourceAssumption
<1>0. /\ chain \in ChainType /\ Tip \in 1 .. MaxHeight /\ Tip = Len(chain.blocks)
      /\ forks \in 0 .. MaxForks /\ chain.final <= Tip /\ chain.at <= Tip /\ Tip < MaxHeight
      /\ UNCHANGED <<forks, seen>>
  BY DEF SourceTypeOK, ChainType, Tip, Mine
<1>1. PICK at \in {chain.at} \cup (IF chain.at = 0 THEN {Tip + 1} ELSE {}) :
      \E says \in IF at = chain.at THEN {chain.says} ELSE Messages :
       chain' = [chain EXCEPT !.blocks = Append(@, forks), !.at = at, !.says = says,
                              !.final = IF Instant(chain.source) THEN Tip + 1 ELSE @]
  BY DEF Mine
<1>2. PICK says \in IF at = chain.at THEN {chain.says} ELSE Messages :
       chain' = [chain EXCEPT !.blocks = Append(@, forks), !.at = at, !.says = says,
                              !.final = IF Instant(chain.source) THEN Tip + 1 ELSE @]
  BY <1>1
<1>3. /\ chain'.source = chain.source /\ chain'.blocks = Append(chain.blocks, forks)
      /\ chain'.at = at /\ chain'.says = says
      /\ chain'.final = IF Instant(chain.source) THEN Tip + 1 ELSE chain.final
  BY <1>0, <1>2 DEF ChainType
<1>4. /\ at \in Nat /\ at <= Tip + 1 /\ says \in Messages /\ chain'.final \in Nat
      /\ chain.final \in Nat /\ chain.at \in Nat /\ chain.blocks \in Seq(0 .. MaxForks)
      /\ chain.at # 0 => at = chain.at /\ says = chain.says
  BY <1>0, <1>3 DEF ChainType
<1>5. /\ chain'.blocks \in Seq(0 .. MaxForks) /\ Len(chain'.blocks) = Tip + 1
      /\ \A h \in 1 .. Tip : chain'.blocks[h] = chain.blocks[h]
      /\ chain'.blocks[Tip + 1] = forks
  BY <1>0, <1>3, <1>4
<1>6. chain' \in ChainType
  BY <1>0, <1>2, <1>3, <1>4, <1>5 DEF ChainType
<1>7. Tip' = Tip + 1
  BY <1>5 DEF Tip
<1>8. SourceTypeOK'
  BY <1>0, <1>3, <1>4, <1>6, <1>7, SMTT(30) DEF SourceTypeOK, ChainType
<1>9. ChainOK'
  BY <1>0, <1>3, <1>5, <1>7 DEF ChainOK
<1>. QED BY <1>0, <1>3, <1>4, <1>5, <1>7, <1>8, <1>9 DEF ChainMoved

\* The next block becomes final.
LEMMA FinalizeMoves == ASSUME SourceTypeOK, ChainOK, Finalize PROVE ChainMoved
<1>0. /\ chain \in ChainType /\ Tip \in 1 .. MaxHeight /\ chain.final < Tip
      /\ chain' = [chain EXCEPT !.final = @ + 1] /\ UNCHANGED <<forks, seen>>
      /\ forks \in 0 .. MaxForks
  BY DEF SourceTypeOK, ChainType, Finalize
<1>1. /\ chain' \in ChainType /\ chain'.final = chain.final + 1 /\ chain'.source = chain.source
      /\ chain'.blocks = chain.blocks /\ chain'.at = chain.at /\ chain'.says = chain.says
      /\ chain.final \in Nat
  BY <1>0 DEF ChainType
<1>2. Tip' = Tip
  BY <1>1 DEF Tip
<1>. QED BY <1>0, <1>1, <1>2 DEF ChainMoved, SourceTypeOK, ChainOK, ChainType

\* A reorganization replaces what is not final.
LEMMA ReorganizeMoves == ASSUME SourceTypeOK, ChainOK, Reorganize PROVE ChainMoved
<1>. USE SourceAssumption
<1>0. /\ chain \in ChainType /\ Tip \in 1 .. MaxHeight /\ Tip = Len(chain.blocks)
      /\ forks \in 0 .. MaxForks /\ chain.final <= Tip /\ chain.at <= Tip
      /\ chain.final \in Nat /\ chain.at \in Nat /\ chain.says \in Messages
      /\ forks' = forks + 1 /\ forks < MaxForks /\ seen' = seen
  BY DEF SourceTypeOK, ChainType, Tip, Reorganize
<1>1. PICK h \in chain.final .. Tip - 1 :
     \E at \in IF chain.at \in 1 .. h THEN {chain.at} ELSE {0} \cup (h + 1 .. Tip) :
     \E says \in IF at \in 0 .. h THEN {chain.says} ELSE Messages :
       chain' = [chain EXCEPT !.at = at, !.says = says,
                   !.blocks = [i \in 1 .. Tip |-> IF i <= h THEN @[i] ELSE forks + 1]]
  BY DEF Reorganize
<1>2. PICK at \in IF chain.at \in 1 .. h THEN {chain.at} ELSE {0} \cup (h + 1 .. Tip) :
     \E says \in IF at \in 0 .. h THEN {chain.says} ELSE Messages :
       chain' = [chain EXCEPT !.at = at, !.says = says,
                   !.blocks = [i \in 1 .. Tip |-> IF i <= h THEN @[i] ELSE forks + 1]]
  BY <1>1
<1>3. PICK says \in IF at \in 0 .. h THEN {chain.says} ELSE Messages :
       chain' = [chain EXCEPT !.at = at, !.says = says,
                   !.blocks = [i \in 1 .. Tip |-> IF i <= h THEN @[i] ELSE forks + 1]]
  BY <1>2
<1>. DEFINE blocks == [i \in 1 .. Tip |-> IF i <= h THEN chain.blocks[i] ELSE forks + 1]
<1>4. /\ blocks \in Seq(0 .. MaxForks) /\ Len(blocks) = Tip
  <2>1. \A i \in 1 .. Tip : chain.blocks[i] \in 0 .. MaxForks
    BY <1>0 DEF ChainType
  <2>2. Tip \in Nat /\ \A i \in 1 .. Tip : blocks[i] \in 0 .. MaxForks
    BY <1>0, <1>1, <2>1, SMTT(30)
  <2>3. blocks \in [1 .. Tip -> 0 .. MaxForks]
    BY <2>2
  <2>. HIDE DEF blocks
  <2>. QED BY <2>2, <2>3
<1>5. \A i \in 1 .. Tip : blocks[i] = IF i <= h THEN chain.blocks[i] ELSE forks + 1
  OBVIOUS
<1>6. /\ chain'.source = chain.source /\ chain'.blocks = blocks /\ chain'.at = at
      /\ chain'.says = says /\ chain'.final = chain.final
      /\ chain' = [chain EXCEPT !.at = at, !.says = says, !.blocks = blocks]
  BY <1>0, <1>3 DEF ChainType
<1>. HIDE DEF blocks
<1>7. /\ at \in Nat /\ at <= Tip /\ says \in Messages
      /\ chain.at \in 1 .. h => at = chain.at /\ says = chain.says
  BY <1>0, <1>1
<1>8. chain' \in ChainType
  BY <1>0, <1>4, <1>6, <1>7 DEF ChainType
<1>9. Tip' = Tip
  BY <1>4, <1>6 DEF Tip
<1>10. SourceTypeOK'
  <2>1. forks' \in 0 .. MaxForks /\ Tip' \in 1 .. MaxHeight
    BY <1>0, <1>9
  <2>2. chain'.final <= Tip' /\ chain'.at <= Tip'
    BY <1>0, <1>6, <1>7, <1>9
  <2>3. seen' \in [{"receipt", "head", "final", "canonical"} -> Int]
    BY <1>0 DEF SourceTypeOK
  <2>. QED BY <1>8, <2>1, <2>2, <2>3 DEF SourceTypeOK, ChainType
<1>11. ~ Instant(chain.source)
  BY <1>0, <1>1 DEF ChainOK
<1>12. ChainOK'
  <2>1. \A i \in 1 .. Tip : chain.blocks[i] \in 0 .. MaxForks /\ chain.blocks[i] <= forks
    BY <1>0 DEF ChainOK, ChainType
  <2>2. \A i \in 1 .. Tip : blocks[i] <= forks + 1
    BY <1>0, <1>5, <2>1
  <2>3. \A i \in 1 .. Tip' : chain'.blocks[i] <= forks'
    BY <1>0, <1>6, <1>9, <2>2
  <2>4. ~ Instant(chain'.source)
    BY <1>6, <1>11
  <2>. QED BY <2>3, <2>4 DEF ChainOK
<1>. QED BY <1>0, <1>1, <1>5, <1>6, <1>7, <1>9, <1>10, <1>12, SMTT(30) DEF ChainMoved

\* What was read of the source stays as good as it was.
LEMMA SourceStays ==
  ASSUME SourceTypeOK, event \in EventType, ChainMoved, UNCHANGED event, EventOK(event)
  PROVE  /\ EventOK(event)' /\ (SeenOK(event) => SeenOK(event)')
         /\ IsFinal(event, event.says) => IsFinal(event, event.says)'
<1>0. /\ event.height \in 1 .. Tip /\ event.fork \in 0 .. forks /\ Tip \in Nat /\ Tip' \in Nat
      /\ forks \in Nat /\ forks' \in Nat /\ chain.final \in Nat /\ chain'.final \in Nat
      /\ seen.final \in Int
      /\ \/ /\ chain'.blocks[event.height] = chain.blocks[event.height]
            /\ chain.at = event.height => chain'.at = event.height /\ chain'.says = chain.says
         \/ chain'.blocks[event.height] > forks /\ event.height > chain.final
  BY SMTT(30) DEF SourceTypeOK, ChainMoved, EventOK
<1>1. IsFinal(event, event.says) => IsFinal(event, event.says)'
  BY <1>0 DEF IsFinal, ChainMoved
<1>2. EventOK(event)'
  <2>1. event.height \in 1 .. Tip' /\ event.fork \in 0 .. forks'
    BY <1>0 DEF ChainMoved
  <2>2. chain'.blocks[event.height] = event.fork =>
          chain'.at = event.height /\ chain'.says = event.says
    BY <1>0 DEF EventOK
  <2>. QED BY <1>1, <2>1, <2>2 DEF EventOK, ChainMoved
<1>3. SeenOK(event) => SeenOK(event)'
  BY <1>0, <1>1 DEF SeenOK, ChainMoved
<1>. QED BY <1>1, <1>2, <1>3

\* The packet as it is read now.
LEMMA PacketRead ==
  ASSUME SourceTypeOK, ChainOK, Visible, request \in Requests, UNCHANGED <<chain, forks>>,
         event'.height = Packet.height, event'.fork = Packet.fork, event'.says = Packet.says
  PROVE  EventOK(event)'
<1>a. /\ Tip' = Tip /\ forks \in Nat /\ Tip \in Nat /\ Tip = Len(chain.blocks)
      /\ chain \in ChainType /\ chain.at <= Tip /\ chain.at # 0
  BY DEF SourceTypeOK, ChainType, Visible, Tip
<1>b. chain.at \in 1 .. Tip /\ chain.blocks \in Seq(0 .. MaxForks)
  BY <1>a DEF ChainType
<1>0. /\ chain.at \in 1 .. Tip /\ Tip' = Tip /\ forks \in Nat
      /\ event'.height = chain.at /\ event'.fork = chain.blocks[chain.at]
      /\ event'.says = chain.says
      /\ chain.blocks[chain.at] \in 0 .. MaxForks
  <2>1. /\ Packet.height = chain.at /\ Packet.fork = chain.blocks[chain.at]
        /\ Packet.says = chain.says
    BY DEF Packet
  <2>2. chain.blocks[chain.at] \in 0 .. MaxForks
    BY <1>b, ElementOfSeq DEF Tip
  <2>. QED BY <1>a, <1>b, <2>1, <2>2
<1>1. event'.fork \in 0 .. forks
  BY <1>0 DEF ChainOK
<1>2. Instant(chain.source) \/ chain.source = "solana" => chain.at <= chain.final
  BY <1>0 DEF ChainOK, Visible
<1>. QED BY <1>0, <1>1, <1>2 DEF EventOK, IsFinal

\* A read of the source, and what it shows.
LEMMA SourceReadKeeps ==
  ASSUME SourceTypeOK, ChainOK, event \in EventType, EventOK(event), SeenOK(event),
         SourceRead(event), UNCHANGED event
  PROVE  /\ SourceTypeOK' /\ ChainOK' /\ EventOK(event)' /\ SeenOK(event)'
         /\ UNCHANGED <<chain, forks>>
<1>. USE SourceAssumption
<1>0. /\ UNCHANGED <<chain, forks>> /\ Tip' = Tip
      /\ seen \in [{"receipt", "head", "final", "canonical"} -> Int]
      /\ chain \in ChainType /\ Tip \in Nat /\ forks \in Nat
  BY DEF SourceRead, ReadReceipt, ReadHead, ReadFinalized, ReadCanonical, Saw, SourceTypeOK,
         ChainType, Tip
<1>1. chain.final \in Int /\ chain.at \in Int /\ event.height \in 1 .. Tip
  BY <1>0 DEF ChainType, EventOK
<1>2. chain.blocks[event.height] \in Int
  BY <1>0, <1>1 DEF ChainType, Tip
<1>3. PICK r \in {"receipt", "head", "final", "canonical"}, v \in Int :
        /\ seen' = [seen EXCEPT ![r] = v]
        /\ r = "final" => v = chain.final
        /\ r = "canonical" => /\ v = chain.blocks[event.height]
                              /\ "final" \in Observer.reads => seen.final >= event.height
  <2>1. CASE ReadReceipt(event)
    BY <1>1, <2>1 DEF ReadReceipt, Saw
  <2>2. CASE ReadHead
    <3>. DEFINE head == IF chain.source = "solana" THEN chain.final ELSE Tip
    <3>1. head \in Int /\ seen' = [seen EXCEPT !["head"] = head]
      BY <1>0, <1>1, <2>2 DEF ReadHead, Saw
    <3>. HIDE DEF head
    <3>. QED BY <3>1
  <2>3. CASE ReadFinalized
    BY <1>1, <2>3 DEF ReadFinalized, Saw
  <2>4. CASE ReadCanonical(event)
    BY <1>2, <2>4 DEF ReadCanonical, Saw
  <2>. QED BY <2>1, <2>2, <2>3, <2>4 DEF SourceRead
<1>4. SourceTypeOK'
  BY <1>0, <1>3 DEF SourceTypeOK, ChainType
<1>5. ChainOK' /\ EventOK(event)' /\ (IsFinal(event, event.says) => IsFinal(event, event.says)')
  BY <1>0 DEF ChainOK, EventOK, IsFinal
<1>6. seen'.final <= chain.final
  BY <1>0, <1>1, <1>3 DEF SeenOK
<1>7. ASSUME chain.source = "final", seen'.canonical = event.fork
      PROVE  IsFinal(event, event.says)
  <2>1. CASE r = "canonical"
    <3>1. "final" \in Observer.reads
      BY <1>7 DEF Observer, FinalObserver, EvmObserver
    <3>2. seen.final \in Int /\ seen.final >= event.height /\ seen.final <= chain.final
      BY <1>0, <1>3, <2>1, <3>1 DEF SeenOK
    <3>3. chain.blocks[event.height] = event.fork
      BY <1>0, <1>3, <1>7, <2>1
    <3>. QED BY <1>1, <3>2, <3>3 DEF EventOK, IsFinal
  <2>2. CASE r # "canonical"
    BY <1>0, <1>3, <1>7, <2>2 DEF SeenOK
  <2>. QED BY <2>1, <2>2
<1>8. SeenOK(event)'
  BY <1>0, <1>5, <1>6, <1>7 DEF SeenOK
<1>. QED BY <1>0, <1>4, <1>5, <1>8

\* Enough confirmations of an event's block, where blocks become final.
LEMMA SufficientIsFinal ==
  ASSUME EventOK(event), SeenOK(event), NEW n \in Int, Sufficient(event, n),
         Final(chain.source)
  PROVE  IsFinal(event, event.says)
<1>1. CASE chain.source = "final"
  <2>1. "canonical" \in Observer.reads
    BY <1>1 DEF Observer, FinalObserver, EvmObserver
  <2>. QED BY <1>1, <2>1 DEF Sufficient, FinalBlock, SeenOK
<1>2. CASE chain.source # "final"
  BY <1>2 DEF Final, EventOK
<1>. QED BY <1>1, <1>2

-----------------------------------------------------------------------------
(* The destination. *)

LookupType ==
  [since : {"none", "open", "committed", "delivered"}, record : Records,
   got : [Parts -> {"unread", "yes", "no", "other"}]]

\* How the destination moves.
DestMoved ==
  /\ LookupTypeOK' /\ lookup' = lookup
  /\ dest'.family = dest.family /\ dest'.required = dest.required /\ dest'.reads = dest.reads
  /\ dest.packet = "delivered" => dest'.packet = "delivered"
  /\ dest.packet = "committed" => dest'.packet # "open"
  /\ dest'.packet = "open" => dest.packet = "open" /\ dest'.record >= dest.record

\* A record is stored, the packet committed or delivered.
LEMMA DestMoves ==
  ASSUME LookupTypeOK, Verify \/ CommitPacket \/ Deliver
  PROVE  DestMoved
<1>. USE RequiredAssumption
<1>0. /\ dest.record \in Int /\ NoRecord \in Int /\ Required \subseteq Int
      /\ dest.packet \in {"open", "committed", "delivered"}
  <2>1. dest.record \in {NoRecord} \cup Required /\ dest.packet \in {"open", "committed", "delivered"}
    BY DEF LookupTypeOK, Destinations, Records
  <2>2. NoRecord \in Int /\ Required \subseteq Int
    BY DEF NoRecord
  <2>. QED BY <2>1, <2>2
<1>1. CASE Verify
  <2>1. PICK n \in Required : n > dest.record /\ dest' = [dest EXCEPT !.record = n]
    BY <1>1 DEF Verify
  <2>2. dest' \in Destinations /\ dest.packet = "open" /\ lookup' = lookup
    BY <1>1, <2>1 DEF Verify, LookupTypeOK, Destinations, Records
  <2>. QED BY <1>0, <2>1, <2>2 DEF DestMoved, LookupTypeOK, Destinations
<1>2. CASE CommitPacket
  <2>1. PICK r \in {dest.record, NoRecord} :
          dest' = [dest EXCEPT !.packet = "committed", !.record = r]
    BY <1>2 DEF CommitPacket
  <2>2. r \in Records
    BY <2>1 DEF LookupTypeOK, Destinations, Records
  <2>3. dest' \in Destinations /\ dest.packet = "open" /\ lookup' = lookup
    BY <1>2, <2>1, <2>2 DEF CommitPacket, LookupTypeOK, Destinations
  <2>. QED BY <2>1, <2>3 DEF DestMoved, LookupTypeOK, Destinations
<1>3. CASE Deliver
  <2>1. /\ dest' = [dest EXCEPT !.packet = "delivered"] /\ dest.packet = "committed"
        /\ lookup' = lookup
    BY <1>3 DEF Deliver
  <2>2. dest' \in Destinations
    BY <2>1 DEF LookupTypeOK, Destinations
  <2>. QED BY <2>1, <2>2 DEF DestMoved, LookupTypeOK, Destinations
<1>. QED BY <1>1, <1>2, <1>3

\* A record is counted as long as family and requirement are the same.
LEMMA SameCount ==
  ASSUME dest'.family = dest.family, dest'.required = dest.required, lookup'.record = lookup.record
  PROVE  /\ Looks' = Looks /\ RecordFirst' = RecordFirst /\ RecordGap' = RecordGap
         /\ Counts(lookup.record)' = Counts(lookup.record)
         /\ Enough(lookup.record)' = Enough(lookup.record)
<1>1. Looks' = Looks
  BY DEF Looks
<1>. QED BY <1>1 DEF RecordFirst, RecordGap, Counts, Enough

\* So is whether it was signed for when the lookup began.
LEMMA SameBefore ==
  ASSUME dest'.family = dest.family, dest'.required = dest.required,
         lookup'.record = lookup.record, lookup'.since = lookup.since, Verifier' = Verifier
  PROVE  SignedBefore(Verifier)' = SignedBefore(Verifier)
BY SameCount DEF SignedBefore

\* What was stored in time is counted, unless the record has a gap.
LEMMA EnoughCounts ==
  ASSUME LookupTypeOK, Enough(lookup.record), ~ RecordGap
  PROVE  Counts(lookup.record) /\ RecordFirst
<1>1. lookup.record \in Records
  BY DEF LookupTypeOK
<1>2. lookup.record \in Int /\ lookup.record >= -1 /\ NoRecord = -1
  <2>1. NoRecord = -1 /\ \A n \in Required : n \in Nat
    BY RequiredAssumption DEF NoRecord
  <2>2. \A n \in {NoRecord} \cup Required : n \in Int /\ n >= -1
    BY <2>1
  <2>. QED BY <1>1, <2>1, <2>2 DEF Records
<1>. QED BY <1>2 DEF Enough, Counts, RecordGap

\* What the lookup has been answered stays as good as it was.
LEMMA LookupStays ==
  ASSUME LookupTypeOK, LookupOK(Verifier), DestMoved, Verifier' = Verifier
  PROVE  LookupOK(Verifier)'
<1>. USE RequiredAssumption
<1>0. /\ dest.record \in Int /\ dest'.record \in Int /\ dest.required \in Int
      /\ NoRecord = -1 /\ dest.record >= -1 /\ dest'.record >= -1
  <2>1. /\ dest.record \in {NoRecord} \cup Required /\ dest'.record \in {NoRecord} \cup Required
        /\ dest.required \in Required
    BY DEF LookupTypeOK, DestMoved, Destinations, Records
  <2>2. NoRecord = -1 /\ \A n \in Required : n \in Nat
    BY DEF NoRecord
  <2>3. \A n \in {NoRecord} \cup Required : n \in Int /\ n >= -1
    BY <2>2
  <2>. QED BY <2>1, <2>2, <2>3
<1>1. /\ Looks' = Looks /\ RecordFirst' = RecordFirst /\ Asked' = Asked
      /\ Counts(lookup.record)' = Counts(lookup.record)
      /\ SignedBefore(Verifier)' = SignedBefore(Verifier)
  BY SameCount, SameBefore DEF DestMoved, Asked
<1>2. dest'.packet = "open" /\ Counts(dest.record) => Counts(dest.record)'
  BY <1>0, <1>1 DEF Counts, Enough, DestMoved
<1>3. dest.packet \in {"open", "committed", "delivered"}
  BY DEF LookupTypeOK, Destinations
<1>4. /\ dest'.packet = "open" => dest.packet = "open"
      /\ dest.packet = "delivered" => dest'.packet = "delivered"
      /\ dest'.family = dest.family /\ lookup' = lookup
  BY DEF DestMoved
<1>. QED BY <1>1, <1>2, <1>3, <1>4 DEF LookupOK, Got

\* The lookup begins.
LEMMA AskKeeps ==
  ASSUME LookupTypeOK, Ask, Verifier' = Verifier
  PROVE  LookupTypeOK' /\ LookupOK(Verifier)' /\ Asked' /\ dest' = dest
<1>0. /\ lookup = NotAsked /\ dest' = dest
      /\ lookup' = [lookup EXCEPT !.since = dest.packet, !.record = dest.record]
      /\ dest.packet \in {"open", "committed", "delivered"} /\ dest.record \in Records
      /\ lookup \in LookupType
  BY DEF Ask, LookupTypeOK, LookupType, Destinations
<1>1. /\ lookup' \in LookupType /\ lookup'.since = dest.packet /\ lookup'.record = dest.record
      /\ lookup'.got = lookup.got
  BY <1>0 DEF LookupType
<1>2. \A r \in Parts : lookup'.got[r] = "unread"
  BY <1>0, <1>1 DEF NotAsked, Parts
<1>3. LookupTypeOK'
  BY <1>0, <1>1 DEF LookupTypeOK, LookupType
<1>4. Asked'
  BY <1>0, <1>1 DEF Asked
<1>5. Counts(lookup.record)' = Counts(dest.record)'
  BY <1>0, <1>1 DEF Counts, Enough, Looks
<1>. QED BY <1>0, <1>1, <1>2, <1>3, <1>4, <1>5 DEF LookupOK, Got, Parts

\* After which state the nonce is asked for.
LEMMA DoubtsOf ==
  ASSUME dest.family \in Families
  PROVE  Looks.doubts = IF dest.family = "aptos" THEN "no"
                        ELSE IF dest.family = "stellar" THEN "yes" ELSE "none"
BY DEF Families, Looks, EvmLookup, SolanaLookup, StarknetLookup, TonLookup, AptosLookup,
       MoveLookup, SuiLookup, StellarLookup, CantonLookup

\* A read of one part.
LEMMA PartKeeps ==
  ASSUME LookupTypeOK, LookupOK(Verifier), NEW r \in Parts, ReadPart(r, Verifier),
         Verifier' = Verifier
  PROVE  LookupTypeOK' /\ LookupOK(Verifier)' /\ Asked' /\ dest' = dest
         /\ lookup'.since = lookup.since
<1>0. /\ dest' = dest /\ lookup \in LookupType /\ Asked
      /\ Looks.first # "both" /\ Outstanding(r, Verifier)
      /\ \A b \in Before(r) : ~ Outstanding(b, Verifier)
      /\ dest.packet \in {"open", "committed", "delivered"} /\ dest.family \in Families
  BY DEF ReadPart, LookupTypeOK, LookupType, Destinations
<1>1. PICK a \in Answers(r) : lookup' = [lookup EXCEPT !.got[r] = a]
  BY DEF ReadPart
<1>2. a \in {"yes", "no", "other"} /\ (r # "state" => a # "other")
  BY <1>1 DEF Answers, YesNo, Parts
<1>3. /\ lookup' \in LookupType /\ lookup'.since = lookup.since
      /\ lookup'.record = lookup.record /\ lookup'.got[r] = a
      /\ \A q \in Parts \ {r} : lookup'.got[q] = lookup.got[q]
  BY <1>0, <1>1, <1>2 DEF LookupType
<1>4. LookupTypeOK' /\ Asked'
  BY <1>0, <1>3 DEF LookupTypeOK, LookupType, Asked
<1>5. /\ Looks' = Looks /\ RecordFirst' = RecordFirst
      /\ Counts(lookup.record)' = Counts(lookup.record)
      /\ Counts(dest.record)' = Counts(dest.record)
      /\ SignedBefore(Verifier)' = SignedBefore(Verifier)
  <2>1. Looks' = Looks /\ Counts(dest.record)' = Counts(dest.record)
    BY <1>0 DEF Looks, Counts, Enough
  <2>. QED BY <1>0, <1>3, <2>1, SameCount, SameBefore
<1>6. lookup.got[r] = "unread"
  BY <1>0 DEF Outstanding, Got
<1>7. CASE r = "record"
  <2>1. a = YesNo(Counts(dest.record))
    BY <1>1, <1>7 DEF Answers
  <2>2. a = "no" /\ Counts(lookup.record) => dest.packet # "open"
    BY <2>1 DEF YesNo, LookupOK
  <2>3. /\ lookup'.got["record"] = a /\ lookup'.got["state"] = lookup.got["state"]
        /\ lookup'.got["nonce"] = lookup.got["nonce"] /\ lookup'.got["hash"] = lookup.got["hash"]
    BY <1>3, <1>7 DEF Parts
  <2>. QED BY <1>0, <1>2, <1>3, <1>4, <1>5, <1>6, <1>7, <2>2, <2>3 DEF LookupOK, Got
<1>8. CASE r = "state"
  <2>1. /\ lookup'.got["state"] = a /\ lookup'.got["record"] = lookup.got["record"]
        /\ lookup'.got["nonce"] = lookup.got["nonce"] /\ lookup'.got["hash"] = lookup.got["hash"]
    BY <1>3, <1>8 DEF Parts
  <2>2. a = "no" /\ dest.packet # "open" => dest.family = "aptos"
    BY <1>1, <1>8 DEF Answers, YesNo
  <2>3. RecordFirst /\ Verifier => lookup.got["record"] # "unread"
    <3>1. ASSUME RecordFirst, Verifier PROVE ~ Outstanding("record", Verifier)
      BY <1>0, <1>8, <3>1 DEF RecordFirst, Before
    <3>. QED BY <3>1 DEF Outstanding, Wanted, Got
  <2>4. SignedBefore(Verifier) /\ lookup.got["record"] # "yes" => dest.packet # "open"
    <3>1. lookup.got["record"] \in {"unread", "yes", "no", "other"}
      BY <1>0 DEF LookupType, Parts
    <3>2. SignedBefore(Verifier) => \/ lookup.since \in {"committed", "delivered"}
                                    \/ Counts(lookup.record) /\ RecordFirst /\ Verifier
      BY EnoughCounts DEF SignedBefore
    <3>3. lookup.since \in {"committed", "delivered"} => dest.packet # "open"
      BY <1>0 DEF LookupOK
    <3>4. lookup.got["record"] # "other"
      BY DEF LookupOK, Got
    <3>. QED BY <2>3, <3>1, <3>2, <3>3, <3>4 DEF LookupOK, Got
  <2>. QED BY <1>0, <1>2, <1>3, <1>4, <1>5, <1>8, <2>1, <2>2, <2>3, <2>4 DEF LookupOK, Got
<1>9. CASE r = "nonce"
  <2>1. /\ lookup'.got["nonce"] = a /\ lookup'.got["record"] = lookup.got["record"]
        /\ lookup'.got["state"] = lookup.got["state"] /\ lookup'.got["hash"] = lookup.got["hash"]
    BY <1>3, <1>9 DEF Parts
  <2>2. a = "no" => dest.packet # "delivered"
    BY <1>1, <1>9 DEF Answers, YesNo
  <2>3. Looks.doubts \in {"yes", "no", "none"}
    BY <1>0, DoubtsOf
  <2>4. lookup.got["state"] = Looks.doubts
    BY <1>0, <1>9 DEF Outstanding, Wanted, Got
  <2>5. lookup.got["state"] # "unread"
    BY <2>3, <2>4
  <2>. QED BY <1>0, <1>2, <1>3, <1>4, <1>5, <1>9, <2>1, <2>2, <2>5 DEF LookupOK, Got
<1>10. CASE r = "hash"
  <2>1. /\ lookup'.got["nonce"] = lookup.got["nonce"] /\ lookup'.got["record"] = lookup.got["record"]
        /\ lookup'.got["state"] = lookup.got["state"] /\ lookup'.got["hash"] = a
    BY <1>3, <1>10 DEF Parts
  <2>2. a = "no" => dest.packet # "committed"
    BY <1>1, <1>10 DEF Answers, YesNo
  <2>3. lookup.got["nonce"] = "no" /\ lookup.got["state"] # "unread"
    BY <1>0, <1>10 DEF Outstanding, Wanted, Got, LookupOK
  <2>4. a # "other"
    BY <1>2, <1>10
  <2>5. SignedBefore(Verifier) /\ lookup.got["record"] # "yes" /\ a = "no" => dest.packet = "delivered"
    BY <1>0, <2>2, <2>3 DEF LookupOK, Got
  <2>. QED BY <1>0, <1>3, <1>4, <1>5, <1>10, <2>1, <2>3, <2>4, <2>5 DEF LookupOK, Got
<1>. QED BY <1>7, <1>8, <1>9, <1>10 DEF Parts

\* Solana's two parts at once.
LEMMA AccountsKeep ==
  ASSUME LookupTypeOK, LookupOK(Verifier), ReadAccounts, Verifier' = Verifier
  PROVE  LookupTypeOK' /\ LookupOK(Verifier)' /\ Asked' /\ dest' = dest
         /\ lookup'.since = lookup.since
<1>0. /\ dest' = dest /\ lookup \in LookupType /\ Asked
      /\ dest.packet \in {"open", "committed", "delivered"} /\ Got("state") = "unread"
      /\ lookup' = [lookup EXCEPT !.got["record"] = YesNo(Counts(dest.record)),
                                  !.got["state"] = YesNo(dest.packet # "open")]
  BY DEF ReadAccounts, LookupTypeOK, LookupType, Destinations
<1>1. YesNo(Counts(dest.record)) \in {"yes", "no"} /\ YesNo(dest.packet # "open") \in {"yes", "no"}
  BY DEF YesNo
<1>2. /\ lookup' \in LookupType /\ lookup'.since = lookup.since
      /\ lookup'.record = lookup.record
      /\ lookup'.got["record"] = YesNo(Counts(dest.record))
      /\ lookup'.got["state"] = YesNo(dest.packet # "open")
      /\ lookup'.got["nonce"] = lookup.got["nonce"] /\ lookup'.got["hash"] = lookup.got["hash"]
  BY <1>0, <1>1 DEF LookupType, Parts
<1>3. LookupTypeOK' /\ Asked'
  BY <1>0, <1>2 DEF LookupTypeOK, LookupType, Asked
<1>4. /\ RecordFirst' = RecordFirst /\ Counts(dest.record)' = Counts(dest.record)
      /\ Counts(lookup.record)' = Counts(lookup.record)
      /\ SignedBefore(Verifier)' = SignedBefore(Verifier)
  <2>1. Looks' = Looks /\ Counts(dest.record)' = Counts(dest.record)
    BY <1>0 DEF Looks, Counts, Enough
  <2>. QED BY <1>0, <1>2, <2>1, SameCount, SameBefore
<1>5. SignedBefore(Verifier) /\ dest.packet = "open" => Counts(dest.record)
  BY EnoughCounts DEF SignedBefore, LookupOK
<1>6. lookup.got["nonce"] = "unread" /\ lookup.got["hash"] = "unread"
  BY <1>0 DEF LookupOK, Got
<1>. QED BY <1>0, <1>2, <1>3, <1>4, <1>5, <1>6 DEF LookupOK, Got, YesNo

\* Whatever the observer reads next.
LEMMA LookupReadKeeps ==
  ASSUME LookupTypeOK, LookupOK(Verifier), LookupRead(Verifier), Verifier' = Verifier
  PROVE  LookupTypeOK' /\ LookupOK(Verifier)' /\ Asked' /\ dest' = dest
         /\ lookup'.since = lookup.since
BY PartKeeps, AccountsKeep DEF LookupRead

\* What an observer may miss of a packet that was signed for when it began.
OnlyGaps ==
  /\ lookup.since # "open" => PacketGap
  /\ Verifier /\ Enough(lookup.record) => RecordGap \/ PacketGap

\* An observer that answers "not signed" tells the truth of when it began, but for
\* the gaps.
LEMMA NotSignedMeans ==
  ASSUME LookupTypeOK, LookupOK(Verifier), NotSigned(Verifier), dest.family # "evm" => Verifier
  PROVE  OnlyGaps
<1>0. /\ dest.family \in Families /\ lookup.since \in {"open", "committed", "delivered"}
      /\ \A r \in Parts : lookup.got[r] \in {"unread", "yes", "no", "other"}
  BY DEF LookupTypeOK, NotSigned, Asked, Destinations
<1>1. /\ \A r \in Parts : ~ Outstanding(r, Verifier)
      /\ Got("record") # "yes" /\ (Got("state") = "yes" => Looks.doubts = "yes")
      /\ Got("nonce") # "yes" /\ Got("hash") # "yes"
  BY DEF NotSigned, Signed
<1>2. Verifier => Got("record") # "unread"
  BY <1>1 DEF Outstanding, Wanted, Parts
<1>3. Verifier => Got("record") = "no"
  BY <1>0, <1>1, <1>2 DEF LookupOK, Parts, Got
<1>4. Got("state") # "unread"
  <2>1. Wanted("state", Verifier)
    BY <1>3 DEF Wanted
  <2>. QED BY <1>1, <2>1 DEF Outstanding, Parts
<1>5. Got("state") \in {"yes", "no", "other"}
  BY <1>0, <1>4 DEF Parts, Got
<1>6. ASSUME SignedBefore(Verifier), Got("state") # "other" PROVE PacketGap
  <2>1. Wanted("nonce", Verifier)
    <3>1. CASE Got("state") = "no"
      <4>1. dest.family = "aptos"
        BY <1>1, <1>6, <3>1 DEF LookupOK
      <4>. QED BY <1>0, <3>1, <4>1, DoubtsOf DEF Wanted
    <3>2. CASE Got("state") = "yes"
      <4>1. Looks.doubts = "yes" /\ dest.family = "stellar"
        BY <1>0, <1>1, <3>2, DoubtsOf
      <4>. QED BY <1>3, <3>2, <4>1 DEF Wanted
    <3>. QED BY <1>5, <1>6, <3>1, <3>2
  <2>2. Got("nonce") = "no"
    BY <1>0, <1>1, <2>1 DEF Outstanding, Parts, Got, LookupOK
  <2>3. Got("hash") = "no"
    <3>1. Wanted("hash", Verifier)
      BY <2>2 DEF Wanted
    <3>. QED BY <1>0, <1>1, <3>1 DEF Outstanding, Parts, Got, LookupOK
  <2>. QED BY <1>1, <1>6, <2>2, <2>3 DEF LookupOK, PacketGap
<1>7. SignedBefore(Verifier) => PacketGap
  BY <1>6 DEF PacketGap
<1>. QED BY <1>0, <1>7 DEF SignedBefore, OnlyGaps

-----------------------------------------------------------------------------
(* The chain a READ command reads. *)

Marker == [time : Int, height : Int, confirmations : Int]
TargetType == [forks : Seq(0 .. TargetForks), times : Seq(Nat)]
ReadingType ==
  [headers : [Heights -> Blocks], latest : [Heights -> 0 .. TargetHeight],
   pins : SUBSET [height : Heights, fork : 0 .. TargetForks],
   answers : SUBSET [marker : Marker, block : Blocks]]

ForkAt(h) == target.forks[h]
TimeAt(h) == target.times[h]

\* How the target moves.
TargetMoved ==
  /\ ReadTypeOK' /\ reading' = reading /\ reorgs' >= reorgs /\ TargetTip' >= TargetTip
  /\ \A h \in 1 .. TargetTip' : ForkAt(h)' <= reorgs'
  /\ \A h \in 1 .. TargetTip :
       \/ \A i \in 1 .. h : ForkAt(i)' = ForkAt(i) /\ TimeAt(i)' = TimeAt(i)
       \/ ForkAt(h)' > reorgs /\ h > TargetTip - Depth

\* The fields, as numbers.
LEMMA TargetNumbers ==
  ASSUME ReadTypeOK
  PROVE  /\ TargetTip \in Heights /\ TargetTip \in Nat /\ reorgs \in Nat
         /\ \A h \in 1 .. TargetTip : ForkAt(h) \in 0 .. TargetForks /\ TimeAt(h) \in Nat
         /\ reading \in ReadingType /\ target \in TargetType
<1>1. /\ TargetTip \in Heights /\ TargetTip \in Nat /\ reorgs \in Nat
      /\ reading \in ReadingType /\ target \in TargetType
  BY DEF ReadTypeOK, Heights, ReadingType, Marker, TargetType
<1>2. target.forks \in Seq(0 .. TargetForks) /\ target.times \in Seq(Nat)
      /\ TargetTip = Len(target.forks) /\ TargetTip = Len(target.times)
  BY DEF ReadTypeOK, TargetTip
<1>. QED BY <1>1, <1>2, ElementOfSeq DEF ForkAt, TimeAt

\* A block is added to the target.
LEMMA GrowMoves ==
  ASSUME ReadTypeOK, TargetGrows, \A h \in 1 .. TargetTip : ForkAt(h) <= reorgs
  PROVE  TargetMoved
<1>. USE TargetAssumption
<1>1. PICK time \in TimesOf(TargetTip + 1) :
        target' = [forks |-> Append(target.forks, reorgs), times |-> Append(target.times, time)]
  BY DEF TargetGrows
<1>2. /\ target.forks \in Seq(0 .. TargetForks) /\ target.times \in Seq(Nat)
      /\ TargetTip = Len(target.forks) /\ TargetTip = Len(target.times) /\ TargetTip \in Nat
      /\ TargetTip < TargetHeight /\ reorgs \in 0 .. TargetForks /\ UNCHANGED <<reorgs, reading>>
  BY DEF ReadTypeOK, TargetTip, TargetGrows, Heights
<1>3. time \in Nat
  BY <1>2 DEF TimesOf
<1>4. /\ target'.forks = Append(target.forks, reorgs) /\ target'.times = Append(target.times, time)
  BY <1>1
<1>5. /\ target'.forks \in Seq(0 .. TargetForks) /\ target'.times \in Seq(Nat)
      /\ Len(target'.forks) = TargetTip + 1 /\ Len(target'.times) = TargetTip + 1
      /\ \A h \in 1 .. TargetTip : /\ target'.forks[h] = target.forks[h]
                                   /\ target'.times[h] = target.times[h]
      /\ target'.forks[TargetTip + 1] = reorgs
  <2>1. /\ target'.forks \in Seq(0 .. TargetForks) /\ Len(target'.forks) = TargetTip + 1
        /\ \A h \in 1 .. TargetTip : target'.forks[h] = target.forks[h]
        /\ target'.forks[TargetTip + 1] = reorgs
    <3>. DEFINE grown == Append(target.forks, reorgs)
    <3>1. /\ grown \in Seq(0 .. TargetForks) /\ Len(grown) = Len(target.forks) + 1
          /\ \A h \in 1 .. Len(target.forks) : grown[h] = target.forks[h]
          /\ grown[Len(target.forks) + 1] = reorgs
      <4>1. target.forks \in Seq(0 .. TargetForks) /\ reorgs \in 0 .. TargetForks
        BY <1>2
      <4>. QED BY <4>1
    <3>. HIDE DEF grown
    <3>2. target'.forks = grown
      BY <1>4 DEF grown
    <3>. QED BY <1>2, <3>1, <3>2
  <2>2. /\ target'.times \in Seq(Nat) /\ Len(target'.times) = TargetTip + 1
        /\ \A h \in 1 .. TargetTip : target'.times[h] = target.times[h]
    BY <1>2, <1>3, <1>4
  <2>. QED BY <2>1, <2>2
<1>6. TargetTip' = TargetTip + 1 /\ target' \in TargetType
  BY <1>1, <1>5 DEF TargetTip, TargetType
<1>7. ReadTypeOK'
  BY <1>2, <1>5, <1>6, SMTT(30) DEF ReadTypeOK, TargetType, Heights
<1>8. \A h \in 1 .. TargetTip : ForkAt(h)' = ForkAt(h) /\ TimeAt(h)' = TimeAt(h)
  BY <1>5 DEF ForkAt, TimeAt
<1>10. ASSUME NEW h \in 1 .. TargetTip' PROVE ForkAt(h)' <= reorgs'
  <2>1. CASE h = TargetTip + 1
    BY <1>2, <1>5, <2>1 DEF ForkAt
  <2>2. CASE h \in 1 .. TargetTip
    BY <1>2, <1>8, <2>2
  <2>. QED BY <1>2, <1>6, <2>1, <2>2
<1>11. ASSUME NEW h \in 1 .. TargetTip, NEW i \in 1 .. h
       PROVE  ForkAt(i)' = ForkAt(i) /\ TimeAt(i)' = TimeAt(i)
  BY <1>2, <1>8
<1>. QED BY <1>2, <1>6, <1>7, <1>10, <1>11 DEF TargetMoved

\* Up to Depth blocks of the target are replaced.
LEMMA ReplaceMoves ==
  ASSUME ReadTypeOK, TargetReorganizes, \A h \in 1 .. TargetTip : ForkAt(h) <= reorgs
  PROVE  TargetMoved
<1>. USE TargetAssumption
<1>0. /\ TargetTip \in Nat /\ TargetTip \in Heights /\ reorgs \in 0 .. TargetForks
      /\ reorgs < TargetForks /\ reorgs' = reorgs + 1 /\ reading' = reading
      /\ \A h \in 1 .. TargetTip : ForkAt(h) \in 0 .. TargetForks /\ TimeAt(h) \in Nat
  BY TargetNumbers DEF TargetReorganizes, ReadTypeOK
<1>1. PICK h \in TargetTip - Depth .. TargetTip - 1 :
       /\ h >= 0
       /\ \E late \in SUBSET (h + 1 .. TargetTip) :
            target' =
              [forks |-> [i \in 1 .. TargetTip |-> IF i <= h THEN target.forks[i] ELSE reorgs + 1],
               times |-> [i \in 1 .. TargetTip |-> IF i <= h THEN target.times[i] ELSE Late(i, late)]]
  BY DEF TargetReorganizes
<1>2. PICK late \in SUBSET (h + 1 .. TargetTip) :
            target' =
              [forks |-> [i \in 1 .. TargetTip |-> IF i <= h THEN target.forks[i] ELSE reorgs + 1],
               times |-> [i \in 1 .. TargetTip |-> IF i <= h THEN target.times[i] ELSE Late(i, late)]]
  BY <1>1
<1>. DEFINE F == [i \in 1 .. TargetTip |-> IF i <= h THEN target.forks[i] ELSE reorgs + 1]
            T == [i \in 1 .. TargetTip |-> IF i <= h THEN target.times[i] ELSE Late(i, late)]
<1>3. /\ \A i \in 1 .. TargetTip : F[i] = IF i <= h THEN ForkAt(i) ELSE reorgs + 1
      /\ \A i \in 1 .. TargetTip : i <= h => T[i] = TimeAt(i)
  BY DEF ForkAt, TimeAt
<1>4. F \in [1 .. TargetTip -> 0 .. TargetForks]
  BY <1>0, <1>1 DEF ForkAt
<1>5. T \in [1 .. TargetTip -> Nat]
  <2>1. \A i \in 1 .. TargetTip : Late(i, late) \in Nat
    BY <1>0 DEF Late
  <2>. QED BY <1>0, <1>1, <2>1 DEF TimeAt
<1>6. target' = [forks |-> F, times |-> T]
  BY <1>2
<1>. HIDE DEF F, T
<1>7. /\ F \in Seq(0 .. TargetForks) /\ Len(F) = TargetTip
      /\ T \in Seq(Nat) /\ Len(T) = TargetTip
  BY <1>0, <1>4, <1>5
<1>8. target'.forks = F /\ target'.times = T /\ target' \in TargetType /\ TargetTip' = TargetTip
  BY <1>6, <1>7 DEF TargetType, TargetTip
<1>9. ReadTypeOK'
  <2>1. reorgs' \in 0 .. TargetForks
    BY <1>0
  <2>. QED BY <1>0, <1>7, <1>8, <2>1 DEF ReadTypeOK, TargetType
<1>10. ASSUME NEW i \in 1 .. TargetTip PROVE ForkAt(i)' <= reorgs'
  <2>1. ForkAt(i)' = F[i]
    BY <1>8 DEF ForkAt
  <2>. QED BY <1>0, <1>3, <2>1
<1>11. ASSUME NEW i \in 1 .. TargetTip
       PROVE  \/ \A j \in 1 .. i : ForkAt(j)' = ForkAt(j) /\ TimeAt(j)' = TimeAt(j)
              \/ ForkAt(i)' > reorgs /\ i > TargetTip - Depth
  <2>1. CASE i <= h
    <3>1. ASSUME NEW j \in 1 .. i PROVE ForkAt(j)' = ForkAt(j) /\ TimeAt(j)' = TimeAt(j)
      <4>1. j \in 1 .. TargetTip /\ j <= h
        BY <1>0, <1>1, <2>1
      <4>2. ForkAt(j)' = F[j] /\ TimeAt(j)' = T[j]
        BY <1>8 DEF ForkAt, TimeAt
      <4>. QED BY <1>3, <4>1, <4>2
    <3>. QED BY <3>1
  <2>2. CASE i > h
    <3>1. ForkAt(i)' = reorgs + 1
      BY <1>1, <1>3, <1>8, <2>2 DEF ForkAt
    <3>. QED BY <1>0, <1>1, <2>2, <3>1
  <2>. QED BY <1>1, <2>1, <2>2
<1>. QED BY <1>0, <1>8, <1>9, <1>10, <1>11 DEF TargetMoved

\* A header, its fields as numbers.
LEMMA HeaderTyped ==
  ASSUME ReadTypeOK, NEW h \in Heights
  PROVE  /\ Header(h) \in Blocks /\ Header(h).fork \in Int /\ Header(h).time \in Int
         /\ Header(h).parent \in Int /\ Header(h).since \in Int
         /\ reading.latest[h] \in 0 .. TargetHeight
<1>1. reading.headers \in [Heights -> Blocks] /\ reading.latest \in [Heights -> 0 .. TargetHeight]
  BY DEF ReadTypeOK
<1>. QED BY <1>1 DEF Header, Blocks

\* A block's header is the four things that name it.
LEMMA BlockIs ==
  ASSUME NEW h \in Heights
  PROVE  /\ Block(h).fork = ForkAt(h) /\ Block(h).time = TimeAt(h)
         /\ h > 1 => Block(h).parent = ForkAt(h - 1) /\ Block(h).since = TimeAt(h - 1)
         /\ Block(h) = [fork |-> ForkAt(h), time |-> TimeAt(h),
                        parent |-> IF h = 1 THEN -1 ELSE ForkAt(h - 1),
                        since |-> IF h = 1 THEN 0 ELSE TimeAt(h - 1)]
<1>1. Block(h) = [fork |-> ForkAt(h), time |-> TimeAt(h),
                        parent |-> IF h = 1 THEN -1 ELSE ForkAt(h - 1),
                        since |-> IF h = 1 THEN 0 ELSE TimeAt(h - 1)]
  BY DEF Block, ForkAt, TimeAt
<1>2. h > 1 => h # 1
  BY DEF Heights
<1>. QED BY <1>1, <1>2

\* What was read of the target stays as good as it was.
LEMMA ReadingStays ==
  ASSUME ReadTypeOK, ReadingOK(AllMarkers), TargetMoved, AllMarkers' = AllMarkers,
         AllMarkers \subseteq Marker
  PROVE  ReadingOK(AllMarkers)'
<1>. USE TargetAssumption
<1>0. /\ TargetTip \in Nat /\ TargetTip' \in Nat /\ reorgs \in Nat /\ reorgs' \in Nat
      /\ reading' = reading /\ reorgs' >= reorgs /\ TargetTip' >= TargetTip
      /\ TargetTip \in Heights
  BY TargetNumbers DEF TargetMoved, ReadTypeOK, Heights
<1>1. \A h \in Heights : Header(h)' = Header(h)
  BY <1>0 DEF Header
<1>2. TimesCovered(AllMarkers)' = TimesCovered(AllMarkers)
  BY <1>0 DEF TimesCovered, HeadersRead, HeadersOf, Pinned, Covers, Header
<1>3. \A h \in 1 .. TargetTip' : target'.forks[h] <= reorgs'
  BY DEF TargetMoved, ForkAt
<1>4. ASSUME NEW h \in Heights, Header(h) # NoHeader PROVE HeaderOK(h)'
  <2>1. /\ h <= TargetTip /\ Header(h).fork \in 0 .. reorgs
        /\ ForkAt(h) = Header(h).fork => Block(h) = Header(h)
        /\ h > 1 =>
             /\ Header(h).parent \in 0 .. reorgs
             /\ ForkAt(h - 1) = Header(h).parent => TimeAt(h - 1) = Header(h).since
             /\ Header(h - 1).fork = Header(h).parent => Header(h - 1).time = Header(h).since
    BY <1>4 DEF ReadingOK, HeaderOK, ForkAt, TimeAt
  <2>2. h \in 1 .. TargetTip /\ (h > 1 => h - 1 \in 1 .. TargetTip)
    BY <1>0, <2>1 DEF Heights
  <2>3. ForkAt(h)' = Header(h).fork =>
          \A i \in 1 .. h : ForkAt(i)' = ForkAt(i) /\ TimeAt(i)' = TimeAt(i)
    BY <1>0, <2>1, <2>2 DEF TargetMoved
  <2>4. h > 1 /\ ForkAt(h - 1)' = Header(h).parent =>
          \A i \in 1 .. h - 1 : ForkAt(i)' = ForkAt(i) /\ TimeAt(i)' = TimeAt(i)
    BY <1>0, <2>1, <2>2 DEF TargetMoved
  <2>5. ASSUME ForkAt(h)' = Header(h).fork PROVE Block(h)' = Header(h)
    <3>1. /\ ForkAt(h)' = ForkAt(h) /\ TimeAt(h)' = TimeAt(h)
          /\ h # 1 => ForkAt(h - 1)' = ForkAt(h - 1) /\ TimeAt(h - 1)' = TimeAt(h - 1)
      BY <2>2, <2>3, <2>5
    <3>2. Block(h)' = Block(h)
      BY <3>1 DEF Block, ForkAt, TimeAt
    <3>. QED BY <2>1, <2>5, <3>1, <3>2
  <2>6. h > 1 /\ ForkAt(h - 1)' = Header(h).parent => TimeAt(h - 1)' = Header(h).since
    BY <2>1, <2>2, <2>4
  <2>7. h > 1 => Header(h - 1)' = Header(h - 1)
    BY <1>0 DEF Header
  <2>8. /\ h <= TargetTip' /\ Header(h).fork \in 0 .. reorgs'
        /\ h > 1 => Header(h).parent \in 0 .. reorgs'
    BY <1>0, <2>1, <2>2
  <2>. QED BY <1>1, <2>1, <2>5, <2>6, <2>7, <2>8 DEF HeaderOK, ForkAt, TimeAt
<1>5. ASSUME NEW h \in Heights, reading.latest[h] # 0
      PROVE  TimesCovered(AllMarkers) /\ reading.latest[h] <= TargetTip'
  <2>1. reading.latest[h] \in 0 .. TargetHeight
    BY HeaderTyped
  <2>2. TimesCovered(AllMarkers) /\ reading.latest[h] <= TargetTip
    BY <1>5 DEF ReadingOK
  <2>. QED BY <1>0, <2>1, <2>2
<1>6. ASSUME NEW p \in reading.pins PROVE PinOK(p, AllMarkers)'
  <2>1. /\ p.height \in Heights /\ p.fork \in 0 .. TargetForks
        /\ Header(p.height) # NoHeader /\ Header(p.height).fork = p.fork
        /\ reading.latest[p.height] # 0 /\ Confirmed(p.height, AllMarkers)
    BY DEF ReadTypeOK, ReadingOK, PinOK
  <2>2. Confirmed(p.height, AllMarkers)'
    BY <1>0, <2>1 DEF Confirmed
  <2>3. ASSUME NEW m \in AllMarkers, m.height = p.height, m.confirmations >= Depth
        PROVE  ForkAt(p.height)' = p.fork
    <3>1. /\ ForkAt(p.height) = p.fork /\ m.confirmations \in Int
          /\ reading.latest[p.height] >= p.height + m.confirmations
          /\ reading.latest[p.height] <= TargetTip /\ reading.latest[p.height] \in Nat
      BY <2>1, <2>3, HeaderTyped DEF ReadingOK, PinOK, ForkAt, Confirmed, Marker
    <3>2. p.height \in 1 .. TargetTip /\ p.height <= TargetTip - Depth
      BY <1>0, <2>1, <2>3, <3>1 DEF Heights
    <3>. QED BY <1>0, <3>1, <3>2 DEF TargetMoved
  <2>. QED BY <1>0, <1>1, <2>1, <2>2, <2>3 DEF PinOK, ForkAt
<1>7. ASSUME NEW a \in reading.answers
      PROVE  /\ a.marker \in AllMarkers /\ a.block = Header(a.marker.height)'
             /\ \E p \in reading.pins : p.height = a.marker.height
  BY <1>0 DEF ReadingOK, Header
<1>. QED BY <1>0, <1>1, <1>2, <1>3, <1>4, <1>5, <1>6, <1>7 DEF ReadingOK

\* A read that leaves the target alone and keeps what was read before.
ReadsOn ==
  /\ ReadTypeOK' /\ UNCHANGED <<target, reorgs>> /\ AllMarkers' = AllMarkers
  /\ TargetTip' = TargetTip
  /\ \A h \in Heights : Header(h) # NoHeader => Header(h)' = Header(h)

\* The times that were covered stay covered.
LEMMA CoveredStays ==
  ASSUME ReadsOn, TimesCovered(AllMarkers), AllMarkers \subseteq Marker
  PROVE  TimesCovered(AllMarkers)'
<1>1. HeadersOf(AllMarkers)' = HeadersOf(AllMarkers)
  BY DEF ReadsOn, HeadersOf, Pinned
<1>2. \A h \in HeadersOf(AllMarkers) : Header(h)' = Header(h) /\ Header(h) # NoHeader
  BY DEF ReadsOn, TimesCovered, HeadersRead
<1>3. ASSUME NEW m \in AllMarkers, m.time # ByNumber PROVE Covers(m)'
  <2>1. Covers(m) /\ Header(m.height)' = Header(m.height)
    BY <1>2, <1>3 DEF TimesCovered, HeadersOf, Pinned
  <2>2. CASE m.height = 1
    BY <2>1, <2>2 DEF Covers
  <2>3. CASE m.height # 1
    <3>1. m.height > 1
      BY <1>3, <2>3 DEF TimesCovered, HeadersRead, HeadersOf, Pinned, Heights
    <3>2. m.height - 1 \in HeadersOf(AllMarkers)
      BY <1>3, <3>1 DEF HeadersOf
    <3>3. Header(m.height - 1)' = Header(m.height - 1)
      BY <1>2, <3>2
    <3>. QED BY <2>1, <2>3, <3>3 DEF Covers
  <2>. QED BY <2>2, <2>3
<1>. QED BY <1>1, <1>2, <1>3 DEF TimesCovered, HeadersRead, ReadsOn

\* Pins and answers made before a read are as good after it.
LEMMA PinStays ==
  ASSUME ReadTypeOK, ReadingOK(AllMarkers), ReadsOn, AllMarkers \subseteq Marker,
         NEW p \in reading.pins,
         \A h \in Heights : reading.latest[h] # 0 => reading'.latest[h] = reading.latest[h]
  PROVE  PinOK(p, AllMarkers)' /\ Header(p.height)' = Header(p.height)
<1>1. /\ p.height \in Heights /\ PinOK(p, AllMarkers)
  BY DEF ReadTypeOK, ReadingOK
<1>2. /\ Header(p.height)' = Header(p.height) /\ reading'.latest[p.height] = reading.latest[p.height]
      /\ target' = target /\ AllMarkers' = AllMarkers
  BY <1>1 DEF PinOK, ReadsOn
<1>. QED BY <1>1, <1>2 DEF PinOK, Confirmed

\* A header is read.
LEMMA HeaderKeeps ==
  ASSUME ReadTypeOK, ReadingOK(AllMarkers), NEW h \in Heights, ReadHeader(h, AllMarkers),
         AllMarkers' = AllMarkers, AllMarkers \subseteq Marker
  PROVE  ReadTypeOK' /\ ReadingOK(AllMarkers)'
<1>. USE TargetAssumption
<1>0. /\ h \in HeadersOf(AllMarkers) /\ Header(h) = NoHeader /\ h <= TargetTip
      /\ reading' = [reading EXCEPT !.headers[h] = Block(h)] /\ UNCHANGED <<target, reorgs>>
      /\ TargetTip' = TargetTip /\ TargetTip \in Nat /\ reading \in ReadingType
      /\ reorgs \in Nat
  BY TargetNumbers DEF ReadHeader, TargetTip
<1>1. /\ h \in 1 .. TargetTip /\ (h # 1 => h - 1 \in 1 .. TargetTip /\ h - 1 \in Heights)
      /\ h > 1 <=> h # 1
  BY <1>0 DEF Heights
<1>2. /\ ForkAt(h) \in 0 .. reorgs /\ TimeAt(h) \in Nat
      /\ h # 1 => ForkAt(h - 1) \in 0 .. reorgs /\ TimeAt(h - 1) \in Nat
  <2>1. \A i \in 1 .. TargetTip : ForkAt(i) \in 0 .. TargetForks /\ TimeAt(i) \in Nat
                                  /\ ForkAt(i) <= reorgs
    BY TargetNumbers DEF ReadingOK, ForkAt
  <2>. QED BY <1>0, <1>1, <2>1
<1>3. Block(h) \in Blocks /\ Block(h) # NoHeader /\ Block(h).fork = ForkAt(h)
  <2>1. Block(h) = [fork |-> ForkAt(h), time |-> TimeAt(h),
                    parent |-> IF h = 1 THEN -1 ELSE ForkAt(h - 1),
                    since |-> IF h = 1 THEN 0 ELSE TimeAt(h - 1)]
    BY BlockIs
  <2>2. Block(h).fork = ForkAt(h)
    BY <2>1
  <2>3. Block(h) \in Blocks
    BY <1>2, <2>1 DEF Blocks
  <2>. QED BY <1>2, <2>2, <2>3 DEF NoHeader
<1>4. /\ reading'.latest = reading.latest /\ reading'.pins = reading.pins
      /\ reading'.answers = reading.answers
      /\ reading'.headers = [reading.headers EXCEPT ![h] = Block(h)]
      /\ reading.headers \in [Heights -> Blocks]
  BY <1>0 DEF ReadingType
<1>5. /\ reading' \in ReadingType /\ Header(h)' = Block(h)
      /\ \A i \in Heights \ {h} : Header(i)' = Header(i)
  BY <1>0, <1>3, <1>4 DEF ReadingType, Header
<1>6. ReadTypeOK'
  BY <1>0, <1>5 DEF ReadTypeOK, ReadingType, Marker
<1>7. ReadsOn
  BY <1>0, <1>5, <1>6 DEF ReadsOn
<1>8. Block(h)' = Block(h)
  BY <1>0 DEF Block
<1>9. ASSUME NEW i \in Heights, Header(i)' # NoHeader PROVE HeaderOK(i)'
  <2>0. /\ i > 1 => i - 1 \in Heights
        /\ i # h => HeaderOK(i)
    BY <1>5, <1>9 DEF Heights, ReadingOK
  <2>1. CASE i = h
    <3>1. ASSUME h > 1
          PROVE  /\ Header(h)'.parent = ForkAt(h - 1) /\ Header(h)'.since = TimeAt(h - 1)
                 /\ Header(h - 1)' = Header(h - 1)
                 /\ Header(h - 1).fork = ForkAt(h - 1) => Header(h - 1).time = TimeAt(h - 1)
      <4>1. Header(h)'.parent = ForkAt(h - 1) /\ Header(h)'.since = TimeAt(h - 1)
        BY <1>5, <3>1, BlockIs
      <4>2. Header(h - 1)' = Header(h - 1)
        BY <1>1, <1>5, <3>1
      <4>3. ASSUME Header(h - 1).fork = ForkAt(h - 1) PROVE Header(h - 1).time = TimeAt(h - 1)
        <5>1. Header(h - 1) # NoHeader
          BY <1>1, <1>2, <3>1, <4>3 DEF NoHeader
        <5>2. HeaderOK(h - 1)
          BY <1>1, <3>1, <5>1 DEF ReadingOK
        <5>3. Block(h - 1) = Header(h - 1)
          BY <4>3, <5>2 DEF HeaderOK, ForkAt
        <5>4. Block(h - 1).time = TimeAt(h - 1)
          BY <1>1, <3>1, BlockIs
        <5>. QED BY <5>3, <5>4
      <4>. QED BY <4>1, <4>2, <4>3
    <3>2. h <= TargetTip /\ Header(h)'.fork \in 0 .. reorgs
      BY <1>0, <1>2, <1>3, <1>5
    <3>3. h > 1 => ForkAt(h - 1) \in 0 .. reorgs
      BY <1>1, <1>2
    <3>. QED BY <1>0, <1>5, <1>8, <2>1, <3>1, <3>2, <3>3 DEF HeaderOK, ForkAt, TimeAt
  <2>2. CASE i # h
    <3>1. Header(i)' = Header(i) /\ HeaderOK(i)
      BY <1>5, <2>0, <2>2
    <3>2. ASSUME i > 1, Header(i - 1)'.fork = Header(i).parent
          PROVE  Header(i - 1)'.time = Header(i).since
      <4>1. CASE i - 1 = h
        <5>1. Header(i - 1)'.fork = ForkAt(i - 1) /\ Header(i - 1)'.time = TimeAt(i - 1)
          BY <1>5, <4>1, BlockIs
        <5>. QED BY <3>1, <3>2, <5>1 DEF HeaderOK, ForkAt, TimeAt
      <4>2. CASE i - 1 # h
        <5>1. Header(i - 1)' = Header(i - 1)
          BY <1>5, <2>0, <3>2, <4>2
        <5>. QED BY <3>1, <3>2, <5>1 DEF HeaderOK
      <4>. QED BY <4>1, <4>2
    <3>3. Block(i)' = Block(i)
      BY <1>0 DEF Block
    <3>. QED BY <1>0, <3>1, <3>2, <3>3 DEF HeaderOK
  <2>. QED BY <2>1, <2>2
<1>10. ASSUME NEW i \in Heights, reading.latest[i] # 0
       PROVE  TimesCovered(AllMarkers)' /\ reading.latest[i] <= TargetTip
  <2>1. TimesCovered(AllMarkers) /\ reading.latest[i] <= TargetTip
    BY <1>10 DEF ReadingOK
  <2>. QED BY <1>7, <2>1, CoveredStays
<1>11. ASSUME NEW p \in reading.pins PROVE PinOK(p, AllMarkers)' /\ Header(p.height)' = Header(p.height)
  <2>1. \A i \in Heights : reading.latest[i] # 0 => reading'.latest[i] = reading.latest[i]
    BY <1>4
  <2>. QED BY <1>7, <2>1, PinStays
<1>12. ASSUME NEW a \in reading.answers
       PROVE  /\ a.marker \in AllMarkers /\ a.block = Header(a.marker.height)'
              /\ \E p \in reading.pins : p.height = a.marker.height
  <2>1. /\ a.marker \in AllMarkers /\ a.block = Header(a.marker.height)
        /\ \E p \in reading.pins : p.height = a.marker.height
    BY DEF ReadingOK
  <2>. QED BY <1>11, <2>1
<1>13. \A i \in 1 .. TargetTip : target.forks[i] <= reorgs
  BY DEF ReadingOK
<1>. QED BY <1>0, <1>4, <1>6, <1>9, <1>10, <1>11, <1>12, <1>13 DEF ReadingOK

\* A read that adds no header.
LEMMA SameHeaders ==
  ASSUME ReadTypeOK, ReadingOK(AllMarkers), ReadTypeOK', UNCHANGED <<target, reorgs>>,
         AllMarkers' = AllMarkers, AllMarkers \subseteq Marker,
         reading'.headers = reading.headers
  PROVE  /\ ReadsOn /\ \A h \in 1 .. TargetTip' : target'.forks[h] <= reorgs'
         /\ \A h \in Heights : Header(h)' = Header(h)
         /\ \A h \in Heights : Header(h)' # NoHeader => HeaderOK(h)'
<1>1. TargetTip' = TargetTip /\ \A h : Header(h)' = Header(h)
  BY DEF TargetTip, Header
<1>2. ReadsOn
  BY <1>1 DEF ReadsOn
<1>3. \A h : Block(h)' = Block(h)
  BY DEF Block
<1>. QED BY <1>1, <1>2, <1>3 DEF ReadingOK, HeaderOK

\* A head is read.
LEMMA LatestKeeps ==
  ASSUME ReadTypeOK, ReadingOK(AllMarkers), NEW h \in Heights, ReadLatest(h, AllMarkers),
         AllMarkers' = AllMarkers, AllMarkers \subseteq Marker
  PROVE  ReadTypeOK' /\ ReadingOK(AllMarkers)'
<1>0. /\ TimesCovered(AllMarkers) /\ reading.latest[h] = 0
      /\ reading' = [reading EXCEPT !.latest[h] = TargetTip] /\ UNCHANGED <<target, reorgs>>
      /\ reading \in ReadingType /\ TargetTip \in Heights /\ TargetTip \in Nat
  BY TargetNumbers DEF ReadLatest
<1>1. /\ reading'.headers = reading.headers /\ reading'.pins = reading.pins
      /\ reading'.answers = reading.answers
      /\ reading'.latest = [reading.latest EXCEPT ![h] = TargetTip]
      /\ reading.latest \in [Heights -> 0 .. TargetHeight]
      /\ TargetTip \in 0 .. TargetHeight
  BY <1>0 DEF ReadingType, Heights
<1>2. reading' \in ReadingType
  BY <1>0, <1>1 DEF ReadingType
<1>3. ReadTypeOK'
  <2>1. TargetTip' = TargetTip
    BY <1>0 DEF TargetTip
  <2>. QED BY <1>0, <1>2, <2>1 DEF ReadTypeOK, ReadingType, Marker
<1>4. /\ ReadsOn /\ \A i \in 1 .. TargetTip' : target'.forks[i] <= reorgs'
      /\ \A i \in Heights : Header(i)' = Header(i)
      /\ \A i \in Heights : Header(i)' # NoHeader => HeaderOK(i)'
  BY <1>0, <1>1, <1>3, SameHeaders
<1>5. TimesCovered(AllMarkers)' /\ TargetTip' = TargetTip
  BY <1>0, <1>4, CoveredStays DEF ReadsOn
<1>6. ASSUME NEW i \in Heights, reading'.latest[i] # 0 PROVE reading'.latest[i] <= TargetTip
  BY <1>0, <1>1, <1>6 DEF ReadingOK
<1>7. ASSUME NEW p \in reading.pins PROVE PinOK(p, AllMarkers)' /\ Header(p.height)' = Header(p.height)
  <2>1. \A i \in Heights : reading.latest[i] # 0 => reading'.latest[i] = reading.latest[i]
    BY <1>0, <1>1
  <2>. QED BY <1>4, <2>1, PinStays
<1>8. ASSUME NEW a \in reading.answers
      PROVE  /\ a.marker \in AllMarkers /\ a.block = Header(a.marker.height)'
             /\ \E p \in reading.pins : p.height = a.marker.height
  <2>1. /\ a.marker \in AllMarkers /\ a.block = Header(a.marker.height)
        /\ \E p \in reading.pins : p.height = a.marker.height
    BY DEF ReadingOK
  <2>. QED BY <1>7, <2>1
<1>. QED BY <1>0, <1>1, <1>3, <1>4, <1>5, <1>6, <1>7, <1>8 DEF ReadingOK, ReadsOn

\* A block is pinned.
LEMMA PinKeeps ==
  ASSUME ReadTypeOK, ReadingOK(AllMarkers), NEW h \in Heights, ReadPinned(h, AllMarkers),
         AllMarkers' = AllMarkers, AllMarkers \subseteq Marker
  PROVE  ReadTypeOK' /\ ReadingOK(AllMarkers)'
<1>. DEFINE new == [height |-> h, fork |-> Header(h).fork]
<1>0. /\ reading.latest[h] # 0 /\ h \in Pinned(AllMarkers) /\ Block(h).fork = Header(h).fork
      /\ Confirmed(h, AllMarkers) /\ reading' = [reading EXCEPT !.pins = @ \cup {new}]
      /\ UNCHANGED <<target, reorgs>> /\ reading \in ReadingType
  BY TargetNumbers DEF ReadPinned
<1>1. /\ reading'.headers = reading.headers /\ reading'.pins = reading.pins \cup {new}
      /\ reading'.answers = reading.answers /\ reading'.latest = reading.latest
  BY <1>0 DEF ReadingType
<1>2. TimesCovered(AllMarkers) /\ Header(h) # NoHeader /\ HeaderOK(h)
  BY <1>0 DEF ReadingOK, TimesCovered, HeadersRead, HeadersOf
<1>3. new \in [height : Heights, fork : 0 .. TargetForks]
  <2>1. Header(h).fork \in 0 .. reorgs /\ reorgs \in 0 .. TargetForks
    BY <1>2 DEF HeaderOK, ReadTypeOK
  <2>2. Header(h).fork \in 0 .. TargetForks
    BY <2>1, TargetAssumption
  <2>. QED BY <2>2
<1>4. new.height = h /\ new.fork = Header(h).fork
  OBVIOUS
<1>. HIDE DEF new
<1>5. reading' \in ReadingType
  BY <1>0, <1>1, <1>3 DEF ReadingType
<1>6. ReadTypeOK'
  <2>1. TargetTip' = TargetTip
    BY <1>0 DEF TargetTip
  <2>. QED BY <1>0, <1>5, <2>1 DEF ReadTypeOK, ReadingType, Marker
<1>7. /\ ReadsOn /\ \A i \in 1 .. TargetTip' : target'.forks[i] <= reorgs'
      /\ \A i \in Heights : Header(i)' = Header(i)
      /\ \A i \in Heights : Header(i)' # NoHeader => HeaderOK(i)'
  BY <1>0, <1>1, <1>6, SameHeaders
<1>8. TimesCovered(AllMarkers)' /\ TargetTip' = TargetTip
  BY <1>2, <1>7, CoveredStays DEF ReadsOn
<1>9. ASSUME NEW p \in reading.pins PROVE PinOK(p, AllMarkers)' /\ Header(p.height)' = Header(p.height)
  <2>1. \A i \in Heights : reading.latest[i] # 0 => reading'.latest[i] = reading.latest[i]
    BY <1>1
  <2>. QED BY <1>7, <2>1, PinStays
<1>10. ASSUME NEW p, p = new PROVE PinOK(p, AllMarkers)'
  <2>0. p.height = h /\ p.fork = Header(h).fork
    BY <1>4, <1>10
  <2>1. Confirmed(h, AllMarkers)'
    BY <1>0, <1>1 DEF Confirmed
  <2>2. target'.forks[h] = Header(h).fork
    BY <1>0, BlockIs DEF ForkAt
  <2>3. Header(h)' = Header(h) /\ Header(h)' # NoHeader
    BY <1>2, <1>7
  <2>4. reading'.latest[h] # 0
    BY <1>0, <1>1
  <2>. QED BY <2>0, <2>1, <2>2, <2>3, <2>4 DEF PinOK
<1>11. ASSUME NEW a \in reading.answers
       PROVE  /\ a.marker \in AllMarkers /\ a.block = Header(a.marker.height)'
              /\ \E p \in reading'.pins : p.height = a.marker.height
  <2>1. /\ a.marker \in AllMarkers /\ a.block = Header(a.marker.height)
        /\ \E p \in reading.pins : p.height = a.marker.height
    BY DEF ReadingOK
  <2>. QED BY <1>1, <1>9, <2>1
<1>12. \A i \in Heights : reading'.latest[i] # 0 => reading'.latest[i] <= TargetTip
  BY <1>1 DEF ReadingOK
<1>13. \A p \in reading'.pins : PinOK(p, AllMarkers)'
  <2>1. ASSUME NEW p \in reading'.pins PROVE p \in reading.pins \/ p = new
    BY <1>1, <2>1
  <2>. QED BY <1>9, <1>10, <2>1
<1>. QED BY <1>0, <1>1, <1>6, <1>7, <1>8, <1>11, <1>12, <1>13 DEF ReadingOK, ReadsOn

\* A call is made at a pinned block.
LEMMA CallKeeps ==
  ASSUME ReadTypeOK, ReadingOK(AllMarkers), NEW m \in AllMarkers, Call(m, AllMarkers),
         AllMarkers' = AllMarkers, AllMarkers \subseteq Marker
  PROVE  ReadTypeOK' /\ ReadingOK(AllMarkers)'
<1>. DEFINE new == [marker |-> m, block |-> Block(m.height)]
<1>0. /\ Callable(m.height) /\ reading' = [reading EXCEPT !.answers = @ \cup {new}]
      /\ UNCHANGED <<target, reorgs>> /\ reading \in ReadingType
  BY TargetNumbers DEF Call
<1>1. /\ reading'.headers = reading.headers /\ reading'.pins = reading.pins
      /\ reading'.answers = reading.answers \cup {new} /\ reading'.latest = reading.latest
  BY <1>0 DEF ReadingType
<1>2. PICK pinned \in reading.pins : pinned.height = m.height /\ pinned.fork = Block(m.height).fork
  BY <1>0 DEF Callable
<1>3. /\ m.height \in Heights /\ Header(m.height) # NoHeader
      /\ Header(m.height).fork = Block(m.height).fork /\ HeaderOK(m.height)
  BY <1>2 DEF ReadTypeOK, ReadingOK, PinOK
<1>4. Block(m.height) = Header(m.height) /\ Header(m.height) \in Blocks
  BY <1>3, BlockIs, HeaderTyped DEF HeaderOK, ForkAt
<1>5. new \in [marker : Marker, block : Blocks] /\ new.marker = m /\ new.block = Header(m.height)
  BY <1>4
<1>. HIDE DEF new
<1>6. reading' \in ReadingType
  BY <1>0, <1>1, <1>5 DEF ReadingType
<1>7. ReadTypeOK'
  <2>1. TargetTip' = TargetTip
    BY <1>0 DEF TargetTip
  <2>. QED BY <1>0, <1>6, <2>1 DEF ReadTypeOK, ReadingType, Marker
<1>8. /\ ReadsOn /\ \A i \in 1 .. TargetTip' : target'.forks[i] <= reorgs'
      /\ \A i \in Heights : Header(i)' = Header(i)
      /\ \A i \in Heights : Header(i)' # NoHeader => HeaderOK(i)'
  BY <1>0, <1>1, <1>7, SameHeaders
<1>9. ASSUME NEW i \in Heights, reading'.latest[i] # 0
      PROVE  TimesCovered(AllMarkers)' /\ reading'.latest[i] <= TargetTip'
  <2>1. TimesCovered(AllMarkers) /\ reading.latest[i] <= TargetTip
    BY <1>1, <1>9 DEF ReadingOK
  <2>. QED BY <1>1, <1>8, <2>1, CoveredStays DEF ReadsOn
<1>10. ASSUME NEW p \in reading.pins PROVE PinOK(p, AllMarkers)' /\ Header(p.height)' = Header(p.height)
  <2>1. \A i \in Heights : reading.latest[i] # 0 => reading'.latest[i] = reading.latest[i]
    BY <1>1
  <2>. QED BY <1>8, <2>1, PinStays
<1>11. ASSUME NEW a \in reading'.answers
       PROVE  /\ a.marker \in AllMarkers /\ a.block = Header(a.marker.height)'
              /\ \E p \in reading.pins : p.height = a.marker.height
  <2>1. CASE a = new
    BY <1>2, <1>3, <1>5, <1>8, <2>1
  <2>2. CASE a \in reading.answers
    <3>1. /\ a.marker \in AllMarkers /\ a.block = Header(a.marker.height)
          /\ \E p \in reading.pins : p.height = a.marker.height
      BY <2>2 DEF ReadingOK
    <3>. QED BY <1>10, <3>1
  <2>. QED BY <1>1, <2>1, <2>2
<1>. QED BY <1>0, <1>1, <1>7, <1>8, <1>9, <1>10, <1>11 DEF ReadingOK, ReadsOn

\* Nothing is read yet, or any more.
LEMMA ReadingDropped ==
  ASSUME ReadTypeOK, \A h \in 1 .. TargetTip : target.forks[h] <= reorgs,
         reading' = NotReading, UNCHANGED <<target, reorgs>>
  PROVE  ReadTypeOK' /\ ReadingOK(AllMarkers)'
<1>. USE TargetAssumption
<1>1. NoHeader \in Blocks
  BY DEF NoHeader, Blocks
<1>2. /\ NotReading \in ReadingType /\ NotReading.pins = {} /\ NotReading.answers = {}
      /\ \A h \in Heights : NotReading.headers[h] = NoHeader /\ NotReading.latest[h] = 0
  BY <1>1 DEF NotReading, ReadingType, Heights
<1>3. TargetTip' = TargetTip
  BY DEF TargetTip
<1>4. ReadTypeOK'
  BY <1>2, <1>3 DEF ReadTypeOK, ReadingType, Marker
<1>. QED BY <1>2, <1>3, <1>4 DEF ReadingOK, Header

\* What was answered was read where it should be, and stays true.
LEMMA AnswersFollow ==
  ASSUME ReadTypeOK, ReadingOK(AllMarkers), AllMarkers \subseteq Marker
  PROVE  AnswersCover /\ AnswersStay
<1>1. ASSUME NEW a \in reading.answers
      PROVE  /\ a.marker \in AllMarkers /\ a.marker.height \in Heights
             /\ a.block = Header(a.marker.height) /\ HeaderOK(a.marker.height)
             /\ TimesCovered(AllMarkers)
             /\ a.marker.confirmations >= Depth =>
                  ForkAt(a.marker.height) = Header(a.marker.height).fork
  <2>1. a.marker \in AllMarkers /\ a.block = Header(a.marker.height)
    BY DEF ReadingOK
  <2>2. PICK p \in reading.pins : p.height = a.marker.height
    BY DEF ReadingOK
  <2>3. p.height \in Heights /\ PinOK(p, AllMarkers)
    BY DEF ReadTypeOK, ReadingOK
  <2>4. Header(p.height) # NoHeader /\ Header(p.height).fork = p.fork /\ reading.latest[p.height] # 0
    BY <2>3 DEF PinOK
  <2>5. HeaderOK(p.height) /\ TimesCovered(AllMarkers)
    BY <2>3, <2>4 DEF ReadingOK
  <2>6. a.marker.confirmations >= Depth => ForkAt(p.height) = p.fork
    BY <2>1, <2>2, <2>3 DEF PinOK, ForkAt
  <2>. QED BY <2>1, <2>2, <2>3, <2>4, <2>5, <2>6
<1>2. ASSUME NEW a \in reading.answers, a.marker.time # ByNumber
      PROVE  IF a.marker.height = 1 THEN a.block.time = a.marker.time
             ELSE a.block.since < a.marker.time /\ a.marker.time <= a.block.time
  <2>. DEFINE m == a.marker
  <2>1. /\ m \in AllMarkers /\ m.height \in Heights /\ a.block = Header(m.height)
        /\ HeaderOK(m.height) /\ Covers(m) /\ m.time \in Int
    BY <1>1, <1>2 DEF TimesCovered, Marker
  <2>2. CASE m.height = 1
    BY <2>1, <2>2 DEF Covers
  <2>3. CASE m.height # 1
    <3>1. m.height > 1
      BY <2>1, <2>3 DEF Heights
    <3>2. /\ Header(m.height).time >= m.time
          /\ Header(m.height - 1).fork = Header(m.height).parent
          /\ Header(m.height - 1).time < m.time
      BY <2>1, <2>3 DEF Covers
    <3>3. Header(m.height - 1).time = Header(m.height).since
      BY <2>1, <3>1, <3>2 DEF HeaderOK
    <3>4. Header(m.height).time \in Int
      BY <2>1, HeaderTyped
    <3>. QED BY <2>1, <2>3, <3>2, <3>3, <3>4
  <2>. QED BY <2>2, <2>3
<1>3. ASSUME NEW a \in reading.answers, a.marker.confirmations >= Depth
      PROVE  Block(a.marker.height) = a.block
  BY <1>1, <1>3 DEF HeaderOK, ForkAt
<1>. QED BY <1>2, <1>3 DEF AnswersCover, AnswersStay

-----------------------------------------------------------------------------
(* The request, and its checks together. *)

\* The request's own variables.
RequestType ==
  /\ request \in Requests
  /\ stage \in {"new", "queued", "route", "resolve", "refresh", "validate",
                "extra", "build", "sign", "signed", "refused"}
  /\ pin \in Nat \cup {Unset} /\ used \subseteq Nat
  /\ routed \in {None, "V301", "V302"} /\ passed \subseteq Checks
  /\ event \in EventType
  /\ required \in Required \cup {Unset} /\ builder \in Builders \cup {None}

\* What they stand for together.
RequestOK == RequestType /\ StageOK /\ OneGeneration /\ NotSignedAgain

\* All of it, with the surroundings.
AllOK ==
  /\ RefreshOK /\ SourceTypeOK /\ LookupTypeOK /\ ReadTypeOK
  /\ RequestOK /\ SourceOK /\ LookupOK(Verifier) /\ ReadingOK(AllMarkers)

\* A step that is not the request's.
RequestAside ==
  /\ UNCHANGED <<request, stage, pin, used, routed, event, passed, required, builder, lookup>>
  /\ dest'.family = dest.family /\ dest'.required = dest.required /\ dest'.reads = dest.reads
  /\ dest.packet = "delivered" => dest'.packet = "delivered"

\* The types of the parts are the type of the whole.
LEMMA TypesTogether ==
  TypeOK <=> RefreshTypeOK /\ SourceTypeOK /\ LookupTypeOK /\ ReadTypeOK /\ RequestType
BY DEF TypeOK, RequestType, EventType

\* The markers of a request are well-formed.
LEMMA MarkersTyped == ASSUME request \in Requests PROVE AllMarkers \subseteq Marker
<1>1. /\ request.command \in SUBSET [time : Int, height : Int, confirmations : Int]
      /\ request.resolved \in SUBSET [time : Int, height : Int, confirmations : Int]
  BY RequestsAssumption
<1>. QED BY <1>1 DEF AllMarkers, Markers, Marker

\* A request is what it was, and a destination of the family it was.
LEMMA SameRequest ==
  ASSUME LookupTypeOK, [Next]_vars
  PROVE  /\ request' = request /\ dest'.family = dest.family
         /\ Verifier' = Verifier /\ AllMarkers' = AllMarkers
<1>1. CASE Workflow
  <2>1. request' = request
    BY <1>1 DEF Workflow, Pin, Admit, Route, Resolve, RefreshEvent, ReadSource, Ready, ReadTarget,
            MarkersPinned, Unexpired, SkipLookup, AskDestination, ReadDestination, NotSignedYet,
            Validated, ExtraContext, ReadCall, Build, Sign, Refuse, Advance, CheckFrame
  <2>2. dest' = dest
    BY <1>1 DEF Workflow, Pin, Admit, Route, Resolve, RefreshEvent, ReadSource, Ready, ReadTarget,
            MarkersPinned, Unexpired, SkipLookup, AskDestination, ReadDestination, NotSignedYet,
            Validated, ExtraContext, ReadCall, Build, Sign, Refuse, Advance, chainVars, Ask,
            LookupRead, ReadPart, ReadAccounts
  <2>. QED BY <2>1, <2>2 DEF Verifier, AllMarkers, Markers
<1>2. CASE SourceMoves \/ TargetMoves \/ (Refresh /\ Aside) \/ UNCHANGED vars
  <2>1. request' = request /\ dest' = dest
    BY <1>2 DEF SourceMoves, TargetMoves, Aside, RequestFrame, chainVars, requestVars, vars
  <2>. QED BY <2>1 DEF Verifier, AllMarkers, Markers
<1>3. CASE DestinationMoves
  <2>1. request' = request /\ dest'.family = dest.family /\ dest'.reads = dest.reads
    BY <1>3, DestMoves DEF DestinationMoves, RequestFrame, DestMoved
  <2>. QED BY <2>1 DEF Verifier, AllMarkers, Markers
<1>4. Workflow \/ DestinationMoves \/ SourceMoves \/ TargetMoves \/ (Refresh /\ Aside) \/ UNCHANGED vars
  BY DEF Next
<1>. QED BY <1>1, <1>2, <1>3, <1>4

\* What a request holds does not hang on the chains.
LEMMA AsideStays == ASSUME RequestOK, RequestAside PROVE RequestOK'
<1>1. /\ Asked' = Asked /\ Unasked' = Unasked /\ Version' = Version /\ Verifier' = Verifier
  BY DEF RequestAside, Asked, Unasked, Version, Verifier
<1>2. RequestType'
  BY DEF RequestOK, RequestAside, RequestType
<1>3. StageOK'
  BY <1>1 DEF RequestOK, RequestAside, StageOK
<1>4. OneGeneration'
  BY DEF RequestOK, RequestAside, OneGeneration
<1>5. NotSignedAgain'
  <2>1. /\ RecordGap' = RecordGap /\ Enough(lookup.record)' = Enough(lookup.record)
        /\ passed' = passed /\ lookup' = lookup
    BY SameCount DEF RequestAside
  <2>2. PacketGap => PacketGap'
    BY DEF RequestAside, PacketGap, Got
  <2>. QED BY <1>1, <2>1, <2>2 DEF RequestOK, NotSignedAgain
<1>. QED BY <1>2, <1>3, <1>4, <1>5 DEF RequestOK

\* A step of the workflow that changes neither when the lookup began nor the
\* destination keeps what is derived from them.
LEMMA SameLookup ==
  ASSUME UNCHANGED <<request, dest>>, lookup'.since = lookup.since
  PROVE  /\ Asked' = Asked /\ Verifier' = Verifier
         /\ routed' = routed => Version' = Version
         /\ event' = event => Unasked' = Unasked
BY DEF Asked, Verifier, Version, Unasked

\* Nor does it open or close a gap.
LEMMA SameGaps == ASSUME UNCHANGED <<request, dest, lookup>> PROVE OnlyGaps' = OnlyGaps
<1>1. /\ RecordGap' = RecordGap /\ Enough(lookup.record)' = Enough(lookup.record)
  BY SameCount
<1>2. PacketGap' = PacketGap /\ Verifier' = Verifier
  BY DEF PacketGap, Got, Verifier
<1>. QED BY <1>1, <1>2 DEF OnlyGaps

\* Admission to the packet: nothing has been checked yet.
LEMMA ArrivalKeeps ==
  ASSUME RefreshOK, RequestOK, Pin \/ Admit \/ Route
  PROVE  RequestOK'
<1>0. /\ UNCHANGED <<request, dest, lookup, event, passed, required, builder>> /\ passed = {}
      /\ serving.generation \in Nat /\ event \in EventType /\ request \in Requests
  BY DEF RefreshOK, RefreshTypeOK, RequestOK, RequestType, StageOK, Checked, Pin, Admit, Route,
         chainVars, checkVars
<1>1. /\ Asked' = Asked /\ RequestType /\ StageOK /\ OneGeneration
  BY <1>0, SameLookup DEF RequestOK
<1>2. CASE Pin
  <2>1. stage = "new" /\ stage' = "queued" /\ pin' = serving.generation /\ UNCHANGED <<used, routed>>
    BY <1>2 DEF Pin
  <2>2. used = {}
    BY <1>1, <2>1 DEF StageOK
  <2>3. RequestType'
    BY <1>0, <1>1, <2>1 DEF RequestType
  <2>4. StageOK'
    BY <1>0, <1>1, <2>1 DEF StageOK, Checked
  <2>. QED BY <1>0, <2>1, <2>2, <2>3, <2>4 DEF RequestOK, OneGeneration, NotSignedAgain
<1>3. CASE Admit
  <2>1. /\ stage = "queued" /\ stage' = IF request.send = "V2" THEN "route" ELSE "resolve"
        /\ (request.send = "V2" \/ Resolvable(None)) /\ UNCHANGED <<pin, used, routed>>
    BY <1>3 DEF Admit
  <2>2. routed = None /\ Version' = request.send /\ (stage' = "resolve" => request.send \in Builders)
    BY <1>0, <1>1, <2>1 DEF StageOK, Version, Resolvable
  <2>3. RequestType'
    BY <1>0, <1>1, <2>1 DEF RequestType
  <2>4. StageOK'
    BY <1>0, <1>1, <2>1, <2>2 DEF StageOK, Checked
  <2>. QED BY <1>0, <1>1, <2>1, <2>3, <2>4 DEF RequestOK, OneGeneration, NotSignedAgain
<1>4. CASE Route
  <2>1. /\ stage = "route" /\ stage' = "resolve" /\ used' = used \cup {pin} /\ pin' = pin
        /\ Resolvable(routed') /\ routed' \in {None, "V301", "V302"}
    BY <1>4 DEF Route, Dispatched, Load
  <2>2. pin \in Nat /\ used' \subseteq {pin}
    BY <1>1, <2>1 DEF StageOK, OneGeneration
  <2>3. Version' \in Builders
    BY <1>0, <2>1 DEF Version, Resolvable, Builders
  <2>4. RequestType'
    BY <1>0, <1>1, <2>1, <2>2 DEF RequestType
  <2>5. StageOK'
    BY <1>0, <1>1, <2>1, <2>2, <2>3 DEF StageOK, Checked
  <2>. QED BY <1>0, <2>1, <2>2, <2>4, <2>5 DEF RequestOK, OneGeneration, NotSignedAgain
<1>. QED BY <1>2, <1>3, <1>4

\* The packet as it is read.
LEMMA PacketTyped ==
  ASSUME SourceTypeOK, Visible
  PROVE  Packet \in EventType /\ Hydrated(Packet) \in EventType /\ Hydrated(Packet).guid
         /\ Packet.guid = (request.send # "V2") /\ Packet.says = chain.says
         /\ Hydrated(Packet).says = chain.says
<1>1. chain.at \in 1 .. Tip /\ chain.blocks \in Seq(0 .. MaxForks) /\ chain.says \in Messages
  BY DEF SourceTypeOK, Visible, Tip
<1>2. chain.blocks[chain.at] \in Nat
  BY <1>1, SourceAssumption DEF Tip
<1>. DEFINE named == request.send # "V2"
<1>3. named \in BOOLEAN /\ chain.at \in Nat
  BY <1>1 DEF SourceTypeOK
<1>4. Packet = [height |-> chain.at, fork |-> chain.blocks[chain.at], says |-> chain.says,
                guid |-> named]
  BY DEF Packet
<1>. HIDE DEF named
<1>5. Packet \in EventType /\ Packet.guid = named /\ Packet.says = chain.says
  BY <1>1, <1>2, <1>3, <1>4 DEF EventType
<1>6. /\ Hydrated(Packet) \in EventType /\ Hydrated(Packet).guid = TRUE
      /\ Hydrated(Packet).says = chain.says
  BY <1>5 DEF EventType, Hydrated
<1>. QED BY <1>5, <1>6 DEF named

\* The packet is read, and read again where the send was routed.
LEMMA ResolveKeeps ==
  ASSUME SourceTypeOK, RequestOK, Resolve \/ RefreshEvent
  PROVE  RequestOK'
<1>0. /\ UNCHANGED <<request, dest, lookup, passed, required, builder, pin, routed>>
      /\ stage \in {"resolve", "refresh"} /\ Visible /\ used' = used \cup {pin}
  BY DEF Resolve, RefreshEvent, chainVars, checkVars, Dispatched, Load
<1>1. /\ Asked' = Asked /\ Version' = Version /\ RequestType /\ StageOK /\ OneGeneration
      /\ event' \in EventType
  BY <1>0, SameLookup, PacketTyped DEF RequestOK, Resolve, RefreshEvent
<1>2. passed = {} /\ pin \in Nat /\ used' \subseteq {pin} /\ Version \in Builders
  BY <1>0, <1>1 DEF StageOK, Checked, OneGeneration
<1>3. RequestType'
  BY <1>0, <1>1, <1>2 DEF RequestType, Resolve, RefreshEvent
<1>4. StageOK'
  <2>1. CASE Resolve /\ routed # None
    BY <1>0, <1>1, <1>2, <2>1 DEF StageOK, Checked, Resolve
  <2>2. CASE Resolve /\ routed = None
    <3>1. stage' = "validate" /\ event'.guid = (Version # "V2") /\ event'.says = request.says
      BY <1>0, <2>2, PacketTyped DEF Resolve, Version, HashMatches
    <3>. QED BY <1>0, <1>1, <1>2, <3>1 DEF StageOK, Checked
  <2>3. CASE RefreshEvent
    <3>1. stage = "refresh" /\ stage' = "validate" /\ event'.guid /\ event'.says = request.says
      BY <1>0, <2>3, PacketTyped DEF RefreshEvent, HashMatches
    <3>2. Version # "V2"
      BY <1>1, <3>1 DEF StageOK, Version, RequestType, None
    <3>3. event'.guid = (Version # "V2")
      BY <1>1, <3>1, <3>2 DEF EventType
    <3>. QED BY <1>0, <1>1, <1>2, <3>1, <3>3 DEF StageOK, Checked
  <2>. QED BY <2>1, <2>2, <2>3
<1>. QED BY <1>0, <1>2, <1>3, <1>4 DEF RequestOK, OneGeneration, NotSignedAgain

\* A check adds to what has been read and passed, and to nothing else.
LEMMA CheckShape ==
  ASSUME RequestOK, CheckFrame, dest' = dest, used' \subseteq used \cup {pin},
         \/ stage = "validate" /\ passed' \subseteq Checks
         \/ stage \in Checked /\ passed' = passed,
         required' \in Required \cup {Unset}, Asked => Asked', Asked' => ~ Unasked,
         "payload" \in passed' => Asked' \/ Unasked, NotSignedAgain'
  PROVE  RequestOK'
<1>0. /\ UNCHANGED <<request, stage, pin, routed, event, builder>> /\ stage \in Checked
      /\ RequestType /\ StageOK /\ OneGeneration
  BY DEF CheckFrame, RequestOK, Checked
<1>1. Version' = Version /\ Unasked' = Unasked
  BY <1>0 DEF Version, Unasked
<1>2. pin \in Nat /\ used' \subseteq {pin}
  BY <1>0 DEF StageOK, OneGeneration, Checked
<1>3. RequestType'
  BY <1>0, <1>2 DEF RequestType
<1>4. StageOK'
  BY <1>0, <1>1, <1>2 DEF StageOK, Checked
<1>. QED BY <1>0, <1>2, <1>3, <1>4 DEF RequestOK, OneGeneration

\* The checks of the source, the target and the clock.
LEMMA ReadinessKeeps ==
  ASSUME RequestOK, ReadSource \/ Ready \/ ReadTarget \/ MarkersPinned \/ Unexpired \/ ReadCall
  PROVE  RequestOK'
<1>0. /\ CheckFrame /\ dest' = dest /\ lookup' = lookup /\ required' = required
      /\ UNCHANGED request
  BY DEF ReadSource, Ready, ReadTarget, MarkersPinned, Unexpired, ReadCall, chainVars, CheckFrame
<1>1. /\ used' \subseteq used \cup {pin}
      /\ "payload" \in passed' => "payload" \in passed
      /\ \/ stage = "validate" /\ passed' \subseteq passed \cup {"readiness", "expiration"}
         \/ stage \in Checked /\ passed' = passed
  BY DEF ReadSource, Ready, ReadTarget, MarkersPinned, Unexpired, ReadCall, Dispatched, Load,
         Pending, Passes, Checked
<1>2. /\ Asked' = Asked /\ OnlyGaps' = OnlyGaps
      /\ RequestType /\ StageOK /\ NotSignedAgain
  BY <1>0, SameLookup, SameGaps DEF RequestOK
<1>3. NotSignedAgain'
  BY <1>1, <1>2 DEF NotSignedAgain, OnlyGaps
<1>4. /\ required' \in Required \cup {Unset} /\ (Asked' => ~ Unasked)
      /\ "payload" \in passed' => Asked' \/ Unasked
  BY <1>0, <1>1, <1>2 DEF RequestType, StageOK
<1>5. \/ stage = "validate" /\ passed' \subseteq Checks
      \/ stage \in Checked /\ passed' = passed
  BY <1>1, <1>2 DEF RequestType, Checks
<1>. QED BY <1>0, <1>1, <1>2, <1>3, <1>4, <1>5, CheckShape

\* The check of the payload.
LEMMA PayloadKeeps ==
  ASSUME LookupTypeOK, LookupOK(Verifier), RequestOK,
         SkipLookup \/ AskDestination \/ ReadDestination \/ NotSignedYet
  PROVE  RequestOK'
<1>0. /\ CheckFrame /\ dest' = dest /\ stage = "validate" /\ "payload" \notin passed
      /\ UNCHANGED request
  BY DEF SkipLookup, AskDestination, ReadDestination, NotSignedYet, Pending, chainVars,
         Ask, LookupRead, ReadPart, ReadAccounts, CheckFrame
<1>1. RequestType /\ StageOK /\ Verifier' = Verifier
  BY <1>0 DEF RequestOK, Verifier
<1>2. CASE SkipLookup
  <2>1. /\ UNCHANGED <<used, lookup, required>> /\ Unasked /\ passed' = passed \cup {"payload"}
    BY <1>2 DEF SkipLookup, Passes
  <2>2. ~ Asked /\ ~ Asked'
    BY <1>1, <2>1 DEF StageOK, Asked
  <2>3. NotSignedAgain'
    BY <2>2 DEF NotSignedAgain
  <2>4. passed' \subseteq Checks /\ required' \in Required \cup {Unset}
    BY <1>1, <2>1 DEF RequestType, Checks
  <2>. QED BY <1>0, <2>1, <2>2, <2>3, <2>4, CheckShape
<1>3. CASE AskDestination
  <2>1. /\ used' = used \cup {pin} /\ UNCHANGED <<passed, required>> /\ ~ Unasked /\ Ask
    BY <1>3 DEF AskDestination, Dispatched, Load
  <2>2. Asked' /\ NotSignedAgain'
    BY <1>0, <1>1, <2>1, AskKeeps DEF NotSignedAgain
  <2>3. passed' \subseteq Checks /\ required' \in Required \cup {Unset}
    BY <1>1, <2>1 DEF RequestType
  <2>. QED BY <1>0, <2>1, <2>2, <2>3, CheckShape
<1>4. CASE ReadDestination
  <2>1. UNCHANGED <<used, passed, required>> /\ LookupRead(Verifier)
    BY <1>4 DEF ReadDestination
  <2>2. Asked' /\ NotSignedAgain' /\ lookup'.since = lookup.since
    BY <1>0, <1>1, <2>1, LookupReadKeeps DEF NotSignedAgain
  <2>3. Asked' = Asked
    BY <2>2 DEF Asked
  <2>4. passed' \subseteq Checks /\ required' \in Required \cup {Unset} /\ ~ Unasked
    BY <1>1, <2>1, <2>2, <2>3 DEF RequestType, StageOK
  <2>. QED BY <1>0, <2>1, <2>2, <2>3, <2>4, CheckShape
<1>5. CASE NotSignedYet
  <2>1. /\ used' = used /\ passed' = passed \cup {"payload"} /\ NotSigned(Verifier)
        /\ required' = (IF dest.reads THEN Unset ELSE dest.required)
        /\ lookup' = lookup /\ Asked
    BY <1>5 DEF NotSignedYet, Passes, NotSigned
  <2>2. Asked' = Asked /\ OnlyGaps' = OnlyGaps
    BY <1>0, <2>1, SameLookup, SameGaps
  <2>3. ~ Unasked
    BY <1>1, <2>1 DEF StageOK
  <2>4. dest.family # "evm" => Verifier
    <3>1. dest.reads => dest.family = "evm"
      BY DEF LookupTypeOK, Destinations
    <3>. QED BY <2>3, <3>1, RequestsAssumption, <1>1 DEF Unasked, Verifier, RequestType
  <2>5. OnlyGaps
    BY <2>1, <2>4, NotSignedMeans
  <2>6. NotSignedAgain'
    BY <2>2, <2>5 DEF NotSignedAgain, OnlyGaps
  <2>7. passed' \subseteq Checks
    BY <1>1, <2>1 DEF RequestType, Checks
  <2>8. required' \in Required \cup {Unset}
    BY <2>1 DEF LookupTypeOK, Destinations
  <2>. QED BY <1>0, <2>1, <2>2, <2>3, <2>6, <2>7, <2>8, CheckShape
<1>. QED BY <1>2, <1>3, <1>4, <1>5

\* From the checks to the signature.
LEMMA AdvanceKeeps ==
  ASSUME RequestOK, Validated \/ ExtraContext \/ Build \/ Sign
  PROVE  RequestOK'
<1>0. /\ UNCHANGED <<request, dest, lookup, event, passed, required, pin, routed>>
      /\ stage \in Checked /\ stage' \in Checked \ {"validate"}
      /\ stage = "validate" => passed = Checks
      /\ used' \subseteq used \cup {pin}
      /\ builder' = builder \/ builder' = Version
      /\ stage' \in {"sign", "signed"} => stage = "sign" \/ builder' = Version
      /\ stage = "sign" => builder' = builder
  BY DEF Validated, ExtraContext, Build, Sign, Advance, chainVars, checkVars, Dispatched, Load,
         Checked
<1>1. /\ Asked' = Asked /\ OnlyGaps' = OnlyGaps
      /\ Version' = Version /\ Unasked' = Unasked
      /\ RequestType /\ StageOK /\ OneGeneration /\ NotSignedAgain
  BY <1>0, SameLookup, SameGaps DEF RequestOK
<1>2. pin \in Nat /\ used' \subseteq {pin} /\ passed = Checks /\ Version \in Builders
  BY <1>0, <1>1 DEF StageOK, OneGeneration, Checked
<1>3. RequestType'
  BY <1>0, <1>1, <1>2 DEF RequestType, Checked
<1>4. StageOK'
  BY <1>0, <1>1, <1>2 DEF StageOK, Checked
<1>5. NotSignedAgain'
  BY <1>0, <1>1 DEF NotSignedAgain, OnlyGaps
<1>. QED BY <1>0, <1>2, <1>3, <1>4, <1>5 DEF RequestOK, OneGeneration

\* A request that is refused holds nothing.
LEMMA RefuseKeeps == ASSUME RequestOK, Refuse PROVE RequestOK'
<1>0. /\ request' = request /\ stage' = "refused" /\ pin' = Unset /\ used' = {} /\ routed' = None
      /\ event' = NoEvent /\ lookup' = NotAsked /\ passed' = {} /\ required' = Unset
      /\ builder' = None
  BY DEF Refuse
<1>1. ~ Asked'
  BY <1>0 DEF Asked, NotAsked
<1>2. NoEvent \in EventType
  BY DEF NoEvent, EventType
<1>3. RequestType'
  BY <1>0, <1>2 DEF RequestOK, RequestType
<1>4. StageOK'
  BY <1>0, <1>1 DEF StageOK, Checked
<1>. QED BY <1>0, <1>3, <1>4 DEF RequestOK, OneGeneration, NotSignedAgain

\* Every step.
LEMMA RequestStep == ASSUME AllOK, [Next]_vars PROVE RequestOK'
<1>0. RefreshOK /\ SourceTypeOK /\ LookupTypeOK /\ RequestOK /\ LookupOK(Verifier)
  BY DEF AllOK
<1>1. CASE Workflow
  BY <1>0, <1>1, ArrivalKeeps, ResolveKeeps, ReadinessKeeps, PayloadKeeps, AdvanceKeeps,
     RefuseKeeps DEF Workflow
<1>2. CASE SourceMoves \/ TargetMoves \/ (Refresh /\ Aside) \/ UNCHANGED vars
  <2>1. RequestAside
    BY <1>2 DEF SourceMoves, TargetMoves, Aside, RequestFrame, chainVars, requestVars, checkVars,
            vars, RequestAside
  <2>. QED BY <1>0, <2>1, AsideStays
<1>3. CASE DestinationMoves
  <2>1. RequestAside
    BY <1>0, <1>3, DestMoves DEF DestinationMoves, RequestFrame, RequestAside, DestMoved
  <2>. QED BY <1>0, <2>1, AsideStays
<1>4. Workflow \/ DestinationMoves \/ SourceMoves \/ TargetMoves \/ (Refresh /\ Aside)
      \/ UNCHANGED vars
  BY DEF Next
<1>. QED BY <1>1, <1>2, <1>3, <1>4

-----------------------------------------------------------------------------
(* The surroundings, step by step. *)

\* What serves is the loop's alone.
LEMMA ServingStep == ASSUME RefreshOK, [Next]_vars PROVE RefreshOK'
<1>1. CASE Refresh
  BY <1>1, RefreshStep
<1>2. CASE UNCHANGED refreshVars
  BY <1>2 DEF refreshVars, RefreshOK, RefreshTypeOK, ServingSound
<1>3. Refresh \/ UNCHANGED refreshVars
  BY DEF Next, Workflow, Pin, Admit, Route, Resolve, RefreshEvent, ReadSource, Ready, ReadTarget,
         MarkersPinned, Unexpired, SkipLookup, AskDestination, ReadDestination, NotSignedYet,
         Validated, ExtraContext, ReadCall, Build, Sign, Refuse, Advance, CheckFrame, SourceMoves,
         DestinationMoves, TargetMoves, RequestFrame, vars
<1>. QED BY <1>1, <1>2, <1>3

\* A step that reads nothing of the source and does not pass its check.
SourceAside ==
  /\ UNCHANGED <<request, chain, forks, seen, event>>
  /\ (stage' \in Checked) = (stage \in Checked) /\ (stage' = "refresh") = (stage = "refresh")
  /\ "readiness" \in passed' => "readiness" \in passed \/ request.read

\* Such a step keeps what was read.
LEMMA SourceAsideStays ==
  ASSUME SourceTypeOK, SourceOK, SourceAside
  PROVE  SourceTypeOK' /\ SourceOK'
<1>1. SourceTypeOK'
  BY DEF SourceAside, SourceTypeOK, Tip
<1>2. ChainOK' = ChainOK /\ EventOK(event)' = EventOK(event) /\ SeenOK(event)' = SeenOK(event)
      /\ IsFinal(event, event.says)' = IsFinal(event, event.says)
  BY DEF SourceAside, ChainOK, EventOK, SeenOK, IsFinal, Tip
<1>3. SourceOK'
  BY <1>2 DEF SourceAside, SourceOK
<1>. QED BY <1>1, <1>3

\* Every step.
LEMMA SourceStep == ASSUME AllOK, [Next]_vars PROVE SourceTypeOK' /\ SourceOK'
<1>0. SourceTypeOK /\ SourceOK /\ RequestType /\ StageOK /\ ChainOK /\ request' = request
  BY SameRequest DEF AllOK, SourceOK, RequestOK
<1>1. CASE Resolve \/ RefreshEvent
  <2>1. /\ UNCHANGED <<chain, forks, seen, passed>> /\ Visible /\ stage' \in {"refresh", "validate"}
        /\ stage \notin Checked /\ (event' = Packet \/ event' = Hydrated(Packet))
    BY <1>1 DEF Resolve, RefreshEvent, chainVars, checkVars, Checked
  <2>2. /\ event'.height = Packet.height /\ event'.fork = Packet.fork /\ event'.says = Packet.says
    BY <2>1 DEF Hydrated, Packet
  <2>3. EventOK(event)'
    BY <1>0, <2>1, <2>2, PacketRead DEF RequestType
  <2>4. SourceTypeOK' /\ ChainOK'
    BY <1>0, <2>1 DEF SourceTypeOK, ChainOK, Tip
  <2>5. seen' = Unread /\ passed' = {}
    BY <1>0, <2>1 DEF SourceOK, StageOK
  <2>6. SeenOK(event)'
    BY <1>0, <2>1, <2>3, <2>5 DEF SeenOK, EventOK, Unread, Unset, SourceTypeOK
  <2>. QED BY <2>1, <2>3, <2>4, <2>5, <2>6 DEF SourceOK, Checked
<1>2. CASE ReadSource
  <2>1. /\ stage = "validate" /\ UNCHANGED <<stage, event, passed, request>> /\ SourceRead(event)
        /\ EventOK(event) /\ SeenOK(event)
    BY <1>0, <1>2 DEF ReadSource, CheckFrame, Pending, SourceOK, Checked
  <2>2. SourceTypeOK' /\ ChainOK' /\ EventOK(event)' /\ SeenOK(event)' /\ UNCHANGED <<chain, forks>>
    BY <1>0, <2>1, SourceReadKeeps DEF RequestType
  <2>3. IsFinal(event, event.says)' = IsFinal(event, event.says)
    BY <2>1, <2>2 DEF IsFinal
  <2>. QED BY <1>0, <2>1, <2>2, <2>3 DEF SourceOK, Checked
<1>3. CASE Ready
  <2>1. /\ stage = "validate" /\ UNCHANGED <<chain, forks, stage, event, request>>
        /\ Sufficient(event, request.confirmations) /\ seen' = Unread
        /\ EventOK(event) /\ SeenOK(event)
    BY <1>0, <1>3 DEF Ready, CheckFrame, Pending, SourceOK, Checked, chainVars
  <2>2. Final(chain.source) => IsFinal(event, event.says)
    BY <1>0, <2>1, SufficientIsFinal, RequestsAssumption DEF RequestType
  <2>3. /\ ChainOK' = ChainOK /\ EventOK(event)' = EventOK(event)
        /\ IsFinal(event, event.says)' = IsFinal(event, event.says)
    BY <2>1 DEF ChainOK, EventOK, IsFinal, Tip
  <2>4. SourceTypeOK' /\ SeenOK(event)'
    BY <1>0, <2>1 DEF SourceTypeOK, Tip, SeenOK, EventOK, Unread, Unset
  <2>. QED BY <1>0, <2>1, <2>2, <2>3, <2>4 DEF SourceOK, Checked
<1>4. CASE Refuse
  <2>1. /\ UNCHANGED <<chain, forks>> /\ stage' = "refused" /\ seen' = Unread /\ passed' = {}
    BY <1>4 DEF Refuse, chainVars
  <2>2. SourceTypeOK' /\ ChainOK'
    BY <1>0, <2>1 DEF SourceTypeOK, ChainOK, Tip, Unread, Unset
  <2>. QED BY <2>1, <2>2 DEF SourceOK, Checked
<1>5. CASE SourceMoves
  <2>1. /\ ChainMoved /\ UNCHANGED <<stage, event, passed>>
    BY <1>0, <1>5, MineMoves, FinalizeMoves, ReorganizeMoves DEF SourceMoves, RequestFrame
  <2>2. EventOK(event) =>
          /\ EventOK(event)' /\ (SeenOK(event) => SeenOK(event)')
          /\ IsFinal(event, event.says) => IsFinal(event, event.says)'
    BY <1>0, <2>1, SourceStays DEF RequestType
  <2>3. stage \notin Checked => passed = {}
    BY <1>0 DEF StageOK
  <2>4. SourceTypeOK' /\ ChainOK' /\ chain'.source = chain.source /\ seen' = seen
    BY <2>1 DEF ChainMoved
  <2>. QED BY <1>0, <2>1, <2>2, <2>3, <2>4 DEF SourceOK
<1>6. CASE Pin \/ Admit \/ Route \/ Validated \/ ExtraContext \/ Build \/ Sign
  <2>1. SourceAside
    BY <1>6 DEF Pin, Admit, Route, Validated, ExtraContext, Build, Sign, Advance, chainVars,
            checkVars, SourceAside, Checked
  <2>. QED BY <1>0, <2>1, SourceAsideStays
<1>7. CASE \/ ReadTarget \/ MarkersPinned \/ Unexpired \/ SkipLookup \/ AskDestination
           \/ ReadDestination \/ NotSignedYet \/ ReadCall
  <2>1. SourceAside
    BY <1>7 DEF ReadTarget, MarkersPinned, Unexpired, SkipLookup, AskDestination, ReadDestination,
            NotSignedYet, ReadCall, CheckFrame, Passes, chainVars, SourceAside
  <2>. QED BY <1>0, <2>1, SourceAsideStays
<1>8. CASE DestinationMoves \/ TargetMoves \/ (Refresh /\ Aside) \/ UNCHANGED vars
  <2>1. SourceAside
    BY <1>8 DEF DestinationMoves, TargetMoves, Aside, RequestFrame, chainVars, requestVars,
            checkVars, vars, SourceAside
  <2>. QED BY <1>0, <2>1, SourceAsideStays
<1>. QED BY <1>1, <1>2, <1>3, <1>4, <1>5, <1>6, <1>7, <1>8 DEF Next, Workflow

\* The lookup, every step.
LEMMA LookupStep == ASSUME AllOK, [Next]_vars PROVE LookupTypeOK' /\ LookupOK(Verifier)'
<1>0. LookupTypeOK /\ LookupOK(Verifier) /\ Verifier' = Verifier
  BY SameRequest DEF AllOK
<1>1. CASE UNCHANGED <<dest, lookup>>
  <2>1. LookupTypeOK'
    BY <1>0, <1>1 DEF LookupTypeOK
  <2>2. LookupOK(Verifier)'
    BY <1>0, <1>1, SameCount, SameBefore DEF LookupOK, Counts, Enough, Got, Asked
  <2>. QED BY <2>1, <2>2
<1>2. CASE DestinationMoves
  BY <1>0, <1>2, DestMoves, LookupStays DEF DestinationMoves, DestMoved
<1>3. CASE AskDestination
  BY <1>0, <1>3, AskKeeps DEF AskDestination
<1>4. CASE ReadDestination
  BY <1>0, <1>4, LookupReadKeeps DEF ReadDestination
<1>5. CASE NotSignedYet
  BY <1>1, <1>5 DEF NotSignedYet, chainVars
<1>6. CASE Refuse
  <2>1. lookup' = NotAsked /\ dest' = dest
    BY <1>6 DEF Refuse, chainVars
  <2>2. LookupTypeOK'
    BY <1>0, <2>1 DEF LookupTypeOK, NotAsked, Records
  <2>3. /\ lookup'.since = "none" /\ lookup'.record = NoRecord
        /\ \A r \in Parts : lookup'.got[r] = "unread"
    BY <2>1 DEF NotAsked
  <2>4. /\ "record" \in Parts /\ "state" \in Parts /\ "nonce" \in Parts /\ "hash" \in Parts
    BY DEF Parts
  <2>5. LookupOK(Verifier)'
    BY <2>1, <2>3, <2>4 DEF LookupOK, SignedBefore, Counts, Enough, Got, Asked
  <2>. QED BY <2>2, <2>5
<1>7. CASE \/ Pin \/ Admit \/ Route \/ Resolve \/ RefreshEvent \/ ReadSource \/ Ready
           \/ ReadTarget \/ MarkersPinned \/ Unexpired \/ SkipLookup
           \/ Validated \/ ExtraContext \/ ReadCall \/ Build \/ Sign
  <2>1. UNCHANGED <<dest, lookup>>
    BY <1>7 DEF Pin, Admit, Route, Resolve, RefreshEvent, ReadSource, Ready, ReadTarget,
            MarkersPinned, Unexpired, SkipLookup, Validated, ExtraContext, ReadCall, Build, Sign,
            Advance, chainVars, checkVars
  <2>. QED BY <1>1, <2>1
<1>8. CASE SourceMoves \/ TargetMoves \/ (Refresh /\ Aside) \/ UNCHANGED vars
  <2>1. UNCHANGED <<dest, lookup>>
    BY <1>8 DEF SourceMoves, TargetMoves, Aside, chainVars, requestVars, checkVars, vars
  <2>. QED BY <1>1, <2>1
<1>. QED BY <1>2, <1>3, <1>4, <1>5, <1>6, <1>7, <1>8 DEF Next, Workflow

\* The target and what was read of it, every step.
LEMMA ReadingStep == ASSUME AllOK, [Next]_vars PROVE ReadTypeOK' /\ ReadingOK(AllMarkers)'
<1>0. /\ ReadTypeOK /\ ReadingOK(AllMarkers) /\ AllMarkers' = AllMarkers
      /\ AllMarkers \subseteq Marker
  BY SameRequest, MarkersTyped DEF AllOK, RequestOK, RequestType
<1>1. CASE UNCHANGED <<target, reorgs, reading>>
  <2>1. ReadTypeOK'
    BY <1>0, <1>1 DEF ReadTypeOK, TargetTip
  <2>2. TargetMoved
    <3>1. /\ TargetTip' = TargetTip /\ TargetTip \in Nat /\ reorgs \in Nat
      BY <1>0, <1>1, TargetNumbers DEF TargetTip
    <3>. QED BY <1>0, <1>1, <2>1, <3>1 DEF TargetMoved, ForkAt, TimeAt, ReadingOK
  <2>. QED BY <1>0, <2>1, <2>2, ReadingStays
<1>2. CASE TargetMoves
  <2>1. \A h \in 1 .. TargetTip : ForkAt(h) <= reorgs
    BY <1>0 DEF ReadingOK, ForkAt
  <2>2. TargetMoved
    BY <1>0, <1>2, <2>1, GrowMoves, ReplaceMoves DEF TargetMoves
  <2>3. ReadTypeOK'
    BY <2>2 DEF TargetMoved
  <2>. QED BY <1>0, <2>2, <2>3, ReadingStays
<1>3. CASE ReadTarget
  BY <1>0, <1>3, HeaderKeeps, LatestKeeps, PinKeeps DEF ReadTarget, MarkerRead
<1>4. CASE ReadCall
  BY <1>0, <1>4, CallKeeps DEF ReadCall
<1>5. CASE Refuse
  <2>1. reading' = NotReading /\ UNCHANGED <<target, reorgs>>
    BY <1>5 DEF Refuse, chainVars
  <2>2. \A h \in 1 .. TargetTip : target.forks[h] <= reorgs
    BY <1>0 DEF ReadingOK
  <2>. QED BY <1>0, <2>1, <2>2, ReadingDropped
<1>6. CASE \/ Pin \/ Admit \/ Route \/ Resolve \/ RefreshEvent \/ ReadSource \/ Ready
           \/ MarkersPinned \/ Unexpired \/ SkipLookup \/ AskDestination \/ ReadDestination
           \/ NotSignedYet \/ Validated \/ ExtraContext \/ Build \/ Sign
  <2>1. UNCHANGED <<target, reorgs, reading>>
    BY <1>6 DEF Pin, Admit, Route, Resolve, RefreshEvent, ReadSource, Ready, MarkersPinned,
            Unexpired, SkipLookup, AskDestination, ReadDestination, NotSignedYet, Validated,
            ExtraContext, Build, Sign, Advance, chainVars, checkVars
  <2>. QED BY <1>1, <2>1
<1>7. CASE SourceMoves \/ DestinationMoves \/ (Refresh /\ Aside) \/ UNCHANGED vars
  <2>1. UNCHANGED <<target, reorgs, reading>>
    BY <1>7 DEF SourceMoves, DestinationMoves, Aside, chainVars, requestVars, checkVars, vars
  <2>. QED BY <1>1, <2>1
<1>. QED BY <1>2, <1>3, <1>4, <1>5, <1>6, <1>7 DEF Next, Workflow

-----------------------------------------------------------------------------
(* The specification. *)

\* It holds at the start: the chains are as they are, and nothing was read.
LEMMA InitOK == ASSUME Init PROVE AllOK
<1>1. RefreshOK
  BY RolloutsAssumption DEF Init, RefreshInit, RefreshOK, RefreshTypeOK, ServingSound, Last, Objects
<1>2. SourceTypeOK /\ SourceOK
  <2>1. PICK source \in Sources, height \in 1 .. MaxHeight, m \in Messages :
          \E final \in (IF Instant(source) THEN height ELSE 0) .. height, at \in 1 .. height :
            chain = [source |-> source, blocks |-> [i \in 1 .. height |-> 0],
                     final |-> final, at |-> at, says |-> m]
    BY DEF Init, SourceInit
  <2>2. PICK final \in (IF Instant(source) THEN height ELSE 0) .. height, at \in 1 .. height :
            chain = [source |-> source, blocks |-> [i \in 1 .. height |-> 0],
                     final |-> final, at |-> at, says |-> m]
    BY <2>1
  <2>3. /\ height \in Nat /\ final \in Nat /\ at \in Nat /\ final <= height /\ at <= height
        /\ Instant(source) => final = height
    BY SourceAssumption, <2>2
  <2>4. [i \in 1 .. height |-> 0] \in Seq(0 .. MaxForks) /\ Len([i \in 1 .. height |-> 0]) = height
    BY SourceAssumption, <2>3
  <2>5. /\ chain.source = source /\ chain.blocks = [i \in 1 .. height |-> 0]
        /\ chain.final = final /\ chain.at = at /\ chain.says = m
        /\ chain \in ChainType
    BY <2>2, <2>3, <2>4 DEF ChainType
  <2>6. Tip = height /\ forks = 0 /\ seen = Unread /\ stage = "new" /\ passed = {}
    BY <2>4, <2>5 DEF Tip, Init, SourceInit
  <2>7. SourceTypeOK
    BY <2>3, <2>5, <2>6, SourceAssumption DEF SourceTypeOK, ChainType, Unread, Unset
  <2>8. ChainOK
    BY <2>3, <2>5, <2>6 DEF ChainOK
  <2>. QED BY <2>6, <2>7, <2>8 DEF SourceOK, Checked
<1>3. LookupTypeOK /\ LookupOK(Verifier) /\ ~ Asked
  <2>1. LookupTypeOK
    BY DEF Init, LookupInit, LookupTypeOK, NotAsked, Records
  <2>2. /\ lookup = NotAsked /\ lookup.since = "none" /\ lookup.record = NoRecord
        /\ \A r \in Parts : lookup.got[r] = "unread"
    BY DEF Init, LookupInit, NotAsked
  <2>3. /\ "record" \in Parts /\ "state" \in Parts /\ "nonce" \in Parts /\ "hash" \in Parts
    BY DEF Parts
  <2>. QED BY <2>1, <2>2, <2>3 DEF LookupOK, SignedBefore, Counts, Enough, Got, Asked
<1>4. ReadTypeOK /\ ReadingOK(AllMarkers)
  <2>1. PICK tip \in Heights :
          target = [forks |-> [h \in 1 .. tip |-> 0], times |-> [h \in 1 .. tip |-> 2 * h]]
    BY DEF Init, TargetInit
  <2>2. /\ tip \in Nat
        /\ [h \in 1 .. tip |-> 0] \in Seq(0 .. TargetForks) /\ Len([h \in 1 .. tip |-> 0]) = tip
        /\ [h \in 1 .. tip |-> 2 * h] \in Seq(Nat) /\ Len([h \in 1 .. tip |-> 2 * h]) = tip
    BY TargetAssumption DEF Heights
  <2>3. /\ target.forks = [h \in 1 .. tip |-> 0] /\ target.times = [h \in 1 .. tip |-> 2 * h]
        /\ TargetTip = tip /\ Len(target.times) = tip /\ target \in TargetType
        /\ reorgs = 0 /\ reading = NotReading
    BY <2>1, <2>2 DEF TargetTip, TargetType, Init, TargetInit
  <2>4. NoHeader \in Blocks /\ 0 \in 0 .. TargetHeight
    BY TargetAssumption DEF NoHeader, Blocks
  <2>5. NotReading \in ReadingType
    BY <2>4 DEF NotReading, ReadingType
  <2>6. ReadTypeOK
    <3>1. reading \in ReadingType /\ TargetTip \in Heights /\ Len(target.times) = TargetTip
      BY <2>3, <2>5
    <3>2. reorgs \in 0 .. TargetForks
      BY <2>3, TargetAssumption
    <3>. QED BY <2>3, <3>1, <3>2 DEF ReadTypeOK, TargetType, ReadingType, Marker
  <2>7. /\ \A h \in Heights : Header(h) = NoHeader /\ reading.latest[h] = 0
        /\ reading.pins = {} /\ reading.answers = {}
    BY <2>3 DEF Header, NotReading
  <2>8. \A h \in 1 .. TargetTip : target.forks[h] <= reorgs
    BY <2>3
  <2>9. ReadingOK(AllMarkers)
    BY <2>7, <2>8 DEF ReadingOK
  <2>. QED BY <2>6, <2>9
<1>5. RequestOK
  <2>1. NoEvent \in EventType
    BY DEF NoEvent, EventType
  <2>2. RequestType
    BY <2>1 DEF Init, RequestType
  <2>3. StageOK /\ OneGeneration /\ NotSignedAgain
    BY <1>3 DEF Init, StageOK, Checked, OneGeneration, NotSignedAgain
  <2>. QED BY <2>2, <2>3 DEF RequestOK
<1>. QED BY <1>1, <1>2, <1>3, <1>4, <1>5 DEF AllOK

\* The parts together are an invariant of the specification.
LEMMA AllHolds == Spec => []AllOK
<1>1. Init => AllOK
  BY InitOK
<1>2. AllOK /\ [Next]_vars => AllOK'
  <2>. SUFFICES ASSUME AllOK, [Next]_vars PROVE AllOK'
    OBVIOUS
  <2>1. RefreshOK'
    BY ServingStep DEF AllOK
  <2>. QED BY <2>1, RequestStep, SourceStep, LookupStep, ReadingStep DEF AllOK
<1>. QED BY <1>1, <1>2, PTL DEF Spec

\* What serves is sound, however the operator's writes and the loop's reads
\* interleave (check_providers_binding, candidate, StaticProviderConfig::new).
THEOREM ServingSoundHolds == Spec => []ServingSound
<1>1. AllOK => ServingSound
  BY DEF AllOK, RefreshOK
<1>. QED BY <1>1, AllHolds, PTL

\* A packet is looked up before it is signed for, every read keeps to the pinned
\* generation, and what the checks know of the three chains stays true while the
\* chains move (sign_request_v2_inner, pin_for_request).
THEOREM WorkflowInvHolds == Spec => []WorkflowInv
<1>1. AllOK => WorkflowInv
  <2>. SUFFICES ASSUME AllOK PROVE WorkflowInv
    OBVIOUS
  <2>1. /\ TypeOK /\ RequestType /\ StageOK /\ OneGeneration /\ SourceOK /\ LookupOK(Verifier)
        /\ ReadingOK(AllMarkers)
    BY TypesTogether DEF AllOK, RefreshOK, RequestOK
  <2>2. ASSUME stage = "signed", builder # "V2", dest.family = "evm" \/ request.dvn PROVE Asked
    <3>1. "payload" \in passed /\ event.guid = (Version # "V2") /\ builder = Version
      BY <2>1, <2>2 DEF StageOK, Checked, Checks
    <3>2. ~ Unasked
      BY <2>2, <3>1 DEF Unasked
    <3>. QED BY <2>1, <3>1, <3>2 DEF StageOK
  <2>. QED BY <2>1, <2>2 DEF WorkflowInv, RoutedIsLookedUp
<1>. QED BY <1>1, AllHolds, PTL

\* On a source whose blocks become final, what was signed is what the final
\* chain says for good (observe_block_confirmations, validate_receipt_binding).
THEOREM SignedIsFinalHolds == Spec => []SignedIsFinal
<1>1. AllOK => SignedIsFinal
  <2>. SUFFICES ASSUME AllOK, stage = "signed", ~ request.read, Final(chain.source)
                PROVE  IsFinal(event, request.says)
    BY DEF SignedIsFinal
  <2>1. passed = Checks /\ event.says = request.says
    BY DEF AllOK, RequestOK, StageOK, Checked
  <2>2. IsFinal(event, event.says)
    BY <2>1 DEF AllOK, SourceOK, Checks
  <2>. QED BY <2>1, <2>2
<1>. QED BY <1>1, AllHolds, PTL

\* What was committed, delivered or stored with enough confirmations when its
\* lookup began is not signed again, whatever happens between the observer's reads,
\* except through the gaps the property names: the records of the Move chains, Sui,
\* Stellar and Canton, a stored zero, the states of Aptos and Stellar that are asked
\* no further, and a delivery under their lookup (payload_signed_validation_result).
THEOREM NotSignedAgainHolds == Spec => []NotSignedAgain
<1>1. AllOK => NotSignedAgain
  BY DEF AllOK, RequestOK
<1>. QED BY <1>1, AllHolds, PTL

\* The answers of a READ command are those of the blocks its markers mean, which
\* stay where reorganizations are no deeper than the marker's confirmations
\* (validate_read_time_markers, call_evm_view_at_marker).
THEOREM ReadIsPinnedHolds == Spec => []ReadIsPinned
<1>1. AllOK => ReadIsPinned
  BY AnswersFollow, MarkersTyped DEF AllOK, RequestOK, RequestType, ReadIsPinned
<1>. QED BY <1>1, AllHolds, PTL
=============================================================================

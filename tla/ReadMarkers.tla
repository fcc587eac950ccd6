------------------------------ MODULE ReadMarkers ------------------------------
(***************************************************************************)
(* The blocks a READ command is answered from: validate_read_time_markers  *)
(* of crates/pillar-runtime/src/layerzero_runtime/                         *)
(* validation_read_markers.rs, which settles them, and                     *)
(* call_evm_view_at_marker of read_payload.rs, which reads at them.        *)
(*                                                                         *)
(* A command names its blocks by number or by timestamp; the caller says   *)
(* which block a timestamp means.  Headers are read, compared with the     *)
(* timestamps, confirmed and pinned by hash while the target chain, one    *)
(* here, grows and reorganizes.  A block is its height and the fork it was *)
(* mined on, which also tell its ancestors.  A read is what the quorum     *)
(* agrees on, seen at one moment.                                          *)
(***************************************************************************)
EXTENDS Integers, Sequences, FiniteSets

CONSTANTS TargetHeight,   \* of the target chain
          TargetForks,    \* reorganizations of it
          Depth,          \* blocks a reorganization replaces at most
          MaxMarkers      \* MAX_READ_MARKERS

ASSUME TargetAssumption ==
  /\ TargetHeight \in Nat \ {0} /\ TargetForks \in Nat
  /\ Depth \in Nat /\ MaxMarkers \in Nat

Heights == 1 .. TargetHeight
ByNumber == 0             \* the timestamp of a marker that names a number
NoHeader == [fork |-> -1, time |-> 0, parent |-> -1, since |-> 0]

VARIABLES
  target,    \* the chain: the fork and the timestamp of each block
  reorgs,    \* reorganizations so far
  reading    \* headers and heads read, blocks pinned, answers

NotReading ==
  [headers |-> [h \in Heights |-> NoHeader], latest |-> [h \in Heights |-> 0],
   pins |-> {}, answers |-> {}]

TargetTip == Len(target.forks)

\* Block times grow with the height, and differ from fork to fork.
TimesOf(h) == {2 * h, 2 * h + 1}
Late(h, late) == IF h \in late THEN 2 * h + 1 ELSE 2 * h

\* A header names its parent, which has a timestamp of its own (since).
Block(h) ==
  [fork |-> target.forks[h], time |-> target.times[h],
   parent |-> IF h = 1 THEN -1 ELSE target.forks[h - 1],
   since |-> IF h = 1 THEN 0 ELSE target.times[h - 1]]

Blocks == [fork : Int, time : Int, parent : Int, since : Int]

ReadTypeOK ==
  /\ target \in [forks : Seq(0 .. TargetForks), times : Seq(Nat)]
  /\ TargetTip \in Heights /\ Len(target.times) = TargetTip
  /\ reorgs \in 0 .. TargetForks
  /\ reading \in
       [headers : [Heights -> Blocks], latest : [Heights -> 0 .. TargetHeight],
        pins : SUBSET [height : Heights, fork : 0 .. TargetForks],
        answers : SUBSET [marker : [time : Int, height : Int, confirmations : Int],
                          block : Blocks]]

TargetInit ==
  /\ \E tip \in Heights :
       target = [forks |-> [h \in 1 .. tip |-> 0], times |-> [h \in 1 .. tip |-> 2 * h]]
  /\ reorgs = 0 /\ reading = NotReading

-----------------------------------------------------------------------------
(* The target chain. *)

TargetGrows ==
  /\ TargetTip < TargetHeight
  /\ \E time \in TimesOf(TargetTip + 1) :
       target' = [forks |-> Append(target.forks, reorgs), times |-> Append(target.times, time)]
  /\ UNCHANGED <<reorgs, reading>>

\* Up to Depth blocks are replaced.
TargetReorganizes ==
  /\ reorgs < TargetForks /\ reorgs' = reorgs + 1
  /\ \E h \in TargetTip - Depth .. TargetTip - 1 :
       /\ h >= 0
       /\ \E late \in SUBSET (h + 1 .. TargetTip) :
            target' =
              [forks |-> [i \in 1 .. TargetTip |-> IF i <= h THEN target.forks[i] ELSE reorgs + 1],
               times |-> [i \in 1 .. TargetTip |-> IF i <= h THEN target.times[i] ELSE Late(i, late)]]
  /\ UNCHANGED reading

-----------------------------------------------------------------------------
(* Readiness.  A command is a set of markers [time, height, confirmations],   *)
(* whose height is the caller's where the time is not ByNumber; resolved is   *)
(* the caller's list, in the same form.                                       *)

\* validate_read_markers_preflight: well-formed resolutions, one block for each
\* timestamp, exactly those the command asks for.
Preflight(command, resolved) ==
  /\ Cardinality(resolved) <= MaxMarkers
  /\ \A m \in resolved : m.time >= 0 /\ m.height >= 1 /\ m.confirmations >= 0
  /\ \A m, other \in resolved : m.time = other.time => m.height = other.height
  /\ {<<m.time, m.confirmations>> : m \in resolved}
       = {<<m.time, m.confirmations>> : m \in {c \in command : c.time # ByNumber}}

\* The markers with their heights: the command's own and the caller's.
Markers(command, resolved) == {m \in command : m.time = ByNumber} \cup resolved

\* requirements: the strictest of the markers of a block is met by the head.
Confirmed(h, markers) ==
  \A m \in markers : m.height = h => reading.latest[h] >= h + m.confirmations

Pinned(markers) == {m.height : m \in markers}
HeadersOf(markers) ==
  Pinned(markers) \cup {m.height - 1 : m \in {n \in markers : n.time # ByNumber /\ n.height > 1}}
Header(h) == reading.headers[h]
HeadersRead(markers) == \A h \in HeadersOf(markers) : h \in Heights /\ Header(h) # NoHeader

ReadHeader(h, markers) ==
  /\ h \in HeadersOf(markers) /\ Header(h) = NoHeader /\ h <= TargetTip
  /\ reading' = [reading EXCEPT !.headers[h] = Block(h)]
  /\ UNCHANGED <<target, reorgs>>

\* block_matches_resolved_timestamp: the block before it is its parent, "not
\* merely the block at the previous height".
Covers(m) ==
  LET block == Header(m.height) IN
  IF m.height = 1 THEN block.time = m.time
  ELSE /\ block.time >= m.time
       /\ Header(m.height - 1).fork = block.parent
       /\ Header(m.height - 1).time < m.time

TimesCovered(markers) ==
  HeadersRead(markers) /\ \A m \in markers : m.time # ByNumber => Covers(m)

\* block_confirmation_satisfied_with_quorum: the head, then the pinned block.
ReadLatest(h, markers) ==
  /\ TimesCovered(markers) /\ h \in Pinned(markers) /\ reading.latest[h] = 0
  /\ reading' = [reading EXCEPT !.latest[h] = TargetTip]
  /\ UNCHANGED <<target, reorgs>>

ReadPinned(h, markers) ==
  /\ reading.latest[h] # 0 /\ h \in Pinned(markers)
  /\ [height |-> h, fork |-> Header(h).fork] \notin reading.pins
  /\ Block(h).fork = Header(h).fork
  /\ Confirmed(h, markers)
  /\ reading' = [reading EXCEPT !.pins = @ \cup {[height |-> h, fork |-> Header(h).fork]}]
  /\ UNCHANGED <<target, reorgs>>

MarkerRead(markers) ==
  \E h \in Heights : ReadHeader(h, markers) \/ ReadLatest(h, markers) \/ ReadPinned(h, markers)

MarkersReady(markers) == {pin.height : pin \in reading.pins} = Pinned(markers)

-----------------------------------------------------------------------------
(* The calls. *)

\* Fault: the call names the number.
CallByNumber(h) == \E pin \in reading.pins : pin.height = h

\* {blockHash, requireCanonical: true}, and no call without a pin.
Callable(h) == \E pin \in reading.pins : pin.height = h /\ pin.fork = Block(h).fork

Call(m, markers) ==
  /\ m \in markers /\ \A a \in reading.answers : a.marker # m
  /\ Callable(m.height)
  /\ reading' = [reading EXCEPT !.answers = @ \cup {[marker |-> m, block |-> Block(m.height)]}]
  /\ UNCHANGED <<target, reorgs>>

AllCalled(markers) == {a.marker : a \in reading.answers} = markers

-----------------------------------------------------------------------------
\* The block an answer came from is the first that is not before its timestamp.
AnswersCover ==
  \A a \in reading.answers :
    a.marker.time # ByNumber =>
      IF a.marker.height = 1 THEN a.block.time = a.marker.time
      ELSE a.block.since < a.marker.time /\ a.marker.time <= a.block.time

\* An answer with as many confirmations as reorganizations are deep stays true.
AnswersStay ==
  \A a \in reading.answers :
    a.marker.confirmations >= Depth => Block(a.marker.height) = a.block

(* The parts of the inductive invariant behind these. *)

\* A height and a fork name a block and its parent, then and now.
HeaderOK(h) ==
  LET header == Header(h) IN
  /\ h <= TargetTip /\ header.fork \in 0 .. reorgs
  /\ target.forks[h] = header.fork => Block(h) = header
  /\ h > 1 =>
       /\ header.parent \in 0 .. reorgs
       /\ target.forks[h - 1] = header.parent => target.times[h - 1] = header.since
       /\ Header(h - 1).fork = header.parent => Header(h - 1).time = header.since

\* What is pinned was read, confirmed and still there, and stays there where the
\* confirmations are more than a reorganization replaces.
PinOK(p, markers) ==
  /\ Header(p.height) # NoHeader /\ Header(p.height).fork = p.fork
  /\ reading.latest[p.height] # 0 /\ Confirmed(p.height, markers)
  /\ \A m \in markers : m.height = p.height /\ m.confirmations >= Depth =>
       target.forks[p.height] = p.fork

ReadingOK(markers) ==
  /\ \A h \in 1 .. TargetTip : target.forks[h] <= reorgs
  /\ \A h \in Heights :
       /\ Header(h) # NoHeader => HeaderOK(h)
       /\ reading.latest[h] # 0 => TimesCovered(markers) /\ reading.latest[h] <= TargetTip
  /\ \A p \in reading.pins : PinOK(p, markers)
  /\ \A a \in reading.answers :
       /\ a.marker \in markers /\ a.block = Header(a.marker.height)
       /\ \E p \in reading.pins : p.height = a.marker.height
=============================================================================

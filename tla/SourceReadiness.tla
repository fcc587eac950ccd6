---------------------------- MODULE SourceReadiness ----------------------------
(***************************************************************************)
(* The source chain of a packet and the readiness check of it, read by     *)
(* read: validate_message_readiness_with_quorum and the observers of       *)
(* validation_readiness.rs, source_events_move.rs, source_events_sui.rs,   *)
(* canton_sequencer.rs (crates/pillar-runtime/src/layerzero_runtime) and   *)
(* evm_observations.rs (crates/pillar-runtime/src/provider_health).        *)
(*                                                                         *)
(* A read is what the quorum agrees on (ExactQuorum.tla), seen at one      *)
(* moment; between two reads the chain grows and reorganizes.  A block is  *)
(* its height and the fork it was mined on; the transaction may say        *)
(* something else where a reorganization includes it again.  A source is   *)
(* one of the ways the code checks readiness; "final" are the EVM chains   *)
(* that have to be final (polygon and tron), "move" the Move chains, "sui" *)
(* also IOTA.                                                              *)
(***************************************************************************)
EXTENDS Integers, Sequences

CONSTANTS Messages,    \* what a packet can say
          MaxHeight,   \* of the source chain
          MaxForks     \* reorganizations of it

Sources == {"final", "evm", "solana", "starknet", "stellar", "move", "sui",
            "ton", "canton"}
None == "none"
Unset == -1

ASSUME SourceAssumption ==
  None \notin Messages /\ MaxHeight \in Nat \ {0} /\ MaxForks \in Nat

VARIABLES
  chain,     \* its source, blocks (a fork per height), final height, and where
             \* the transaction is and what it says there
  forks,     \* reorganizations so far
  seen       \* what the observer has read

Unread == [receipt |-> Unset, head |-> Unset, final |-> Unset, canonical |-> Unset]

Tip == Len(chain.blocks)

\* Consensus decides these blocks before anyone sees them.
Instant(source) == source \in {"stellar", "move", "sui", "ton", "canton"}

SourceTypeOK ==
  /\ chain \in [source : Sources, blocks : Seq(0 .. MaxForks), final : Nat, at : Nat,
                says : Messages]
  /\ Tip \in 1 .. MaxHeight /\ chain.final <= Tip /\ chain.at <= Tip
  /\ forks \in 0 .. MaxForks
  /\ seen \in [{"receipt", "head", "final", "canonical"} -> Int]

SourceInit ==
  /\ \E source \in Sources, height \in 1 .. MaxHeight, m \in Messages :
     \E final \in (IF Instant(source) THEN height ELSE 0) .. height, at \in 1 .. height :
       chain = [source |-> source, blocks |-> [i \in 1 .. height |-> 0],
                final |-> final, at |-> at, says |-> m]
  /\ forks = 0 /\ seen = Unread

-----------------------------------------------------------------------------
(* The chain. *)

\* A block is added; the transaction may be in it when it is in none.
Mine ==
  /\ Tip < MaxHeight
  /\ \E at \in {chain.at} \cup (IF chain.at = 0 THEN {Tip + 1} ELSE {}) :
     \E says \in IF at = chain.at THEN {chain.says} ELSE Messages :
       chain' = [chain EXCEPT !.blocks = Append(@, forks), !.at = at, !.says = says,
                              !.final = IF Instant(chain.source) THEN Tip + 1 ELSE @]
  /\ UNCHANGED <<forks, seen>>

Finalize ==
  /\ chain.final < Tip
  /\ chain' = [chain EXCEPT !.final = @ + 1]
  /\ UNCHANGED <<forks, seen>>

\* The blocks above some height that is not below the final one are replaced.
Reorganize ==
  /\ forks < MaxForks
  /\ \E h \in chain.final .. Tip - 1 :
     \E at \in IF chain.at \in 1 .. h THEN {chain.at} ELSE {0} \cup (h + 1 .. Tip) :
     \E says \in IF at \in 0 .. h THEN {chain.says} ELSE Messages :
       chain' = [chain EXCEPT !.at = at, !.says = says,
                   !.blocks = [i \in 1 .. Tip |-> IF i <= h THEN @[i] ELSE forks + 1]]
  /\ forks' = forks + 1
  /\ UNCHANGED seen

-----------------------------------------------------------------------------
(* The observers: which reads each makes, which of them last, when the others *)
(* have answered, and what of the receipt it compares with the event, whose   *)
(* place is [height, fork].                                                   *)

EvmObserver == [reads |-> {"receipt", "head"}, last |-> {}, binds |-> {"height", "block"}]

FinalObserver ==
  [EvmObserver EXCEPT !.reads = {"receipt", "head", "final", "canonical"},
                      !.last = {"canonical"}]

StarknetObserver == [EvmObserver EXCEPT !.reads = {"receipt", "head", "canonical"}]

SolanaObserver == [EvmObserver EXCEPT !.binds = {"height"}]

StellarObserver == [EvmObserver EXCEPT !.binds = {}]

MoveObserver == [reads |-> {"receipt", "head"}, last |-> {"head"}, binds |-> {}]

SuiObserver == [reads |-> {"receipt", "head"}, last |-> {"head"}, binds |-> {}]

\* By the seqno of the event.
TonObserver == [reads |-> {"head"}, last |-> {}, binds |-> {}]

\* By the local clock.
CantonObserver == [reads |-> {}, last |-> {}, binds |-> {}]

Observer ==
  CASE chain.source = "final" -> FinalObserver
    [] chain.source = "evm" -> EvmObserver
    [] chain.source = "starknet" -> StarknetObserver
    [] chain.source = "solana" -> SolanaObserver
    [] chain.source = "stellar" -> StellarObserver
    [] chain.source = "move" -> MoveObserver
    [] chain.source = "sui" -> SuiObserver
    [] chain.source = "ton" -> TonObserver
    [] chain.source = "canton" -> CantonObserver

\* Solana transactions are asked for at commitment "finalized".
Visible == chain.at # 0 /\ (chain.source = "solana" => chain.at <= chain.final)

Answered(reads) == \A r \in reads : seen[r] # Unset

Due(r) ==
  /\ r \in Observer.reads /\ seen[r] = Unset
  /\ r \in Observer.last => Answered(Observer.reads \ Observer.last)

Saw(r, value) == seen' = [seen EXCEPT ![r] = value] /\ UNCHANGED <<chain, forks>>

\* validate_receipt_binding and its equals: the receipt is still the event's.
Bound(e) ==
  /\ "height" \in Observer.binds => chain.at = e.height
  /\ "block" \in Observer.binds => chain.blocks[chain.at] = e.fork

ReadReceipt(e) ==
  /\ Due("receipt") /\ Visible /\ Bound(e)
  /\ Saw("receipt", chain.at)

ReadHead ==
  /\ Due("head")
  /\ Saw("head", IF chain.source = "solana" THEN chain.final ELSE Tip)

ReadFinalized == Due("final") /\ Saw("final", chain.final)

\* The block at the event's height, on a final source when that height is final.
ReadCanonical(e) ==
  /\ Due("canonical") /\ e.height <= Tip
  /\ "final" \in Observer.reads => seen.final >= e.height
  /\ Saw("canonical", chain.blocks[e.height])

SourceRead(e) == ReadReceipt(e) \/ ReadHead \/ ReadFinalized \/ ReadCanonical(e)

\* Fault: a final height is enough, whatever block is there.
FinalHeight(e) == chain.source = "final" => seen.final >= e.height

\* The event's block is the canonical one (at a final height, on a final source).
FinalBlock(e) == "canonical" \in Observer.reads => seen.canonical = e.fork

\* The blocks on top of the transaction's, by what was read; TON's never negative.
BlocksOnTop(e) ==
  LET n == seen.head - (IF "receipt" \in Observer.reads THEN seen.receipt ELSE e.height)
  IN  IF chain.source = "ton" /\ n < 0 THEN 0 ELSE n

\* BlockConfirmationValidity::Sufficient; Canton's clock has moved on enough.
Sufficient(e, confirmations) ==
  /\ Answered(Observer.reads \ {"canonical"})
  /\ "head" \in Observer.reads => BlocksOnTop(e) >= confirmations
  /\ FinalBlock(e)

-----------------------------------------------------------------------------
\* The event's block stays where it is and says what it said.
IsFinal(e, says) ==
  /\ e.height <= chain.final /\ chain.at = e.height
  /\ chain.blocks[e.height] = e.fork /\ chain.says = says

\* The sources on which a signature has to wait for finality: the chains that
\* are final at once, Solana by its commitment, polygon and tron by the check.
Final(source) == Instant(source) \/ source \in {"final", "solana"}

(* The parts of the inductive invariant behind a final event. *)

\* A reorganization's number is new; what is decided at once is final at once.
ChainOK ==
  /\ \A i \in 1 .. Tip : chain.blocks[i] <= forks
  /\ Instant(chain.source) => chain.final = Tip

\* While the event's block is there, so are the transaction and what it says;
\* where the packet is only visible when final, it is final.
EventOK(e) ==
  /\ e.height \in 1 .. Tip /\ e.fork \in 0 .. forks
  /\ chain.blocks[e.height] = e.fork => chain.at = e.height /\ chain.says = e.says
  /\ Instant(chain.source) \/ chain.source = "solana" => IsFinal(e, e.says)

\* The canonical block was read at a height that was final by then.
SeenOK(e) ==
  /\ seen.final <= chain.final
  /\ chain.source = "final" /\ seen.canonical = e.fork => IsFinal(e, e.says)
=============================================================================

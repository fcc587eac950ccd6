----------------------------- MODULE PayloadLookup -----------------------------
(***************************************************************************)
(* Whether a packet is signed already, asked at its destination: validate_ *)
(* payload_not_signed_with_quorum and the observer of each family of       *)
(* chains, in validation_payload.rs, validation_payload_solana.rs,         *)
(* validation_payload_ton.rs, validation_payload_sui.rs,                   *)
(* validation_payload_stellar.rs, canton_sequencer.rs (crates/             *)
(* pillar-runtime/src/layerzero_runtime) and evm_payload_observations.rs   *)
(* (crates/pillar-runtime/src/provider_health).                            *)
(*                                                                         *)
(* The destination moves on while it is asked: the verifier's record is    *)
(* stored, the packet is committed, which may reclaim the record, and      *)
(* delivered, which clears the stored hash.  The answer is put together    *)
(* from up to four reads, each seen at one moment and in the order the     *)
(* family's observer makes them.  Library and configuration are settings   *)
(* and are read with the start of the lookup; a library that is not        *)
(* supported, and a read that fails, refuse the request.                   *)
(***************************************************************************)
EXTENDS Integers

CONSTANT Required     \* the confirmations a destination may require

\* "aptos" is EndpointV1 on Aptos, "move" ULN302 on Aptos, Movement and Initia,
\* "sui" also IOTA.
Families == {"evm", "solana", "starknet", "ton", "aptos", "move", "sui", "stellar", "canton"}
NoRecord == -1
Parts == {"record", "state", "nonce", "hash"}

ASSUME RequiredAssumption == Required \subseteq Nat /\ Required # {}

VARIABLES
  dest,      \* family, required confirmations, the verifier's record, whether
             \* the packet is "open", "committed" or "delivered", and whether
             \* the receiver's library is the READ one (ReadV1002, EVM only)
  lookup     \* the packet and the record when the lookup started, its answers

NotAsked == [since |-> "none", record |-> NoRecord, got |-> [r \in Parts |-> "unread"]]

Records == {NoRecord} \cup Required

Destinations ==
  {d \in [family : Families, required : Required, record : Records,
          packet : {"open", "committed", "delivered"}, reads : BOOLEAN] :
     d.reads => d.family = "evm"}

LookupTypeOK ==
  /\ dest \in Destinations
  /\ lookup \in [since : {"none", "open", "committed", "delivered"}, record : Records,
                 got : [Parts -> {"unread", "yes", "no", "other"}]]

LookupInit == dest \in Destinations /\ lookup = NotAsked

-----------------------------------------------------------------------------
(* The destination. *)

\* A signature of this verifier that was given before lands, or is replaced by
\* one with more confirmations.
Verify ==
  /\ dest.packet = "open"
  /\ \E n \in Required : n > dest.record /\ dest' = [dest EXCEPT !.record = n]
  /\ UNCHANGED lookup

\* "commit reclaims the DVN's record" (observe_starknet_payload_signed).
CommitPacket ==
  /\ dest.packet = "open"
  /\ \E r \in {dest.record, NoRecord} :
       dest' = [dest EXCEPT !.packet = "committed", !.record = r]
  /\ UNCHANGED lookup

Deliver ==
  /\ dest.packet = "committed"
  /\ dest' = [dest EXCEPT !.packet = "delivered"]
  /\ UNCHANGED lookup

-----------------------------------------------------------------------------
(* The observers: which of the verifier's record and the packet's state each  *)
(* reads first ("both" at once, or "either", side by side), whether a count   *)
(* of zero is taken for no record, as the Move views answer it for none, and  *)
(* the state after which the inbound nonce has to tell ("no" on Aptos is      *)
(* VERIFYING; "other" are its states 1, 3 and 4, not signed without a read).  *)

EvmLookup == [first |-> "record", zeroIsNone |-> FALSE, doubts |-> "none"]

SolanaLookup == [first |-> "both", zeroIsNone |-> TRUE, doubts |-> "none"]

StarknetLookup == [first |-> "record", zeroIsNone |-> FALSE, doubts |-> "none"]

TonLookup == [first |-> "record", zeroIsNone |-> FALSE, doubts |-> "none"]

AptosLookup == [first |-> "record", zeroIsNone |-> TRUE, doubts |-> "no"]

MoveLookup == [first |-> "state", zeroIsNone |-> TRUE, doubts |-> "none"]

SuiLookup == [first |-> "state", zeroIsNone |-> FALSE, doubts |-> "none"]

StellarLookup == [first |-> "either", zeroIsNone |-> FALSE, doubts |-> "yes"]

CantonLookup == [first |-> "either", zeroIsNone |-> FALSE, doubts |-> "none"]

Looks ==
  CASE dest.family = "evm" -> EvmLookup
    [] dest.family = "solana" -> SolanaLookup
    [] dest.family = "starknet" -> StarknetLookup
    [] dest.family = "ton" -> TonLookup
    [] dest.family = "aptos" -> AptosLookup
    [] dest.family = "move" -> MoveLookup
    [] dest.family = "sui" -> SuiLookup
    [] dest.family = "stellar" -> StellarLookup
    [] dest.family = "canton" -> CantonLookup

\* The verifier has stored enough confirmations, and the observer takes them so.
Enough(record) == record # NoRecord /\ record >= dest.required
Counts(record) == Enough(record) /\ (Looks.zeroIsNone => record > 0)

\* Library and configuration.
Ask ==
  /\ lookup = NotAsked
  /\ lookup' = [lookup EXCEPT !.since = dest.packet, !.record = dest.record]
  /\ UNCHANGED dest

Asked == lookup.since # "none"
Got(r) == lookup.got[r]

\* Which reads the observer makes, given the answers so far; verifier: the
\* record of a named verifier is asked for (not on a READ library).
Wanted(r, verifier) ==
  CASE r = "record" -> verifier
    [] r = "state" -> dest.family = "starknet" => Got("record") = "no"
    [] r = "nonce" -> /\ Got("state") = Looks.doubts
                      /\ dest.family = "stellar" => Got("record") = "no"
    [] r = "hash" -> Got("nonce") = "no"

\* Fault: the state is read before the record.
BeforeStateFirst(r) == IF r = "record" THEN {"state"} ELSE {}

\* The reads that have to be answered before a read is made.
Before(r) == {Looks.first} \cap ({"record", "state"} \ {r})

YesNo(b) == IF b THEN "yes" ELSE "no"

\* What a read can answer.  EndpointV1's state may not know a packet that was
\* taken, or be one of the others; Stellar's says Verified of a nonce the endpoint
\* would not take, and a simulation that fails for want of a contract is not
\* verified; TON's counts VERIFIABLE.  A nonce is consumed by delivery, and
\* already by the commit where the endpoint counts committed ones.
Answers(r) ==
  CASE r = "record" -> {YesNo(Counts(dest.record))}
    [] r = "state" ->
         {YesNo(dest.packet # "open")}
           \cup (IF dest.family = "aptos" THEN {"no"} ELSE {})
           \cup (IF dest.family \in {"stellar", "ton"} THEN {"yes"} ELSE {})
           \cup (IF dest.family \in {"aptos", "stellar"} THEN {"other"} ELSE {})
    [] r = "nonce" -> {YesNo(dest.packet = "delivered")}
                        \cup (IF dest.packet = "committed" THEN {"yes"} ELSE {})
    [] r = "hash" -> {YesNo(dest.packet = "committed")}

Outstanding(r, verifier) == Wanted(r, verifier) /\ Got(r) = "unread"

ReadPart(r, verifier) ==
  /\ Asked /\ Looks.first # "both" /\ Outstanding(r, verifier)
  /\ \A b \in Before(r) : ~ Outstanding(b, verifier)
  /\ \E a \in Answers(r) : lookup' = [lookup EXCEPT !.got[r] = a]
  /\ UNCHANGED dest

\* Solana: one getMultipleAccounts.
ReadAccounts ==
  /\ Asked /\ Looks.first = "both" /\ Got("state") = "unread"
  /\ lookup' = [lookup EXCEPT !.got["record"] = YesNo(Counts(dest.record)),
                              !.got["state"] = YesNo(dest.packet # "open")]
  /\ UNCHANGED dest

LookupRead(verifier) == ReadAccounts \/ \E r \in Parts : ReadPart(r, verifier)

\* PayloadSignedValidity: the state alone is enough where no nonce is asked for.
Signed ==
  \/ Got("record") = "yes"
  \/ Got("state") = "yes" /\ Looks.doubts # "yes"
  \/ Got("nonce") = "yes" \/ Got("hash") = "yes"

NotSigned(verifier) ==
  Asked /\ (\A r \in Parts : ~ Outstanding(r, verifier)) /\ ~ Signed

-----------------------------------------------------------------------------
(* Where an observer may miss that the packet was signed for. *)

\* The observer reads the record no later than the state that outlives it.
RecordFirst == Looks.first \in {"record", "both"}

\* The record: it is read beside or after the state, and a commit may reclaim it
\* in between; or it is a stored zero, which is taken for none.
RecordGap == ~ RecordFirst \/ (Looks.zeroIsNone /\ lookup.record = 0)

\* The packet: its state was one that is not asked further; or it was delivered
\* under the lookup, which may clear the hash between the nonce and its own read.
PacketGap ==
  \/ Got("state") = "other"
  \/ lookup.since # "delivered" /\ dest.packet = "delivered" /\ Got("hash") = "no"

(* The parts of the inductive invariant behind the answer. *)

\* It was signed for when the lookup began, as far as the record has to tell.
SignedBefore(verifier) ==
  \/ lookup.since \in {"committed", "delivered"}
  \/ Enough(lookup.record) /\ ~ RecordGap /\ verifier

\* A record is only lost to a commit, which outlives it in the state; a state that
\* misses the packet all the same is EndpointV1's, and then the nonce tells, or
\* the hash unless it was delivered by then.
LookupOK(verifier) ==
  /\ ~ Asked => lookup = NotAsked
  /\ lookup.since = "committed" => dest.packet # "open"
  /\ lookup.since = "delivered" => dest.packet = "delivered"
  /\ Counts(lookup.record) /\ dest.packet = "open" => Counts(dest.record)
  /\ Counts(lookup.record) /\ Got("record") = "no" => dest.packet # "open"
  /\ RecordFirst /\ verifier /\ Got("record") = "unread" => Got("state") = "unread"
  /\ SignedBefore(verifier) /\ Got("record") # "yes" =>
       /\ Got("state") # "unread" => dest.packet # "open"
       /\ Got("state") = "no" => dest.family = "aptos"
       /\ Got("hash") = "no" => dest.packet = "delivered"
  /\ Got("nonce") # "unread" => Got("state") # "unread"
  /\ Got("hash") # "unread" => Got("nonce") # "unread"
  /\ Got("nonce") = "no" => lookup.since # "delivered"
  /\ Got("record") # "other" /\ Got("nonce") # "other" /\ Got("hash") # "other"
=============================================================================

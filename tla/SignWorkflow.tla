------------------------------ MODULE SignWorkflow ------------------------------
(***************************************************************************)
(* One signing request, from the provider generation it pins to its        *)
(* signature: sign_request_v2 and sign_request_v2_inner of crates/         *)
(* pillar-core/src/lib.rs, under pin_for_request of crates/pillar-runtime/ *)
(* src/server_app/server_trait.rs.                                         *)
(*                                                                         *)
(* Around it the source chain grows and reorganizes (SourceReadiness.tla), *)
(* the destination takes the packet (PayloadLookup.tla), the chain a READ  *)
(* command reads reorganizes too (ReadMarkers.tla), and the configuration  *)
(* is refreshed (ConfigRefresh.tla).  A provider read may also fail.       *)
(* Admission, the audit and the wallets have modules of their own          *)
(* (FairBudget.tla, AuditStore.tla, AuditSigning.tla) and are single steps *)
(* here.                                                                   *)
(***************************************************************************)
EXTENDS ConfigRefresh, SourceReadiness, PayloadLookup, ReadMarkers

CONSTANT Requests      \* the requests that may arrive

Builders == {"V2", "V301", "V302", "ReadV1002"}
NoEvent == [height |-> 0, fork |-> 0, says |-> None, guid |-> FALSE]
Checks == {"readiness", "expiration", "payload"}

ASSUME RequestsAssumption ==
  Requests \subseteq
    [send : STRING, read : BOOLEAN, confirmations : Int, skipVId : BOOLEAN,
     dvn : BOOLEAN, shaped : BOOLEAN, matches : BOOLEAN, says : Messages,
     command : SUBSET [time : Int, height : Int, confirmations : Int],
     resolved : SUBSET [time : Int, height : Int, confirmations : Int]]

VARIABLES
  request,
  stage,
  pin,       \* the pinned generation
  used,      \* the generations the request's reads dispatched under
  routed,    \* routed_version
  event,     \* sent_event
  passed,    \* the joined checks that have answered
  required,  \* required_confirmations; Unset where the destination gave none
  builder    \* whose call data the wallets signed

chainVars == <<chain, forks, dest, target, reorgs>>
checkVars == <<seen, lookup, reading, passed, required>>
requestVars ==
  <<request, stage, pin, used, routed, event, checkVars, builder>>
vars == <<refreshVars, chainVars, requestVars>>

TypeOK ==
  /\ RefreshTypeOK /\ SourceTypeOK /\ LookupTypeOK /\ ReadTypeOK
  /\ request \in Requests
  /\ stage \in {"new", "queued", "route", "resolve", "refresh", "validate",
                "extra", "build", "sign", "signed", "refused"}
  /\ pin \in Nat \cup {Unset} /\ used \subseteq Nat
  /\ routed \in {None, "V301", "V302"} /\ passed \subseteq Checks
  /\ event \in [height : Nat, fork : Nat, says : Messages \cup {None}, guid : BOOLEAN]
  /\ required \in Required \cup {Unset} /\ builder \in Builders \cup {None}

Init ==
  /\ RefreshInit /\ SourceInit /\ LookupInit /\ TargetInit
  /\ request \in Requests /\ stage = "new"
  /\ pin = Unset /\ used = {} /\ routed = None /\ event = NoEvent
  /\ passed = {} /\ required = Unset /\ builder = None

-----------------------------------------------------------------------------
(* The request. *)

\* Fault: a read dispatches under what serves now.
LoadServing == serving.generation

\* load: inside pin_for_request, the pinned generation.
Load == pin

\* Every provider read resolves its quorum and plan in the snapshot it loads.
Dispatched == used' = used \cup {Load}

\* The packet of the transaction, as a receipt shows it: with the place of its
\* block, and without the guid that only a V3 packet carries.
Packet == [height |-> chain.at, fork |-> chain.blocks[chain.at],
           says |-> chain.says, guid |-> request.send # "V2"]

\* Any failure, of admission, a read or a check, ends the request; what it
\* held is dropped.
Refuse ==
  /\ stage \notin {"new", "signed", "refused"}
  /\ stage' = "refused" /\ pin' = Unset /\ used' = {} /\ routed' = None
  /\ event' = NoEvent /\ seen' = Unread /\ lookup' = NotAsked /\ reading' = NotReading
  /\ passed' = {} /\ required' = Unset /\ builder' = None
  /\ UNCHANGED <<refreshVars, chainVars, request>>

\* pin_for_request.
Pin ==
  /\ stage = "new" /\ stage' = "queued" /\ pin' = serving.generation
  /\ UNCHANGED <<refreshVars, chainVars, request, used, routed, event, checkVars, builder>>

\* The checks between routing and resolution: a builder, skipVId, the hash's shape.
Resolvable(version) ==
  /\ version # None \/ request.send \in Builders
  /\ request.skipVId => version = None /\ request.send = "V2" /\ dest.family = "aptos"
  /\ request.shaped

\* Admission has granted the permit: the request's own fields.
Admit ==
  /\ stage = "queued"
  /\ request.read = (request.send = "ReadV1002")
  /\ request.read => Cardinality(request.resolved) <= MaxMarkers
  /\ ~ request.read => request.confirmations >= 0
  /\ stage' = IF request.send = "V2" THEN "route" ELSE "resolve"
  /\ request.send = "V2" \/ Resolvable(None)
  /\ UNCHANGED <<refreshVars, chainVars, request, pin, used, routed, event,
                 checkVars, builder>>

\* The libraries a receiver may receive on, where the destination can be asked.
Libraries ==
  CASE dest.family = "evm" -> {"V2", "V301", "V302"}
    [] dest.family = "aptos" -> {"V2", "V301"}
    [] OTHER -> {}

\* uln_receive_version, for a V2 send only: a V3-family library takes its builder.
Route ==
  /\ stage = "route" /\ Dispatched
  /\ \E library \in Libraries :
       routed' = IF library \in {"V301", "V302"} THEN library ELSE None
  /\ Resolvable(routed') /\ stage' = "resolve"
  /\ UNCHANGED <<refreshVars, chainVars, request, pin, event, checkVars, builder>>

\* validate_message_hash, which comes before the other checks, with the markers
\* of a READ command.
HashMatches(e) ==
  e.says = request.says /\ (request.read => Preflight(request.command, request.resolved))

\* get_lz_sent_event; a routed send is read again before it is used.
Resolve ==
  /\ stage = "resolve" /\ Dispatched
  /\ Visible /\ request.matches
  /\ event' = Packet
  /\ stage' = IF routed # None THEN "refresh" ELSE "validate"
  /\ routed = None => HashMatches(Packet)
  /\ UNCHANGED <<refreshVars, chainVars, request, pin, routed, checkVars, builder>>

\* hydrate_uln_v2_sent_event.
Hydrated(e) == [e EXCEPT !.guid = TRUE]

\* refresh_uln_v2_sent_event: the packet as it is now, or a possible reorg.
RefreshEvent ==
  /\ stage = "refresh" /\ Dispatched
  /\ Visible /\ HashMatches(Packet)
  /\ event' = Hydrated(Packet) /\ stage' = "validate"
  /\ UNCHANGED <<refreshVars, chainVars, request, pin, routed, checkVars, builder>>

-----------------------------------------------------------------------------
(* The joined checks; the first error ends them all (Refuse). *)

Pending(c) == stage = "validate" /\ c \notin passed
Passes(c) == passed' = passed \cup {c}

\* A check is made of reads, and leaves the rest of the request alone.
CheckFrame == UNCHANGED <<refreshVars, request, stage, pin, routed, event, builder>>

\* validate_readiness of a message.
ReadSource ==
  /\ Pending("readiness") /\ ~ request.read
  /\ SourceRead(event) /\ Dispatched
  /\ CheckFrame /\ UNCHANGED <<dest, target, reorgs, lookup, reading, passed, required>>

Ready ==
  /\ Pending("readiness") /\ ~ request.read
  /\ Sufficient(event, request.confirmations)
  /\ Passes("readiness") /\ seen' = Unread
  /\ CheckFrame /\ UNCHANGED <<chainVars, used, lookup, reading, required>>

\* validate_readiness of a READ command: validate_read_time_markers.
AllMarkers == Markers(request.command, request.resolved)

ReadTarget ==
  /\ Pending("readiness") /\ request.read
  /\ MarkerRead(AllMarkers) /\ Dispatched
  /\ CheckFrame /\ UNCHANGED <<chain, forks, dest, seen, lookup, passed, required>>

MarkersPinned ==
  /\ Pending("readiness") /\ request.read
  /\ MarkersReady(AllMarkers) /\ Passes("readiness")
  /\ CheckFrame /\ UNCHANGED <<chainVars, used, seen, lookup, reading, required>>

\* validate_expiration: a read of the destination's clock.
Unexpired ==
  /\ Pending("expiration") /\ Passes("expiration") /\ Dispatched
  /\ CheckFrame /\ UNCHANGED <<chainVars, seen, lookup, reading, required>>

\* The version whose call data is built and whose payload is looked up.
Version == IF routed # None THEN routed ELSE request.send

\* An event without a guid, or a native destination without a verifier, is not
\* looked up.
Unasked == ~ event.guid \/ (dest.family # "evm" /\ ~ request.dvn)

SkipLookup ==
  /\ Pending("payload") /\ Unasked /\ Passes("payload")
  /\ CheckFrame /\ UNCHANGED <<chainVars, used, seen, lookup, reading, required>>

\* Where the version tells the endpoint, it has to be one the family knows.
AskDestination ==
  /\ Pending("payload") /\ ~ Unasked
  /\ dest.family = "aptos" => Version = "V301"
  /\ dest.family = "move" => Version \in {"V301", "V302"}
  /\ Ask /\ Dispatched
  /\ CheckFrame /\ UNCHANGED <<chain, forks, target, reorgs, seen, reading, passed, required>>

\* The READ library's record of a verifier is not asked for.
Verifier == request.dvn /\ ~ dest.reads

ReadDestination ==
  /\ Pending("payload") /\ LookupRead(Verifier)
  /\ CheckFrame
  /\ UNCHANGED <<chain, forks, target, reorgs, used, seen, reading, passed, required>>

\* payload_signed_validation_result, of a payload that is not signed yet.
NotSignedYet ==
  /\ Pending("payload") /\ NotSigned(Verifier)
  /\ Passes("payload") /\ required' = IF dest.reads THEN Unset ELSE dest.required
  /\ CheckFrame /\ UNCHANGED <<chainVars, used, seen, lookup, reading>>

\* All have passed: the confirmations the destination requires.
Validated ==
  /\ stage = "validate" /\ passed = Checks
  /\ ~ request.read /\ required # Unset => request.confirmations >= required
  /\ stage' = "extra"
  /\ UNCHANGED <<refreshVars, chainVars, request, pin, used, routed, event,
                 checkVars, builder>>

\* validate_extra_context, then the hash call data, then audit and wallets.
Advance(from, to) ==
  /\ stage = from /\ stage' = to
  /\ UNCHANGED <<refreshVars, chainVars, request, pin, routed, event, checkVars>>

ExtraContext ==
  /\ Advance("extra", "build")
  /\ UNCHANGED used \/ Dispatched
  /\ UNCHANGED builder

\* resolve_payload of a READ command: a call at each marker.
ReadCall ==
  /\ stage = "build" /\ request.read
  /\ \E m \in AllMarkers : Call(m, AllMarkers)
  /\ Dispatched /\ CheckFrame /\ UNCHANGED <<chain, forks, dest, seen, lookup, passed, required>>

Build ==
  /\ Advance("build", "sign")
  /\ request.read => AllCalled(AllMarkers)
  /\ builder' = Version
  /\ UNCHANGED used \/ Dispatched

Sign == Advance("sign", "signed") /\ UNCHANGED <<used, builder>>

-----------------------------------------------------------------------------
\* A step of the refresh loop leaves the request and the chains alone.
Aside == UNCHANGED <<chainVars, requestVars>>

Workflow ==
  \/ Pin \/ Admit \/ Route \/ Resolve \/ RefreshEvent
  \/ ReadSource \/ Ready \/ ReadTarget \/ MarkersPinned \/ Unexpired
  \/ SkipLookup \/ AskDestination \/ ReadDestination \/ NotSignedYet
  \/ Validated \/ ExtraContext \/ ReadCall \/ Build \/ Sign
  \/ Refuse

\* A chain moves while the request is under way.
RequestFrame ==
  UNCHANGED <<refreshVars, request, stage, pin, used, routed, event, passed,
              required, builder>>
SourceMoves ==
  /\ Mine \/ Finalize \/ Reorganize
  /\ RequestFrame /\ UNCHANGED <<dest, lookup, target, reorgs, reading>>
DestinationMoves ==
  /\ Verify \/ CommitPacket \/ Deliver
  /\ RequestFrame /\ UNCHANGED <<chain, forks, seen, target, reorgs, reading>>
TargetMoves ==
  /\ TargetGrows \/ TargetReorganizes
  /\ RequestFrame /\ UNCHANGED <<chain, forks, seen, dest, lookup>>

Next ==
  \/ Workflow
  \/ SourceMoves \/ DestinationMoves \/ TargetMoves
  \/ Refresh /\ Aside

\* The loop runs on: it sleeps, fetches and applies.  A fetch that never
\* answers is cut off by the timeout, which is one of the MaxFaults.
Fairness ==
  /\ WF_vars(Wake /\ Aside) /\ WF_vars(Apply /\ Aside)
  /\ \A o \in Objects : WF_vars(Fetch(o) /\ Aside)

Spec == Init /\ [][Next]_vars /\ Fairness

-----------------------------------------------------------------------------
(* What a signature says. *)

\* On a source whose blocks become final, what was signed is what the final
\* chain says: the block the event came from is canonical for good and holds
\* the message the request named, although the receipt, the head, the finalized
\* height and the canonical header were read one by one while the chain
\* reorganized (observe_block_confirmations, validate_receipt_binding).
SignedIsFinal ==
  stage = "signed" /\ ~ request.read /\ Final(chain.source) =>
    IsFinal(event, request.says)

\* A packet that was committed or delivered at the destination when its lookup
\* began is not signed again, nor is one whose verifier had stored enough
\* confirmations, although a commit may reclaim that record and delivery clears
\* the hash between two reads.  The code leaves four gaps, and no other.  Of the
\* record: where it is read beside or after the state (the Move chains, Sui,
\* Stellar, Canton) a commit may reclaim it unseen, and a stored zero counts as
\* none on Solana and the Move chains (SECURITY.md: "one redundant signature for
\* a DVN that stored 0").  Of the packet: Aptos V301's states other than VERIFYING
\* and VERIFIED, and Stellar's failed simulation, are unsigned without another
\* read, and on both a delivery during the lookup may clear the hash after the
\* nonce was read.
NotSignedAgain ==
  "payload" \in passed /\ Asked =>
    /\ lookup.since # "open" => PacketGap
    /\ Verifier /\ Enough(lookup.record) => RecordGap \/ PacketGap

\* What a READ signature answers was read at the block each marker means: the
\* first that is not before the marker's timestamp, with its own parent before
\* it, and a block that stays where reorganizations are no deeper than the
\* marker's confirmations.  Headers, heads and calls are read one by one while
\* the target chain reorganizes (validate_read_time_markers,
\* call_evm_view_at_marker).
ReadIsPinned == stage = "signed" /\ request.read => AnswersCover /\ AnswersStay

\* A packet whose destination can be asked is not signed before the payload
\* lookup was made there: a V2 send that was routed to a V3 library is refreshed
\* and hydrated first, so it is looked up like a V3 one, and only a V2 send to a
\* V2 library goes without (the guid test of
\* validate_payload_not_signed_with_quorum).
RoutedIsLookedUp ==
  stage = "signed" /\ builder # "V2" /\ (dest.family = "evm" \/ request.dvn) => Asked

\* Every read of a request is dispatched under the generation it pinned, while
\* the loop publishes others (pin_for_request: "no two consumers of it can
\* straddle a refresh").
OneGeneration == used \subseteq {pin}

(* The parts of the inductive invariant behind these. *)

Checked == {"validate", "extra", "build", "sign", "signed"}

\* What the request holds at each stage.
StageOK ==
  /\ IF stage \in {"new", "refused"} THEN used = {} ELSE pin \in Nat
  /\ stage \in {"new", "queued", "route"} => routed = None
  /\ stage \in {"resolve", "refresh"} \cup Checked => Version \in Builders
  /\ stage = "refresh" => routed # None
  /\ stage \in Checked => event.guid = (Version # "V2") /\ event.says = request.says
  /\ stage \notin Checked => passed = {}
  /\ stage \in Checked \ {"validate"} => passed = Checks
  /\ stage \in {"sign", "signed"} => builder = Version
  /\ "payload" \in passed => Asked \/ Unasked
  /\ Asked => stage \in Checked /\ ~ Unasked

\* The event and what was read of its source.
SourceOK ==
  /\ ChainOK /\ (stage \in {"refresh"} \cup Checked => EventOK(event))
  /\ IF stage \in Checked THEN SeenOK(event) ELSE seen = Unread
  /\ "readiness" \in passed /\ ~ request.read /\ Final(chain.source) =>
       IsFinal(event, event.says)

\* The request's variables stay typed, its reads keep to the pinned generation
\* and its signature follows the payload lookup, whatever it has read of the
\* three chains (sign_request_v2_inner).
WorkflowInv ==
  /\ TypeOK /\ OneGeneration /\ RoutedIsLookedUp
  /\ StageOK /\ SourceOK /\ LookupOK(Verifier) /\ ReadingOK(AllMarkers)
===============================================================================

---------------------------- MODULE MCSignWorkflow ----------------------------
(* Instances of SignWorkflow for TLC. *)
EXTENDS SignWorkflow

MCRoster == {"bsc", "ton"}

\* Two rollouts name their providers; the third drops a chain.
MCRollouts == << [carries |-> {"bsc", "ton"}, bound |-> FALSE],
                 [carries |-> {"bsc", "ton", "sui"}, bound |-> TRUE],
                 [carries |-> {"ton"}, bound |-> FALSE],
                 [carries |-> {"bsc", "ton"}, bound |-> TRUE] >>
MCPairs == (1 .. 4) \X (1 .. 4)

MCMessages == {"m1", "m2"}
MCRequired == {0, 1}

\* A V3 packet with a verifier; each request differs from it.
Plain == [send |-> "V302", read |-> FALSE, confirmations |-> 1, skipVId |-> FALSE,
          dvn |-> TRUE, shaped |-> TRUE, matches |-> TRUE, says |-> "m1",
          command |-> {}, resolved |-> {}]
Routed == [Plain EXCEPT !.send = "V2"]
\* READ commands at block 2, by its number and by timestamps that another fork
\* may place elsewhere; the last has no resolution.
Marked(time, confirmations) == [time |-> time, height |-> 2, confirmations |-> confirmations]
Read == [Plain EXCEPT !.send = "ReadV1002", !.read = TRUE,
                      !.command = {Marked(0, 2), Marked(3, 0)}, !.resolved = {Marked(3, 0)}]
MCRequests ==
  { Plain, Routed,
    [Plain EXCEPT !.dvn = FALSE],
    [Routed EXCEPT !.dvn = FALSE],
    [Routed EXCEPT !.dvn = FALSE, !.skipVId = TRUE, !.confirmations = 0],
    Read, [Read EXCEPT !.dvn = FALSE],
    [Read EXCEPT !.dvn = FALSE, !.command = {Marked(5, 0)}, !.resolved = {Marked(5, 0)}],
    [Read EXCEPT !.dvn = FALSE, !.resolved = {}],
    [Plain EXCEPT !.send = "V999"] }

\* Bounds: of the surroundings one moves at a time.  The source chain has just
\* included the transaction, of a request that is not looked up; or, from a
\* final chain, the configuration is refreshed under a routed request, which
\* reads most often, or a READ command's target grows, or the destination takes
\* the packet, of a source whose check makes no read of its own.
MCSourceRests ==
  /\ chain.final = MaxHeight /\ chain.at = 1 /\ chain.says = request.says
  /\ chain.source = IF request.dvn THEN "canton" ELSE "final"
MCDestRests ==
  /\ dest.packet = "open" /\ dest.record = NoRecord /\ dest.required = 1
  /\ dest.family = "evm" => dest.reads = request.read
MCTargetRests == TargetTip = TargetHeight
MCGrowing ==
  /\ Tip = 1 /\ (~ Instant(chain.source) => chain.final = 0) /\ chain.says = request.says
  /\ ~ request.read /\ ~ request.dvn /\ MCDestRests /\ MCTargetRests
  /\ IF request.send = "V2" THEN chain.source = "final" /\ dest.family = "aptos"
                            ELSE dest.family = "solana"
MCReading ==
  /\ request.read /\ ~ request.dvn /\ MCSourceRests /\ MCDestRests /\ dest.family = "evm"
  /\ TargetTip = 2
MCTaking ==
  /\ request.dvn /\ MCSourceRests /\ MCTargetRests /\ (request.read => dest.family = "evm")
MCInit ==
  /\ Init
  /\ IF remote THEN /\ MCSourceRests /\ MCDestRests /\ MCTargetRests /\ dest.family = "evm"
                    /\ request = [Routed EXCEPT !.dvn = FALSE]
     ELSE MCGrowing \/ MCReading \/ MCTaking
MCNext ==
  \/ Workflow \/ SourceMoves \/ (Refresh /\ Aside)
  \/ request.dvn /\ DestinationMoves
  \/ request.read /\ ~ request.dvn /\ TargetMoves
MCSpec == MCInit /\ [][MCNext]_vars /\ Fairness
===============================================================================

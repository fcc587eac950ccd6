------------------------------ MODULE ServerDrain ------------------------------
(***************************************************************************)
(* The socket server of crates/pillar-cli/src: the accept loop, connection *)
(* slots, idle eviction and shutdown of main.rs, the connection flags of   *)
(* connections.rs and response_body.rs, and around each request the        *)
(* middleware and upload budget of crates/pillar-api/src.                  *)
(*                                                                         *)
(* One server task and one task per connection run in parallel; they meet  *)
(* in the semaphore, the Notify, the flags and the close channels.  hyper  *)
(* is external: it serves one request at a time, may read the next head    *)
(* before the last response is flushed, and after graceful_shutdown closes *)
(* between requests.  Timers elapse at any time after they are set.        *)
(***************************************************************************)
EXTENDS Naturals, FiniteSets

CONSTANTS Conns,           \* names for live connections
          MaxConnections,  \* the permits of the semaphore
          UploadLimit,     \* RequestUploadBudget: half of them, 1 to 32
          Withdrawals      \* whether shutdown_withdrawal is not zero

ASSUME ServerAssumption ==
  /\ IsFiniteSet(Conns)
  /\ MaxConnections \in Nat \ {0} /\ Cardinality(Conns) >= MaxConnections
  /\ UploadLimit \in Nat \ {0}
  /\ Withdrawals \in SUBSET BOOLEAN

VARIABLES
  pc,          \* where the server task is
  free,        \* permits left in the semaphore
  notified,    \* the permit stored in Connections.changed
  conn,        \* the connections registered in Connections.entries
  uploads,     \* the connections that hold an upload permit
  signalled,   \* SIGTERM or SIGINT has come
  triggered,   \* ShutdownSignal.flag
  withdrawal,  \* the configured withdrawal is not zero
  withdrawn,   \* T0 + withdrawal has passed
  expired      \* T0 + shutdown_grace has passed

timers == <<signalled, withdrawal, withdrawn, expired>>
vars == <<pc, free, notified, conn, uploads, triggered, timers>>

NoConn == [phase |-> "none", idle |-> FALSE, close |-> FALSE,
           graceful |-> FALSE, keep |-> FALSE, complete |-> FALSE,
           fresh |-> FALSE]

\* Connections::register, and a connection on which nothing was read yet.
NewConn == [NoConn EXCEPT !.phase = "reading", !.keep = TRUE, !.fresh = TRUE]

Live == {c \in Conns : conn[c].phase # "none"}
InService == {"started", "upload", "running"}

Init ==
  /\ pc = "accept" /\ free = MaxConnections /\ notified = FALSE
  /\ conn = [c \in Conns |-> NoConn] /\ uploads = {}
  /\ signalled = FALSE /\ triggered = FALSE
  /\ withdrawal \in Withdrawals /\ withdrawn = FALSE /\ expired = FALSE

-----------------------------------------------------------------------------
(* The server task: serve_until_with_lifetime and connection_permit. *)

\* The future that ends the accept loop: the signal, then the withdrawal timer.
Stop == IF triggered THEN withdrawn ELSE signalled

\* Fault: the select of the withdrawal is not biased.
AcceptUnbiased ==
  /\ pc = "accept"
  /\ pc' \in {"permit", "backoff"}
  /\ UNCHANGED <<free, notified, conn, uploads, triggered, timers>>

\* A connection is accepted, or accept fails and the loop backs off for 100 ms.
\* After the signal the select is biased: no accept once the timer has elapsed.
Accept ==
  /\ pc = "accept" /\ ~ (triggered /\ Stop)
  /\ pc' \in {"permit", "backoff"}
  /\ UNCHANGED <<free, notified, conn, uploads, triggered, timers>>

Backoff ==
  /\ pc = "backoff"
  /\ pc' = "accept"
  /\ UNCHANGED <<free, notified, conn, uploads, triggered, timers>>

\* spawn_connection: the permit and the registration live in the new task.
Spawn(c) ==
  /\ c \notin Live
  /\ conn' = [conn EXCEPT ![c] = NewConn]
  /\ free' = free - 1
  /\ pc' = "accept"

\* try_acquire_owned.
TryPermit(c) ==
  /\ pc = "permit" /\ free > 0
  /\ Spawn(c)
  /\ UNCHANGED <<notified, uploads, triggered, timers>>

\* evict_idle: whoever is idle is told to close, once.
EvictIdle ==
  [c \in Conns |-> IF conn[c].idle THEN [conn[c] EXCEPT !.idle = FALSE, !.close = TRUE]
                   ELSE conn[c]]

\* try_acquire_owned fails.
NoPermit ==
  /\ pc = "permit" /\ free = 0
  /\ pc' = "evict"
  /\ UNCHANGED <<free, notified, conn, uploads, triggered, timers>>

\* The idle ones are evicted, then the task waits in its select.
Evict ==
  /\ pc = "evict"
  /\ conn' = EvictIdle
  /\ pc' = "wait"
  /\ UNCHANGED <<free, notified, uploads, triggered, timers>>

\* The biased select: stop, then a permit, then idle_changed.
WaitPermit(c) ==
  /\ pc = "wait" /\ ~ Stop /\ free > 0
  /\ Spawn(c)
  /\ UNCHANGED <<notified, uploads, triggered, timers>>

WaitNotified ==
  /\ pc = "wait" /\ ~ Stop /\ free = 0 /\ notified
  /\ notified' = FALSE
  /\ pc' = "permit"
  /\ UNCHANGED <<free, conn, uploads, triggered, timers>>

\* The signal ends the accept loop (an accepted stream without a permit is
\* dropped): readiness and signing are refused from here on, and accepting goes
\* on until the withdrawal ends.
Signalled ==
  /\ pc \in {"accept", "backoff", "wait"} /\ ~ triggered /\ Stop
  /\ triggered' = TRUE
  /\ pc' = IF withdrawal THEN "accept" ELSE "close"
  /\ UNCHANGED <<free, notified, conn, uploads, timers>>

WithdrawalOver ==
  /\ pc \in {"accept", "backoff", "wait"} /\ triggered /\ Stop
  /\ pc' = "close"
  /\ UNCHANGED <<free, notified, conn, uploads, triggered, timers>>

\* drop(listener) and connections.drain().
Drain ==
  /\ pc = "close"
  /\ conn' = [c \in Conns |-> IF c \in Live THEN [conn[c] EXCEPT !.close = TRUE] ELSE conn[c]]
  /\ pc' = "join"
  /\ UNCHANGED <<free, notified, uploads, triggered, timers>>

\* Every task has ended, before the deadline or after the abort.
Joined ==
  /\ pc \in {"join", "reap"} /\ Live = {}
  /\ pc' = "stopped"
  /\ UNCHANGED <<free, notified, conn, uploads, triggered, timers>>

\* timeout_at(deadline): the budgets are closed, the contexts of what is still
\* served are marked (for the metrics), and abort_all.
GraceOver ==
  /\ pc = "join" /\ expired /\ Live # {}
  /\ pc' = "reap"
  /\ UNCHANGED <<free, notified, conn, uploads, triggered, timers>>

\* Terminated: serve_until returns.
Terminated == pc = "stopped" /\ UNCHANGED vars

-----------------------------------------------------------------------------
(* Signals and timers. *)

Signal ==
  /\ ~ signalled /\ signalled' = TRUE
  /\ UNCHANGED <<pc, free, notified, conn, uploads, triggered, withdrawal,
                 withdrawn, expired>>

WithdrawalEnds ==
  /\ triggered /\ withdrawal /\ ~ withdrawn /\ withdrawn' = TRUE
  /\ UNCHANGED <<pc, free, notified, conn, uploads, triggered, signalled,
                 withdrawal, expired>>

\* The withdrawal is cut to the grace: it never ends after it.
GraceEnds ==
  /\ triggered /\ ~ expired /\ (withdrawal => withdrawn)
  /\ expired' = TRUE
  /\ UNCHANGED <<pc, free, notified, conn, uploads, triggered, signalled,
                 withdrawal, withdrawn>>

-----------------------------------------------------------------------------
(* A connection's task: serve_connection_controlled. *)

server == <<pc, triggered, timers>>

Set(c, r) == conn' = [conn EXCEPT ![c] = r]

\* Fault: what the last response left behind is kept.
StartedFlags(c) == [conn[c] EXCEPT !.phase = "started", !.idle = FALSE, !.fresh = FALSE]

\* ConnectionControl::start.
Started(c) ==
  [conn[c] EXCEPT !.phase = "started", !.idle = FALSE, !.complete = FALSE,
                  !.fresh = FALSE]

\* hyper reads a head and calls the service: between requests, or behind a
\* response that is complete but not flushed; and after graceful_shutdown the
\* one request whose head was half read when nothing had been served yet.
Start(c) ==
  /\ \/ conn[c].phase \in {"reading", "flushing"} /\ conn[c].keep
     \/ conn[c].phase = "reading" /\ conn[c].fresh
  /\ Set(c, Started(c))
  /\ UNCHANGED <<server, free, notified, uploads>>

\* The response becomes a ResponseBody (control.writing()); draining asks the
\* client to close, and so does a refused upload.
Answered(c, keep) ==
  [conn[c] EXCEPT !.phase = "writing", !.keep = @ /\ keep /\ ~ triggered]

\* request_middleware and buffer_request: signing is refused while draining; a
\* signing body takes an upload permit or is refused; everything else goes
\* straight to its handler, or is unauthorized.
Enter(c) ==
  /\ conn[c].phase = "started"
  /\ \/ Set(c, Answered(c, TRUE)) /\ UNCHANGED uploads
     \/ Set(c, [conn[c] EXCEPT !.phase = "running"]) /\ UNCHANGED uploads
     \/ /\ ~ triggered /\ Cardinality(uploads) < UploadLimit
        /\ Set(c, [conn[c] EXCEPT !.phase = "upload"])
        /\ uploads' = uploads \cup {c}
     \/ /\ ~ triggered /\ Cardinality(uploads) >= UploadLimit
        /\ Set(c, Answered(c, FALSE)) /\ UNCHANGED uploads
  /\ UNCHANGED <<server, free, notified>>

\* The body is complete, or late, broken or too large.
Uploaded(c) ==
  /\ conn[c].phase = "upload"
  /\ uploads' = uploads \ {c}
  /\ Set(c, [conn[c] EXCEPT !.phase = "running"]) \/ Set(c, Answered(c, FALSE))
  /\ UNCHANGED <<server, free, notified>>

Respond(c) ==
  /\ conn[c].phase = "running"
  /\ Set(c, Answered(c, TRUE))
  /\ UNCHANGED <<server, free, notified, uploads>>

\* ResponseBody: the last byte of the body has been taken.
BodyComplete(c) ==
  /\ conn[c].phase = "writing"
  /\ Set(c, [conn[c] EXCEPT !.phase = "flushing", !.complete = TRUE])
  /\ UNCHANGED <<server, free, notified, uploads>>

\* Fault: the waiting server task is not told.
FlushedSilently(c) ==
  /\ conn[c].complete
  /\ Set(c, [conn[c] EXCEPT !.complete = FALSE, !.idle = TRUE,
                            !.phase = IF @ = "flushing" THEN "reading" ELSE @])
  /\ UNCHANGED <<server, free, notified, uploads>>

\* poll_flush has written everything out: ConnectionControl::flushed.
Flushed(c) ==
  /\ conn[c].complete
  /\ Set(c, [conn[c] EXCEPT !.complete = FALSE, !.idle = TRUE,
                            !.phase = IF @ = "flushing" THEN "reading" ELSE @])
  /\ notified' = TRUE
  /\ UNCHANGED <<server, free, uploads>>

\* The select of the task: close.changed() or the lifetime, then
\* graceful_shutdown.
Graceful(c) ==
  /\ c \in Live /\ ~ conn[c].graceful
  /\ Set(c, [conn[c] EXCEPT !.graceful = TRUE, !.keep = FALSE])
  /\ UNCHANGED <<server, free, notified, uploads>>

\* Fault: a task that ends with an error keeps its permit.
EndsHolding(c) ==
  /\ Set(c, NoConn)
  /\ uploads' = uploads \ {c}
  /\ free' = IF conn[c].phase \in InService THEN free ELSE free + 1
  /\ UNCHANGED <<server, notified>>

\* The task ends: registration, permits and request are dropped.
Ends(c) ==
  /\ Set(c, NoConn)
  /\ uploads' = uploads \ {c}
  /\ free' = free + 1
  /\ UNCHANGED <<server, notified>>

\* hyper closes between requests, when the connection is not kept alive.
Close(c) == conn[c].phase = "reading" /\ ~ conn[c].keep /\ Ends(c)

\* The timer of what the connection is doing ends it (head and keep-alive
\* timeouts, the 58 s of the request, the write deadline), or the peer goes
\* away.
CutIn(phases, c) == conn[c].phase \in phases /\ Ends(c)
Cut(c) == CutIn({"reading"}, c) \/ CutIn(InService, c) \/ CutIn({"writing", "flushing"}, c)

\* After abort_all the task is dropped at its next await.
Aborted(c) == pc = "reap" /\ c \in Live /\ Ends(c)

-----------------------------------------------------------------------------
\* What the server task does once it holds a stream, or has been told to stop.
ServerStep ==
  \/ Backoff \/ NoPermit \/ Evict \/ WaitNotified \/ WithdrawalOver \/ Drain
  \/ Joined \/ GraceOver
  \/ \E c \in Conns : TryPermit(c) \/ WaitPermit(c)

ConnStep(c) ==
  \/ Start(c) \/ Enter(c) \/ Uploaded(c) \/ Respond(c) \/ BodyComplete(c)
  \/ Flushed(c) \/ Graceful(c) \/ Close(c) \/ Cut(c) \/ Aborted(c)

Next ==
  \/ Accept \/ ServerStep \/ Signalled \/ Terminated
  \/ Signal \/ WithdrawalEnds \/ GraceEnds
  \/ \E c \in Conns : ConnStep(c)

\* Ready futures of the server task are polled, and its select between the
\* next client and the signal is random (no client has to come).  On a
\* connection, a close channel that was sent to or the elapsed lifetime is
\* seen, hyper closes a connection that is not kept alive, each phase has its
\* timer, and an aborted task is dropped.  The timers of the shutdown elapse.
Fairness ==
  /\ WF_vars(ServerStep) /\ SF_vars(Signalled)
  /\ WF_vars(WithdrawalEnds) /\ WF_vars(GraceEnds)
  /\ \A c \in Conns :
       /\ WF_vars(Graceful(c)) /\ WF_vars(Close(c)) /\ WF_vars(Aborted(c))
       /\ WF_vars(CutIn(InService, c)) /\ WF_vars(CutIn({"writing", "flushing"}, c))
       /\ WF_vars(CutIn({"reading"}, c))

Spec == Init /\ [][Next]_vars /\ Fairness

-----------------------------------------------------------------------------
(* Properties. *)

\* Every variable has its type.
TypeOK ==
  /\ pc \in {"accept", "backoff", "permit", "evict", "wait", "close", "join",
             "reap", "stopped"}
  /\ free \in Nat
  /\ conn \in [Conns -> [phase : {"none", "reading", "started", "upload",
                                  "running", "writing", "flushing"},
                         idle : BOOLEAN, close : BOOLEAN, graceful : BOOLEAN,
                         keep : BOOLEAN, complete : BOOLEAN, fresh : BOOLEAN]]
  /\ uploads \in SUBSET Conns
  /\ notified \in BOOLEAN /\ signalled \in BOOLEAN /\ triggered \in BOOLEAN
  /\ withdrawal \in BOOLEAN /\ withdrawn \in BOOLEAN /\ expired \in BOOLEAN

\* Every permit is either free or the property of one live connection, and
\* upload permits belong to requests that are uploading.
SlotsExact ==
  /\ free + Cardinality(Live) = MaxConnections
  /\ uploads = {c \in Conns : conn[c].phase = "upload"}
  /\ Cardinality(uploads) <= UploadLimit

\* The idle flag is true only between two requests, with nothing left to
\* flush, and only a written response that is not flushed can set it; nothing
\* was read yet on a connection that waits for its first request.
IdleMeansQuiet ==
  \A c \in Conns :
    /\ conn[c].idle => conn[c].phase = "reading" /\ ~ conn[c].fresh
    /\ conn[c].fresh => conn[c].phase = "reading"
    /\ conn[c].complete <=> conn[c].phase = "flushing"

\* While the server task waits for a slot, a connection that has become idle
\* has left it a notification, so it will look again and evict.
NoLostIdleWake ==
  pc = "wait" /\ (\E c \in Conns : conn[c].idle) => notified

\* Once the listener is gone, every connection has been told to close: none is
\* registered behind drain()'s back.
DrainReachesAll ==
  pc \in {"join", "reap", "stopped"} => \A c \in Live : conn[c].close

\* The invariant of the connection bookkeeping.
ServerInv ==
  TypeOK /\ SlotsExact /\ IdleMeansQuiet /\ NoLostIdleWake /\ DrainReachesAll

\* Making room for a new connection never touches one that is serving a
\* request, uploading or still writing a response, nor one that has not had its
\* first request.
EvictionSparesRequests ==
  [][ pc # "close" =>
        \A c \in Conns : ~ conn[c].close /\ conn'[c].close =>
          conn[c].phase = "reading" /\ ~ conn[c].fresh ]_vars

\* An accepted stream is served or dropped: no accepted client waits for ever
\* on slots that idle, silent or endlessly busy clients hold.
StreamsResolve == pc = "permit" ~> pc \in {"accept", "close"}

\* From the signal on, the server stops, whatever the clients do.
ServerStops == signalled ~> pc = "stopped"
=============================================================================

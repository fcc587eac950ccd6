--------------------------- MODULE ServerDrainProofs ---------------------------
(***************************************************************************)
(* The connection bookkeeping of the server, for any number of connections *)
(* and permits.  ServerInv is inductive as it stands: permits are counted  *)
(* against the registered connections, the flags of a connection say what  *)
(* it is doing, a wake-up follows every idle connection, and drain() meets *)
(* every registration.                                                     *)
(***************************************************************************)
EXTENDS ServerDrain, FiniteSetTheorems, TLAPS

Uploading == {c \in Conns : conn[c].phase = "upload"}

\* A step that keeps the registrations, and the uploads among them, keeps the
\* permits balanced.
LEMMA SlotsKept ==
  ASSUME SlotsExact, Live' = Live, Uploading' = Uploading,
         free' = free, uploads' = uploads
  PROVE  SlotsExact'
BY DEF SlotsExact, Uploading

\* The server starts with every permit free.
LEMMA InitServer == Init => ServerInv
<1>. SUFFICES ASSUME Init PROVE ServerInv
  OBVIOUS
<1>. USE ServerAssumption DEF Init, NoConn
<1>1. TypeOK
  BY DEF TypeOK
<1>2. Live = {} /\ uploads = {c \in Conns : conn[c].phase = "upload"}
  BY DEF Live
<1>3. SlotsExact
  BY <1>2, FS_EmptySet DEF SlotsExact
<1>4. IdleMeansQuiet /\ NoLostIdleWake /\ DrainReachesAll
  BY DEF IdleMeansQuiet, NoLostIdleWake, DrainReachesAll
<1>. QED BY <1>1, <1>3, <1>4 DEF ServerInv

-----------------------------------------------------------------------------
(* The server task. *)

\* The steps of the server task and of the timers that touch no connection.
TaskStep ==
  \/ Accept \/ Backoff \/ NoPermit \/ WaitNotified \/ Signalled \/ WithdrawalOver
  \/ Joined \/ GraceOver \/ Signal \/ WithdrawalEnds \/ GraceEnds \/ Terminated

\* They leave the bookkeeping alone, wait only after an eviction, and get past
\* the drain only by it.
LEMMA TaskStepKeeps == ASSUME ServerInv, TaskStep PROVE ServerInv'
<1>. USE DEF TaskStep, Accept, Backoff, NoPermit, WaitNotified, Signalled,
            WithdrawalOver, Joined, GraceOver, Signal, WithdrawalEnds, GraceEnds,
            Terminated, vars, timers, ServerInv
<1>1. conn' = conn /\ free' = free /\ uploads' = uploads
  OBVIOUS
<1>2. pc' = "wait" => pc = "wait" /\ notified' = notified
  BY DEF TypeOK
<1>3. pc' \in {"join", "reap", "stopped"} => pc \in {"join", "reap", "stopped"}
  BY DEF TypeOK
<1>4. TypeOK'
  BY ZenonT(30) DEF TypeOK
<1>5. Live' = Live /\ Uploading' = Uploading
  BY <1>1 DEF Live, Uploading
<1>6. SlotsExact'
  BY <1>1, <1>5, SlotsKept
<1>7. IdleMeansQuiet' /\ NoLostIdleWake' /\ DrainReachesAll'
  BY <1>1, <1>2, <1>3, <1>5 DEF IdleMeansQuiet, NoLostIdleWake, DrainReachesAll
<1>. QED BY <1>4, <1>6, <1>7

\* After an eviction nobody is idle.
LEMMA EvictStep == ASSUME ServerInv, Evict PROVE ServerInv'
<1>. USE DEF ServerInv, Evict, EvictIdle, TypeOK, timers
<1>1. TypeOK'
  OBVIOUS
<1>2. \A c \in Conns : /\ conn'[c].phase = conn[c].phase /\ ~ conn'[c].idle
                       /\ conn'[c].complete = conn[c].complete
                       /\ conn'[c].fresh = conn[c].fresh
  OBVIOUS
<1>3. SlotsExact'
  BY <1>2, SlotsKept DEF Live, Uploading
<1>4. IdleMeansQuiet' /\ NoLostIdleWake' /\ DrainReachesAll'
  BY <1>2 DEF IdleMeansQuiet, NoLostIdleWake, DrainReachesAll
<1>. QED BY <1>1, <1>3, <1>4

\* drain() tells every registered connection to close.
LEMMA DrainStep == ASSUME ServerInv, Drain PROVE ServerInv'
<1>. USE DEF ServerInv, Drain, TypeOK, timers
<1>1. TypeOK'
  OBVIOUS
<1>2. \A c \in Conns : /\ conn'[c].phase = conn[c].phase
                       /\ conn'[c].idle = conn[c].idle
                       /\ conn'[c].complete = conn[c].complete
                       /\ conn'[c].fresh = conn[c].fresh
                       /\ c \in Live => conn'[c].close
  OBVIOUS
<1>3. Live' = Live /\ Uploading' = Uploading
  BY <1>2 DEF Live, Uploading
<1>4. SlotsExact'
  BY <1>3, SlotsKept
<1>5. IdleMeansQuiet' /\ NoLostIdleWake'
  BY <1>2 DEF IdleMeansQuiet, NoLostIdleWake
<1>6. DrainReachesAll'
  BY <1>2, <1>3 DEF DrainReachesAll, Live
<1>. QED BY <1>1, <1>4, <1>5, <1>6

\* A new connection takes one permit, and none is registered after the drain.
LEMMA SpawnStep ==
  ASSUME ServerInv, NEW c \in Conns, TryPermit(c) \/ WaitPermit(c)
  PROVE  ServerInv'
<1>. USE DEF ServerInv
<1>1. /\ c \notin Live /\ conn' = [conn EXCEPT ![c] = NewConn]
      /\ free' = free - 1 /\ free > 0 /\ pc' = "accept"
      /\ UNCHANGED <<notified, uploads, triggered, timers>>
  BY DEF TryPermit, WaitPermit, Spawn
<1>2. TypeOK'
  <2>1. NewConn \in [phase : {"none", "reading", "started", "upload", "running",
                              "writing", "flushing"},
                     idle : BOOLEAN, close : BOOLEAN, graceful : BOOLEAN,
                     keep : BOOLEAN, complete : BOOLEAN, fresh : BOOLEAN]
    BY DEF NewConn, NoConn
  <2>. QED BY <1>1, <2>1 DEF TypeOK, timers
<1>3. Live' = Live \cup {c} /\ Uploading' = Uploading
  <2>1. conn'[c].phase = "reading" /\ \A d \in Conns \ {c} : conn'[d] = conn[d]
    BY <1>1 DEF TypeOK, NewConn, NoConn
  <2>. QED BY <1>1, <2>1 DEF Live, Uploading
<1>4. SlotsExact'
  <2>1. IsFiniteSet(Live)
    BY ServerAssumption, FS_Subset DEF Live
  <2>2. Cardinality(Live') = Cardinality(Live) + 1 /\ Cardinality(Live) \in Nat
    BY <1>1, <1>3, <2>1, FS_AddElement, FS_CardinalityType
  <2>. QED BY <1>1, <1>3, <2>2, ServerAssumption DEF SlotsExact, TypeOK, Uploading
<1>5. IdleMeansQuiet' /\ NoLostIdleWake' /\ DrainReachesAll'
  BY <1>1 DEF TypeOK, IdleMeansQuiet, NoLostIdleWake, DrainReachesAll, NewConn, NoConn
<1>. QED BY <1>2, <1>4, <1>5

-----------------------------------------------------------------------------
(* The connections. *)

\* What a connection's task may do to its own entry: not unregister, stay quiet
\* when idle, and wake the server task when it becomes idle.
LEMMA EntryStep ==
  ASSUME ServerInv, NEW c \in Live, NEW r, conn' = [conn EXCEPT ![c] = r],
         r \in [phase : {"reading", "started", "upload", "running", "writing",
                         "flushing"},
                idle : BOOLEAN, close : BOOLEAN, graceful : BOOLEAN,
                keep : BOOLEAN, complete : BOOLEAN, fresh : BOOLEAN],
         r.idle => r.phase = "reading" /\ ~ r.fresh,
         r.fresh => r.phase = "reading",
         r.complete <=> r.phase = "flushing",
         r.close = conn[c].close,
         notified' \in BOOLEAN, notified => notified',
         r.idle => conn[c].idle \/ notified',
         UNCHANGED <<server, free>>,
         uploads' = IF r.phase = "upload" THEN uploads \cup {c} ELSE uploads \ {c},
         Cardinality(uploads') <= UploadLimit
  PROVE  ServerInv'
<1>. USE DEF ServerInv, server
<1>1. c \in Conns
  BY DEF Live
<1>2. TypeOK'
  BY <1>1 DEF TypeOK, timers
<1>3. Live' = Live
  BY <1>1 DEF TypeOK, Live
<1>4. uploads' = Uploading'
  BY <1>1 DEF TypeOK, SlotsExact, Uploading
<1>5. SlotsExact'
  BY <1>3, <1>4 DEF SlotsExact, Uploading
<1>6. IdleMeansQuiet'
  BY <1>1 DEF TypeOK, IdleMeansQuiet
<1>7. NoLostIdleWake'
  BY <1>1 DEF TypeOK, NoLostIdleWake
<1>8. DrainReachesAll'
  BY <1>1, <1>3 DEF TypeOK, DrainReachesAll
<1>. QED BY <1>2, <1>5, <1>6, <1>7, <1>8

\* hyper calls the service.
LEMMA StartStep == ASSUME ServerInv, NEW c \in Conns, Start(c) PROVE ServerInv'
<1>. USE DEF ServerInv
<1>1. c \in Live
  BY DEF Start, Live
<1>2. uploads \ {c} = uploads
  BY DEF Start, SlotsExact
<1>. QED BY <1>1, <1>2, EntryStep, ZenonT(30) DEF Start, Started, Set, TypeOK, SlotsExact

\* A request is answered, handed on, or given an upload permit if there is one.
LEMMA EnterStep == ASSUME ServerInv, NEW c \in Conns, Enter(c) PROVE ServerInv'
<1>. USE DEF ServerInv, TypeOK
<1>1. c \in Live /\ conn[c].phase = "started"
  BY DEF Enter, Live
<1>2. uploads \ {c} = uploads /\ c \notin uploads /\ Cardinality(uploads) <= UploadLimit
  BY <1>1 DEF SlotsExact
<1>3. ~ conn[c].idle /\ ~ conn[c].fresh /\ ~ conn[c].complete
  BY <1>1 DEF IdleMeansQuiet
<1>0. UNCHANGED <<server, free, notified>>
  BY DEF Enter
<1>4. ASSUME NEW keep \in BOOLEAN, Set(c, Answered(c, keep)), uploads' = uploads
      PROVE  ServerInv'
  BY <1>0, <1>1, <1>2, <1>3, <1>4, EntryStep DEF Answered, Set
<1>5. CASE Set(c, [conn[c] EXCEPT !.phase = "running"]) /\ UNCHANGED uploads
  BY <1>0, <1>1, <1>2, <1>3, <1>5, EntryStep DEF Set
<1>6. CASE /\ Cardinality(uploads) < UploadLimit
           /\ Set(c, [conn[c] EXCEPT !.phase = "upload"]) /\ uploads' = uploads \cup {c}
  <2>1. IsFiniteSet(uploads)
    BY ServerAssumption, FS_Subset
  <2>2. Cardinality(uploads') = Cardinality(uploads) + 1 /\ Cardinality(uploads) \in Nat
    BY <1>2, <1>6, <2>1, FS_AddElement, FS_CardinalityType
  <2>3. Cardinality(uploads') <= UploadLimit
    BY <1>6, <2>2, ServerAssumption
  <2>. QED BY <1>0, <1>1, <1>3, <1>6, <2>3, EntryStep DEF Set
<1>. QED BY <1>4, <1>5, <1>6 DEF Enter

\* The upload permit is given back with the body.
LEMMA UploadedStep == ASSUME ServerInv, NEW c \in Conns, Uploaded(c) PROVE ServerInv'
<1>. USE DEF ServerInv, TypeOK
<1>1. c \in Live /\ conn[c].phase = "upload"
  BY DEF Uploaded, Live
<1>2. Cardinality(uploads') <= UploadLimit
  <2>1. IsFiniteSet(uploads) /\ c \in uploads /\ uploads' = uploads \ {c}
    BY <1>1, ServerAssumption, FS_Subset DEF SlotsExact, Uploaded
  <2>2. Cardinality(uploads') = Cardinality(uploads) - 1 /\ Cardinality(uploads) \in Nat
    BY <2>1, FS_RemoveElement, FS_CardinalityType
  <2>. QED BY <2>2, ServerAssumption DEF SlotsExact
<1>3. ~ conn[c].idle /\ ~ conn[c].fresh /\ ~ conn[c].complete
  BY <1>1 DEF IdleMeansQuiet
<1>. QED BY <1>1, <1>2, <1>3, EntryStep, ZenonT(30) DEF Uploaded, Answered, Set

\* A response is written out; the last flush leaves the connection idle and
\* wakes the server task.
LEMMA ResponseStep ==
  ASSUME ServerInv, NEW c \in Conns, Respond(c) \/ BodyComplete(c) \/ Flushed(c)
  PROVE  ServerInv'
<1>. USE DEF ServerInv, TypeOK
<1>1. c \in Live /\ conn[c].phase \in {"running", "writing", "flushing"}
  BY DEF Respond, BodyComplete, Flushed, Live, IdleMeansQuiet
<1>2. uploads \ {c} = uploads /\ Cardinality(uploads) <= UploadLimit
  BY <1>1 DEF SlotsExact
<1>3. ~ conn[c].idle /\ ~ conn[c].fresh
      /\ (conn[c].complete <=> conn[c].phase = "flushing")
  BY <1>1 DEF IdleMeansQuiet
<1>4. CASE Respond(c)
  BY <1>1, <1>2, <1>3, <1>4, EntryStep, ZenonT(30) DEF Respond, Answered, Set
<1>5. CASE BodyComplete(c)
  BY <1>1, <1>2, <1>3, <1>5, EntryStep DEF BodyComplete, Set
<1>6. CASE Flushed(c)
  BY <1>1, <1>2, <1>3, <1>6, EntryStep, ZenonT(30) DEF Flushed, Set
<1>. QED BY <1>4, <1>5, <1>6

\* graceful_shutdown changes nothing a request depends on.
LEMMA GracefulStep == ASSUME ServerInv, NEW c \in Conns, Graceful(c) PROVE ServerInv'
<1>. USE DEF ServerInv, TypeOK
<1>1. c \in Live /\ conn[c].phase # "none"
  BY DEF Graceful, Live
<1>2. uploads = (IF conn[c].phase = "upload" THEN uploads \cup {c} ELSE uploads \ {c})
  BY DEF SlotsExact
<1>3. Cardinality(uploads) <= UploadLimit
  BY DEF SlotsExact
<1>4. /\ conn[c].idle => conn[c].phase = "reading" /\ ~ conn[c].fresh
      /\ conn[c].fresh => conn[c].phase = "reading"
      /\ conn[c].complete <=> conn[c].phase = "flushing"
  BY DEF IdleMeansQuiet
<1>. QED BY <1>1, <1>2, <1>3, <1>4, EntryStep DEF Graceful, Set

\* A task that ends, however it does, gives back exactly what it held.
LEMMA EndsStep ==
  ASSUME ServerInv, NEW c \in Conns, Close(c) \/ Cut(c) \/ Aborted(c)
  PROVE  ServerInv'
<1>. USE DEF ServerInv
<1>1. c \in Live /\ Ends(c)
  BY DEF Close, Cut, CutIn, Aborted, Live, InService
<1>2. /\ conn' = [conn EXCEPT ![c] = NoConn] /\ uploads' = uploads \ {c}
      /\ free' = free + 1 /\ UNCHANGED <<server, notified>>
  BY <1>1 DEF Ends, Set
<1>3. TypeOK'
  <2>1. NoConn \in [phase : {"none", "reading", "started", "upload", "running",
                             "writing", "flushing"},
                    idle : BOOLEAN, close : BOOLEAN, graceful : BOOLEAN,
                    keep : BOOLEAN, complete : BOOLEAN, fresh : BOOLEAN]
    BY DEF NoConn
  <2>. QED BY <1>2, <2>1 DEF TypeOK, server, timers
<1>4. conn'[c] = NoConn /\ \A d \in Conns \ {c} : conn'[d] = conn[d]
  BY <1>2 DEF TypeOK
<1>5. Live' = Live \ {c} /\ Uploading' = Uploading \ {c}
  BY <1>4 DEF Live, Uploading, NoConn
<1>6. SlotsExact'
  <2>1. IsFiniteSet(Live) /\ IsFiniteSet(uploads)
    BY ServerAssumption, FS_Subset DEF Live, TypeOK
  <2>2. Cardinality(Live') = Cardinality(Live) - 1 /\ Cardinality(Live) \in Nat
    BY <1>1, <1>5, <2>1, FS_RemoveElement, FS_CardinalityType
  <2>3. Cardinality(uploads') <= UploadLimit
    <3>1. /\ Cardinality(uploads') \in {Cardinality(uploads) - 1, Cardinality(uploads)}
          /\ Cardinality(uploads) \in Nat
      BY <1>2, <2>1, FS_RemoveElement, FS_CardinalityType
    <3>. QED BY <3>1, ServerAssumption DEF SlotsExact
  <2>4. uploads' = Uploading'
    BY <1>2, <1>5 DEF SlotsExact, Uploading
  <2>. QED BY <1>2, <2>2, <2>3, <2>4, ServerAssumption DEF SlotsExact, TypeOK, Uploading
<1>7. IdleMeansQuiet' /\ NoLostIdleWake'
  BY <1>2, <1>4 DEF IdleMeansQuiet, NoLostIdleWake, NoConn, server
<1>8. DrainReachesAll'
  BY <1>2, <1>4, <1>5 DEF DrainReachesAll, server, Live
<1>. QED BY <1>3, <1>6, <1>7, <1>8

-----------------------------------------------------------------------------
\* Every step of the server task, of a timer or of a connection preserves the
\* invariant.
LEMMA ServerKeepsInv == ServerInv /\ [Next]_vars => ServerInv'
<1>. SUFFICES ASSUME ServerInv, [Next]_vars PROVE ServerInv'
  OBVIOUS
<1>1. ASSUME NEW c \in Conns, ConnStep(c) PROVE ServerInv'
  BY <1>1, StartStep, EnterStep, UploadedStep, ResponseStep, GracefulStep, EndsStep
     DEF ConnStep
<1>2. CASE UNCHANGED vars
  <2>1. Live' = Live /\ Uploading' = Uploading
    BY <1>2 DEF vars, Live, Uploading
  <2>2. SlotsExact'
    BY <1>2, <2>1, SlotsKept DEF vars, ServerInv
  <2>. QED BY <1>2, <2>1, <2>2 DEF vars, timers, ServerInv, TypeOK, IdleMeansQuiet,
              NoLostIdleWake, DrainReachesAll
<1>3. ASSUME TaskStep PROVE ServerInv'
  BY <1>3, TaskStepKeeps
<1>. QED BY <1>1, <1>2, <1>3, EvictStep, DrainStep, SpawnStep
         DEF Next, ServerStep, TaskStep

\* In every state of the server no permit is lost or given twice, idle means
\* idle, no idle connection goes unnoticed by a server task that waits for a
\* slot, and the drain has reached every connection there is
\* (serve_until_with_lifetime, Connections, ConnectionControl).
THEOREM ServerInvHolds == Spec => []ServerInv
<1>. QED BY InitServer, ServerKeepsInv, PTL DEF Spec

\* No step but the drain tells a connection to close that is serving, uploading
\* or writing, or waits for its first request (evict_idle).
THEOREM EvictionSpares == Spec => EvictionSparesRequests
<1>. DEFINE Spares == pc # "close" =>
       \A c \in Conns : ~ conn[c].close /\ conn'[c].close =>
         conn[c].phase = "reading" /\ ~ conn[c].fresh
<1>1. ServerInv /\ [Next]_vars => [Spares]_vars
  <2>. SUFFICES ASSUME ServerInv, Next, pc # "close", NEW c \in Conns,
                       ~ conn[c].close, conn'[c].close
                PROVE  conn[c].phase = "reading" /\ ~ conn[c].fresh
    OBVIOUS
  <2>. USE DEF ServerInv, TypeOK
  <2>1. ASSUME conn' = conn PROVE FALSE
    BY <2>1
  <2>2. CASE TaskStep
    BY <2>1, <2>2 DEF TaskStep, Accept, Backoff, NoPermit, WaitNotified, Signalled,
       WithdrawalOver, Joined, GraceOver, Signal, WithdrawalEnds, GraceEnds,
       Terminated, vars
  <2>3. CASE Evict
    BY <2>3 DEF Evict, EvictIdle, IdleMeansQuiet
  <2>4. ASSUME NEW d \in Conns, NEW r, conn' = [conn EXCEPT ![d] = r],
               r.close = conn[d].close \/ ~ r.close
        PROVE  FALSE
    BY <2>4
  <2>5. ASSUME NEW d \in Conns, TryPermit(d) \/ WaitPermit(d) PROVE FALSE
    BY <2>4, <2>5 DEF TryPermit, WaitPermit, Spawn, NewConn, NoConn
  <2>6. ASSUME NEW d \in Conns, Start(d) \/ Enter(d) \/ Uploaded(d) \/ Respond(d)
        PROVE  FALSE
    BY <2>4, <2>6 DEF Start, Started, Enter, Uploaded, Respond, Answered, Set
  <2>7. ASSUME NEW d \in Conns, BodyComplete(d) \/ Flushed(d) \/ Graceful(d)
        PROVE  FALSE
    <3>1. CASE BodyComplete(d)
      BY <2>4, <3>1 DEF BodyComplete, Set
    <3>2. CASE Flushed(d)
      BY <2>4, <3>2 DEF Flushed, Set
    <3>3. CASE Graceful(d)
      BY <2>4, <3>3 DEF Graceful, Set
    <3>. QED BY <2>7, <3>1, <3>2, <3>3
  <2>8. ASSUME NEW d \in Conns, Close(d) \/ Cut(d) \/ Aborted(d) PROVE FALSE
    BY <2>4, <2>8 DEF Close, Cut, CutIn, Aborted, Ends, Set, NoConn
  <2>9. ~ Drain
    BY DEF Drain
  <2>. QED BY <2>2, <2>3, <2>5, <2>6, <2>7, <2>8, <2>9
           DEF Next, ServerStep, TaskStep, ConnStep
<1>. QED BY <1>1, ServerInvHolds, PTL DEF Spec, EvictionSparesRequests
=============================================================================

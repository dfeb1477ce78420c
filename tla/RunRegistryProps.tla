-------------------------- MODULE RunRegistryProps --------------------------
(***************************************************************************)
(* Correctness of the websocket front end specified in RunRegistry.        *)
(***************************************************************************)
EXTENDS RunRegistry

-----------------------------------------------------------------------------
(* Safety.                                                                 *)

\* The multiplexer that a connection's handler still has to process or to take
\* out of the registry.
Owes(c) == handler[c] \in {"process", "removing"}

\* removeRun(ctx, runID) deletes by name, not by identity: whenever a handler is
\* on its way there, the entry under that name is still its own multiplexer, so
\* the delete can never drop the run of somebody who came later.
RemovesOwnRun == \A c \in Conns : Owes(c) => runs[RunOf[c]] = mux[c]

\* The bookkeeping the handlers share through h.runs: entries are filed under the
\* run they were made for, each multiplexer has one creator, the creator finds its
\* own entry until removeRun, and a phase is reached only by way of its creator.
IsCreator(c, m) == created[c] /\ mux[c] = m

EntryFiled == \A r \in RunIDs : runs[r] # None => muxRun[runs[r]] = r

CreatorBound == \A c \in Conns : created[c] => /\ mux[c] \in Muxes
                                              /\ muxRun[mux[c]] = RunOf[c]

OneCreator == \A c, d \in Conns :
                 (created[c] /\ created[d] /\ mux[c] = mux[d]) => c = d

CreatorHolds == \A c \in Conns : /\ Owes(c) => created[c]
                                 /\ (created[c] /\ handler[c] = "acking") \/ Owes(c)
                                      => runs[RunOf[c]] = mux[c]

CreatorPhase == \A c \in Conns : created[c] =>
                  /\ handler[c] # "idle"
                  /\ handler[c] = "acking" => phase[mux[c]] = "new"
                  /\ handler[c] = "process" => phase[mux[c]] # "done"
                  /\ handler[c] = "removing" => phase[mux[c]] = "done"

PhaseReached ==
  \A m \in Muxes :
    /\ muxRun[m] = None => phase[m] = "new"
    /\ phase[m] \in {"running", "grace"} =>
         \E c \in Conns : IsCreator(c, m) /\ handler[c] = "process"
    /\ phase[m] = "done" =>
         \/ \E c \in Conns : IsCreator(c, m) /\ handler[c] = "removing"
         \/ \A r \in RunIDs : runs[r] # m

Bookkeeping == /\ EntryFiled /\ CreatorBound /\ OneCreator /\ CreatorHolds
               /\ CreatorPhase /\ PhaseReached

\* Two multiplexers never execute for the same run ID: the second can be made
\* only after the first one's process and close have returned (handler.go, the
\* order of process and removeRun in Handler).
OneRunPerID ==
  \A m, n \in Muxes :
    (m # n /\ muxRun[m] # None /\ muxRun[m] = muxRun[n])
      => ~(phase[m] \in {"running", "grace"} /\ phase[n] \in {"running", "grace"})

\* The registry is sound: its variables have their types, its entries and the handlers
\* agree, removeRun hits the handler's own run, and a run ID executes once.
RegistryInv == TypeOK /\ Bookkeeping /\ RemovesOwnRun /\ OneRunPerID

\* Every request that reached a multiplexer named the one cell the multiplexer is
\* bound to (authorizeRequest), over all the connections that joined the run.
BoundToOneCell == \A m \in Muxes : forwarded[m] \subseteq {known[m]}

\* A stream table never holds a connection of another run, and a connection is
\* in it under its own stream ID while its receiving goroutine runs: broadcasting
\* to the table reaches only clients of this run.
StreamsOfThisRun ==
  \A m \in Muxes, s \in StreamIDs :
    LET c == conns[m][s] IN
      c # None => /\ mux[c] = m /\ StreamOf[c] = s /\ RunOf[c] = muxRun[m]
                  /\ reader[c] \in {"initial", "reading", "leaving"}

\* The multiplexers that execute a run, or have its recording still to close.
Working == {m \in Muxes : phase[m] \in {"running", "grace"}}

-----------------------------------------------------------------------------
(* Action properties.                                                      *)

\* Shutdown misses no run: what executes when it takes its snapshot is in it.
ShutdownMissesNothing ==
  [][stopper' = "waiting" /\ stopper = "idle" => Working \subseteq waitFor']_vars

\* A connection that reads requests, and that its client keeps open, is closed
\* by the server only when its run times out or ends, when its own cleanup runs,
\* or when it could not be answered: another connection's cleanup never hits it.
NoCrossClose ==
  [][\A c \in Conns :
        (sock[c] = "open" /\ sock'[c] = "closed")
          => \/ reader[c] = "leaving" /\ reader'[c] = "gone"
             \/ phase'[mux[c]] = "done" /\ phase[mux[c]] = "grace"
             \/ \E d \in Conns : mux[d] = mux[c] /\ timedOut'[d] /\ ~timedOut[d]]_vars

-----------------------------------------------------------------------------
(* Properties of behaviours.                                               *)

\* What the agent cannot enforce. Every write to a client under Streams.mu or h.mu
\* returns some time (none has a deadline), and the program reads its input, so that
\* process does not stay in its send for ever.
WritesReturn == /\ \A m \in Muxes : []<>~writing[m]
                /\ \A c \in Conns : []<>(handler[c] \notin {"refusing", "acking"})
SendsReturn == \A m \in Muxes : []<>~sending[m]

\* A cancelled run that was being processed leaves the registry, so its run ID can be
\* used again, whether or not its clients ever close: it takes h.mu and Streams.mu
\* from handlers, broadcasts and timers that compete for them. It does not leave when
\* a client has stopped reading or the program reads no input (multiplexer.go:306).
CancelledRunIsRemoved ==
  WritesReturn /\ SendsReturn
    => \A m \in Muxes : (cancelled[m] /\ phase[m] = "running") ~> (m \notin Registered)

\* Shutdown returning without an error means that whatever was executing at any
\* time before it was called has had RunEnd and Close recorded, even a run whose
\* handler was then about to take it out of the registry (handler_test.go,
\* TestWebSocketHandler_ShutdownWaitsForTapFinalization).
ShutdownFinalizes ==
  \A m \in Muxes :
    []((stopper = "idle" /\ phase[m] \in {"running", "grace"})
         => [](stopper = "ok" => phase[m] = "done"))

-----------------------------------------------------------------------------
(* The registry implements the leasing of run IDs.                         *)

\* The stage of a multiplexer. One whose acknowledgement failed is "released".
Stage(m) == IF muxRun[m] = None THEN "unborn"
            ELSE IF m \notin Registered THEN "released"
            ELSE IF phase[m] = "new" THEN "held"
            ELSE IF phase[m] = "done" THEN "closed"
            ELSE "working"

Lease == INSTANCE RunLease WITH stage <- [m \in Muxes |-> Stage(m)],
                                lease <- muxRun

LeaseSpec == Lease!LeaseSpec
=============================================================================

---------------------------- MODULE RunRegistry -----------------------------
(***************************************************************************)
(* The agent's websocket front end: WebSocketHandler (handler.go), the     *)
(* life cycle of the Multiplexer it creates per run ID (multiplexer.go),   *)
(* and the stream table each multiplexer keeps (streams.go).               *)
(*                                                                         *)
(* One HTTP handler goroutine and one receiving goroutine run per          *)
(* websocket connection; the handler that created a multiplexer also runs  *)
(* its process loop and, at the end, takes it out of the registry.  What a *)
(* multiplexer does with requests and responses is module Multiplexer.     *)
(***************************************************************************)
EXTENDS FiniteSets

CONSTANTS Conns,      \* websocket connections, each used once
          RunIDs,     \* values of the query parameter runID
          StreamIDs,  \* values of the query parameter id
          KnownIDs,   \* cell IDs carried by requests
          Muxes,      \* multiplexer instances the handler may allocate
          RunOf,      \* [Conns -> RunIDs]: runID of each connection's URL
          StreamOf,   \* [Conns -> StreamIDs]: id of each connection's URL
          None        \* nil, and "no entry in the map"

ASSUME RegistryConstants ==
  /\ RunOf \in [Conns -> RunIDs]
  /\ StreamOf \in [Conns -> StreamIDs]
  /\ None \notin Conns \cup RunIDs \cup KnownIDs \cup Muxes

VARIABLES
  mu,         \* h.mu: the connection whose handler holds it, or None
  runs,       \* h.runs
  muxRun,     \* Multiplexer.runID; None: not allocated
  cancelled,  \* Multiplexer.ctx is done
  phase,      \* progress of Multiplexer.process and Multiplexer.close
  known,      \* Streams.knownID
  conns,      \* Streams.conns
  handler,    \* program counter of WebSocketHandler.Handler
  mux,        \* the multiplexer a connection was bound to
  created,    \* the handler made that multiplexer (its local `created`)
  reader,     \* program counter of Multiplexer.receiveRequests
  sock,       \* state of the websocket
  timedOut,   \* its inactivity timer has closed the streams, cancel to follow
  sending,    \* process is blocked in its send on ExecuteRequests
  writing,    \* Streams.mu is held while a message is written to a client
  reply,      \* answer to the OpenRunRequest of a connection
  forwarded,  \* known IDs of the requests a multiplexer let through (history)
  stopper,    \* program counter of WebSocketHandler.Shutdown
  waitFor     \* its snapshot `multiplexers`

muxVars == <<muxRun, cancelled, phase>>
tableVars == <<known, conns, forwarded>>
connVars == <<handler, mux, created, reader, sock, reply>>
busyVars == <<timedOut, sending, writing>>
stopVars == <<stopper, waitFor>>
vars == <<mu, runs, muxVars, tableVars, connVars, busyVars, stopVars>>

Replies == {"none", "created", "running", "exists", "not_found", "denied",
            "internal"}

TypeOK ==
  /\ mu \in Conns \cup {None}
  /\ runs \in [RunIDs -> Muxes \cup {None}]
  /\ muxRun \in [Muxes -> RunIDs \cup {None}]
  /\ cancelled \in [Muxes -> BOOLEAN]
  /\ phase \in [Muxes -> {"new", "running", "grace", "done"}]
  /\ known \in [Muxes -> KnownIDs \cup {None}]
  /\ conns \in [Muxes -> [StreamIDs -> Conns \cup {None}]]
  /\ handler \in [Conns -> {"idle", "refusing", "acking", "process", "removing",
                         "end"}]
  /\ mux \in [Conns -> Muxes \cup {None}]
  /\ created \in [Conns -> BOOLEAN]
  /\ reader \in [Conns -> {"none", "initial", "reading", "leaving", "gone"}]
  /\ sock \in [Conns -> {"open", "peer_closed", "closed"}]
  /\ reply \in [Conns -> Replies]
  /\ timedOut \in [Conns -> BOOLEAN]
  /\ sending \in [Muxes -> BOOLEAN]
  /\ writing \in [Muxes -> BOOLEAN]
  /\ forwarded \in [Muxes -> SUBSET KnownIDs]
  /\ stopper \in {"idle", "waiting", "ok", "expired"}
  /\ waitFor \in SUBSET Muxes

Init ==
  /\ mu = None
  /\ runs = [r \in RunIDs |-> None]
  /\ muxRun = [m \in Muxes |-> None]
  /\ cancelled = [m \in Muxes |-> FALSE]
  /\ phase = [m \in Muxes |-> "new"]
  /\ known = [m \in Muxes |-> None]
  /\ conns = [m \in Muxes |-> [s \in StreamIDs |-> None]]
  /\ handler = [c \in Conns |-> "idle"]
  /\ mux = [c \in Conns |-> None]
  /\ created = [c \in Conns |-> FALSE]
  /\ reader = [c \in Conns |-> "none"]
  /\ sock = [c \in Conns |-> "open"]
  /\ reply = [c \in Conns |-> "none"]
  /\ timedOut = [c \in Conns |-> FALSE]
  /\ sending = [m \in Muxes |-> FALSE]
  /\ writing = [m \in Muxes |-> FALSE]
  /\ forwarded = [m \in Muxes |-> {}]
  /\ stopper = "idle"
  /\ waitFor = {}

-----------------------------------------------------------------------------
(* Streams: the connections and the cell a multiplexer is bound to.        *)

\* createStream refuses a stream ID that is in use.
CanCreateStream(m, c) == conns[m][StreamOf[c]] = None

createStream(m, c) == conns' = [conns EXCEPT ![m][StreamOf[c]] = c]

\* removeStream drops the entry under a stream ID and closes the connection
\* found there, whoever put it there.
removeStream(m, s) ==
  /\ conns' = [conns EXCEPT ![m][s] = None]
  /\ sock' = [c \in Conns |-> IF c = conns[m][s] THEN "closed" ELSE sock[c]]

\* Streams.close drops every entry and closes every connection.
closeStreams(m) ==
  /\ conns' = [conns EXCEPT ![m] = [s \in StreamIDs |-> None]]
  /\ sock' = [c \in Conns |-> IF \E s \in StreamIDs : conns[m][s] = c
                              THEN "closed" ELSE sock[c]]

\* Mutant: the known ID of a later request is not compared.
AuthorizedAlways(m, k) == known[m] = known[m]

\* authorizeRequest: the first known ID a multiplexer sees is the only one it
\* accepts from then on.
Authorized(m, k) == known[m] \in {None, k}

bindKnownID(m, k) == known' = [known EXCEPT ![m] = IF @ = None THEN k ELSE @]

-----------------------------------------------------------------------------
(* The handler of a connection.                                            *)

\* newMultiplexer and the insertion into h.runs, done with h.mu held.
newMultiplexer(m, r) ==
  /\ muxRun[m] = None
  /\ muxRun' = [muxRun EXCEPT ![m] = r]
  /\ runs' = [runs EXCEPT ![r] = m]

\* acceptConnection and the receiving goroutine it starts with the initial request.
Admit(c, m, creates) ==
  /\ createStream(m, c)
  /\ mux' = [mux EXCEPT ![c] = m]
  /\ created' = [created EXCEPT ![c] = creates]
  /\ reader' = [reader EXCEPT ![c] = "initial"]
  /\ handler' = [handler EXCEPT ![c] = IF creates THEN "process" ELSE "end"]

\* A handler that wants to join a run waits for Streams.mu with h.mu held.
WaitForStreams(c) ==
  /\ handler[c] = "idle" /\ mu = None
  /\ runs[RunOf[c]] # None /\ writing[runs[RunOf[c]]]
  /\ mu' = c
  /\ UNCHANGED <<runs, muxVars, busyVars, tableVars, connVars, stopVars>>

\* h.mu is free or has been taken by WaitForStreams, and no message to a client is
\* being written under the Streams.mu of the run.
CanEnter(c) == /\ handler[c] = "idle" /\ mu \in {None, c}
               /\ runs[RunOf[c]] # None => ~writing[runs[RunOf[c]]]

\* handleConnection: a client whose first message is no OpenRunRequest creates the
\* run or attaches to it; the message itself is judged later, by the receiving
\* goroutine.
HandleConnection(c) ==
  LET r == RunOf[c] IN
  /\ CanEnter(c)
  /\ \/ /\ runs[r] = None
        /\ \E m \in Muxes : newMultiplexer(m, r) /\ Admit(c, m, TRUE)
     \/ /\ runs[r] # None /\ CanCreateStream(runs[r], c)
        /\ Admit(c, runs[r], FALSE)
        /\ UNCHANGED <<runs, muxRun>>
     \/ /\ runs[r] # None /\ ~CanCreateStream(runs[r], c)
        /\ handler' = [handler EXCEPT ![c] = "end"]
        /\ UNCHANGED <<runs, muxRun, conns, mux, created, reader>>
  /\ mu' = None
  /\ UNCHANGED <<cancelled, phase, busyVars, known, forwarded, sock, reply, stopVars>>

\* handleNegotiatedConnection turns a connection down without a change to the
\* registry; h.mu stays held while the client is told.
Refuse(c, code) ==
  /\ handler' = [handler EXCEPT ![c] = "refusing"]
  /\ reply' = [reply EXCEPT ![c] = code]
  /\ mu' = c
  /\ UNCHANGED <<runs, muxRun, conns, mux, created, reader>>

\* ErrorMessage returns, whether or not the client took the message.
Refused(c) ==
  /\ handler[c] = "refusing"
  /\ handler' = [handler EXCEPT ![c] = "end"]
  /\ mu' = None
  /\ UNCHANGED <<runs, muxVars, busyVars, tableVars, mux, created, reader, sock, reply,
                 stopVars>>

\* handleNegotiatedConnection binds a connection up to the point where the
\* OpenRunResponse is written; h.mu stays held, the receiving goroutine runs.
Bind(c, m, k, creates) ==
  /\ bindKnownID(m, k)
  /\ createStream(m, c)
  /\ mux' = [mux EXCEPT ![c] = m]
  /\ created' = [created EXCEPT ![c] = creates]
  /\ reader' = [reader EXCEPT ![c] = "reading"]
  /\ handler' = [handler EXCEPT ![c] = "acking"]
  /\ mu' = c
  /\ UNCHANGED reply

\* The envelope is invalid, which is found before h.mu is taken, or the intent is
\* neither START nor RESUME: nothing in the registry changes.
RefuseOpen(c) ==
  /\ handler[c] = "idle"
  /\ \/ /\ mu # c
        /\ handler' = [handler EXCEPT ![c] = "end"]
        /\ reply' = [reply EXCEPT ![c] = "denied"]
        /\ UNCHANGED <<runs, muxRun, conns, mux, created, reader, mu>>
     \/ mu = None /\ Refuse(c, "denied")
  /\ UNCHANGED <<cancelled, phase, busyVars, known, forwarded, sock, stopVars>>

Start(c, k) ==
  LET r == RunOf[c] IN
  /\ handler[c] = "idle" /\ mu = None
  /\ \/ /\ runs[r] # None
        /\ Refuse(c, "exists") /\ UNCHANGED known
     \/ /\ runs[r] = None
        /\ \E m \in Muxes : newMultiplexer(m, r) /\ Bind(c, m, k, TRUE)
  /\ UNCHANGED <<cancelled, phase, busyVars, forwarded, sock, stopVars>>

\* authorizeRequest tells a client of the wrong cell with Streams.mu held.
Resume(c, k) ==
  LET m == runs[RunOf[c]] IN
  /\ CanEnter(c)
  /\ \/ m = None /\ Refuse(c, "not_found") /\ UNCHANGED <<known, writing>>
     \/ /\ m # None /\ ~Authorized(m, k)
        /\ Refuse(c, "denied")
        /\ writing' = [writing EXCEPT ![m] = TRUE]
        /\ UNCHANGED known
     \/ /\ m # None /\ Authorized(m, k) /\ ~CanCreateStream(m, c)
        /\ Refuse(c, "internal")
        /\ bindKnownID(m, k)
        /\ UNCHANGED writing
     \/ /\ m # None /\ Authorized(m, k) /\ CanCreateStream(m, c)
        /\ Bind(c, m, k, FALSE)
        /\ UNCHANGED <<runs, muxRun, writing>>
  /\ UNCHANGED <<cancelled, phase, timedOut, sending, forwarded, sock, stopVars>>

\* The OpenRunResponse reaches the socket: h.mu is released, the creator goes on
\* to the process loop and every other handler ends.
Acknowledge(c) ==
  /\ handler[c] = "acking" /\ sock[c] # "closed"
  /\ reply' = [reply EXCEPT ![c] = IF created[c] THEN "created" ELSE "running"]
  /\ handler' = [handler EXCEPT ![c] = IF created[c] THEN "process" ELSE "end"]
  /\ mu' = None
  /\ UNCHANGED <<runs, muxVars, busyVars, tableVars, mux, created, reader, sock, stopVars>>

\* Mutant: the entry is dropped whether or not this handler made it.
AckFailsDropsRun(c) ==
  /\ handler[c] = "acking" /\ sock[c] # "open" /\ ~writing[mux[c]]
  /\ removeStream(mux[c], StreamOf[c])
  /\ runs' = [runs EXCEPT ![RunOf[c]] = None]
  /\ handler' = [handler EXCEPT ![c] = "end"]
  /\ mu' = None
  /\ UNCHANGED <<muxVars, busyVars, known, forwarded, mux, created, reader, reply, stopVars>>

\* Mutant: a failed answer closes all the streams of the run.
AckFailsClosesAll(c) ==
  /\ handler[c] = "acking" /\ sock[c] # "open" /\ ~writing[mux[c]]
  /\ closeStreams(mux[c])
  /\ runs' = IF created[c] THEN [runs EXCEPT ![RunOf[c]] = None] ELSE runs
  /\ handler' = [handler EXCEPT ![c] = "end"]
  /\ mu' = None
  /\ UNCHANGED <<muxVars, busyVars, known, forwarded, mux, created, reader, reply, stopVars>>

\* The write fails: the stream is taken out again and a new run is dropped from
\* the registry, its multiplexer neither cancelled nor processed.
AcknowledgeFails(c) ==
  /\ handler[c] = "acking" /\ sock[c] # "open" /\ ~writing[mux[c]]
  /\ removeStream(mux[c], StreamOf[c])
  /\ runs' = IF created[c] THEN [runs EXCEPT ![RunOf[c]] = None] ELSE runs
  /\ handler' = [handler EXCEPT ![c] = "end"]
  /\ mu' = None
  /\ UNCHANGED <<muxVars, busyVars, known, forwarded, mux, created, reader, reply, stopVars>>

-----------------------------------------------------------------------------
(* The receiving goroutine of a connection.                                *)

\* A message has come: the initial one, which the handler has read, or one that
\* ReadWebsocketRequest returns.
HasMessage(c) == \/ reader[c] = "initial"
                 \/ reader[c] = "reading" /\ sock[c] # "closed"

\* Streams.receive and handleRequest: an authorized request is passed on, a
\* request for another cell ends the loop, after authorizeRequest has told the
\* client so with Streams.mu held.
ReceiveRequest(c, k) ==
  LET m == mux[c] IN
  /\ HasMessage(c) /\ ~writing[m]
  /\ IF Authorized(m, k)
     THEN /\ bindKnownID(m, k)
          /\ forwarded' = [forwarded EXCEPT ![m] = @ \cup {k}]
          /\ reader' = [reader EXCEPT ![c] = "reading"]
          /\ UNCHANGED writing
     ELSE /\ reader' = [reader EXCEPT ![c] = "leaving"]
          /\ writing' = [writing EXCEPT ![m] = TRUE]
          /\ UNCHANGED <<known, forwarded>>
  /\ UNCHANGED <<mu, runs, muxVars, timedOut, sending, conns, handler, mux, created,
                 sock, reply, stopVars>>

\* The loop ends without forwarding: the envelope of a request is invalid, or an
\* OpenRunRequest comes late (it is authorized, and so binds the known ID, first).
RejectRequest(c) ==
  /\ HasMessage(c)
  /\ \/ UNCHANGED known
     \/ /\ ~writing[mux[c]]
        /\ \E k \in KnownIDs : Authorized(mux[c], k) /\ bindKnownID(mux[c], k)
  /\ reader' = [reader EXCEPT ![c] = "leaving"]
  /\ UNCHANGED <<mu, runs, muxVars, busyVars, conns, forwarded, handler, mux, created,
                 sock, reply, stopVars>>

\* A Ping carries no identity and is answered; only as the first message does it
\* change something.
ReceivePing(c) ==
  /\ reader[c] = "initial" /\ sock[c] # "closed"
  /\ reader' = [reader EXCEPT ![c] = "reading"]
  /\ UNCHANGED <<mu, runs, muxVars, busyVars, tableVars, handler, mux, created, sock,
                 reply, stopVars>>

\* Reading, or writing a pong, fails on a closed websocket.
ReceiveFails(c) ==
  /\ reader[c] \in {"initial", "reading"} /\ sock[c] # "open"
  /\ reader' = [reader EXCEPT ![c] = "leaving"]
  /\ UNCHANGED <<mu, runs, muxVars, busyVars, tableVars, handler, mux, created, sock,
                 reply, stopVars>>

\* Mutant: the goroutine ends without removing its stream.
LeaveStreamBehind(c) ==
  /\ reader[c] = "leaving"
  /\ reader' = [reader EXCEPT ![c] = "gone"]
  /\ UNCHANGED <<mu, runs, muxVars, busyVars, tableVars, handler, mux, created, sock, reply,
                 stopVars>>

\* The deferred cleanup of receiveRequests.
Leave(c) ==
  /\ reader[c] = "leaving" /\ ~writing[mux[c]]
  /\ removeStream(mux[c], StreamOf[c])
  /\ reader' = [reader EXCEPT ![c] = "gone"]
  /\ UNCHANGED <<mu, runs, muxVars, busyVars, known, forwarded, handler, mux, created, reply,
                 stopVars>>

\* The client closes its end.
ClientCloses(c) ==
  /\ handler[c] # "idle" /\ sock[c] = "open"
  /\ sock' = [sock EXCEPT ![c] = "peer_closed"]
  /\ UNCHANGED <<mu, runs, muxVars, busyVars, tableVars, handler, mux, created, reader, reply,
                 stopVars>>

-----------------------------------------------------------------------------
(* The multiplexer: process, close, and the inactivity timers.             *)

\* process: the run is marked in flight, RunStart recorded, the runner started.
Process(c) ==
  /\ handler[c] = "process" /\ phase[mux[c]] = "new"
  /\ phase' = [phase EXCEPT ![mux[c]] = "running"]
  /\ UNCHANGED <<mu, runs, muxRun, cancelled, busyVars, tableVars, connVars, stopVars>>

\* execute: the runner returns and the context is cancelled.
Executed(m) ==
  /\ phase[m] = "running" /\ ~cancelled[m]
  /\ cancelled' = [cancelled EXCEPT ![m] = TRUE]
  /\ UNCHANGED <<mu, runs, muxRun, phase, busyVars, tableVars, connVars, stopVars>>

\* startInactivityTimeout, first half: Streams.error tells the clients and closes
\* them. Every accepted connection starts a timer; a tick that is due together with
\* the cancellation may still be taken.
InactivityTimeout(c) ==
  /\ mux[c] # None /\ ~timedOut[c] /\ ~writing[mux[c]]
  /\ timedOut' = [timedOut EXCEPT ![c] = TRUE]
  /\ closeStreams(mux[c])
  /\ UNCHANGED <<mu, runs, muxVars, sending, writing, known, forwarded, handler, mux,
                 created, reader, reply, stopVars>>

\* Second half: the timer cancels the multiplexer.
InactivityCancel(c) ==
  /\ timedOut[c] /\ ~cancelled[mux[c]]
  /\ cancelled' = [cancelled EXCEPT ![mux[c]] = TRUE]
  /\ UNCHANGED <<mu, runs, muxRun, phase, busyVars, tableVars, connVars, stopVars>>

\* The process loop has taken a request and waits in the send on ExecuteRequests,
\* from which no cancellation takes it, until the program has read.
SendBlocks(c) ==
  /\ handler[c] = "process" /\ phase[mux[c]] = "running" /\ ~sending[mux[c]]
  /\ forwarded[mux[c]] # {}
  /\ sending' = [sending EXCEPT ![mux[c]] = TRUE]
  /\ UNCHANGED <<mu, runs, muxVars, timedOut, writing, tableVars, connVars, stopVars>>

SendReturns(c) ==
  /\ handler[c] = "process" /\ sending[mux[c]]
  /\ sending' = [sending EXCEPT ![mux[c]] = FALSE]
  /\ UNCHANGED <<mu, runs, muxVars, timedOut, writing, tableVars, connVars, stopVars>>

\* broadcast writes a response to the clients, one after the other, with Streams.mu
\* held; responses the channel still holds are broadcast after the run has ended.
Broadcast(m) ==
  /\ phase[m] # "new" /\ ~writing[m]
  /\ \E s \in StreamIDs : conns[m][s] # None
  /\ writing' = [writing EXCEPT ![m] = TRUE]
  /\ UNCHANGED <<mu, runs, muxVars, timedOut, sending, tableVars, connVars, stopVars>>

\* The clients have taken the message, or a write has failed.
WriteReturns(m) ==
  /\ writing[m]
  /\ writing' = [writing EXCEPT ![m] = FALSE]
  /\ UNCHANGED <<mu, runs, muxVars, timedOut, sending, tableVars, connVars, stopVars>>

\* The process loop sees the context done: channels closed, p set to nil, RunEnd
\* and Close recorded; the client grace period begins.
Finalize(c) ==
  /\ handler[c] = "process" /\ phase[mux[c]] = "running" /\ cancelled[mux[c]]
  /\ ~sending[mux[c]]
  /\ phase' = [phase EXCEPT ![mux[c]] = "grace"]
  /\ UNCHANGED <<mu, runs, muxRun, cancelled, busyVars, tableVars, connVars, stopVars>>

\* Mutant: the close path waits until the clients have left by themselves.
CloseStreamsPatiently(c) ==
  /\ handler[c] = "process" /\ phase[mux[c]] = "grace" /\ ~writing[mux[c]]
  /\ \A s \in StreamIDs : conns[mux[c]][s] = None
  /\ phase' = [phase EXCEPT ![mux[c]] = "done"]
  /\ handler' = [handler EXCEPT ![c] = "removing"]
  /\ UNCHANGED <<mu, runs, muxRun, cancelled, busyVars, tableVars, mux, created,
                 reader, sock, reply, stopVars>>

\* The grace period is over: the streams are closed, then m.done.
CloseStreams(c) ==
  /\ handler[c] = "process" /\ phase[mux[c]] = "grace" /\ ~writing[mux[c]]
  /\ closeStreams(mux[c])
  /\ phase' = [phase EXCEPT ![mux[c]] = "done"]
  /\ handler' = [handler EXCEPT ![c] = "removing"]
  /\ UNCHANGED <<mu, runs, muxRun, cancelled, busyVars, known, forwarded, mux,
                 created, reader, reply, stopVars>>

\* Mutant: the run is removed once it is finalized, before the grace period.
RemoveRunEarly(c) ==
  /\ handler[c] = "process" /\ phase[mux[c]] = "grace" /\ mu = None
  /\ runs' = [runs EXCEPT ![RunOf[c]] = None]
  /\ handler' = [handler EXCEPT ![c] = "end"]
  /\ UNCHANGED <<mu, muxVars, busyVars, tableVars, mux, created, reader, sock, reply, stopVars>>

\* removeRun deletes whatever is registered under the run ID.
RemoveRun(c) ==
  /\ handler[c] = "removing" /\ mu = None
  /\ runs' = [runs EXCEPT ![RunOf[c]] = None]
  /\ handler' = [handler EXCEPT ![c] = "end"]
  /\ UNCHANGED <<mu, muxVars, busyVars, tableVars, mux, created, reader, sock, reply, stopVars>>

-----------------------------------------------------------------------------
(* WebSocketHandler.Shutdown.                                              *)

\* The multiplexers in h.runs.
Registered == {runs[r] : r \in RunIDs} \ {None}

\* Every registered multiplexer is noted and cancelled under h.mu.
ShutdownCancel ==
  /\ stopper = "idle" /\ mu = None
  /\ waitFor' = Registered
  /\ cancelled' = [m \in Muxes |-> cancelled[m] \/ m \in Registered]
  /\ stopper' = "waiting"
  /\ UNCHANGED <<mu, runs, muxRun, phase, busyVars, tableVars, connVars>>

\* Mutant: Wait answers for a multiplexer that is cancelled.
ShutdownReturnEarly ==
  /\ stopper = "waiting"
  /\ \A m \in waitFor : cancelled[m]
  /\ stopper' = "ok"
  /\ UNCHANGED <<mu, runs, muxVars, busyVars, tableVars, connVars, waitFor>>

\* Wait has returned for each of them.
ShutdownReturn ==
  /\ stopper = "waiting"
  /\ \A m \in waitFor : phase[m] = "done"
  /\ stopper' = "ok"
  /\ UNCHANGED <<mu, runs, muxVars, busyVars, tableVars, connVars, waitFor>>

\* Its context expires; select may choose this even when every run is done.
ShutdownExpires ==
  /\ stopper = "waiting" /\ waitFor # {}
  /\ stopper' = "expired"
  /\ UNCHANGED <<mu, runs, muxVars, busyVars, tableVars, connVars, waitFor>>

-----------------------------------------------------------------------------
HandlerStep(c) == \/ WaitForStreams(c)
                  \/ HandleConnection(c)
                  \/ RefuseOpen(c)
                  \/ \E k \in KnownIDs : Start(c, k) \/ Resume(c, k)
                  \/ Refused(c)
                  \/ Acknowledge(c)
                  \/ AcknowledgeFails(c)

ReaderStep(c) == \/ \E k \in KnownIDs : ReceiveRequest(c, k)
                 \/ RejectRequest(c)
                 \/ ReceivePing(c)
                 \/ ReceiveFails(c)
                 \/ Leave(c)

OwnerStep(c) == \/ Process(c) \/ SendBlocks(c) \/ SendReturns(c)
                \/ Finalize(c) \/ CloseStreams(c) \/ RemoveRun(c)

TimerStep(c) == InactivityTimeout(c) \/ InactivityCancel(c)

WriterStep(m) == Broadcast(m) \/ WriteReturns(m)

Next == \/ \E c \in Conns : \/ HandlerStep(c)
                            \/ ReaderStep(c)
                            \/ OwnerStep(c)
                            \/ TimerStep(c)
                            \/ ClientCloses(c)
        \/ \E m \in Muxes : Executed(m) \/ WriterStep(m)
        \/ ShutdownCancel \/ ShutdownReturn \/ ShutdownExpires

Spec == Init /\ [][Next]_vars

\* What the goroutine of a handler does between its writes and sends.
Proceed(c) == \/ mu = c /\ (HandleConnection(c) \/ \E k \in KnownIDs : Resume(c, k))
              \/ Process(c) \/ Finalize(c) \/ CloseStreams(c) \/ RemoveRun(c)

\* Handlers run on. Strong fairness, because other goroutines can take a step away:
\* select chooses at random among the cases that are ready, and a Go mutex lets nobody
\* starve. Nothing makes a write to a client, the send to the program or the program
\* itself come to an end.
FairSpec == Spec /\ \A c \in Conns : SF_vars(Proceed(c))
=============================================================================

----------------------------- MODULE Multiplexer ----------------------------
(***************************************************************************)
(* One run of the agent: Multiplexer.process, execute, broadcastResponses, *)
(* close and startInactivityTimeout (multiplexer.go), the Processor it     *)
(* hands to the runner (processor.go), the goroutines that receive from    *)
(* the clients (streams.go), and, on the other side of the Processor,      *)
(* Execute of the v2 runner service with its response sender, its          *)
(* receiving goroutine and the two read loops of Wait.                     *)
(*                                                                         *)
(*   clients -> authed -> process -> execReqs -> Execute -> program        *)
(*   program -> read loops -> sender -> execResps -> broadcaster -> clients*)
(***************************************************************************)
EXTENDS Naturals, Sequences, FiniteSets, SequencesExt

CONSTANTS Streams,      \* stream IDs of the clients of this run
          AuthCap,      \* capacity of authedWebsocketRequests (100 in the code)
          ReqCap,       \* capacity of Processor.ExecuteRequests (100)
          RespCap,      \* capacity of Processor.ExecuteResponses (100)
          MaxRequests,  \* bound: requests each client sends
          MaxOutput,    \* bound: chunks of output the program writes
          SentKinds,    \* bound: kinds of requests the clients send
          Senders,      \* bound: the clients that send requests
          Flaky,        \* bound: the clients whose connection may fail
          Timers,       \* bound: whether an inactivity timer may tick
          None

ASSUME MultiplexerConstants ==
  /\ {AuthCap, ReqCap, RespCap} \subseteq Nat \ {0}
  /\ {MaxRequests, MaxOutput} \subseteq Nat
  /\ SentKinds \subseteq {"config", "input", "other"}
  /\ Timers \in BOOLEAN /\ Senders \subseteq Streams /\ Flaky \subseteq Streams

VARIABLES
  cancelled,   \* m.ctx is done
  external,    \* ... and it was not execute that cancelled it (history)
  timer,       \* an inactivity timer
  active,      \* Processor.ActiveRequests
  proc,        \* program counter of process and close
  forwarding,  \* the request process is about to put on ExecuteRequests
  authed,      \* authedWebsocketRequests
  execReqs, reqsClosed,     \* Processor.ExecuteRequests
  execResps, respsClosed,   \* Processor.ExecuteResponses
  exec,        \* program counter of the runner's Execute
  rcv,         \* its receiving goroutine
  prog,        \* the program
  loop,        \* the read loops of execution.Wait
  reaped,      \* how many of their ends Wait has taken from readSendDone
  snd, item,   \* the sender's goroutine and the response it has in hand
  bc, todo, current,        \* broadcastResponses: connections left, the response
  reader, pending, sock,    \* receiveRequests, its request, the websocket
  table,       \* Streams.conns
  tap,         \* the StreamTap of the run
  commands,    \* CommandStart events it got
  recorded,    \* the responses broadcastResponses took before the tap was closed
  sent, accepted, taken,    \* history: requests read, ExecuteRequests authorized, received
  produced, relayed, got,  \* history: responses sent, taken by broadcastResponses, per client
  crashed      \* a goroutine panicked and the process is gone

ctxVars == <<cancelled, external, timer, active>>
procVars == <<proc, forwarding, reqsClosed, respsClosed>>
runVars == <<exec, rcv, prog, loop, reaped>>
sndVars == <<snd, item, produced>>
bcVars == <<bc, todo, current, got, relayed, recorded>>
clientVars == <<reader, pending, sock, table, sent>>
tapVars == <<tap, commands>>
reqVars == <<authed, accepted, execReqs, taken>>
vars == <<ctxVars, procVars, runVars, sndVars, bcVars, clientVars, tapVars, reqVars,
          execResps, crashed>>

Outs == {"stdout", "stderr"}

\* An ExecuteRequest with a Config, one without, and any other payload.
Kinds == {"config", "input", "other"}
Requests == [from : Streams, seq : 1..MaxRequests, kind : Kinds]
Responses == [n : 1..(MaxOutput + 2), kind : Outs \cup {"pid", "exit"}]

TypeOK ==
  /\ {cancelled, external, active, reqsClosed, respsClosed, crashed}
       \subseteq BOOLEAN
  /\ timer \in {"none", "armed", "expired", "off"}
  /\ proc \in {"new", "loop", "forward", "close_requests", "close_responses",
               "record_end", "close_tap", "grace", "done"}
  /\ forwarding \in Requests \cup {None}
  /\ authed \in Seq(Requests) /\ Len(authed) <= AuthCap
  /\ execReqs \in Seq(Requests) /\ Len(execReqs) <= ReqCap
  /\ execResps \in Seq(Responses) /\ Len(execResps) <= RespCap
  /\ exec \in {"off", "recv", "pid", "wait", "final", "drain", "close", "returned"}
  /\ rcv \in {"none", "reading", "writing", "ended"}
  /\ prog \in {"none", "running", "exited"}
  /\ loop \in [Outs -> {"off", "reading", "ended"}] /\ reaped \in 0..2
  /\ snd \in {"none", "idle", "busy", "ended"}
  /\ {item, current} \subseteq Responses \cup {None}
  /\ bc \in {"off", "recv", "write", "ended"}
  /\ todo \subseteq Streams /\ table \subseteq Streams
  /\ reader \in [Streams -> {"none", "reading", "passing", "gone"}]
  /\ pending \in [Streams -> Requests \cup {None}]
  /\ sock \in [Streams -> {"open", "dead"}]
  /\ tap \in {"none", "open", "ended", "closed"}
  /\ commands \in Nat /\ sent \in [Streams -> 0..MaxRequests]
  /\ {accepted, taken} \subseteq Seq(Requests)
  /\ {produced, relayed, recorded} \subseteq Seq(Responses)
  /\ got \in [Streams -> Seq(Responses)]

Init ==
  /\ cancelled = FALSE /\ external = FALSE /\ timer = "none" /\ active = FALSE
  /\ proc = "new" /\ forwarding = None
  /\ authed = <<>> /\ execReqs = <<>> /\ reqsClosed = FALSE
  /\ execResps = <<>> /\ respsClosed = FALSE
  /\ exec = "off" /\ rcv = "none" /\ prog = "none"
  /\ loop = [o \in Outs |-> "off"] /\ reaped = 0
  /\ snd = "none" /\ item = None
  /\ bc = "off" /\ todo = {} /\ current = None
  /\ reader = [s \in Streams |-> "none"] /\ pending = [s \in Streams |-> None]
  /\ sock = [s \in Streams |-> "open"] /\ table = {}
  /\ tap = "none" /\ commands = 0 /\ recorded = <<>>
  /\ sent = [s \in Streams |-> 0] /\ accepted = <<>> /\ taken = <<>>
  /\ produced = <<>> /\ relayed = <<>> /\ got = [s \in Streams |-> <<>>]
  /\ crashed = FALSE

-----------------------------------------------------------------------------
(* Clients.                                                                *)

\* Streams.mu is held for reading while a response is broadcast.
TableFree == bc # "write"

\* acceptConnection: the stream enters the table, its goroutine and an
\* inactivity timer start. The registry lets nobody in once the run is over.
acceptConnection(s) ==
  /\ reader[s] = "none" /\ proc # "done" /\ TableFree
  /\ table' = table \cup {s}
  /\ reader' = [reader EXCEPT ![s] = "reading"]
  /\ timer' = IF timer = "none" THEN "armed" ELSE timer
  /\ UNCHANGED <<cancelled, external, active, procVars, runVars, sndVars, bcVars,
                 pending, sock, sent, tapVars, reqVars, execResps, crashed>>

\* Streams.receive: an authorized request is in the goroutine's hands.
ReadRequest(s, k) ==
  /\ s \in Senders /\ sent[s] < MaxRequests
  /\ reader[s] = "reading" /\ sock[s] = "open"
  /\ sent' = [sent EXCEPT ![s] = @ + 1]
  /\ pending' = [pending EXCEPT ![s] = [from |-> s, seq |-> sent[s] + 1, kind |-> k]]
  /\ reader' = [reader EXCEPT ![s] = "passing"]
  /\ UNCHANGED <<ctxVars, procVars, runVars, sndVars, bcVars, sock, table, tapVars,
                 reqVars, execResps, crashed>>

\* handleRequest blocks in its send while authedWebsocketRequests is full. What the
\* history keeps are the ExecuteRequests.
handleRequest(s) ==
  /\ reader[s] = "passing" /\ Len(authed) < AuthCap
  /\ authed' = Append(authed, pending[s])
  /\ accepted' = IF pending[s].kind = "other" THEN accepted
                                              ELSE Append(accepted, pending[s])
  /\ pending' = [pending EXCEPT ![s] = None]
  /\ reader' = [reader EXCEPT ![s] = "reading"]
  /\ UNCHANGED <<ctxVars, procVars, runVars, sndVars, bcVars, sock, table, sent,
                 tapVars, execReqs, taken, execResps, crashed>>

\* The goroutine's read fails and it takes its stream out of the table.
LeaveStream(s) ==
  /\ reader[s] = "reading" /\ sock[s] = "dead" /\ TableFree
  /\ table' = table \ {s}
  /\ reader' = [reader EXCEPT ![s] = "gone"]
  /\ UNCHANGED <<ctxVars, procVars, runVars, sndVars, bcVars, pending, sock, sent,
                 tapVars, reqVars, execResps, crashed>>

ClientDrops(s) ==
  /\ s \in Flaky /\ reader[s] # "none" /\ sock[s] = "open"
  /\ sock' = [sock EXCEPT ![s] = "dead"]
  /\ UNCHANGED <<ctxVars, procVars, runVars, sndVars, bcVars, reader, pending,
                 table, sent, tapVars, reqVars, execResps, crashed>>

-----------------------------------------------------------------------------
(* Multiplexer.process and Multiplexer.close.                              *)

\* startInflight, RunStart, and the goroutines for execute and broadcastResponses.
StartProcess ==
  /\ proc = "new" /\ \E s \in Streams : reader[s] # "none"
  /\ proc' = "loop" /\ tap' = "open" /\ exec' = "recv" /\ bc' = "recv"
  /\ UNCHANGED <<ctxVars, forwarding, reqsClosed, respsClosed, rcv, prog, loop,
                 reaped, sndVars, todo, current, got, relayed, recorded, clientVars,
                 commands, reqVars, execResps, crashed>>

\* Mutant: CommandStart is recorded for requests that carry no Config.
NextRequestMisrecorded ==
  LET req == Head(authed) IN
  /\ proc = "loop" /\ authed # <<>>
  /\ authed' = Tail(authed)
  /\ IF req.kind = "other"
     THEN UNCHANGED <<proc, forwarding, commands>>
     ELSE /\ commands' = commands + (IF req.kind = "input" THEN 1 ELSE 0)
          /\ forwarding' = req
          /\ proc' = "forward"
  /\ UNCHANGED <<ctxVars, reqsClosed, respsClosed, runVars, sndVars, bcVars,
                 clientVars, tap, accepted, execReqs, taken, execResps, crashed>>

\* process takes a request: anything but an ExecuteRequest is skipped, a Config is
\* recorded as CommandStart before the runner can see it.
NextRequest ==
  LET req == Head(authed) IN
  /\ proc = "loop" /\ authed # <<>>
  /\ authed' = Tail(authed)
  /\ IF req.kind = "other"
     THEN UNCHANGED <<proc, forwarding, commands>>
     ELSE /\ commands' = commands + (IF req.kind = "config" THEN 1 ELSE 0)
          /\ forwarding' = req
          /\ proc' = "forward"
  /\ UNCHANGED <<ctxVars, reqsClosed, respsClosed, runVars, sndVars, bcVars,
                 clientVars, tap, accepted, execReqs, taken, execResps, crashed>>

\* Mutant: a request that finds the channel full is dropped.
ForwardOrDrop ==
  /\ proc = "forward"
  /\ execReqs' = IF Len(execReqs) < ReqCap THEN Append(execReqs, forwarding) ELSE execReqs
  /\ forwarding' = None /\ proc' = "loop"
  /\ UNCHANGED <<ctxVars, reqsClosed, respsClosed, runVars, sndVars, bcVars,
                 clientVars, tapVars, authed, accepted, taken, execResps, crashed>>

\* The send on ExecuteRequests blocks while the channel is full, whatever becomes
\* of the context.
Forward ==
  /\ proc = "forward" /\ Len(execReqs) < ReqCap
  /\ execReqs' = Append(execReqs, forwarding)
  /\ forwarding' = None /\ proc' = "loop"
  /\ UNCHANGED <<ctxVars, reqsClosed, respsClosed, runVars, sndVars, bcVars,
                 clientVars, tapVars, authed, accepted, taken, execResps, crashed>>

\* The select sees the context done; the deferred close begins.
ContextDone ==
  /\ proc = "loop" /\ cancelled
  /\ proc' = "close_requests"
  /\ UNCHANGED <<ctxVars, forwarding, reqsClosed, respsClosed, runVars, sndVars,
                 bcVars, clientVars, tapVars, reqVars, execResps, crashed>>

\* Processor.close, one channel after the other.
CloseRequests ==
  /\ proc = "close_requests"
  /\ proc' = "close_responses" /\ reqsClosed' = TRUE
  /\ UNCHANGED <<ctxVars, forwarding, respsClosed, runVars, sndVars, bcVars,
                 clientVars, tapVars, reqVars, execResps, crashed>>

CloseResponses ==
  /\ proc = "close_responses"
  /\ proc' = "record_end" /\ respsClosed' = TRUE
  /\ UNCHANGED <<ctxVars, forwarding, reqsClosed, runVars, sndVars, bcVars,
                 clientVars, tapVars, reqVars, execResps, crashed>>

\* setInflight(nil) and RunEnd.
RecordEnd ==
  /\ proc = "record_end"
  /\ proc' = "close_tap" /\ tap' = "ended"
  /\ UNCHANGED <<ctxVars, forwarding, reqsClosed, respsClosed, runVars, sndVars,
                 bcVars, clientVars, commands, reqVars, execResps, crashed>>

CloseTap ==
  /\ proc = "close_tap"
  /\ proc' = "grace" /\ tap' = "closed"
  /\ UNCHANGED <<ctxVars, forwarding, reqsClosed, respsClosed, runVars, sndVars,
                 bcVars, clientVars, commands, reqVars, execResps, crashed>>

\* The grace period is over: Streams.close, then m.done.
EndGrace ==
  /\ proc = "grace" /\ TableFree
  /\ proc' = "done" /\ table' = {}
  /\ sock' = [s \in Streams |-> IF s \in table THEN "dead" ELSE sock[s]]
  /\ UNCHANGED <<ctxVars, forwarding, reqsClosed, respsClosed, runVars, sndVars,
                 bcVars, reader, pending, sent, tapVars, reqVars, execResps,
                 crashed>>

-----------------------------------------------------------------------------
(* Cancellation from outside.                                              *)

\* getInflight finds a processor from startInflight to setInflight(nil).
Inflight == proc \in {"loop", "forward", "close_requests", "close_responses",
                      "record_end"}

\* A tick: the timer retires when requests are being executed, otherwise the
\* deadline may have passed.
TimerTick ==
  /\ Timers /\ timer = "armed"
  /\ timer' = IF Inflight /\ active THEN "off" ELSE "expired"
  /\ UNCHANGED <<cancelled, external, active, procVars, runVars, sndVars, bcVars,
                 clientVars, tapVars, reqVars, execResps, crashed>>

\* Streams.error tells the clients, closes them, and the context is cancelled.
TimerCancels ==
  /\ timer = "expired"
  /\ timer' = "off" /\ cancelled' = TRUE /\ external' = (external \/ ~cancelled)
  /\ table' = {}
  /\ sock' = [s \in Streams |-> IF s \in table THEN "dead" ELSE sock[s]]
  /\ UNCHANGED <<active, procVars, runVars, sndVars, bcVars, reader, pending, sent,
                 tapVars, reqVars, execResps, crashed>>

\* WebSocketHandler.Shutdown cancels the multiplexer.
ShutdownCancels ==
  /\ ~cancelled /\ proc # "new"
  /\ cancelled' = TRUE /\ external' = TRUE
  /\ UNCHANGED <<timer, active, procVars, runVars, sndVars, bcVars, clientVars,
                 tapVars, reqVars, execResps, crashed>>

-----------------------------------------------------------------------------
(* The runner: Execute, its response sender, and the program.              *)

\* Hand a response to the sender's goroutine, whose first act in Processor.Send is
\* to raise ActiveRequests.
Hand(kind) ==
  LET res == [n |-> Len(produced) + 1, kind |-> kind] IN
  /\ snd = "idle"
  /\ snd' = "busy" /\ item' = res
  /\ produced' = Append(produced, res)
  /\ active' = TRUE

NoHand == UNCHANGED <<snd, item, produced, active>>

TakeRequest == /\ execReqs # <<>>
               /\ execReqs' = Tail(execReqs)
               /\ taken' = Append(taken, Head(execReqs))

\* Execute receives its initial request. Without a Config, or when the project, the
\* session or the command cannot be set up, it returns at once.
ReceiveInitial ==
  /\ exec = "recv"
  /\ \/ /\ TakeRequest
        /\ \/ /\ Head(execReqs).kind = "config"
              /\ exec' = "pid" /\ prog' = "running" /\ snd' = "idle"
           \/ exec' = "returned" /\ UNCHANGED <<prog, snd>>
     \/ /\ execReqs = <<>> /\ reqsClosed
        /\ exec' = "returned"
        /\ UNCHANGED <<execReqs, taken, prog, snd>>
  /\ UNCHANGED <<ctxVars, procVars, rcv, loop, reaped, item, produced, bcVars,
                 clientVars, tapVars, authed, accepted, execResps, crashed>>

\* The PID is sent; then the receiving goroutine starts with the initial request,
\* and Wait starts its read loops.
SendPid ==
  /\ exec = "pid"
  /\ \/ /\ Hand("pid")
        /\ exec' = "wait" /\ rcv' = "writing"
        /\ loop' = [o \in Outs |-> "reading"]
     \/ /\ cancelled /\ NoHand
        /\ exec' = "close"
        /\ UNCHANGED <<rcv, loop>>
  /\ UNCHANGED <<cancelled, external, timer, procVars, prog, reaped, bcVars,
                 clientVars, tapVars, reqVars, execResps, crashed>>

\* Cmd.Wait has returned and closeIO has closed the pipes.
PipesClosed == {"final", "drain", "close", "returned"}

\* readSendLoop sends a chunk of output.
SendOutput(o) ==
  /\ loop[o] = "reading"
  /\ Cardinality({i \in 1..Len(produced) : produced[i].kind \in Outs}) < MaxOutput
  /\ Hand(o)
  /\ UNCHANGED <<cancelled, external, timer, procVars, runVars, bcVars, clientVars,
                 tapVars, reqVars, execResps, crashed>>

\* It ends at the end of the output, or when the context ends its send.
LoopEnds(o) ==
  /\ loop[o] = "reading" /\ (exec \in PipesClosed \/ cancelled)
  /\ loop' = [loop EXCEPT ![o] = "ended"]
  /\ UNCHANGED <<ctxVars, procVars, exec, rcv, prog, reaped, sndVars, bcVars,
                 clientVars, tapVars, reqVars, execResps, crashed>>

ProgramExits ==
  /\ prog = "running"
  /\ prog' = "exited"
  /\ UNCHANGED <<ctxVars, procVars, exec, rcv, loop, reaped, sndVars, bcVars,
                 clientVars, tapVars, reqVars, execResps, crashed>>

\* Cmd.Wait returns, the pipes are closed, and Wait takes the two ends of its read
\* loops: one by one, or in the drain that follows an error of the command.
CommandDone ==
  /\ exec = "wait" /\ prog = "exited"
  /\ exec' \in {"final", "drain"}
  /\ UNCHANGED <<ctxVars, procVars, rcv, prog, loop, reaped, sndVars, bcVars,
                 clientVars, tapVars, reqVars, execResps, crashed>>

Ended == {o \in Outs : loop[o] = "ended"}

\* finalWait: an end is taken, or the context is done and the drain begins.
FinalWait ==
  /\ exec = "final" /\ reaped < 2
  /\ \/ Cardinality(Ended) > reaped /\ reaped' = reaped + 1 /\ UNCHANGED exec
     \/ cancelled /\ exec' = "drain" /\ UNCHANGED reaped
  /\ UNCHANGED <<ctxVars, procVars, rcv, prog, loop, sndVars, bcVars, clientVars,
                 tapVars, reqVars, execResps, crashed>>

\* The drain takes two ends, whatever was taken before it: with one end gone it
\* waits for ever.
WaitReturns == \/ exec = "final" /\ reaped = 2
               \/ exec = "drain" /\ Cardinality(Ended) = 2 /\ reaped = 0

\* Wait has returned; the exit code is sent, unless the context ends it.
SendExit ==
  /\ WaitReturns
  /\ Hand("exit") \/ (cancelled /\ NoHand)
  /\ exec' = "close"
  /\ UNCHANGED <<cancelled, external, timer, procVars, rcv, prog, loop, reaped,
                 bcVars, clientVars, tapVars, reqVars, execResps, crashed>>

\* Mutant: Close does not wait for the goroutine.
CloseSenderAtOnce ==
  /\ exec = "close"
  /\ exec' = "returned"
  /\ UNCHANGED <<ctxVars, procVars, rcv, prog, loop, reaped, sndVars, bcVars,
                 clientVars, tapVars, reqVars, execResps, crashed>>

\* executeResponseStreamSender.Close waits for the goroutine to finish its send.
CloseSender ==
  /\ exec = "close" /\ snd = "idle"
  /\ exec' = "returned" /\ snd' = "ended"
  /\ UNCHANGED <<ctxVars, procVars, rcv, prog, loop, reaped, item, produced, bcVars,
                 clientVars, tapVars, reqVars, execResps, crashed>>

\* Multiplexer.execute cancels the context when Execute has returned.
ExecuteReturned ==
  /\ exec = "returned" /\ ~cancelled
  /\ cancelled' = TRUE
  /\ UNCHANGED <<external, timer, active, procVars, runVars, sndVars, bcVars,
                 clientVars, tapVars, reqVars, execResps, crashed>>

\* The receiving goroutine: the next request, or the end of the channel. It goes on
\* when Execute has returned.
ReceiveNext ==
  /\ rcv = "reading"
  /\ \/ TakeRequest /\ rcv' = "writing"
     \/ /\ execReqs = <<>> /\ reqsClosed
        /\ rcv' = "ended"
        /\ UNCHANGED <<execReqs, taken>>
  /\ UNCHANGED <<ctxVars, procVars, exec, prog, loop, reaped, sndVars, bcVars,
                 clientVars, tapVars, authed, accepted, execResps, crashed>>

\* The program reads what the goroutine writes to its standard input.
StdinRead ==
  /\ rcv = "writing" /\ prog = "running"
  /\ rcv' = "reading"
  /\ UNCHANGED <<ctxVars, procVars, exec, prog, loop, reaped, sndVars, bcVars,
                 clientVars, tapVars, reqVars, execResps, crashed>>

\* Mutant: the goroutine gives up when the write fails.
StdinErrorEndsReceiver ==
  /\ rcv = "writing" /\ exec \in PipesClosed
  /\ rcv' = "ended"
  /\ UNCHANGED <<ctxVars, procVars, exec, prog, loop, reaped, sndVars, bcVars,
                 clientVars, tapVars, reqVars, execResps, crashed>>

\* Closing the pipe ends a blocked write; the error is logged and ignored.
StdinClosed ==
  /\ rcv = "writing" /\ exec \in PipesClosed
  /\ rcv' = "reading"
  /\ UNCHANGED <<ctxVars, procVars, exec, prog, loop, reaped, sndVars, bcVars,
                 clientVars, tapVars, reqVars, execResps, crashed>>

\* Mutant: a full channel drops the response.
SendOrDrop ==
  /\ snd = "busy" /\ ~respsClosed
  /\ execResps' = IF Len(execResps) < RespCap THEN Append(execResps, item) ELSE execResps
  /\ snd' = "idle" /\ item' = None
  /\ UNCHANGED <<ctxVars, procVars, runVars, produced, bcVars, clientVars, tapVars,
                 reqVars, crashed>>

\* Processor.Send: blocks while ExecuteResponses is full, panics once it is closed.
Send ==
  /\ snd = "busy"
  /\ \/ /\ respsClosed
        /\ crashed' = TRUE
        /\ UNCHANGED <<execResps, snd, item>>
     \/ /\ ~respsClosed /\ Len(execResps) < RespCap
        /\ execResps' = Append(execResps, item)
        /\ snd' = "idle" /\ item' = None
        /\ UNCHANGED crashed
  /\ UNCHANGED <<ctxVars, procVars, runVars, produced, bcVars, clientVars, tapVars,
                 reqVars>>

-----------------------------------------------------------------------------
(* Multiplexer.broadcastResponses and Streams.broadcast.                   *)

\* A response is handed to the tap, which keeps it unless Close has finalized the
\* recording, then broadcast to the table as it is now.
TakeResponse ==
  /\ bc = "recv" /\ execResps # <<>>
  /\ current' = Head(execResps) /\ execResps' = Tail(execResps)
  /\ relayed' = Append(relayed, Head(execResps))
  /\ recorded' = IF tap = "closed" THEN recorded ELSE Append(recorded, Head(execResps))
  /\ todo' = table /\ bc' = "write"
  /\ UNCHANGED <<ctxVars, procVars, runVars, sndVars, got, clientVars, tapVars,
                 reqVars, crashed>>

\* Connections are written to in any order; the first write that fails ends the
\* broadcast of this response.
WriteTo(s) ==
  /\ bc = "write" /\ s \in todo
  /\ IF sock[s] = "open"
     THEN got' = [got EXCEPT ![s] = Append(@, current)] /\ todo' = todo \ {s}
     ELSE todo' = {} /\ UNCHANGED got
  /\ UNCHANGED <<ctxVars, procVars, runVars, sndVars, bc, current, relayed, recorded,
                 clientVars, tapVars, reqVars, execResps, crashed>>

Broadcasted ==
  /\ bc = "write" /\ todo = {}
  /\ bc' = "recv" /\ current' = None
  /\ UNCHANGED <<ctxVars, procVars, runVars, sndVars, todo, got, relayed, recorded,
                 clientVars, tapVars, reqVars, execResps, crashed>>

\* Mutant: the goroutine also stops when the context is done.
BroadcastStopsOnCancel ==
  /\ bc = "recv" /\ ((execResps = <<>> /\ respsClosed) \/ cancelled)
  /\ bc' = "ended"
  /\ UNCHANGED <<ctxVars, procVars, runVars, sndVars, todo, current, got, relayed,
                 recorded, clientVars, tapVars, reqVars, execResps, crashed>>

\* The channel is closed and drained.
BroadcastEnds ==
  /\ bc = "recv" /\ execResps = <<>> /\ respsClosed
  /\ bc' = "ended"
  /\ UNCHANGED <<ctxVars, procVars, runVars, sndVars, todo, current, got, relayed,
                 recorded, clientVars, tapVars, reqVars, execResps, crashed>>

-----------------------------------------------------------------------------
ClientStep(s) == \/ acceptConnection(s)
                 \/ \E k \in SentKinds : ReadRequest(s, k)
                 \/ handleRequest(s)
                 \/ LeaveStream(s)
                 \/ ClientDrops(s)

ProcessStep == \/ StartProcess \/ NextRequest \/ Forward \/ ContextDone
               \/ CloseRequests \/ CloseResponses \/ RecordEnd \/ CloseTap \/ EndGrace

ExecuteStep == \/ ReceiveInitial \/ SendPid \/ CommandDone \/ FinalWait \/ SendExit
               \/ CloseSender \/ ExecuteReturned

ReceiverStep == ReceiveNext \/ StdinClosed

BroadcastStep == TakeResponse \/ (\E s \in Streams : WriteTo(s)) \/ Broadcasted
                   \/ BroadcastEnds

Next == /\ ~crashed
        /\ \/ \E s \in Streams : ClientStep(s)
           \/ ProcessStep
           \/ TimerTick \/ TimerCancels \/ ShutdownCancels
           \/ ExecuteStep \/ ReceiverStep \/ StdinRead \/ ProgramExits
           \/ \E o \in Outs : SendOutput(o) \/ LoopEnds(o)
           \/ Send
           \/ BroadcastStep

Spec == Init /\ [][Next]_vars

\* Every goroutine of the server runs on, and a program whose context is cancelled
\* is killed (exec.CommandContext). Clients, timers, callers of Shutdown and what a
\* program does by itself owe nothing.
Fairness == /\ WF_vars(~crashed /\ ProcessStep)
            /\ WF_vars(~crashed /\ ExecuteStep)
            /\ WF_vars(~crashed /\ ReceiverStep)
            /\ WF_vars(~crashed /\ Send)
            /\ WF_vars(~crashed /\ BroadcastStep)
            /\ WF_vars(~crashed /\ cancelled /\ ProgramExits)
            /\ \A o \in Outs : WF_vars(~crashed /\ LoopEnds(o))

FairSpec == Spec /\ Fairness
=============================================================================

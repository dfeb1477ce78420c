# Formal models of runme

runme executes the code cells of Markdown notebooks. A cell's program is started
by a *runner* (a gRPC service), which streams its output back; the *agent* puts a
websocket front end before the runner, so that several clients can watch and feed
one run, and records what happened. This directory holds TLA+ models of the parts
where goroutines, channels, locks and closing orders decide whether a run is
executed once, recorded completely and ended at all, the TLC configurations that
check them, and theorems checked by TLAPS.

Paths below are relative to `src/`. The agent's files are in
`pkg/agent/runme/stream/`.

## The system

### Components, their state and their operations

| Component | State | Operations | Modelled in |
|---|---|---|---|
| Websocket handler (`handler.go`) | `runs`: run ID to multiplexer, under `mu` | `Handler` (upgrade, OpenRun START/RESUME, acknowledge, `process`, `removeRun`), `Shutdown` | `RunRegistry` |
| Stream table (`streams.go`) | connections by stream ID, the known ID, under `mu` | `createStream`, `removeStream`, `receive`, `authorizeRequest`, `broadcast`, `error`, `close` | `RunRegistry` (table), `Multiplexer` (receive, broadcast) |
| Multiplexer (`multiplexer.go`) | context, current `Processor`, tap, inactivity timer, `done` | `acceptConnection`, `receiveRequests`, `process`, `execute`, `broadcastResponses`, `close`, `startInactivityTimeout` | `Multiplexer`; its life cycle as seen by the handler in `RunRegistry` |
| Processor (`processor.go`) | two channels of capacity 100, `ActiveRequests` | `Recv`, `Send`, `close` | `Multiplexer` |
| Recording (`tap.go`) | one tap per run | `CommandStart`, `Output`, `CommandEnd`, `RunEnd`, `Close` | `Multiplexer` |
| Runner v2 `Execute` (`runnerv2service/service_execute.go`) | response sender, receiving goroutine | initial request, PID, requests to stdin, exit code | `Multiplexer` |
| Output of a command (`runnerv2service/execution.go`, `buffer.go`, `tail_writer.go`) | pipes, a shared buffer per output, captured tail | `Wait`, `closeIO`, `readSendLoop`, `Write`/`Close`/`Read` | `Execution` |
| Session list (`internal/lru/cache.go`, `runnerv2service/service.go`, `service_sessions.go`) | sessions, most recently used first, under a mutex | create, get, update, delete; strategies of Execute | `Sessions`, implements `RecencyList` |
| Session environment (`session/env_store_map.go`, `command/env_collector.go`) | variables of a session, under a mutex per call | set, merge, delete, diff; what a command brings back | `Sessions`, `EnvCollector` |
| Environment collectors (`command/env_collector_fifo_unix.go`) | two FIFOs, two readers | the dumps of the shell, `Diff`, `ensureReaderDone`, the sentinel | `EnvCollector` |
| Ring buffer (`internal/rbuffer`) | bytes, two positions, closed flag | `Write`, `Read`, `Close` | `RingBuffer` |
| Runner v1 `Execute` (`runner/service.go`, `runner/command.go`) | pipes or a pseudo-terminal, ring buffers, an unbuffered channel, the captured output | input, Stop, `readLoop`, sender, `ProcessWait`, `Finalize`, the last response | `RunnerV1` |
| Runner v1 session, Owl monitor (`runner/session.go`, `MonitorEnvStore`) | an environment store, its subscribers, a read-write mutex | `subscribe`, unsubscribe, `notifySubscribers`, the goroutines of `MonitorEnvStore` | `EnvMonitor` |
| Jupyter proxy (`pkg/agent/server/jupyter_proxy.go`) | records of servers, the connections of a bridge, deadlines | `Resolve`, `ResolveRefreshed`, `forwardHTTP`, the websocket bridge, pings | `JupyterProxy` |
| Project loader, Harbor server and evaluations, agent server shutdown, authorization, runner clients | see `PROJECT.json` | | not modelled |
| Document parser, notebook resolver, configuration, command line, authentication, generated code | | | not modelled: text and file processing, user interface |

`PROJECT.json` lists every component with its files and the reason when it is not
modelled.

### How they interact

A websocket connection carries a run ID and a stream ID. Its handler goroutine
looks the run up under `mu`, or makes a multiplexer for it, acknowledges the
OpenRunRequest, and then either returns (the connection joined a run) or stays to
run `process`. A receiving goroutine per connection authorizes requests and puts
them on `authedWebsocketRequests`; `process` takes them from there, records a
CommandStart, and forwards them through `Processor.ExecuteRequests`. `execute`
calls the runner's `Execute` with the processor as its stream. There, one
goroutine receives requests and writes to the program's stdin, two loops read its
outputs, and one goroutine sends responses into `Processor.ExecuteResponses`.
`broadcastResponses` records each response and writes it to every connection in
the table. When `Execute` returns, a timer fires or `Shutdown` is called, the
context is cancelled, `process` closes the processor's channels and the tap, waits
a grace period for the clients, closes their connections, and its handler removes
the run.

The two runners keep sessions. A handler of the v2 runner looks its session up in
the list, or makes one and lists it, merges the request's environment into it, copies
the environment for the program, and when the program has ended stores what the
program has changed. The shell of a program dumps its environment into a FIFO before
and after its script; `Diff` compares the two. Any number of handlers do this at the
same time, with one lock per call of the list or of the store. The v1 runner has the
same duties with other parts: a ring buffer per output between the process and a
goroutine that sends, and, for a session with an Owl store, subscribers that are
sent a snapshot after each change.

The agent also stands between a browser and Jupyter servers. It keeps the token each
server's file names, reads the file again when a request is forbidden, and for the
channels of a kernel joins two websockets by two loops and a goroutine that pings.

### What is hard

- The delete at the end goes by *name*: between a lookup and a delete, or between
  two handlers, the name may have been given to another run (`handler.go:294`,
  `streams.go:62`).
- `Shutdown` acts on a snapshot while handlers create and remove runs.
- Closing order: the channels between agent and runner are closed by a third
  goroutine while both sides may still use them (`processor.go:44-48`).
- Every channel is bounded: whoever blocks in a send must have somebody left to
  receive (`multiplexer.go:306`, `streams.go:160`).
- `buffer.Read` combines a mutex, an atomic flag and two channels, one step each.
- `execution.Wait` has three ways to wait for the same two goroutines.
- A command's environment is a copy. Written back whole it would undo what other
  commands have set meanwhile; written back one variable at a time it may stop halfway.
- A FIFO is opened by two sides that wait for each other, and one of them may be
  killed; the rescue (a byte from a third side) may come too early or too late.
- `notifySubscribers` sends on unbuffered channels under a read lock that the
  receiver's leaving has to take for writing.
- `RunnerV1` closes five things in one order and waits for six goroutines in another,
  with a process that may leave descendants behind and a client that may be gone.
- The Jupyter proxy publishes files it has read some time ago, and its read deadline
  stands on a loop that may be busy writing.

`PROJECT.json` lists these and more as hazards, each with its line and with the
properties that watch it, or the reason why none does.

## Modules

| Module | Kind | Role |
|---|---|---|
| `RunLease` | abstract | A run ID is leased to one multiplexer at a time and given back only before work begins or after the close path. |
| `RunRegistry`, `RunRegistryProps` | detailed | Handlers, stream tables, life cycle of multiplexers, Shutdown; implements `RunLease`. |
| `RunRegistryProofs` | proofs | Theorems about `RunRegistry`. |
| `FifoRelay` | abstract | What comes out is what went in, in order, once. |
| `Multiplexer`, `MultiplexerProps` | detailed | One run from its clients to the program and back; implements `FifoRelay` twice, for requests and for responses. |
| `MultiplexerProofs` | proofs | Theorems about `Multiplexer`. |
| `Execution`, `ExecutionProps` | detailed | The inside of `execution.Wait`; implements `FifoRelay` for each output. |
| `ExecutionProofs` | proofs | Theorems about `Execution`. |
| `RingBuffer`, `RingBufferProps` | detailed | The buffer between a command of the v1 runner and its sender; implements `FifoRelay`. |
| `RingBufferProofs` | proofs | Theorems about `RingBuffer`. |
| `RecencyList` | abstract | A list of bounded size that pushes out only what all others were used after. |
| `Sessions`, `SessionsProps` | detailed | The session list, its handlers and the environments they set; implements `RecencyList`. |
| `SessionsProofs` | proofs | Theorems about `Sessions` and `EnvCollector`. |
| `EnvCollector`, `EnvCollectorProps` | detailed | The FIFO collector from the shell's first dump to the result of `Diff`. |
| `EnvMonitor`, `EnvMonitorProps` | detailed | Subscribers of an Owl store and the calls that serve them. |
| `RunnerV1`, `RunnerV1Props` | detailed | A call of the v1 runner's `Execute` from the start of the process; implements `FifoRelay` for each output. |
| `RunnerV1Proofs` | proofs | Theorems about `RunnerV1` and `EnvMonitor`. |
| `JupyterProxy`, `JupyterProxyProps` | detailed | Requests for a Jupyter server, and the bridge of a kernel's channels. |
| `JupyterProxyProofs` | proofs | Theorems about `JupyterProxy`. |
| `SequenceFacts` | lemmas | Sequences without repetition, their parts and enumerations, how items move between neighbours; the least of a set of numbers. |
| `MC...` | instances | Constants for TLC, one module for each detailed one. |

`RunRegistry`, `Multiplexer` and `Execution` are layers. `RunRegistry` reduces a run to the phase of
its multiplexer; `Multiplexer` fixes one run and opens it up, the two output loops
being one step each; `Execution` opens up those. Composing them in one state space
would only multiply states: what one layer needs of the next is stated by the
abstract modules (`RunLease`, `FifoRelay`) that the other is shown to implement.
In the same way `RunnerV1` takes from `RingBuffer` that a ring buffer is a bounded
queue whose writer waits and that gives out what it holds after Close, and `Sessions`
takes from `EnvCollector` that a `Diff` is exact or fails.

Definitions carry the names of the code where TLA+ allows it. Operators whose
comment starts with "Mutant:" are wrong variants of the definition that follows
them; no specification uses them. They exist to show that each property can fail.

### RunRegistry

One action per atomic step of a goroutine. `h.mu` is a variable (`mu`) because
`HandleConnection` gives it up only after the OpenRunResponse is written: nobody
looks up a run while a START is being acknowledged, and when the acknowledgement
fails (`AcknowledgeFails`) what was set up is undone under the same lock. The
action properties follow from this order of steps.

- `handler[c]`: idle, refusing or acking (with `mu`, while the client is told),
  process, removing, end.
- `reader[c]`: `receiveRequests` of that connection. The first message of a client that
  sends no OpenRunRequest is its first request, or a Ping.
- `phase[m]`: new, running (`process`), grace (recording closed, waiting for
  clients), done.
- `sending[m]`: `process` is in its send on `ExecuteRequests` (`multiplexer.go:306`), from
  which no cancellation takes it; until the send returns there is no `Finalize`.
- `writing[m]`: `Streams.mu` is held while a message is written to a client, by `broadcast`
  or by `authorizeRequest`. Whatever else takes that lock waits: new connections
  (`WaitForStreams` takes `h.mu` first and keeps it), requests, cleanups, timers, and
  `Streams.close` at the end of a run.
- `timedOut[c]`: every accepted connection starts an inactivity timer of its own; it
  closes the streams and then cancels, in two steps.
- `stopper`, `waitFor`: `Shutdown` and its snapshot.
- `forwarded` is a history variable, used by `BoundToOneCell` only.

The authorization policy is an input: a request is accepted or rejected, and the
model says what each leads to.

### Multiplexer

Every goroutine of a run is a program counter: `proc` (process and close), `exec`,
`rcv`, `loop`, `snd`, `bc`, `reader`, and `timer`. The four queues are sequences
with capacities. A request is its sender, a number and a kind (a Config that
starts a program, input, or a payload that is not an ExecuteRequest); a response
is a number and a kind. `accepted` (the ExecuteRequests that were let through),
`produced`, `relayed` (what `broadcastResponses` took) and `commands` are history.
`recorded` is what the tap was handed before it was closed. `crashed` is the end of the process by a panic: a send on a
closed channel in Go. `Shutdown` and the inactivity timer cancel from outside and
set `external`.

### Execution

Per output: the pipe, the goroutine of `io.Copy`, the buffer with its flag and its
channel, and the read loop in its five places (read, check the flag, about to
select, parked, send). `buffer.Read` is three steps because the code is: the mutex
is given back before the flag is looked at, and the flag before the select. The
non-blocking send of `buffer.Write` wakes a reader only when it is parked. `Wait`
is its own program counter with the set of loops whose end it has received.

### RingBuffer

Any number of writers and readers. `lock` is the mutex; `pc[g] = "wait"` is a
goroutine in `cond.Wait`, "lock" one that wants the mutex, for the first time or
after a Broadcast. The closed flag is read and set without the mutex, so the look
at it and what follows are two steps ("check", "checked") and Close is two as well
(`Close` sets the flag, `CloseBroadcast` wakes under the mutex). The copies keep the
arithmetic of positions: a piece goes to `w` and what passes the end to 0. A byte
is the pair of its writer and its place in all that writer wrote, so bytes that are
lost, doubled or swapped, also between the pieces of one Write, can be told apart.
`inp` and `out` are history.

### Sessions

One action per call that takes the lock of the list (`Add`, `GetByID`, `Newest`,
`DeleteByID`) and one per variable that is set or deleted, since the store is locked
for each. `pc` is where a handler of Execute or UpdateSession is; `todo` is what the
`Merge` it is in has still to do. `AddSession` is a step of its own because Execute
makes a session and lists it in two calls. A program is what it does to its
environment (`Effects`); `Finish` collects that by `Diff`, which first loads the two
dumps into stores of limited size and finds nothing when one is refused;
`FinishUncollected` is a program that is no shell, or a collection that fails. When the
request stores its output (`KeepNoOutput` does not) the output goes to one variable under
one lock of the store and, if the cell's name is an opinionated one (`KnownNames`), to the
variable of that name under another: the places "output" and "known". `wrote` is history,
the known name included.

### EnvCollector

The shell, the two reading goroutines, the two `ensureReaderDone` goroutines and
`Diff`, around FIFOs that are modelled as the kernel has them: an open waits for the
other side, a reader sees the end when the last writer has closed, and an open for
writing without a reader is ENXIO, whose text `writeSentinel` looks for and finds on
macOS only (`noDevice`). The shell may be killed at every step. An entry is a name and
a value, or the sentinel; after decryption the sentinel's byte is anything (`byte`).
`opened` (history) is the FIFOs that the shell has opened for writing.
`CollectorConstants` says of the environments what is true of a shell's: no name twice,
at least one variable, and no value that is one of the marks the model uses for a missing
or a spoiled value.

### EnvMonitor

The environment is its version, and `unread` is that owl failed to make a snapshot of it,
after which `notifySubscribers` returns with nobody told. `shown` is what each client
got: the newest of the snapshots and the last. `readers` and `locker` are the read-write mutex: an
announced Lock keeps new readers out. `notify`, `snapshot` and `todo` are one call of
`notifySubscribers` for each goroutine that may make one, the commands' and the
monitors' own (a new subscriber is greeted by a notification of everybody). Each
monitor is four places: its handler, the subscription, the goroutine that waits for
its context to leave the list, and the consumer that forwards to the client.

### RunnerV1

`handler` is the line of Execute and `command.go` the call has come to; `copier` and
`feeder` are the goroutines of `exec.Cmd` or of the pseudo-terminal; `loop`, `sender`
and `input` those of Execute. What a request asks for (terminal, background, storing,
input) is chosen at the start. The process may end, fail, write, or leave descendants
that hold its output (`holders`) at any time; the client may disappear at any time.
`feeder` takes input from the receiving goroutine, which is free then, and waits for the
process to read it (`FeederWrites`). `request.store` is the kind of store the session has,
if the output is stored at all: the simple one refuses a value that is too large (`Fit`),
the owl store does not look. `stored` are the two variables that may hold the output, `__`
and that of the cell's known name. Either `Set` may fail for other reasons too, without
consequence for the call.

### JupyterProxy

A request goes through `resolve`, `reload` (the file is read), `publish` (the map is
replaced), `lookup` and `send`, since the lock is given back between them. `excused`
is history: what the Jupyter server accepted while the request was served, and the
overtaking of one reload by another. In a bridge each direction is a loop that has
read at most one message (`hand`), `errs` is the channel of capacity 3, and `since`
counts ping intervals since the client's last pong. A request whose body cannot be read
is answered 400 and never sent. Within one interval everybody who
can go on does: `Ping` happens only when the loops have done what they can.

## Runs

| Run | Module, configuration | What it checks |
|---|---|---|
| `registry` | `MCRunRegistry.cfg` | `RegistryInv` (`TypeOK`, `Bookkeeping`, `RemovesOwnRun`, `OneRunPerID`), `BoundToOneCell`, `ShutdownMissesNothing`, `NoCrossClose`, refinement of `RunLease` |
| `registry_live` | `MCRunRegistryLive.cfg` | with connections that share a stream ID: `StreamsOfThisRun`, `CancelledRunIsRemoved`, `ShutdownFinalizes` |
| `mux_responses` | `MCMultiplexerResp.cfg` | `ResponsesInv` (`TypeOK`, `DeliveredInOrder`, `RecordingHasNoGap`, `ExitCodeIsLast`, `NormalEndIsClean`) and `FifoResponses` with two clients, one of which drops |
| `mux_live` | `MCMultiplexerLive.cfg` | `FifoRequests`, `StartRecordedFirst`, `ExitCodeIsRelayed`, `StartedRunCloses` with full channels |
| `mux_panic` | `MCMultiplexerPanic.cfg` | `SendNeverPanics`, which does not hold, see Findings |
| `execution` | `MCExecution.cfg` | `OutputInv` (`TypeOK`, `LoopsEndBeforeWait`, `StoredIsTail`, `NothingOvertaken`), `OutputInOrder`, `NobodyIsHeldUp` (`ProgramIsNeverBlocked`, `WaitReturns`) |
| `ring_buffer` | `MCRingBuffer.cfg` | `RingInv` (`TypeOK`, `UnreadKept`, `PiecesInOrder`, `NoMissedWakeup`, `EOFIsFinal`), `BytesInOrder`, `AllGetOn` (`CloseWakesAll`, `BytesFlow`, `WritesReturn`) |
| `sessions` | `MCSessions.cfg` | `SessionsInv`, `AllOrNothing`, `OnlyOwnChanges`, refinement of `RecencyList` |
| `collector` | `MCEnvCollector.cfg` | `CollectorInv` (`CollectorTypeOK`, `ExactDiff`), `UnopenedIsRefused`, `CompleteIsAccepted`, `DiffReturns` |
| `env_monitor` | `MCEnvMonitor.cfg` | `MonitorInv` (`MonitorTypeOK`, `Locking`, `Listed`, `SendsOnOpen`, `OwnEnd`), `NewestIsShownToEach`, `EachMonitorEnds`, `UpdateReturns` |
| `runner_v1` | `MCRunnerV1.cfg` | `RunnerInv` (`TypeOK`, `ExitIsLast`, `StoredWhole`), `OutputRelay`, `ExecuteReturns` |
| `jupyter` | `MCJupyterProxy.cfg` | `JupyterInv` (`TypeOK`, `Relayed`), `RefusedForCause`, `AnsweringClientIsKept`, `BridgeEnds`, `SilentClientIsDropped` |

Deadlock is checked in `ring_buffer`. In the others it is not an error: a run ends,
clients are gone, and nothing is left to do.

### Bounds

- `registry`: two connections for one run ID and two multiplexers, so that a run is
  made, joined or removed, and made again, with any step of one handler between any
  two of the other; two known IDs, so that they can differ. A connection is used
  once. Multiplexers and known IDs are symmetric; connections are not, since each
  has its own stream ID. The theorems remove these bounds for the properties they
  state.
- `registry_live`: two connections with one stream ID, one multiplexer, no symmetry
  (it would not be sound for liveness).
- Channels have capacity 1 instead of 100 in the Multiplexer runs. A send blocks
  when the channel is full whatever the capacity; with 1 that happens after two
  requests. Three requests fill both channels and the hands of `process`. One chunk
  of output, the PID and the exit code fill the channel, the sender and the
  broadcaster.
- `execution`: three chunks of stdout against a capture of two, so that the capture
  overflows by a part; one of stderr; a pipe of one chunk.
- `ring_buffer`: two writers and two readers, so that a Signal in place of a
  Broadcast would wake the wrong one; capacity 2 and Writes of up to 3 bytes, which
  wrap, fill the buffer and wait in the middle; reads of 1 and 2 bytes. Each writer
  writes 3 bytes in all. The theorems hold for every capacity.
- `sessions`: a list of two among three sessions, so that one is pushed out and may be
  used again by the command that runs in it; two handlers, two variables, two values
  and one that is too large, with requests and effects that overlap. The known name is
  the variable that the requests and effects change as well, and the output's is the
  other, so that the stores of a command hit what another has set. The theorems remove
  these bounds.
- `collector`: environments of one and two variables, with and without a value that
  has a `=` in it, so that a variable is added, changed and deleted.
- `env_monitor`: two clients and one command with one change. The greeting of a new
  subscriber is a notification as well, so that two run at once, and both clients
  leave while they do. The clients are alike, so what is checked of the one (`m1`) holds
  of the other.
- `runner_v1`: three chunks of standard output and one of standard error through ring
  buffers of one chunk and a read of one, so that everybody waits for everybody, and a
  variable of two, so that the simple store takes an output or refuses it and an owl
  store is given a cut.
- `jupyter`: two HTTP requests together, or one bridge (`Arrivals`; they share no
  state but the record); one restart of the Jupyter server; two messages to the kernel
  and one back, two frames under way, three intervals to the deadline.

### Fairness

Goroutines that can go on do (weak fairness of each goroutine's next step).

In `RunRegistry` the handlers' steps are strongly fair (`Proceed`): `select` chooses at
random among the cases that are ready, and Go's mutexes do not starve, so a handler that
competes with clients, broadcasts and timers for `h.mu`, for `Streams.mu` or for its own
`select` gets its turn. That writes to clients return, and that the program reads its
input, is not a fairness of the specification, for nothing in the code sees to it: they
are the premises `WritesReturn` and `SendsReturn` of `CancelledRunIsRemoved`. Without
the first a client that reads no more keeps a cancelled run in the registry, without the
second a program that reads no input does.

`Multiplexer` fixes one run and looks at its channels; there writes to clients and to the
runner's stream return, as they do when the peer reads or is gone. A program whose context is
cancelled is killed by `exec.CommandContext`, hence the fairness of
`cancelled /\ ProgramExits`. Nothing is assumed of clients, of timers firing, of
callers of `Shutdown`, or of a program that is left alone: it may run, wait for
input and write for ever. In `RingBuffer` the mutex is strongly fair, which is what
the starvation mode of Go's `sync.Mutex` is for, and readers read on until EOF, as
`readLoop` does; writers owe nothing.

In `EnvCollector` nothing is assumed of the shell: it may stop anywhere, and `Diff`,
which is called when it is gone, still returns. In `EnvMonitor` the clients read what
they are sent, for `srv.Send` waits for one that does not; nobody has to call, change
anything or leave. In `RunnerV1` the goroutines get on and nothing is assumed of the
process, which need not read its input either (`FeederWrites` is not fair), of its
descendants or of the client.
In `JupyterProxy` the server's goroutines and its clock get on; the client and the
Jupyter server may stall for ever, an HTTP request ending by its timeout. The
expiry of the 10 s for a ping (`PingTimesOut`) is possible and never assumed.

## Findings

`mux_panic` (`SendNeverPanics`) is the run that TLC finds violated by what the code
does: cancelling a run whose program is writing lets `close` close `ExecuteResponses`
under the runner's sender; the send panics and the server is gone. `NormalEndIsClean`
is what holds: a run that ends by itself never does this.

Three more statements are defined in the modules of properties and are no part of a
passing run, because the code does not keep them. Each can be seen by giving it to TLC with
the configuration named:

- `CompleteRecording` (INVARIANT, `MCMultiplexerPanic.cfg`). By `tap.go:47` "Close
  finalizes the recording". `close` closes the tap while `broadcastResponses` may still
  have responses to take (`multiplexer.go:195`), also in a run that ends by itself: output
  and the end of a command reach a closed tap. What holds is `RecordingHasNoGap`, the
  recording is a beginning of what was broadcast, and `ExitCodeIsRelayed`.
- `OutputIsDrained` (INVARIANT, `MCExecution.cfg`). By `buffer_test.go:10`
  (`TestBufferReadDrainsBufferedDataBeforeEOF`) buffered data comes before EOF.
  `buffer.Read` looks at the closed flag after releasing the mutex (`buffer.go:79`): a last
  write and the close in between, and the last output is never sent. What holds is
  `NothingOvertaken`: what is not sent is the end of the output.
- `LatestIsLast` (with `m1`, as a PROPERTY of `MCEnvMonitor.cfg`). Notifications run side
  by side under the read lock (`session.go:320`), so a client may be sent an older snapshot
  after a newer one, and for good. What holds is `NewestIsShownToEach`: the newest is among
  what it got.

Other behaviours of the models worth knowing:

- `RunRegistry`: a cancelled run stays in the registry, and its ID in use, while
  `process` is in a send that no program takes or a client takes no message that is written
  under `Streams.mu`. In `Multiplexer` the same send blocks for ever if `Execute` has
  returned early (no Config, an unknown session) and the channel is full;
  `StartedRunCloses` is what holds there.
- The notification of `buffer.Write` is dropped when the reader is on its way to its
  select, and the output waits for the next write.
- Cancelled after one of the two loops was received by `finalWait`, `execution.Wait`
  drains two more ends and blocks for ever. In `Multiplexer` the same step leaves
  `exec` in "drain".
- RESUME finds a run in its grace period; a connection accepted between `Streams.close`
  and `removeRun` stays in the table of a dead run; one dead connection ends the
  broadcast of a response for the connections after it; the goroutine of a client
  stays blocked on a full `authedWebsocketRequests` after the run's end.
- `Sessions`: two MOST_RECENT requests that find no session make two; a command whose
  session was pushed out brings its environment back into a session nobody can reach.
- `EnvCollector`: a dump that the shell has begun passes wherever it was cut off. A shell
  that is killed after it opened the FIFO and before the first entry leaves an empty
  dump, `Diff` succeeds and every variable counts as deleted. With encryption a sentinel
  that comes before or after the shell's dump decrypts to any byte, and spoils the last
  variable or makes the dump unreadable; alone it passes for a dump if it decrypts to `=`.
- `EnvMonitor`: a client that reads no more without leaving holds up every change of the
  environment; with the simple store a subscription fails and its call races with its own
  closed channel.
- `RunnerV1`: an output larger than a variable may be is refused by the simple store and
  stored as a cut by the owl store, whose `setEnv` has a todo in place of the check
  (`session.go:365`). When a response cannot be sent the sender stops receiving, the read
  loops block in `datac`, closing the ring buffers does not let them exit, and Execute never
  returns; a program whose descendants hold its output is waited for until they let go;
  a background command whose client is gone waits for its process; while the feeder waits
  for the process to read one piece of input, the next one keeps the receiving goroutine
  from a request to stop; an interrupted terminal program that exits with 0 has its success
  turned into an error by `Finalize`; when the PID cannot be sent the process is left
  unwaited.
- `JupyterProxy`: a websocket dial refused with 403 is not tried again with a new
  token; a record without a token answers 400 without reading the file again; an older
  reading of the file published late replaces a newer one, and a request that has just
  refreshed is refused; a kernel that takes no message for a minute costs a client
  that answers every ping its channels.

## Proofs

`RunRegistryProofs` proves, for any sets of connections, run IDs, stream IDs, known
IDs and multiplexers, from `RegistryConstants` alone:

| Theorem | Statement |
|---|---|
| `TypeCorrect` | `Spec => []TypeOK` |
| `RegistryCorrect` | `Spec => []RegistryInv` |
| `RemovesOwn` | `Spec => []RemovesOwnRun`: `removeRun` deletes by name, and yet only the handler's own run |
| `NoSecondRun` | `Spec => []OneRunPerID` |
| `NothingMissed` | `Spec => ShutdownMissesNothing` |
| `RegistryLeases` | `Spec => LeaseSpec`: the registry implements `RunLease` |
| `TablesOfOneRun` | `Spec => []StreamsOfThisRun` |
| `OneCellPerRun` | `Spec => []BoundToOneCell` |
| `ClosedForCause` | what the server closes was reached under its own run and stream ID (`CloseCause`), or its run ended or timed out |
| `NobodyElseCloses` | `Spec => NoCrossClose`, if the connections of a run have stream IDs of their own |

`RemovesOwnRun` is not inductive: it says nothing of who else may hold the entry,
nor of a handler that has not got there. `Bookkeeping` (`BookkeepingKept`) adds what the handlers owe
to each other through the shared map:

- `EntryFiled`: an entry is filed under the run it was made for;
- `CreatorBound`, `OneCreator`: each multiplexer has one creating handler;
- `CreatorHolds`: from its creation to `removeRun` the creator finds its own entry;
- `CreatorPhase`, `PhaseReached`: the phase of a multiplexer and the place of its
  creator go together, so a multiplexer that works is registered.

The steps of `Next` fall into four kinds with a lemma each: joining (`InvJoin`),
creating (`InvCreate`), dropping an entry (`InvDrop`) and advancing a phase
(`InvAdvance`); `InvStep` assigns every action to one of them. The refinement
reuses the classification: `StageAcquire`, `StageRelease`, `StageAdvance` and
`StageStutter` say which step of `RunLease` each kind is.

`StreamsOfThisRun` needs `Joined`: a connection without a receiving goroutine was never
bound to a multiplexer, and one that was bound is bound to a multiplexer of its run.
Otherwise a handler could enter a connection that another table still has.
`NobodyElseCloses` alone has a hypothesis beyond `RegistryConstants`. The code looks
connections up by the stream ID that the client sends, a "uuidv4" of its own by the
comment at `handler.go:108`, and does nothing to make sure of it: of two connections
with one ID the cleanup of the older one closes the newer one. `ClosedForCause` is what
holds for any IDs. The run `registry` has distinct IDs, `registry_live` one ID for all.

`MultiplexerProofs` proves, for any number of clients, requests and chunks of output and
any capacity of the three channels, from `MultiplexerConstants` alone:

| Theorem | Statement |
|---|---|
| `ResponsesHold` | `Spec => []ResponsesInv` |
| `StartsRecorded` | `Spec => []StartRecordedFirst` |
| `ResponsesRelayed` | `Spec => FifoResponses`, a refinement of `FifoRelay` |
| `RequestsRelayed` | `Spec => FifoRequests`, another one |

None of the properties is inductive. `MuxInv` adds:

- `Stages`: what each place of Execute, the sender and the read loops excludes of the
  others, and that `Wait` has reaped no more loops than have ended; so both are over
  when the exit code is sent;
- `Numbered`: the PID is the first response, and the exit code is sent only at the end;
- `ResponseFlow`: what was produced is what was relayed, what is in the channel and what
  the sender's goroutine has in its hands, in a line (`Line`);
- `Broadcast`: the client the broadcaster has still to write to has not got the response
  yet, and what a client has got was relayed;
- `Recording`: the tap is closed from the grace period on, so what is relayed later
  leaves the recording as it is and cannot open a gap in it;
- `Causes`: a context is cancelled from outside or because Execute has returned, and by
  then the sender is through;
- `Holding` and `RequestFlow`: the same line for requests, with the number of recorded
  starts equal to that of the Configs that left `authed`.

Payloads of other kinds enter `authed` and are dropped by `process`. That filtering
cannot be computed by the prover (`SelectSeq` is recursive), so `RequestFlow` says it by
counting: `Ranks` assigns each place of the channel the number of ExecuteRequests up to
it. `EnterRequest` and `LeaveRequest` show what an arrival and a departure make of the
ranks. `Changes` says once which variables each action may change; every lemma about a
part of the invariant starts from it and has to look at a few actions only.

`ExecutionProofs` proves, for any amount of output and any capacities, from
`ExecutionConstants` alone:

| Theorem | Statement |
|---|---|
| `OutputAccounted` | `Spec => []OutputInv` |
| `OutputRelays` | `Spec => OutputInOrder`, `FifoRelay` for each output |

`ExecInv` says where each chunk is (`Flow`: sent, read, in the buffer, in the copying
goroutine's hands or in the pipe), what the goroutines' places say of the stations
(`Stations`), what `Wait` has waited for (`Reaping`), and that the tail's writer holds the
end of what was read (`Capture`). `CapturedTail` is the lemma about
`tailCapWriter.Write`: it keeps the last `TailCap` bytes of everything, whether the piece
is longer than the capacity, or it and what is there overlap it. `NothingOvertaken` is
`Flow` for every output.

`RingBufferProofs` proves, for any disjoint sets of writers and readers and every
capacity, from `RingConstants` alone:

| Theorem | Statement |
|---|---|
| `WakeupsKept` | `Spec => [](TypeOK /\ NoMissedWakeup)` |
| `NothingDiscarded` | `Spec => []UnreadKept` |
| `EOFOnlyAtTheEnd` | `Spec => []EOFIsFinal` |
| `RingRelays` | `Spec => BytesInOrder`, the refinement of `FifoRelay` |
| `RingCorrect` | `Spec => []RingInv`, all of these and `PiecesInOrder` |

The first invariant is about the mutex (`WakeInv`). `NoMissedWakeup` needs
`CheckedIsCurrent`: between its look at the flag and its Wait a goroutine holds the
mutex (`MutexHeld`), so the Broadcast of a Close it did not see is still to come.
`EOFIsFinal` needs `DrainedAtEOF`: a writer that passed the check before Close would
hold the mutex, hence no reader can be told EOF until it has stored its piece.
`BytesLeft` says that a Write under way has something to store, so that no step
stores nothing. The second part (`ContentInv`) adds the content: `Positions`,
`PositionsAfterCopy`, `PositionsAfterTake` and `SlotFromR` do the arithmetic of the
wrap-around once, and `WriteCopyContent` and `ReadTakeContent` use it to show that
the unread bytes stay where they are and new ones go behind them.

`PiecesInOrder` rests on both: `WriteCopyPieces` shows that a piece that is stored
carries the numbers that follow what its writer has stored so far.

`SessionsProofs` proves, for any number of sessions, handlers and variables, any
requests and any effects of programs, from `SessionConstants` alone:

| Theorem | Statement |
|---|---|
| `SessionsKept` | `Spec => []SessionsInv` |
| `WholeOrNothing` | `Spec => []AllOrNothing` |
| `NothingIsUndone` | `Spec => OnlyOwnChanges` |
| `ListIsByUse` | `Spec => RecencySpec`, the refinement of `RecencyList` |

The inductive invariant (`SessionsInductive`) has four parts. `Listing` is the list:
no session twice, never more than the capacity, all of them created. `Typed` are the
types. `AddAlone` says that nobody else knows a session between its creation and its
listing; without it `AddSession` could list a session a second time, since `Add` does
not look. `Progress` is where the loops that store variables have come: what a
handler has still to merge is a part of its request, what it has still to collect is
a part of what its program has changed, and with what it has stored it is all of it.
The output stored under a known name passes through the same loop: `AgainTyped` and
`AgainNamed` say that what is stored again is the output under a known name, which
`OnlyOwnChanges` counts among a command's own. `AllOrNothing` follows because the loop ends early only at a value that is too large,
and `DiffItems` shows that a `Diff` never gives out one. `AddList`, `GetList` and
`DeleteList` say what each operation makes of the list; for the refinement
`OlderCons`, `OlderRemove` and `LastIsOldest` say what it makes of the order of use,
and `GetIsUse`, `DeleteIsLeave` and `AddIsEntry` map each call to its abstract step.

`SessionsProofs` also proves of `EnvCollector`, for environments of any size, from
`CollectorConstants` alone:

| Theorem | Statement |
|---|---|
| `DiffsAreExact` | `CollectorSpec => []CollectorInv`, `ExactDiff` among it |
| `UnopenedNeverPasses` | `CollectorSpec => []UnopenedIsRefused`, without encryption |
| `WholeDumpsAreAccepted` | `CollectorSpec => []CompleteIsAccepted` |

What makes them hold is the way of a dump (`Flow`): what was read and what is in the FIFO
is what the shell has dumped so far, and the sentinel comes behind it or not at all. That
is inductive because of `Phases`: Diff is called when the shell has ended, so that nobody
dumps behind a sentinel, and a reader ends only when its FIFO is empty and nobody has it
open. `Outcome` keeps what Diff has made of what was read, which does not change any more
(`ScansKept`). `Scanned` says what the scanner makes of a dump with and without the
sentinel, and `DifferenceIsExact` that the comparison name by name is the difference of
the environments as sets of pairs. `UnopenedNeverPasses` needs that a FIFO the shell has
not opened holds at most the sentinel (`Untouched`, kept by `UnopenedStep`), which
`readData` refuses.

`RunnerV1Proofs` also proves of `EnvMonitor`, for any number of monitors, commands and
changes, from `MonitorConstants` alone, `MonitorsKept`: `MonitorSpec => []MonitorInv`. The
invariant is inductive with one more part, `Subscribed`, which ties a monitor's place in the list
to the order in which it subscribes and leaves. Types are proved in two parts, `shown` and
all others (`OthersTyped`). A notification sends to the list as it
was under the read lock; that nobody of it is closed follows from `Locking`, for who
wants to leave needs the lock.

`RunnerV1Proofs` proves, for any amount of output and any sizes of the ring buffers, of a
read and of a variable, from `RunnerConstants` alone:

| Theorem | Statement |
|---|---|
| `LastResponseIsLast` | `Spec => []RunnerInv`, `ExitIsLast` and `StoredWhole` among it |
| `OutputIsRelayed` | `Spec => OutputRelay`, `FifoRelay` for each output |

In `RunInv`, `Flow` puts what the process wrote in a line behind what the client got;
when a send has failed what is behind is some sequence only. `Copying` is the
heart of `ExitIsLast`: a goroutine that copies is done only when its pipe or terminal is
empty and nobody is left to fill it, unless a ring buffer or the terminal was closed
under it. `Executing` excludes the first for as long as Execute waits; a terminal closed by a
request to stop makes `cleanup` fail, which `Whole` sees. `Stations` gives the rest of
the way: a read loop that is done left its ring buffer empty. `Capture` says that
`stdoutMem` and each variable are a beginning of what the client got, all of it or at least
as long as the limit (`Captured`), and that a variable of a store other than owl is all of
it; the order of Execute ties what is stored to what will not grow any more. For an owl
store `StoredWhole` promises no more than such a beginning.

`JupyterProxyProofs` proves, for any sets of requests and kernels, any number of restarts
of the Jupyter server and of messages, and any capacity of the websockets, from
`JupyterConstants` alone:

| Theorem | Statement |
|---|---|
| `RefusalsHaveCause` | `Spec => []RefusedForCause` |
| `MessagesAreRelayed` | `Spec => []JupyterInv`, `Relayed` among it |
| `AnsweringClientsAreKept` | `Spec => []AnsweringClientIsKept` |

The requests and the bridges share the places of a request only, so each has its invariant
(`BridgesApart`). `ServeInv` is about a request that nothing excuses: at every place it has
reached, what it has read of the file, or finds in the map, is the accepted token
(`Informed`), and if it was sent once before, with another one, it is sent with that one
now. So a second refusal has a cause. `BridgeInv` joins `Relayed`, which says of each
direction that what is on the wire carries on where the loop's hand is (`Carries`; pongs
may stand anywhere between the messages), with `Pending`, which says what a loop that is
about to write has still to write, and `PongDue`: as long as the loop could read, either
no ping is unanswered or its pong is on the wire. The deadline is three intervals away
then, for a ping is sent only after the loop has read what there is. `Unmade` says that
the loops of a bridge are off until its request is dialled, so it is made once.

The bounds of the runs (`Restarts`, `Messages`, `WireCap`) are constants, so the theorems
hold for all their values; `PongWait` and `ErrCap` are those of the code.

`SequenceFacts` holds the lemmas about sequences that these modules share, and the
least-number principle (`LeastOf`, `LastOf`), drawn from the well-foundedness of `<` on
the natural numbers since induction itself cannot be instantiated.

The theorems of one module may be about two components (`EnvCollector` beside `Sessions`,
`EnvMonitor` beside `RunnerV1`), whose definitions have different names; each is proved
from the assumptions of its own component.

Only model-checked is liveness, since fairness and `ENABLED` are out of the prover's
reach: `CancelledRunIsRemoved`, `ShutdownFinalizes`, `ExitCodeIsRelayed`,
`StartedRunCloses`, `NobodyIsHeldUp`, `AllGetOn`, `DiffReturns`, `NewestIsShownToEach`,
`EachMonitorEnds`, `UpdateReturns`, `ExecuteReturns`, `BridgeEnds` and
`SilentClientIsDropped`. Every invariant, action property and refinement that a passing
run checks is a theorem.

## Not modelled

- Content: what a request carries besides its kind, what output says, MIME types,
  encodings, IDs, logging and metrics.
- Pauses: the wait of 1/30 s after a send, the length of the grace period and of the
  inactivity timeout. A timer may fire at any time.
- Data races that the Go runtime turns into a crash (`Streams.error` iterating a map
  without its lock): the iteration is one step.
- `cmdWaitDelay` of commands linked to their parent, and background processes that
  keep an output open after the program's end.
- `RingBuffer.Reset` and the unexported `read`, which only tests call, and calls with
  an empty slice, which return at once.
- The limit of a whole environment, other than as a `Set` of the v1 runner that may fail;
  how the Owl store, a library, validates what it is given; and `ListSessions`, which only
  reads. `Session.Complete` and the `complete` of the v1
  stores are called by nobody.
- The choice of a session in the v1 runner and the other variables of its stores, window
  sizes, and `ResolveProgram`. The nul bytes that Execute takes out of the output it
  stores.
- The collector that uses files instead of FIFOs: it reads two files when the shell has
  ended. `virtualCommand.Wait` of the v2 commands, which closes its terminal as the v1
  command does.
- URLs, headers and routes of the Jupyter proxy.
- The project loader and Harbor, which do one thing after the other; the agent
  server's own shutdown, the authorization rules and the clients of the runner.
- Parsers, resolvers, configuration, command line, authentication and generated code
  transform text or talk to a user; nothing in them is concurrent or kept.

## Plan

What a passing run checks, other than liveness, is proved. What could be modelled next:

1. `ProjectLoad`: the event producers and the precedence of .env files.
2. The shutdown of the agent server above `RunRegistry`'s.
3. The choice of a session in the v1 runner, with the simple store's `updateStore`.

## Running

    tlc -workers 2 -config MCExecution.cfg MCExecution.tla
    tlapm RunRegistryProofs.tla

`PROJECT.json` maps each definition to the lines it stands for, and names for each
property of a passing run a mutant that violates it.

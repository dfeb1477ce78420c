------------------------------ MODULE RunnerV1 ------------------------------
(***************************************************************************)
(* runner/service.go and command.go: Execute of the runner service v1, from *)
(* the start of the process on.  The output of the process goes through a   *)
(* pipe per stream, or one pseudo-terminal, a goroutine that copies it into *)
(* a ring buffer, a read loop, the channel datac and the goroutine that     *)
(* sends to the client.                                                    *)
(*                                                                         *)
(* Output is a number of chunks per stream.  The ring buffer blocks its     *)
(* writer while it is full and, once closed, gives out what it holds        *)
(* (RingBuffer); that of the pipe counts as unbounded.                      *)
(***************************************************************************)
EXTENDS Integers, SequencesExt

CONSTANTS Chunks,    \* how much each stream of the process has, a bound
          RingSize,  \* chunks that a ring buffer holds: ringBufferSize
          ReadSize,  \* chunks that one read takes: msgBufferSize
          EnvSize,   \* chunks that a variable may have: maxEnvSize
          None

Streams == {"stdout", "stderr"}
Names == {"__", "known"}   \* of variables for the output: StoreStdoutEnvName, the known name

ASSUME RunnerConstants == /\ Chunks \in [Streams -> Nat]
                          /\ {RingSize, ReadSize, EnvSize} \subseteq Nat \ {0}
                          /\ None \notin Seq(Nat)

VARIABLES request,    \* of the call: tty, background, input; and store, the kind of store
                      \* that the session has if StoreLastOutput is on, "none" if not
          stream,     \* "up", or "down": the client cancelled, or is gone
          process,    \* "running", "ok", "failed"
          holders,    \* its descendants live on and have its output open
          written,    \* chunks written to each stream
          kernel,     \* those in the pipe or the pseudo-terminal
          ptyOpen,    \* the master of the pseudo-terminal is open
          copier,     \* the goroutine that fills a ring buffer: "copy", "done"
          stdinOpen,  \* stdinWriter is open
          feeder,     \* the goroutine that reads stdin for the process: "copy", "write", "done"
          input,      \* the goroutine that receives: "off", "first", "recv", "write", "done"
          ring,       \* unread chunks in each ring buffer
          ringClosed,
          loop,       \* a loop of readLoop: "off", "read", "send", "done"
          piece,      \* what it has read
          sender,     \* the goroutine that sends: "off", "recv", "send", "done", "failed"
          packet,     \* what it sends: a stream and its chunks
          mem,        \* stdoutMem
          got,        \* what the client got
          stored,     \* those variables of the session, as the call sets them
          handler,    \* Execute: "pid", "wait", "collect", "drain", "feeder", "join", "store",
                      \* "final", "returned"
          finalError, \* command.err
          final       \* the last response: "none", "sent", "failed"

output == <<written, kernel>>
command == <<process, holders, ptyOpen, copier, feeder>>
relay == <<ring, ringClosed, loop, piece>>
sending == <<sender, packet, mem, got>>
vars == <<request, stream, output, command, stdinOpen, input, relay, sending, stored, handler,
          finalError, final>>

\* A pseudo-terminal has one stream for all output.
Used == IF request.tty THEN {"stdout"} ELSE Streams

Init ==
  /\ request \in [tty : BOOLEAN, background : BOOLEAN, input : BOOLEAN,
                  store : {"none", "simple", "owl"}]
  /\ stream = "up" /\ process = "running" /\ holders = FALSE
  /\ written = [s \in Streams |-> 0] /\ kernel = [s \in Streams |-> <<>>]
  /\ ptyOpen = request.tty /\ stdinOpen = TRUE
  /\ copier = [s \in Streams |-> IF s \in Used THEN "copy" ELSE "done"] /\ feeder = "copy"
  /\ input = "off"
  /\ ring = [s \in Streams |-> <<>>] /\ ringClosed = FALSE
  /\ loop = [s \in Streams |-> "off"] /\ piece = [s \in Streams |-> <<>>]
  /\ sender = "off" /\ packet = None /\ mem = <<>> /\ got = [s \in Streams |-> <<>>]
  /\ stored = [n \in Names |-> None] /\ handler = "pid" /\ finalError = FALSE /\ final = "none"

-----------------------------------------------------------------------------
(* The process, its descendants and the client.                            *)

OutputOpen == process = "running" \/ holders

ProcessWrites(s) ==
  /\ OutputOpen /\ s \in Used /\ (request.tty => ptyOpen)
  /\ written[s] < Chunks[s]
  /\ written' = [written EXCEPT ![s] = @ + 1]
  /\ kernel' = [kernel EXCEPT ![s] = Append(@, written[s] + 1)]
  /\ UNCHANGED <<request, stream, command, stdinOpen, input, relay, sending, stored, handler,
                 finalError, final>>

ProcessExits == /\ process = "running"
                /\ process' \in {"ok", "failed"} /\ holders' \in BOOLEAN
                /\ UNCHANGED <<request, stream, output, ptyOpen, copier, stdinOpen, feeder,
                               input, relay, sending, stored, handler, finalError, final>>

DescendantsExit == /\ process # "running" /\ holders
                   /\ holders' = FALSE
                   /\ UNCHANGED <<request, stream, output, process, ptyOpen, copier, feeder,
                                  stdinOpen, input, relay, sending, stored, handler,
                                  finalError, final>>

StreamBreaks == /\ stream = "up" /\ handler # "returned"
                /\ stream' = "down"
                /\ UNCHANGED <<request, output, command, stdinOpen, input, relay, sending,
                               stored, handler, finalError, final>>

\* exec.CommandContext: the process, not its group, is killed when the context is done.
ContextKills == /\ stream = "down" /\ ~request.background /\ process = "running"
                /\ process' = "failed" /\ holders' \in BOOLEAN
                /\ UNCHANGED <<request, stream, output, ptyOpen, copier, stdinOpen, feeder,
                               input, relay, sending, stored, handler, finalError, final>>

-----------------------------------------------------------------------------
(* command.go: the goroutines of exec.Cmd, or of the pseudo-terminal.       *)

\* Mutant: a full ring buffer overwrites what was not read.
CopyOverwrites(s) ==
  /\ copier[s] = "copy" /\ kernel[s] # <<>> /\ ~ringClosed
  /\ request.tty => ptyOpen
  /\ ring' = [ring EXCEPT ![s] = Append(IF Len(@) < RingSize THEN @ ELSE Tail(@),
                                        Head(kernel[s]))]
  /\ kernel' = [kernel EXCEPT ![s] = Tail(@)]
  /\ UNCHANGED <<request, stream, written, command, stdinOpen, input, ringClosed, loop, piece,
                 sending, stored, handler, finalError, final>>
Copy(s) == /\ copier[s] = "copy" /\ kernel[s] # <<>> /\ ~ringClosed
           /\ request.tty => ptyOpen
           /\ Len(ring[s]) < RingSize
           /\ ring' = [ring EXCEPT ![s] = Append(@, Head(kernel[s]))]
           /\ kernel' = [kernel EXCEPT ![s] = Tail(@)]
           /\ UNCHANGED <<request, stream, written, command, stdinOpen, input, ringClosed,
                          loop, piece, sending, stored, handler, finalError, final>>

\* EOF, EIO or ErrClosed of what it reads, or ErrClosed of the ring buffer.
CopyEnds(s) == /\ copier[s] = "copy"
               /\ \/ kernel[s] = <<>> /\ ~OutputOpen
                  \/ request.tty /\ ~ptyOpen
                  \/ ringClosed
               /\ copier' = [copier EXCEPT ![s] = "done"]
               /\ UNCHANGED <<request, stream, output, process, holders, ptyOpen, stdinOpen,
                              feeder, input, relay, sending, stored, handler, finalError,
                              final>>

FeederEnds == /\ feeder = "copy" /\ ~stdinOpen
              /\ feeder' = "done"
              /\ UNCHANGED <<request, stream, output, process, holders, ptyOpen, copier,
                             stdinOpen, input, relay, sending, stored, handler, finalError,
                             final>>

\* The process, or a descendant, takes what the feeder has read, or there is room for it.
FeederWrites == /\ feeder = "write" /\ OutputOpen /\ (request.tty => ptyOpen)
                /\ feeder' = "copy"
                /\ UNCHANGED <<request, stream, output, process, holders, ptyOpen, copier,
                               stdinOpen, input, relay, sending, stored, handler, finalError,
                               final>>

\* There is nobody to write it to.  exec.Cmd takes that for the end; with a pseudo-terminal
\* it is an error of the command.
FeederBreaks == /\ feeder = "write"
                /\ process # "running" \/ (request.tty /\ ~ptyOpen)
                /\ feeder' = "done"
                /\ finalError' = (finalError \/ request.tty)
                /\ UNCHANGED <<request, stream, output, process, holders, ptyOpen, copier,
                               stdinOpen, input, relay, sending, stored, handler, final>>

-----------------------------------------------------------------------------
(* The goroutine that receives: input, a request to stop, or the end.       *)

\* Without a terminal the first input is all there is.
InputStart == /\ input = "first"
              /\ input' = "recv" /\ stdinOpen' = (stdinOpen /\ request.tty)
              /\ UNCHANGED <<request, stream, output, command, relay, sending, stored, handler,
                             finalError, final>>

InputData == /\ input = "recv" /\ stream = "up"
             /\ input' = "write"
             /\ UNCHANGED <<request, stream, output, command, stdinOpen, relay, sending, stored,
                            handler, finalError, final>>

\* A write to the pipe of stdin waits until the feeder reads it, who may be waiting for the
\* process to take earlier input; only then is the next request looked at, one to stop
\* among them.
InputTaken == /\ input = "write" /\ stdinOpen /\ feeder = "copy"
              /\ input' = "recv" /\ stdinOpen' = request.tty
              /\ feeder' = "write"
              /\ UNCHANGED <<request, stream, output, process, holders, ptyOpen, copier, relay,
                             sending, stored, handler, finalError, final>>

InputRefused == /\ input = "write" /\ ~stdinOpen
                /\ input' = "done"
                /\ UNCHANGED <<request, stream, output, command, stdinOpen, relay, sending,
                               stored, handler, finalError, final>>

\* The client closed its direction, or the stream is cancelled.
InputEnds == /\ input = "recv"
             /\ input' = "done" /\ stdinOpen' = FALSE
             /\ UNCHANGED <<request, stream, output, command, relay, sending, stored, handler,
                            finalError, final>>

\* A request to stop, or an error of Recv.  command.stop: a terminal is closed, and the
\* process group gets the signal.  SIGKILL ends it; what SIGINT does is up to it.
Stop == /\ input = "recv" /\ stream = "up"
        /\ input' = "done" /\ stdinOpen' = FALSE
        /\ ptyOpen' = FALSE
        /\ \/ UNCHANGED <<process, holders>>
           \/ /\ process' = IF process = "running" THEN "failed" ELSE process
              /\ holders' = FALSE
        /\ UNCHANGED <<request, stream, output, copier, feeder, relay, sending, stored, handler,
                       finalError, final>>

-----------------------------------------------------------------------------
(* readLoop, and the goroutine that sends.                                 *)

Read(s) == /\ loop[s] = "read" /\ ring[s] # <<>>
           /\ LET n == Min({ReadSize, Len(ring[s])}) IN
                /\ piece' = [piece EXCEPT ![s] = SubSeq(ring[s], 1, n)]
                /\ ring' = [ring EXCEPT ![s] = SubSeq(@, n + 1, Len(@))]
           /\ loop' = [loop EXCEPT ![s] = "send"]
           /\ UNCHANGED <<request, stream, output, command, stdinOpen, input, ringClosed,
                          sending, stored, handler, finalError, final>>

ReadEOF(s) == /\ loop[s] = "read" /\ ring[s] = <<>> /\ ringClosed
              /\ loop' = [loop EXCEPT ![s] = "done"]
              /\ UNCHANGED <<request, stream, output, command, stdinOpen, input, ring,
                             ringClosed, piece, sending, stored, handler, finalError, final>>

\* datac has no buffer.
Pass(s) == /\ loop[s] = "send" /\ sender = "recv"
           /\ sender' = "send" /\ packet' = [stream |-> s, data |-> piece[s]]
           /\ loop' = [loop EXCEPT ![s] = "read"] /\ piece' = [piece EXCEPT ![s] = <<>>]
           /\ UNCHANGED <<request, stream, output, command, stdinOpen, input, ring, ringClosed,
                          mem, got, stored, handler, finalError, final>>

Send == /\ sender = "send" /\ stream = "up"
        /\ got' = [got EXCEPT ![packet.stream] = @ \o packet.data]
        /\ mem' = IF request.store # "none" /\ packet.stream = "stdout" /\ Len(mem) < EnvSize
                  THEN mem \o packet.data ELSE mem
        /\ sender' = "recv" /\ packet' = None
        /\ UNCHANGED <<request, stream, output, command, stdinOpen, input, relay, stored,
                       handler, finalError, final>>

SendFails == /\ sender = "send" /\ stream = "down"
             /\ sender' = "failed" /\ packet' = None
             /\ UNCHANGED <<request, stream, output, command, stdinOpen, input, relay, mem, got,
                            stored, handler, finalError, final>>

\* readLoop has returned and datac is closed.
SenderEnds == /\ sender = "recv" /\ \A s \in Streams : loop[s] = "done"
              /\ sender' = "done"
              /\ UNCHANGED <<request, stream, output, command, stdinOpen, input, relay, packet,
                             mem, got, stored, handler, finalError, final>>

-----------------------------------------------------------------------------
(* Execute.                                                                *)

SendPid == /\ handler = "pid" /\ stream = "up"
           /\ handler' = "wait" /\ sender' = "recv"
           /\ input' = IF request.input THEN "write" ELSE "first"
           /\ loop' = [s \in Streams |-> "read"]
           /\ UNCHANGED <<request, stream, output, command, stdinOpen, ring, ringClosed, piece,
                          packet, mem, got, stored, finalError, final>>

\* Execute leaves the process behind; nobody waits for it.
SendPidFails == /\ handler = "pid" /\ stream = "down"
                /\ handler' = "returned" /\ ringClosed' = TRUE
                /\ UNCHANGED <<request, stream, output, command, stdinOpen, input, ring, loop,
                               piece, sending, stored, finalError, final>>

\* ProcessWait: exec.Cmd also waits for the goroutines that copy, without a terminal for
\* all of them.  Then stdin is closed.
Waited == /\ process # "running"
          /\ ~request.tty => feeder = "done" /\ \A s \in Streams : copier[s] = "done"
\* Mutant: stdin stays open.
ProcessWaitOnly == /\ handler = "wait" /\ Waited
                   /\ handler' = "collect"
                   /\ UNCHANGED <<request, stream, output, command, stdinOpen, input, relay,
                                  sending, stored, finalError, final>>
ProcessWait == /\ handler = "wait" /\ Waited
               /\ handler' = "collect" /\ stdinOpen' = FALSE
               /\ UNCHANGED <<request, stream, output, command, input, relay, sending, stored,
                              finalError, final>>

\* Finalize: the environment is collected after success, and that may fail.
CollectEnvs == /\ handler = "collect"
               /\ handler' = "drain"
               /\ finalError' \in IF process = "ok" THEN {finalError, TRUE} ELSE {finalError}
               /\ UNCHANGED <<request, stream, output, command, stdinOpen, input, relay,
                              sending, stored, final>>

\* ptyOutWg.Wait, and cleanup, for which it is an error that the terminal is closed already.
\* Mutant: cleanup does not wait for the output.
DrainedEarly == TRUE
Drained == request.tty => copier["stdout"] = "done"
Cleanup == /\ handler = "drain" /\ Drained
           /\ handler' = "feeder" /\ ptyOpen' = FALSE
           /\ finalError' = (finalError \/ (request.tty /\ ~ptyOpen))
           /\ UNCHANGED <<request, stream, output, process, holders, copier, feeder, stdinOpen,
                          input, relay, sending, stored, final>>

\* ptyInWg.Wait.  An error after success ends the call, and with it the stream, without an
\* exit code.  The buffers are closed, at the end of the call if not before.
Finalized == /\ handler = "feeder"
             /\ request.tty => feeder = "done"
             /\ ringClosed' = TRUE
             /\ IF finalError /\ process = "ok"
                THEN handler' = "returned" /\ stream' = "down"
                ELSE handler' = "join" /\ UNCHANGED stream
             /\ UNCHANGED <<request, output, command, stdinOpen, input, ring, loop,
                            piece, sending, stored, finalError, final>>

\* g.Wait.
Join == /\ handler = "join"
        /\ sender \in {"done", "failed"} /\ \A s \in Streams : loop[s] = "done"
        /\ handler' = "store"
        /\ UNCHANGED <<request, stream, output, command, stdinOpen, input, relay, sending,
                       stored, finalError, final>>

\* Session.SetEnv, under both names if the known one conforms.  The simple store refuses
\* what makes the environment too large, with the names, the separators and the other
\* variables.  An owl store does not look at the size, and may refuse for its own reasons.
\* Mutant: the simple store takes whatever it is given.
FitAlways(names) == TRUE
Fit(names) == /\ names # {} => Len(mem) < EnvSize
              /\ names = Names => Len(mem) + Len(mem) < EnvSize
Store == /\ handler = "store" /\ handler' = "final"
         /\ \E names \in SUBSET Names :
              /\ request.store = "none" => names = {}
              /\ request.store = "simple" => Fit(names)
              /\ stored' = [n \in Names |-> IF n \in names THEN mem ELSE stored[n]]
         /\ UNCHANGED <<request, stream, output, command, stdinOpen, input, relay, sending,
                        finalError, final>>

SendFinal == /\ handler = "final" /\ handler' = "returned"
             /\ final' = IF stream = "up" THEN "sent" ELSE "failed"
             /\ UNCHANGED <<request, stream, output, command, stdinOpen, input, relay, sending,
                            stored, finalError>>

-----------------------------------------------------------------------------
CopyStep(s) == Copy(s) \/ CopyEnds(s)
FeederStep == FeederEnds \/ FeederBreaks
InputStep == InputStart \/ InputTaken \/ InputRefused
LoopStep(s) == Read(s) \/ ReadEOF(s) \/ Pass(s)
SenderStep == Send \/ SendFails \/ SenderEnds
HandlerStep == \/ SendPid \/ SendPidFails \/ ProcessWait \/ CollectEnvs \/ Cleanup
               \/ Finalized \/ Join \/ Store \/ SendFinal

Next == \/ ProcessExits \/ DescendantsExit \/ StreamBreaks \/ ContextKills
        \/ \E s \in Streams : ProcessWrites(s) \/ CopyStep(s) \/ LoopStep(s)
        \/ FeederStep \/ FeederWrites \/ InputStep \/ InputData \/ InputEnds \/ Stop
        \/ SenderStep \/ HandlerStep

Spec == Init /\ [][Next]_vars

\* Goroutines get on.  Nothing is assumed of the process, which need not read its input
\* either, its descendants and the client.
Fairness == /\ WF_vars(FeederStep) /\ WF_vars(InputStep) /\ WF_vars(SenderStep)
            /\ WF_vars(HandlerStep)
            /\ \A s \in Streams : WF_vars(CopyStep(s)) /\ WF_vars(LoopStep(s))
FairSpec == Spec /\ Fairness
=============================================================================

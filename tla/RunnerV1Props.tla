--------------------------- MODULE RunnerV1Props ----------------------------
(***************************************************************************)
(* Correctness of the calls of Execute specified in RunnerV1.               *)
(***************************************************************************)
EXTENDS RunnerV1

\* What the client got of each stream is what the process wrote to it, in that order and
\* each chunk once, through the pipe or terminal, the ring buffer, the read loop and the
\* sender; what is lost is lost at the end.
Numbered(n) == [i \in 1..n |-> i]
StdoutRelay == INSTANCE FifoRelay WITH inp <- Numbered(written["stdout"]), out <- got["stdout"]
StderrRelay == INSTANCE FifoRelay WITH inp <- Numbered(written["stderr"]), out <- got["stderr"]
OutputRelay == StdoutRelay!RelaySpec /\ StderrRelay!RelaySpec

\* Nothing was cut off: the terminal was not closed under the output by a request to stop.
Whole == request.tty => ~finalError

\* A client that gets the last response has got all output before it ("Let the PTY output
\* reader drain before cleanup closes the PTY master"; Execute closes the buffers and waits
\* for the goroutines before it sends the exit code).
ExitIsLast == (final = "sent" /\ Whole /\ sender = "done") =>
                \A s \in Streams : Len(got[s]) = written[s]

\* A variable holds the standard output that the client got, from its beginning.  It may
\* be a cut only in an owl store, which does not look at the size, and only at the limit
\* that Execute puts on what it keeps; the simple store refuses such an output
\* (service.go, stdoutMem; envStore.Set; owlEnvStorer.setEnv).
StoredWhole ==
  \A n \in Names : stored[n] # None =>
    /\ IsPrefix(stored[n], got["stdout"])
    /\ \/ stored[n] = got["stdout"]
       \/ request.store = "owl" /\ Len(stored[n]) >= EnvSize

\* The variables have their types, a ring buffer and a read their bounds.
TypeOK ==
  /\ request \in [tty : BOOLEAN, background : BOOLEAN, input : BOOLEAN,
                  store : {"none", "simple", "owl"}]
  /\ stream \in {"up", "down"} /\ process \in {"running", "ok", "failed"}
  /\ {holders, ptyOpen, stdinOpen, ringClosed, finalError} \subseteq BOOLEAN
  /\ \A s \in Streams :
       /\ written[s] \in 0..Chunks[s] /\ Len(ring[s]) <= RingSize
       /\ Len(piece[s]) <= ReadSize
       /\ copier[s] \in {"copy", "done"} /\ loop[s] \in {"off", "read", "send", "done"}
  /\ feeder \in {"copy", "write", "done"} /\ input \in {"off", "first", "recv", "write", "done"}
  /\ sender \in {"off", "recv", "send", "done", "failed"}
  /\ handler \in {"pid", "wait", "collect", "drain", "feeder", "join", "store", "final",
                  "returned"}
  /\ final \in {"none", "sent", "failed"}

RunnerInv == TypeOK /\ ExitIsLast /\ StoredWhole

\* Execute returns once the process and its descendants are gone, whatever the client sent
\* and whatever blocks on its input, unless a response could not be sent.
ExecuteReturns == (process # "running" /\ ~holders) ~> (handler = "returned" \/ sender = "failed")
=============================================================================

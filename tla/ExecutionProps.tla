--------------------------- MODULE ExecutionProps ---------------------------
(***************************************************************************)
(* Correctness of the output of one command, specified in Execution.       *)
(***************************************************************************)
EXTENDS Execution

\* Through a pipe, a copying goroutine and a buffer shared by two goroutines, what is
\* sent of an output is what the command wrote, in that order, nothing twice
\* (execution.readSendLoop, buffer.Write and buffer.Read).
StdoutRelay == INSTANCE FifoRelay WITH inp <- made["stdout"], out <- sent["stdout"]
StderrRelay == INSTANCE FifoRelay WITH inp <- made["stderr"], out <- sent["stderr"]
OutputInOrder == StdoutRelay!RelaySpec /\ StderrRelay!RelaySpec

\* When Wait goes on to its deferred call both loops are over, on every way out of it:
\* the tailCapWriter, "not safe for concurrent use", is read after its last write, and
\* no output follows the exit code (execution.Wait).
LoopsEndBeforeWait == wait \in {"store", "returned"} => Ended = Outs

\* What is stored in the session is the end of what was read from stdout, the part
\* that could not be sent included, and under the known name the same or nothing
\* (tailCapWriter.Write, storeOutputInEnv).
StoredIsTail ==
  wait = "returned" => /\ env = LastN(sent["stdout"] \o data["stdout"], TailCap)
                       /\ known \in {env, <<>>}

\* Nothing is dropped or overtaken on the way: what the command wrote is what was sent
\* and, behind it, what the stations hold. What they hold when the loop is over is lost;
\* that an end without an error leaves nothing is OutputIsDrained.
NothingOvertaken ==
  \A o \in Outs : made[o] = sent[o] \o (data[o] \o (buf[o] \o (hand[o] \o pipe[o])))

\* The output of a command is accounted for: it is in order wherever it is, and what is
\* captured and stored was read before Wait went on.
OutputInv == TypeOK /\ LoopsEndBeforeWait /\ StoredIsTail /\ NothingOvertaken

\* Nobody who stops reading stops the program: whatever became of the client and of
\* the loop, what the program wrote is taken out of its pipe.
ProgramIsNeverBlocked ==
  \A o \in Outs : (Len(pipe[o]) = PipeCap) ~> (Len(pipe[o]) < PipeCap)

\* Wait returns once the program is gone, unless the request is cancelled meanwhile.
WaitReturns == (prog = "exited") ~> (wait = "returned" \/ cancelled)

\* Neither the program nor Execute is held up by the other.
NobodyIsHeldUp == ProgramIsNeverBlocked /\ WaitReturns

-----------------------------------------------------------------------------
(* What a test of the code says and the code does not do.                  *)

\* "Read drains buffered data before EOF" (buffer_test.go): a loop that ends without an
\* error has sent the whole output. It has not when a last Write and Close come between
\* the Read that found the buffer empty and its look at the flag (buffer.go:79).
OutputIsDrained == \A o \in Outs : loop[o] = "ended" => sent[o] = made[o]
=============================================================================

-------------------------- MODULE MultiplexerProps --------------------------
(***************************************************************************)
(* Correctness of one run of the agent, specified in Multiplexer.          *)
(***************************************************************************)
EXTENDS Multiplexer

-----------------------------------------------------------------------------
(* Order.                                                                  *)

\* Between the goroutines of the clients and the runner's Recv there are two
\* channels and the process loop: every ExecuteRequest comes out once, and in the
\* order in which the requests were authorized (multiplexer.go, process).
RequestRelay == INSTANCE FifoRelay WITH inp <- accepted, out <- taken
FifoRequests == RequestRelay!RelaySpec

\* What the two read loops and Execute send goes through the sender's goroutine and
\* ExecuteResponses; broadcastResponses takes it once and in that order, whatever
\* becomes of the run (service_execute.go, executeResponseStreamSender).
ResponseRelay == INSTANCE FifoRelay WITH inp <- produced, out <- relayed
FifoResponses == ResponseRelay!RelaySpec

\* A client sees a part of what broadcastResponses took, in its order: nothing twice,
\* nothing that was not handed to the tap first.
DeliveredInOrder ==
  \A s \in Streams :
    /\ \A i, j \in 1..Len(got[s]) : i < j => got[s][i].n < got[s][j].n
    /\ \A i \in 1..Len(got[s]) : got[s][i] \in ToSet(relayed)

\* What CloseTap cuts off is the end of the run: the recording is all that
\* broadcastResponses has taken, and after Close the beginning of it, so that no output
\* is missing before something that was recorded (multiplexer.go, close).
RecordingHasNoGap ==
  /\ tap # "closed" => recorded = relayed
  /\ Len(recorded) <= Len(relayed)
  /\ \A i \in 1..Len(recorded) : recorded[i] = relayed[i]

\* The recording has a CommandStart for every Config the runner has received, so no
\* output is recorded ahead of the command it belongs to.
StartRecordedFirst ==
  Cardinality({i \in 1..Len(taken) : taken[i].kind = "config"}) <= commands

\* The exit code is the last response of a run, whichever of the two outputs was
\* slower (execution.Wait waits for both read loops).
ExitCodeIsLast ==
  \A i \in 1..Len(produced) : produced[i].kind = "exit" => i = Len(produced)

-----------------------------------------------------------------------------
(* Ending a run.                                                           *)

\* A run that ends by itself never sends on the channel that close closes: Execute
\* returns, and the context is cancelled, only when the sender is done.
NormalEndIsClean == crashed => external

\* The responses of a run: the variables have their types, channels their capacities,
\* clients their part of the responses, the recording has no gap, the exit code is last,
\* and a normal end is clean.
ResponsesInv == /\ TypeOK /\ DeliveredInOrder /\ RecordingHasNoGap
                /\ ExitCodeIsLast /\ NormalEndIsClean

\* The final response of a run that ended reaches broadcastResponses, and so the tap and
\* the clients, although the end cancels the context and closes the channel it travels
\* through. The tap may be closed by then: see CompleteRecording.
ExitCodeIsRelayed ==
  (produced # <<>> /\ Last(produced).kind = "exit")
    ~> (crashed \/ (relayed # <<>> /\ Last(relayed).kind = "exit"))

\* Once the program runs a cancelled run reaches the end of its close path, even
\* when it was cancelled with every channel full and the program not reading its
\* input.
StartedRunCloses == (cancelled /\ rcv # "none") ~> (proc = "done" \/ crashed)

-----------------------------------------------------------------------------
(* What comments of the code say and the code does not do.                 *)

\* "An error is returned if the stream was terminated unexpectedly" (processor.go,
\* Send): sending does not bring the process down.
SendNeverPanics == ~crashed

\* "Close finalizes the recording" (tap.go): nothing is handed to the tap after it.
\* Nobody waits for broadcastResponses before CloseTap, so output and the end of the
\* command may come later even when a run ends by itself.
CompleteRecording ==
  \A i \in Len(recorded) + 1 .. Len(relayed) : relayed[i].kind = "pid"
=============================================================================

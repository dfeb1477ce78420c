------------------------------ MODULE Execution -----------------------------
(***************************************************************************)
(* execution.Wait of the v2 runner service (execution.go): how the output  *)
(* of a command gets to the response sender, and when the command is over. *)
(*                                                                         *)
(*   program -> pipe -> io.Copy -> buffer (buffer.go) -> readSendLoop      *)
(*                                             -> send, tailCapWriter      *)
(*                                                                         *)
(* There is one such chain for stdout and one for stderr.  Multiplexer has *)
(* the same two loops as one step each; this module is what is inside.     *)
(***************************************************************************)
EXTENDS Naturals, SequencesExt

CONSTANTS MaxChunks,  \* bound: chunks the program writes, by output
          PipeCap,    \* chunks that fit between the program and io.Copy
          TailCap,    \* capacity of the tailCapWriter
          Flaky       \* whether the response stream may break

Outs == {"stdout", "stderr"}

ASSUME ExecutionConstants ==
  /\ MaxChunks \in [Outs -> Nat]
  /\ PipeCap \in Nat \ {0} /\ TailCap \in Nat /\ Flaky \in BOOLEAN

VARIABLES
  prog, failed,  \* the program; it ended with an error
  cancelled,     \* the context of the request is done
  broken,        \* the response sender has stopped with an error
  pipe,          \* what the command has not handed to io.Copy yet
  copier, hand,  \* the goroutine of io.Copy and the chunk it carries
  buf,           \* buffer.b
  closed, woken, \* buffer.closed, and the channel buffer.close is closed
  loop, data,    \* readSendLoop inside buffer.Read or send, what it read
  tail,          \* tailCapWriter.buf
  env, known,    \* what was stored in the session: __, and under the known name
  wait, reaped,  \* Wait, and the loops whose end it has taken from readSendDone
  result,        \* the error Wait is to return
  made, sent     \* history: what the program wrote, what was sent

progVars == <<prog, failed, cancelled, broken, made>>
pipeVars == <<pipe, copier, hand>>
bufVars == <<buf, closed, woken>>
loopVars == <<loop, data, tail, sent>>
waitVars == <<wait, reaped, result, env, known>>
vars == <<progVars, pipeVars, bufVars, loopVars, waitVars>>

\* The chunks of an output are numbered as the program writes them.
Chunks == Seq(Nat)

TypeOK ==
  /\ prog \in {"running", "exited"}
  /\ {failed, cancelled, broken} \subseteq BOOLEAN
  /\ pipe \in [Outs -> Chunks] /\ \A o \in Outs : Len(pipe[o]) <= PipeCap
  /\ copier \in [Outs -> {"read", "store", "notify", "close", "wake", "done"}]
  /\ hand \in [Outs -> Chunks] /\ buf \in [Outs -> Chunks]
  /\ {closed, woken} \subseteq [Outs -> BOOLEAN]
  /\ loop \in [Outs -> {"read", "check", "select", "parked", "send", "ended", "failed"}]
  /\ {data, made, sent} \subseteq [Outs -> Chunks]
  /\ tail \in Chunks /\ Len(tail) <= TailCap
  /\ {env, known} \subseteq Chunks
  /\ wait \in {"command", "close", "final", "drain", "store", "returned"}
  /\ reaped \subseteq Outs
  /\ result \in {"nil", "command", "context", "send"}

NoChunks == [o \in Outs |-> <<>>]

Init ==
  /\ prog = "running" /\ failed = FALSE /\ cancelled = FALSE /\ broken = FALSE
  /\ pipe = NoChunks /\ hand = NoChunks /\ buf = NoChunks /\ data = NoChunks
  /\ made = NoChunks /\ sent = NoChunks
  /\ copier = [o \in Outs |-> "read"] /\ loop = [o \in Outs |-> "read"]
  /\ closed = [o \in Outs |-> FALSE] /\ woken = [o \in Outs |-> FALSE]
  /\ tail = <<>> /\ env = <<>> /\ known = <<>>
  /\ wait = "command" /\ reaped = {} /\ result = "nil"

-----------------------------------------------------------------------------
(* The command, and what happens to it from outside.                       *)

ProgramWrites(o) ==
  /\ prog = "running" /\ Len(made[o]) < MaxChunks[o] /\ Len(pipe[o]) < PipeCap
  /\ made' = [made EXCEPT ![o] = Append(@, Len(@) + 1)]
  /\ pipe' = [pipe EXCEPT ![o] = Append(@, Len(made[o]) + 1)]
  /\ UNCHANGED <<prog, failed, cancelled, broken, copier, hand, bufVars, loopVars,
                 waitVars>>

ProgramExits ==
  /\ prog = "running"
  /\ prog' = "exited" /\ failed' \in BOOLEAN
  /\ UNCHANGED <<cancelled, broken, made, pipeVars, bufVars, loopVars, waitVars>>

\* The client or the multiplexer cancels the request.
Cancel ==
  /\ ~cancelled /\ cancelled' = TRUE
  /\ UNCHANGED <<prog, failed, broken, made, pipeVars, bufVars, loopVars, waitVars>>

\* srv.Send fails: the sender's goroutine ends, and every later send fails.
StreamBreaks ==
  /\ Flaky /\ ~broken /\ broken' = TRUE
  /\ UNCHANGED <<prog, failed, cancelled, made, pipeVars, bufVars, loopVars, waitVars>>

-----------------------------------------------------------------------------
(* The goroutine that copies an output into its buffer.                    *)

\* io.Copy reads the next chunk, or the end of a pipe that is closed.
CopyRead(o) ==
  /\ copier[o] = "read"
  /\ \/ /\ pipe[o] # <<>>
        /\ hand' = [hand EXCEPT ![o] = <<Head(pipe[o])>>]
        /\ pipe' = [pipe EXCEPT ![o] = Tail(@)]
        /\ copier' = [copier EXCEPT ![o] = "store"]
     \/ /\ pipe[o] = <<>> /\ wait \notin {"command", "close"}
        /\ copier' = [copier EXCEPT ![o] = "close"]
        /\ UNCHANGED <<pipe, hand>>
  /\ UNCHANGED <<progVars, bufVars, loopVars, waitVars>>

\* Mutant: the chunk replaces what has not been read.
CopyOverwrites(o) ==
  /\ copier[o] = "store"
  /\ buf' = [buf EXCEPT ![o] = hand[o]]
  /\ hand' = [hand EXCEPT ![o] = <<>>]
  /\ copier' = [copier EXCEPT ![o] = "notify"]
  /\ UNCHANGED <<progVars, pipe, closed, woken, loopVars, waitVars>>

\* Mutant: nothing is stored for a loop that has failed.
CopyStoreForReader(o) ==
  /\ copier[o] = "store" /\ loop[o] # "failed"
  /\ buf' = [buf EXCEPT ![o] = @ \o hand[o]]
  /\ hand' = [hand EXCEPT ![o] = <<>>]
  /\ copier' = [copier EXCEPT ![o] = "notify"]
  /\ UNCHANGED <<progVars, pipe, closed, woken, loopVars, waitVars>>

\* buffer.Write, under the mutex. Only this goroutine closes the buffer, after its
\* last Write, so Write never finds it closed.
CopyStore(o) ==
  /\ copier[o] = "store"
  /\ buf' = [buf EXCEPT ![o] = @ \o hand[o]]
  /\ hand' = [hand EXCEPT ![o] = <<>>]
  /\ copier' = [copier EXCEPT ![o] = "notify"]
  /\ UNCHANGED <<progVars, pipe, closed, woken, loopVars, waitVars>>

\* A reader parked in its select goes back to read.
WakeReader(o) == loop' = [loop EXCEPT ![o] = IF @ = "parked" THEN "read" ELSE @]

\* The non-blocking send on buffer.more reaches a reader only when it is parked.
CopyNotify(o) ==
  /\ copier[o] = "notify"
  /\ WakeReader(o)
  /\ copier' = [copier EXCEPT ![o] = "read"]
  /\ UNCHANGED <<progVars, pipe, hand, bufVars, data, tail, sent, waitVars>>

\* buffer.Close: the flag first, then the channel.
CopyClose(o) ==
  /\ copier[o] = "close"
  /\ closed' = [closed EXCEPT ![o] = TRUE]
  /\ copier' = [copier EXCEPT ![o] = "wake"]
  /\ UNCHANGED <<progVars, pipe, hand, buf, woken, loopVars, waitVars>>

CopyWake(o) ==
  /\ copier[o] = "wake"
  /\ woken' = [woken EXCEPT ![o] = TRUE]
  /\ WakeReader(o)
  /\ copier' = [copier EXCEPT ![o] = "done"]
  /\ UNCHANGED <<progVars, pipe, hand, buf, closed, data, tail, sent, waitVars>>

-----------------------------------------------------------------------------
(* readSendLoop.                                                           *)

LastN(s, n) == IF Len(s) <= n THEN s ELSE SubSeq(s, Len(s) - n + 1, Len(s))

\* tailCapWriter.Write: a write that fills the capacity replaces what was there,
\* a smaller one pushes the oldest bytes out.
Captured(old, p) == IF Len(p) >= TailCap THEN LastN(p, TailCap)
                    ELSE LastN(old \o p, TailCap)

\* buffer.Read, first part: the mutex is taken and given back. The loop's slice takes
\* some of what is there, or all; the callback of the stdout loop captures it.
ReadBuffer(o) ==
  /\ loop[o] = "read"
  /\ IF buf[o] # <<>>
     THEN \E n \in 1..Len(buf[o]) :
            /\ data' = [data EXCEPT ![o] = SubSeq(buf[o], 1, n)]
            /\ buf' = [buf EXCEPT ![o] = SubSeq(@, n + 1, Len(@))]
            /\ loop' = [loop EXCEPT ![o] = "send"]
            /\ tail' = IF o = "stdout" THEN Captured(tail, SubSeq(buf[o], 1, n)) ELSE tail
     ELSE loop' = [loop EXCEPT ![o] = "check"] /\ UNCHANGED <<data, buf, tail>>
  /\ UNCHANGED <<progVars, pipeVars, closed, woken, sent, waitVars>>

\* The buffer was empty a moment ago: is it closed?
ReadCheck(o) ==
  /\ loop[o] = "check"
  /\ loop' = [loop EXCEPT ![o] = IF closed[o] THEN "ended" ELSE "select"]
  /\ UNCHANGED <<progVars, pipeVars, bufVars, data, tail, sent, waitVars>>

\* One look at both channels: closed, or parked until a notification.
ReadSelect(o) ==
  /\ loop[o] = "select"
  /\ loop' = [loop EXCEPT ![o] = IF woken[o] THEN "read" ELSE "parked"]
  /\ UNCHANGED <<progVars, pipeVars, bufVars, data, tail, sent, waitVars>>

SendChunk(o) ==
  /\ loop[o] = "send" /\ ~broken
  /\ sent' = [sent EXCEPT ![o] = @ \o data[o]]
  /\ data' = [data EXCEPT ![o] = <<>>]
  /\ loop' = [loop EXCEPT ![o] = "read"]
  /\ UNCHANGED <<progVars, pipeVars, bufVars, tail, waitVars>>

\* The loop ends with an error; its buffer is filled on, and read no more.
SendFails(o) ==
  /\ loop[o] = "send" /\ (broken \/ cancelled)
  /\ loop' = [loop EXCEPT ![o] = "failed"]
  /\ UNCHANGED <<progVars, pipeVars, bufVars, data, tail, sent, waitVars>>

-----------------------------------------------------------------------------
(* Wait.                                                                   *)

\* Cmd.Wait returns when the program is gone and all it wrote has been copied to
\* the pipes.
CommandDone ==
  /\ wait = "command" /\ prog = "exited" /\ \A o \in Outs : pipe[o] = <<>>
  /\ wait' = "close"
  /\ result' = IF failed THEN "command" ELSE "nil"
  /\ UNCHANGED <<progVars, pipeVars, bufVars, loopVars, reaped, env, known>>

\* closeIO; an error of the command leads straight to the drain.
CloseIO ==
  /\ wait = "close"
  /\ wait' = IF result = "nil" THEN "final" ELSE "drain"
  /\ UNCHANGED <<progVars, pipeVars, bufVars, loopVars, reaped, result, env, known>>

Ended == {o \in Outs : loop[o] \in {"ended", "failed"}}

\* finalWait takes the end of one loop. The error of the second is Wait's, the
\* error of the first is only logged.
FinalWait(o) ==
  /\ wait = "final" /\ o \in Ended \ reaped
  /\ reaped' = reaped \cup {o}
  /\ IF reaped' = Outs
     THEN /\ wait' = "store"
          /\ result' = IF loop[o] = "failed" THEN "send" ELSE "nil"
     ELSE UNCHANGED <<wait, result>>
  /\ UNCHANGED <<progVars, pipeVars, bufVars, loopVars, env, known>>

FinalWaitCancelled ==
  /\ wait = "final" /\ cancelled
  /\ wait' = "drain" /\ result' = "context"
  /\ UNCHANGED <<progVars, pipeVars, bufVars, loopVars, reaped, env, known>>

\* Mutant: the drain takes one end.
DrainOne ==
  /\ wait = "drain" /\ Ended # {} /\ reaped = {}
  /\ wait' = "store" /\ reaped' = Outs
  /\ UNCHANGED <<progVars, pipeVars, bufVars, loopVars, result, env, known>>

\* The drain takes as many ends as the channel has room for, whatever finalWait
\* took before: when that was one, it blocks for ever.
Drain ==
  /\ wait = "drain" /\ Ended = Outs /\ reaped = {}
  /\ wait' = "store" /\ reaped' = Outs
  /\ UNCHANGED <<progVars, pipeVars, bufVars, loopVars, result, env, known>>

\* The deferred storeOutputInEnv. The tail fits beside __; there may be no known name,
\* and beside a longer one a full tail is too large.
StoreOutput ==
  /\ wait = "store"
  /\ wait' = "returned" /\ env' = tail /\ known' \in {tail, <<>>}
  /\ UNCHANGED <<progVars, pipeVars, bufVars, loopVars, reaped, result>>

-----------------------------------------------------------------------------
CopyStep(o) == \/ CopyRead(o) \/ CopyStore(o) \/ CopyNotify(o) \/ CopyClose(o)
               \/ CopyWake(o)

LoopStep(o) == \/ ReadBuffer(o) \/ ReadCheck(o) \/ ReadSelect(o)
               \/ SendChunk(o) \/ SendFails(o)

WaitStep == \/ CommandDone \/ CloseIO \/ (\E o \in Outs : FinalWait(o))
            \/ FinalWaitCancelled \/ Drain \/ StoreOutput

Next == \/ \E o \in Outs : ProgramWrites(o) \/ CopyStep(o) \/ LoopStep(o)
        \/ ProgramExits \/ Cancel \/ StreamBreaks
        \/ WaitStep

Spec == Init /\ [][Next]_vars

\* The goroutines run on, a send returns, and a program whose context is cancelled
\* is killed. Otherwise a program may run for ever, and need not write.
Fairness == /\ \A o \in Outs : WF_vars(CopyStep(o)) /\ WF_vars(LoopStep(o))
            /\ WF_vars(WaitStep)
            /\ WF_vars(cancelled /\ ProgramExits)

FairSpec == Spec /\ Fairness
=============================================================================

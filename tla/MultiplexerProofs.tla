------------------------- MODULE MultiplexerProofs --------------------------
(***************************************************************************)
(* Proofs about Multiplexer for any number of clients, any amount of       *)
(* requests and output and any capacity of the three channels.             *)
(***************************************************************************)
EXTENDS MultiplexerProps, SequenceFacts

-----------------------------------------------------------------------------
(* Three stations of a way: what came out, what is in a channel, and what  *)
(* is in a goroutine's hands.                                              *)

Line(s, t, u) == s \o (t \o u)

\* An item enters the goroutine's hands, goes into the channel, and comes out.
LEMMA LineMoves ==
  ASSUME NEW S, NEW s \in Seq(S), NEW t \in Seq(S), NEW x \in S
  PROVE  /\ Line(s, t, <<x>>) = Append(Line(s, t, <<>>), x)
         /\ Line(s, Append(t, x), <<>>) = Line(s, t, <<x>>)
<1>1. <<x>> \in Seq(S) /\ <<>> \in Seq(S)
  OBVIOUS
<1>4. t \o <<>> = t /\ Append(t, x) \in Seq(S)
  BY ConcatEmptySeq
<1>5. Append(t, x) = t \o <<x>> /\ Append(t, x) \o <<>> = Append(t, x)
  BY <1>4, AppendIsConcat, ConcatEmptySeq
<1>6. Append(s \o t, x) = (s \o t) \o <<x>>
  <2> DEFINE st == s \o t
  <2>1. st \in Seq(S)
    BY ConcatProperties
  <2> HIDE DEF st
  <2>2. Append(st, x) = st \o <<x>>
    BY <2>1, AppendIsConcat
  <2> QED
    BY <2>2 DEF st
<1>a. Regroups(s, t, <<x>>)
  BY <1>1, Regrouped
<1>7. Line(s, t, <<x>>) = Append(Line(s, t, <<>>), x)
  BY <1>4, <1>6, <1>a, Zenon DEF Line, Regroups
<1>8. Line(s, Append(t, x), <<>>) = Line(s, t, <<x>>)
  BY <1>5, Zenon DEF Line
<1> QED
  BY <1>7, <1>8

LEMMA LineTakes ==
  ASSUME NEW S, NEW s \in Seq(S), NEW t \in Seq(S), NEW u \in Seq(S), t # <<>>
  PROVE  Line(Append(s, Head(t)), Tail(t), u) = Line(s, t, u)
<1> DEFINE h == <<Head(t)>>
           r == Tail(t)
<1>1. Head(t) \in S /\ h \in Seq(S) /\ r \in Seq(S)
  OBVIOUS
<1>2. t = h \o r
  <2>1. <<>> \o t = h \o r
    BY MoveHead
  <2> QED
    BY <2>1, ConcatEmptySeq
<1>3. Append(s, Head(t)) = s \o h
  BY <1>1, AppendIsConcat
<1> HIDE DEF h, r
<1>4. r \o u \in Seq(S)
  BY <1>1, ConcatProperties
<1>5. Regroups(s, h, r \o u) /\ Regroups(h, r, u)
  BY <1>1, <1>4, Regrouped
<1> QED
  BY <1>2, <1>3, <1>5, Zenon DEF Line, Regroups, r

\* What came out is the front of the line.
LEMMA LineFront ==
  ASSUME NEW S, NEW s \in Seq(S), NEW t \in Seq(S), NEW u \in Seq(S)
  PROVE  /\ Line(s, t, u) \in Seq(S) /\ t \o u \in Seq(S) /\ Line(s, t, u) = s \o (t \o u)
         /\ Len(s) <= Len(Line(s, t, u))
         /\ \A i \in 1..Len(s) : Line(s, t, u)[i] = s[i]
<1>1. t \o u \in Seq(S)
  BY ConcatProperties
<1> DEFINE r == t \o u
<1> HIDE DEF r
<1>2. r \in Seq(S) /\ Line(s, t, u) = s \o r
  BY <1>1 DEF r, Line
<1>3. Len(s) \in Nat /\ Len(r) \in Nat /\ Len(s \o r) = Len(s) + Len(r)
      /\ \A i \in 1..Len(s) : (s \o r)[i] = s[i]
  BY <1>2
<1> QED
  BY <1>1, <1>2, <1>3 DEF Line

-----------------------------------------------------------------------------
(* The inductive invariant.                                                *)

\* How far Execute is: what it has not started yet cannot have left traces, and once
\* it waits for the ends of the read loops, and behind that, it takes those that are.
Stages ==
  /\ proc = "new" => exec = "off"
  /\ exec \in {"off", "recv"} => snd = "none"
  /\ exec \in {"off", "recv", "pid"} => produced = <<>> /\ reaped = 0
  /\ exec \in {"off", "recv", "pid", "close", "returned"} => \A o \in Outs : loop[o] # "reading"
  /\ exec = "returned" => snd # "busy"
  /\ reaped <= Cardinality(Ended)

\* The responses are numbered; the PID can only be the first, the exit code only the
\* last, and between them are the chunks of output.
Numbered ==
  /\ \A i \in 1..Len(produced) : produced[i].n = i /\ (produced[i].kind = "pid" => i = 1)
  /\ (\E i \in 1..Len(produced) : produced[i].kind = "exit") => exec \in {"close", "returned"}
  /\ ExitCodeIsLast

Written == {i \in 1..Len(produced) : produced[i].kind \in Outs}

\* A response is in the sender's hands, in the channel, or taken by the broadcaster.
InHand == IF snd = "busy" THEN <<item>> ELSE <<>>
ResponseFlow == /\ produced = Line(relayed, execResps, InHand)
                /\ snd = "busy" => item \in Responses

\* Clients have only got what the broadcaster has taken; those that the broadcaster still has to
\* write to have not got the response that it is broadcasting.
Broadcast ==
  /\ DeliveredInOrder
  /\ bc = "write" => relayed # <<>> /\ current = Last(relayed)
  /\ \A s \in Streams : \A i \in 1..Len(got[s]) :
       /\ got[s][i].n <= Len(relayed)
       /\ (bc = "write" /\ s \in todo) => got[s][i].n < Len(relayed)

\* The tap is closed by the close path, and from then on nothing is recorded.
Recording == /\ tap = "closed" <=> proc \in {"grace", "done"}
             /\ RecordingHasNoGap

\* A run is closed when it was cancelled, and if nobody cancelled it from outside
\* then Execute has returned.
Causes ==
  /\ respsClosed \/ proc \notin {"new", "loop", "forward"} => cancelled
  /\ cancelled => external \/ exec = "returned"
  /\ NormalEndIsClean

\* A request is in the hands of a client's goroutine, in authedWebsocketRequests, in
\* the hands of process, in ExecuteRequests, or received.
Passing == IF proc = "forward" THEN <<forwarding>> ELSE <<>>
Forwarded == Line(taken, execReqs, Passing)

Configs(q) == {i \in 1..Len(q) : q[i].kind = "config"}

Holding == /\ proc = "forward" => forwarding \in Requests
           /\ \A s \in Streams : reader[s] = "passing" => pending[s] \in Requests
           /\ commands = Cardinality(Configs(Forwarded))

\* w is what is left of q without the requests of other kinds: the first j items of
\* q account for the first rank[j] items of w.
Ranks(rank, w, q) ==
  /\ rank \in [0..Len(q) -> 0..Len(w)] /\ rank[0] = 0 /\ rank[Len(q)] = Len(w)
  /\ \A i, j \in 0..Len(q) : i <= j => rank[i] <= rank[j]
  /\ \A j \in 1..Len(q) : IF q[j].kind = "other" THEN rank[j] = rank[j - 1]
                          ELSE rank[j] = rank[j - 1] + 1 /\ w[rank[j]] = q[j]
ExecutesOf(w, q) == \E rank \in [0..Len(q) -> 0..Len(w)] : Ranks(rank, w, q)

RequestFlow == \E w \in Seq(Requests) : /\ ExecutesOf(w, authed)
                                        /\ accepted = Line(Forwarded, w, <<>>)

MuxInv == /\ TypeOK /\ Stages /\ Numbered /\ Cardinality(Written) <= MaxOutput
          /\ ResponseFlow /\ Broadcast /\ Recording /\ Causes /\ Holding /\ RequestFlow

-----------------------------------------------------------------------------
(* What the steps change.                                                  *)

ProcChange == \/ StartProcess \/ NextRequest \/ Forward \/ ContextDone
              \/ CloseRequests \/ CloseResponses \/ RecordEnd \/ CloseTap \/ EndGrace
SndChange == \/ ReceiveInitial \/ SendPid \/ SendExit \/ CloseSender \/ Send
             \/ \E o \in Outs : SendOutput(o)
RunChange == \/ StartProcess \/ ReceiveInitial \/ SendPid \/ CommandDone \/ FinalWait
             \/ SendExit \/ CloseSender \/ ProgramExits \/ ReceiveNext \/ StdinRead
             \/ StdinClosed \/ \E o \in Outs : LoopEnds(o)
BcChange == \/ StartProcess \/ TakeResponse \/ Broadcasted \/ BroadcastEnds
            \/ \E s \in Streams : WriteTo(s)
ClientChange == \/ \E s \in Streams : ClientStep(s)
                \/ EndGrace \/ TimerCancels
ReqChange == \/ \E s \in Streams : handleRequest(s)
             \/ NextRequest \/ Forward \/ ReceiveInitial \/ ReceiveNext
CtxChange == \/ \E s \in Streams : acceptConnection(s)
             \/ TimerTick \/ TimerCancels \/ ShutdownCancels
             \/ SendPid \/ SendExit \/ ExecuteReturned \/ \E o \in Outs : SendOutput(o)

ChangesOf == /\ UNCHANGED procVars \/ ProcChange
             /\ UNCHANGED sndVars \/ SndChange
             /\ UNCHANGED runVars \/ RunChange
             /\ UNCHANGED bcVars \/ BcChange
             /\ UNCHANGED clientVars \/ ClientChange
             /\ UNCHANGED reqVars \/ ReqChange
             /\ UNCHANGED ctxVars \/ CtxChange
             /\ UNCHANGED tapVars \/ StartProcess \/ NextRequest \/ RecordEnd \/ CloseTap
             /\ UNCHANGED execResps \/ Send \/ TakeResponse
             /\ UNCHANGED crashed \/ Send

LEMMA Changes == [Next]_vars => ChangesOf
<1> SUFFICES ASSUME [Next]_vars PROVE ChangesOf
  OBVIOUS
<1> USE DEF ChangesOf
<1>1. ASSUME NEW s \in Streams, acceptConnection(s) PROVE ChangesOf
  <2>1. ClientChange
    BY <1>1 DEF ClientChange, ClientStep
  <2> QED
    BY <1>1, <2>1 DEF acceptConnection, CtxChange, ReqChange
<1>2. ASSUME NEW s \in Streams, handleRequest(s) PROVE ChangesOf
  <2>1. ClientChange
    BY <1>2 DEF ClientChange, ClientStep
  <2> QED
    BY <1>2, <2>1 DEF handleRequest, CtxChange, ReqChange
<1>3. ASSUME NEW s \in Streams, LeaveStream(s) PROVE ChangesOf
  <2>1. ClientChange
    BY <1>3 DEF ClientChange, ClientStep
  <2> QED
    BY <1>3, <2>1 DEF LeaveStream, CtxChange, ReqChange
<1>4. ASSUME NEW s \in Streams, ClientDrops(s) PROVE ChangesOf
  <2>1. ClientChange
    BY <1>4 DEF ClientChange, ClientStep
  <2> QED
    BY <1>4, <2>1 DEF ClientDrops, CtxChange, ReqChange
<1>5. ASSUME NEW s \in Streams, NEW k \in SentKinds, ReadRequest(s, k) PROVE ChangesOf
  <2>1. ClientChange
    BY <1>5 DEF ClientChange, ClientStep
  <2> QED
    BY <1>5, <2>1 DEF ReadRequest
<1>6. CASE StartProcess
  <2>1. ProcChange /\ RunChange /\ BcChange
    BY <1>6 DEF ProcChange, RunChange, BcChange
  <2> QED
    BY <1>6, <2>1 DEF StartProcess
<1>7. CASE NextRequest
  <2>1. ProcChange /\ ReqChange
    BY <1>7 DEF ProcChange, ReqChange
  <2> QED
    BY <1>7, <2>1 DEF NextRequest
<1>8. CASE Forward
  <2>1. ProcChange /\ ReqChange
    BY <1>8 DEF ProcChange, ReqChange
  <2> QED
    BY <1>8, <2>1 DEF Forward
<1>9. CASE ContextDone
  <2>1. ProcChange
    BY <1>9 DEF ProcChange
  <2> QED
    BY <1>9, <2>1 DEF ContextDone
<1>10. CASE CloseRequests
  <2>1. ProcChange
    BY <1>10 DEF ProcChange
  <2> QED
    BY <1>10, <2>1 DEF CloseRequests
<1>11. CASE CloseResponses
  <2>1. ProcChange
    BY <1>11 DEF ProcChange
  <2> QED
    BY <1>11, <2>1 DEF CloseResponses
<1>12. CASE RecordEnd
  <2>1. ProcChange
    BY <1>12 DEF ProcChange
  <2> QED
    BY <1>12, <2>1 DEF RecordEnd
<1>13. CASE CloseTap
  <2>1. ProcChange
    BY <1>13 DEF ProcChange
  <2> QED
    BY <1>13, <2>1 DEF CloseTap
<1>14. CASE EndGrace
  <2>1. ProcChange /\ ClientChange
    BY <1>14 DEF ProcChange, ClientChange
  <2> QED
    BY <1>14, <2>1 DEF EndGrace
<1>15. CASE TimerTick
  <2>1. CtxChange
    BY <1>15 DEF CtxChange
  <2> QED
    BY <1>15, <2>1 DEF TimerTick
<1>16. CASE TimerCancels
  <2>1. CtxChange /\ ClientChange
    BY <1>16 DEF CtxChange, ClientChange
  <2> QED
    BY <1>16, <2>1 DEF TimerCancels
<1>17. CASE ShutdownCancels
  <2>1. CtxChange
    BY <1>17 DEF CtxChange
  <2> QED
    BY <1>17, <2>1 DEF ShutdownCancels
<1>18. CASE ReceiveInitial
  <2>1. SndChange /\ RunChange /\ ReqChange
    BY <1>18 DEF SndChange, RunChange, ReqChange
  <2> QED
    BY <1>18, <2>1 DEF ReceiveInitial
<1>19. CASE SendPid
  <2>1. SndChange /\ RunChange /\ CtxChange
    BY <1>19 DEF SndChange, RunChange, CtxChange
  <2> QED
    BY <1>19, <2>1 DEF SendPid
<1>20. CASE CommandDone
  <2>1. RunChange
    BY <1>20 DEF RunChange
  <2> QED
    BY <1>20, <2>1 DEF CommandDone
<1>21. CASE FinalWait
  <2>1. RunChange
    BY <1>21 DEF RunChange
  <2> QED
    BY <1>21, <2>1 DEF FinalWait
<1>22. CASE SendExit
  <2>1. SndChange /\ RunChange /\ CtxChange
    BY <1>22 DEF SndChange, RunChange, CtxChange
  <2> QED
    BY <1>22, <2>1 DEF SendExit
<1>23. CASE CloseSender
  <2>1. SndChange /\ RunChange
    BY <1>23 DEF SndChange, RunChange
  <2> QED
    BY <1>23, <2>1 DEF CloseSender
<1>24. CASE ExecuteReturned
  <2>1. CtxChange
    BY <1>24 DEF CtxChange
  <2> QED
    BY <1>24, <2>1 DEF ExecuteReturned
<1>25. CASE ReceiveNext
  <2>1. RunChange /\ ReqChange
    BY <1>25 DEF RunChange, ReqChange
  <2> QED
    BY <1>25, <2>1 DEF ReceiveNext
<1>26. CASE StdinClosed
  <2>1. RunChange
    BY <1>26 DEF RunChange
  <2> QED
    BY <1>26, <2>1 DEF StdinClosed
<1>27. CASE StdinRead
  <2>1. RunChange
    BY <1>27 DEF RunChange
  <2> QED
    BY <1>27, <2>1 DEF StdinRead
<1>28. CASE ProgramExits
  <2>1. RunChange
    BY <1>28 DEF RunChange
  <2> QED
    BY <1>28, <2>1 DEF ProgramExits
<1>29. CASE Send
  <2>1. SndChange
    BY <1>29 DEF SndChange
  <2> QED
    BY <1>29, <2>1 DEF Send
<1>30. CASE TakeResponse
  <2>1. BcChange
    BY <1>30 DEF BcChange
  <2> QED
    BY <1>30, <2>1 DEF TakeResponse
<1>31. CASE Broadcasted
  <2>1. BcChange
    BY <1>31 DEF BcChange
  <2> QED
    BY <1>31, <2>1 DEF Broadcasted
<1>32. CASE BroadcastEnds
  <2>1. BcChange
    BY <1>32 DEF BcChange
  <2> QED
    BY <1>32, <2>1 DEF BroadcastEnds
<1>33. ASSUME NEW o \in Outs, SendOutput(o) PROVE ChangesOf
  <2>1. SndChange /\ CtxChange
    BY <1>33 DEF SndChange, CtxChange
  <2> QED
    BY <1>33, <2>1 DEF SendOutput
<1>34. ASSUME NEW o \in Outs, LoopEnds(o) PROVE ChangesOf
  <2>1. RunChange
    BY <1>34 DEF RunChange
  <2> QED
    BY <1>34, <2>1 DEF LoopEnds
<1>35. ASSUME NEW s \in Streams, WriteTo(s) PROVE ChangesOf
  <2>1. BcChange
    BY <1>35 DEF BcChange
  <2> QED
    BY <1>35, <2>1 DEF WriteTo
<1>36. CASE UNCHANGED vars
  BY <1>36 DEF vars
<1> QED
  BY <1>1, <1>2, <1>3, <1>4, <1>5, <1>6, <1>7, <1>8, <1>9, <1>10, <1>11, <1>12,
     <1>13, <1>14, <1>15, <1>16, <1>17, <1>18, <1>19, <1>20, <1>21, <1>22,
     <1>23, <1>24, <1>25, <1>26, <1>27, <1>28, <1>29, <1>30, <1>31, <1>32,
     <1>33, <1>34, <1>35, <1>36 DEF Next, ClientStep, ProcessStep, ExecuteStep,
     ReceiverStep, BroadcastStep

-----------------------------------------------------------------------------
(* Types, by the part of the program that a variable belongs to.           *)

CtxTypes == /\ cancelled \in BOOLEAN /\ external \in BOOLEAN /\ active \in BOOLEAN
            /\ timer \in {"none", "armed", "expired", "off"}
ProcTypes == /\ proc \in {"new", "loop", "forward", "close_requests", "close_responses",
                          "record_end", "close_tap", "grace", "done"}
             /\ forwarding \in Requests \cup {None}
             /\ reqsClosed \in BOOLEAN /\ respsClosed \in BOOLEAN
RunTypes == /\ exec \in {"off", "recv", "pid", "wait", "final", "drain", "close", "returned"}
            /\ rcv \in {"none", "reading", "writing", "ended"}
            /\ prog \in {"none", "running", "exited"}
            /\ loop \in [Outs -> {"off", "reading", "ended"}] /\ reaped \in 0..2
SndTypes == /\ snd \in {"none", "idle", "busy", "ended"}
            /\ item \in Responses \cup {None} /\ produced \in Seq(Responses)
BcTypes == /\ bc \in {"off", "recv", "write", "ended"} /\ todo \subseteq Streams
           /\ current \in Responses \cup {None} /\ got \in [Streams -> Seq(Responses)]
           /\ relayed \in Seq(Responses) /\ recorded \in Seq(Responses)
ClientTypes == /\ reader \in [Streams -> {"none", "reading", "passing", "gone"}]
               /\ pending \in [Streams -> Requests \cup {None}]
               /\ sock \in [Streams -> {"open", "dead"}] /\ table \subseteq Streams
               /\ sent \in [Streams -> 0..MaxRequests]
ReqTypes == /\ authed \in Seq(Requests) /\ Len(authed) <= AuthCap
            /\ execReqs \in Seq(Requests) /\ Len(execReqs) <= ReqCap
            /\ accepted \in Seq(Requests) /\ taken \in Seq(Requests)
TapTypes == tap \in {"none", "open", "ended", "closed"} /\ commands \in Nat
ChanTypes == execResps \in Seq(Responses) /\ Len(execResps) <= RespCap

LEMMA Types ==
  TypeOK <=> /\ CtxTypes /\ ProcTypes /\ RunTypes /\ SndTypes /\ BcTypes /\ ClientTypes
             /\ ReqTypes /\ TapTypes /\ ChanTypes /\ crashed \in BOOLEAN
BY DEF TypeOK, CtxTypes, ProcTypes, RunTypes, SndTypes, BcTypes, ClientTypes, ReqTypes,
   TapTypes, ChanTypes

LEMMA CtxStep ==
  ASSUME TypeOK, [Next]_vars
  PROVE  CtxTypes'
<1>1. CASE UNCHANGED ctxVars
  BY <1>1, Types DEF CtxTypes, ctxVars
<1>2. CASE CtxChange
  BY <1>2, Types DEF CtxChange, CtxTypes, ctxVars, acceptConnection, TimerTick,
     TimerCancels, ShutdownCancels, SendPid, SendExit, ExecuteReturned, SendOutput, Hand,
     NoHand
<1> QED
  BY <1>1, <1>2, Changes DEF ChangesOf

LEMMA ProcStep ==
  ASSUME TypeOK, [Next]_vars
  PROVE  ProcTypes'
<1>1. CASE UNCHANGED procVars
  BY <1>1, Types DEF ProcTypes, procVars
<1>2. CASE NextRequest
  <2>1. authed # <<>> => Head(authed) \in Requests
    BY Types DEF ReqTypes
  <2> QED
    BY <1>2, <2>1, Types DEF NextRequest, ProcTypes
<1>3. CASE ProcChange /\ ~NextRequest
  BY <1>3, Types DEF ProcChange, ProcTypes, StartProcess, Forward, ContextDone,
     CloseRequests, CloseResponses, RecordEnd, CloseTap, EndGrace
<1> QED
  BY <1>1, <1>2, <1>3, Changes DEF ChangesOf

LEMMA RunStep ==
  ASSUME TypeOK, [Next]_vars
  PROVE  RunTypes'
<1>1. CASE UNCHANGED runVars
  BY <1>1, Types DEF RunTypes, runVars
<1>2. CASE RunChange
  BY <1>2, Types DEF RunChange, RunTypes, StartProcess, ReceiveInitial, SendPid,
     CommandDone, FinalWait, SendExit, CloseSender, ProgramExits, ReceiveNext, StdinRead,
     StdinClosed, LoopEnds
<1> QED
  BY <1>1, <1>2, Changes DEF ChangesOf

LEMMA TapStep ==
  ASSUME TypeOK, [Next]_vars
  PROVE  TapTypes'
<1>1. CASE UNCHANGED tapVars
  BY <1>1, Types DEF TapTypes, tapVars
<1>2. CASE StartProcess \/ NextRequest \/ RecordEnd \/ CloseTap
  BY <1>2, Types DEF TapTypes, StartProcess, NextRequest, RecordEnd, CloseTap
<1> QED
  BY <1>1, <1>2, Changes DEF ChangesOf

LEMMA ClientTypesStep ==
  ASSUME TypeOK, [Next]_vars
  PROVE  ClientTypes'
<1>1. CASE UNCHANGED clientVars
  BY <1>1, Types DEF ClientTypes, clientVars
<1>2. ASSUME NEW s \in Streams, NEW k \in SentKinds, ReadRequest(s, k) PROVE ClientTypes'
  <2>1. sent[s] \in 0..MaxRequests /\ sent[s] < MaxRequests /\ MaxRequests \in Nat
    BY <1>2, Types, MultiplexerConstants DEF ClientTypes, ReadRequest
  <2>2. k \in Kinds /\ sent[s] + 1 \in 1..MaxRequests
    BY <2>1, MultiplexerConstants DEF Kinds
  <2>3. [from |-> s, seq |-> sent[s] + 1, kind |-> k] \in Requests
    BY <2>2 DEF Requests
  <2> QED
    BY <1>2, <2>2, <2>3, Types DEF ClientTypes, ReadRequest
<1>3. ASSUME NEW s \in Streams,
             acceptConnection(s) \/ handleRequest(s) \/ LeaveStream(s) \/ ClientDrops(s)
      PROVE  ClientTypes'
  BY <1>3, Types DEF ClientTypes, acceptConnection, handleRequest, LeaveStream, ClientDrops
<1>4. CASE EndGrace \/ TimerCancels
  BY <1>4, Types DEF ClientTypes, EndGrace, TimerCancels
<1> QED
  BY <1>1, <1>2, <1>3, <1>4, Changes DEF ChangesOf, ClientChange, ClientStep

-----------------------------------------------------------------------------
(* A response is handed to the sender.                                     *)

NoExit == \A i \in 1..Len(produced) : produced[i].kind # "exit"

LEMMA LengthBound ==
  ASSUME SndTypes, Numbered, NoExit
  PROVE  /\ IsFiniteSet(Written) /\ Cardinality(Written) \in Nat
         /\ Len(produced) <= Cardinality(Written) + 1
<1>1. Len(produced) \in Nat /\ \A i \in 1..Len(produced) : produced[i] \in Responses
  BY DEF SndTypes
<1>2. IsFiniteSet(1..Len(produced)) /\ Cardinality(1..Len(produced)) = Len(produced)
  BY <1>1, FS_Interval
<1>3. Written \subseteq 1..Len(produced)
  BY DEF Written
<1>4. IsFiniteSet(Written) /\ Cardinality(Written) \in Nat
  BY <1>2, <1>3, FS_Subset, FS_CardinalityType
<1>5. 1..Len(produced) \subseteq Written \cup {1}
  BY <1>1 DEF Numbered, NoExit, Written, Responses
<1>6. /\ IsFiniteSet(Written \cup {1})
      /\ Cardinality(Written \cup {1}) <= Cardinality(Written) + 1
      /\ Cardinality(Written \cup {1}) \in Nat
  BY <1>4, FS_AddElement, FS_CardinalityType
<1> QED
  BY <1>1, <1>2, <1>4, <1>5, <1>6, FS_Subset

\* There is room for one more number whenever something is handed over.
LEMMA RoomToHand ==
  ASSUME TypeOK, Stages, Numbered, Cardinality(Written) <= MaxOutput,
         SendPid \/ SendExit \/ \E o \in Outs : SendOutput(o)
  PROVE  Len(produced) <= MaxOutput + 1 /\ NoExit /\ exec \notin {"close", "returned"}
<1>a. SndTypes /\ RunTypes /\ MaxOutput \in Nat
  BY Types, MultiplexerConstants
<1>1. CASE SendPid
  BY <1>1, <1>a DEF SendPid, Stages, NoExit
<1>2. ASSUME exec \notin {"close", "returned"}
      PROVE  Len(produced) <= MaxOutput + 1 /\ NoExit
  <2>1. NoExit
    BY <1>2 DEF Numbered, NoExit
  <2>2. Len(produced) \in Nat
    BY <1>a DEF SndTypes
  <2> QED
    BY <1>a, <2>1, <2>2, LengthBound
<1>3. CASE SendExit
  BY <1>2, <1>3 DEF SendExit, WaitReturns
<1>4. ASSUME NEW o \in Outs, SendOutput(o) PROVE exec \notin {"close", "returned"}
  BY <1>4 DEF SendOutput, Stages
<1> QED
  BY <1>1, <1>2, <1>3, <1>4 DEF SendExit, WaitReturns

LEMMA Handed ==
  ASSUME TypeOK, Len(produced) <= MaxOutput + 1, NEW k \in Outs \cup {"pid", "exit"}, Hand(k)
  PROVE  /\ item' \in Responses /\ item'.n = Len(produced) + 1 /\ item'.kind = k
         /\ produced \in Seq(Responses) /\ Len(produced) \in Nat
         /\ produced' = Append(produced, item') /\ produced' \in Seq(Responses)
         /\ Len(produced') = Len(produced) + 1
         /\ \A i \in 1..Len(produced) : produced'[i] = produced[i]
         /\ produced'[Len(produced) + 1] = item'
<1>1. produced \in Seq(Responses) /\ Len(produced) \in Nat /\ MaxOutput \in Nat
  BY Types, MultiplexerConstants DEF SndTypes
<1>2. item' = [n |-> Len(produced) + 1, kind |-> k] /\ produced' = Append(produced, item')
  BY DEF Hand
<1>3. item' \in Responses
  BY <1>1, <1>2 DEF Responses
<1>4. item'.n = Len(produced) + 1 /\ item'.kind = k
  BY <1>2
<1> QED
  BY <1>1, <1>2, <1>3, <1>4

\* Of what a step of the response's way does, only a hand-over adds a response.
LEMMA ProducedStep ==
  ASSUME TypeOK, Stages, Numbered, Cardinality(Written) <= MaxOutput, [Next]_vars
  PROVE  \/ UNCHANGED produced /\ (snd' = "busy" => snd = "busy" /\ UNCHANGED item)
         \/ /\ snd = "idle" /\ snd' = "busy"
            /\ UNCHANGED <<bcVars, execResps>> /\ Len(produced) <= MaxOutput + 1
            /\ \/ SendPid /\ Hand("pid")
               \/ SendExit /\ Hand("exit")
               \/ \E o \in Outs : SendOutput(o) /\ Hand(o)
<1>1. CASE UNCHANGED sndVars
  BY <1>1 DEF sndVars
<1>2. CASE SendPid
  BY <1>2, RoomToHand DEF SendPid, NoHand, Hand
<1>3. CASE SendExit
  BY <1>3, RoomToHand DEF SendExit, NoHand, Hand
<1>4. ASSUME NEW o \in Outs, SendOutput(o)
      PROVE  /\ snd = "idle" /\ snd' = "busy" /\ SendOutput(o) /\ Hand(o)
             /\ UNCHANGED <<bcVars, execResps>> /\ Len(produced) <= MaxOutput + 1
  BY <1>4, RoomToHand DEF SendOutput, Hand
<1>5. CASE ReceiveInitial \/ CloseSender \/ Send
  BY <1>5 DEF ReceiveInitial, CloseSender, Send
<1> QED
  BY <1>1, <1>2, <1>3, <1>4, <1>5, Changes DEF ChangesOf, SndChange

LEMMA SndStep ==
  ASSUME TypeOK, Stages, Numbered, Cardinality(Written) <= MaxOutput, [Next]_vars
  PROVE  SndTypes'
<1>1. snd' \in {"none", "idle", "busy", "ended"}
  <2>1. CASE UNCHANGED sndVars
    BY <2>1, Types DEF SndTypes, sndVars
  <2>2. CASE SndChange
    BY <2>2, Types DEF SndChange, SndTypes, ReceiveInitial, SendPid, SendExit, CloseSender,
       Send, SendOutput, Hand, NoHand
  <2> QED
    BY <2>1, <2>2, Changes DEF ChangesOf
<1>2. item' \in Responses \cup {None} /\ produced' \in Seq(Responses)
  <2>1. CASE UNCHANGED sndVars \/ ReceiveInitial \/ CloseSender \/ Send
    BY <2>1, Types DEF SndTypes, sndVars, ReceiveInitial, CloseSender, Send
  <2>2. CASE (SendPid \/ SendExit) /\ NoHand
    BY <2>2, Types DEF SndTypes, NoHand
  <2>3. ASSUME NEW k \in Outs \cup {"pid", "exit"}, Hand(k), Len(produced) <= MaxOutput + 1
        PROVE  item' \in Responses \cup {None} /\ produced' \in Seq(Responses)
    BY <2>3, Handed
  <2>4. CASE (SendPid \/ SendExit) /\ ~NoHand
    BY <2>3, <2>4, RoomToHand DEF SendPid, SendExit
  <2>5. ASSUME NEW o \in Outs, SendOutput(o)
        PROVE  item' \in Responses \cup {None} /\ produced' \in Seq(Responses)
    BY <2>3, <2>5, RoomToHand DEF SendOutput
  <2> QED
    BY <2>1, <2>2, <2>4, <2>5, Changes DEF ChangesOf, SndChange
<1> QED
  BY <1>1, <1>2 DEF SndTypes

-----------------------------------------------------------------------------
(* Stages and numbers.                                                     *)

LEMMA EndedCounts ==
  ASSUME NEW E \in SUBSET Outs
  PROVE  /\ IsFiniteSet(E) /\ Cardinality(E) \in 0..2
         /\ Cardinality(E) = 2 => E = Outs
<1>1. IsFiniteSet(Outs) /\ Cardinality(Outs) = 2
  <2>1. IsFiniteSet({"stdout"}) /\ Cardinality({"stdout"}) = 1
    BY FS_Singleton
  <2>2. Outs = {"stdout"} \cup {"stderr"} /\ "stderr" \notin {"stdout"}
    BY DEF Outs
  <2>3. IsFiniteSet({"stdout"} \cup {"stderr"}) /\ Cardinality({"stdout"} \cup {"stderr"}) = 2
    BY <2>1, <2>2, FS_AddElement
  <2> QED
    BY <2>2, <2>3
<1>2. /\ IsFiniteSet(E) /\ Cardinality(E) <= 2
      /\ Cardinality(E) = 2 => E = Outs
  BY <1>1, FS_Subset
<1> QED
  BY <1>2, FS_CardinalityType

LEMMA StagesStep ==
  ASSUME TypeOK, TypeOK', Stages, Numbered, Cardinality(Written) <= MaxOutput, [Next]_vars
  PROVE  Stages'
<1>a. RunTypes /\ RunTypes' /\ Ended \in SUBSET Outs /\ Ended' \in SUBSET Outs
  BY Types, RunStep DEF Ended
<1>1. proc' = "new" => exec' = "off"
  <2>1. CASE UNCHANGED procVars
    BY <2>1, Changes DEF procVars, Stages, ChangesOf, RunChange, StartProcess,
       ReceiveInitial, SendPid, CommandDone, FinalWait, WaitReturns, SendExit, CloseSender,
       ProgramExits, ReceiveNext, StdinRead, StdinClosed, LoopEnds, runVars
  <2>2. CASE ProcChange
    BY <2>2 DEF ProcChange, StartProcess, NextRequest, Forward, ContextDone,
       CloseRequests, CloseResponses, RecordEnd, CloseTap, EndGrace
  <2> QED
    BY <2>1, <2>2, Changes DEF ChangesOf
<1>2. CASE UNCHANGED <<runVars, sndVars>>
  BY <1>1, <1>2 DEF Stages, runVars, sndVars, Ended
<1>3. CASE UNCHANGED <<exec, loop, reaped, produced>> /\ (snd' = "busy" => snd = "busy")
           /\ (snd' = "none" <=> snd = "none")
  BY <1>1, <1>3 DEF Stages, Ended
<1>4. CASE Send
  BY <1>1, <1>3, <1>4 DEF Send, runVars
<1>5. CASE StartProcess
  BY <1>1, <1>5 DEF StartProcess, Stages, sndVars, Ended
<1>6. CASE ReceiveInitial
  <2>1. /\ exec = "recv" /\ exec' \in {"pid", "returned"} /\ snd = "none"
        /\ UNCHANGED <<loop, reaped, produced>> /\ snd' \in {"idle", "none"}
    BY <1>6 DEF ReceiveInitial, Stages
  <2>2. (exec' = "returned" => snd' # "busy") /\ \A o \in Outs : loop'[o] # "reading"
    BY <2>1 DEF Stages
  <2>3. reaped' <= Cardinality(Ended)'
    BY <2>1 DEF Stages, Ended
  <2> QED
    BY <1>1, <2>1, <2>2, <2>3 DEF Stages
<1>7. CASE SendPid
  <2>1. exec = "pid" /\ reaped = 0 /\ reaped' = 0 /\ exec' \in {"wait", "close"}
        /\ (exec' = "close" => loop' = loop)
    BY <1>7 DEF SendPid, Stages
  <2>2. Cardinality(Ended)' \in Nat
    BY <1>a, EndedCounts
  <2> QED
    BY <1>1, <2>1, <2>2 DEF Stages
<1>8. CASE CommandDone
  BY <1>1, <1>8 DEF CommandDone, Stages, sndVars, Ended
<1>9. CASE FinalWait
  <2>1. Cardinality(Ended)' = Cardinality(Ended) /\ Cardinality(Ended) \in Nat /\ reaped \in Nat
    <3>1. Ended' = Ended
      BY <1>9 DEF FinalWait, Ended
    <3> QED
      BY <1>a, <3>1, EndedCounts DEF RunTypes
  <2>2. reaped' <= Cardinality(Ended)'
    BY <1>9, <2>1 DEF FinalWait, Stages
  <2> QED
    BY <1>1, <1>9, <2>2 DEF FinalWait, Stages, sndVars
<1>10. CASE SendExit
  <2>1. Cardinality(Ended) = 2 /\ exec' = "close" /\ UNCHANGED <<loop, reaped>>
    BY <1>10, <1>a, EndedCounts DEF SendExit, WaitReturns, Stages, RunTypes
  <2>2. \A o \in Outs : loop'[o] # "reading"
    BY <1>a, <2>1, EndedCounts DEF Ended
  <2> QED
    BY <1>1, <2>1, <2>2 DEF Stages, Ended
<1>11. CASE CloseSender
  BY <1>1, <1>11 DEF CloseSender, Stages, Ended
<1>12. ASSUME NEW o \in Outs, LoopEnds(o) PROVE Stages'
  <2>1. loop' = [loop EXCEPT ![o] = "ended"] /\ UNCHANGED <<exec, reaped, sndVars>>
    BY <1>12 DEF LoopEnds
  <2>2. Ended \subseteq Ended' /\ \A q \in Outs : loop'[q] = "reading" => loop[q] = "reading"
    BY <1>a, <2>1 DEF Ended, RunTypes
  <2>3. Cardinality(Ended) <= Cardinality(Ended)' /\ Cardinality(Ended) \in Nat
        /\ Cardinality(Ended)' \in Nat /\ reaped \in Nat
    <3>1. IsFiniteSet(Ended)' /\ Cardinality(Ended)' \in Nat
      BY <1>a, EndedCounts
    <3>2. IsFiniteSet(Ended) /\ Cardinality(Ended) \in Nat /\ reaped \in Nat
      BY <1>a, EndedCounts DEF RunTypes
    <3> QED
      BY <2>2, <3>1, <3>2, FS_Subset
  <2> QED
    BY <1>1, <2>1, <2>2, <2>3 DEF Stages, sndVars
<1>13. ASSUME NEW o \in Outs, SendOutput(o) PROVE Stages'
  <2>1. exec \notin {"off", "recv", "pid", "close", "returned"} /\ UNCHANGED runVars
    BY <1>13 DEF SendOutput, Stages
  <2> QED
    BY <1>1, <2>1 DEF Stages, runVars, Ended
<1>14. CASE ProgramExits \/ ReceiveNext \/ StdinRead \/ StdinClosed
  BY <1>3, <1>14 DEF ProgramExits, ReceiveNext, StdinRead, StdinClosed, sndVars
<1> QED
  BY <1>2, <1>4, <1>5, <1>6, <1>7, <1>8, <1>9, <1>10, <1>11, <1>12, <1>13, <1>14, Changes
     DEF ChangesOf, RunChange, SndChange

\* The indexes of what was handed over before stay, and the new one is behind them.
LEMMA NumberedStep ==
  ASSUME TypeOK, TypeOK', Stages, Stages', Numbered, Cardinality(Written) <= MaxOutput,
         [Next]_vars
  PROVE  Numbered' /\ Cardinality(Written)' <= MaxOutput
<1>a. SndTypes /\ RunTypes /\ MaxOutput \in Nat
  BY Types, MultiplexerConstants
<1>1. exec \in {"close", "returned"} => exec' \in {"close", "returned"}
  BY Changes DEF ChangesOf, RunChange, StartProcess, Stages,
       ReceiveInitial, SendPid, CommandDone, FinalWait, WaitReturns, SendExit, CloseSender,
       ProgramExits, ReceiveNext, StdinRead, StdinClosed, LoopEnds, runVars
<1>2. CASE UNCHANGED produced
  BY <1>1, <1>2 DEF Numbered, ExitCodeIsLast, Written
<1>3. ASSUME NEW k \in Outs \cup {"pid", "exit"}, Hand(k), Len(produced) <= MaxOutput + 1,
             NoExit, k = "pid" => produced = <<>>,
             k = "exit" => exec' \in {"close", "returned"},
             k \in Outs => Cardinality(Written) < MaxOutput
      PROVE  Numbered' /\ Cardinality(Written)' <= MaxOutput
  <2> DEFINE n == Len(produced)
  <2>1. /\ item' \in Responses /\ item'.n = n + 1 /\ item'.kind = k /\ n \in Nat
        /\ Len(produced') = n + 1 /\ \A i \in 1..n : produced'[i] = produced[i]
        /\ produced'[n + 1] = item'
    BY <1>3, Handed
  <2>2. k = "pid" => n = 0
    BY <1>3
  <2> HIDE DEF n
  <2>3. \A i \in 1..n : /\ produced[i].n = i /\ produced[i].kind # "exit"
                        /\ produced[i].kind = "pid" => i = 1
    BY <1>3 DEF Numbered, NoExit, n
  <2>4. Numbered'
    <3>1. \A i \in 1..n + 1 : /\ produced'[i].n = i
                              /\ produced'[i].kind = "pid" => i = 1
                              /\ produced'[i].kind = "exit" => i = n + 1 /\ k = "exit"
      <4>1. \A i \in 1..n + 1 : i \in 1..n \/ i = n + 1
        BY <2>1
      <4> QED
        BY <2>1, <2>2, <2>3, <4>1
    <3> QED
      BY <1>3, <2>1, <3>1 DEF Numbered, ExitCodeIsLast
  <2>5. Written' = IF k \in Outs THEN Written \cup {n + 1} ELSE Written
    <3>1. \A i \in 1..n + 1 : produced'[i].kind = IF i = n + 1 THEN k ELSE produced[i].kind
      BY <2>1
    <3> QED
      BY <2>1, <3>1 DEF Written, n
  <2>6. IsFiniteSet(Written) /\ Cardinality(Written) \in Nat
    BY <1>3, <1>a, LengthBound
  <2>7. CASE k \in Outs
    <3> DEFINE x == n + 1
    <3>0. Written' = Written \cup {x} /\ Cardinality(Written) < MaxOutput
      BY <1>3, <2>5, <2>7
    <3> HIDE DEF x
    <3>1. Cardinality(Written \cup {x}) \in Nat
          /\ Cardinality(Written \cup {x}) <= Cardinality(Written) + 1
      BY <2>6, OneMore
    <3> QED
      BY <1>a, <2>4, <2>6, <3>0, <3>1
  <2> QED
    BY <2>4, <2>5, <2>7
<1>4. CASE SendPid /\ Hand("pid") /\ Len(produced) <= MaxOutput + 1
  <2>1. produced = <<>> /\ NoExit
    BY <1>4, RoomToHand DEF SendPid, Stages
  <2> QED
    BY <1>3, <1>4, <2>1 DEF Outs
<1>5. CASE SendExit /\ Hand("exit") /\ Len(produced) <= MaxOutput + 1
  <2>1. NoExit /\ exec' = "close"
    BY <1>5, RoomToHand DEF SendExit
  <2> QED
    BY <1>3, <1>5, <2>1 DEF Outs
<1>6. ASSUME NEW o \in Outs, SendOutput(o), Hand(o), Len(produced) <= MaxOutput + 1
      PROVE  Numbered' /\ Cardinality(Written)' <= MaxOutput
  <2>1. NoExit
    BY <1>6, RoomToHand
  <2>2. Cardinality(Written) < MaxOutput
    BY <1>6 DEF SendOutput, Written
  <2>3. o # "pid" /\ o # "exit"
    BY DEF Outs
  <2> QED
    BY <1>3, <1>6, <2>1, <2>2, <2>3
<1> QED
  BY <1>2, <1>4, <1>5, <1>6, ProducedStep

-----------------------------------------------------------------------------
(* The way of the responses.                                               *)

LEMMA InHandType ==
  ASSUME SndTypes, ResponseFlow
  PROVE  InHand \in Seq(Responses)
BY DEF ResponseFlow, InHand

LEMMA ChanStep ==
  ASSUME TypeOK, ResponseFlow, [Next]_vars
  PROVE  ChanTypes' /\ crashed' \in BOOLEAN
<1>a. ChanTypes /\ SndTypes /\ crashed \in BOOLEAN /\ RespCap \in Nat
  BY Types, MultiplexerConstants
<1>1. CASE UNCHANGED execResps
  BY <1>1, <1>a, Changes DEF ChangesOf, ChanTypes, Send
<1>2. CASE Send /\ ~UNCHANGED execResps
  <2>1. execResps' = Append(execResps, item) /\ Len(execResps) < RespCap /\ UNCHANGED crashed
    BY <1>2 DEF Send
  <2>2. item \in Responses /\ Len(execResps) \in Nat
    BY <1>2, <1>a DEF Send, ResponseFlow, ChanTypes
  <2> QED
    BY <1>a, <2>1, <2>2 DEF ChanTypes
<1>3. CASE TakeResponse
  <2>1. execResps' = Tail(execResps) /\ execResps # <<>> /\ UNCHANGED crashed
    BY <1>3 DEF TakeResponse
  <2>2. Tail(execResps) \in Seq(Responses) /\ Len(Tail(execResps)) = Len(execResps) - 1
        /\ Len(execResps) \in Nat
    BY <1>a, <2>1 DEF ChanTypes
  <2> QED
    BY <1>a, <2>1, <2>2 DEF ChanTypes
<1> QED
  BY <1>1, <1>2, <1>3, Changes DEF ChangesOf

LEMMA LastRelayed ==
  ASSUME BcTypes, relayed # <<>>
  PROVE  Last(relayed) \in Responses /\ Last(relayed) = relayed[Len(relayed)]
         /\ Len(relayed) \in Nat \ {0} /\ Last(relayed) \in ToSet(relayed)
<1>1. relayed \in Seq(Responses) /\ Len(relayed) \in Nat \ {0}
  BY DEF BcTypes
<1> QED
  BY <1>1 DEF Last, ToSet

LEMMA BcStep ==
  ASSUME TypeOK, Broadcast, [Next]_vars
  PROVE  BcTypes'
<1>a. BcTypes /\ ChanTypes /\ ClientTypes
  BY Types
<1>1. CASE UNCHANGED bcVars
  BY <1>1, <1>a DEF BcTypes, bcVars
<1>2. CASE StartProcess \/ Broadcasted \/ BroadcastEnds
  BY <1>2, <1>a DEF BcTypes, StartProcess, Broadcasted, BroadcastEnds
<1>3. CASE TakeResponse
  <2>1. Head(execResps) \in Responses
    BY <1>3, <1>a DEF ChanTypes, TakeResponse
  <2> QED
    BY <1>3, <1>a, <2>1 DEF BcTypes, ClientTypes, TakeResponse
<1>4. ASSUME NEW s \in Streams, WriteTo(s) PROVE BcTypes'
  <2>1. current \in Responses
    BY <1>4, <1>a, LastRelayed DEF WriteTo, Broadcast
  <2> DEFINE g == Append(got[s], current)
  <2>2. g \in Seq(Responses)
    BY <1>a, <2>1 DEF BcTypes
  <2>3. got' \in [Streams -> Seq(Responses)]
    <3>1. got' = [got EXCEPT ![s] = g] \/ got' = got
      BY <1>4 DEF WriteTo
    <3> HIDE DEF g
    <3> QED
      BY <1>a, <2>2, <3>1 DEF BcTypes
  <2>4. todo' \subseteq Streams /\ UNCHANGED <<bc, current, relayed, recorded>>
    BY <1>4, <1>a DEF BcTypes, WriteTo
  <2> QED
    BY <1>a, <2>3, <2>4 DEF BcTypes
<1> QED
  BY <1>1, <1>2, <1>3, <1>4, Changes DEF ChangesOf, BcChange

\* The hand-over, the send and the recording keep the order of the responses.
LEMMA ResponseStep ==
  ASSUME TypeOK, Stages, Numbered, Cardinality(Written) <= MaxOutput, ResponseFlow,
         [Next]_vars
  PROVE  ResponseFlow'
<1>a. SndTypes /\ ChanTypes /\ BcTypes /\ InHand \in Seq(Responses)
  BY Types, InHandType
<1>b. produced \in Seq(Responses) /\ execResps \in Seq(Responses) /\ relayed \in Seq(Responses)
  BY <1>a DEF SndTypes, ChanTypes, BcTypes
<1>c. produced = Line(relayed, execResps, InHand)
  BY DEF ResponseFlow
<1>1. CASE snd = "idle" /\ snd' = "busy" /\ UNCHANGED <<bcVars, execResps>>
           /\ Len(produced) <= MaxOutput + 1
           /\ \E k \in Outs \cup {"pid", "exit"} : Hand(k)
  <2>1. item' \in Responses /\ produced' = Append(produced, item') /\ UNCHANGED relayed
    BY <1>1, Handed DEF bcVars
  <2>2. InHand = <<>> /\ InHand' = <<item'>>
    BY <1>1 DEF InHand
  <2>3. Line(relayed, execResps, <<item'>>) = Append(Line(relayed, execResps, <<>>), item')
    BY <1>a, <1>b, <2>1, LineMoves
  <2> QED
    BY <1>1, <1>c, <2>1, <2>2, <2>3 DEF ResponseFlow
<1>2. CASE UNCHANGED produced /\ (snd' = "busy" => snd = "busy" /\ UNCHANGED item)
  <2>1. snd' = "busy" => item' \in Responses
    BY <1>2 DEF ResponseFlow
  <2>2. CASE Send
    <3>1. CASE UNCHANGED <<execResps, snd, item, relayed>>
      BY <1>2, <1>c, <2>1, <3>1 DEF ResponseFlow, InHand
    <3>2. CASE execResps' = Append(execResps, item) /\ snd = "busy" /\ snd' = "idle"
      <4>1. item \in Responses /\ InHand = <<item>> /\ InHand' = <<>> /\ UNCHANGED relayed
        BY <2>2, <3>2 DEF ResponseFlow, InHand, Send, bcVars
      <4>2. Line(relayed, Append(execResps, item), <<>>) = Line(relayed, execResps, <<item>>)
        BY <1>a, <1>b, <4>1, LineMoves
      <4> QED
        BY <1>2, <1>c, <2>1, <3>2, <4>1, <4>2 DEF ResponseFlow
    <3> QED
      BY <2>2, <3>1, <3>2 DEF Send, bcVars
  <2>3. CASE TakeResponse
    <3>1. /\ execResps # <<>> /\ execResps' = Tail(execResps)
          /\ relayed' = Append(relayed, Head(execResps)) /\ UNCHANGED sndVars
      BY <2>3 DEF TakeResponse
    <3>2. InHand' = InHand
      BY <3>1 DEF InHand, sndVars
    <3>3. Line(Append(relayed, Head(execResps)), Tail(execResps), InHand)
            = Line(relayed, execResps, InHand)
      BY <1>a, <1>b, <3>1, LineTakes
    <3> QED
      BY <1>2, <1>c, <2>1, <3>1, <3>2, <3>3 DEF ResponseFlow
  <2>4. CASE ~Send /\ ~TakeResponse
    <3>1. UNCHANGED execResps
      BY <2>4, Changes DEF ChangesOf
    <3>2. UNCHANGED relayed
      BY <2>4, Changes DEF ChangesOf, bcVars, BcChange, StartProcess, Broadcasted,
         BroadcastEnds, WriteTo
    <3>3. (snd' = "busy") = (snd = "busy")
      BY <1>2, <2>4, Changes DEF ChangesOf, SndChange, sndVars, ReceiveInitial, SendPid,
         SendExit, CloseSender, SendOutput, NoHand, Hand, Stages
    <3> QED
      BY <1>2, <1>c, <2>1, <3>1, <3>2, <3>3 DEF ResponseFlow, InHand
  <2> QED
    BY <2>2, <2>3, <2>4
<1> QED
  BY <1>1, <1>2, ProducedStep DEF Outs

LEMMA RecordedNumbers ==
  ASSUME TypeOK, Numbered, ResponseFlow
  PROVE  \A i \in 1..Len(relayed) : relayed[i].n = i
<1>1. relayed \in Seq(Responses) /\ execResps \in Seq(Responses) /\ InHand \in Seq(Responses)
  BY Types, InHandType DEF ChanTypes, BcTypes
<1>2. /\ Len(relayed) <= Len(Line(relayed, execResps, InHand))
      /\ \A i \in 1..Len(relayed) : Line(relayed, execResps, InHand)[i] = relayed[i]
  BY <1>1, LineFront
<1>3. Len(relayed) \in Nat /\ Len(produced) \in Nat
  BY <1>1, Types DEF SndTypes
<1>4. /\ Len(relayed) <= Len(produced)
      /\ \A i \in 1..Len(relayed) : produced[i] = relayed[i]
  BY <1>2 DEF ResponseFlow
<1> QED
  BY <1>3, <1>4 DEF Numbered

\* A client that is still to be written to is behind the response being broadcast.
LEMMA BroadcastKept ==
  ASSUME TypeOK, Numbered, ResponseFlow, Broadcast, [Next]_vars
  PROVE  Broadcast'
<1>a. BcTypes /\ ChanTypes
  BY Types
<1>b. Len(relayed) \in Nat /\ relayed \in Seq(Responses) /\ got \in [Streams -> Seq(Responses)]
  BY <1>a DEF BcTypes
<1>c. \A s \in Streams : /\ got[s] \in Seq(Responses) /\ Len(got[s]) \in Nat
                         /\ \A i \in 1..Len(got[s]) : got[s][i].n \in Nat
  <2> SUFFICES ASSUME NEW s \in Streams, NEW i \in 1..Len(got[s]) PROVE got[s][i].n \in Nat
    BY <1>b
  <2>1. got[s][i] \in Responses
    BY <1>b
  <2> QED
    BY <2>1, MultiplexerConstants DEF Responses
<1>1. CASE UNCHANGED bcVars
  BY <1>1 DEF Broadcast, bcVars, DeliveredInOrder
<1>2. CASE StartProcess \/ Broadcasted \/ BroadcastEnds
  <2>1. bc' # "write" /\ UNCHANGED <<got, relayed>>
    BY <1>2 DEF StartProcess, Broadcasted, BroadcastEnds
  <2> QED
    BY <2>1 DEF Broadcast, DeliveredInOrder
<1>3. CASE TakeResponse
  <2> DEFINE h == Head(execResps)
  <2>1. /\ relayed' = Append(relayed, h) /\ current' = h /\ UNCHANGED got
        /\ execResps # <<>>
    BY <1>3 DEF TakeResponse
  <2>2. h \in Responses
    BY <1>a, <2>1 DEF ChanTypes
  <2> HIDE DEF h
  <2>3. /\ Len(relayed') = Len(relayed) + 1 /\ relayed' # <<>>
        /\ ToSet(relayed) \subseteq ToSet(relayed')
        /\ relayed'[Len(relayed')] = h
    <3>1. /\ relayed' \in Seq(Responses) /\ Len(relayed') = Len(relayed) + 1
          /\ \A i \in 1..Len(relayed) : relayed'[i] = relayed[i]
          /\ relayed'[Len(relayed) + 1] = h
      BY <1>b, <2>1, <2>2
    <3>2. ASSUME NEW y \in ToSet(relayed) PROVE y \in ToSet(relayed')
      <4>1. DOMAIN relayed = 1..Len(relayed) /\ DOMAIN relayed' = 1..Len(relayed) + 1
        BY <1>b, <3>1
      <4>2. PICK i \in 1..Len(relayed) : y = relayed[i]
        BY <4>1 DEF ToSet
      <4>3. i \in 1..Len(relayed) + 1 /\ relayed'[i] = y
        BY <1>b, <3>1, <4>2
      <4> QED
        BY <4>1, <4>3 DEF ToSet
    <3>3. relayed' # <<>> /\ relayed'[Len(relayed')] = h
      BY <1>b, <3>1
    <3>4. ToSet(relayed) \subseteq ToSet(relayed')
      BY <3>2
    <3> QED
      BY <3>1, <3>3, <3>4
  <2>4. Last(relayed)' = h
    BY <2>3 DEF Last
  <2>5. ASSUME NEW s \in Streams, NEW i \in 1..Len(got'[s])
        PROVE  got'[s][i].n < Len(relayed')
    <3>1. got'[s][i] = got[s][i] /\ i \in 1..Len(got[s])
      BY <2>1, <2>5
    <3>2. got[s][i].n \in Nat /\ got[s][i].n <= Len(relayed)
      BY <1>c, <3>1 DEF Broadcast
    <3> QED
      BY <1>b, <2>3, <3>1, <3>2
  <2>6. DeliveredInOrder'
    BY <2>1, <2>3 DEF Broadcast, DeliveredInOrder
  <2>7. ASSUME NEW s \in Streams, NEW i \in 1..Len(got'[s])
        PROVE  got'[s][i].n <= Len(relayed')
    BY <1>b, <1>c, <2>1, <2>3, <2>5
  <2> QED
    BY <2>1, <2>3, <2>4, <2>5, <2>6, <2>7 DEF Broadcast
<1>4. ASSUME NEW s \in Streams, WriteTo(s) PROVE Broadcast'
  <2>1. /\ relayed # <<>> /\ current = Last(relayed) /\ s \in todo /\ bc = "write"
        /\ UNCHANGED <<bc, current, relayed>> /\ todo' \subseteq todo
    BY <1>4 DEF WriteTo, Broadcast
  <2>2. CASE UNCHANGED got
    BY <2>1, <2>2 DEF Broadcast, DeliveredInOrder, Last
  <2>3. CASE got' = [got EXCEPT ![s] = Append(got[s], current)] /\ todo' = todo \ {s}
    <3> DEFINE g == Append(got[s], current)
               n == Len(got[s])
    <3>1. /\ current \in Responses /\ current.n = Len(relayed) /\ current \in ToSet(relayed)
      BY <1>a, <2>1, LastRelayed, RecordedNumbers
    <3>2. /\ n \in Nat /\ Len(g) = n + 1 /\ g[n + 1] = current
          /\ \A i \in 1..n : g[i] = got[s][i]
      BY <1>c, <3>1
    <3>3. got'[s] = g /\ \A q \in Streams : q # s => got'[q] = got[q]
      BY <1>b, <2>3
    <3>4. \A i \in 1..n : got[s][i].n < Len(relayed)
      BY <2>1 DEF Broadcast
    <3>5. /\ \A i, j \in 1..n : i < j => got[s][i].n < got[s][j].n
          /\ \A i \in 1..n : got[s][i] \in ToSet(relayed)
      BY DEF Broadcast, DeliveredInOrder
    <3> HIDE DEF g, n
    <3>6. /\ \A i, j \in 1..n + 1 : i < j => g[i].n < g[j].n
          /\ \A i \in 1..n + 1 : g[i] \in ToSet(relayed) /\ g[i].n <= Len(relayed)
      <4>1. \A i \in 1..n + 1 : i \in 1..n \/ i = n + 1
        BY <3>2
      <4>2. \A i \in 1..n : got[s][i].n \in Nat
        BY <1>c DEF n
      <4>3. \A i, j \in 1..n + 1 : i < j => i \in 1..n
        BY <3>2
      <4>4. ASSUME NEW i \in 1..n + 1, NEW j \in 1..n + 1, i < j PROVE g[i].n < g[j].n
        <5>1. i \in 1..n /\ g[i] = got[s][i]
          BY <3>2, <4>3, <4>4
        <5>2. CASE j \in 1..n
          BY <3>2, <3>5, <4>4, <5>1, <5>2
        <5>3. CASE j = n + 1
          BY <3>1, <3>2, <3>4, <5>1, <5>3
        <5> QED
          BY <4>1, <5>2, <5>3
      <4>5. ASSUME NEW i \in 1..n + 1 PROVE g[i] \in ToSet(relayed) /\ g[i].n <= Len(relayed)
        <5>1. CASE i \in 1..n
          <6>1. g[i] = got[s][i] /\ got[s][i].n \in Nat /\ got[s][i].n < Len(relayed)
            BY <3>2, <3>4, <4>2, <5>1
          <6> QED
            BY <1>b, <3>5, <5>1, <6>1
        <5>2. CASE i = n + 1
          BY <1>b, <3>1, <3>2, <5>2
        <5> QED
          BY <4>1, <5>1, <5>2
      <4> QED
        BY <4>4, <4>5
    <3>7. DeliveredInOrder'
      <4> SUFFICES ASSUME NEW q \in Streams
                   PROVE  /\ \A i, j \in 1..Len(got'[q]) : i < j => got'[q][i].n < got'[q][j].n
                          /\ \A i \in 1..Len(got'[q]) : got'[q][i] \in ToSet(relayed)
        BY <2>1 DEF DeliveredInOrder
      <4>1. CASE q = s
        BY <3>2, <3>3, <3>6, <4>1
      <4>2. CASE q # s
        BY <3>3, <4>2 DEF Broadcast, DeliveredInOrder
      <4> QED
        BY <4>1, <4>2
    <3>8. ASSUME NEW q \in Streams, NEW i \in 1..Len(got'[q])
          PROVE  /\ got'[q][i].n <= Len(relayed)
                 /\ q \in todo' => got'[q][i].n < Len(relayed)
      <4>1. CASE q = s
        BY <2>3, <3>2, <3>3, <3>6, <4>1
      <4>2. CASE q # s
        BY <2>1, <2>3, <3>3, <4>2 DEF Broadcast
      <4> QED
        BY <4>1, <4>2
    <3> QED
      BY <2>1, <3>7, <3>8 DEF Broadcast, Last
  <2> QED
    BY <1>4, <2>1, <2>2, <2>3 DEF WriteTo
<1> QED
  BY <1>1, <1>2, <1>3, <1>4, Changes DEF ChangesOf, BcChange

-----------------------------------------------------------------------------
(* What is left of a sequence of requests without those of other kinds.    *)

LEMMA RankFacts ==
  ASSUME NEW w \in Seq(Requests), NEW q \in Seq(Requests), NEW rank, Ranks(rank, w, q)
  PROVE  /\ Len(w) \in Nat /\ Len(q) \in Nat
         /\ \A j \in 0..Len(q) : rank[j] \in 0..Len(w)
         /\ rank[0] = 0 /\ rank[Len(q)] = Len(w)
         /\ \A i, j \in 0..Len(q) : i <= j => rank[i] <= rank[j]
         /\ \A j \in 1..Len(q) : q[j].kind = "other" => rank[j] = rank[j - 1]
         /\ \A j \in 1..Len(q) : q[j].kind # "other" => rank[j] = rank[j - 1] + 1
         /\ \A j \in 1..Len(q) : q[j].kind # "other" => w[rank[j]] = q[j]
<1>1. Len(w) \in Nat /\ Len(q) \in Nat
  OBVIOUS
<1>2. /\ \A j \in 0..Len(q) : rank[j] \in 0..Len(w)
      /\ rank[0] = 0 /\ rank[Len(q)] = Len(w)
      /\ \A i, j \in 0..Len(q) : i <= j => rank[i] <= rank[j]
  BY DEF Ranks
<1>3. \A j \in 1..Len(q) : IF q[j].kind = "other" THEN rank[j] = rank[j - 1]
                          ELSE rank[j] = rank[j - 1] + 1 /\ w[rank[j]] = q[j]
  BY Zenon DEF Ranks
<1> QED
  BY <1>1, <1>2, <1>3, Zenon

\* A request enters the sequence.
LEMMA EnterRequest ==
  ASSUME NEW w \in Seq(Requests), NEW q \in Seq(Requests), ExecutesOf(w, q), NEW x \in Requests
  PROVE  ExecutesOf(IF x.kind = "other" THEN w ELSE Append(w, x), Append(q, x))
<1> DEFINE n == Len(q)
           v == IF x.kind = "other" THEN w ELSE Append(w, x)
           p == Append(q, x)
<1>1. PICK rank : Ranks(rank, w, q)
  BY DEF ExecutesOf
<1> DEFINE r == [j \in 0..n + 1 |-> IF j = n + 1 THEN Len(v) ELSE rank[j]]
<1>2. /\ n \in Nat /\ Len(p) = n + 1 /\ p[n + 1] = x /\ p \in Seq(Requests)
      /\ \A j \in 1..n : p[j] = q[j]
  OBVIOUS
<1>3. /\ Len(w) \in Nat /\ v \in Seq(Requests)
      /\ Len(v) = IF x.kind = "other" THEN Len(w) ELSE Len(w) + 1
      /\ \A j \in 1..Len(w) : v[j] = w[j]
      /\ x.kind # "other" => v[Len(v)] = x
  OBVIOUS
<1>4. /\ \A j \in 0..n : rank[j] \in 0..Len(w)
      /\ rank[0] = 0 /\ rank[n] = Len(w)
      /\ \A i, j \in 0..n : i <= j => rank[i] <= rank[j]
      /\ \A j \in 1..n : q[j].kind = "other" => rank[j] = rank[j - 1]
      /\ \A j \in 1..n : q[j].kind # "other" => rank[j] = rank[j - 1] + 1
      /\ \A j \in 1..n : q[j].kind # "other" => w[rank[j]] = q[j]
  BY <1>1, RankFacts
<1> HIDE DEF n, v, p
<1>5. r[n + 1] = Len(v) /\ \A j \in 0..n : r[j] = rank[j] /\ r[j] \in 0..Len(w)
  BY <1>2, <1>4
<1>6. r \in [0..n + 1 -> 0..Len(v)]
  BY <1>2, <1>3, <1>4
<1> HIDE DEF r
<1>7. \A i, j \in 0..n + 1 : i <= j => r[i] <= r[j]
  <2> SUFFICES ASSUME NEW i \in 0..n + 1, NEW j \in 0..n + 1, i <= j PROVE r[i] <= r[j]
    OBVIOUS
  <2>1. CASE j = n + 1
    <3>1. r[i] \in 0..Len(v)
      BY <1>6
    <3> QED
      BY <1>3, <1>5, <2>1, <3>1
  <2>2. CASE j # n + 1
    <3>1. i \in 0..n /\ j \in 0..n
      BY <1>2, <2>2
    <3> QED
      BY <1>4, <1>5, <3>1
  <2> QED
    BY <2>1, <2>2
<1>8. ASSUME NEW j \in 1..n + 1
      PROVE  IF p[j].kind = "other" THEN r[j] = r[j - 1]
             ELSE r[j] = r[j - 1] + 1 /\ v[r[j]] = p[j]
  <2>1. CASE j = n + 1
    <3>1. j - 1 = n /\ r[j - 1] = Len(w) /\ r[j] = Len(v) /\ p[j] = x
      BY <1>2, <1>4, <1>5, <2>1
    <3> QED
      BY <1>3, <3>1
  <2>2. CASE j # n + 1
    <3>1. j \in 1..n /\ j - 1 \in 0..n /\ j \in 0..n
      BY <1>2, <2>2
    <3>2. r[j] = rank[j] /\ r[j - 1] = rank[j - 1] /\ p[j] = q[j] /\ rank[j - 1] \in 0..Len(w)
          /\ rank[j] \in 0..Len(w)
      BY <1>2, <1>4, <1>5, <3>1
    <3>3. CASE q[j].kind = "other"
      BY <1>4, <3>1, <3>2, <3>3
    <3>4. CASE q[j].kind # "other"
      <4>1. rank[j] = rank[j - 1] + 1 /\ w[rank[j]] = q[j]
        BY <1>4, <3>1, <3>4
      <4>2. rank[j] \in 1..Len(w)
        BY <1>3, <3>2, <4>1
      <4> QED
        BY <1>3, <3>2, <3>4, <4>1, <4>2
    <3> QED
      BY <3>3, <3>4
  <2> QED
    BY <2>1, <2>2
<1>9. Ranks(r, v, p)
  <2>1. 0 \in 0..n /\ r[0] = 0
    BY <1>2, <1>4, <1>5
  <2> QED
    BY <1>2, <1>5, <1>6, <1>7, <1>8, <2>1 DEF Ranks
<1> QED
  BY <1>2, <1>6, <1>9 DEF ExecutesOf, v, p

\* The first request leaves it, and if it is to be executed it is the first of those.
LEMMA LeaveRequest ==
  ASSUME NEW w \in Seq(Requests), NEW q \in Seq(Requests), ExecutesOf(w, q), q # <<>>
  PROVE  IF Head(q).kind = "other" THEN ExecutesOf(w, Tail(q))
         ELSE w # <<>> /\ Head(w) = Head(q) /\ ExecutesOf(Tail(w), Tail(q))
<1> DEFINE n == Len(q) - 1
           p == Tail(q)
           d == IF Head(q).kind = "other" THEN 0 ELSE 1
           v == IF Head(q).kind = "other" THEN w ELSE Tail(w)
<1>1. PICK rank : Ranks(rank, w, q)
  BY DEF ExecutesOf
<1>2. /\ n \in Nat /\ Len(q) = n + 1 /\ Len(p) = n /\ p \in Seq(Requests) /\ q[1] = Head(q)
      /\ \A j \in 1..n : p[j] = q[j + 1]
  OBVIOUS
<1>3. /\ Len(w) \in Nat
      /\ \A j \in 0..n + 1 : rank[j] \in 0..Len(w)
      /\ rank[0] = 0 /\ rank[n + 1] = Len(w)
      /\ \A i, j \in 0..n + 1 : i <= j => rank[i] <= rank[j]
      /\ \A j \in 1..n + 1 : q[j].kind = "other" => rank[j] = rank[j - 1]
      /\ \A j \in 1..n + 1 : q[j].kind # "other" => rank[j] = rank[j - 1] + 1
      /\ \A j \in 1..n + 1 : q[j].kind # "other" => w[rank[j]] = q[j]
  BY <1>1, <1>2, RankFacts
<1>4. rank[1] = d /\ d \in {0, 1} /\ 1 \in 0..n + 1 /\ (d = 1 => w[1] = Head(q) /\ Len(w) >= 1)
  <2>1. 1 \in 1..n + 1 /\ 1 \in 0..n + 1 /\ 1 - 1 = 0
    BY <1>2
  <2>2. rank[1] \in 0..Len(w)
    BY <1>3, <2>1
  <2>3. CASE q[1].kind = "other"
    BY <1>2, <1>3, <2>1, <2>3
  <2>4. CASE q[1].kind # "other"
    <3>1. rank[1] = 1 /\ w[rank[1]] = q[1]
      BY <1>3, <2>1, <2>4
    <3> QED
      BY <1>2, <1>3, <2>1, <2>2, <2>4, <3>1
  <2> QED
    BY <2>3, <2>4
<1>5. /\ d = 1 => w # <<>> /\ Head(w) = Head(q)
      /\ v \in Seq(Requests) /\ Len(v) = Len(w) - d /\ \A j \in 1..Len(w) - d : v[j] = w[j + d]
  <2>1. CASE d = 0
    BY <1>3, <2>1
  <2>2. CASE d = 1
    <3>1. w # <<>> /\ Len(w) \in Nat \ {0} /\ v = Tail(w)
      BY <1>4, <2>2
    <3>2. Head(w) = w[1] /\ Len(Tail(w)) = Len(w) - 1 /\ Tail(w) \in Seq(Requests)
      BY <3>1
    <3>3. \A j \in 1..Len(w) - 1 : Tail(w)[j] = w[j + 1]
      BY <3>1
    <3> QED
      BY <1>4, <2>2, <3>1, <3>2, <3>3
  <2> QED
    BY <1>4, <2>1, <2>2
<1> DEFINE r == [j \in 0..n |-> rank[j + 1] - d]
<1> HIDE DEF n, p, v, d
<1>6. ASSUME NEW j \in 0..n
      PROVE  /\ j + 1 \in 0..n + 1 /\ r[j] = rank[j + 1] - d
             /\ rank[j + 1] \in d..Len(w) /\ r[j] \in 0..Len(w) - d
  <2>1. j + 1 \in 0..n + 1 /\ 1 <= j + 1
    BY <1>2
  <2>2. rank[j + 1] \in 0..Len(w) /\ d <= rank[j + 1]
    BY <1>3, <1>4, <2>1
  <2> QED
    BY <1>3, <1>4, <2>1, <2>2
<1>7. r \in [0..n -> 0..Len(v)]
  BY <1>5, <1>6
<1> HIDE DEF r
<1>8. r[0] = 0 /\ r[n] = Len(v)
  <2>1. 0 \in 0..n /\ n \in 0..n /\ 0 + 1 = 1
    BY <1>2
  <2>2. r[0] = rank[1] - d /\ r[n] = rank[n + 1] - d
    BY <1>6, <2>1
  <2> QED
    BY <1>3, <1>4, <1>5, <2>2
<1>9. ASSUME NEW i \in 0..n, NEW j \in 0..n, i <= j PROVE r[i] <= r[j]
  <2>1. i + 1 \in 0..n + 1 /\ j + 1 \in 0..n + 1 /\ i + 1 <= j + 1
    BY <1>2, <1>6, <1>9
  <2>2. rank[i + 1] <= rank[j + 1] /\ rank[i + 1] \in Int /\ rank[j + 1] \in Int
    BY <1>3, <2>1
  <2> QED
    BY <1>4, <1>6, <2>2
<1>10. ASSUME NEW j \in 1..n
       PROVE  IF p[j].kind = "other" THEN r[j] = r[j - 1]
              ELSE r[j] = r[j - 1] + 1 /\ v[r[j]] = p[j]
  <2>1. j - 1 \in 0..n /\ j \in 0..n /\ (j - 1) + 1 = j /\ j + 1 \in 1..n + 1 /\ (j + 1) - 1 = j
    BY <1>2
  <2>2. r[j] = rank[j + 1] - d /\ r[j - 1] = rank[j] - d /\ p[j] = q[j + 1]
    BY <1>2, <1>6, <2>1
  <2>3. rank[j] \in d..Len(w) /\ rank[j + 1] \in d..Len(w)
    BY <1>6, <2>1
  <2>4. CASE q[j + 1].kind = "other"
    <3>1. rank[j + 1] = rank[j]
      BY <1>3, <2>1, <2>4
    <3> QED
      BY <2>2, <2>4, <3>1
  <2>5. CASE q[j + 1].kind # "other"
    <3>1. rank[j + 1] = rank[j] + 1 /\ w[rank[j + 1]] = q[j + 1]
      BY <1>3, <2>1, <2>5, SMTT(20)
    <3>2. r[j] \in 1..Len(w) - d /\ r[j] + d = rank[j + 1] /\ r[j] = r[j - 1] + 1
      BY <1>3, <1>4, <2>2, <2>3, <3>1, SMTT(20)
    <3>3. v[r[j]] = w[rank[j + 1]]
      BY <1>5, <3>2
    <3> QED
      BY <2>2, <2>5, <3>1, <3>2, <3>3
  <2> QED
    BY <2>4, <2>5
<1>11. Ranks(r, v, p)
  BY <1>2, <1>7, <1>8, <1>9, <1>10 DEF Ranks
<1>12. ExecutesOf(v, p)
  BY <1>2, <1>7, <1>11 DEF ExecutesOf
<1> QED
  BY <1>5, <1>12 DEF v, p, d

-----------------------------------------------------------------------------
(* The way of the requests.                                                *)

LEMMA PassingType ==
  ASSUME TypeOK, Holding
  PROVE  /\ Passing \in Seq(Requests) /\ Forwarded \in Seq(Requests)
         /\ authed \in Seq(Requests) /\ execReqs \in Seq(Requests)
         /\ accepted \in Seq(Requests) /\ taken \in Seq(Requests)
<1>1. Passing \in Seq(Requests)
  BY DEF Holding, Passing
<1>2. /\ authed \in Seq(Requests) /\ execReqs \in Seq(Requests)
      /\ accepted \in Seq(Requests) /\ taken \in Seq(Requests)
  BY Types DEF ReqTypes
<1>3. Forwarded \in Seq(Requests)
  BY <1>1, <1>2, LineFront DEF Forwarded
<1> QED
  BY <1>1, <1>2, <1>3

LEMMA ReqStep ==
  ASSUME TypeOK, Holding, [Next]_vars
  PROVE  ReqTypes'
<1>a. ReqTypes /\ ProcTypes /\ AuthCap \in Nat /\ ReqCap \in Nat
  BY Types, MultiplexerConstants
<1>1. CASE UNCHANGED reqVars
  BY <1>1, <1>a DEF ReqTypes, reqVars
<1>2. ASSUME NEW s \in Streams, handleRequest(s) PROVE ReqTypes'
  <2>1. pending[s] \in Requests /\ Len(authed) < AuthCap /\ UNCHANGED <<execReqs, taken>>
    BY <1>2 DEF handleRequest, Holding
  <2> DEFINE x == pending[s]
  <2>2. /\ authed' = Append(authed, x)
        /\ accepted' = accepted \/ accepted' = Append(accepted, x)
    BY <1>2 DEF handleRequest
  <2>3. x \in Requests
    BY <2>1
  <2> HIDE DEF x
  <2>4. authed' \in Seq(Requests) /\ Len(authed') <= AuthCap
    BY <1>a, <2>1, <2>2, <2>3 DEF ReqTypes
  <2>5. accepted' \in Seq(Requests)
    <3>1. accepted \in Seq(Requests) /\ Append(accepted, x) \in Seq(Requests)
      BY <1>a, <2>3 DEF ReqTypes
    <3> QED
      BY <2>2, <3>1, Zenon
  <2> QED
    BY <1>a, <2>1, <2>4, <2>5 DEF ReqTypes
<1>3. CASE NextRequest
  <2>1. authed # <<>> /\ authed' = Tail(authed) /\ UNCHANGED <<execReqs, taken, accepted>>
    BY <1>3 DEF NextRequest
  <2>2. Tail(authed) \in Seq(Requests) /\ Len(Tail(authed)) = Len(authed) - 1
        /\ Len(authed) \in Nat
    BY <1>a, <2>1 DEF ReqTypes
  <2> QED
    BY <1>a, <2>1, <2>2 DEF ReqTypes
<1>4. CASE Forward
  BY <1>4, <1>a DEF Forward, ReqTypes, Holding
<1>5. CASE TakeRequest /\ UNCHANGED <<authed, accepted>>
  <2>1. /\ execReqs # <<>> /\ execReqs' = Tail(execReqs)
        /\ taken' = Append(taken, Head(execReqs))
    BY <1>5 DEF TakeRequest
  <2>2. /\ Tail(execReqs) \in Seq(Requests) /\ Len(Tail(execReqs)) = Len(execReqs) - 1
        /\ Len(execReqs) \in Nat /\ Head(execReqs) \in Requests
    BY <1>a, <2>1 DEF ReqTypes
  <2> QED
    BY <1>5, <1>a, <2>1, <2>2 DEF ReqTypes
<1>6. CASE ReceiveInitial \/ ReceiveNext
  BY <1>1, <1>5, <1>6 DEF ReceiveInitial, ReceiveNext, reqVars
<1> QED
  BY <1>1, <1>2, <1>3, <1>4, <1>6, Changes DEF ChangesOf, ReqChange

\* What a step does to what process has forwarded, and to what waits for it.
Entering(s) == /\ authed' = Append(authed, pending[s]) /\ reader[s] = "passing"
               /\ accepted' = IF pending[s].kind = "other" THEN accepted
                                                           ELSE Append(accepted, pending[s])
               /\ Forwarded' = Forwarded /\ UNCHANGED <<taken, commands>>
Skipping == /\ authed # <<>> /\ authed' = Tail(authed) /\ Head(authed).kind = "other"
            /\ Forwarded' = Forwarded /\ UNCHANGED <<taken, accepted, commands>>
Choosing == /\ authed # <<>> /\ authed' = Tail(authed) /\ Head(authed).kind # "other"
            /\ Forwarded' = Append(Forwarded, Head(authed)) /\ UNCHANGED <<taken, accepted>>
            /\ commands' = commands + (IF Head(authed).kind = "config" THEN 1 ELSE 0)
Moving == /\ Forwarded' = Forwarded /\ UNCHANGED <<authed, accepted, commands>>
          /\ \/ UNCHANGED taken
             \/ execReqs # <<>> /\ taken' = Append(taken, Head(execReqs))

LEMMA ForwardedStep ==
  ASSUME TypeOK, Holding, [Next]_vars
  PROVE  (\E s \in Streams : Entering(s)) \/ Skipping \/ Choosing \/ Moving
<1>a. /\ Passing \in Seq(Requests) /\ Forwarded \in Seq(Requests)
      /\ authed \in Seq(Requests) /\ execReqs \in Seq(Requests)
      /\ accepted \in Seq(Requests) /\ taken \in Seq(Requests)
  BY PassingType
<1>1. ASSUME UNCHANGED <<execReqs, taken, proc, forwarding>> PROVE Forwarded' = Forwarded
  BY <1>1 DEF Forwarded, Passing
<1>2. ASSUME NEW s \in Streams, handleRequest(s) PROVE Entering(s)
  BY <1>1, <1>2 DEF handleRequest, Entering, procVars, tapVars
<1>3. CASE NextRequest
  <2>1. CASE Head(authed).kind = "other"
    BY <1>1, <1>3, <2>1 DEF NextRequest, Skipping
  <2>2. CASE Head(authed).kind # "other"
    <3>1. /\ Passing = <<>> /\ Passing' = <<Head(authed)>> /\ UNCHANGED <<execReqs, taken>>
          /\ Head(authed) \in Requests
      BY <1>3, <1>a, <2>2 DEF NextRequest, Passing
    <3>2. Line(taken, execReqs, <<Head(authed)>>)
            = Append(Line(taken, execReqs, <<>>), Head(authed))
      BY <1>a, <3>1, LineMoves
    <3>3. Forwarded' = Append(Forwarded, Head(authed))
      BY <3>1, <3>2 DEF Forwarded
    <3> QED
      BY <1>3, <2>2, <3>1, <3>3 DEF NextRequest, Choosing
  <2> QED
    BY <2>1, <2>2
<1>4. CASE Forward
  <2>1. /\ Passing = <<forwarding>> /\ Passing' = <<>> /\ forwarding \in Requests
        /\ execReqs' = Append(execReqs, forwarding)
        /\ UNCHANGED <<taken, authed, accepted, commands>>
    BY <1>4 DEF Forward, Passing, Holding, tapVars
  <2>2. Line(taken, Append(execReqs, forwarding), <<>>) = Line(taken, execReqs, <<forwarding>>)
    BY <1>a, <2>1, LineMoves
  <2>3. Forwarded' = Forwarded
    BY <2>1, <2>2 DEF Forwarded
  <2> QED
    BY <2>1, <2>3 DEF Moving
<1>5. CASE TakeRequest /\ UNCHANGED <<authed, accepted, procVars, tapVars>>
  <2>1. /\ execReqs # <<>> /\ execReqs' = Tail(execReqs)
        /\ taken' = Append(taken, Head(execReqs)) /\ Passing' = Passing
        /\ UNCHANGED <<authed, accepted, commands>>
    BY <1>5 DEF TakeRequest, Passing, procVars, tapVars
  <2>2. Line(Append(taken, Head(execReqs)), Tail(execReqs), Passing)
          = Line(taken, execReqs, Passing)
    BY <1>a, <2>1, LineTakes
  <2>3. Forwarded' = Forwarded
    BY <2>1, <2>2 DEF Forwarded
  <2> QED
    BY <2>1, <2>3 DEF Moving
<1>6. CASE ReceiveInitial \/ ReceiveNext
  <2>1. CASE UNCHANGED <<authed, accepted, execReqs, taken, procVars, tapVars>>
    BY <1>1, <2>1 DEF Moving, procVars, tapVars
  <2> QED
    BY <1>5, <1>6, <2>1 DEF ReceiveInitial, ReceiveNext
<1>7. CASE UNCHANGED reqVars /\ ~NextRequest
  <2>1. UNCHANGED commands
    BY <1>7, Changes DEF ChangesOf, tapVars, StartProcess, RecordEnd, CloseTap
  <2>2. Passing' = Passing
    BY <1>7, Changes DEF ChangesOf, Passing, procVars, ProcChange, StartProcess, Forward,
       ContextDone, CloseRequests, CloseResponses, RecordEnd, CloseTap, EndGrace, reqVars,
       TypeOK
  <2> QED
    BY <1>7, <2>1, <2>2 DEF Moving, Forwarded, reqVars
<1> QED
  BY <1>2, <1>3, <1>4, <1>6, <1>7, Changes DEF ChangesOf, ReqChange

LEMMA ConfigsAppend ==
  ASSUME NEW q \in Seq(Requests), NEW x \in Requests
  PROVE  /\ IsFiniteSet(Configs(q)) /\ Cardinality(Configs(q)) \in Nat
         /\ Cardinality(Configs(Append(q, x)))
              = Cardinality(Configs(q)) + (IF x.kind = "config" THEN 1 ELSE 0)
<1> DEFINE n == Len(q)
           p == Append(q, x)
<1>1. /\ n \in Nat /\ Len(p) = n + 1 /\ p[n + 1] = x
      /\ \A i \in 1..n : p[i] = q[i]
  OBVIOUS
<1>2. IsFiniteSet(Configs(q)) /\ Cardinality(Configs(q)) \in Nat
  <2>1. IsFiniteSet(1..n)
    BY <1>1, FS_Interval
  <2> QED
    BY <2>1, FS_Subset, FS_CardinalityType DEF Configs
<1> HIDE DEF p
<1> DEFINE m == n + 1
<1>3. m \notin Configs(q)
  BY <1>1 DEF Configs
<1>4. Configs(p) = IF x.kind = "config" THEN Configs(q) \cup {m} ELSE Configs(q)
  BY <1>1 DEF Configs
<1> HIDE DEF m
<1>5. Cardinality(Configs(q) \cup {m}) = Cardinality(Configs(q)) + 1
  BY <1>2, <1>3, OneMore
<1> QED
  BY <1>2, <1>4, <1>5 DEF p

LEMMA HoldingStep ==
  ASSUME TypeOK, Holding, [Next]_vars
  PROVE  Holding'
<1>1. proc' = "forward" => forwarding' \in Requests
  <2>1. CASE UNCHANGED procVars
    BY <2>1 DEF procVars, Holding
  <2>2. CASE NextRequest
    <3>1. Head(authed) \in Requests
      BY <2>2, PassingType DEF NextRequest
    <3> QED
      BY <2>2, <3>1 DEF NextRequest, Holding
  <2>3. CASE ProcChange /\ ~NextRequest
    BY <2>3 DEF ProcChange, StartProcess, Forward, ContextDone, CloseRequests,
       CloseResponses, RecordEnd, CloseTap, EndGrace
  <2> QED
    BY <2>1, <2>2, <2>3, Changes DEF ChangesOf
<1>2. ASSUME NEW s \in Streams, reader'[s] = "passing" PROVE pending'[s] \in Requests
  <2>a. ClientTypes
    BY Types
  <2>1. CASE UNCHANGED <<reader[s], pending[s]>>
    BY <1>2, <2>1 DEF Holding
  <2>2. CASE UNCHANGED clientVars \/ EndGrace \/ TimerCancels
    BY <2>1, <2>2 DEF clientVars, EndGrace, TimerCancels
  <2>3. ASSUME NEW q \in Streams, NEW k \in SentKinds, ReadRequest(q, k)
        PROVE  pending'[s] \in Requests
    <3>1. sent[q] \in 0..MaxRequests /\ sent[q] < MaxRequests /\ MaxRequests \in Nat
      BY <2>3, <2>a, MultiplexerConstants DEF ClientTypes, ReadRequest
    <3>2. [from |-> q, seq |-> sent[q] + 1, kind |-> k] \in Requests
      BY <3>1, MultiplexerConstants DEF Requests, Kinds
    <3>3. CASE q = s
      BY <2>3, <2>a, <3>2, <3>3 DEF ClientTypes, ReadRequest
    <3>4. CASE q # s
      BY <2>1, <2>3, <2>a, <3>4 DEF ClientTypes, ReadRequest
    <3> QED
      BY <3>3, <3>4
  <2>4. ASSUME NEW q \in Streams,
               acceptConnection(q) \/ handleRequest(q) \/ LeaveStream(q) \/ ClientDrops(q)
        PROVE  pending'[s] \in Requests
    <3>1. CASE q = s
      BY <1>2, <2>1, <2>4, <2>a, <3>1 DEF ClientTypes, acceptConnection, handleRequest,
         LeaveStream, ClientDrops
    <3>2. CASE q # s
      BY <2>1, <2>4, <2>a, <3>2 DEF ClientTypes, acceptConnection, handleRequest,
         LeaveStream, ClientDrops
    <3> QED
      BY <3>1, <3>2
  <2> QED
    BY <2>2, <2>3, <2>4, Changes DEF ChangesOf, ClientChange, ClientStep
<1>3. commands' = Cardinality(Configs(Forwarded))'
  <2>1. CASE Forwarded' = Forwarded /\ UNCHANGED commands
    BY <2>1 DEF Holding, Configs
  <2>2. CASE Choosing
    <3>1. Head(authed) \in Requests /\ Forwarded \in Seq(Requests)
      BY <2>2, PassingType DEF Choosing
    <3>2. Configs(Forwarded') = Configs(Append(Forwarded, Head(authed)))
      BY <2>2 DEF Choosing
    <3>3. Cardinality(Configs(Append(Forwarded, Head(authed))))
            = Cardinality(Configs(Forwarded)) + (IF Head(authed).kind = "config" THEN 1 ELSE 0)
      BY <3>1, ConfigsAppend
    <3> QED
      BY <2>2, <3>2, <3>3 DEF Choosing, Holding, Configs
  <2> QED
    BY <2>1, <2>2, ForwardedStep DEF Entering, Skipping, Moving
<1> QED
  BY <1>1, <1>2, <1>3 DEF Holding

LEMMA RequestStep ==
  ASSUME TypeOK, Holding, RequestFlow, [Next]_vars
  PROVE  RequestFlow'
<1>a. Forwarded \in Seq(Requests) /\ authed \in Seq(Requests)
  BY PassingType
<1>1. PICK w \in Seq(Requests) : ExecutesOf(w, authed) /\ accepted = Line(Forwarded, w, <<>>)
  BY DEF RequestFlow
<1>2. ASSUME NEW v \in Seq(Requests), ExecutesOf(v, authed'), accepted' = Line(Forwarded', v, <<>>)
      PROVE  RequestFlow'
  BY <1>2 DEF RequestFlow, ExecutesOf, Ranks
<1>3. ASSUME NEW s \in Streams, Entering(s) PROVE RequestFlow'
  <2> DEFINE x == pending[s]
             v == IF x.kind = "other" THEN w ELSE Append(w, x)
  <2>1. x \in Requests
    BY <1>3 DEF Entering, Holding
  <2>2. ExecutesOf(v, Append(authed, x)) /\ v \in Seq(Requests)
    BY <1>1, <1>a, <2>1, EnterRequest
  <2>3. /\ Line(Forwarded, <<>>, <<>>) = Line(Forwarded, <<>>, <<>>)
        /\ Line(Forwarded, w, <<x>>) = Append(Line(Forwarded, w, <<>>), x)
        /\ Line(Forwarded, Append(w, x), <<>>) = Line(Forwarded, w, <<x>>)
    BY <1>1, <1>a, <2>1, LineMoves
  <2>4. accepted' = Line(Forwarded', v, <<>>)
    BY <1>1, <1>3, <2>3 DEF Entering
  <2>5. authed' = Append(authed, x)
    BY <1>3 DEF Entering
  <2> QED
    BY <1>2, <2>2, <2>4, <2>5
<1>4. CASE Skipping
  <2>1. ExecutesOf(w, Tail(authed))
    BY <1>1, <1>4, <1>a, LeaveRequest DEF Skipping
  <2> QED
    BY <1>1, <1>2, <1>4, <2>1 DEF Skipping
<1>5. CASE Choosing
  <2>1. w # <<>> /\ Head(w) = Head(authed) /\ ExecutesOf(Tail(w), Tail(authed))
    BY <1>1, <1>5, <1>a, LeaveRequest DEF Choosing
  <2>2. Tail(w) \in Seq(Requests) /\ <<>> \in Seq(Requests)
    BY <1>1, <2>1
  <2>3. Line(Append(Forwarded, Head(w)), Tail(w), <<>>) = Line(Forwarded, w, <<>>)
    BY <1>a, <2>1, <2>2, LineTakes
  <2>4. accepted' = Line(Forwarded', Tail(w), <<>>)
    BY <1>1, <1>5, <2>1, <2>3 DEF Choosing
  <2> QED
    BY <1>2, <1>5, <2>1, <2>2, <2>4 DEF Choosing
<1>6. CASE Moving
  BY <1>1, <1>2, <1>6 DEF Moving
<1> QED
  BY <1>3, <1>4, <1>5, <1>6, ForwardedStep

-----------------------------------------------------------------------------
(* Who ends a run.                                                         *)

LEMMA CancelledStays ==
  ASSUME TypeOK, Stages, [Next]_vars
  PROVE  /\ cancelled => cancelled'
         /\ external => external'
         /\ exec = "returned" => exec' = "returned"
         /\ cancelled' => cancelled \/ external' \/ exec = "returned"
<1>1. (cancelled => cancelled') /\ (external => external')
      /\ (cancelled' => cancelled \/ external' \/ exec = "returned")
  <2>1. CASE UNCHANGED ctxVars
    BY <2>1 DEF ctxVars
  <2>2. CASE UNCHANGED <<cancelled, external>>
    BY <2>2
  <2>3. CASE TimerCancels \/ ShutdownCancels
    <3>1. cancelled' = TRUE /\ external' = (external \/ ~cancelled)
      BY <2>3 DEF TimerCancels, ShutdownCancels
    <3> QED
      BY <3>1, Zenon
  <2>4. CASE ExecuteReturned
    BY <2>4, Zenon DEF ExecuteReturned
  <2>5. CASE CtxChange /\ ~(TimerCancels \/ ShutdownCancels \/ ExecuteReturned)
    BY <2>2, <2>5 DEF CtxChange, acceptConnection, TimerTick, SendPid, SendExit, SendOutput
  <2> QED
    BY <2>1, <2>3, <2>4, <2>5, Changes DEF ChangesOf
<1>2. exec = "returned" => exec' = "returned"
  BY Changes DEF ChangesOf, RunChange, StartProcess, Stages,
       ReceiveInitial, SendPid, CommandDone, FinalWait, WaitReturns, SendExit, CloseSender,
       ProgramExits, ReceiveNext, StdinRead, StdinClosed, LoopEnds, runVars
<1> QED
  BY <1>1, <1>2

LEMMA CausesStep ==
  ASSUME TypeOK, Stages, Causes, [Next]_vars
  PROVE  Causes'
<1>1. respsClosed' \/ proc' \notin {"new", "loop", "forward"} => cancelled'
  <2>1. respsClosed' \/ proc' \notin {"new", "loop", "forward"}
          => respsClosed \/ proc \notin {"new", "loop", "forward"} \/ cancelled
    <3>1. CASE UNCHANGED procVars
      BY <3>1 DEF procVars
    <3>2. CASE ProcChange
      BY <3>2 DEF ProcChange, StartProcess, NextRequest, Forward, ContextDone,
         CloseRequests, CloseResponses, RecordEnd, CloseTap, EndGrace
    <3> QED
      BY <3>1, <3>2, Changes DEF ChangesOf
  <2> QED
    BY <2>1, CancelledStays DEF Causes
<1>2. cancelled' => external' \/ exec' = "returned"
  BY CancelledStays DEF Causes
<1>3. crashed' => external'
  <2>1. CASE crashed' /\ ~crashed
    <3>1. Send /\ snd = "busy" /\ respsClosed
      BY <2>1, Changes DEF ChangesOf, Send
    <3>2. exec # "returned"
      BY <3>1 DEF Stages
    <3> QED
      BY <3>1, <3>2, CancelledStays DEF Causes
  <2>2. CASE crashed
    BY <2>2, CancelledStays DEF Causes, NormalEndIsClean
  <2> QED
    BY <2>1, <2>2
<1> QED
  BY <1>1, <1>2, <1>3 DEF Causes, NormalEndIsClean

\* Until the tap is closed every response is recorded, and afterwards none.
LEMMA RecordingKept ==
  ASSUME TypeOK, Recording, [Next]_vars
  PROVE  Recording'
<1>a. relayed \in Seq(Responses) /\ recorded \in Seq(Responses) /\ execResps \in Seq(Responses)
  BY Types DEF BcTypes, ChanTypes
<1>1. CASE TakeResponse
  <2> DEFINE h == Head(execResps)
  <2>1. h \in Responses /\ relayed' = Append(relayed, h)
    BY <1>1, <1>a DEF TakeResponse
  <2> HIDE DEF h
  <2>2. /\ Len(relayed) \in Nat /\ Len(relayed') = Len(relayed) + 1
        /\ \A i \in 1..Len(relayed) : relayed'[i] = relayed[i]
    BY <1>a, <2>1
  <2>3. UNCHANGED <<tap, proc>>
    BY <1>1 DEF TakeResponse, tapVars, procVars
  <2>4. CASE tap = "closed"
    <3>1. recorded' = recorded /\ Len(recorded) \in Nat
      BY <1>1, <1>a, <2>4 DEF TakeResponse
    <3> QED
      BY <2>2, <2>3, <2>4, <3>1 DEF Recording, RecordingHasNoGap
  <2>5. CASE tap # "closed"
    <3>1. recorded' = relayed'
      BY <1>1, <2>5 DEF TakeResponse, Recording, RecordingHasNoGap
    <3> QED
      BY <2>2, <2>3, <3>1 DEF Recording, RecordingHasNoGap
  <2> QED
    BY <2>4, <2>5
<1>2. CASE UNCHANGED <<relayed, recorded>>
  <2>1. CASE UNCHANGED <<procVars, tapVars>>
    BY <1>2, <2>1 DEF Recording, RecordingHasNoGap, procVars, tapVars
  <2>2. CASE ProcChange
    BY <1>2, <2>2 DEF Recording, RecordingHasNoGap, ProcChange, StartProcess, NextRequest,
       Forward, ContextDone, CloseRequests, CloseResponses, RecordEnd, CloseTap, EndGrace,
       tapVars
  <2> QED
    BY <2>1, <2>2, Changes DEF ChangesOf, ProcChange
<1> QED
  BY <1>1, <1>2, Changes DEF ChangesOf, bcVars, BcChange, StartProcess, Broadcasted,
     BroadcastEnds, WriteTo

-----------------------------------------------------------------------------
(* The invariant holds.                                                    *)

LEMMA InvInit == Init => MuxInv
<1> SUFFICES ASSUME Init PROVE MuxInv
  OBVIOUS
<1>1. /\ produced = <<>> /\ relayed = <<>> /\ recorded = <<>>
      /\ execResps = <<>> /\ InHand = <<>> /\ Passing = <<>>
      /\ taken = <<>> /\ execReqs = <<>> /\ accepted = <<>> /\ authed = <<>> /\ crashed = FALSE
  BY DEF Init, InHand, Passing
<1>2. Line(<<>>, <<>>, <<>>) = <<>>
  BY DEF Line
<1>3. TypeOK
  <2>1. \A S : <<>> \in Seq(S)
    OBVIOUS
  <2>2. 0 <= AuthCap /\ 0 <= ReqCap /\ 0 <= RespCap /\ 0 \in 0..MaxRequests
    BY MultiplexerConstants
  <2>3. Len(<<>>) = 0
    OBVIOUS
  <2>4. CtxTypes /\ ProcTypes /\ RunTypes
    <3>1. CtxTypes
      BY Zenon DEF Init, CtxTypes
    <3>2. ProcTypes
      BY DEF Init, ProcTypes
    <3>3. RunTypes
      BY DEF Init, RunTypes
    <3> QED
      BY <3>1, <3>2, <3>3
  <2>5. SndTypes /\ BcTypes /\ ChanTypes
    BY <2>1, <2>2, <2>3 DEF Init, SndTypes, BcTypes, ChanTypes
  <2>6. ClientTypes /\ TapTypes
    BY <2>2 DEF Init, ClientTypes, TapTypes
  <2>7. ReqTypes
    BY <2>1, <2>2, <2>3 DEF Init, ReqTypes
  <2> QED
    BY <1>1, <2>4, <2>5, <2>6, <2>7, Types
<1>4. Stages
  <2>1. Ended = {}
    BY DEF Init, Ended
  <2>2. Cardinality(Ended) = 0
    BY <2>1, FS_EmptySet
  <2> QED
    BY <2>2 DEF Init, Stages
<1>5. Numbered /\ Cardinality(Written) <= MaxOutput
  <2>1. Written = {}
    BY <1>1 DEF Written
  <2>2. Cardinality(Written) = 0
    BY <2>1, FS_EmptySet
  <2> QED
    BY <1>1, <2>2, MultiplexerConstants DEF Numbered, ExitCodeIsLast
<1>6. ResponseFlow
  BY <1>1, <1>2 DEF Init, ResponseFlow
<1>7. Broadcast /\ Recording
  BY DEF Init, Broadcast, DeliveredInOrder, Recording, RecordingHasNoGap
<1>8. Causes
  BY <1>1 DEF Init, Causes, NormalEndIsClean
<1>9. Forwarded = <<>>
  BY <1>1, <1>2 DEF Forwarded
<1>10. Holding
  <2>1. Configs(Forwarded) = {}
    BY <1>9 DEF Configs
  <2>2. Cardinality(Configs(Forwarded)) = 0
    BY <2>1, FS_EmptySet
  <2> QED
    BY <2>2 DEF Init, Holding
<1>11. RequestFlow
  <2> DEFINE rank == [j \in 0..0 |-> 0]
  <2>1. Len(<<>>) = 0 /\ <<>> \in Seq(Requests)
    OBVIOUS
  <2>2. Ranks(rank, <<>>, <<>>) /\ rank \in [0..0 -> 0..0]
    BY <2>1 DEF Ranks
  <2>3. ExecutesOf(<<>>, <<>>)
    BY <2>1, <2>2 DEF ExecutesOf
  <2> QED
    BY <1>1, <1>2, <1>9, <2>1, <2>3 DEF RequestFlow
<1> QED
  BY <1>3, <1>4, <1>5, <1>6, <1>7, <1>8, <1>10, <1>11 DEF MuxInv

LEMMA InvNext == MuxInv /\ [Next]_vars => MuxInv'
<1> SUFFICES ASSUME MuxInv, [Next]_vars PROVE MuxInv'
  OBVIOUS
<1> USE DEF MuxInv
<1>1. /\ CtxTypes' /\ ProcTypes' /\ RunTypes' /\ SndTypes' /\ BcTypes' /\ ClientTypes'
      /\ ReqTypes' /\ TapTypes' /\ ChanTypes' /\ crashed' \in BOOLEAN
  BY CtxStep, ProcStep, RunStep, SndStep, BcStep, ClientTypesStep, ReqStep, TapStep, ChanStep
<1>2. TypeOK'
  BY <1>1 DEF TypeOK, CtxTypes, ProcTypes, RunTypes, SndTypes, BcTypes, ClientTypes,
     ReqTypes, TapTypes, ChanTypes
<1>3. Stages'
  BY <1>2, StagesStep
<1>4. Numbered' /\ Cardinality(Written)' <= MaxOutput
  BY <1>2, <1>3, NumberedStep
<1>5. ResponseFlow' /\ Broadcast' /\ Recording'
  BY ResponseStep, BroadcastKept, RecordingKept
<1>6. Causes' /\ Holding' /\ RequestFlow'
  BY CausesStep, HoldingStep, RequestStep
<1> QED
  BY <1>2, <1>3, <1>4, <1>5, <1>6

LEMMA InvKept == Spec => []MuxInv
BY InvInit, InvNext, PTL DEF Spec

-----------------------------------------------------------------------------
(* The theorems.                                                           *)

\* For any clients, requests, output and capacities: clients get a part of the
\* responses in their order, the recording is the beginning of them, the exit code is the
\* last response, channels keep their capacities, and only a run that was cancelled from
\* outside can send on the closed channel (multiplexer.go, service_execute.go, streams.go).
THEOREM ResponsesHold == Spec => []ResponsesInv
<1>1. MuxInv => ResponsesInv
  BY DEF MuxInv, ResponsesInv, Broadcast, Recording, Numbered, Causes
<1> QED
  BY <1>1, InvKept, PTL

\* No Config reaches the runner before its CommandStart is relayed (multiplexer.go,
\* process).
THEOREM StartsRecorded == Spec => []StartRecordedFirst
<1>1. MuxInv => StartRecordedFirst
  <2> SUFFICES ASSUME MuxInv PROVE StartRecordedFirst
    OBVIOUS
  <2>1. /\ Passing \in Seq(Requests) /\ Forwarded \in Seq(Requests)
        /\ execReqs \in Seq(Requests) /\ taken \in Seq(Requests)
    BY PassingType DEF MuxInv
  <2>2. Len(taken) <= Len(Forwarded) /\ \A i \in 1..Len(taken) : Forwarded[i] = taken[i]
    BY <2>1, LineFront DEF Forwarded
  <2>3. Len(taken) \in Nat /\ Len(Forwarded) \in Nat
    BY <2>1
  <2>4. Configs(taken) \subseteq Configs(Forwarded)
    BY <2>2, <2>3 DEF Configs
  <2>5. IsFiniteSet(Configs(Forwarded))
    <3>1. IsFiniteSet(1..Len(Forwarded))
      BY <2>3, FS_Interval
    <3> QED
      BY <3>1, FS_Subset DEF Configs
  <2>6. Cardinality(Configs(taken)) <= Cardinality(Configs(Forwarded))
    BY <2>4, <2>5, FS_Subset
  <2> QED
    BY <2>6 DEF MuxInv, Holding, Configs, StartRecordedFirst
<1> QED
  BY <1>1, InvKept, PTL

\* A sequence that grew is a strict extension of what it was.
LEMMA Grown ==
  ASSUME NEW S, NEW s \in Seq(S), NEW x \in S
  PROVE  /\ RequestRelay!IsStrictPrefix(s, Append(s, x))
         /\ ResponseRelay!IsStrictPrefix(s, Append(s, x))
<1>1. <<x>> \in Seq(S) /\ <<x>> # <<>> /\ Append(s, x) = s \o <<x>>
  <2>1. <<x>> \in Seq(S) /\ <<x>> # <<>>
    OBVIOUS
  <2> QED
    BY <2>1, AppendIsConcat
<1> DEFINE one == <<x>>
<1> HIDE DEF one
<1>2. /\ Len(s) <= Len(s \o one) /\ SubSeq(s, 1, Len(s)) = SubSeq(s \o one, 1, Len(s))
      /\ s # s \o one
  BY <1>1, FrontIsPrefix DEF one
<1> QED
  BY <1>1, <1>2 DEF one, RequestRelay!IsStrictPrefix, RequestRelay!IsPrefix,
     ResponseRelay!IsStrictPrefix, ResponseRelay!IsPrefix

LEMMA FrontOfLine ==
  ASSUME NEW S, NEW s \in Seq(S), NEW t \in Seq(S), NEW u \in Seq(S)
  PROVE  /\ RequestRelay!IsPrefix(s, Line(s, t, u))
         /\ ResponseRelay!IsPrefix(s, Line(s, t, u))
<1> DEFINE r == t \o u
<1>1. r \in Seq(S) /\ Line(s, t, u) = s \o r
  BY ConcatProperties DEF Line
<1> HIDE DEF r
<1>2. Len(s) <= Len(s \o r) /\ SubSeq(s, 1, Len(s)) = SubSeq(s \o r, 1, Len(s))
  BY <1>1, FrontIsPrefix
<1> QED
  BY <1>1, <1>2 DEF RequestRelay!IsPrefix, ResponseRelay!IsPrefix

\* Responses are relayed: broadcastResponses takes what the runner sent, in that order,
\* nothing twice and nothing left out in between, whatever blocks and whoever ends the
\* run (service_execute.go, executeResponseStreamSender; multiplexer.go,
\* broadcastResponses).
THEOREM ResponsesRelayed == Spec => FifoResponses
<1>1. Init => ResponseRelay!RelayInit
  BY DEF Init, ResponseRelay!RelayInit
<1>2. MuxInv /\ MuxInv' /\ [Next]_vars
        => [ResponseRelay!Accept \/ ResponseRelay!Deliver]_(ResponseRelay!relayVars)
  <2> SUFFICES ASSUME MuxInv, MuxInv', [Next]_vars
               PROVE  [ResponseRelay!Accept \/ ResponseRelay!Deliver]_(ResponseRelay!relayVars)
    OBVIOUS
  <2> USE DEF MuxInv
  <2>1. CASE UNCHANGED produced
    <3>1. CASE TakeResponse
      <4>1. /\ relayed' = Append(relayed, Head(execResps)) /\ execResps # <<>>
        BY <3>1 DEF TakeResponse
      <4>2. relayed \in Seq(Responses) /\ Head(execResps) \in Responses
        BY <4>1, Types DEF BcTypes, ChanTypes
      <4>3. ResponseRelay!IsStrictPrefix(relayed, relayed')
        BY <4>1, <4>2, Grown
      <4>4. /\ relayed' \in Seq(Responses) /\ execResps' \in Seq(Responses)
            /\ InHand' \in Seq(Responses)
        BY BcStep, ChanStep, <2>1 DEF BcTypes, ChanTypes, ResponseFlow, InHand
      <4>5. produced' = Line(relayed', execResps', InHand')
        BY DEF ResponseFlow
      <4>6. ResponseRelay!IsPrefix(relayed', produced')
        BY <4>4, <4>5, FrontOfLine
      <4> QED
        BY <2>1, <4>3, <4>6 DEF ResponseRelay!Deliver
    <3>2. CASE ~TakeResponse
      BY <2>1, <3>2, Changes DEF ChangesOf, bcVars, BcChange, StartProcess, Broadcasted,
         BroadcastEnds, WriteTo, ResponseRelay!relayVars
    <3> QED
      BY <3>1, <3>2
  <2>2. CASE Len(produced) <= MaxOutput + 1 /\ UNCHANGED bcVars
             /\ \E k \in Outs \cup {"pid", "exit"} : Hand(k)
    <3>1. /\ produced' = Append(produced, item') /\ item' \in Responses
          /\ produced \in Seq(Responses)
      BY <2>2, Handed
    <3>2. ResponseRelay!IsStrictPrefix(produced, produced')
      BY <3>1, Grown
    <3> QED
      BY <2>2, <3>2 DEF ResponseRelay!Accept, bcVars
  <2> QED
    BY <2>1, <2>2, ProducedStep DEF Outs
<1> QED
  BY <1>1, <1>2, InvKept, PTL DEF Spec, FifoResponses, ResponseRelay!RelaySpec

\* Requests are relayed: the runner receives the ExecuteRequests that were authorized,
\* in that order, each once, whatever else the clients send and however full the two
\* channels are (streams.go, handleRequest; multiplexer.go, process).
THEOREM RequestsRelayed == Spec => FifoRequests
<1>1. Init => RequestRelay!RelayInit
  BY DEF Init, RequestRelay!RelayInit
<1>2. MuxInv /\ [Next]_vars
        => [RequestRelay!Accept \/ RequestRelay!Deliver]_(RequestRelay!relayVars)
  <2> SUFFICES ASSUME MuxInv, [Next]_vars
               PROVE  [RequestRelay!Accept \/ RequestRelay!Deliver]_(RequestRelay!relayVars)
    OBVIOUS
  <2> USE DEF MuxInv
  <2>a. /\ Forwarded \in Seq(Requests) /\ execReqs \in Seq(Requests)
        /\ accepted \in Seq(Requests) /\ taken \in Seq(Requests)
    BY PassingType
  <2>1. ASSUME NEW s \in Streams, Entering(s)
        PROVE  [RequestRelay!Accept]_(RequestRelay!relayVars)
    <3>1. pending[s] \in Requests
      BY <2>1 DEF Entering, Holding
    <3>2. RequestRelay!IsStrictPrefix(accepted, Append(accepted, pending[s]))
      BY <2>a, <3>1, Grown
    <3> QED
      BY <2>1, <3>2 DEF Entering, RequestRelay!Accept, RequestRelay!relayVars
  <2>2. CASE Skipping \/ Choosing
    BY <2>2 DEF Skipping, Choosing, RequestRelay!relayVars
  <2>3. CASE Moving /\ UNCHANGED taken
    BY <2>3 DEF Moving, RequestRelay!relayVars
  <2>4. CASE Moving /\ execReqs # <<>> /\ taken' = Append(taken, Head(execReqs))
    <3>1. Head(execReqs) \in Requests
      BY <2>a, <2>4
    <3>2. RequestRelay!IsStrictPrefix(taken, taken')
      BY <2>a, <2>4, <3>1, Grown
    <3>3. RequestRelay!IsPrefix(taken', accepted)
      <4>1. taken' \in Seq(Requests) /\ execReqs' \in Seq(Requests) /\ Passing' \in Seq(Requests)
        BY ReqStep, HoldingStep DEF ReqTypes, Holding, Passing
      <4>2. PICK w \in Seq(Requests) : accepted = Line(Forwarded, w, <<>>)
        BY DEF RequestFlow
      <4>3. accepted = Line(taken', execReqs' \o Passing', w)
        <5>1. w \o <<>> = w
          BY ConcatEmptySeq
        <5> DEFINE e == execReqs' \o Passing'
        <5>2. e \in Seq(Requests) /\ Forwarded = taken' \o e
          BY <2>4, <4>1, ConcatProperties DEF Moving, Forwarded, Line
        <5> HIDE DEF e
        <5>3. Regroups(taken', e, w)
          BY <4>1, <5>2, Regrouped
        <5> QED
          BY <4>2, <5>1, <5>2, <5>3, Zenon DEF Line, Regroups, e
      <4>4. execReqs' \o Passing' \in Seq(Requests)
        BY <4>1, ConcatProperties
      <4> QED
        BY <4>1, <4>3, <4>4, FrontOfLine
    <3> QED
      BY <2>4, <3>2, <3>3 DEF Moving, RequestRelay!Deliver
  <2> QED
    BY <2>1, <2>2, <2>3, <2>4, ForwardedStep DEF Moving
<1> QED
  BY <1>1, <1>2, InvKept, PTL DEF Spec, FifoRequests, RequestRelay!RelaySpec
=============================================================================

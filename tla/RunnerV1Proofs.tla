--------------------------- MODULE RunnerV1Proofs ---------------------------
(***************************************************************************)
(* Proofs about the runner service v1: about RunnerV1 for any amount of    *)
(* output and any size of the ring buffers, of a read and of a variable;   *)
(* and about EnvMonitor for any number of monitors, of goroutines that     *)
(* change the environment, and of changes.                                 *)
(***************************************************************************)
EXTENDS RunnerV1Props, EnvMonitorProps, SequenceFacts

-----------------------------------------------------------------------------
(* The inductive invariant.                                                *)

Items == Seq(Nat)

\* TypeOK, with what the sequences hold and what the maps are defined on.
Shapes ==
  /\ TypeOK
  /\ written \in [Streams -> Nat] /\ kernel \in [Streams -> Items]
  /\ copier \in [Streams -> {"copy", "done"}] /\ ring \in [Streams -> Items]
  /\ loop \in [Streams -> {"off", "read", "send", "done"}] /\ piece \in [Streams -> Items]
  /\ sender = "send" => packet \in [stream : Streams, data : Items]
  /\ mem \in Items /\ got \in [Streams -> Items]

InPacket(s) == IF sender = "send" /\ packet.stream = s THEN packet.data ELSE <<>>

\* What is behind the client on the way of a stream, the nearest first.
Behind(s) == InPacket(s) \o (piece[s] \o (ring[s] \o kernel[s]))

\* What the process wrote is what the client got and, until a response could not be
\* sent, what is at the stations behind it.
Flow(s) == \E rest \in Items : /\ Numbered(written[s]) = got[s] \o rest
                               /\ sender # "failed" => rest = Behind(s)

\* What the goroutines' program counters say of the stations.
Stations(s) ==
  /\ loop[s] # "send" => piece[s] = <<>>
  /\ loop[s] = "done" => ring[s] = <<>> /\ ringClosed
  /\ sender = "done" => loop[s] = "done"
  /\ s \notin Used => copier[s] = "done" /\ kernel[s] = <<>>

\* All output that there will ever be has left the pipe or the terminal.
Emptied(s) == copier[s] = "done" /\ kernel[s] = <<>> /\ ~OutputOpen

\* Execute has waited for that: ProcessWait without a terminal, ptyOutWg.Wait with one.
Awaited == \/ final # "none" \/ handler \in {"feeder", "join", "store", "final"}
           \/ ~request.tty /\ handler \in {"collect", "drain"}

\* A goroutine that copies stops at the end of the output, unless what it reads or
\* writes is closed; only a request to stop does that to one Execute waits for, and
\* cleanup finds it out.
Copying(s) ==
  /\ (s \in Used /\ copier[s] = "done" /\ ~ringClosed /\ (request.tty => ptyOpen)) => Emptied(s)
  /\ Awaited /\ Whole => Emptied(s)

\* The order of Execute.
Executing ==
  /\ handler = "pid" => sender = "off" /\ \A s \in Streams : loop[s] = "off"
  /\ ringClosed => handler \in {"join", "store", "final", "returned"}
  /\ final # "none" => handler = "returned"
  /\ handler \in {"store", "final"} \/ (\E n \in Names : stored[n] # None)
       => sender \in {"done", "failed"}

\* The beginning of what the client got of stdout, and all of it if that is less than a
\* variable may have.
Beginning(v) == \E rest \in Items : got["stdout"] = v \o rest
Captured(v) == Beginning(v) /\ (v = got["stdout"] \/ Len(v) >= EnvSize)

\* stdoutMem is that, and so is each variable; one of the simple store is the whole.
Capture ==
  /\ request.store # "none" => Captured(mem)
  /\ \A n \in Names : stored[n] # None =>
       /\ Captured(stored[n]) /\ stored[n] \in Items
       /\ request.store # "owl" => stored[n] = got["stdout"]

RunInv == /\ Shapes /\ Executing /\ Capture
          /\ \A s \in Streams : Flow(s) /\ Stations(s) /\ Copying(s)

-----------------------------------------------------------------------------
(* What each step changes.                                                  *)

OutputChange == \E s \in Streams : ProcessWrites(s) \/ Copy(s)
CopierChange == \E s \in Streams : CopyEnds(s)
RingChange == \E s \in Streams : Copy(s) \/ Read(s)
LoopChange == SendPid \/ \E s \in Streams : Read(s) \/ ReadEOF(s) \/ Pass(s)
SenderChange == Send \/ SendFails \/ SenderEnds \/ SendPid \/ \E s \in Streams : Pass(s)
ProcessChange == ProcessExits \/ DescendantsExit \/ ContextKills \/ Stop
InputChange == InputStart \/ InputData \/ InputTaken \/ InputRefused \/ InputEnds \/ Stop
                 \/ SendPid \/ ProcessWait

ChangesOf == /\ UNCHANGED request
             /\ UNCHANGED <<written, kernel>> \/ OutputChange
             /\ UNCHANGED copier \/ CopierChange
             /\ UNCHANGED ring \/ RingChange
             /\ UNCHANGED <<loop, piece>> \/ LoopChange
             /\ UNCHANGED <<sender, packet>> \/ SenderChange
             /\ UNCHANGED <<mem, got>> \/ Send
             /\ UNCHANGED stored \/ Store
             /\ UNCHANGED <<process, holders>> \/ ProcessChange
             /\ UNCHANGED ptyOpen \/ Stop \/ Cleanup
             /\ UNCHANGED ringClosed \/ SendPidFails \/ Finalized
             /\ UNCHANGED <<stdinOpen, input>> \/ InputChange
             /\ UNCHANGED feeder \/ FeederEnds \/ FeederWrites \/ FeederBreaks \/ InputTaken
             /\ UNCHANGED stream \/ StreamBreaks \/ Finalized
             /\ UNCHANGED handler \/ HandlerStep
             /\ UNCHANGED finalError \/ FeederBreaks \/ CollectEnvs \/ Cleanup
             /\ UNCHANGED final \/ SendFinal

\* A step changes what its actions name.
LEMMA Changes == [Next]_vars => ChangesOf
<1> SUFFICES ASSUME [Next]_vars PROVE ChangesOf
  OBVIOUS
<1>1. CASE ProcessExits
  <2>1. ProcessChange
    BY <1>1 DEF ProcessChange
  <2> QED
    BY <1>1, <2>1 DEF ProcessExits, ChangesOf, output, command, relay, sending
<1>2. CASE DescendantsExit
  <2>1. ProcessChange
    BY <1>2 DEF ProcessChange
  <2> QED
    BY <1>2, <2>1 DEF DescendantsExit, ChangesOf, output, command, relay, sending
<1>3. CASE StreamBreaks
  BY <1>3 DEF StreamBreaks, ChangesOf, output, command, relay, sending
<1>4. CASE ContextKills
  <2>1. ProcessChange
    BY <1>4 DEF ProcessChange
  <2> QED
    BY <1>4, <2>1 DEF ContextKills, ChangesOf, output, command, relay, sending
<1>5. ASSUME NEW s \in Streams, ProcessWrites(s) PROVE ChangesOf
  <2>1. OutputChange
    BY <1>5 DEF OutputChange
  <2> QED
    BY <1>5, <2>1 DEF ProcessWrites, ChangesOf, output, command, relay, sending
<1>6. ASSUME NEW s \in Streams, Copy(s) PROVE ChangesOf
  <2>1. OutputChange /\ RingChange
    BY <1>6 DEF OutputChange, RingChange
  <2> QED
    BY <1>6, <2>1 DEF Copy, ChangesOf, output, command, relay, sending
<1>7. ASSUME NEW s \in Streams, CopyEnds(s) PROVE ChangesOf
  <2>1. CopierChange
    BY <1>7 DEF CopierChange
  <2> QED
    BY <1>7, <2>1 DEF CopyEnds, ChangesOf, output, command, relay, sending
<1>8. ASSUME NEW s \in Streams, Read(s) PROVE ChangesOf
  <2>1. RingChange /\ LoopChange
    BY <1>8 DEF RingChange, LoopChange
  <2> QED
    BY <1>8, <2>1 DEF Read, ChangesOf, output, command, relay, sending
<1>9. ASSUME NEW s \in Streams, ReadEOF(s) PROVE ChangesOf
  <2>1. LoopChange
    BY <1>9 DEF LoopChange
  <2> QED
    BY <1>9, <2>1 DEF ReadEOF, ChangesOf, output, command, relay, sending
<1>10. ASSUME NEW s \in Streams, Pass(s) PROVE ChangesOf
  <2>1. LoopChange /\ SenderChange
    BY <1>10 DEF LoopChange, SenderChange
  <2> QED
    BY <1>10, <2>1 DEF Pass, ChangesOf, output, command, relay, sending
<1>11. CASE FeederEnds
  BY <1>11 DEF FeederEnds, ChangesOf, output, command, relay, sending
<1>12. CASE FeederBreaks
  BY <1>12 DEF FeederBreaks, ChangesOf, output, command, relay, sending
<1>13. CASE InputStart
  <2>1. InputChange
    BY <1>13 DEF InputChange
  <2> QED
    BY <1>13, <2>1 DEF InputStart, ChangesOf, output, command, relay, sending
<1>14. CASE InputRefused
  <2>1. InputChange
    BY <1>14 DEF InputChange
  <2> QED
    BY <1>14, <2>1 DEF InputRefused, ChangesOf, output, command, relay, sending
<1>15. CASE InputTaken
  <2>1. InputChange
    BY <1>15 DEF InputChange
  <2> QED
    BY <1>15, <2>1 DEF InputTaken, ChangesOf, output, command, relay, sending
<1>16. CASE InputData
  <2>1. InputChange
    BY <1>16 DEF InputChange
  <2> QED
    BY <1>16, <2>1 DEF InputData, ChangesOf, output, command, relay, sending
<1>17. CASE InputEnds
  <2>1. InputChange
    BY <1>17 DEF InputChange
  <2> QED
    BY <1>17, <2>1 DEF InputEnds, ChangesOf, output, command, relay, sending
<1>18. CASE Stop
  <2>1. ProcessChange /\ InputChange
    BY <1>18 DEF ProcessChange, InputChange
  <2> QED
    BY <1>18, <2>1 DEF Stop, ChangesOf, output, command, relay, sending
<1>19. CASE Send
  <2>1. SenderChange
    BY <1>19 DEF SenderChange
  <2> QED
    BY <1>19, <2>1 DEF Send, ChangesOf, output, command, relay, sending
<1>20. CASE SendFails
  <2>1. SenderChange
    BY <1>20 DEF SenderChange
  <2> QED
    BY <1>20, <2>1 DEF SendFails, ChangesOf, output, command, relay, sending
<1>21. CASE SenderEnds
  <2>1. SenderChange
    BY <1>21 DEF SenderChange
  <2> QED
    BY <1>21, <2>1 DEF SenderEnds, ChangesOf, output, command, relay, sending
<1>22. CASE SendPid
  <2>1. LoopChange /\ SenderChange /\ InputChange /\ HandlerStep
    BY <1>22 DEF LoopChange, SenderChange, InputChange, HandlerStep
  <2> QED
    BY <1>22, <2>1 DEF SendPid, ChangesOf, output, command, relay, sending
<1>23. CASE SendPidFails
  <2>1. HandlerStep
    BY <1>23 DEF HandlerStep
  <2> QED
    BY <1>23, <2>1 DEF SendPidFails, ChangesOf, output, command, relay, sending
<1>24. CASE ProcessWait
  <2>1. InputChange /\ HandlerStep
    BY <1>24 DEF InputChange, HandlerStep
  <2> QED
    BY <1>24, <2>1 DEF ProcessWait, ChangesOf, output, command, relay, sending
<1>25. CASE CollectEnvs
  <2>1. HandlerStep
    BY <1>25 DEF HandlerStep
  <2> QED
    BY <1>25, <2>1 DEF CollectEnvs, ChangesOf, output, command, relay, sending
<1>26. CASE Cleanup
  <2>1. HandlerStep
    BY <1>26 DEF HandlerStep
  <2> QED
    BY <1>26, <2>1 DEF Cleanup, ChangesOf, output, command, relay, sending
<1>27. CASE Finalized
  <2>1. HandlerStep
    BY <1>27 DEF HandlerStep
  <2> QED
    BY <1>27, <2>1 DEF Finalized, ChangesOf, output, command, relay, sending
<1>28. CASE Join
  <2>1. HandlerStep
    BY <1>28 DEF HandlerStep
  <2> QED
    BY <1>28, <2>1 DEF Join, ChangesOf, output, command, relay, sending
<1>29. CASE Store
  <2>1. HandlerStep
    BY <1>29 DEF HandlerStep
  <2> QED
    BY <1>29, <2>1 DEF Store, ChangesOf, output, command, relay, sending
<1>30. CASE SendFinal
  <2>1. HandlerStep
    BY <1>30 DEF HandlerStep
  <2> QED
    BY <1>30, <2>1 DEF SendFinal, ChangesOf, output, command, relay, sending
<1>31. CASE FeederWrites
  BY <1>31 DEF FeederWrites, ChangesOf, output, command, relay, sending
<1>32. CASE UNCHANGED vars
  BY <1>32 DEF ChangesOf, vars, output, command, relay, sending
<1> QED
  BY <1>1, <1>2, <1>3, <1>4, <1>5, <1>6, <1>7, <1>8, <1>9, <1>10, <1>11, <1>12,
     <1>13, <1>14, <1>15, <1>16, <1>17, <1>18, <1>19, <1>20, <1>21, <1>22, <1>23,
     <1>24, <1>25, <1>26, <1>27, <1>28, <1>29, <1>30, <1>31, <1>32 DEF Next, CopyStep,
     FeederStep, InputStep, LoopStep, SenderStep, HandlerStep

-----------------------------------------------------------------------------
(* Chunks on their way.                                                    *)

LEMMA NumberedItems ==
  ASSUME NEW n \in Nat
  PROVE  /\ Numbered(n) \in Items /\ Len(Numbered(n)) = n
         /\ n = 0 => Numbered(n) = <<>>
         /\ Numbered(n + 1) = Append(Numbered(n), n + 1)
<1> DEFINE s == Numbered(n)
           t == Numbered(n + 1)
           u == Append(s, n + 1)
<1>1. /\ s \in Seq(Nat) /\ Len(s) = n /\ \A i \in 1..n : s[i] = i
  BY DEF Numbered
<1>2. /\ t \in Seq(Nat) /\ Len(t) = n + 1 /\ \A i \in 1..n + 1 : t[i] = i
  BY DEF Numbered
<1> HIDE DEF s, t
<1>3. u \in Seq(Nat) /\ Len(u) = n + 1 /\ \A i \in 1..n + 1 : u[i] = i
  BY <1>1
<1> HIDE DEF u
<1>4. t = u
  BY <1>2, <1>3, SeqEqual
<1>5. n = 0 => s = <<>>
  BY <1>1, EmptySeq
<1> QED
  BY <1>1, <1>4, <1>5 DEF s, t, u, Items

LEMMA AppendBehind ==
  ASSUME NEW a \in Items, NEW b \in Items, NEW x \in Nat
  PROVE  a \o Append(b, x) = Append(a \o b, x)
<1>1. Append(b, x) \in Seq(Nat) /\ Append(b, x) = b \o <<x>> /\ <<x>> \in Seq(Nat)
  BY AppendIsConcat DEF Items
<1>2. a \o b \in Seq(Nat) /\ Append(a \o b, x) = (a \o b) \o <<x>>
  BY ConcatProperties, AppendIsConcat DEF Items
<1> QED
  BY <1>1, <1>2, ConcatAssociative DEF Items

\* A copying goroutine moves the first chunk of the pipe to the end of the ring buffer.
LEMMA CopyMoves ==
  ASSUME NEW r \in Items, NEW k \in Items, k # <<>>
  PROVE  /\ Head(k) \in Nat /\ Tail(k) \in Items
         /\ Append(r, Head(k)) \in Items
         /\ Append(r, Head(k)) \o Tail(k) = r \o k
<1>1. Head(k) \in Nat /\ Tail(k) \in Seq(Nat)
  BY TailSet DEF Items
<1>2. <<Head(k)>> \o Tail(k) = k
  BY MoveHead, ConcatEmptySeq DEF Items
<1>3. Append(r, Head(k)) = r \o <<Head(k)>> /\ Append(r, Head(k)) \in Seq(Nat)
  BY <1>1, AppendIsConcat DEF Items
<1> HIDE DEF Items
<1>4. <<Head(k)>> \in Seq(Nat)
  BY <1>1
<1>5. (r \o <<Head(k)>>) \o Tail(k) = r \o (<<Head(k)>> \o Tail(k))
  <2> DEFINE h == <<Head(k)>>
             t == Tail(k)
  <2>1. r \in Seq(Nat) /\ h \in Seq(Nat) /\ t \in Seq(Nat)
    BY <1>1, <1>4 DEF Items
  <2> HIDE DEF h, t
  <2>2. Regroups(r, h, t)
    BY <2>1, Regrouped
  <2>3. (r \o h) \o t = r \o (h \o t)
    BY <2>2 DEF Regroups
  <2> QED
    BY <2>3 DEF h, t
<1> QED
  BY <1>1, <1>2, <1>3, <1>5 DEF Items

Taken(r) == Min({ReadSize, Len(r)})

\* A read takes at most ReadSize chunks, and at least one, from the front.
LEMMA ReadSplits ==
  ASSUME NEW r \in Items, r # <<>>
  PROVE  /\ SubSeq(r, 1, Taken(r)) \in Items /\ Len(SubSeq(r, 1, Taken(r))) <= ReadSize
         /\ SubSeq(r, Taken(r) + 1, Len(r)) \in Items
         /\ Len(SubSeq(r, Taken(r) + 1, Len(r))) <= Len(r)
         /\ SubSeq(r, 1, Taken(r)) \o SubSeq(r, Taken(r) + 1, Len(r)) = r
<1> DEFINE n == Taken(r)
           f == SubSeq(r, 1, n)
           b == SubSeq(r, n + 1, Len(r))
           fb == f \o b
<1>1. Len(r) \in Nat /\ Len(r) > 0 /\ ReadSize \in Nat \ {0}
  BY RunnerConstants, EmptySeq DEF Items
<1>2. PICK m \in {ReadSize, Len(r)} : \A y \in {ReadSize, Len(r)} : m <= y
  BY <1>1
<1>3. n \in {ReadSize, Len(r)} /\ \A y \in {ReadSize, Len(r)} : n <= y
  BY <1>2 DEF Taken, Min
<1>4. n \in 1..Len(r) /\ n <= ReadSize
  BY <1>1, <1>3
<1> HIDE DEF n
<1>5. f \in Seq(Nat) /\ Len(f) = n /\ \A i \in 1..n : f[i] = r[i]
  BY <1>1, <1>4 DEF Items
<1>6. /\ b \in Seq(Nat) /\ Len(b) = Len(r) - n
      /\ \A i \in 1..Len(r) - n : b[i] = r[n + i]
  BY <1>1, <1>4 DEF Items
<1> HIDE DEF f, b
<1>7. /\ fb \in Seq(Nat) /\ Len(fb) = Len(f) + Len(b)
      /\ \A i \in 1..Len(f) + Len(b) : fb[i] = IF i <= Len(f) THEN f[i] ELSE b[i - Len(f)]
  <2>1. f \in Seq(Nat) /\ b \in Seq(Nat)
    BY <1>5, <1>6
  <2> QED
    BY <2>1, ConcatProperties
<1>10. Len(b) <= Len(r) /\ Len(fb) = Len(r)
  BY <1>1, <1>4, <1>5, <1>6, <1>7
<1> HIDE DEF fb
<1>8. ASSUME NEW i \in 1..Len(r) PROVE fb[i] = r[i]
  <2>1. CASE i <= n
    <3>1. i <= Len(f) /\ i \in 1..n /\ i \in 1..Len(f) + Len(b)
      BY <1>1, <1>4, <1>5, <1>6, <2>1
    <3> QED
      BY <1>5, <1>7, <3>1
  <2>2. CASE i > n
    <3>1. i - n \in 1..Len(r) - n /\ n + (i - n) = i /\ ~(i <= n)
      BY <1>1, <1>4, <2>2
    <3>2. b[i - n] = r[i]
      BY <1>6, <3>1
    <3> QED
      <4>1. ~(i <= Len(f)) /\ i - Len(f) = i - n /\ i \in 1..Len(f) + Len(b)
        BY <1>1, <1>4, <1>5, <1>6, <2>2
      <4> QED
        BY <1>7, <3>2, <4>1
  <2> QED
    BY <1>4, <2>1, <2>2
<1>9. fb = r
  BY <1>7, <1>8, <1>10, SeqEqual DEF Items
<1> QED
  BY <1>4, <1>5, <1>6, <1>9, <1>10 DEF n, f, b, fb, Items

-----------------------------------------------------------------------------
(* Types.                                                                  *)

LEMMA InvInit == Init => RunInv
<1> SUFFICES ASSUME Init PROVE RunInv
  OBVIOUS
<1>1. <<>> \in Items /\ <<>> \o <<>> = <<>> /\ Len(<<>>) = 0
  BY EmptySeq, ConcatEmptySeq DEF Items
<1>2. Numbered(0) = <<>>
  BY NumberedItems
<1>3. TypeOK
  <2>1. \A s \in Streams : /\ written[s] \in 0..Chunks[s] /\ Len(ring[s]) <= RingSize
                           /\ Len(piece[s]) <= ReadSize
    BY <1>1, RunnerConstants DEF Init
  <2>2. ptyOpen \in BOOLEAN /\ stdinOpen \in BOOLEAN /\ request.tty \in BOOLEAN
    BY DEF Init
  <2> QED
    BY <2>1, <2>2 DEF Init, TypeOK
<1>4. Shapes
  BY <1>1, <1>3 DEF Init, Shapes
<1>5. Executing /\ Capture
  <2>1. \A s \in Streams : loop[s] = "off"
    BY DEF Init
  <2>2. sender = "off" /\ handler = "pid" /\ final = "none" /\ ~ringClosed
    BY DEF Init
  <2>3. mem = <<>> /\ got["stdout"] = <<>>
    BY DEF Init, Streams
  <2>6. \A n \in Names : stored[n] = None
    BY DEF Init
  <2>7. <<>> \in Items /\ <<>> = <<>> \o <<>>
    BY ConcatEmptySeq, EmptySeq DEF Items
  <2>8. Captured(mem)
    BY <2>3, <2>7 DEF Captured, Beginning
  <2>4. Capture
    BY <2>6, <2>8 DEF Capture
  <2>5. Executing
    BY <2>1, <2>2, <2>6 DEF Executing
  <2> QED
    BY <2>4, <2>5
<1>6. ASSUME NEW s \in Streams PROVE Flow(s)
  <2>1. InPacket(s) = <<>>
    BY DEF Init, InPacket
  <2>2. Behind(s) = <<>>
    BY <1>1, <2>1 DEF Init, Behind
  <2> QED
    BY <1>1, <1>2, <2>2 DEF Init, Flow
<1>7. ASSUME NEW s \in Streams PROVE Stations(s)
  BY DEF Init, Stations
<1>8. ASSUME NEW s \in Streams PROVE Copying(s)
  BY DEF Init, Copying, Awaited
<1> QED
  BY <1>4, <1>5, <1>6, <1>7, <1>8 DEF RunInv

\* A step keeps the types of the variables.
LEMMA ShapesStep == Shapes /\ [Next]_vars => Shapes'
<1> SUFFICES ASSUME Shapes, [Next]_vars PROVE Shapes'
  OBVIOUS
<1>0. ChangesOf
  BY Changes
<1>1. /\ written' \in [Streams -> Nat] /\ kernel' \in [Streams -> Items]
      /\ \A s \in Streams : written'[s] \in 0..Chunks[s]
  <2>1. CASE UNCHANGED <<written, kernel>>
    BY <2>1 DEF Shapes, TypeOK
  <2>2. ASSUME NEW s \in Streams, ProcessWrites(s)
        PROVE  /\ written' \in [Streams -> Nat] /\ kernel' \in [Streams -> Items]
               /\ \A t \in Streams : written'[t] \in 0..Chunks[t]
    <3>1. Append(kernel[s], written[s] + 1) \in Items
      BY AppendProperties DEF Shapes, Items
    <3>2. written[s] + 1 \in 0..Chunks[s]
      <4>1. Chunks[s] \in Nat /\ written[s] \in 0..Chunks[s] /\ written[s] < Chunks[s]
        BY <2>2, RunnerConstants DEF Shapes, TypeOK, ProcessWrites
      <4> QED
        BY <4>1
    <3> QED
      BY <2>2, <3>1, <3>2 DEF Shapes, TypeOK, ProcessWrites
  <2>3. ASSUME NEW s \in Streams, Copy(s)
        PROVE  /\ written' \in [Streams -> Nat] /\ kernel' \in [Streams -> Items]
               /\ \A t \in Streams : written'[t] \in 0..Chunks[t]
    <3>1. Tail(kernel[s]) \in Items
      BY <2>3, CopyMoves DEF Shapes, Copy
    <3> QED
      BY <2>3, <3>1 DEF Shapes, TypeOK, Copy
  <2> QED
    BY <1>0, <2>1, <2>2, <2>3 DEF ChangesOf, OutputChange
<1>2. copier' \in [Streams -> {"copy", "done"}]
  BY <1>0 DEF ChangesOf, CopierChange, CopyEnds, Shapes
<1>3. ring' \in [Streams -> Items] /\ \A s \in Streams : Len(ring'[s]) <= RingSize
  <2>1. CASE UNCHANGED ring
    BY <2>1 DEF Shapes, TypeOK
  <2>2. ASSUME NEW s \in Streams, Copy(s)
        PROVE  ring' \in [Streams -> Items] /\ \A t \in Streams : Len(ring'[t]) <= RingSize
    <3>1. Append(ring[s], Head(kernel[s])) \in Items
      BY <2>2, CopyMoves DEF Shapes, Copy
    <3>2. Len(Append(ring[s], Head(kernel[s]))) <= RingSize
      <4>1. Head(kernel[s]) \in Nat /\ ring[s] \in Seq(Nat) /\ Len(ring[s]) < RingSize
        BY <2>2, CopyMoves DEF Shapes, Copy, Items
      <4> QED
        BY <4>1, RunnerConstants
    <3> QED
      BY <2>2, <3>1, <3>2 DEF Shapes, TypeOK, Copy
  <2>3. ASSUME NEW s \in Streams, Read(s)
        PROVE  ring' \in [Streams -> Items] /\ \A t \in Streams : Len(ring'[t]) <= RingSize
    <3> DEFINE rest == SubSeq(ring[s], Taken(ring[s]) + 1, Len(ring[s]))
    <3>1. ring' = [ring EXCEPT ![s] = rest]
      BY <2>3 DEF Read, Taken
    <3>2. rest \in Items /\ Len(rest) <= Len(ring[s])
      BY <2>3, ReadSplits DEF Shapes, Read
    <3>3. Len(ring[s]) \in Nat /\ Len(rest) \in Nat /\ Len(ring[s]) <= RingSize
      BY <3>2, LenProperties DEF Shapes, TypeOK, Items
    <3> HIDE DEF rest
    <3>4. Len(rest) <= RingSize
      BY <3>2, <3>3, RunnerConstants
    <3> QED
      BY <3>1, <3>2, <3>4 DEF Shapes, TypeOK
  <2> QED
    BY <1>0, <2>1, <2>2, <2>3 DEF ChangesOf, RingChange
<1>4. /\ loop' \in [Streams -> {"off", "read", "send", "done"}] /\ piece' \in [Streams -> Items]
      /\ \A s \in Streams : Len(piece'[s]) <= ReadSize
  <2>1. CASE UNCHANGED <<loop, piece>>
    BY <2>1 DEF Shapes, TypeOK
  <2>2. CASE SendPid
    BY <2>2 DEF Shapes, TypeOK, SendPid
  <2>3. ASSUME NEW s \in Streams, Read(s)
        PROVE  /\ loop' \in [Streams -> {"off", "read", "send", "done"}]
               /\ piece' \in [Streams -> Items]
               /\ \A t \in Streams : Len(piece'[t]) <= ReadSize
    <3> DEFINE front == SubSeq(ring[s], 1, Taken(ring[s]))
    <3>1. piece' = [piece EXCEPT ![s] = front]
      BY <2>3 DEF Read, Taken
    <3>2. front \in Items /\ Len(front) <= ReadSize
      BY <2>3, ReadSplits DEF Shapes, Read
    <3> HIDE DEF front
    <3>3. loop' \in [Streams -> {"off", "read", "send", "done"}]
      BY <2>3 DEF Shapes, Read
    <3> QED
      BY <3>1, <3>2, <3>3 DEF Shapes, TypeOK
  <2>4. ASSUME NEW s \in Streams, ReadEOF(s)
        PROVE  /\ loop' \in [Streams -> {"off", "read", "send", "done"}]
               /\ piece' \in [Streams -> Items]
               /\ \A t \in Streams : Len(piece'[t]) <= ReadSize
    BY <2>4 DEF Shapes, TypeOK, ReadEOF
  <2>5. ASSUME NEW s \in Streams, Pass(s)
        PROVE  /\ loop' \in [Streams -> {"off", "read", "send", "done"}]
               /\ piece' \in [Streams -> Items]
               /\ \A t \in Streams : Len(piece'[t]) <= ReadSize
    <3>1. <<>> \in Items /\ Len(<<>>) <= ReadSize
      BY RunnerConstants DEF Items
    <3> QED
      BY <2>5, <3>1 DEF Shapes, TypeOK, Pass
  <2> QED
    BY <1>0, <2>1, <2>2, <2>3, <2>4, <2>5 DEF ChangesOf, LoopChange
<1>5. /\ sender' \in {"off", "recv", "send", "done", "failed"}
      /\ sender' = "send" => packet' \in [stream : Streams, data : Items]
  <2>1. ASSUME NEW s \in Streams, Pass(s)
        PROVE  /\ sender' \in {"off", "recv", "send", "done", "failed"}
               /\ sender' = "send" => packet' \in [stream : Streams, data : Items]
    BY <2>1 DEF Shapes, Pass
  <2>2. CASE UNCHANGED <<sender, packet>>
    BY <2>2 DEF Shapes, TypeOK
  <2>3. CASE Send \/ SendFails \/ SenderEnds \/ SendPid
    BY <2>3 DEF Send, SendFails, SenderEnds, SendPid
  <2> QED
    BY <1>0, <2>1, <2>2, <2>3 DEF ChangesOf, SenderChange
<1>6. mem' \in Items /\ got' \in [Streams -> Items]
  <2>1. CASE UNCHANGED <<mem, got>>
    BY <2>1 DEF Shapes
  <2>2. CASE Send
    <3> DEFINE p == packet.stream
               d == packet.data
    <3>1. p \in Streams /\ d \in Items
      BY <2>2 DEF Shapes, Send
    <3>2. got[p] \o d \in Items /\ mem \o d \in Items
      BY <3>1, ConcatProperties DEF Shapes, Items
    <3>3. /\ got' = [got EXCEPT ![p] = @ \o d]
          /\ mem' = mem \o d \/ mem' = mem
      BY <2>2 DEF Send
    <3> HIDE DEF p, d
    <3> QED
      BY <3>1, <3>2, <3>3 DEF Shapes
  <2> QED
    BY <1>0, <2>1, <2>2 DEF ChangesOf
<1>7. process' \in {"running", "ok", "failed"} /\ holders' \in BOOLEAN
  <2>1. CASE Stop
    BY <2>1 DEF Shapes, TypeOK, Stop
  <2> QED
    BY <1>0, <2>1 DEF ChangesOf, ProcessChange, ProcessExits, DescendantsExit, ContextKills,
                      Shapes, TypeOK
<1>8. ptyOpen' \in BOOLEAN /\ ringClosed' \in BOOLEAN
  BY <1>0 DEF ChangesOf, Stop, Cleanup, SendPidFails, Finalized, Shapes, TypeOK
<1>9. /\ stdinOpen' \in BOOLEAN
      /\ input' \in {"off", "first", "recv", "write", "done"}
  <2>1. stdinOpen \in BOOLEAN /\ request.tty \in BOOLEAN
    BY DEF Shapes, TypeOK
  <2>2. CASE InputStart \/ InputTaken
    BY <2>1, <2>2 DEF InputStart, InputTaken
  <2>3. CASE InputData \/ InputRefused \/ InputEnds \/ Stop \/ SendPid \/ ProcessWait
    BY <2>3 DEF InputData, InputRefused, InputEnds, Stop, SendPid, ProcessWait, Shapes, TypeOK
  <2> QED
    BY <1>0, <2>2, <2>3 DEF ChangesOf, InputChange, Shapes, TypeOK
<1>10. feeder' \in {"copy", "write", "done"} /\ stream' \in {"up", "down"}
  <2>1. feeder' \in {"copy", "write", "done"}
    BY <1>0 DEF ChangesOf, FeederEnds, FeederWrites, FeederBreaks, InputTaken, Shapes, TypeOK
  <2>2. stream' \in {"up", "down"}
    BY <1>0 DEF ChangesOf, StreamBreaks, Finalized, Shapes, TypeOK
  <2> QED
    BY <2>1, <2>2
<1>11. handler' \in {"pid", "wait", "collect", "drain", "feeder", "join", "store", "final",
                     "returned"}
  BY <1>0 DEF ChangesOf, HandlerStep, SendPid, SendPidFails, ProcessWait, CollectEnvs, Cleanup,
              Finalized, Join, Store, SendFinal, Shapes, TypeOK
<1>12. finalError' \in BOOLEAN /\ final' \in {"none", "sent", "failed"}
  <2>1. final' \in {"none", "sent", "failed"}
    BY <1>0 DEF ChangesOf, SendFinal, Shapes, TypeOK
  <2>2. finalError \in BOOLEAN /\ request.tty \in BOOLEAN /\ ptyOpen \in BOOLEAN
    BY DEF Shapes, TypeOK
  <2>3. finalError' \in BOOLEAN
    BY <1>0, <2>2 DEF ChangesOf, FeederBreaks, CollectEnvs, Cleanup
  <2> QED
    BY <2>1, <2>3
<1>13. /\ request' = request
       /\ request \in [tty : BOOLEAN, background : BOOLEAN, input : BOOLEAN,
                       store : {"none", "simple", "owl"}]
  BY <1>0 DEF ChangesOf, Shapes, TypeOK
<1>14. TypeOK'
  BY <1>1, <1>2, <1>3, <1>4, <1>5, <1>7, <1>8, <1>9, <1>10, <1>11, <1>12, <1>13 DEF TypeOK
<1> QED
  BY <1>1, <1>2, <1>3, <1>4, <1>5, <1>6, <1>14 DEF Shapes

-----------------------------------------------------------------------------
(* The order of Execute, and the stations.                                 *)

LEMMA ExecutingStep == Shapes /\ Executing /\ [Next]_vars => Executing'
<1> SUFFICES ASSUME Shapes, Executing, [Next]_vars PROVE Executing'
  OBVIOUS
<1>0. ChangesOf
  BY Changes
<1>1. ASSUME handler' = "pid" PROVE sender' = "off" /\ \A s \in Streams : loop'[s] = "off"
  <2>1. handler = "pid" /\ ~SendPid
    BY <1>0, <1>1 DEF ChangesOf, HandlerStep, SendPid, SendPidFails, ProcessWait, CollectEnvs,
                      Cleanup, Finalized, Join, Store, SendFinal
  <2>2. sender = "off" /\ \A s \in Streams : loop[s] = "off"
    BY <2>1 DEF Executing
  <2>3. UNCHANGED <<sender, packet>>
    BY <1>0, <2>1, <2>2 DEF ChangesOf, SenderChange, Pass, Send, SendFails, SenderEnds
  <2>4. UNCHANGED <<loop, piece>>
    BY <1>0, <2>1, <2>2 DEF ChangesOf, LoopChange, Read, ReadEOF, Pass
  <2> QED
    BY <2>2, <2>3, <2>4
<1>2. ringClosed' => handler' \in {"join", "store", "final", "returned"}
  <2>1. CASE UNCHANGED ringClosed
    <3>1. ringClosed => handler \in {"join", "store", "final", "returned"}
      BY DEF Executing
    <3>2. handler \in {"join", "store", "final", "returned"}
            => handler' \in {"join", "store", "final", "returned"}
      BY <1>0 DEF ChangesOf, HandlerStep, SendPid, SendPidFails, ProcessWait, CollectEnvs,
                  Cleanup, Finalized, Join, Store, SendFinal
    <3> QED
      BY <2>1, <3>1, <3>2, Zenon
  <2>2. CASE SendPidFails \/ Finalized
    BY <2>2 DEF SendPidFails, Finalized
  <2> QED
    BY <1>0, <2>1, <2>2 DEF ChangesOf
<1>3. final' # "none" => handler' = "returned"
  BY <1>0 DEF ChangesOf, Executing, HandlerStep, SendPid, SendPidFails, ProcessWait, CollectEnvs,
              Cleanup, Finalized, Join, Store, SendFinal
<1>4. ASSUME handler' \in {"store", "final"} \/ (\E n \in Names : stored'[n] # None)
      PROVE  sender' \in {"done", "failed"}
  <2>1. sender \in {"done", "failed"}
    <3>1. CASE handler' \in {"store", "final"}
      BY <1>0, <3>1 DEF ChangesOf, Executing, HandlerStep, SendPid, SendPidFails, ProcessWait,
                        CollectEnvs, Cleanup, Finalized, Join, Store, SendFinal
    <3>2. CASE \E n \in Names : stored'[n] # None
      <4>1. CASE Store
        BY <4>1 DEF Store, Executing
      <4>2. CASE UNCHANGED stored
        BY <3>2, <4>2 DEF Executing
      <4> QED
        BY <1>0, <4>1, <4>2 DEF ChangesOf
    <3> QED
      BY <1>4, <3>1, <3>2
  <2>2. handler # "pid"
    BY <2>1 DEF Executing
  <2> QED
    BY <1>0, <2>1, <2>2 DEF ChangesOf, SenderChange, Pass, Send, SendFails, SenderEnds, SendPid
<1>5. handler' \in {"store", "final"} \/ (\E n \in Names : stored'[n] # None)
        => sender' \in {"done", "failed"}
  BY <1>4
<1> QED
  BY <1>1, <1>2, <1>3, <1>5 DEF Executing

\* A closed ring buffer stays closed, a closed terminal too, an error is not forgotten, and
\* what is neither running nor left behind writes no more.
LEMMA OneWay ==
  ASSUME Shapes, [Next]_vars
  PROVE  /\ ringClosed => ringClosed' = TRUE
         /\ ptyOpen' => ptyOpen = TRUE
         /\ finalError => finalError' = TRUE
         /\ ~OutputOpen => ~OutputOpen'
         /\ request' = request
<1>0. ChangesOf
  BY Changes
<1>1. ringClosed => ringClosed' = TRUE
  BY <1>0 DEF ChangesOf, SendPidFails, Finalized, Shapes, TypeOK
<1>2. ptyOpen' => ptyOpen = TRUE
  BY <1>0 DEF ChangesOf, Stop, Cleanup, Shapes, TypeOK
<1>3. finalError => finalError' = TRUE
  <2>1. finalError \in BOOLEAN
    BY DEF Shapes, TypeOK
  <2> QED
    BY <1>0, <2>1 DEF ChangesOf, FeederBreaks, CollectEnvs, Cleanup
<1>4. ASSUME ~OutputOpen PROVE ~OutputOpen'
  <2>1. process # "running" /\ ~holders
    BY <1>4 DEF OutputOpen
  <2>2. process' = process /\ ~holders'
    BY <1>0, <2>1 DEF ChangesOf, ProcessChange, ProcessExits, DescendantsExit, ContextKills, Stop
  <2> QED
    BY <2>1, <2>2 DEF OutputOpen
<1> QED
  BY <1>0, <1>1, <1>2, <1>3, <1>4 DEF ChangesOf

LEMMA StationsStep ==
  ASSUME Shapes, Executing, [Next]_vars, NEW s \in Streams, Stations(s)
  PROVE  Stations(s)'
<1>0. ChangesOf
  BY Changes
<1>1. loop'[s] # "send" => piece'[s] = <<>>
  <2>1. CASE UNCHANGED <<loop, piece>>
    BY <2>1 DEF Stations
  <2>2. CASE SendPid
    BY <2>2 DEF SendPid, Executing, Stations
  <2>3. ASSUME NEW t \in Streams, Read(t) \/ ReadEOF(t) \/ Pass(t)
        PROVE  loop'[s] # "send" => piece'[s] = <<>>
    BY <2>3 DEF Read, ReadEOF, Pass, Stations, Shapes
  <2> QED
    BY <1>0, <2>1, <2>2, <2>3 DEF ChangesOf, LoopChange
<1>2. ASSUME loop'[s] = "done" PROVE ring'[s] = <<>> /\ ringClosed'
  <2>1. CASE loop[s] = "done"
    <3>1. ring[s] = <<>> /\ ringClosed
      BY <2>1 DEF Stations
    <3>2. ring'[s] = ring[s]
      BY <1>0, <2>1, <3>1 DEF ChangesOf, RingChange, Copy, Read, Shapes
    <3> QED
      BY <3>1, <3>2, OneWay
  <2>2. CASE loop[s] # "done"
    <3>1. ReadEOF(s)
      BY <1>0, <1>2, <2>2 DEF ChangesOf, LoopChange, SendPid, Read, ReadEOF, Pass, Shapes
    <3> QED
      BY <3>1 DEF ReadEOF
  <2> QED
    BY <2>1, <2>2
<1>3. ASSUME sender' = "done" PROVE loop'[s] = "done"
  <2>1. loop[s] = "done"
    <3>1. CASE SenderEnds
      BY <3>1 DEF SenderEnds
    <3>2. CASE sender = "done"
      BY <3>2 DEF Stations
    <3> QED
      BY <1>0, <1>3, <3>1, <3>2 DEF ChangesOf, SenderChange, Pass, Send, SendFails, SendPid
  <2>2. handler # "pid"
    BY <2>1 DEF Executing
  <2> QED
    BY <1>0, <2>1, <2>2 DEF ChangesOf, LoopChange, SendPid, Read, ReadEOF, Pass, Shapes
<1>4. s \notin Used' => copier'[s] = "done" /\ kernel'[s] = <<>>
  <2>1. Used' = Used
    BY <1>0 DEF ChangesOf, Used
  <2>2. ASSUME s \notin Used PROVE copier'[s] = "done" /\ kernel'[s] = <<>>
    <3>1. copier[s] = "done" /\ kernel[s] = <<>>
      BY <2>2 DEF Stations
    <3>2. copier'[s] = "done"
      BY <1>0, <3>1 DEF ChangesOf, CopierChange, CopyEnds, Shapes
    <3>3. kernel'[s] = <<>>
      BY <1>0, <2>2, <3>1 DEF ChangesOf, OutputChange, ProcessWrites, Copy, Shapes
    <3> QED
      BY <3>2, <3>3
  <2> QED
    BY <2>1, <2>2
<1> QED
  BY <1>1, <1>2, <1>3, <1>4 DEF Stations

LEMMA EmptiedStays ==
  ASSUME Shapes, [Next]_vars, NEW s \in Streams, Emptied(s)
  PROVE  Emptied(s)'
<1>0. ChangesOf
  BY Changes
<1>1. copier[s] = "done" /\ kernel[s] = <<>> /\ ~OutputOpen
  BY DEF Emptied
<1>2. copier'[s] = "done"
  BY <1>0, <1>1 DEF ChangesOf, CopierChange, CopyEnds, Shapes
<1>3. kernel'[s] = <<>>
  BY <1>0, <1>1 DEF ChangesOf, OutputChange, ProcessWrites, Copy, Shapes
<1>4. ~OutputOpen'
  BY <1>1, OneWay
<1> QED
  BY <1>2, <1>3, <1>4 DEF Emptied

\* What Execute waits for is that nothing more comes: here the pseudo-terminal that a
\* request to stop has closed under the output is told from the one that ended.
LEMMA CopyingStep ==
  ASSUME Shapes, Executing, [Next]_vars, \A s \in Streams : Stations(s) /\ Copying(s),
         NEW s \in Streams
  PROVE  Copying(s)'
<1>0. ChangesOf
  BY Changes
<1>1. ASSUME s \in Used', copier'[s] = "done", ~ringClosed', request'.tty => ptyOpen'
      PROVE  Emptied(s)'
  <2>1. s \in Used /\ ~ringClosed /\ (request.tty => ptyOpen)
    BY <1>1, OneWay DEF Used
  <2>2. CASE copier[s] = "done"
    BY <2>1, <2>2, EmptiedStays DEF Copying
  <2>3. CASE copier[s] # "done"
    <3>1. CopyEnds(s)
      BY <1>0, <1>1, <2>3 DEF ChangesOf, CopierChange, CopyEnds, Shapes
    <3>2. kernel[s] = <<>> /\ ~OutputOpen
      BY <2>1, <3>1 DEF CopyEnds
    <3>3. kernel'[s] = <<>> /\ ~OutputOpen'
      BY <3>1, <3>2, OneWay DEF CopyEnds, output
    <3> QED
      BY <1>1, <3>3 DEF Emptied
  <2> QED
    BY <2>2, <2>3
<1>2. ASSUME Awaited', Whole' PROVE Emptied(s)'
  <2>1. Whole
    BY <1>2, OneWay DEF Whole
  <2>2. CASE Awaited
    BY <2>1, <2>2, EmptiedStays DEF Copying
  <2>3. CASE ~Awaited
    <3>1. /\ ~(handler \in {"feeder", "join", "store", "final"}) /\ final = "none"
          /\ ~request.tty => ~(handler \in {"collect", "drain"})
      BY <2>3 DEF Awaited
    <3>2. \/ handler' \in {"feeder", "join", "store", "final"} \/ final' # "none"
          \/ ~request.tty /\ handler' \in {"collect", "drain"}
      BY <1>2, OneWay DEF Awaited
    <3>3. (ProcessWait /\ ~request.tty) \/ (Cleanup /\ request.tty)
      BY <1>0, <3>1, <3>2 DEF ChangesOf, HandlerStep, SendPid, SendPidFails, ProcessWait,
                              CollectEnvs, Cleanup, Finalized, Join, Store, SendFinal
    <3>4. CASE ProcessWait /\ ~request.tty
      <4>1. copier[s] = "done" /\ s \in Used /\ handler = "wait"
        BY <3>4 DEF ProcessWait, Waited, Used
      <4>2. ~ringClosed
        BY <4>1 DEF Executing
      <4>3. Emptied(s)
        BY <3>4, <4>1, <4>2 DEF Copying
      <4> QED
        BY <4>3, EmptiedStays
    <3>5. CASE Cleanup /\ request.tty
      <4>1. copier["stdout"] = "done" /\ handler = "drain"
        BY <3>5 DEF Cleanup, Drained
      <4>2. ~ringClosed
        BY <4>1 DEF Executing
      <4>3. "stdout" \in Streams /\ "stdout" \in Used
        BY <3>5 DEF Used, Streams
      <4>4. ptyOpen
        <5>1. ~finalError'
          BY <1>2, <3>5, OneWay DEF Whole
        <5> QED
          BY <3>5, <5>1 DEF Cleanup
      <4>5. Emptied("stdout")
        BY <4>1, <4>2, <4>3, <4>4 DEF Copying
      <4>6. CASE s \in Used
        <5>1. s = "stdout"
          BY <3>5, <4>6 DEF Used
        <5> QED
          BY <4>3, <4>5, <5>1, EmptiedStays
      <4>7. CASE s \notin Used
        <5>1. Emptied(s)
          BY <4>5, <4>7 DEF Emptied, Stations
        <5> QED
          BY <5>1, EmptiedStays
      <4> QED
        BY <4>6, <4>7
    <3> QED
      BY <3>3, <3>4, <3>5
  <2> QED
    BY <2>2, <2>3
<1>3. \/ ~(s \in Used' /\ copier'[s] = "done" /\ ~ringClosed' /\ (request'.tty => ptyOpen'))
      \/ Emptied(s)'
  BY <1>1
<1>4. \/ ~(Awaited' /\ Whole')
      \/ Emptied(s)'
  BY <1>2
<1> QED
  BY <1>3, <1>4 DEF Copying

\* More output leaves a beginning a beginning, and a cut at the limit one.
LEMMA MoreBegins ==
  ASSUME NEW v \in Items, NEW g \in Items, NEW d \in Items, NEW rest \in Items, g = v \o rest
  PROVE  \E more \in Items : g \o d = v \o more
<1>1. g \o d = v \o (rest \o d)
  <2>1. Regroups(v, rest, d)
    BY Regrouped DEF Items
  <2> QED
    BY <2>1, Zenon DEF Regroups
<1>2. rest \o d \in Items
  BY ConcatProperties DEF Items
<1> QED
  BY <1>1, <1>2

LEMMA CaptureStep ==
  ASSUME Shapes, Executing, Capture, [Next]_vars
  PROVE  Capture'
<1>0. ChangesOf /\ "stdout" \in Streams /\ request' = request
  BY Changes, OneWay DEF Streams
<1>1. ASSUME request.store # "none" PROVE Captured(mem)'
  <2>0. Captured(mem) /\ mem \in Items /\ got["stdout"] \in Items
    BY <1>0, <1>1 DEF Capture, Shapes
  <2>1. CASE UNCHANGED <<mem, got>>
    BY <2>0, <2>1 DEF Captured, Beginning
  <2>2. CASE Send
    <3>1. packet.stream \in Streams /\ packet.data \in Items
      BY <2>2 DEF Send, Shapes
    <3>2. CASE packet.stream # "stdout"
      <4>1. mem' = mem /\ got'["stdout"] = got["stdout"]
        BY <1>0, <2>2, <3>1, <3>2 DEF Send, Shapes
      <4> QED
        BY <2>0, <4>1 DEF Captured, Beginning
    <3>3. CASE packet.stream = "stdout"
      <4> DEFINE d == packet.data
      <4>1. got'["stdout"] = got["stdout"] \o d
        BY <1>0, <2>2, <3>3 DEF Send, Shapes
      <4>2. CASE Len(mem) < EnvSize
        <5>1. mem = got["stdout"]
          BY <2>0, <4>2, RunnerConstants DEF Captured, Items
        <5>2. mem' = mem \o d
          BY <1>1, <2>2, <3>3, <4>2 DEF Send
        <5>3. mem' = got'["stdout"] /\ mem' \in Items
          BY <2>0, <3>1, <4>1, <5>1, <5>2, ConcatProperties DEF Items
        <5>4. mem' \o <<>> = mem' /\ <<>> \in Items
          BY <5>3, ConcatEmptySeq, EmptySeq DEF Items
        <5>5. \E rest \in Items : got'["stdout"] = mem' \o rest
          <6>1. got'["stdout"] = mem' \o <<>>
            BY <5>3, <5>4, Zenon
          <6> QED
            BY <5>4, <6>1
        <5>6. Beginning(mem)'
          BY <5>5 DEF Beginning
        <5> QED
          BY <5>3, <5>6 DEF Captured
      <4>3. CASE ~(Len(mem) < EnvSize)
        <5>1. mem' = mem /\ Len(mem) >= EnvSize
          BY <2>0, <2>2, <4>3, RunnerConstants DEF Send, Items
        <5>2. PICK rest \in Items : got["stdout"] = mem \o rest
          BY <2>0 DEF Captured, Beginning
        <5>3. \E more \in Items : got["stdout"] \o d = mem \o more
          <6>1. PICK g \in Items : g = got["stdout"]
            BY <2>0
          <6>2. d \in Items /\ mem \in Items /\ g = mem \o rest
            BY <2>0, <3>1, <5>2, <6>1
          <6> HIDE DEF d
          <6>3. \E more \in Items : g \o d = mem \o more
            BY <6>2, MoreBegins
          <6> QED
            BY <6>1, <6>3
        <5> QED
          BY <4>1, <5>1, <5>3 DEF Captured, Beginning
      <4> QED
        BY <4>2, <4>3
    <3> QED
      BY <3>2, <3>3
  <2> QED
    BY <1>0, <2>1, <2>2 DEF ChangesOf
<1>2. ASSUME NEW n \in Names, stored'[n] # None
      PROVE  /\ Captured(stored[n])' /\ stored'[n] \in Items
             /\ request.store # "owl" => stored'[n] = got'["stdout"]
  <2>1. CASE stored'[n] = stored[n]
    <3>1. /\ Captured(stored[n]) /\ stored[n] \in Items
          /\ request.store # "owl" => stored[n] = got["stdout"]
          /\ sender \in {"done", "failed"}
      BY <1>2, <2>1 DEF Capture, Executing
    <3>2. got' = got
      BY <1>0, <3>1 DEF ChangesOf, Send
    <3> QED
      BY <2>1, <3>1, <3>2 DEF Captured, Beginning
  <2>2. CASE stored'[n] # stored[n]
    <3>1. Store
      BY <1>0, <2>2 DEF ChangesOf
    <3>2. /\ stored'[n] = mem /\ request.store # "none" /\ got' = got
          /\ request.store # "owl" => Len(mem) < EnvSize
      <4>1. PICK names \in SUBSET Names :
              /\ request.store = "none" => names = {}
              /\ request.store = "simple" => Fit(names)
              /\ stored' = [m \in Names |-> IF m \in names THEN mem ELSE stored[m]]
        BY <3>1 DEF Store
      <4>2. n \in names
        BY <2>2, <4>1
      <4>3. stored'[n] = mem /\ request.store # "none"
        BY <4>1, <4>2
      <4>4. request.store # "owl" => Len(mem) < EnvSize
        <5>1. request.store \in {"none", "simple", "owl"}
          BY DEF Shapes, TypeOK
        <5> QED
          BY <4>1, <4>2, <4>3, <5>1 DEF Fit
      <4> QED
        BY <3>1, <4>3, <4>4 DEF Store, sending
    <3>3. Captured(mem) /\ mem \in Items
      BY <3>2 DEF Capture, Shapes
    <3>4. request.store # "owl" => mem = got["stdout"]
      BY <3>2, <3>3, RunnerConstants DEF Captured, Items
    <3> QED
      BY <3>2, <3>3, <3>4 DEF Captured, Beginning
  <2> QED
    BY <2>1, <2>2
<1> QED
  BY <1>0, <1>1, <1>2 DEF Capture

LEMMA CaptureIsWhole == Shapes /\ Capture => StoredWhole
<1> SUFFICES ASSUME Shapes, Capture, NEW n \in Names, stored[n] # None
             PROVE  /\ IsPrefix(stored[n], got["stdout"])
                    /\ \/ stored[n] = got["stdout"]
                       \/ request.store = "owl" /\ Len(stored[n]) >= EnvSize
  BY DEF StoredWhole
<1>1. /\ Captured(stored[n]) /\ stored[n] \in Items
      /\ request.store # "owl" => stored[n] = got["stdout"]
  BY DEF Capture
<1>2. PICK v \in Items : v = stored[n]
  BY <1>1
<1>3. PICK rest \in Items : got["stdout"] = v \o rest
  BY <1>1, <1>2 DEF Captured, Beginning
<1>4. IsPrefix(v, v \o rest)
  BY FrontIsPrefix DEF IsPrefix, Items
<1> QED
  BY <1>1, <1>2, <1>3, <1>4 DEF Captured

-----------------------------------------------------------------------------
(* The relay.                                                              *)

LEMMA BehindTypes ==
  ASSUME Shapes, NEW s \in Streams
  PROVE  /\ InPacket(s) \in Items /\ piece[s] \in Items /\ ring[s] \in Items
         /\ kernel[s] \in Items /\ got[s] \in Items /\ written[s] \in Nat
         /\ ring[s] \o kernel[s] \in Items
         /\ piece[s] \o (ring[s] \o kernel[s]) \in Items
         /\ Behind(s) \in Items
<1>1. /\ piece[s] \in Items /\ ring[s] \in Items /\ kernel[s] \in Items
      /\ got[s] \in Items /\ written[s] \in Nat
  BY DEF Shapes
<1>2. InPacket(s) \in Items
  BY EmptySeq DEF Shapes, InPacket, Items
<1>3. ring[s] \o kernel[s] \in Items
  BY <1>1, ConcatProperties DEF Items
<1>4. piece[s] \o (ring[s] \o kernel[s]) \in Items
  BY <1>1, <1>3, ConcatProperties DEF Items
<1>5. Behind(s) \in Items
  BY <1>2, <1>4, ConcatProperties DEF Items, Behind
<1> QED
  BY <1>1, <1>2, <1>3, <1>4, <1>5

\* What a step can do for a stream: nothing, also when its chunks move on behind the
\* client; the process writes a chunk; the client gets some; a packet is lost.
Stays(s) == /\ written'[s] = written[s] /\ got'[s] = got[s]
            /\ sender' = "failed" \/ Behind(s)' = Behind(s)
Grows(s) == /\ written'[s] = written[s] + 1 /\ got'[s] = got[s]
            /\ Behind(s)' = Append(Behind(s), written[s] + 1)
Arrives(s) == /\ written'[s] = written[s]
              /\ \E d, rest \in Items : /\ Behind(s) = d \o rest /\ got'[s] = got[s] \o d
                                        /\ Behind(s)' = <<>> \o rest

Progress(s) == /\ sender = "failed" => sender' = "failed" /\ got' = got
               /\ Stays(s) \/ Grows(s) \/ (sender # "failed" /\ Arrives(s))

LEMMA ProgressStep ==
  ASSUME Shapes, Executing, [Next]_vars, NEW s \in Streams, Stations(s)
  PROVE  Progress(s)
<1>0. ChangesOf
  BY Changes
<1>1. ASSUME sender = "failed" PROVE sender' = "failed" /\ got' = got
  <2>1. handler # "pid"
    BY <1>1 DEF Executing
  <2>2. sender' = "failed"
    BY <1>0, <1>1, <2>1 DEF ChangesOf, SenderChange, Pass, Send, SendFails, SenderEnds, SendPid
  <2>3. got' = got
    BY <1>0, <1>1 DEF ChangesOf, Send
  <2> QED
    BY <2>2, <2>3
<1>2. \/ Stays(s) \/ Grows(s)
      \/ sender # "failed" /\ Arrives(s)
  <2>1. ASSUME NEW t \in Streams, ProcessWrites(t) PROVE Stays(s) \/ Grows(s)
    <3>1. /\ UNCHANGED <<ring, piece, sender, packet, got>>
          /\ written' = [written EXCEPT ![t] = @ + 1]
          /\ kernel' = [kernel EXCEPT ![t] = Append(@, written[t] + 1)]
      BY <2>1 DEF ProcessWrites, relay, sending
    <3>2. InPacket(s)' = InPacket(s)
      BY <3>1 DEF InPacket
    <3>3. CASE t # s
      <4>1. written'[s] = written[s] /\ kernel'[s] = kernel[s]
        BY <3>1, <3>3 DEF Shapes
      <4> QED
        BY <3>1, <3>2, <4>1 DEF Stays, Behind
    <3>4. CASE t = s
      <4>1. written'[s] = written[s] + 1 /\ kernel'[s] = Append(kernel[s], written[s] + 1)
        BY <3>1, <3>4 DEF Shapes
      <4> DEFINE x == written[s] + 1
                 b == ring[s] \o kernel[s]
                 c == piece[s] \o b
      <4>2. x \in Nat /\ b \in Items /\ c \in Items
        BY BehindTypes
      <4>3. /\ ring[s] \in Items /\ kernel[s] \in Items /\ piece[s] \in Items
            /\ InPacket(s) \in Items
        BY BehindTypes
      <4>4. Append(b, x) = ring[s] \o Append(kernel[s], x)
        BY <4>2, <4>3, AppendBehind
      <4> HIDE DEF x, b
      <4>5. Append(c, x) = piece[s] \o Append(b, x)
        BY <4>2, <4>3, AppendBehind
      <4> HIDE DEF c
      <4>6. Append(InPacket(s) \o c, x) = InPacket(s) \o Append(c, x)
        BY <4>2, <4>3, AppendBehind
      <4>7. Behind(s) = InPacket(s) \o c
        BY DEF Behind, b, c
      <4>8. Behind(s)' = InPacket(s) \o (piece[s] \o (ring[s] \o Append(kernel[s], x)))
        BY <3>1, <3>2, <4>1 DEF Behind, x
      <4>9. Behind(s)' = Append(Behind(s), x)
        BY <4>4, <4>5, <4>6, <4>7, <4>8
      <4> QED
        BY <3>1, <4>1, <4>9 DEF Grows, x
    <3> QED
      BY <3>3, <3>4
  <2>2. ASSUME NEW t \in Streams, Copy(t) PROVE Stays(s)
    <3>1. /\ UNCHANGED <<written, piece, sender, packet, got>> /\ kernel[t] # <<>>
          /\ ring' = [ring EXCEPT ![t] = Append(@, Head(kernel[t]))]
          /\ kernel' = [kernel EXCEPT ![t] = Tail(@)]
      BY <2>2 DEF Copy, sending
    <3>2. InPacket(s)' = InPacket(s)
      BY <3>1 DEF InPacket
    <3>3. ring'[s] \o kernel'[s] = ring[s] \o kernel[s]
      <4>1. CASE t # s
        BY <3>1, <4>1 DEF Shapes
      <4>2. CASE t = s
        <5>1. ring'[s] = Append(ring[s], Head(kernel[s])) /\ kernel'[s] = Tail(kernel[s])
          BY <3>1, <4>2 DEF Shapes
        <5>2. ring[s] \in Items /\ kernel[s] \in Items /\ kernel[s] # <<>>
          BY <3>1, <4>2, BehindTypes
        <5>3. Append(ring[s], Head(kernel[s])) \o Tail(kernel[s]) = ring[s] \o kernel[s]
          BY <5>2, CopyMoves
        <5> QED
          BY <5>1, <5>3
      <4> QED
        BY <4>1, <4>2
    <3>4. Behind(s)' = Behind(s)
      BY <3>1, <3>2, <3>3 DEF Behind
    <3> QED
      BY <3>1, <3>4 DEF Stays
  <2>3. ASSUME NEW t \in Streams, Read(t) PROVE Stays(s)
    <3> DEFINE f == SubSeq(ring[s], 1, Taken(ring[s]))
               r == SubSeq(ring[s], Taken(ring[s]) + 1, Len(ring[s]))
    <3>1. UNCHANGED <<written, kernel, sender, packet, got>>
      BY <2>3 DEF Read, output, sending
    <3>2. InPacket(s)' = InPacket(s)
      BY <3>1 DEF InPacket
    <3>3. CASE t # s
      <4>1. piece'[s] = piece[s] /\ ring'[s] = ring[s]
        BY <2>3, <3>3 DEF Read, Shapes
      <4> QED
        BY <3>1, <3>2, <4>1 DEF Stays, Behind
    <3>4. CASE t = s
      <4>1. piece'[s] = f /\ ring'[s] = r /\ ring[s] # <<>> /\ loop[s] = "read"
        BY <2>3, <3>4 DEF Read, Taken, Shapes
      <4>2. f \in Items /\ r \in Items /\ f \o r = ring[s]
        BY <4>1, BehindTypes, ReadSplits
      <4>3. piece[s] = <<>>
        BY <4>1 DEF Stations
      <4> HIDE DEF f, r
      <4>4. (f \o r) \o kernel[s] = f \o (r \o kernel[s])
        <5>1. f \in Seq(Nat) /\ r \in Seq(Nat) /\ kernel[s] \in Seq(Nat)
          BY <4>2, BehindTypes DEF Items
        <5>2. Regroups(f, r, kernel[s])
          BY <5>1, Regrouped
        <5> QED
          BY <5>2 DEF Regroups
      <4>5. <<>> \o (ring[s] \o kernel[s]) = ring[s] \o kernel[s]
        BY BehindTypes, ConcatEmptySeq DEF Items
      <4>6. piece[s] \o (ring[s] \o kernel[s]) = f \o (r \o kernel[s])
        BY <4>2, <4>3, <4>4, <4>5
      <4>7. Behind(s)' = Behind(s)
        BY <3>1, <3>2, <4>1, <4>6 DEF Behind
      <4> QED
        BY <3>1, <4>7 DEF Stays
    <3> QED
      BY <3>3, <3>4
  <2>4. ASSUME NEW t \in Streams, Pass(t) PROVE Stays(s)
    <3>1. /\ UNCHANGED <<written, kernel, ring, got>>
          /\ sender = "recv" /\ sender' = "send"
          /\ packet' = [stream |-> t, data |-> piece[t]]
          /\ piece' = [piece EXCEPT ![t] = <<>>]
      BY <2>4 DEF Pass, output
    <3>2. InPacket(s) = <<>>
      BY <3>1 DEF InPacket
    <3>3. CASE t # s
      <4>1. piece'[s] = piece[s]
        BY <3>1, <3>3 DEF Shapes
      <4>2. InPacket(s)' = <<>>
        BY <3>1, <3>3 DEF InPacket
      <4> QED
        BY <3>1, <3>2, <4>1, <4>2 DEF Stays, Behind
    <3>4. CASE t = s
      <4>1. piece'[s] = <<>>
        BY <3>1, <3>4 DEF Shapes
      <4>2. InPacket(s)' = piece[s]
        BY <3>1, <3>4 DEF InPacket
      <4>3. <<>> \o (piece[s] \o (ring[s] \o kernel[s]))
              = piece[s] \o (<<>> \o (ring[s] \o kernel[s]))
        <5> DEFINE b == ring[s] \o kernel[s]
        <5>1. b \in Seq(Nat) /\ piece[s] \in Seq(Nat)
          BY BehindTypes DEF Items
        <5> HIDE DEF b
        <5>2. <<>> \o (piece[s] \o b) = piece[s] \o (<<>> \o b)
          BY <5>1, MoveAcrossEmpty
        <5> QED
          BY <5>2 DEF b
      <4>4. Behind(s)' = Behind(s)
        BY <3>1, <3>2, <4>1, <4>2, <4>3 DEF Behind
      <4> QED
        BY <3>1, <4>4 DEF Stays
    <3> QED
      BY <3>3, <3>4
  <2>5. CASE Send
    <3> DEFINE p == packet.stream
               d == packet.data
               rest == piece[s] \o (ring[s] \o kernel[s])
    <3>1. /\ UNCHANGED <<written, kernel, ring, piece>>
          /\ sender = "send" /\ sender' = "recv"
          /\ got' = [got EXCEPT ![p] = @ \o d]
      BY <2>5 DEF Send, output, relay
    <3>2. p \in Streams /\ d \in Items /\ rest \in Items
      BY <3>1, BehindTypes DEF Shapes
    <3>3. Behind(s)' = <<>> \o rest
      <4>1. InPacket(s)' = <<>>
        BY <3>1 DEF InPacket
      <4> QED
        BY <3>1, <4>1 DEF Behind
    <3>4. CASE p = s
      <4>1. Behind(s) = d \o rest
        BY <3>1, <3>4 DEF Behind, InPacket
      <4>2. got'[s] = got[s] \o d
        BY <3>1, <3>4 DEF Shapes
      <4> HIDE DEF d, rest
      <4> QED
        BY <3>1, <3>2, <3>3, <4>1, <4>2 DEF Arrives
    <3>5. CASE p # s
      <4>1. Behind(s) = <<>> \o rest
        BY <3>1, <3>5 DEF Behind, InPacket
      <4>2. got'[s] = got[s]
        BY <3>1, <3>2, <3>5 DEF Shapes
      <4> QED
        BY <3>1, <3>3, <4>1, <4>2 DEF Stays
    <3> QED
      BY <3>1, <3>4, <3>5
  <2>6. CASE SendFails
    BY <2>6 DEF SendFails, output, relay, Stays
  <2>7. CASE SenderEnds \/ SendPid
    <3>1. /\ UNCHANGED <<written, kernel, ring, piece, got>>
          /\ sender' # "send"
      BY <2>7 DEF SenderEnds, SendPid, output, relay
    <3>2. sender # "send"
      BY <2>7 DEF SenderEnds, SendPid, Executing
    <3> QED
      BY <3>1, <3>2 DEF Stays, Behind, InPacket
  <2>8. ASSUME NEW t \in Streams, ReadEOF(t) PROVE Stays(s)
    BY <2>8 DEF ReadEOF, output, sending, Stays, Behind, InPacket
  <2>9. ASSUME UNCHANGED <<written, kernel>>, UNCHANGED ring, UNCHANGED <<loop, piece>>,
               UNCHANGED <<sender, packet>>, UNCHANGED <<mem, got>>
        PROVE  Stays(s)
    BY <2>9 DEF Stays, Behind, InPacket
  <2>10. sender # "failed" \/ ~Send
    BY DEF Send
  <2>11. CASE ~Send
    BY <1>0, <2>1, <2>2, <2>3, <2>4, <2>6, <2>7, <2>8, <2>9, <2>11
       DEF ChangesOf, OutputChange, RingChange, LoopChange, SenderChange
  <2> QED
    BY <2>5, <2>10, <2>11
<1> QED
  BY <1>1, <1>2 DEF Progress

-----------------------------------------------------------------------------
(* The theorems.                                                           *)

\* A packet leaves the stations behind the client.
Arrival(g, d, r) == g \o (d \o r) = (g \o d) \o (<<>> \o r)

LEMMA Arrived ==
  ASSUME NEW g \in Seq(Nat), NEW d \in Seq(Nat), NEW r \in Seq(Nat)
  PROVE  Arrival(g, d, r)
BY MoveAll DEF Arrival

LEMMA FlowStep ==
  ASSUME Shapes, NEW s \in Streams, Flow(s), Progress(s)
  PROVE  Flow(s)'
<1> DEFINE n == Numbered(written[s])
<1>1. PICK rest \in Items : /\ n = got[s] \o rest
                            /\ sender # "failed" => rest = Behind(s)
  BY DEF Flow
<1>2. got[s] \in Items /\ written[s] \in Nat
  BY BehindTypes
<1>3. CASE Stays(s)
  <2>1. n' = n /\ got'[s] = got[s]
    BY <1>3 DEF Stays
  <2>2. sender' # "failed" => rest = Behind(s)'
    BY <1>1, <1>3 DEF Stays, Progress
  <2> QED
    BY <1>1, <2>1, <2>2 DEF Flow
<1>4. CASE Grows(s)
  <2> DEFINE x == written[s] + 1
  <2>1. n' = Append(n, x) /\ x \in Nat /\ got'[s] = got[s]
    <3>1. written'[s] = x /\ x \in Nat /\ got'[s] = got[s]
      BY <1>2, <1>4 DEF Grows
    <3>2. Numbered(written[s])' = Numbered(written'[s])
      OBVIOUS
    <3>3. Numbered(written[s] + 1) = Append(Numbered(written[s]), written[s] + 1)
      BY <1>2, NumberedItems
    <3> QED
      BY <3>1, <3>2, <3>3
  <2> HIDE DEF x, n
  <2>2. Append(rest, x) \in Items
    BY <1>1, <2>1, AppendProperties DEF Items
  <2>3. got[s] \o Append(rest, x) = Append(got[s] \o rest, x)
    BY <1>1, <1>2, <2>1, AppendBehind
  <2>4. n' = got'[s] \o Append(rest, x)
    BY <1>1, <2>1, <2>3
  <2>5. sender' # "failed" => Append(rest, x) = Behind(s)'
    BY <1>1, <1>4 DEF Grows, Progress, x
  <2>6. Numbered(written[s])' = got'[s] \o Append(rest, x)
    BY <2>4 DEF n
  <2> QED
    BY <2>2, <2>5, <2>6, Zenon DEF Flow
<1>5. CASE sender # "failed" /\ Arrives(s)
  <2>1. Numbered(written[s])' = n /\ rest = Behind(s)
    <3>1. Numbered(written[s])' = Numbered(written'[s])
      OBVIOUS
    <3> QED
      BY <1>1, <1>5, <3>1 DEF Arrives
  <2>2. PICK d \in Items, r \in Items : /\ Behind(s) = d \o r /\ got'[s] = got[s] \o d
                                        /\ Behind(s)' = <<>> \o r
    BY <1>5 DEF Arrives
  <2> HIDE DEF n
  <2>3. <<>> \o r \in Items
    BY <2>2, ConcatEmptySeq DEF Items
  <2>4. got[s] \o (d \o r) = (got[s] \o d) \o (<<>> \o r)
    <3>1. Arrival(got[s], d, r)
      BY <1>2, <2>2, Arrived DEF Items
    <3> QED
      BY <3>1 DEF Arrival
  <2>5. Numbered(written[s])' = got'[s] \o (<<>> \o r)
    BY <1>1, <2>1, <2>2, <2>4
  <2> QED
    BY <2>2, <2>3, <2>5, Zenon DEF Flow
<1> QED
  BY <1>3, <1>4, <1>5 DEF Progress

LEMMA InvKept == Spec => []RunInv
<1>1. ASSUME RunInv, [Next]_vars PROVE RunInv'
  <2>1. Shapes /\ Executing /\ Capture /\ \A s \in Streams : Flow(s) /\ Stations(s) /\ Copying(s)
    BY <1>1 DEF RunInv
  <2>2. Shapes' /\ Executing' /\ Capture'
    BY <1>1, <2>1, ShapesStep, ExecutingStep, CaptureStep
  <2>3. ASSUME NEW s \in Streams PROVE Flow(s)' /\ Stations(s)' /\ Copying(s)'
    <3>1. Progress(s)
      BY <1>1, <2>1, ProgressStep
    <3>2. Flow(s)'
      BY <2>1, <3>1, FlowStep
    <3>3. Stations(s)'
      BY <1>1, <2>1, StationsStep
    <3>4. Copying(s)'
      BY <1>1, <2>1, CopyingStep
    <3> QED
      BY <3>2, <3>3, <3>4
  <2> QED
    BY <2>2, <2>3 DEF RunInv
<1>2. RunInv /\ UNCHANGED vars => RunInv'
  BY <1>1
<1>3. RunInv /\ [Next]_vars => RunInv'
  BY <1>1
<1> QED
  BY <1>3, InvInit, PTL DEF Spec

\* A client that gets the last response has all output, unless a request to stop closed
\* the terminal under it, and a variable holds all of the client's standard output, in an
\* owl store at least the beginning of it up to the limit, whatever the sizes of the
\* buffers: Execute's waiting for the process, for the readers of the terminal and for the
\* two goroutines that relay is enough (service.go, Execute; command.go, Finalize).
THEOREM LastResponseIsLast == Spec => []RunnerInv
<1>1. RunInv => RunnerInv
  <2> SUFFICES ASSUME RunInv PROVE RunnerInv
    OBVIOUS
  <2>1. /\ Shapes /\ Executing /\ Capture
        /\ \A s \in Streams : Flow(s) /\ Stations(s) /\ Copying(s)
    BY DEF RunInv
  <2>2. ASSUME final = "sent", Whole, sender = "done", NEW s \in Streams
        PROVE  Len(got[s]) = written[s]
    <3>1. kernel[s] = <<>>
      BY <2>1, <2>2 DEF Copying, Awaited, Emptied
    <3>2. ring[s] = <<>> /\ piece[s] = <<>>
      BY <2>1, <2>2 DEF Stations
    <3>3. InPacket(s) = <<>>
      BY <2>2 DEF InPacket
    <3>4. <<>> \o <<>> = <<>>
      BY ConcatEmptySeq, EmptySeq
    <3>5. Behind(s) = <<>>
      BY <3>1, <3>2, <3>3, <3>4 DEF Behind
    <3>6. Numbered(written[s]) = got[s] \o <<>>
      BY <2>1, <2>2, <3>5 DEF Flow
    <3>7. got[s] \in Items /\ written[s] \in Nat
      BY <2>1, BehindTypes
    <3>8. Numbered(written[s]) = got[s]
      BY <3>6, <3>7, ConcatEmptySeq DEF Items
    <3> QED
      BY <3>7, <3>8, NumberedItems
  <2>3. ExitIsLast
    BY <2>2 DEF ExitIsLast
  <2>4. TypeOK /\ StoredWhole
    BY <2>1, CaptureIsWhole DEF Shapes
  <2> QED
    BY <2>3, <2>4 DEF RunnerInv
<1> QED
  BY <1>1, InvKept, PTL

LEMMA PrefixWhenExtended ==
  ASSUME NEW g \in Items, NEW d \in Items, NEW rest \in Items
  PROVE  /\ StdoutRelay!IsPrefix(g \o d, g \o (d \o rest))
         /\ StderrRelay!IsPrefix(g \o d, g \o (d \o rest))
         /\ g \o d # g => /\ StdoutRelay!IsStrictPrefix(g, g \o d)
                          /\ StderrRelay!IsStrictPrefix(g, g \o d)
<1>1. g \in Seq(Nat) /\ d \in Seq(Nat) /\ rest \in Seq(Nat)
  BY DEF Items
<1>2. g \o d \in Seq(Nat)
  BY <1>1, ConcatProperties
<1>3. (g \o d) \o rest = g \o (d \o rest)
  BY <1>1, Regrouped DEF Regroups
<1>4. Len(g) <= Len(g \o d) /\ SubSeq(g, 1, Len(g)) = SubSeq(g \o d, 1, Len(g))
  BY <1>1, FrontIsPrefix
<1> DEFINE h == g \o d
<1>5. h \in Seq(Nat) /\ h \o rest = g \o (d \o rest)
  BY <1>2, <1>3
<1> HIDE DEF h
<1>6. Len(h) <= Len(h \o rest) /\ SubSeq(h, 1, Len(h)) = SubSeq(h \o rest, 1, Len(h))
  BY <1>1, <1>5, FrontIsPrefix
<1>7. /\ StdoutRelay!IsPrefix(h, h \o rest)
      /\ StderrRelay!IsPrefix(h, h \o rest)
  BY <1>6 DEF StdoutRelay!IsPrefix, StderrRelay!IsPrefix
<1>8. /\ StdoutRelay!IsPrefix(g, g \o d)
      /\ StderrRelay!IsPrefix(g, g \o d)
  BY <1>4 DEF StdoutRelay!IsPrefix, StderrRelay!IsPrefix
<1> QED
  BY <1>5, <1>7, <1>8 DEF h, StdoutRelay!IsStrictPrefix, StderrRelay!IsStrictPrefix

\* A stream's step as its relay sees it.
Relayed(s) ==
  \/ UNCHANGED <<written[s], got[s]>>
  \/ /\ UNCHANGED got[s]
     /\ StdoutRelay!IsStrictPrefix(Numbered(written[s]), Numbered(written'[s]))
     /\ StderrRelay!IsStrictPrefix(Numbered(written[s]), Numbered(written'[s]))
  \/ /\ UNCHANGED written[s]
     /\ StdoutRelay!IsStrictPrefix(got[s], got'[s]) /\ StderrRelay!IsStrictPrefix(got[s], got'[s])
     /\ StdoutRelay!IsPrefix(got'[s], Numbered(written[s]))
     /\ StderrRelay!IsPrefix(got'[s], Numbered(written[s]))

LEMMA RelayedStep ==
  ASSUME RunInv, [Next]_vars, NEW s \in Streams
  PROVE  Relayed(s)
<1>1. Progress(s)
  BY ProgressStep DEF RunInv
<1>2. got[s] \in Items /\ written[s] \in Nat
  BY BehindTypes DEF RunInv
<1>3. CASE Stays(s)
  BY <1>3 DEF Stays, Relayed
<1>4. CASE Grows(s)
  <2> DEFINE n == Numbered(written[s])
             one == <<written[s] + 1>>
  <2>1. Numbered(written'[s]) = Append(n, written[s] + 1) /\ n \in Items
    BY <1>2, <1>4, NumberedItems DEF Grows
  <2>2. Append(n, written[s] + 1) = n \o one /\ one \in Items /\ one # <<>>
    <3>1. one \in Seq(Nat) /\ one # <<>> /\ written[s] + 1 \in Nat /\ n \in Seq(Nat)
      BY <1>2, <2>1 DEF Items
    <3> HIDE DEF n
    <3>2. Append(n, written[s] + 1) = n \o one
      BY <3>1, AppendIsConcat
    <3> QED
      BY <3>1, <3>2 DEF Items
  <2> HIDE DEF n, one
  <2>3. n \o one # n
    BY <2>1, <2>2, FrontIsPrefix DEF Items
  <2>4. /\ StdoutRelay!IsStrictPrefix(n, n \o one)
        /\ StderrRelay!IsStrictPrefix(n, n \o one)
    BY <2>1, <2>2, <2>3, PrefixWhenExtended
  <2> QED
    BY <1>4, <2>1, <2>2, <2>4 DEF Grows, Relayed, n
<1>5. CASE sender # "failed" /\ Arrives(s)
  <2>1. PICK d \in Items, rest \in Items : Behind(s) = d \o rest /\ got'[s] = got[s] \o d
    BY <1>5 DEF Arrives
  <2>2. Flow(s)
    BY DEF RunInv
  <2>3. Numbered(written[s]) = got[s] \o (d \o rest)
    BY <1>5, <2>1, <2>2 DEF Flow
  <2>4. CASE got'[s] = got[s]
    BY <1>5, <2>4 DEF Arrives, Relayed
  <2>5. CASE got'[s] # got[s]
    <3>1. /\ StdoutRelay!IsStrictPrefix(got[s], got'[s])
          /\ StderrRelay!IsStrictPrefix(got[s], got'[s])
          /\ StdoutRelay!IsPrefix(got'[s], Numbered(written[s]))
          /\ StderrRelay!IsPrefix(got'[s], Numbered(written[s]))
      BY <1>2, <2>1, <2>3, <2>5, PrefixWhenExtended
    <3> QED
      BY <1>5, <3>1 DEF Arrives, Relayed
  <2> QED
    BY <2>4, <2>5
<1> QED
  BY <1>1, <1>3, <1>4, <1>5 DEF Progress

\* Each output stream of a call is relayed: what the client got of it is what the process
\* wrote, in that order, each chunk once and none left out in between, for any sizes and
\* any interleaving of the copying goroutines, the read loops and the sender
\* (rbuffer.RingBuffer; service.go, readLoop and Execute).
THEOREM OutputIsRelayed == Spec => OutputRelay
<1>1. Init => StdoutRelay!RelayInit /\ StderrRelay!RelayInit
  <2>1. "stdout" \in Streams /\ "stderr" \in Streams
    BY DEF Streams
  <2>2. Numbered(0) = <<>>
    BY NumberedItems
  <2> QED
    BY <2>1, <2>2 DEF Init, StdoutRelay!RelayInit, StderrRelay!RelayInit
<1>2. RunInv /\ [Next]_vars
        => /\ [StdoutRelay!Accept \/ StdoutRelay!Deliver]_(StdoutRelay!relayVars)
           /\ [StderrRelay!Accept \/ StderrRelay!Deliver]_(StderrRelay!relayVars)
  <2> SUFFICES ASSUME RunInv, [Next]_vars
               PROVE  /\ [StdoutRelay!Accept \/ StdoutRelay!Deliver]_(StdoutRelay!relayVars)
                      /\ [StderrRelay!Accept \/ StderrRelay!Deliver]_(StderrRelay!relayVars)
    OBVIOUS
  <2>1. Relayed("stdout") /\ Relayed("stderr")
    BY RelayedStep DEF Streams
  <2>2. [StdoutRelay!Accept \/ StdoutRelay!Deliver]_(StdoutRelay!relayVars)
    BY <2>1 DEF Relayed, StdoutRelay!Accept, StdoutRelay!Deliver, StdoutRelay!relayVars
  <2>3. [StderrRelay!Accept \/ StderrRelay!Deliver]_(StderrRelay!relayVars)
    BY <2>1 DEF Relayed, StderrRelay!Accept, StderrRelay!Deliver, StderrRelay!relayVars
  <2> QED
    BY <2>2, <2>3
<1> QED
  BY <1>1, <1>2, InvKept, PTL DEF Spec, OutputRelay, StdoutRelay!RelaySpec,
     StderrRelay!RelaySpec

-----------------------------------------------------------------------------
(* The monitors of a session (EnvMonitor).                                 *)

(* The list of subscribers, the mutex and the channels.                    *)

\* A monitor subscribes before it can leave, and to an owl store only.
Subscribed ==
  \A m \in Monitors : /\ leaving[m] # "no" => subscribing[m] = "done" /\ owl
                      /\ subscribing[m] \in {"lock", "append"} => owl
                      /\ monitor[m] = "idle" => subscribing[m] = "no"
                      /\ leaving[m] \in {"close", "done"} => m \in over

StoreInv == Locking /\ Listed /\ SendsOnOpen /\ OwnEnd /\ Subscribed

\* What a client was shown.
Views == [newest : -1..Updates, last : -1..Updates]

\* MonitorTypeOK, but for what clients were shown.
OthersTyped ==
  /\ owl \in BOOLEAN /\ version \in 0..Updates /\ unread \in BOOLEAN
  /\ subscribers \in Seq(Monitors) /\ closed \subseteq Monitors
  /\ readers \subseteq Notifiers /\ locker \in Monitors \cup {Nobody}
  /\ notify \in [Notifiers -> {"idle", "rlock", "snapshot", "send"}]
  /\ snapshot \in [Notifiers -> 0..Updates] /\ todo \in [Notifiers -> Seq(Monitors)]
  /\ monitor \in [Monitors -> {"idle", "wait", "join", "returned"}]
  /\ over \subseteq Monitors
  /\ subscribing \in [Monitors -> {"no", "lock", "append", "fail", "done"}]
  /\ leaving \in [Monitors -> {"no", "wait", "close", "done"}]
  /\ consumer \in [Monitors -> {"no", "receive", "send", "drain", "done"}]
  /\ hand \in [Monitors -> 0..Updates]
  /\ errc \in [Monitors -> BOOLEAN]

LEMMA TypeParts == MonitorTypeOK <=> OthersTyped /\ shown \in [Monitors -> Views]
  BY DEF MonitorTypeOK, OthersTyped, Views

LEMMA MonitorTypeInit == MonitorInit => MonitorTypeOK
<1> SUFFICES ASSUME MonitorInit PROVE MonitorTypeOK
  OBVIOUS
<1>1. OthersTyped
  <2>1. owl \in BOOLEAN /\ unread \in BOOLEAN
    BY DEF MonitorInit
  <2>2. <<>> \in Seq(Monitors) /\ 0 \in 0..Updates
    BY MonitorConstants
  <2>3. /\ subscribers \in Seq(Monitors)
        /\ todo \in [Notifiers -> Seq(Monitors)]
    BY <2>2 DEF MonitorInit
  <2>4. errc \in [Monitors -> BOOLEAN]
    BY DEF MonitorInit
  <2> QED
    BY <2>1, <2>2, <2>3, <2>4 DEF MonitorInit, OthersTyped
<1>2. [newest |-> -1, last |-> -1] \in Views
  BY MonitorConstants DEF Views
<1>3. shown \in [Monitors -> Views]
  BY <1>2 DEF MonitorInit
<1> QED
  BY <1>1, <1>3, TypeParts

LEMMA MaxOfTwo == \A a, b \in -1..Updates : Max({a, b}) \in -1..Updates
<1> SUFFICES ASSUME NEW a \in -1..Updates, NEW b \in -1..Updates
             PROVE  Max({a, b}) \in -1..Updates
  OBVIOUS
<1>0. a \in Int /\ b \in Int
  BY MonitorConstants
<1>1. \E x \in {a, b} : \A y \in {a, b} : x >= y
  <2>1. CASE a >= b
    <3>1. \A y \in {a, b} : a >= y
      BY <1>0, <2>1
    <3> QED
      BY <3>1
  <2>2. CASE b >= a
    <3>1. \A y \in {a, b} : b >= y
      BY <1>0, <2>2
    <3> QED
      BY <3>1
  <2> QED
    BY <1>0, <2>1, <2>2
<1>2. Max({a, b}) \in {a, b}
  BY <1>1 DEF Max
<1> QED
  BY <1>2

\* Every variable keeps its type.
LEMMA OthersTypedStep == OthersTyped /\ Listed /\ [MonitorNext]_monitorVars => OthersTyped'
<1> SUFFICES ASSUME OthersTyped, Listed, [MonitorNext]_monitorVars PROVE OthersTyped'
  OBVIOUS
<1> USE MonitorConstants DEF OthersTyped, Set, store, mutex, notification, call
<1>1. ASSUME NEW w \in Writers, Update(w) PROVE OthersTyped'
  <2>1. version' \in 0..Updates
    BY <1>1 DEF Update
  <2>2. unread' \in BOOLEAN
    BY <1>1 DEF Update
  <2>3. notify' \in [Notifiers -> {"idle", "rlock", "snapshot", "send"}]
    BY <1>1 DEF Update, Notifiers
  <2> QED
    BY <1>1, <2>1, <2>2, <2>3 DEF Update
<1>2. ASSUME NEW n \in Notifiers, NotifyRLock(n) PROVE OthersTyped'
  BY <1>2 DEF NotifyRLock, RLock
<1>3. ASSUME NEW n \in Notifiers, TakeSnapshot(n) PROVE OthersTyped'
  <2>1. <<>> \in Seq(Monitors)
    OBVIOUS
  <2>2. unread' \in BOOLEAN
    BY <1>3 DEF TakeSnapshot
  <2>3. snapshot' \in [Notifiers -> 0..Updates]
    BY <1>3 DEF TakeSnapshot
  <2>4. todo' \in [Notifiers -> Seq(Monitors)]
    BY <1>3, <2>1 DEF TakeSnapshot
  <2>5. notify' \in [Notifiers -> {"idle", "rlock", "snapshot", "send"}]
    BY <1>3 DEF TakeSnapshot
  <2> QED
    BY <1>3, <2>2, <2>3, <2>4, <2>5 DEF TakeSnapshot
<1>4. ASSUME NEW n \in Notifiers, SendSnapshot(n) PROVE OthersTyped'
  <2>1. Head(todo[n]) \in Monitors /\ Tail(todo[n]) \in Seq(Monitors)
    BY <1>4, TailSet DEF SendSnapshot
  <2>2. todo' \in [Notifiers -> Seq(Monitors)]
    BY <1>4, <2>1 DEF SendSnapshot
  <2>3. /\ hand' \in [Monitors -> 0..Updates]
        /\ consumer' \in [Monitors -> {"no", "receive", "send", "drain", "done"}]
    <3>1. CASE UNCHANGED <<hand, consumer>>
      BY <3>1
    <3>2. CASE /\ hand' = [hand EXCEPT ![Head(todo[n])] = snapshot[n]]
               /\ consumer' = [consumer EXCEPT ![Head(todo[n])] = "send"]
      <4>1. snapshot[n] \in 0..Updates
        OBVIOUS
      <4> QED
        BY <3>2, <4>1
    <3> QED
      BY <1>4, <3>1, <3>2 DEF SendSnapshot
  <2> QED
    BY <1>4, <2>2, <2>3 DEF SendSnapshot
<1>5. ASSUME NEW n \in Notifiers, NotifyEnds(n) PROVE OthersTyped'
  BY <1>5 DEF NotifyEnds, RUnlock
<1>6. ASSUME NEW m \in Monitors, MonitorCall(m) PROVE OthersTyped'
  BY <1>6 DEF MonitorCall
<1>7. ASSUME NEW m \in Monitors, SubscribeFails(m) PROVE OthersTyped'
  BY <1>7 DEF SubscribeFails
<1>8. ASSUME NEW m \in Monitors, SubscribeLock(m) PROVE OthersTyped'
  BY <1>8 DEF SubscribeLock, Announce
<1>9. ASSUME NEW m \in Monitors, Subscribe(m) PROVE OthersTyped'
  <2>1. subscribers' \in Seq(Monitors)
    BY <1>9 DEF Subscribe
  <2>2. /\ subscribing' = [subscribing EXCEPT ![m] = "done"]
        /\ leaving' = [leaving EXCEPT ![m] = "wait"]
        /\ notify' = [notify EXCEPT ![m] = "rlock"]
        /\ m \in Notifiers
    BY <1>9 DEF Subscribe, Notifiers
  <2>3. /\ subscribing' \in [Monitors -> {"no", "lock", "append", "fail", "done"}]
        /\ leaving' \in [Monitors -> {"no", "wait", "close", "done"}]
        /\ notify' \in [Notifiers -> {"idle", "rlock", "snapshot", "send"}]
    BY <2>2
  <2> QED
    BY <1>9, <2>1, <2>3 DEF Subscribe, Unlock
<1>10. ASSUME NEW m \in Monitors, UnsubscribeLock(m) PROVE OthersTyped'
  BY <1>10 DEF UnsubscribeLock, Announce
<1>11. ASSUME NEW m \in Monitors, Unsubscribe(m) PROVE OthersTyped'
  <2>1. subscribers' \in Seq(Monitors)
    <3>1. Distinct(subscribers)
      BY DEF Listed, Distinct
    <3>2. PICK i \in DOMAIN subscribers : subscribers' = RemoveAt(subscribers, i)
      BY <1>11 DEF Unsubscribe
    <3>3. subscribers \in Seq(Monitors)
      OBVIOUS
    <3> QED
      BY <3>1, <3>2, <3>3, RemoveAtSet
  <2> QED
    BY <1>11, <2>1 DEF Unsubscribe, Unlock
<1>12. ASSUME NEW m \in Monitors, ClientLeaves(m) PROVE OthersTyped'
  BY <1>12 DEF ClientLeaves
<1>13. ASSUME NEW m \in Monitors, Forward(m) PROVE OthersTyped'
  BY <1>13 DEF Forward
<1>14. ASSUME NEW m \in Monitors, ForwardFails(m) PROVE OthersTyped'
  BY <1>14 DEF ForwardFails
<1>15. ASSUME NEW m \in Monitors, ConsumerEnds(m) PROVE OthersTyped'
  BY <1>15 DEF ConsumerEnds
<1>16. ASSUME NEW m \in Monitors, CallStep(m) PROVE OthersTyped'
  BY <1>16 DEF CallStep, Result, Return
<1>17. CASE UNCHANGED monitorVars
  BY <1>17 DEF monitorVars
<1> QED
  BY <1>1, <1>2, <1>3, <1>4, <1>5, <1>6, <1>7, <1>8, <1>9, <1>10, <1>11, <1>12, <1>13,
     <1>14, <1>15, <1>16, <1>17
  DEF MonitorNext, NotifyStep, SubscribeStep, LeaveStep, ConsumerStep

LEMMA MonitorTypeStep == MonitorTypeOK /\ Listed /\ [MonitorNext]_monitorVars => MonitorTypeOK'
<1> SUFFICES ASSUME MonitorTypeOK, Listed, [MonitorNext]_monitorVars PROVE MonitorTypeOK'
  OBVIOUS
<1>1. OthersTyped' /\ shown \in [Monitors -> Views] /\ hand \in [Monitors -> 0..Updates]
  BY TypeParts, OthersTypedStep DEF OthersTyped
<1>2. shown' \in [Monitors -> Views]
  <2>1. ASSUME NEW m \in Monitors, Forward(m) PROVE shown' \in [Monitors -> Views]
    <3> DEFINE view == [newest |-> Max({shown[m].newest, hand[m]}), last |-> hand[m]]
    <3>1. shown[m].newest \in -1..Updates /\ hand[m] \in -1..Updates
      <4>1. shown[m] \in Views /\ hand[m] \in 0..Updates
        BY <1>1
      <4> QED
        BY <4>1, MonitorConstants DEF Views
    <3>2. Max({shown[m].newest, hand[m]}) \in -1..Updates
      BY <3>1, MaxOfTwo
    <3>3. view \in Views
      BY <3>1, <3>2 DEF Views
    <3>4. shown' = [shown EXCEPT ![m] = view]
      BY <2>1 DEF Forward
    <3> HIDE DEF view
    <3> QED
      BY <1>1, <3>3, <3>4
  <2>2. CASE UNCHANGED shown
    BY <1>1, <2>2
  <2> QED
    BY <2>1, <2>2 DEF MonitorNext, monitorVars, call, NotifyStep, SubscribeStep, LeaveStep,
       ConsumerStep, CallStep, Update, NotifyRLock, TakeSnapshot, SendSnapshot, NotifyEnds,
       MonitorCall, SubscribeFails, SubscribeLock, Subscribe, UnsubscribeLock, Unsubscribe,
       ClientLeaves, ForwardFails, ConsumerEnds, Result, Return
<1> QED
  BY <1>1, <1>2 DEF MonitorTypeOK, OthersTyped, Views

\* Nobody is sent to whose channel is closed.
LEMMA SubscribersOpen == MonitorTypeOK /\ StoreInv => ToSet(subscribers) \cap closed = {}
  BY DEF MonitorTypeOK, StoreInv, Listed, OwnEnd, Subscribed

LEMMA StoreInit == MonitorInit => StoreInv
  BY MonitorConstants DEF MonitorInit, StoreInv, Locking, Listed, SendsOnOpen, OwnEnd, Subscribed,
     ToSet

\* Each step keeps StoreInv.
LEMMA StoreStep == MonitorTypeOK /\ StoreInv /\ [MonitorNext]_monitorVars => StoreInv'
<1> SUFFICES ASSUME MonitorTypeOK, StoreInv, [MonitorNext]_monitorVars PROVE StoreInv'
  OBVIOUS
<1> USE DEF StoreInv, Set, store, mutex, notification, call
<1> DEFINE Sending(n) == notify[n] \in {"snapshot", "send"}
<1>1. ASSUME NEW w \in Writers, Update(w) PROVE StoreInv'
  <2>1. /\ w \in Notifiers
        /\ \A n \in Notifiers : notify'[n] # notify[n] => n = w /\ notify'[n] = "rlock"
    BY <1>1 DEF Update, Notifiers, MonitorTypeOK
  <2>2. Locking'
    BY <1>1, <2>1 DEF Update, Locking
  <2> QED
    BY <1>1, <2>1, <2>2 DEF Update, Listed, SendsOnOpen, OwnEnd, Subscribed
<1>2. ASSUME NEW n \in Notifiers, NotifyRLock(n) PROVE StoreInv'
  <2>1. Locking'
    BY <1>2 DEF NotifyRLock, RLock, Locking, MonitorTypeOK
  <2> QED
    BY <1>2, <2>1 DEF NotifyRLock, Listed, SendsOnOpen, OwnEnd, Subscribed, MonitorTypeOK
<1>3. ASSUME NEW n \in Notifiers, TakeSnapshot(n) PROVE StoreInv'
  <2>1. Locking'
    BY <1>3 DEF TakeSnapshot, Locking, MonitorTypeOK
  <2>2. SendsOnOpen'
    <3>1. /\ ToSet(todo'[n]) \subseteq ToSet(subscribers)
          /\ \A o \in Notifiers \ {n} : todo'[o] = todo[o] /\ notify'[o] = notify[o]
          /\ UNCHANGED <<subscribers, closed>>
      BY <1>3 DEF TakeSnapshot, MonitorTypeOK, ToSet
    <3> QED
      BY <3>1, SubscribersOpen DEF SendsOnOpen
  <2> QED
    BY <1>3, <2>1, <2>2 DEF TakeSnapshot, Listed, OwnEnd, Subscribed
<1>4. ASSUME NEW n \in Notifiers, SendSnapshot(n) PROVE StoreInv'
  <2>1. ToSet(todo'[n]) \subseteq ToSet(todo[n]) /\ \A o \in Notifiers \ {n} : todo'[o] = todo[o]
    BY <1>4, TailSet DEF SendSnapshot, MonitorTypeOK
  <2>2. SendsOnOpen'
    BY <1>4, <2>1 DEF SendSnapshot, SendsOnOpen
  <2> QED
    BY <1>4, <2>2 DEF SendSnapshot, Locking, Listed, OwnEnd, Subscribed
<1>5. ASSUME NEW n \in Notifiers, NotifyEnds(n) PROVE StoreInv'
  <2>1. Locking'
    BY <1>5 DEF NotifyEnds, RUnlock, Locking, MonitorTypeOK
  <2> QED
    BY <1>5, <2>1 DEF NotifyEnds, Listed, SendsOnOpen, OwnEnd, Subscribed, MonitorTypeOK
<1>6. ASSUME NEW m \in Monitors, MonitorCall(m) PROVE StoreInv'
  <2>1. subscribing[m] = "no" /\ leaving[m] = "no" /\ UNCHANGED leaving
    BY <1>6 DEF MonitorCall, Subscribed
  <2>2. /\ subscribing' = [subscribing EXCEPT ![m] = IF owl THEN "lock" ELSE "fail"]
        /\ monitor' = [monitor EXCEPT ![m] = "wait"]
    BY <1>6 DEF MonitorCall
  <2>3. /\ subscribing'[m] \in {"lock", "fail"} /\ monitor'[m] = "wait"
        /\ subscribing'[m] = "lock" => owl
        /\ \A o \in Monitors \ {m} : subscribing'[o] = subscribing[o] /\ monitor'[o] = monitor[o]
    BY <2>2 DEF MonitorTypeOK
  <2>4. Locking'
    BY <1>6, <2>1, <2>3 DEF MonitorCall, Locking
  <2>5. Subscribed'
    <3>1. UNCHANGED <<owl, over, leaving>>
      BY <1>6 DEF MonitorCall
    <3>2. ASSUME NEW o \in Monitors \ {m}
          PROVE  /\ leaving'[o] # "no" => subscribing'[o] = "done" /\ owl'
                 /\ subscribing'[o] \in {"lock", "append"} => owl'
                 /\ monitor'[o] = "idle" => subscribing'[o] = "no"
                 /\ leaving'[o] \in {"close", "done"} => o \in over'
      BY <2>3, <3>1 DEF Subscribed
    <3>3. /\ leaving'[m] = "no" /\ subscribing'[m] \in {"lock", "fail"} /\ monitor'[m] = "wait"
          /\ subscribing'[m] = "lock" => owl'
      BY <2>1, <2>3, <3>1
    <3> QED
      BY <3>2, <3>3 DEF Subscribed
  <2>6. ~owl => ToSet(subscribers) = {}
    <3>1. ToSet(subscribers) \subseteq Monitors
      BY DEF MonitorTypeOK, ToSet
    <3>2. \A o \in ToSet(subscribers) : leaving[o] \in {"wait", "close"}
      BY <3>1 DEF Listed
    <3> QED
      BY <3>1, <3>2 DEF Subscribed
  <2>7. UNCHANGED <<owl, notify, todo, subscribers, leaving, over>> /\ (owl => UNCHANGED closed)
    BY <1>6 DEF MonitorCall
  <2>8. SendsOnOpen'
    BY <2>6, <2>7 DEF SendsOnOpen
  <2>9. OwnEnd'
    BY <2>7 DEF OwnEnd
  <2> QED
    BY <1>6, <2>5, <2>8, <2>9, <2>4 DEF MonitorCall, Listed
<1>7. ASSUME NEW m \in Monitors, SubscribeFails(m) PROVE StoreInv'
  BY <1>7 DEF SubscribeFails, Locking, Listed, SendsOnOpen, OwnEnd, Subscribed, MonitorTypeOK
<1>8. ASSUME NEW m \in Monitors, SubscribeLock(m) PROVE StoreInv'
  <2>1. Locking'
    BY <1>8, MonitorConstants DEF SubscribeLock, Announce, Locking, MonitorTypeOK
  <2> QED
    BY <1>8, <2>1 DEF SubscribeLock, Listed, SendsOnOpen, OwnEnd, Subscribed, MonitorTypeOK
<1>9. ASSUME NEW m \in Monitors, Subscribe(m) PROVE StoreInv'
  <2>1. /\ subscribing[m] = "append" /\ leaving[m] = "no" /\ owl
        /\ locker = m /\ readers = {} /\ m \in Notifiers
    BY <1>9 DEF Subscribe, Locked, Subscribed, Notifiers
  <2>2. \A n \in Notifiers : ~Sending(n)
    BY <2>1 DEF Locking
  <2>3. /\ Distinct(subscribers') /\ ToSet(subscribers') = ToSet(subscribers) \cup {m}
    <3>1. m \notin ToSet(subscribers) /\ Distinct(subscribers) /\ subscribers \in Seq(Monitors)
      BY <2>1 DEF Listed, Distinct, MonitorTypeOK
    <3> QED
      BY <1>9, <3>1, AppendSet DEF Subscribe
  <2>4. \A n \in Notifiers : ~Sending(n)'
    BY <1>9, <2>1, <2>2 DEF Subscribe, MonitorTypeOK
  <2>5. /\ locker' = Nobody /\ readers' = {}
        /\ subscribing' = [subscribing EXCEPT ![m] = "done"]
        /\ leaving' = [leaving EXCEPT ![m] = "wait"]
    BY <1>9, <2>1 DEF Subscribe, Unlock
  <2>6. Locking'
    BY <2>1, <2>4, <2>5, MonitorConstants DEF Locking, MonitorTypeOK
  <2>7. Listed'
    BY <2>1, <2>3, <2>5 DEF Listed, Distinct, MonitorTypeOK
  <2>8. SendsOnOpen'
    BY <2>4 DEF SendsOnOpen
  <2>9. OwnEnd' /\ Subscribed'
    BY <1>9, <2>1, <2>5 DEF Subscribe, OwnEnd, Subscribed, MonitorTypeOK
  <2> QED
    BY <2>6, <2>7, <2>8, <2>9
<1>10. ASSUME NEW m \in Monitors, UnsubscribeLock(m) PROVE StoreInv'
  <2>1. /\ leaving[m] = "wait" /\ locker = Nobody
        /\ leaving' = [leaving EXCEPT ![m] = "close"] /\ locker' = m
    BY <1>10 DEF UnsubscribeLock, Announce
  <2>2. Locking'
    BY <1>10, <2>1, MonitorConstants DEF UnsubscribeLock, Announce, Locking, MonitorTypeOK
  <2>3. Listed'
    BY <1>10, <2>1 DEF UnsubscribeLock, Listed, MonitorTypeOK
  <2> QED
    BY <1>10, <2>1, <2>2, <2>3 DEF UnsubscribeLock, SendsOnOpen, OwnEnd, Subscribed, MonitorTypeOK
<1>11. ASSUME NEW m \in Monitors, Unsubscribe(m) PROVE StoreInv'
  <2>1. /\ leaving[m] = "close" /\ subscribing[m] = "done" /\ owl
        /\ locker = m /\ readers = {} /\ leaving' = [leaving EXCEPT ![m] = "done"]
        /\ locker' = Nobody /\ UNCHANGED <<readers, subscribing, notify, todo, owl, over, monitor>>
    BY <1>11 DEF Unsubscribe, Locked, Unlock, Subscribed
  <2>2. \A n \in Notifiers : ~Sending(n)
    BY <2>1 DEF Locking
  <2>3. Distinct(subscribers') /\ ToSet(subscribers') = ToSet(subscribers) \ {m}
    <3>1. Distinct(subscribers) /\ subscribers \in Seq(Monitors)
      BY DEF Listed, Distinct, MonitorTypeOK
    <3>2. PICK i \in DOMAIN subscribers :
            subscribers[i] = m /\ subscribers' = RemoveAt(subscribers, i)
      BY <1>11 DEF Unsubscribe
    <3> QED
      BY <3>1, <3>2, RemoveAtSet
  <2>4. Locking'
    BY <2>1, <2>2, MonitorConstants DEF Locking, MonitorTypeOK
  <2>5. Listed'
    BY <2>1, <2>3 DEF Listed, Distinct, MonitorTypeOK
  <2>6. SendsOnOpen'
    BY <2>1, <2>2 DEF SendsOnOpen
  <2>7. m \in over
    BY <2>1 DEF Subscribed
  <2>8. OwnEnd' /\ Subscribed'
    BY <1>11, <2>1, <2>7 DEF Unsubscribe, OwnEnd, Subscribed, MonitorTypeOK
  <2> QED
    BY <2>4, <2>5, <2>6, <2>8
<1>12. ASSUME NEW m \in Monitors, ClientLeaves(m) PROVE StoreInv'
  BY <1>12 DEF ClientLeaves, Locking, Listed, SendsOnOpen, OwnEnd, Subscribed
<1>13. ASSUME NEW m \in Monitors, ConsumerStep(m) PROVE StoreInv'
  BY <1>13 DEF ConsumerStep, Forward, ForwardFails, ConsumerEnds, Locking, Listed, SendsOnOpen,
     OwnEnd, Subscribed
<1>14. ASSUME NEW m \in Monitors, CallStep(m) PROVE StoreInv'
  BY <1>14 DEF CallStep, Result, Return, Locking, Listed, SendsOnOpen, OwnEnd, Subscribed,
     MonitorTypeOK
<1>15. CASE UNCHANGED monitorVars
  BY <1>15 DEF monitorVars, Locking, Listed, SendsOnOpen, OwnEnd, Subscribed
<1> QED
  BY <1>1, <1>2, <1>3, <1>4, <1>5, <1>6, <1>7, <1>8, <1>9, <1>10, <1>11, <1>12, <1>13,
     <1>14, <1>15
  DEF MonitorNext, NotifyStep, SubscribeStep, LeaveStep

\* For any number of monitors and of changes: nobody sends on a closed channel, and one
\* client that leaves cuts no other off.
THEOREM MonitorsKept == MonitorSpec => []MonitorInv
<1> DEFINE Inv == MonitorTypeOK /\ StoreInv
<1>1. MonitorInit => Inv
  BY MonitorTypeInit, StoreInit
<1>2. Inv /\ [MonitorNext]_monitorVars => Inv'
  BY MonitorTypeStep, StoreStep DEF StoreInv
<1>3. Inv => MonitorInv
  BY DEF StoreInv, MonitorInv
<1> QED
  BY <1>1, <1>2, <1>3, PTL DEF MonitorSpec
=============================================================================

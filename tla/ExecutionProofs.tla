-------------------------- MODULE ExecutionProofs ---------------------------
(***************************************************************************)
(* Proofs about Execution for any amount of output, any capacity of the    *)
(* pipe and of the captured tail, and a response stream that may break.    *)
(***************************************************************************)
EXTENDS ExecutionProps, SequenceFacts

-----------------------------------------------------------------------------
(* The captured tail.                                                      *)

\* The last n items of a sequence, item by item.
LEMMA LastNItems ==
  ASSUME NEW s \in Seq(Nat), NEW n \in Nat
  PROVE  /\ LastN(s, n) \in Seq(Nat)
         /\ Len(LastN(s, n)) = IF Len(s) <= n THEN Len(s) ELSE n
         /\ \A i \in 1..Len(LastN(s, n)) :
              LastN(s, n)[i] = s[Len(s) - Len(LastN(s, n)) + i]
<1>1. Len(s) \in Nat
  OBVIOUS
<1>2. CASE Len(s) <= n
  BY <1>1, <1>2 DEF LastN
<1>3. CASE Len(s) > n
  <2> DEFINE m == Len(s) - n + 1
             t == SubSeq(s, m, Len(s))
  <2>1. m \in Int /\ m \in 1..Len(s)+1 /\ Len(s) \in Int /\ Len(s) - m + 1 = n
    BY <1>1, <1>3
  <2>2. \A i \in m..Len(s) : s[i] \in Nat
    BY <1>1, <2>1
  <2>3. LastN(s, n) = t
    BY <1>1, <1>3 DEF LastN
  <2> HIDE DEF m
  <2>4. /\ t \in Seq(Nat) /\ Len(t) = IF m <= Len(s) THEN n ELSE 0
        /\ \A i \in 1..n : t[i] = s[m + i - 1]
    BY <2>1, <2>2, SubSeqProperties
  <2> HIDE DEF t
  <2>5. Len(t) = n
    BY <1>1, <2>1, <2>4
  <2>6. \A i \in 1..n : m + i - 1 = Len(s) - n + i
    BY <1>1 DEF m
  <2> QED
    BY <1>1, <1>3, <2>3, <2>4, <2>5, <2>6
<1> QED
  BY <1>1, <1>2, <1>3

\* tailCapWriter.Write turns the captured end of what was written before into the
\* captured end of all that was written, whether the new piece fills the capacity or
\* only pushes the oldest bytes out.
LEMMA CapturedTail ==
  ASSUME NEW s \in Seq(Nat), NEW p \in Seq(Nat), TailCap \in Nat
  PROVE  Captured(LastN(s, TailCap), p) = LastN(s \o p, TailCap)
<1> DEFINE n == TailCap
           old == LastN(s, n)
           all == s \o p
           want == LastN(all, n)
<1>1. Len(s) \in Nat /\ Len(p) \in Nat /\ n \in Nat
  OBVIOUS
<1>2. /\ all \in Seq(Nat) /\ Len(all) = Len(s) + Len(p)
      /\ \A i \in 1..Len(s) + Len(p) : all[i] = IF i <= Len(s) THEN s[i] ELSE p[i - Len(s)]
  BY ConcatProperties
<1>3. /\ old \in Seq(Nat) /\ Len(old) = IF Len(s) <= n THEN Len(s) ELSE n
      /\ \A i \in 1..Len(old) : old[i] = s[Len(s) - Len(old) + i]
  BY <1>1, LastNItems
<1> HIDE DEF all, old
<1>4. /\ want \in Seq(Nat) /\ Len(want) = IF Len(all) <= n THEN Len(all) ELSE n
      /\ \A i \in 1..Len(want) : want[i] = all[Len(all) - Len(want) + i]
  BY <1>1, <1>2, LastNItems
<1> HIDE DEF want, n
<1>5. CASE Len(p) >= n
  <2> DEFINE new == LastN(p, n)
  <2>1. /\ new \in Seq(Nat) /\ Len(new) = IF Len(p) <= n THEN Len(p) ELSE n
        /\ \A i \in 1..Len(new) : new[i] = p[Len(p) - Len(new) + i]
    BY <1>1, LastNItems
  <2> HIDE DEF new
  <2>2. Len(new) = n /\ Len(want) = n
    BY <1>1, <1>2, <1>4, <1>5, <2>1
  <2>3. ASSUME NEW i \in 1..n PROVE new[i] = want[i]
    <3> DEFINE j == Len(p) - n + i
               k == Len(s) + Len(p) - n + i
    <3>1. Len(p) - Len(new) + i = j /\ Len(all) - Len(want) + i = k
      BY <1>1, <1>2, <2>2
    <3>2. k \in 1..Len(s) + Len(p) /\ ~(k <= Len(s)) /\ k - Len(s) = j
      BY <1>1, <1>5
    <3> HIDE DEF j, k
    <3>3. new[i] = p[j] /\ want[i] = all[k]
      BY <1>4, <2>1, <2>2, <3>1
    <3>4. all[k] = p[j]
      BY <1>2, <3>2
    <3> QED
      BY <3>3, <3>4
  <2>4. new = want
    BY <1>4, <2>1, <2>2, <2>3, SeqEqual
  <2> QED
    BY <1>5, <2>4 DEF Captured, new, want, all, old, n
<1>6. CASE Len(p) < n
  <2> DEFINE both == old \o p
             new == LastN(both, n)
  <2>1. /\ both \in Seq(Nat) /\ Len(both) = Len(old) + Len(p)
        /\ \A i \in 1..Len(old) + Len(p) :
             both[i] = IF i <= Len(old) THEN old[i] ELSE p[i - Len(old)]
    BY <1>3, ConcatProperties
  <2> HIDE DEF both
  <2>2. /\ new \in Seq(Nat) /\ Len(new) = IF Len(both) <= n THEN Len(both) ELSE n
        /\ \A i \in 1..Len(new) : new[i] = both[Len(both) - Len(new) + i]
    BY <1>1, <2>1, LastNItems
  <2> HIDE DEF new
  <2>3. Len(old) \in Nat /\ Len(old) <= Len(s)
    BY <1>1, <1>3
  <2>4. Len(new) = Len(want) /\ Len(new) \in Nat /\ Len(new) <= Len(both)
    BY <1>1, <1>2, <1>3, <1>4, <2>1, <2>2, <2>3
  <2>5. ASSUME NEW i \in 1..Len(new) PROVE new[i] = want[i]
    <3> DEFINE j == Len(old) + Len(p) - Len(new) + i
               k == Len(s) + Len(p) - Len(new) + i
    <3>1. j \in 1..Len(old) + Len(p) /\ k \in 1..Len(s) + Len(p) /\ k = j + (Len(s) - Len(old))
      BY <1>1, <2>1, <2>3, <2>4
    <3>a. Len(both) - Len(new) + i = j /\ Len(all) - Len(want) + i = k
      BY <1>1, <1>2, <2>1, <2>3, <2>4
    <3> HIDE DEF j, k
    <3>2. new[i] = both[j] /\ want[i] = all[k]
      BY <1>4, <2>2, <2>4, <3>a
    <3>3. CASE j <= Len(old)
      <4>1. both[j] = old[j] /\ j \in 1..Len(old)
        BY <2>1, <2>3, <3>1, <3>3
      <4>2. old[j] = s[Len(s) - Len(old) + j]
        BY <1>3, <4>1
      <4>3. k <= Len(s) /\ k = Len(s) - Len(old) + j
        BY <1>1, <2>3, <3>1, <3>3
      <4> QED
        BY <1>2, <3>1, <3>2, <4>1, <4>2, <4>3
    <3>4. CASE j > Len(old)
      <4>1. ~(k <= Len(s)) /\ k - Len(s) = j - Len(old) /\ ~(j <= Len(old))
        BY <1>1, <2>3, <3>1, <3>4
      <4> QED
        BY <1>2, <2>1, <3>1, <3>2, <4>1
    <3> QED
      BY <2>3, <3>1, <3>3, <3>4
  <2>6. new = want
    BY <1>4, <2>2, <2>4, <2>5, SeqEqual
  <2>7. ~(Len(p) >= n)
    BY <1>1, <1>6
  <2> QED
    BY <2>6, <2>7 DEF Captured, new, both, want, all, old, n
<1> QED
  BY <1>1, <1>5, <1>6

-----------------------------------------------------------------------------
(* The inductive invariant.                                                *)

\* NothingOvertaken, for one output: what was made is what was sent, and behind it what
\* is at each station of the way.
Flow(o) == made[o] = sent[o] \o (data[o] \o (buf[o] \o (hand[o] \o pipe[o])))

\* What the program counters of the two goroutines of an output say of the stations.
Stations(o) ==
  /\ copier[o] # "store" => hand[o] = <<>>
  /\ loop[o] \notin {"send", "failed"} => data[o] = <<>>
  /\ loop[o] = "send" => data[o] # <<>>
  /\ copier[o] \in {"close", "wake", "done"} => pipe[o] = <<>> /\ wait \notin {"command", "close"}
  /\ closed[o] => copier[o] \in {"wake", "done"}
  /\ loop[o] = "ended" => closed[o]

\* Wait has taken the ends of loops that have ended, and both before it goes on.
Reaping ==
  /\ wait # "command" => prog = "exited"
  /\ reaped \subseteq Ended
  /\ wait \in {"store", "returned"} => Ended = Outs

\* The tailCapWriter holds the end of what was read of stdout, and what is stored is
\* what it holds.
Capture ==
  /\ tail = LastN(sent["stdout"] \o data["stdout"], TailCap)
  /\ wait = "returned" => env = tail /\ known \in {env, <<>>}

ExecInv == /\ TypeOK
           /\ \A o \in Outs : Flow(o) /\ Stations(o)
           /\ Reaping /\ Capture

LEMMA InvInit == Init => ExecInv
<1> SUFFICES ASSUME Init PROVE ExecInv
  OBVIOUS
<1>1. \A o \in Outs : NoChunks[o] = <<>>
  BY DEF NoChunks
<1>2. <<>> \in Seq(Nat) /\ <<>> \o <<>> = <<>>
  BY EmptySeq, ConcatEmptySeq
<1>3. NoChunks \in [Outs -> Chunks]
  BY <1>2 DEF NoChunks, Chunks
<1>4. LastN(<<>>, TailCap) = <<>> /\ Len(<<>>) <= TailCap
  BY ExecutionConstants DEF LastN
<1>5. TypeOK
  <2>1. \A o \in Outs : Len(pipe[o]) <= PipeCap
    BY <1>1, ExecutionConstants DEF Init
  <2> QED
    BY <1>2, <1>3, <1>4, <2>1 DEF Init, TypeOK, Chunks
<1>6. ASSUME NEW o \in Outs PROVE Flow(o) /\ Stations(o)
  BY <1>1, <1>2 DEF Init, Flow, Stations
<1>7. Reaping /\ Capture
  BY <1>1, <1>2, <1>4 DEF Init, Reaping, Capture, Ended, Outs
<1> QED
  BY <1>5, <1>6, <1>7 DEF ExecInv

\* A slice takes the front of a sequence and leaves the rest.
LEMMA Split ==
  ASSUME NEW s \in Seq(Nat), NEW n \in 1..Len(s)
  PROVE  /\ SubSeq(s, 1, n) \in Seq(Nat) /\ SubSeq(s, 1, n) # <<>>
         /\ SubSeq(s, n + 1, Len(s)) \in Seq(Nat)
         /\ s = SubSeq(s, 1, n) \o SubSeq(s, n + 1, Len(s))
<1> DEFINE p == SubSeq(s, 1, n)
           r == SubSeq(s, n + 1, Len(s))
           m == n + 1
<1>1. /\ Len(s) \in Nat /\ n \in Nat /\ 1 <= n /\ n <= Len(s)
      /\ m \in 1..Len(s) + 1 /\ \A i \in 1..Len(s) : s[i] \in Nat
  OBVIOUS
<1>2. p \in Seq(Nat) /\ Len(p) = n /\ \A i \in 1..n : p[i] = s[i]
  BY <1>1, SubSeqProperties
<1>3. /\ r \in Seq(Nat) /\ Len(r) = Len(s) - n
      /\ \A i \in 1..Len(s) - n : r[i] = s[n + i]
  <2>1. \A i \in m..Len(s) : s[i] \in Nat
    BY <1>1
  <2>2. /\ r \in Seq(Nat) /\ Len(r) = IF m <= Len(s) THEN Len(s) - m + 1 ELSE 0
        /\ \A i \in 1..Len(s) - m + 1 : r[i] = s[m + i - 1]
    BY <1>1, <2>1, SubSeqProperties
  <2> HIDE DEF r
  <2>3. IF m <= Len(s) THEN Len(s) - m + 1 = Len(s) - n ELSE Len(s) - n = 0
    BY <1>1
  <2>4. Len(r) = Len(s) - n /\ Len(s) - m + 1 = Len(s) - n
    BY <1>1, <2>2, <2>3
  <2>5. \A i \in 1..Len(s) - n : m + i - 1 = n + i
    BY <1>1
  <2> HIDE DEF m
  <2> QED
    BY <2>2, <2>4, <2>5
<1> DEFINE both == p \o r
<1> HIDE DEF p, r, m
<1>4. /\ both \in Seq(Nat) /\ Len(both) = Len(p) + Len(r)
      /\ \A i \in 1..Len(p) + Len(r) : both[i] = IF i <= Len(p) THEN p[i] ELSE r[i - Len(p)]
  BY <1>2, <1>3, ConcatProperties
<1> HIDE DEF both
<1>5. Len(both) = Len(s)
  BY <1>1, <1>2, <1>3, <1>4
<1>6. ASSUME NEW i \in 1..Len(s) PROVE both[i] = s[i]
  <2>1. CASE i <= n
    <3>1. i \in 1..n /\ i \in 1..Len(p) + Len(r) /\ i <= Len(p)
      BY <1>1, <1>2, <1>3, <2>1
    <3> QED
      BY <1>2, <1>4, <3>1
  <2>2. CASE i > n
    <3>1. i - n \in 1..Len(s) - n /\ n + (i - n) = i /\ ~(i <= n)
      BY <1>1, <2>2
    <3>2. r[i - n] = s[i]
      BY <1>3, <3>1
    <3> QED
      BY <1>1, <1>2, <1>3, <1>4, <3>1, <3>2
  <2> QED
    BY <1>1, <2>1, <2>2
<1>7. both = s
  BY <1>4, <1>5, <1>6, SeqEqual
<1>8. p # <<>>
  BY <1>1, <1>2
<1> QED
  BY <1>2, <1>3, <1>7, <1>8 DEF both, p, r, m

\* The loop has taken p of the buffer and left r.
TakenFrom(o, p, r) ==
  /\ p # <<>> /\ buf[o] = p \o r
  /\ data' = [data EXCEPT ![o] = p] /\ buf' = [buf EXCEPT ![o] = r]
  /\ loop' = [loop EXCEPT ![o] = "send"]
  /\ tail' = IF o = "stdout" THEN Captured(tail, p) ELSE tail

\* A Read that finds something takes a first part of it, which is not empty.
LEMMA Taken ==
  ASSUME TypeOK, NEW o \in Outs, ReadBuffer(o), buf[o] # <<>>
  PROVE  \E p \in Seq(Nat), r \in Seq(Nat) : TakenFrom(o, p, r)
<1>1. buf[o] \in Seq(Nat)
  BY DEF TypeOK, Chunks
<1>2. PICK n \in 1..Len(buf[o]) :
        /\ data' = [data EXCEPT ![o] = SubSeq(buf[o], 1, n)]
        /\ buf' = [buf EXCEPT ![o] = SubSeq(buf[o], n + 1, Len(buf[o]))]
        /\ loop' = [loop EXCEPT ![o] = "send"]
        /\ tail' = IF o = "stdout" THEN Captured(tail, SubSeq(buf[o], 1, n)) ELSE tail
  BY DEF ReadBuffer
<1> QED
  BY <1>1, <1>2, Split DEF TakenFrom

LEMMA TypeStep ==
  ASSUME ExecInv, [Next]_vars
  PROVE  TypeOK'
<1> USE ExecutionConstants DEF progVars, pipeVars, bufVars, loopVars, waitVars
<1>a. TypeOK
  BY DEF ExecInv
<1>1. ASSUME NEW o \in Outs, ProgramWrites(o) PROVE TypeOK'
  <2>1. Len(made[o]) + 1 \in Nat /\ Len(pipe[o]) < PipeCap /\ Len(pipe[o]) \in Nat
    BY <1>1, <1>a DEF ProgramWrites, TypeOK, Chunks
  <2>2. made' \in [Outs -> Chunks]
    BY <1>1, <1>a, <2>1 DEF ProgramWrites, TypeOK, Chunks
  <2> DEFINE p == Append(pipe[o], Len(made[o]) + 1)
  <2>3. p \in Chunks /\ Len(p) <= PipeCap
    BY <1>a, <2>1 DEF TypeOK, Chunks
  <2>4. pipe' = [pipe EXCEPT ![o] = p]
    BY <1>1 DEF ProgramWrites
  <2> HIDE DEF p
  <2>5. pipe' \in [Outs -> Chunks] /\ \A q \in Outs : Len(pipe'[q]) <= PipeCap
    BY <1>a, <2>3, <2>4 DEF TypeOK
  <2> QED
    BY <1>1, <1>a, <2>2, <2>5 DEF ProgramWrites, TypeOK
<1>2. CASE ProgramExits \/ Cancel \/ StreamBreaks
  BY <1>2, <1>a DEF ProgramExits, Cancel, StreamBreaks, TypeOK
<1>3. ASSUME NEW o \in Outs, CopyRead(o) PROVE TypeOK'
  <2>1. CASE /\ pipe[o] # <<>>
             /\ hand' = [hand EXCEPT ![o] = <<Head(pipe[o])>>]
             /\ pipe' = [pipe EXCEPT ![o] = Tail(@)]
             /\ copier' = [copier EXCEPT ![o] = "store"]
    <3> DEFINE p == Tail(pipe[o])
               h == <<Head(pipe[o])>>
    <3>1. p \in Chunks /\ Len(p) <= PipeCap /\ h \in Chunks
      BY <1>a, <2>1 DEF TypeOK, Chunks
    <3>2. pipe' = [pipe EXCEPT ![o] = p] /\ hand' = [hand EXCEPT ![o] = h]
      BY <2>1
    <3> HIDE DEF p, h
    <3>3. /\ pipe' \in [Outs -> Chunks] /\ hand' \in [Outs -> Chunks]
          /\ \A q \in Outs : Len(pipe'[q]) <= PipeCap
      BY <1>a, <3>1, <3>2 DEF TypeOK
    <3> QED
      BY <1>3, <1>a, <2>1, <3>3 DEF CopyRead, TypeOK
  <2>2. CASE copier' = [copier EXCEPT ![o] = "close"] /\ UNCHANGED <<pipe, hand>>
    BY <1>3, <1>a, <2>2 DEF CopyRead, TypeOK
  <2> QED
    BY <1>3, <2>1, <2>2 DEF CopyRead
<1>4. ASSUME NEW o \in Outs, CopyStore(o) PROVE TypeOK'
  <2>1. buf[o] \o hand[o] \in Chunks /\ <<>> \in Chunks
    BY <1>a DEF TypeOK, Chunks
  <2> QED
    BY <1>4, <1>a, <2>1 DEF CopyStore, TypeOK
<1> DEFINE LoopStates == {"read", "check", "select", "parked", "send", "ended", "failed"}
<1>5. ASSUME NEW o \in Outs, CopyNotify(o) \/ CopyClose(o) \/ CopyWake(o) PROVE TypeOK'
  <2>1. loop' \in [Outs -> LoopStates]
    BY <1>5, <1>a DEF CopyNotify, CopyClose, CopyWake, WakeReader, TypeOK
  <2>2. copier' \in [Outs -> {"read", "store", "notify", "close", "wake", "done"}]
    BY <1>5, <1>a DEF CopyNotify, CopyClose, CopyWake, TypeOK
  <2>3. closed' \in [Outs -> BOOLEAN] /\ woken' \in [Outs -> BOOLEAN]
    BY <1>5, <1>a DEF CopyNotify, CopyClose, CopyWake, TypeOK
  <2> QED
    BY <1>5, <1>a, <2>1, <2>2, <2>3 DEF CopyNotify, CopyClose, CopyWake, TypeOK
<1>6. ASSUME NEW o \in Outs, ReadBuffer(o) PROVE TypeOK'
  <2>1. CASE buf[o] # <<>>
    <3>a. PICK p \in Seq(Nat), r \in Seq(Nat) : TakenFrom(o, p, r)
      BY <1>6, <1>a, <2>1, Taken
    <3> USE DEF TakenFrom
    <3>2. tail' \in Chunks /\ Len(tail') <= TailCap
      <4>1. CASE o = "stdout"
        <5> DEFINE s == sent["stdout"] \o data["stdout"]
        <5>1. "stdout" \in Outs /\ TailCap \in Nat
          BY DEF Outs
        <5>2. sent["stdout"] \in Seq(Nat) /\ data["stdout"] \in Seq(Nat)
          BY <1>a, <5>1 DEF TypeOK, Chunks
        <5>3. s \in Seq(Nat) /\ s \o p \in Seq(Nat)
          BY <5>2, <3>a, ConcatProperties
        <5>4. tail = LastN(s, TailCap)
          BY DEF ExecInv, Capture
        <5> HIDE DEF s
        <5>5. tail' = LastN(s \o p, TailCap)
          BY <3>a, <4>1, <5>1, <5>3, <5>4, CapturedTail
        <5> DEFINE u == s \o p
        <5> HIDE DEF u
        <5>6. LastN(u, TailCap) \in Seq(Nat) /\ Len(LastN(u, TailCap)) <= TailCap
          <6>1. u \in Seq(Nat) /\ Len(u) \in Nat
            BY <5>3 DEF u
          <6> QED
            BY <5>1, <6>1, LastNItems
        <5> QED
          BY <5>5, <5>6 DEF Chunks, u
      <4>2. CASE o # "stdout"
        BY <1>a, <3>a, <4>2 DEF TypeOK
      <4> QED
        BY <4>1, <4>2
    <3> QED
      <4>1. data' \in [Outs -> Chunks] /\ buf' \in [Outs -> Chunks]
        BY <1>a, <3>a DEF TypeOK, Chunks
      <4>2. loop' \in [Outs -> LoopStates]
        <5>1. loop \in [Outs -> LoopStates]
          BY <1>a DEF TypeOK
        <5>2. loop' = [loop EXCEPT ![o] = "send"]
          BY <3>a
        <5> QED
          BY <5>1, <5>2
      <4>3. /\ prog \in {"running", "exited"} /\ {failed, cancelled, broken} \subseteq BOOLEAN
            /\ pipe \in [Outs -> Chunks] /\ \A q \in Outs : Len(pipe[q]) <= PipeCap
            /\ hand \in [Outs -> Chunks] /\ {closed, woken} \subseteq [Outs -> BOOLEAN]
            /\ {made, sent} \subseteq [Outs -> Chunks] /\ {env, known} \subseteq Chunks
        BY <1>a DEF TypeOK
      <4>4. UNCHANGED <<progVars, pipeVars, closed, woken, sent, waitVars>>
        BY <1>6 DEF ReadBuffer
      <4> QED
        BY <1>a, <3>2, <4>1, <4>2, <4>3, <4>4 DEF TypeOK
  <2>2. CASE buf[o] = <<>>
    BY <1>6, <1>a, <2>2 DEF ReadBuffer, TypeOK
  <2> QED
    BY <2>1, <2>2
<1>7. ASSUME NEW o \in Outs, ReadCheck(o) \/ ReadSelect(o) \/ SendFails(o) PROVE TypeOK'
  <2>1. loop' \in [Outs -> LoopStates]
    BY <1>7, <1>a DEF ReadCheck, ReadSelect, SendFails, TypeOK
  <2> QED
    BY <1>7, <1>a, <2>1 DEF ReadCheck, ReadSelect, SendFails, TypeOK
<1>8. ASSUME NEW o \in Outs, SendChunk(o) PROVE TypeOK'
  <2>1. sent[o] \o data[o] \in Chunks /\ <<>> \in Chunks
    BY <1>a DEF TypeOK, Chunks
  <2> QED
    BY <1>8, <1>a, <2>1 DEF SendChunk, TypeOK
<1>9. CASE WaitStep \/ UNCHANGED vars
  <2>1. CASE CommandDone \/ CloseIO \/ FinalWaitCancelled \/ Drain \/ UNCHANGED vars
    BY <2>1, <1>a DEF CommandDone, CloseIO, FinalWaitCancelled, Drain, vars, TypeOK
  <2>2. ASSUME NEW o \in Outs, FinalWait(o) PROVE TypeOK'
    BY <2>2, <1>a DEF FinalWait, TypeOK, Ended
  <2>3. CASE StoreOutput
    <3>1. tail \in Chunks /\ <<>> \in Chunks
      BY <1>a DEF TypeOK, Chunks
    <3>2. env' \in Chunks /\ known' \in Chunks
      BY <2>3, <3>1 DEF StoreOutput
    <3> QED
      BY <2>3, <3>2, <1>a DEF StoreOutput, TypeOK
  <2> QED
    BY <1>9, <2>1, <2>2, <2>3 DEF WaitStep
<1> QED
  BY <1>1, <1>2, <1>3, <1>4, <1>5, <1>6, <1>7, <1>8, <1>9 DEF Next, CopyStep, LoopStep

\* The stations of an output hold sequences.
LEMMA StationTypes ==
  ASSUME TypeOK, NEW o \in Outs
  PROVE  /\ made[o] \in Seq(Nat) /\ sent[o] \in Seq(Nat) /\ data[o] \in Seq(Nat)
         /\ buf[o] \in Seq(Nat) /\ hand[o] \in Seq(Nat) /\ pipe[o] \in Seq(Nat)
BY DEF TypeOK, Chunks

\* What is behind the buffer, and behind what was read.
LEMMA BehindTypes ==
  ASSUME TypeOK, NEW o \in Outs
  PROVE  /\ hand[o] \o pipe[o] \in Seq(Nat)
         /\ buf[o] \o (hand[o] \o pipe[o]) \in Seq(Nat)
         /\ data[o] \o (buf[o] \o (hand[o] \o pipe[o])) \in Seq(Nat)
<1>1. hand[o] \o pipe[o] \in Seq(Nat)
  BY StationTypes, ConcatProperties
<1>2. buf[o] \o (hand[o] \o pipe[o]) \in Seq(Nat)
  BY <1>1, StationTypes, ConcatProperties
<1> QED
  BY <1>1, <1>2, StationTypes, ConcatProperties

\* The facts about sequences, for chunks.
Moves(s, t, u) == s \o (t \o u) = (s \o t) \o (<<>> \o u)

LEMMA ChunksMove ==
  ASSUME NEW s \in Seq(Nat), NEW t \in Seq(Nat), NEW u \in Seq(Nat)
  PROVE  Moves(s, t, u) /\ Regroups(s, t, u)
<1>1. Moves(s, t, u)
  BY MoveAll DEF Moves
<1>2. Regroups(s, t, u)
  BY Regrouped
<1> QED
  BY <1>1, <1>2

\* A chunk moves on from station to station: every step of the way keeps the order.
LEMMA FlowStep ==
  ASSUME ExecInv, [Next]_vars, NEW q \in Outs
  PROVE  Flow(q)'
<1> USE DEF progVars, pipeVars, bufVars, loopVars, waitVars
<1>a. TypeOK /\ Flow(q) /\ Stations(q)
  BY DEF ExecInv
<1>s. /\ made[q] \in Seq(Nat) /\ sent[q] \in Seq(Nat) /\ data[q] \in Seq(Nat)
      /\ buf[q] \in Seq(Nat) /\ hand[q] \in Seq(Nat) /\ pipe[q] \in Seq(Nat)
  BY <1>a, StationTypes
<1>t. /\ hand[q] \o pipe[q] \in Seq(Nat)
      /\ buf[q] \o (hand[q] \o pipe[q]) \in Seq(Nat)
      /\ data[q] \o (buf[q] \o (hand[q] \o pipe[q])) \in Seq(Nat)
  BY <1>a, BehindTypes
<1>e. <<>> \in Seq(Nat)
  BY EmptySeq
<1>b. ASSUME /\ made'[q] = made[q] /\ sent'[q] = sent[q] /\ data'[q] = data[q]
             /\ buf'[q] = buf[q] /\ hand'[q] = hand[q] /\ pipe'[q] = pipe[q]
      PROVE  Flow(q)'
  BY <1>a, <1>b DEF Flow
<1>1. CASE ProgramWrites(q)
  <2> DEFINE x == Len(made[q]) + 1
             one == <<x>>
             back == hand[q] \o pipe[q]
             rest == buf[q] \o back
             all == data[q] \o rest
  <2>1. x \in Nat /\ one \in Seq(Nat)
    BY <1>s
  <2>2. /\ made'[q] = Append(made[q], x) /\ pipe'[q] = Append(pipe[q], x)
        /\ sent' = sent /\ data' = data /\ buf' = buf /\ hand' = hand
    BY <1>1, <1>a DEF ProgramWrites, TypeOK
  <2>3. Append(made[q], x) = made[q] \o one /\ Append(pipe[q], x) = pipe[q] \o one
    BY <1>s, <2>1, AppendIsConcat
  <2>4. back \in Seq(Nat) /\ rest \in Seq(Nat) /\ all \in Seq(Nat)
    BY <1>t
  <2> HIDE DEF x, one
  <2>5. Regroups(hand[q], pipe[q], one)
    BY <1>s, <2>1, ChunksMove
  <2> HIDE DEF back
  <2>6. Regroups(buf[q], back, one)
    BY <1>s, <2>1, <2>4, ChunksMove
  <2> HIDE DEF rest
  <2>7. Regroups(data[q], rest, one)
    BY <1>s, <2>1, <2>4, ChunksMove
  <2> HIDE DEF all
  <2>8. Regroups(sent[q], all, one)
    BY <1>s, <2>1, <2>4, ChunksMove
  <2>9. made[q] = sent[q] \o all
    BY <1>a DEF Flow, all, rest, back
  <2>10. made'[q] = sent[q] \o (data[q] \o (buf[q] \o (hand[q] \o (pipe[q] \o one))))
    BY <2>2, <2>3, <2>5, <2>6, <2>7, <2>8, <2>9, Zenon DEF Regroups, back, rest, all
  <2> QED
    BY <2>2, <2>3, <2>10, Zenon DEF Flow
<1>2. CASE CopyRead(q)
  <2>1. CASE pipe[q] # <<>> /\ hand' = [hand EXCEPT ![q] = <<Head(pipe[q])>>]
             /\ pipe' = [pipe EXCEPT ![q] = Tail(@)]
    <3>1. /\ hand'[q] = <<Head(pipe[q])>> /\ pipe'[q] = Tail(pipe[q]) /\ hand[q] = <<>>
          /\ sent' = sent /\ data' = data /\ buf' = buf /\ made' = made
      BY <1>2, <1>a, <2>1 DEF CopyRead, TypeOK, Stations
    <3>2. <<>> \o pipe[q] = <<Head(pipe[q])>> \o Tail(pipe[q])
      BY <1>s, <2>1, MoveHead
    <3> QED
      BY <1>a, <3>1, <3>2, Zenon DEF Flow
  <2>2. CASE UNCHANGED <<pipe, hand>>
    BY <1>2, <1>b, <2>2 DEF CopyRead
  <2> QED
    BY <1>2, <2>1, <2>2 DEF CopyRead
<1>3. CASE CopyStore(q)
  <2>1. /\ buf'[q] = buf[q] \o hand[q] /\ hand'[q] = <<>>
        /\ sent' = sent /\ data' = data /\ pipe' = pipe /\ made' = made
    BY <1>3, <1>a DEF CopyStore, TypeOK
  <2>2. Moves(buf[q], hand[q], pipe[q])
    BY <1>s, ChunksMove
  <2> QED
    BY <1>a, <2>1, <2>2, Zenon DEF Flow, Moves
<1>4. CASE ReadBuffer(q)
  <2>1. CASE buf[q] # <<>>
    <3>a. PICK p \in Seq(Nat), r \in Seq(Nat) : TakenFrom(q, p, r)
      BY <1>4, <1>a, <2>1, Taken
    <3>1. /\ data'[q] = p /\ buf'[q] = r /\ buf[q] = p \o r /\ data[q] = <<>>
          /\ sent' = sent /\ hand' = hand /\ pipe' = pipe /\ made' = made
      BY <1>4, <1>a, <3>a DEF ReadBuffer, TypeOK, Stations, TakenFrom
    <3>2. <<>> \o (buf[q] \o (hand[q] \o pipe[q])) = buf[q] \o (hand[q] \o pipe[q])
      BY <1>t, ConcatEmptySeq
    <3>3. Regroups(p, r, hand[q] \o pipe[q])
      BY <1>t, ChunksMove
    <3> QED
      BY <1>a, <3>1, <3>2, <3>3, Zenon DEF Flow, Regroups
  <2>2. CASE buf[q] = <<>>
    BY <1>4, <1>b, <2>2 DEF ReadBuffer
  <2> QED
    BY <2>1, <2>2
<1>5. CASE SendChunk(q)
  <2>1. /\ sent'[q] = sent[q] \o data[q] /\ data'[q] = <<>>
        /\ buf' = buf /\ hand' = hand /\ pipe' = pipe /\ made' = made
    BY <1>5, <1>a DEF SendChunk, TypeOK
  <2> DEFINE rest == buf[q] \o (hand[q] \o pipe[q])
  <2>2. rest \in Seq(Nat)
    BY <1>t
  <2> HIDE DEF rest
  <2>3. Moves(sent[q], data[q], rest)
    BY <1>s, <2>2, ChunksMove
  <2> QED
    BY <1>a, <2>1, <2>3, Zenon DEF Flow, Moves, rest
<1>6. ASSUME NEW o \in Outs, o # q, ProgramWrites(o) \/ CopyRead(o) \/ CopyStore(o)
                                     \/ ReadBuffer(o) \/ SendChunk(o)
      PROVE  Flow(q)'
  BY <1>6, <1>b, <1>a DEF ProgramWrites, CopyRead, CopyStore, ReadBuffer, SendChunk, TypeOK
<1>7. ASSUME NEW o \in Outs, CopyNotify(o) \/ CopyClose(o) \/ CopyWake(o) \/ ReadCheck(o)
                               \/ ReadSelect(o) \/ SendFails(o)
      PROVE  Flow(q)'
  BY <1>7, <1>b DEF CopyNotify, CopyClose, CopyWake, ReadCheck, ReadSelect, SendFails
<1>8. CASE ProgramExits \/ Cancel \/ StreamBreaks \/ WaitStep \/ UNCHANGED vars
  BY <1>8, <1>b DEF ProgramExits, Cancel, StreamBreaks, WaitStep, CommandDone, CloseIO,
     FinalWait, FinalWaitCancelled, Drain, StoreOutput, vars
<1> QED
  BY <1>1, <1>2, <1>3, <1>4, <1>5, <1>6, <1>7, <1>8 DEF Next, CopyStep, LoopStep

LEMMA StationStep ==
  ASSUME ExecInv, [Next]_vars, NEW q \in Outs
  PROVE  Stations(q)'
<1> USE DEF progVars, pipeVars, bufVars, loopVars, waitVars, Stations
<1>a. TypeOK /\ Stations(q) /\ Reaping
  BY DEF ExecInv
<1>b. wait \notin {"command", "close"} => wait' \notin {"command", "close"}
  BY DEF Next, ProgramWrites, ProgramExits, Cancel, StreamBreaks, CopyStep, CopyRead,
     CopyStore, CopyNotify, CopyClose, CopyWake, LoopStep, ReadBuffer, ReadCheck,
     ReadSelect, SendChunk, SendFails, WaitStep, CommandDone, CloseIO, FinalWait,
     FinalWaitCancelled, Drain, StoreOutput, vars
<1>1. ASSUME NEW o \in Outs, ProgramWrites(o) PROVE Stations(q)'
  <2>1. pipe'[q] = pipe[q] \/ copier[q] \notin {"close", "wake", "done"}
    BY <1>1, <1>a DEF ProgramWrites, TypeOK, Reaping
  <2> QED
    BY <1>1, <1>a, <2>1 DEF ProgramWrites
<1>2. ASSUME NEW o \in Outs, CopyRead(o) PROVE Stations(q)'
  BY <1>2, <1>a DEF CopyRead, TypeOK
<1>3. ASSUME NEW o \in Outs, CopyStore(o) PROVE Stations(q)'
  BY <1>3, <1>a DEF CopyStore, TypeOK
<1>4. ASSUME NEW o \in Outs, CopyNotify(o) \/ CopyClose(o) \/ CopyWake(o)
      PROVE  Stations(q)'
  BY <1>4, <1>a DEF CopyNotify, CopyClose, CopyWake, WakeReader, TypeOK
<1>5. ASSUME NEW o \in Outs, ReadBuffer(o) PROVE Stations(q)'
  <2>1. CASE buf[o] # <<>>
    <3>1. PICK p \in Seq(Nat), r \in Seq(Nat) : TakenFrom(o, p, r)
      BY <1>5, <1>a, <2>1, Taken
    <3> QED
      BY <1>5, <1>a, <3>1 DEF ReadBuffer, TypeOK, TakenFrom
  <2>2. CASE buf[o] = <<>>
    BY <1>5, <1>a, <2>2 DEF ReadBuffer, TypeOK
  <2> QED
    BY <2>1, <2>2
<1>6. ASSUME NEW o \in Outs, ReadCheck(o) \/ ReadSelect(o) \/ SendFails(o)
      PROVE  Stations(q)'
  BY <1>6, <1>a DEF ReadCheck, ReadSelect, SendFails, TypeOK
<1>7. ASSUME NEW o \in Outs, SendChunk(o) PROVE Stations(q)'
  BY <1>7, <1>a DEF SendChunk, TypeOK
<1>8. CASE ProgramExits \/ Cancel \/ StreamBreaks \/ WaitStep \/ UNCHANGED vars
  <2>1. UNCHANGED <<copier, hand, loop, data, closed, pipe>>
    BY <1>8 DEF ProgramExits, Cancel, StreamBreaks, WaitStep, CommandDone, CloseIO,
       FinalWait, FinalWaitCancelled, Drain, StoreOutput, vars
  <2> QED
    BY <1>a, <1>b, <2>1
<1> QED
  BY <1>1, <1>2, <1>3, <1>4, <1>5, <1>6, <1>7, <1>8 DEF Next, CopyStep, LoopStep

\* A loop that has ended stays so.
LEMMA EndedGrows ==
  ASSUME TypeOK, [Next]_vars
  PROVE  Ended \subseteq Ended'
<1> USE DEF progVars, pipeVars, bufVars, loopVars, waitVars, Ended, TypeOK
<1>1. ASSUME NEW o \in Outs, CopyNotify(o) \/ CopyWake(o) PROVE Ended \subseteq Ended'
  BY <1>1 DEF CopyNotify, CopyWake, WakeReader
<1>2. ASSUME NEW o \in Outs, LoopStep(o) PROVE Ended \subseteq Ended'
  <2>1. loop[o] \notin {"ended", "failed"} /\ \E l : loop' = [loop EXCEPT ![o] = l]
    BY <1>2 DEF LoopStep, ReadBuffer, ReadCheck, ReadSelect, SendChunk, SendFails
  <2> QED
    BY <2>1
<1>3. ASSUME UNCHANGED loop PROVE Ended \subseteq Ended'
  BY <1>3
<1> QED
  BY <1>1, <1>2, <1>3 DEF Next, CopyStep, ProgramWrites, CopyRead, CopyStore, CopyClose,
     ProgramExits, Cancel, StreamBreaks, WaitStep, CommandDone, CloseIO, FinalWait,
     FinalWaitCancelled, Drain, StoreOutput, vars

LEMMA ReapStep ==
  ASSUME ExecInv, [Next]_vars
  PROVE  Reaping'
<1> USE DEF progVars, pipeVars, bufVars, loopVars, waitVars
<1>a. TypeOK /\ Reaping
  BY DEF ExecInv
<1>b. Ended \subseteq Ended' /\ Ended' \subseteq Outs
  BY <1>a, EndedGrows DEF Ended
<1>1. ASSUME UNCHANGED <<wait, reaped>>, prog' = prog \/ prog' = "exited" PROVE Reaping'
  BY <1>1, <1>a, <1>b DEF Reaping
<1>2. CASE WaitStep
  <2>1. UNCHANGED <<prog, loop>> /\ Ended' = Ended
    BY <1>2 DEF WaitStep, CommandDone, CloseIO, FinalWait, FinalWaitCancelled, Drain,
       StoreOutput, Ended
  <2>2. CASE CommandDone
    BY <1>a, <2>1, <2>2 DEF CommandDone, Reaping
  <2>3. CASE CloseIO \/ FinalWaitCancelled
    BY <1>a, <2>1, <2>3 DEF CloseIO, FinalWaitCancelled, Reaping
  <2>4. ASSUME NEW o \in Outs, FinalWait(o) PROVE Reaping'
    BY <1>a, <1>b, <2>1, <2>4 DEF FinalWait, Reaping
  <2>5. CASE Drain
    BY <1>a, <2>1, <2>5 DEF Drain, Reaping
  <2>6. CASE StoreOutput
    BY <1>a, <2>1, <2>6 DEF StoreOutput, Reaping
  <2> QED
    BY <1>2, <2>2, <2>3, <2>4, <2>5, <2>6 DEF WaitStep
<1> QED
  BY <1>1, <1>2 DEF Next, CopyStep, LoopStep, ProgramWrites, CopyRead, CopyStore,
     CopyNotify, CopyClose, CopyWake, ReadBuffer, ReadCheck, ReadSelect, SendChunk,
     SendFails, ProgramExits, Cancel, StreamBreaks, vars

LEMMA CaptureStep ==
  ASSUME ExecInv, [Next]_vars
  PROVE  Capture'
<1> USE DEF progVars, pipeVars, bufVars, loopVars, waitVars
<1>a. TypeOK /\ Capture /\ Reaping /\ Stations("stdout") /\ "stdout" \in Outs
  BY DEF ExecInv, Outs
<1> DEFINE s == sent["stdout"]
           d == data["stdout"]
           b == buf["stdout"]
<1>b. s \in Seq(Nat) /\ d \in Seq(Nat) /\ b \in Seq(Nat) /\ TailCap \in Nat
  BY <1>a, StationTypes, ExecutionConstants
<1>c. wait = "returned" => loop["stdout"] \in {"ended", "failed"}
  BY <1>a DEF Reaping, Ended
<1>1. ASSUME UNCHANGED <<tail, env, known, wait>>, s' = s, d' = d PROVE Capture'
  BY <1>1, <1>a DEF Capture
<1>2. ASSUME NEW o \in Outs, ReadBuffer(o) PROVE Capture'
  <2>1. CASE o = "stdout" /\ b # <<>>
    <3>a. PICK p \in Seq(Nat), r \in Seq(Nat) : TakenFrom(o, p, r)
      BY <1>2, <1>a, <2>1, Taken
    <3>1. /\ d = <<>> /\ d' = p /\ s' = s /\ tail' = Captured(tail, p)
          /\ wait # "returned" /\ wait' = wait
      BY <1>2, <1>a, <1>c, <2>1, <3>a DEF ReadBuffer, Stations, TypeOK, TakenFrom
    <3>2. tail = LastN(s, TailCap)
      BY <1>a, <1>b, <3>1, ConcatEmptySeq DEF Capture
    <3>3. Captured(LastN(s, TailCap), p) = LastN(s \o p, TailCap)
      BY <1>b, CapturedTail
    <3> QED
      BY <3>1, <3>2, <3>3 DEF Capture
  <2>2. CASE o # "stdout" \/ b = <<>>
    BY <1>1, <1>2, <1>a, <2>2 DEF ReadBuffer, TypeOK
  <2> QED
    BY <2>1, <2>2
<1>3. ASSUME NEW o \in Outs, SendChunk(o) PROVE Capture'
  <2>1. CASE o = "stdout"
    <3>1. s' = s \o d /\ d' = <<>> /\ UNCHANGED <<tail, env, known, wait>>
      BY <1>3, <1>a, <2>1 DEF SendChunk, TypeOK
    <3>2. (s \o d) \o <<>> = s \o d
      BY <1>b, ConcatProperties, ConcatEmptySeq
    <3> QED
      BY <1>a, <3>1, <3>2 DEF Capture
  <2>2. CASE o # "stdout"
    BY <1>1, <1>3, <1>a, <2>2 DEF SendChunk, TypeOK
  <2> QED
    BY <2>1, <2>2
<1>4. CASE WaitStep
  BY <1>4, <1>a DEF WaitStep, CommandDone, CloseIO, FinalWait, FinalWaitCancelled, Drain,
     StoreOutput, Capture
<1> QED
  BY <1>1, <1>2, <1>3, <1>4 DEF Next, CopyStep, LoopStep, ProgramWrites, CopyRead,
     CopyStore, CopyNotify, CopyClose, CopyWake, ReadCheck, ReadSelect, SendFails,
     ProgramExits, Cancel, StreamBreaks, vars

LEMMA InvKept == Spec => []ExecInv
<1>1. ExecInv /\ [Next]_vars => ExecInv'
  BY TypeStep, FlowStep, StationStep, ReapStep, CaptureStep DEF ExecInv
<1> QED
  BY <1>1, InvInit, PTL DEF Spec

-----------------------------------------------------------------------------
(* The theorems.                                                           *)

\* Whatever the client and the program do: both loops are over before the exit code
\* is sent and the tail is read, what is stored is the end of what was read, and what
\* was written is what was sent and, in its order, what the stations still hold; it
\* is not claimed that they hold nothing in the end (execution.Wait).
THEOREM OutputAccounted == Spec => []OutputInv
<1>1. ExecInv => OutputInv
  <2> SUFFICES ASSUME ExecInv PROVE OutputInv
    OBVIOUS
  <2>1. LoopsEndBeforeWait
    BY DEF ExecInv, Reaping, LoopsEndBeforeWait
  <2>2. StoredIsTail
    BY DEF ExecInv, Capture, StoredIsTail
  <2>3. NothingOvertaken
    BY DEF ExecInv, Flow, NothingOvertaken
  <2> QED
    BY <2>1, <2>2, <2>3 DEF ExecInv, OutputInv
<1> QED
  BY <1>1, InvKept, PTL

LEMMA BehindTypesNext ==
  ASSUME TypeOK', NEW o \in Outs
  PROVE  data'[o] \o (buf'[o] \o (hand'[o] \o pipe'[o])) \in Seq(Nat)
<1>1. /\ data'[o] \in Seq(Nat) /\ buf'[o] \in Seq(Nat)
      /\ hand'[o] \in Seq(Nat) /\ pipe'[o] \in Seq(Nat)
  BY DEF TypeOK, Chunks
<1>2. hand'[o] \o pipe'[o] \in Seq(Nat)
  BY <1>1, ConcatProperties
<1>3. buf'[o] \o (hand'[o] \o pipe'[o]) \in Seq(Nat)
  BY <1>1, <1>2, ConcatProperties
<1> QED
  BY <1>1, <1>3, ConcatProperties

\* How an output moves on in a step: the program adds to it, some more of it is sent
\* in its order, or neither.
Extends(s, t) == \E u \in Seq(Nat) : u # <<>> /\ s \in Seq(Nat) /\ t = s \o u
StartsWith(t, s) == \E u \in Seq(Nat) : s \in Seq(Nat) /\ t = s \o u

Progress(q) ==
  \/ UNCHANGED <<made[q], sent[q]>>
  \/ Extends(made[q], made'[q]) /\ UNCHANGED sent[q]
  \/ Extends(sent[q], sent'[q]) /\ StartsWith(made[q], sent'[q]) /\ UNCHANGED made[q]

LEMMA ProgressStep ==
  ASSUME ExecInv, ExecInv', [Next]_vars, NEW q \in Outs
  PROVE  Progress(q)
<1> USE DEF progVars, pipeVars, bufVars, loopVars, waitVars
<1>a. TypeOK /\ TypeOK'
  BY DEF ExecInv
<1>1. ASSUME NEW o \in Outs, ProgramWrites(o) PROVE Progress(q)
  <2>1. CASE o = q
    <3> DEFINE x == Len(made[q]) + 1
    <3>1. made[q] \in Seq(Nat) /\ x \in Nat
      BY <1>a, StationTypes
    <3>2. made'[q] = Append(made[q], x) /\ sent' = sent
      <4>1. made \in [Outs -> Chunks]
        BY <1>a DEF TypeOK
      <4>2. sent' = sent
        BY <1>1 DEF ProgramWrites
      <4>3. made' = [made EXCEPT ![q] = Append(made[q], x)]
        BY <1>1, <2>1 DEF ProgramWrites
      <4> HIDE DEF x
      <4> QED
        BY <4>1, <4>2, <4>3
    <3> HIDE DEF x
    <3>3. Append(made[q], x) = made[q] \o <<x>> /\ <<x>> \in Seq(Nat) /\ <<x>> # <<>>
      <4>1. <<x>> \in Seq(Nat) /\ <<x>> # <<>>
        BY <3>1
      <4>2. Append(made[q], x) = made[q] \o <<x>>
        BY <3>1, AppendIsConcat, SMTT(20)
      <4> QED
        BY <4>1, <4>2, Zenon
    <3> QED
      BY <3>1, <3>2, <3>3, Zenon DEF Progress, Extends
  <2>2. CASE o # q
    BY <1>1, <1>a, <2>2 DEF ProgramWrites, TypeOK, Progress
  <2> QED
    BY <2>1, <2>2
<1>2. ASSUME NEW o \in Outs, SendChunk(o) PROVE Progress(q)
  <2>1. CASE o = q
    <3>1. /\ sent'[q] = sent[q] \o data[q] /\ data[q] # <<>>
          /\ made' = made
      BY <1>2, <1>a, <2>1 DEF SendChunk, TypeOK, ExecInv, Stations
    <3>2. sent[q] \in Seq(Nat) /\ data[q] \in Seq(Nat) /\ sent'[q] \in Seq(Nat)
      BY <1>a, StationTypes, <3>1, ConcatProperties
    <3> DEFINE rest == data'[q] \o (buf'[q] \o (hand'[q] \o pipe'[q]))
    <3>3. rest \in Seq(Nat)
      BY <1>a, BehindTypesNext
    <3>4. made'[q] = sent'[q] \o rest
      BY DEF ExecInv, Flow
    <3> HIDE DEF rest
    <3> QED
      BY <3>1, <3>2, <3>3, <3>4, Zenon DEF Progress, Extends, StartsWith
  <2>2. CASE o # q
    BY <1>2, <1>a, <2>2 DEF SendChunk, TypeOK, Progress
  <2> QED
    BY <2>1, <2>2
<1>3. ASSUME UNCHANGED <<made, sent>> PROVE Progress(q)
  BY <1>3 DEF Progress
<1> QED
  BY <1>1, <1>2, <1>3 DEF Next, CopyStep, LoopStep, CopyRead, CopyStore, CopyNotify,
     CopyClose, CopyWake, ReadBuffer, ReadCheck, ReadSelect, SendFails, ProgramExits,
     Cancel, StreamBreaks, WaitStep, CommandDone, CloseIO, FinalWait, FinalWaitCancelled,
     Drain, StoreOutput, vars

LEMMA PrefixWhenExtended ==
  ASSUME NEW s, NEW t
  PROVE  /\ StartsWith(t, s) => StdoutRelay!IsPrefix(s, t) /\ StderrRelay!IsPrefix(s, t)
         /\ Extends(s, t) => /\ StdoutRelay!IsStrictPrefix(s, t)
                             /\ StderrRelay!IsStrictPrefix(s, t)
<1>1. ASSUME NEW u \in Seq(Nat), s \in Seq(Nat), t = s \o u
      PROVE  /\ Len(s) <= Len(t) /\ SubSeq(s, 1, Len(s)) = SubSeq(t, 1, Len(s))
             /\ u # <<>> => s # t
  BY <1>1, FrontIsPrefix
<1> QED
  BY <1>1 DEF StartsWith, Extends, StdoutRelay!IsPrefix, StderrRelay!IsPrefix,
     StdoutRelay!IsStrictPrefix, StderrRelay!IsStrictPrefix

\* Each output is relayed: what the client gets of it is what the command wrote, in
\* that order, nothing twice and nothing left out in between, for any amount of output
\* and any interleaving of the goroutines (execution.readSendLoop, buffer.go).
THEOREM OutputRelays == Spec => OutputInOrder
<1>1. Init => StdoutRelay!RelayInit /\ StderrRelay!RelayInit
  BY DEF Init, NoChunks, Outs, StdoutRelay!RelayInit, StderrRelay!RelayInit
<1>2. ExecInv /\ ExecInv' /\ [Next]_vars
        => /\ [StdoutRelay!Accept \/ StdoutRelay!Deliver]_(StdoutRelay!relayVars)
           /\ [StderrRelay!Accept \/ StderrRelay!Deliver]_(StderrRelay!relayVars)
  <2> SUFFICES ASSUME ExecInv, ExecInv', [Next]_vars
               PROVE  /\ [StdoutRelay!Accept \/ StdoutRelay!Deliver]_(StdoutRelay!relayVars)
                      /\ [StderrRelay!Accept \/ StderrRelay!Deliver]_(StderrRelay!relayVars)
    OBVIOUS
  <2>1. Progress("stdout") /\ Progress("stderr")
    BY ProgressStep DEF Outs
  <2>2. [StdoutRelay!Accept \/ StdoutRelay!Deliver]_(StdoutRelay!relayVars)
    BY <2>1, PrefixWhenExtended DEF Progress, StdoutRelay!Accept, StdoutRelay!Deliver,
       StdoutRelay!relayVars, StdoutRelay!IsStrictPrefix
  <2>3. [StderrRelay!Accept \/ StderrRelay!Deliver]_(StderrRelay!relayVars)
    BY <2>1, PrefixWhenExtended DEF Progress, StderrRelay!Accept, StderrRelay!Deliver,
       StderrRelay!relayVars, StderrRelay!IsStrictPrefix
  <2> QED
    BY <2>2, <2>3
<1> QED
  BY <1>1, <1>2, InvKept, PTL DEF Spec, OutputInOrder, StdoutRelay!RelaySpec,
     StderrRelay!RelaySpec
=============================================================================

-------------------------- MODULE RingBufferProofs --------------------------
(***************************************************************************)
(* Proofs about RingBuffer for any number of writers and readers and any   *)
(* capacity.                                                               *)
(***************************************************************************)
EXTENDS RingBufferProps, TLAPS

-----------------------------------------------------------------------------
(* The positions.                                                          *)

\* The room left and the bytes unread make up the buffer, and the unread bytes run
\* from r to w.
LEMMA Positions ==
  ASSUME TypeOK
  PROVE  /\ Unread \in 0..Size /\ availableLocked \in 0..Size
         /\ availableLocked = Size - Unread
         /\ w = Wrap(r + Unread)
         /\ HasData => Unread = Buffered /\ Buffered \in 1..Size
         /\ ~HasData => Unread = 0
<1> USE RingConstants DEF TypeOK, Slots
<1>1. CASE isFull
  BY <1>1 DEF Unread, HasData, Buffered, availableLocked, Wrap
<1>2. CASE ~isFull /\ w > r
  BY <1>2 DEF Unread, HasData, Buffered, availableLocked, Wrap
<1>3. CASE ~isFull /\ w < r
  BY <1>3 DEF Unread, HasData, Buffered, availableLocked, Wrap
<1>4. CASE ~isFull /\ w = r
  BY <1>4 DEF Unread, HasData, Buffered, availableLocked, Wrap
<1> QED
  BY <1>1, <1>2, <1>3, <1>4

\* A piece of k bytes that fits moves w on and adds k unread bytes.
LEMMA PositionsAfterCopy ==
  ASSUME TypeOK, NEW k \in 1..availableLocked,
         w' = Wrap(w + k), isFull' = (isFull \/ w' = r), r' = r
  PROVE  /\ w' \in Slots /\ isFull' \in BOOLEAN /\ (isFull' => r' = w')
         /\ Unread' = Unread + k
         /\ HasData'
<1> USE RingConstants DEF TypeOK, Slots
<1>1. ~isFull /\ k \in 1..Size
  BY Positions DEF availableLocked
<1>2. isFull' \in BOOLEAN /\ (isFull' <=> w' = r)
  BY <1>1
<1>3. w' \in Slots /\ availableLocked = Size - Unread
  BY <1>1, Positions DEF Wrap
<1>4. (w' # r' \/ isFull') = TRUE
  BY <1>2
<1>5. HasData'
  BY <1>4 DEF HasData
<1>6. Unread' = Buffered'
  BY <1>5 DEF Unread
<1>7. Buffered' = IF w' > r THEN w' - r ELSE Size - r + w'
  BY DEF Buffered
<1>8. Buffered' = Unread + k
  <2>1. Unread = IF w >= r THEN w - r ELSE Size - r + w
    BY <1>1 DEF Unread, HasData, Buffered
  <2>2. k <= IF w >= r THEN Size - (w - r) ELSE r - w
    BY <1>1 DEF availableLocked
  <2>3. CASE w >= r
    BY <1>1, <1>7, <2>1, <2>2, <2>3 DEF Wrap
  <2>4. CASE w < r
    BY <1>1, <1>7, <2>1, <2>2, <2>4 DEF Wrap
  <2> QED
    BY <2>3, <2>4
<1> QED
  BY <1>2, <1>3, <1>5, <1>6, <1>8

\* Taking k of the unread bytes moves r on and leaves the others.
LEMMA PositionsAfterTake ==
  ASSUME TypeOK, HasData, NEW k \in 1..Buffered,
         r' = Wrap(r + k), isFull' = FALSE, w' = w
  PROVE  /\ r' \in Slots
         /\ Unread' = Unread - k
<1> USE RingConstants DEF TypeOK, Slots
<1>1. k \in 1..Size
  BY Positions
<1>2. CASE w > r
  BY <1>1, <1>2 DEF Unread, HasData, Buffered, Wrap
<1>3. CASE w <= r /\ r + k >= Size
  BY <1>1, <1>3 DEF Unread, HasData, Buffered, Wrap
<1>4. CASE w <= r /\ r + k < Size
  BY <1>1, <1>4 DEF Unread, HasData, Buffered, Wrap
<1> QED
  BY <1>2, <1>3, <1>4

\* The i-th slot from r on is the place of an unread byte, or that many places
\* behind w.
LEMMA SlotFromR ==
  ASSUME TypeOK, NEW i \in 1..Size
  PROVE  /\ Wrap(r + i - 1) \in Slots
         /\ i <= Unread => Distance(Wrap(r + i - 1)) = Size - Unread + i - 1
         /\ i > Unread => Distance(Wrap(r + i - 1)) = i - 1 - Unread
<1> USE RingConstants DEF TypeOK, Slots
<1>1. w = Wrap(r + Unread) /\ Unread \in 0..Size
  BY Positions
<1>2. CASE r + Unread >= Size
  <2>1. CASE r + i - 1 >= Size
    BY <1>1, <1>2, <2>1 DEF Distance, Wrap
  <2>2. CASE r + i - 1 < Size
    BY <1>1, <1>2, <2>2 DEF Distance, Wrap
  <2> QED
    BY <2>1, <2>2
<1>3. CASE r + Unread < Size
  <2>1. CASE r + i - 1 >= Size
    BY <1>1, <1>3, <2>1 DEF Distance, Wrap
  <2>2. CASE r + i - 1 < Size
    BY <1>1, <1>3, <2>2 DEF Distance, Wrap
  <2> QED
    BY <2>1, <2>2
<1> QED
  BY <1>1, <1>2, <1>3

-----------------------------------------------------------------------------
(* Who holds the mutex, who waits, and what is left to write.              *)

\* A goroutine in the middle of its call holds the mutex; a Write under way has
\* bytes left.
MutexHeld == \A g \in Procs : pc[g] \in {"check", "checked"} => lock = g
BytesLeft == \A g \in Writers : pc[g] # "idle" => left[g] > 0

\* Who passed the check of the flag is told of a Close by a Broadcast that is still
\* to come; a reader that passed it has nothing to read.
CheckedIsCurrent ==
  \A g \in Procs : pc[g] = "checked" => closing # "closed" /\ (g \in Readers => ~HasData)

\* When a reader was told EOF nothing is stored any more.
DrainedAtEOF ==
  (\E g \in Readers : pc[g] = "eof") =>
    closed /\ ~HasData /\ \A g \in Writers : pc[g] # "checked"

WakeInv == TypeOK /\ MutexHeld /\ BytesLeft /\ CheckedIsCurrent /\ NoMissedWakeup /\ DrainedAtEOF

LEMMA WakeInit == Init => WakeInv
<1> SUFFICES ASSUME Init PROVE WakeInv
  OBVIOUS
<1>1. TypeOK
  BY RingConstants DEF Init, TypeOK, Slots
<1> QED
  BY <1>1 DEF Init, WakeInv, MutexHeld, BytesLeft, CheckedIsCurrent, NoMissedWakeup,
     DrainedAtEOF, Procs

\* A piece: at least one byte, no more than is left or fits.
LEMMA PieceSize ==
  ASSUME WakeInv, NEW g \in Writers, pc[g] = "checked", availableLocked > 0
  PROVE  /\ Least(left[g], availableLocked) \in 1..availableLocked
         /\ Least(left[g], availableLocked) \in 1..left[g]
<1>1. left[g] \in Nat /\ left[g] > 0 /\ availableLocked \in 0..Size
  BY Positions DEF WakeInv, TypeOK, BytesLeft
<1> QED
  BY <1>1, RingConstants DEF Least

\* What a read takes: at least one byte, no more than is there.
LEMMA TakeSize ==
  ASSUME TypeOK, HasData, NEW n \in 1..MaxRead
  PROVE  Least(n, Buffered) \in 1..Buffered /\ Buffered \in 1..Size
<1>1. Buffered \in 1..Size
  BY Positions
<1> QED
  BY <1>1, RingConstants DEF Least

\* The slots of a piece hold its bytes, the others what they held.
LEMMA CopiedByte ==
  ASSUME TypeOK, NEW g \in Writers, NEW k \in Nat, NEW i \in Slots
  PROVE  Copied(Piece(g, k), i) =
           IF Distance(i) < k THEN <<g, sent[g] + Distance(i) + 1>> ELSE buf[i]
<1>1. Distance(i) \in Nat
  BY RingConstants DEF TypeOK, Slots, Distance
<1>2. Len(Piece(g, k)) = k
  BY DEF Piece
<1>3. ASSUME Distance(i) < k
      PROVE  Piece(g, k)[Distance(i) + 1] = <<g, sent[g] + (Distance(i) + 1)>>
  BY <1>1, <1>3 DEF Piece
<1>4. sent[g] + (Distance(i) + 1) = sent[g] + Distance(i) + 1
  BY <1>1 DEF TypeOK
<1> QED
  BY <1>2, <1>3, <1>4 DEF Copied

LEMMA PieceTyped ==
  ASSUME TypeOK, NEW g \in Writers, NEW k \in Nat
  PROVE  Piece(g, k) \in Seq(Bytes) /\ Len(Piece(g, k)) = k
<1>1. \A i \in 1..k : <<g, sent[g] + i>> \in Bytes
  BY DEF TypeOK, Bytes
<1> QED
  BY <1>1 DEF Piece

-----------------------------------------------------------------------------
(* Each step keeps WakeInv.                                                *)

LEMMA WriteCopyWake ==
  ASSUME WakeInv, NEW g \in Writers, WriteCopy(g)
  PROVE  WakeInv' /\ HasData'
<1> DEFINE k == Least(left[g], availableLocked)
<1>1. k \in 1..availableLocked /\ k \in 1..left[g] /\ k \in Nat /\ TypeOK
  BY PieceSize, Positions DEF WriteCopy, WakeInv, TypeOK
<1>2. w' = Wrap(w + k) /\ isFull' = (isFull \/ w' = r) /\ r' = r
  BY DEF WriteCopy
<1>3. w' \in Slots /\ isFull' \in BOOLEAN /\ (isFull' => r' = w') /\ HasData'
  BY <1>1, <1>2, PositionsAfterCopy
<1>4. buf' \in [Slots -> Bytes \cup {None}]
  <2>1. ASSUME NEW i \in Slots PROVE Copied(Piece(g, k), i) \in Bytes \cup {None}
    <3>1. Distance(i) \in Nat
      BY <1>1, RingConstants DEF TypeOK, Slots, Distance
    <3>2. sent[g] + Distance(i) + 1 \in Nat \ {0}
      BY <1>1, <3>1 DEF TypeOK
    <3>3. <<g, sent[g] + Distance(i) + 1>> \in Bytes /\ buf[i] \in Bytes \cup {None}
      BY <1>1, <3>2 DEF TypeOK, Bytes
    <3>4. Copied(Piece(g, k), i) =
            IF Distance(i) < k THEN <<g, sent[g] + Distance(i) + 1>> ELSE buf[i]
      BY <1>1, CopiedByte
    <3> QED
      BY <3>3, <3>4
  <2> QED
    BY <2>1 DEF WriteCopy
<1>5. left' \in [Writers -> Nat] /\ sent' \in [Writers -> Nat]
  BY <1>1 DEF WriteCopy, TypeOK
<1>6. inp' \in Seq(Bytes) /\ out' \in Seq(Bytes \cup {None})
  BY <1>1, PieceTyped DEF WriteCopy, TypeOK
<1>7. lock' \in Procs \cup {None} /\ closing' = closing
      /\ pc' \in [Procs -> {"idle", "lock", "check", "checked", "wait", "eof"}]
  BY <1>1 DEF WriteCopy, Wakes, TypeOK
<1>8. TypeOK'
  BY <1>1, <1>2, <1>3, <1>4, <1>5, <1>6, <1>7 DEF TypeOK
<1>9. g \in Procs /\ lock = g /\ pc[g] = "checked" /\ closing # "closed"
  BY DEF WriteCopy, WakeInv, MutexHeld, CheckedIsCurrent, Procs
<1>10. \/ lock' = None /\ k = left[g] /\ Wakes(g, "idle")
       \/ lock' = lock /\ k # left[g] /\ Wakes(g, "check")
  BY DEF WriteCopy
<1>11. \A x \in Procs \ {g} : pc[x] \notin {"check", "checked"}
  BY <1>9 DEF WakeInv, MutexHeld
<1>12. MutexHeld' /\ CheckedIsCurrent' /\ NoMissedWakeup'
  BY <1>1, <1>9, <1>10, <1>11 DEF Wakes, MutexHeld, CheckedIsCurrent, NoMissedWakeup, TypeOK
<1>13. BytesLeft'
  <2>1. left' = [left EXCEPT ![g] = @ - k]
    BY DEF WriteCopy
  <2>2. left' [g] = left[g] - k
    BY <1>1, <2>1 DEF TypeOK
  <2>3. k # left[g] => left'[g] > 0
    BY <1>1, <2>2 DEF TypeOK
  <2>4. \A x \in Writers \ {g} : left'[x] = left[x] /\ (pc'[x] # "idle" => pc[x] # "idle")
    BY <1>1, <1>10, <2>1 DEF Wakes, TypeOK, Procs
  <2>5. pc'[g] # "idle" => k # left[g]
    BY <1>9, <1>10 DEF Wakes
  <2> QED
    BY <2>3, <2>4, <2>5 DEF BytesLeft, WakeInv
<1>14. DrainedAtEOF'
  <2>1. \A x \in Readers : pc[x] # "eof"
    BY <1>9 DEF WakeInv, DrainedAtEOF
  <2>2. \A x \in Readers : pc'[x] # "eof"
    BY <1>10, <2>1, RingConstants DEF Wakes, Procs
  <2> QED
    BY <2>2 DEF DrainedAtEOF
<1> QED
  BY <1>3, <1>8, <1>12, <1>13, <1>14 DEF WakeInv

LEMMA ReadTakeWake ==
  ASSUME WakeInv, NEW g \in Readers, NEW n \in 1..MaxRead, ReadTake(g, n)
  PROVE  WakeInv'
<1> DEFINE k == Least(n, Buffered)
<1>1. k \in 1..Buffered /\ k \in Nat /\ TypeOK /\ HasData
  BY TakeSize DEF ReadTake, WakeInv
<1>2. r' = Wrap(r + k) /\ isFull' = FALSE /\ w' = w
  BY DEF ReadTake
<1>3. r' \in Slots /\ isFull' \in BOOLEAN /\ (isFull' => r' = w') /\ w' \in Slots
  BY <1>1, <1>2, PositionsAfterTake DEF TypeOK
<1>4. out' \in Seq(Bytes \cup {None})
  <2>1. ASSUME NEW i \in 1..k PROVE Wrap(r + i - 1) \in Slots
    <3>1. i \in 1..Size
      BY <1>1, TakeSize, RingConstants
    <3> QED
      BY <1>1, <3>1, SlotFromR
  <2>2. \A i \in 1..k : buf[Wrap(r + i - 1)] \in Bytes \cup {None}
    BY <1>1, <2>1 DEF TypeOK
  <2>3. [i \in 1..k |-> buf[Wrap(r + i - 1)]] \in Seq(Bytes \cup {None})
    BY <1>1, <2>2
  <2> QED
    BY <1>1, <2>3 DEF ReadTake, TypeOK
<1>5. lock' \in Procs \cup {None} /\ closing' = closing
      /\ pc' \in [Procs -> {"idle", "lock", "check", "checked", "wait", "eof"}]
  BY <1>1 DEF ReadTake, Wakes, TypeOK
<1>6. TypeOK'
  BY <1>1, <1>3, <1>4, <1>5 DEF TypeOK, ReadTake
<1>7. g \in Procs /\ lock = g /\ pc[g] = "check"
  BY DEF ReadTake, WakeInv, MutexHeld, Procs
<1>8. \A x \in Procs : pc'[x] \notin {"check", "checked", "wait"}
  BY <1>7 DEF WakeInv, MutexHeld, ReadTake, Wakes
<1>9. MutexHeld' /\ CheckedIsCurrent' /\ NoMissedWakeup'
  BY <1>8 DEF MutexHeld, CheckedIsCurrent, NoMissedWakeup
<1>10. BytesLeft'
  <2>1. \A x \in Writers : pc'[x] # "idle" => pc[x] # "idle"
    BY RingConstants DEF ReadTake, Wakes, Procs
  <2> QED
    BY <2>1 DEF BytesLeft, WakeInv, ReadTake
<1>11. DrainedAtEOF'
  <2>1. \A x \in Readers : pc[x] # "eof"
    BY <1>1 DEF WakeInv, DrainedAtEOF
  <2>2. \A x \in Readers : pc'[x] # "eof"
    BY <2>1 DEF ReadTake, Wakes, Procs
  <2> QED
    BY <2>2 DEF DrainedAtEOF
<1> QED
  BY <1>6, <1>9, <1>10, <1>11 DEF WakeInv

LEMMA WakeStep == WakeInv /\ [Next]_vars => WakeInv'
<1> SUFFICES ASSUME WakeInv, [Next]_vars PROVE WakeInv'
  OBVIOUS
<1> USE DEF WakeInv
<1>1. ASSUME Close PROVE WakeInv'
  <2>1. TypeOK'
    BY <1>1 DEF Close, TypeOK, ring, Slots
  <2> QED
    BY <1>1, <2>1 DEF Close, ring, MutexHeld, BytesLeft, CheckedIsCurrent, NoMissedWakeup,
       DrainedAtEOF, HasData, availableLocked, closed
<1>2. ASSUME CloseBroadcast PROVE WakeInv'
  <2>1. TypeOK'
    BY <1>2 DEF CloseBroadcast, TypeOK, ring, Slots
  <2>2. \A x \in Procs : pc'[x] \notin {"check", "checked", "wait"}
    BY <1>2, RingConstants DEF CloseBroadcast, MutexHeld, Procs
  <2>3. MutexHeld' /\ CheckedIsCurrent' /\ NoMissedWakeup'
    BY <2>2 DEF MutexHeld, CheckedIsCurrent, NoMissedWakeup
  <2>4. BytesLeft'
    BY <1>2 DEF CloseBroadcast, BytesLeft, Procs
  <2>5. DrainedAtEOF'
    <3>1. \A x \in Readers : pc'[x] = "eof" => pc[x] = "eof"
      BY <1>2 DEF CloseBroadcast, Procs
    <3>2. \A x \in Writers : pc'[x] # "checked"
      BY <2>2 DEF Procs
    <3> QED
      BY <1>2, <3>1, <3>2 DEF CloseBroadcast, DrainedAtEOF, closed, HasData, ring
  <2> QED
    BY <2>1, <2>3, <2>4, <2>5
<1>3. ASSUME NEW g \in Procs, Lock(g) PROVE WakeInv'
  <2>1. TypeOK'
    BY <1>3 DEF Lock, TypeOK, ring, Slots
  <2> QED
    BY <1>3, <2>1, RingConstants DEF Lock, ring, MutexHeld, BytesLeft, CheckedIsCurrent,
       NoMissedWakeup, DrainedAtEOF, HasData, availableLocked, closed, Procs, TypeOK
<1>4. ASSUME NEW g \in Writers, NEW n \in 1..MaxWrite, WriteCall(g, n) PROVE WakeInv'
  <2>1. TypeOK'
    <3>1. left' \in [Writers -> Nat]
      BY <1>4, RingConstants DEF WriteCall, TypeOK
    <3>2. pc' \in [Procs -> {"idle", "lock", "check", "checked", "wait", "eof"}]
      BY <1>4 DEF WriteCall, TypeOK
    <3> QED
      BY <1>4, <3>1, <3>2 DEF WriteCall, TypeOK, ring, Slots
  <2>2. MutexHeld' /\ CheckedIsCurrent' /\ NoMissedWakeup'
    BY <1>4 DEF WriteCall, ring, MutexHeld, CheckedIsCurrent, NoMissedWakeup, HasData,
       availableLocked, Procs, TypeOK
  <2>3. BytesLeft'
    BY <1>4, RingConstants DEF WriteCall, BytesLeft, Procs, TypeOK
  <2>4. DrainedAtEOF'
    BY <1>4, RingConstants DEF WriteCall, DrainedAtEOF, HasData, closed, ring, Procs, TypeOK
  <2> QED
    BY <2>1, <2>2, <2>3, <2>4
<1>5. ASSUME NEW g \in Writers, WriteRefused(g) PROVE WakeInv'
  BY <1>5 DEF WriteRefused, vars, ring, TypeOK, Slots, MutexHeld, BytesLeft, CheckedIsCurrent,
     NoMissedWakeup, DrainedAtEOF, HasData, availableLocked, closed
<1>6. ASSUME NEW g \in Writers, WriteCheck(g) PROVE WakeInv'
  <2>1. TypeOK'
    <3>1. left' \in [Writers -> Nat]
      <4>1. CASE closed
        <5>1. left' = [left EXCEPT ![g] = 0]
          BY <1>6, <4>1 DEF WriteCheck
        <5> QED
          BY <5>1 DEF TypeOK
      <4>2. CASE ~closed
        BY <1>6, <4>2 DEF WriteCheck, TypeOK
      <4> QED
        BY <4>1, <4>2
    <3>2. /\ lock' \in Procs \cup {None}
          /\ pc' \in [Procs -> {"idle", "lock", "check", "checked", "wait", "eof"}]
      BY <1>6 DEF WriteCheck, Unlock, TypeOK
    <3> QED
      BY <1>6, <3>1, <3>2 DEF WriteCheck, TypeOK, ring, Slots
  <2>2. g \in Procs /\ lock = g
    BY <1>6 DEF WriteCheck, MutexHeld, Procs
  <2>3. MutexHeld' /\ CheckedIsCurrent' /\ NoMissedWakeup'
    BY <1>6, <2>2, RingConstants DEF WriteCheck, Unlock, ring, MutexHeld, CheckedIsCurrent,
       NoMissedWakeup, HasData, availableLocked, closed, Procs, TypeOK
  <2>4. BytesLeft'
    <3>1. pc'[g] # "idle" => left' = left
      BY <1>6, <2>2 DEF WriteCheck, Unlock, TypeOK
    <3>2. \A x \in Writers \ {g} : left'[x] = left[x] /\ pc'[x] = pc[x]
      BY <1>6 DEF WriteCheck, Unlock, TypeOK, Procs
    <3>3. pc[g] # "idle"
      BY <1>6 DEF WriteCheck
    <3> QED
      BY <3>1, <3>2, <3>3 DEF BytesLeft
  <2>5. DrainedAtEOF'
    BY <1>6, <2>2, RingConstants DEF WriteCheck, Unlock, DrainedAtEOF, HasData, closed, ring,
       Procs, TypeOK
  <2> QED
    BY <2>1, <2>3, <2>4, <2>5
<1>7. ASSUME NEW g \in Writers, WriteWait(g) PROVE WakeInv'
  <2>1. TypeOK'
    BY <1>7, RingConstants DEF WriteWait, Unlock, TypeOK, ring, Slots
  <2>2. g \in Procs /\ lock = g /\ closing # "closed" /\ g \notin Readers
    BY <1>7, RingConstants DEF WriteWait, MutexHeld, CheckedIsCurrent, Procs
  <2> QED
    BY <1>7, <2>1, <2>2 DEF WriteWait, Unlock, ring, MutexHeld, BytesLeft, CheckedIsCurrent,
       NoMissedWakeup, DrainedAtEOF, HasData, availableLocked, closed, Procs, TypeOK
<1>8. ASSUME NEW g \in Writers, WriteCopy(g) PROVE WakeInv'
  BY <1>8, WriteCopyWake
<1>9. ASSUME NEW g \in Readers, ReadCall(g) PROVE WakeInv'
  <2>1. TypeOK'
    BY <1>9 DEF ReadCall, TypeOK, ring, Slots
  <2> QED
    BY <1>9, <2>1, RingConstants DEF ReadCall, ring, MutexHeld, BytesLeft, CheckedIsCurrent,
       NoMissedWakeup, DrainedAtEOF, HasData, availableLocked, closed, Procs, TypeOK
<1>10. ASSUME NEW g \in Readers, NEW n \in 1..MaxRead, ReadTake(g, n) PROVE WakeInv'
  BY <1>10, ReadTakeWake
<1>11. ASSUME NEW g \in Readers, ReadCheck(g) PROVE WakeInv'
  <2>1. TypeOK'
    BY <1>11, RingConstants DEF ReadCheck, Unlock, TypeOK, ring, Slots
  <2>2. g \in Procs /\ lock = g /\ g \notin Writers
    BY <1>11, RingConstants DEF ReadCheck, MutexHeld, Procs
  <2>3. MutexHeld' /\ CheckedIsCurrent' /\ NoMissedWakeup'
    BY <1>11, <2>2 DEF ReadCheck, Unlock, ring, MutexHeld, CheckedIsCurrent,
       NoMissedWakeup, HasData, availableLocked, closed, Procs, TypeOK
  <2>4. BytesLeft'
    BY <1>11, <2>2 DEF ReadCheck, Unlock, BytesLeft, TypeOK, Procs
  <2>5. DrainedAtEOF'
    BY <1>11, <2>2 DEF ReadCheck, Unlock, DrainedAtEOF, HasData, closed, ring, MutexHeld,
       Procs, TypeOK
  <2> QED
    BY <2>1, <2>3, <2>4, <2>5
<1>12. ASSUME NEW g \in Readers, ReadWait(g) PROVE WakeInv'
  <2>1. TypeOK'
    BY <1>12, RingConstants DEF ReadWait, Unlock, TypeOK, ring, Slots
  <2>2. g \in Procs /\ lock = g /\ closing # "closed" /\ g \notin Writers /\ ~HasData
    BY <1>12, RingConstants DEF ReadWait, MutexHeld, CheckedIsCurrent, Procs
  <2> QED
    BY <1>12, <2>1, <2>2 DEF ReadWait, Unlock, ring, MutexHeld, BytesLeft, CheckedIsCurrent,
       NoMissedWakeup, DrainedAtEOF, HasData, availableLocked, closed, Procs, TypeOK
<1>13. ASSUME UNCHANGED vars PROVE WakeInv'
  BY <1>13 DEF vars, ring, TypeOK, Slots, MutexHeld, BytesLeft, CheckedIsCurrent,
     NoMissedWakeup, DrainedAtEOF, HasData, availableLocked, closed
<1> QED
  BY <1>1, <1>2, <1>3, <1>4, <1>5, <1>6, <1>7, <1>8, <1>9, <1>10, <1>11, <1>12, <1>13
     DEF Next, WriteStep, ReadStep

\* For any number of goroutines and any capacity: nobody waits for what has already
\* happened.
THEOREM WakeupsKept == Spec => [](TypeOK /\ NoMissedWakeup)
<1>1. WakeInv => TypeOK /\ NoMissedWakeup
  BY DEF WakeInv
<1> QED
  BY <1>1, WakeInit, WakeStep, PTL DEF Spec

-----------------------------------------------------------------------------
(* What is stored and handed out.                                          *)

\* What was handed out is the beginning of what was stored.
HandedOutInOrder == \A i \in 1..Len(out) : out[i] = inp[i]

ContentInv == WakeInv /\ UnreadKept /\ HandedOutInOrder

\* A longer sequence: the old items and behind them the new ones.
LEMMA Concatenation ==
  ASSUME NEW s \in Seq(Bytes \cup {None}), NEW t \in Seq(Bytes \cup {None}), NEW u, u = s \o t
  PROVE  /\ Len(u) = Len(s) + Len(t)
         /\ \A i \in 1..Len(s) : u[i] = s[i]
         /\ \A i \in 1..Len(t) : u[Len(s) + i] = t[i]
<1> DEFINE S == Bytes \cup {None}
<1>1. s \in Seq(S) /\ t \in Seq(S)
  OBVIOUS
<1> HIDE DEF S
<1>2. Len(s) \in Nat /\ Len(t) \in Nat
  BY <1>1
<1>3. Len(u) = Len(s) + Len(t)
  BY <1>1
<1>4. \A i \in 1..Len(s) : u[i] = s[i]
  BY <1>1, <1>2
<1>5. ASSUME NEW i \in 1..Len(t) PROVE u[Len(s) + i] = t[i]
  BY <1>1, <1>2
<1> QED
  BY <1>3, <1>4, <1>5

LEMMA ContentInit == Init => ContentInv
<1> SUFFICES ASSUME Init PROVE ContentInv
  OBVIOUS
<1>1. WakeInv
  BY WakeInit
<1>2. inp = <<>> /\ out = <<>> /\ ~HasData
  BY DEF Init, HasData
<1>3. Unread = 0 /\ Len(inp) = 0 /\ Len(out) = 0
  BY <1>2 DEF Unread
<1> QED
  BY <1>1, <1>3 DEF ContentInv, UnreadKept, HandedOutInOrder

\* A step that stores k more bytes of g behind all that was stored.
Stores(g, k) == /\ Len(inp') = Len(inp) + k
                /\ \A i \in 1..k : inp'[Len(inp) + i] = <<g, sent[g] + i>>
                /\ sent' = [sent EXCEPT ![g] = @ + k]

LEMMA WriteCopyContent ==
  ASSUME ContentInv, NEW g \in Writers, WriteCopy(g)
  PROVE  /\ UnreadKept' /\ HandedOutInOrder'
         /\ Len(inp) < Len(inp') /\ \A i \in 1..Len(inp) : inp'[i] = inp[i]
         /\ \E k \in Nat \ {0} : Stores(g, k)
<1> DEFINE k == Least(left[g], availableLocked)
<1>1. k \in 1..availableLocked /\ k \in Nat /\ TypeOK /\ WakeInv
  <2>1. TypeOK /\ WakeInv
    BY DEF ContentInv, WakeInv
  <2>2. k \in 1..availableLocked
    BY <2>1, PieceSize DEF WriteCopy
  <2>3. availableLocked \in 0..Size
    BY <2>1, Positions
  <2> QED
    BY <2>1, <2>2, <2>3, RingConstants
<1>2. Unread \in Nat /\ Unread + k <= Size /\ Unread' = Unread + k
  BY <1>1, PositionsAfterCopy, Positions, RingConstants DEF WriteCopy
<1>3. Len(inp) \in Nat /\ Len(out) \in Nat /\ Len(inp) = Len(out) + Unread
  BY <1>1 DEF ContentInv, UnreadKept, TypeOK
<1>4. /\ inp' = inp \o Piece(g, k) /\ out' = out /\ r' = r
      /\ buf' = [i \in Slots |-> Copied(Piece(g, k), i)]
      /\ sent' = [sent EXCEPT ![g] = @ + k]
  BY DEF WriteCopy
<1> HIDE DEF k
<1>5. Piece(g, k) \in Seq(Bytes) /\ Len(Piece(g, k)) = k
  BY <1>1, PieceTyped
<1>6. /\ Len(inp') = Len(inp) + k
      /\ \A i \in 1..Len(inp) : inp'[i] = inp[i]
      /\ \A i \in 1..k : inp'[Len(inp) + i] = <<g, sent[g] + i>>
  <2> DEFINE p == Piece(g, k)
  <2>1. \A i \in 1..k : p[i] = <<g, sent[g] + i>>
    BY DEF Piece
  <2>2. inp \in Seq(Bytes) /\ p \in Seq(Bytes)
    BY <1>1, <1>5 DEF TypeOK
  <2>3. inp' = inp \o p /\ Len(p) = k
    BY <1>4, <1>5
  <2> HIDE DEF p
  <2>4. inp \in Seq(Bytes \cup {None}) /\ p \in Seq(Bytes \cup {None})
    BY <2>2
  <2>5. /\ Len(inp') = Len(inp) + Len(p)
        /\ \A i \in 1..Len(inp) : inp'[i] = inp[i]
        /\ \A i \in 1..Len(p) : inp'[Len(inp) + i] = p[i]
    BY <2>3, <2>4, Concatenation, ZenonT(90)
  <2> QED
    BY <2>1, <2>3, <2>5
<1>7. ASSUME NEW i \in 1..Unread'
      PROVE  buf'[Wrap(r' + i - 1)] = inp'[Len(out') + i]
  <2> DEFINE slot == Wrap(r + i - 1)
  <2>1. i \in 1..Size /\ r' = r
    BY <1>1, <1>2, <1>4, <1>7, RingConstants
  <2>2. /\ slot \in Slots
        /\ i <= Unread => Distance(slot) = Size - Unread + i - 1
        /\ i > Unread => Distance(slot) = i - 1 - Unread
    BY <1>1, <2>1, SlotFromR
  <2>3. buf'[slot] = Copied(Piece(g, k), slot)
    BY <1>4, <2>2
  <2>4. buf'[slot] = IF Distance(slot) < k THEN <<g, sent[g] + Distance(slot) + 1>> ELSE buf[slot]
    BY <1>1, <2>2, <2>3, CopiedByte
  <2>5. CASE i <= Unread
    <3>1. ~(Distance(slot) < k)
      BY <1>1, <1>2, <2>1, <2>2, <2>5, RingConstants
    <3>2. buf'[slot] = buf[slot] /\ i \in 1..Unread
      BY <2>1, <2>4, <2>5, <3>1
    <3>3. buf[slot] = inp[Len(out) + i]
      BY <3>2 DEF ContentInv, UnreadKept
    <3>4. inp'[Len(out) + i] = inp[Len(out) + i]
      BY <1>2, <1>3, <1>6, <3>2
    <3> QED
      BY <1>4, <2>1, <3>2, <3>3, <3>4
  <2>6. CASE i > Unread
    <3>1. i - Unread \in 1..k /\ Distance(slot) < k
      BY <1>1, <1>2, <1>7, <2>2, <2>6
    <3>2. sent[g] + Distance(slot) + 1 = sent[g] + (i - Unread)
      BY <1>1, <1>2, <2>1, <2>2, <2>6 DEF TypeOK
    <3>3. inp'[Len(inp) + (i - Unread)] = <<g, sent[g] + (i - Unread)>>
      BY <1>6, <3>1
    <3>4. Len(inp) + (i - Unread) = Len(out) + i
      BY <1>2, <1>3, <2>1
    <3> QED
      BY <1>4, <2>1, <2>4, <3>1, <3>2, <3>3, <3>4
  <2> QED
    BY <1>2, <2>1, <2>5, <2>6
<1>8. UnreadKept'
  <2>1. Len(inp') = Len(out') + Unread'
    BY <1>1, <1>2, <1>3, <1>4, <1>6
  <2> QED
    BY <1>7, <2>1 DEF UnreadKept
<1>9. HandedOutInOrder'
  <2>1. \A i \in 1..Len(out) : i \in 1..Len(inp)
    BY <1>2, <1>3
  <2> QED
    BY <1>4, <1>6, <2>1 DEF HandedOutInOrder, ContentInv
<1>10. k \in Nat \ {0}
  BY <1>1
<1>11. Len(inp) < Len(inp')
  BY <1>3, <1>6, <1>10
<1>12. Stores(g, k)
  BY <1>4, <1>6 DEF Stores
<1> QED
  BY <1>6, <1>8, <1>9, <1>10, <1>11, <1>12

LEMMA ReadTakeContent ==
  ASSUME ContentInv, NEW g \in Readers, NEW n \in 1..MaxRead, ReadTake(g, n)
  PROVE  /\ UnreadKept' /\ HandedOutInOrder'
         /\ Len(out) < Len(out') /\ \A i \in 1..Len(out) : out'[i] = out[i]
         /\ Len(out') <= Len(inp') /\ inp' = inp
<1> DEFINE k == Least(n, Buffered)
           taken == [i \in 1..k |-> buf[Wrap(r + i - 1)]]
<1>1. k \in 1..Buffered /\ k \in Nat /\ TypeOK /\ HasData
  BY TakeSize DEF ReadTake, ContentInv, WakeInv
<1>2. Unread = Buffered /\ Buffered \in 1..Size
  BY <1>1, Positions
<1>3. Unread' = Unread - k
  BY <1>1, PositionsAfterTake DEF ReadTake
<1>4. inp' = inp /\ buf' = buf /\ r' = Wrap(r + k) /\ out' = out \o taken
  BY DEF ReadTake
<1> HIDE DEF k
<1>5. Unread \in Nat /\ Unread <= Size /\ k <= Unread /\ Unread' = Unread - k
  BY <1>1, <1>2, <1>3, RingConstants
<1>6. Len(inp) \in Nat /\ Len(out) \in Nat /\ Len(inp) = Len(out) + Unread
  BY <1>1 DEF ContentInv, UnreadKept, TypeOK
<1>7. \A i \in 1..k : taken[i] = inp[Len(out) + i]
  BY <1>1, <1>5 DEF ContentInv, UnreadKept
<1>8. /\ Len(out') = Len(out) + k
      /\ \A i \in 1..Len(out) : out'[i] = out[i]
      /\ \A i \in 1..k : out'[Len(out) + i] = taken[i]
  <2>1. \A i \in 1..k : taken[i] \in Bytes
    <3>1. \A i \in 1..k : Len(out) + i \in 1..Len(inp)
      BY <1>1, <1>5, <1>6
    <3>2. inp \in Seq(Bytes)
      BY <1>1 DEF TypeOK
    <3>3. \A i \in 1..k : inp[Len(out) + i] \in Bytes
      BY <3>1, <3>2
    <3> QED
      BY <1>7, <3>3
  <2>2. taken \in Seq(Bytes \cup {None}) /\ Len(taken) = k
    BY <1>1, <2>1
  <2>3. out \in Seq(Bytes \cup {None})
    BY <1>1 DEF TypeOK
  <2> HIDE DEF taken
  <2>4. /\ Len(out') = Len(out) + Len(taken)
        /\ \A i \in 1..Len(out) : out'[i] = out[i]
        /\ \A i \in 1..Len(taken) : out'[Len(out) + i] = taken[i]
    BY <1>4, <2>2, <2>3, Concatenation, ZenonT(90)
  <2> QED
    BY <2>2, <2>4
<1>9. ASSUME NEW i \in 1..Unread'
      PROVE  buf'[Wrap(r' + i - 1)] = inp'[Len(out') + i]
  <2>1. k + i \in 1..Unread /\ i \in Nat
    BY <1>1, <1>5, <1>9
  <2>2. Wrap(r' + i - 1) = Wrap(r + (k + i) - 1)
    <3>1. r \in 0..Size-1 /\ k \in 1..Size /\ k + i \in 1..Size
      BY <1>1, <1>2, <2>1, RingConstants DEF TypeOK, Slots
    <3> QED
      BY <1>4, <2>1, <3>1, RingConstants DEF Wrap
  <2>3. buf[Wrap(r + (k + i) - 1)] = inp[Len(out) + (k + i)]
    BY <2>1 DEF ContentInv, UnreadKept
  <2>4. Len(out') + i = Len(out) + (k + i)
    BY <1>1, <1>6, <1>8, <2>1
  <2> QED
    BY <1>4, <2>2, <2>3, <2>4
<1>10. UnreadKept'
  BY <1>1, <1>5, <1>6, <1>4, <1>8, <1>9 DEF UnreadKept
<1>11. HandedOutInOrder'
  <2>1. ASSUME NEW i \in 1..Len(out') PROVE out'[i] = inp[i]
    <3>1. CASE i <= Len(out)
      BY <1>6, <1>8, <2>1, <3>1 DEF ContentInv, HandedOutInOrder
    <3>2. CASE i > Len(out)
      <4>1. i - Len(out) \in 1..k /\ Len(out) + (i - Len(out)) = i
        BY <1>1, <1>6, <1>8, <2>1, <3>2
      <4> QED
        BY <1>7, <1>8, <4>1
    <3> QED
      BY <1>6, <1>8, <3>1, <3>2
  <2> QED
    BY <1>4, <2>1 DEF HandedOutInOrder
<1>12. Len(out) < Len(out') /\ Len(out') <= Len(inp')
  BY <1>1, <1>4, <1>5, <1>6, <1>8
<1>13. \A i \in 1..Len(out) : out'[i] = out[i]
  BY <1>8
<1> QED
  BY <1>4, <1>10, <1>11, <1>12, <1>13

LEMMA ContentStep == ContentInv /\ [Next]_vars => ContentInv'
<1> SUFFICES ASSUME ContentInv, [Next]_vars PROVE ContentInv'
  OBVIOUS
<1>1. WakeInv'
  BY WakeStep DEF ContentInv
<1>2. ASSUME NEW g \in Writers, WriteCopy(g) PROVE ContentInv'
  BY <1>1, <1>2, WriteCopyContent DEF ContentInv
<1>3. ASSUME NEW g \in Readers, NEW n \in 1..MaxRead, ReadTake(g, n) PROVE ContentInv'
  BY <1>1, <1>3, ReadTakeContent DEF ContentInv
<1>4. ASSUME UNCHANGED <<ring, inp, out>> PROVE ContentInv'
  BY <1>1, <1>4 DEF ContentInv, UnreadKept, HandedOutInOrder, Unread, HasData, Buffered, Wrap, ring
<1> QED
  BY <1>2, <1>3, <1>4 DEF Next, Close, CloseBroadcast, Lock, WriteCall, WriteRefused, WriteStep,
     WriteCheck, WriteWait, ReadCall, ReadStep, ReadCheck, ReadWait, vars

\* Nothing unread is ever overwritten or lost, wherever the positions wrap.
THEOREM NothingDiscarded == Spec => []UnreadKept
<1>1. ContentInv => UnreadKept
  BY DEF ContentInv
<1> QED
  BY <1>1, ContentInit, ContentStep, PTL DEF Spec

\* A reader is told EOF only when it and the others were given every byte that will
\* ever be stored.
THEOREM EOFOnlyAtTheEnd == Spec => []EOFIsFinal
<1>1. ASSUME ContentInv PROVE EOFIsFinal
  <2>1. ASSUME NEW g \in Readers, pc[g] = "eof" PROVE closed /\ out = inp
    <3>1. closed /\ ~HasData
      BY <1>1, <2>1 DEF ContentInv, WakeInv, DrainedAtEOF
    <3>2. Len(inp) = Len(out)
      BY <1>1, <3>1, Positions DEF ContentInv, WakeInv, UnreadKept, TypeOK
    <3>3. out \in Seq(Bytes \cup {None}) /\ inp \in Seq(Bytes \cup {None})
      BY <1>1 DEF ContentInv, WakeInv, TypeOK
    <3>4. \A i \in 1..Len(out) : out[i] = inp[i]
      BY <1>1 DEF ContentInv, HandedOutInOrder
    <3> QED
      BY <3>1, <3>2, <3>3, <3>4
  <2> QED
    BY <2>1 DEF EOFIsFinal
<1> QED
  BY <1>1, ContentInit, ContentStep, PTL DEF Spec

-----------------------------------------------------------------------------
(* The bytes of each goroutine.                                            *)

\* A piece goes behind what its goroutine stored before, and leaves no gap.
LEMMA WriteCopyPieces ==
  ASSUME ContentInv, PiecesInOrder, NEW g \in Writers, WriteCopy(g)
  PROVE  PiecesInOrder'
<1> PICK k \in Nat \ {0} : Stores(g, k)
  BY WriteCopyContent
<1>1. /\ Len(inp') = Len(inp) + k
      /\ \A i \in 1..k : inp'[Len(inp) + i] = <<g, sent[g] + i>>
      /\ sent' = [sent EXCEPT ![g] = @ + k]
  BY DEF Stores
<1>2. /\ inp \in Seq(Bytes) /\ Len(inp) \in Nat
      /\ sent \in [Writers -> Nat] /\ sent[g] \in Nat
  BY DEF ContentInv, WakeInv, TypeOK
<1>3. \A i \in 1..Len(inp) : inp[i][1] \in Writers /\ inp[i][2] \in Nat /\ inp'[i] = inp[i]
  <2>1. \A i \in 1..Len(inp) : inp[i] \in Bytes
    BY <1>2
  <2>2. \A b \in Bytes : b[1] \in Writers /\ b[2] \in Nat
    BY DEF Bytes
  <2> QED
    BY <2>1, <2>2, WriteCopyContent
<1>4. sent'[g] = sent[g] + k /\ \A x \in Writers \ {g} : sent'[x] = sent[x]
  BY <1>1, <1>2
\* Where a byte of the longer sequence is from.
<1>5. ASSUME NEW i \in 1..Len(inp')
      PROVE  \/ i \in 1..Len(inp)
             \/ /\ i - Len(inp) \in 1..k
                /\ inp'[i][1] = g /\ inp'[i][2] = sent[g] + (i - Len(inp))
  <2>1. CASE i <= Len(inp)
    BY <1>2, <2>1
  <2>2. CASE i > Len(inp)
    <3>1. i - Len(inp) \in 1..k /\ Len(inp) + (i - Len(inp)) = i
      BY <1>1, <1>2, <2>2
    <3>2. inp'[i] = <<g, sent[g] + (i - Len(inp))>>
      BY <1>1, <3>1
    <3> QED
      BY <3>1, <3>2
  <2> QED
    BY <1>1, <1>2, <2>1, <2>2
<1>6. ASSUME NEW i \in 1..Len(inp') PROVE inp'[i][2] <= sent'[inp'[i][1]]
  <2>1. CASE i \in 1..Len(inp)
    <3>1. inp[i][2] <= sent[inp[i][1]] /\ inp[i][1] \in Writers /\ inp[i][2] \in Nat
      BY <1>3, <2>1 DEF PiecesInOrder
    <3>2. sent[inp[i][1]] \in Nat /\ sent[inp[i][1]] <= sent'[inp[i][1]]
      BY <1>1, <1>2, <1>4, <3>1
    <3>3. sent'[inp[i][1]] \in Nat
      BY <1>1, <1>2, <1>4, <3>1
    <3> QED
      BY <1>3, <2>1, <3>1, <3>2, <3>3
  <2>2. CASE /\ i - Len(inp) \in 1..k
             /\ inp'[i][1] = g /\ inp'[i][2] = sent[g] + (i - Len(inp))
    BY <1>1, <1>2, <1>4, <2>2
  <2> QED
    BY <1>5, <2>1, <2>2
<1>7. ASSUME NEW i \in 1..Len(inp'), NEW j \in 1..Len(inp'), i < j,
             inp'[i][1] = inp'[j][1]
      PROVE  inp'[i][2] < inp'[j][2]
  <2>1. CASE j \in 1..Len(inp)
    <3>1. i \in 1..Len(inp)
      BY <1>2, <1>7, <2>1
    <3> QED
      BY <1>3, <1>7, <2>1, <3>1 DEF PiecesInOrder
  <2>2. CASE /\ j - Len(inp) \in 1..k
             /\ inp'[j][1] = g /\ inp'[j][2] = sent[g] + (j - Len(inp))
    <3>1. CASE i \in 1..Len(inp)
      <4>1. inp[i][1] = g /\ inp[i][2] <= sent[inp[i][1]] /\ inp[i][2] \in Nat
        BY <1>3, <1>7, <2>2, <3>1 DEF PiecesInOrder
      <4> QED
        BY <1>1, <1>2, <1>3, <2>2, <3>1, <4>1
    <3>2. CASE i - Len(inp) \in 1..k /\ inp'[i][2] = sent[g] + (i - Len(inp))
      BY <1>1, <1>2, <1>7, <2>2, <3>2
    <3> QED
      BY <1>5, <3>1, <3>2
  <2> QED
    BY <1>5, <2>1, <2>2
<1>8. ASSUME NEW x \in Writers, NEW n \in 1..sent'[x]
      PROVE  \E i \in 1..Len(inp') : inp'[i] = <<x, n>>
  <2>1. CASE n \in 1..sent[x]
    <3>1. PICK i \in 1..Len(inp) : inp[i] = <<x, n>>
      BY <2>1 DEF PiecesInOrder
    <3>2. i \in 1..Len(inp')
      BY <1>1, <1>2
    <3>3. inp'[i] = <<x, n>>
      BY <1>3, <3>1
    <3> QED
      BY <3>2, <3>3
  <2>2. CASE n \notin 1..sent[x]
    <3>1. x = g
      BY <1>4, <1>8, <2>2
    <3>2. n - sent[g] \in 1..k /\ sent[g] + (n - sent[g]) = n
      BY <1>1, <1>2, <1>4, <1>8, <2>2, <3>1
    <3>3. inp'[Len(inp) + (n - sent[g])] = <<g, n>>
      BY <1>1, <3>2
    <3>4. Len(inp) + (n - sent[g]) \in 1..Len(inp')
      BY <1>1, <1>2, <3>2
    <3> QED
      BY <3>1, <3>3, <3>4
  <2> QED
    BY <2>1, <2>2
<1> QED
  BY <1>6, <1>7, <1>8 DEF PiecesInOrder

\* The bytes of one Write come out as they were given, and the ring buffer is sound: its
\* positions, its content, who waits and who was told EOF.
THEOREM RingCorrect == Spec => []RingInv
<1> DEFINE Inv == ContentInv /\ PiecesInOrder
<1>1. Init => Inv
  <2> SUFFICES ASSUME Init PROVE PiecesInOrder
    BY ContentInit
  <2>1. Len(inp) = 0 /\ \A g \in Writers : sent[g] = 0
    BY DEF Init
  <2> QED
    BY <2>1 DEF PiecesInOrder
<1>2. Inv /\ [Next]_vars => Inv'
  <2> SUFFICES ASSUME Inv, [Next]_vars PROVE PiecesInOrder'
    BY ContentStep
  <2>1. ASSUME NEW g \in Writers, WriteCopy(g) PROVE PiecesInOrder'
    BY <2>1, WriteCopyPieces
  <2>2. ASSUME UNCHANGED <<inp, sent>> PROVE PiecesInOrder'
    BY <2>2 DEF PiecesInOrder
  <2> QED
    BY <2>1, <2>2 DEF Next, Close, CloseBroadcast, Lock, WriteCall, WriteRefused, WriteStep,
       WriteCheck, WriteWait, ReadCall, ReadStep, ReadTake, ReadCheck, ReadWait, vars
<1>3. Inv /\ TypeOK /\ NoMissedWakeup /\ UnreadKept /\ EOFIsFinal => RingInv
  BY DEF RingInv
<1> QED
  BY <1>1, <1>2, <1>3, WakeupsKept, NothingDiscarded, EOFOnlyAtTheEnd, PTL DEF Spec

-----------------------------------------------------------------------------
(* The relay.                                                              *)

LEMMA PrefixByElement ==
  ASSUME NEW S, NEW s \in Seq(S), NEW t \in Seq(S),
         Len(s) <= Len(t), \A i \in 1..Len(s) : s[i] = t[i]
  PROVE  Relay!IsPrefix(s, t)
<1>1. SubSeq(s, 1, Len(s)) = SubSeq(t, 1, Len(s))
  OBVIOUS
<1> QED
  BY <1>1 DEF Relay!IsPrefix

\* The ring buffer implements the relay: what comes out is what went in, in that
\* order, each byte once.
THEOREM RingRelays == Spec => BytesInOrder
<1>1. Init => Relay!RelayInit
  BY DEF Init, Relay!RelayInit
<1>2. ContentInv /\ ContentInv' /\ [Next]_vars => [Relay!Accept \/ Relay!Deliver]_(Relay!relayVars)
  <2> SUFFICES ASSUME ContentInv, ContentInv', [Next]_vars
               PROVE  [Relay!Accept \/ Relay!Deliver]_(Relay!relayVars)
    OBVIOUS
  <2> DEFINE S == Bytes \cup {None}
  <2>1. inp \in Seq(S) /\ out \in Seq(S)
    BY DEF ContentInv, WakeInv, TypeOK
  <2>2. inp' \in Seq(S) /\ out' \in Seq(S)
    BY DEF ContentInv, WakeInv, TypeOK
  <2>3. ASSUME NEW g \in Writers, WriteCopy(g) PROVE Relay!Accept
    <3>1. Len(inp) < Len(inp') /\ \A i \in 1..Len(inp) : inp'[i] = inp[i]
      BY <2>3, WriteCopyContent
    <3>2. Len(inp) \in Nat /\ Len(inp') \in Nat
      BY <2>1, <2>2
    <3>3. Relay!IsPrefix(inp, inp')
      BY <2>1, <2>2, <3>1, <3>2, PrefixByElement
    <3>4. inp # inp' /\ UNCHANGED out
      BY <2>3, <3>1, <3>2 DEF WriteCopy
    <3> QED
      BY <3>3, <3>4 DEF Relay!Accept, Relay!IsStrictPrefix
  <2>4. ASSUME NEW g \in Readers, NEW n \in 1..MaxRead, ReadTake(g, n) PROVE Relay!Deliver
    <3>1. Len(out) < Len(out') /\ \A i \in 1..Len(out) : out'[i] = out[i]
      BY <2>4, ReadTakeContent
    <3>2. Len(out) \in Nat /\ Len(out') \in Nat
      BY <2>1, <2>2
    <3>3. Relay!IsPrefix(out, out')
      BY <2>1, <2>2, <3>1, <3>2, PrefixByElement
    <3>4. out # out' /\ UNCHANGED inp
      BY <2>4, <3>1, <3>2, ReadTakeContent
    <3>5. Len(out') <= Len(inp') /\ \A i \in 1..Len(out') : out'[i] = inp'[i]
      BY <2>4, ReadTakeContent DEF ContentInv, HandedOutInOrder
    <3>6. Relay!IsPrefix(out', inp')
      BY <2>1, <2>2, <3>5, PrefixByElement
    <3> QED
      BY <3>3, <3>4, <3>6 DEF Relay!Deliver, Relay!IsStrictPrefix
  <2>5. ASSUME UNCHANGED <<inp, out>> PROVE UNCHANGED Relay!relayVars
    BY <2>5 DEF Relay!relayVars
  <2> QED
    BY <2>3, <2>4, <2>5 DEF Next, Close, CloseBroadcast, Lock, WriteCall, WriteRefused, WriteStep,
       WriteCheck, WriteWait, ReadCall, ReadStep, ReadCheck, ReadWait, vars
<1> QED
  BY <1>1, <1>2, ContentInit, ContentStep, PTL DEF Spec, BytesInOrder, Relay!RelaySpec
=============================================================================

-------------------------- MODULE RingBufferProps ---------------------------
(***************************************************************************)
(* Correctness of the ring buffer specified in RingBuffer.                 *)
(***************************************************************************)
EXTENDS RingBuffer

Bytes == Writers \X (Nat \ {0})

\* The variables have their types; the positions stay inside of the buffer, and it
\* counts as full only where the two meet (RingBuffer's fields).
TypeOK ==
  /\ r \in Slots /\ w \in Slots /\ isFull \in BOOLEAN /\ (isFull => r = w)
  /\ buf \in [Slots -> Bytes \cup {None}]
  /\ closing \in {"open", "flagged", "closed"} /\ lock \in Procs \cup {None}
  /\ pc \in [Procs -> {"idle", "lock", "check", "checked", "wait", "eof"}]
  /\ left \in [Writers -> Nat] /\ sent \in [Writers -> Nat]
  /\ inp \in Seq(Bytes) /\ out \in Seq(Bytes \cup {None})

\* The bytes between the two positions are those stored and not yet handed out, in
\* their order: Write "never discards unread data" (ring_buffer.go:18), wherever the
\* positions wrap.
Unread == IF HasData THEN Buffered ELSE 0
UnreadKept ==
  /\ Len(inp) = Len(out) + Unread
  /\ \A i \in 1..Unread : buf[Wrap(r + i - 1)] = inp[Len(out) + i]

\* What comes out is what went in, in that order, each byte once, whichever readers
\* and writers took part.
Relay == INSTANCE FifoRelay
BytesInOrder == Relay!RelaySpec

\* The bytes of one Write, stored piece by piece among those of other goroutines, are
\* the bytes it was given, in their order, none missed where it waited (Write, p[k:]).
PiecesInOrder ==
  /\ \A i \in 1..Len(inp) : inp[i][2] <= sent[inp[i][1]]
  /\ \A i, j \in 1..Len(inp) : i < j /\ inp[i][1] = inp[j][1] => inp[i][2] < inp[j][2]
  /\ \A g \in Writers : \A n \in 1..sent[g] : \E i \in 1..Len(inp) : inp[i] = <<g, n>>

\* Nobody waits for what has already happened: who waits to read has nothing to
\* read, who waits to write has no room, and a Close that they do not know of has
\* its Broadcast still to come (the flag is looked at under the mutex and the
\* Broadcast needs the mutex).
NoMissedWakeup ==
  \A g \in Procs : pc[g] = "wait" =>
    /\ closing # "closed"
    /\ g \in Readers => ~HasData
    /\ g \in Writers => availableLocked = 0

\* EOF is final: when a reader was told EOF everything stored was handed out, and a
\* Write that had passed its check of the flag stores nothing more.
EOFIsFinal == (\E g \in Readers : pc[g] = "eof") => closed /\ out = inp

\* The ring buffer is sound: its positions, its content, who waits, and who was told EOF.
RingInv == TypeOK /\ UnreadKept /\ PiecesInOrder /\ NoMissedWakeup /\ EOFIsFinal

\* Close wakes all: every call under way returns.
CloseWakesAll ==
  \A g \in Procs : (closed /\ pc[g] # "idle") ~> pc[g] \in {"idle", "eof"}

\* While readers read, a Write that was held up by a full buffer gets on, and what
\* was stored is handed out.
BytesFlow == \A n \in 1..MaxSent : Len(inp) = n ~> Len(out) >= n
WritesReturn == \A g \in Writers : (pc[g] # "idle") ~> (pc[g] = "idle")

\* Nobody is left waiting on the condition variable: after Close everybody, and before it
\* the writers, as long as readers read.
AllGetOn == CloseWakesAll /\ BytesFlow /\ WritesReturn
=============================================================================

----------------------------- MODULE RingBuffer -----------------------------
(***************************************************************************)
(* internal/rbuffer: the bounded byte buffer between a command of the v1   *)
(* runner and the loop that sends its output.  Goroutines share it under a *)
(* mutex and one condition variable; the closed flag alone is read and set *)
(* outside of the mutex.  What a goroutine does with the mutex held is one *)
(* step up to the next look at that flag.                                  *)
(*                                                                         *)
(* A byte is the pair of the goroutine that writes it and of its place in  *)
(* all that goroutine writes.  inp and out are history: the bytes in the   *)
(* order in which they were stored and in which they were handed out.      *)
(***************************************************************************)
EXTENDS Integers, Sequences

CONSTANTS Writers,    \* goroutines that call Write
          Readers,    \* goroutines that call Read
          Size,       \* capacity of the buffer
          MaxWrite,   \* bytes given to one Write, at most
          MaxRead,    \* bytes asked of one Read, at most
          MaxSent,    \* bytes a goroutine writes in all (bound)
          None

ASSUME RingConstants ==
  /\ Size \in Nat \ {0} /\ MaxWrite \in Nat /\ MaxRead \in Nat /\ MaxSent \in Nat
  /\ Writers \cap Readers = {} /\ None \notin Writers \cup Readers

VARIABLES r, w, isFull,  \* RingBuffer.r, w and isFull
          buf,           \* RingBuffer.buf; None where nothing was ever stored
          closing,       \* Close: "open", "flagged" (closed is set), "closed"
          lock,          \* who holds mu
          pc,            \* where a goroutine is in Read or Write
          left,          \* bytes of its Write a goroutine has still to store
          sent,          \* bytes of a goroutine that were stored
          inp, out

ring == <<r, w, isFull, buf>>
vars == <<ring, closing, lock, pc, left, sent, inp, out>>

Procs == Writers \cup Readers
Slots == 0 .. Size - 1
closed == closing # "open"

HasData == w # r \/ isFull
Buffered == IF w > r THEN w - r ELSE Size - r + w

availableLocked ==
  IF isFull THEN 0 ELSE IF w >= r THEN Size - (w - r) ELSE r - w

Wrap(i) == IF i >= Size THEN i - Size ELSE i
Least(a, b) == IF a < b THEN a ELSE b

Init == /\ r = 0 /\ w = 0 /\ isFull = FALSE /\ buf = [i \in Slots |-> None]
        /\ closing = "open" /\ lock = None
        /\ pc = [g \in Procs |-> "idle"]
        /\ left = [g \in Writers |-> 0] /\ sent = [g \in Writers |-> 0]
        /\ inp = <<>> /\ out = <<>>

-----------------------------------------------------------------------------
(* The mutex and the condition variable.                                   *)

\* mu.Lock, and the way back out of cond.Wait
Lock(g) == /\ pc[g] = "lock" /\ lock = None
           /\ lock' = g /\ pc' = [pc EXCEPT ![g] = "check"]
           /\ UNCHANGED <<ring, closing, left, sent, inp, out>>

\* Mutant: no Broadcast.
WakesNobody(g, s) == pc' = [pc EXCEPT ![g] = s]

\* cond.Broadcast by g, which goes on to state s
Wakes(g, s) == pc' = [x \in Procs |-> IF x = g THEN s
                                      ELSE IF pc[x] = "wait" THEN "lock" ELSE pc[x]]

\* g goes on without the mutex: it returns, or waits for a Broadcast
Unlock(g, s) == lock' = None /\ pc' = [pc EXCEPT ![g] = s]

Close == /\ closing = "open" /\ closing' = "flagged"
         /\ UNCHANGED <<ring, lock, pc, left, sent, inp, out>>

\* Mutant: Broadcast without the mutex.
CloseBroadcastUnlocked ==
  /\ closing = "flagged"
  /\ closing' = "closed"
  /\ pc' = [g \in Procs |-> IF pc[g] = "wait" THEN "lock" ELSE pc[g]]
  /\ UNCHANGED <<ring, lock, left, sent, inp, out>>

CloseBroadcast == /\ closing = "flagged" /\ lock = None
                  /\ closing' = "closed"
                  /\ pc' = [g \in Procs |-> IF pc[g] = "wait" THEN "lock" ELSE pc[g]]
                  /\ UNCHANGED <<ring, lock, left, sent, inp, out>>

-----------------------------------------------------------------------------
(* Write                                                                   *)

WriteCall(g, n) == /\ pc[g] = "idle" /\ ~closed /\ sent[g] + n <= MaxSent
                   /\ pc' = [pc EXCEPT ![g] = "lock"]
                   /\ left' = [left EXCEPT ![g] = n]
                   /\ UNCHANGED <<ring, closing, lock, sent, inp, out>>

WriteRefused(g) == pc[g] = "idle" /\ closed /\ UNCHANGED vars

WriteCheck(g) ==
  /\ pc[g] = "check"
  /\ IF closed
     THEN Unlock(g, "idle") /\ left' = [left EXCEPT ![g] = 0]
     ELSE pc' = [pc EXCEPT ![g] = "checked"] /\ UNCHANGED <<lock, left>>
  /\ UNCHANGED <<ring, closing, sent, inp, out>>

WriteWait(g) == /\ pc[g] = "checked" /\ availableLocked = 0
                /\ Unlock(g, "wait")
                /\ UNCHANGED <<ring, closing, left, sent, inp, out>>

\* The bytes of g that are stored by a step of k bytes.
Piece(g, k) == [i \in 1..k |-> <<g, sent[g] + i>>]

\* What slot i holds after the copy of a piece to w and, past the end, to 0.
Distance(i) == IF i >= w THEN i - w ELSE i - w + Size
\* Mutant: what goes to the front of buf is taken from the front of p.
CopiedFront(piece, i) == IF Distance(i) >= Len(piece) THEN buf[i]
                         ELSE IF i >= w THEN piece[i - w + 1] ELSE piece[i + 1]
Copied(piece, i) == IF Distance(i) < Len(piece) THEN piece[Distance(i) + 1] ELSE buf[i]

WriteCopy(g) ==
  /\ pc[g] = "checked" /\ availableLocked > 0
  /\ LET k == Least(left[g], availableLocked)
     IN  /\ buf' = [i \in Slots |-> Copied(Piece(g, k), i)]
         /\ w' = Wrap(w + k)
         /\ isFull' = (isFull \/ w' = r)
         /\ left' = [left EXCEPT ![g] = @ - k]
         /\ sent' = [sent EXCEPT ![g] = @ + k]
         /\ inp' = inp \o Piece(g, k)
         /\ IF k = left[g] THEN lock' = None /\ Wakes(g, "idle")
                           ELSE UNCHANGED lock /\ Wakes(g, "check")
  /\ UNCHANGED <<r, closing, out>>

-----------------------------------------------------------------------------
(* Read                                                                    *)

ReadCall(g) == /\ pc[g] = "idle" /\ pc' = [pc EXCEPT ![g] = "lock"]
               /\ UNCHANGED <<ring, closing, lock, left, sent, inp, out>>

\* Read and readLocked, into room for n bytes
ReadTake(g, n) ==
  /\ pc[g] = "check" /\ HasData
  /\ LET k == Least(n, Buffered)
     IN  /\ out' = out \o [i \in 1..k |-> buf[Wrap(r + i - 1)]]
         /\ r' = Wrap(r + k)
  /\ isFull' = FALSE
  /\ lock' = None /\ Wakes(g, "idle")
  /\ UNCHANGED <<w, buf, closing, left, sent, inp>>

\* io.EOF, after which no caller reads on
ReadCheck(g) == /\ pc[g] = "check" /\ ~HasData
                /\ IF closed THEN Unlock(g, "eof")
                   ELSE pc' = [pc EXCEPT ![g] = "checked"] /\ UNCHANGED lock
                /\ UNCHANGED <<ring, closing, left, sent, inp, out>>

ReadWait(g) == /\ pc[g] = "checked" /\ Unlock(g, "wait")
               /\ UNCHANGED <<ring, closing, left, sent, inp, out>>

-----------------------------------------------------------------------------
WriteStep(g) == WriteCheck(g) \/ WriteWait(g) \/ WriteCopy(g)
ReadStep(g) == (\E n \in 1..MaxRead : ReadTake(g, n)) \/ ReadCheck(g) \/ ReadWait(g)

Next == \/ Close \/ CloseBroadcast
        \/ \E g \in Procs : Lock(g)
        \/ \E g \in Writers : \/ \E n \in 1..MaxWrite : WriteCall(g, n)
                              \/ WriteRefused(g) \/ WriteStep(g)
        \/ \E g \in Readers : ReadCall(g) \/ ReadStep(g)

Spec == Init /\ [][Next]_vars

\* Goroutines run on, Go's mutex passes over nobody for ever (its starvation mode),
\* and readers are loops that call Read until EOF (readLoop).
Fairness == /\ \A g \in Procs : SF_vars(Lock(g))
            /\ SF_vars(CloseBroadcast)
            /\ \A g \in Writers : WF_vars(WriteStep(g))
            /\ \A g \in Readers : WF_vars(ReadStep(g)) /\ WF_vars(ReadCall(g))

FairSpec == Spec /\ Fairness
=============================================================================

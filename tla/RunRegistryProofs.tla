------------------------- MODULE RunRegistryProofs --------------------------
(***************************************************************************)
(* Proofs about RunRegistry for any number of connections, run IDs, stream *)
(* IDs, cells and multiplexers.                                            *)
(***************************************************************************)
EXTENDS RunRegistryProps, TLAPS

\* The stream tables stay tables of connections.
LEMMA CreateTyped ==
  ASSUME TypeOK, NEW m \in Muxes, NEW c \in Conns, createStream(m, c)
  PROVE  conns' \in [Muxes -> [StreamIDs -> Conns \cup {None}]]
<1> DEFINE row == [conns[m] EXCEPT ![StreamOf[c]] = c]
<1>1. row \in [StreamIDs -> Conns \cup {None}]
  BY RegistryConstants DEF TypeOK
<1>2. conns' = [conns EXCEPT ![m] = row]
  BY DEF createStream
<1> QED
  BY <1>1, <1>2 DEF TypeOK

LEMMA CloseTyped ==
  ASSUME TypeOK, NEW m \in Muxes \cup {None}, closeStreams(m)
  PROVE  /\ conns' \in [Muxes -> [StreamIDs -> Conns \cup {None}]]
         /\ sock' \in [Conns -> {"open", "peer_closed", "closed"}]
<1>1. conns' \in [Muxes -> [StreamIDs -> Conns \cup {None}]]
  BY DEF TypeOK, closeStreams
<1>2. sock' \in [Conns -> {"open", "peer_closed", "closed"}]
  BY DEF TypeOK, closeStreams
<1> QED
  BY <1>1, <1>2

LEMMA BindTyped ==
  ASSUME TypeOK, NEW m \in Muxes \cup {None}, NEW k \in KnownIDs, bindKnownID(m, k)
  PROVE  known' \in [Muxes -> KnownIDs \cup {None}]
<1>1. CASE m \in Muxes
  BY <1>1 DEF TypeOK, bindKnownID
<1>2. CASE m = None
  BY <1>2, RegistryConstants DEF TypeOK, bindKnownID
<1> QED
  BY <1>1, <1>2

\* Every variable keeps its type.
LEMMA TypeCorrect == Spec => []TypeOK
<1>1. Init => TypeOK
  BY RegistryConstants DEF Init, TypeOK, Replies
<1>2. TypeOK /\ [Next]_vars => TypeOK'
  <2> SUFFICES ASSUME TypeOK, [Next]_vars PROVE TypeOK'
    OBVIOUS
  <2> USE RegistryConstants DEF TypeOK
  <2>1. ASSUME NEW c \in Conns, HandleConnection(c) PROVE TypeOK'
    <3>1. ASSUME NEW m \in Muxes, newMultiplexer(m, RunOf[c]), Admit(c, m, TRUE)
          PROVE  TypeOK'
      <4>1. conns' \in [Muxes -> [StreamIDs -> Conns \cup {None}]]
        BY <3>1, CreateTyped DEF Admit
      <4> QED
        BY <2>1, <3>1, <4>1 DEF HandleConnection, Admit, newMultiplexer, stopVars, busyVars
    <3> DEFINE m == runs[RunOf[c]]
    <3>2. CASE m # None /\ Admit(c, m, FALSE) /\ UNCHANGED <<runs, muxRun>>
      <4>1. m \in Muxes
        BY <3>2
      <4>2. conns' \in [Muxes -> [StreamIDs -> Conns \cup {None}]]
        BY <3>2, <4>1, CreateTyped DEF Admit
      <4> QED
        BY <2>1, <3>2, <4>1, <4>2 DEF HandleConnection, Admit, stopVars, busyVars
    <3>3. CASE /\ handler' = [handler EXCEPT ![c] = "end"]
               /\ UNCHANGED <<runs, muxRun, conns, mux, created, reader>>
      BY <2>1, <3>3 DEF HandleConnection, stopVars, busyVars
    <3> QED
      BY <2>1, <3>1, <3>2, <3>3 DEF HandleConnection
  <2>2. ASSUME NEW c \in Conns, RefuseOpen(c) \/ Refused(c) PROVE TypeOK'
    BY <2>2 DEF RefuseOpen, Refuse, Refused, Replies, muxVars, tableVars, stopVars,
                busyVars
  <2>3. ASSUME NEW c \in Conns, NEW k \in KnownIDs, Start(c, k) PROVE TypeOK'
    <3>1. CASE Refuse(c, "exists") /\ UNCHANGED known
      BY <2>3, <3>1 DEF Start, Refuse, Replies, stopVars, busyVars
    <3>2. ASSUME NEW m \in Muxes, newMultiplexer(m, RunOf[c]), Bind(c, m, k, TRUE)
          PROVE  TypeOK'
      <4>1. conns' \in [Muxes -> [StreamIDs -> Conns \cup {None}]]
        BY <3>2, CreateTyped DEF Bind
      <4>2. known' \in [Muxes -> KnownIDs \cup {None}]
        BY <3>2 DEF Bind, bindKnownID
      <4> QED
        BY <2>3, <3>2, <4>1, <4>2 DEF Start, Bind, newMultiplexer, stopVars, busyVars
    <3> QED
      BY <2>3, <3>1, <3>2 DEF Start
  <2>4. ASSUME NEW c \in Conns, NEW k \in KnownIDs, Resume(c, k) PROVE TypeOK'
    <3> DEFINE m == runs[RunOf[c]]
    <3>1. CASE /\ Refuse(c, "not_found") \/ Refuse(c, "denied")
               /\ writing' \in {writing, [writing EXCEPT ![m] = TRUE]}
               /\ UNCHANGED known
      <4>1. /\ handler' \in [Conns -> {"idle", "refusing", "acking", "process", "removing",
                                      "end"}]
            /\ reply' \in [Conns -> Replies] /\ mu' \in Conns \cup {None}
        BY <3>1 DEF Refuse, Replies
      <4>2. writing' \in [Muxes -> BOOLEAN]
        BY <3>1
      <4> QED
        BY <2>4, <3>1, <4>1, <4>2 DEF Resume, Refuse, stopVars
    <3>2. CASE /\ m \in Muxes /\ bindKnownID(m, k) /\ Refuse(c, "internal")
               /\ UNCHANGED writing
      <4>1. known' \in [Muxes -> KnownIDs \cup {None}]
        BY <3>2 DEF bindKnownID
      <4> QED
        BY <2>4, <3>2, <4>1 DEF Resume, Refuse, Replies, stopVars
    <3>3. CASE /\ m \in Muxes /\ Bind(c, m, k, FALSE)
               /\ UNCHANGED <<runs, muxRun, writing>>
      <4>1. conns' \in [Muxes -> [StreamIDs -> Conns \cup {None}]]
        BY <3>3, CreateTyped DEF Bind
      <4>2. known' \in [Muxes -> KnownIDs \cup {None}]
        BY <3>3 DEF Bind, bindKnownID
      <4> QED
        BY <2>4, <3>3, <4>1, <4>2 DEF Resume, Bind, stopVars
    <3> QED
      BY <2>4, <3>1, <3>2, <3>3 DEF Resume
  <2>5. ASSUME NEW c \in Conns, Acknowledge(c) PROVE TypeOK'
    BY <2>5 DEF Acknowledge, Replies, muxVars, tableVars, stopVars, busyVars
  <2>6. ASSUME NEW c \in Conns, AcknowledgeFails(c) PROVE TypeOK'
    BY <2>6 DEF AcknowledgeFails, removeStream, muxVars, stopVars, busyVars
  <2>7. ASSUME NEW c \in Conns, NEW k \in KnownIDs, ReceiveRequest(c, k) PROVE TypeOK'
    <3>1. CASE Authorized(mux[c], k)
      <4>1. known' \in [Muxes -> KnownIDs \cup {None}]
        BY <2>7, <3>1, BindTyped DEF ReceiveRequest
      <4>2. forwarded' = [forwarded EXCEPT ![mux[c]] = @ \cup {k}]
        BY <2>7, <3>1 DEF ReceiveRequest
      <4>3. forwarded' \in [Muxes -> SUBSET KnownIDs]
        BY <4>2
      <4> QED
        BY <2>7, <3>1, <4>1, <4>3 DEF ReceiveRequest, muxVars, stopVars
    <3>2. CASE ~Authorized(mux[c], k)
      BY <2>7, <3>2 DEF ReceiveRequest, muxVars, stopVars
    <3> QED
      BY <3>1, <3>2
  <2>8. ASSUME NEW c \in Conns, RejectRequest(c) PROVE TypeOK'
    <3>1. known' \in [Muxes -> KnownIDs \cup {None}]
      BY <2>8, BindTyped DEF RejectRequest
    <3> QED
      BY <2>8, <3>1 DEF RejectRequest, muxVars, stopVars, busyVars
  <2>9. ASSUME NEW c \in Conns, ReceivePing(c) \/ ReceiveFails(c) PROVE TypeOK'
    BY <2>9 DEF ReceivePing, ReceiveFails, muxVars, tableVars, stopVars, busyVars
  <2>10. ASSUME NEW c \in Conns, Leave(c) PROVE TypeOK'
    BY <2>10 DEF Leave, removeStream, muxVars, stopVars, busyVars
  <2>11. ASSUME NEW c \in Conns, OwnerStep(c) PROVE TypeOK'
    <3>1. CASE Process(c)
      BY <3>1 DEF Process, tableVars, connVars, stopVars, busyVars
    <3>2. CASE Finalize(c)
      BY <3>2 DEF Finalize, tableVars, connVars, stopVars, busyVars
    <3>3. CASE CloseStreams(c)
      <4>1. mux[c] \in Muxes \/ mux[c] = None
        OBVIOUS
      <4> QED
        BY <3>3, CloseTyped, <4>1 DEF CloseStreams, stopVars, busyVars
    <3>4. CASE RemoveRun(c)
      BY <3>4 DEF RemoveRun, muxVars, tableVars, stopVars, busyVars
    <3>5. CASE SendBlocks(c) \/ SendReturns(c)
      BY <3>5 DEF SendBlocks, SendReturns, muxVars, tableVars, connVars, stopVars
    <3> QED
      BY <2>11, <3>1, <3>2, <3>3, <3>4, <3>5 DEF OwnerStep
  <2>12. ASSUME NEW c \in Conns, ClientCloses(c) PROVE TypeOK'
    BY <2>12 DEF ClientCloses, muxVars, tableVars, stopVars, busyVars
  <2>13. ASSUME NEW m \in Muxes, Executed(m) \/ WriterStep(m) PROVE TypeOK'
    <3>1. CASE Executed(m)
      BY <3>1 DEF Executed, tableVars, connVars, stopVars, busyVars
    <3>2. CASE Broadcast(m)
      BY <3>2 DEF Broadcast, muxVars, tableVars, connVars, stopVars
    <3>3. CASE WriteReturns(m)
      BY <3>3 DEF WriteReturns, muxVars, tableVars, connVars, stopVars
    <3> QED
      BY <2>13, <3>1, <3>2, <3>3 DEF WriterStep
  <2>14. ASSUME NEW c \in Conns, TimerStep(c) PROVE TypeOK'
    <3>1. CASE InactivityCancel(c)
      BY <3>1 DEF InactivityCancel, tableVars, connVars, stopVars, busyVars
    <3>2. CASE InactivityTimeout(c)
      <4>1. mux[c] \in Muxes \/ mux[c] = None
        OBVIOUS
      <4> QED
        BY <3>2, <4>1, CloseTyped DEF InactivityTimeout, muxVars, stopVars
    <3> QED
      BY <2>14, <3>1, <3>2 DEF TimerStep
  <2>15. ASSUME NEW c \in Conns, WaitForStreams(c) PROVE TypeOK'
    BY <2>15 DEF WaitForStreams, muxVars, tableVars, connVars, stopVars, busyVars
  <2>16. ASSUME ShutdownCancel \/ ShutdownReturn \/ ShutdownExpires PROVE TypeOK'
    <3>1. Registered \in SUBSET Muxes
      BY DEF Registered
    <3>2. CASE ShutdownCancel
      BY <3>1, <3>2 DEF ShutdownCancel, tableVars, connVars, busyVars
    <3>3. CASE ShutdownReturn \/ ShutdownExpires
      BY <3>3 DEF ShutdownReturn, ShutdownExpires, muxVars, tableVars, connVars, busyVars
    <3> QED
      BY <2>16, <3>2, <3>3
  <2>17. CASE UNCHANGED vars
    BY <2>17 DEF vars, muxVars, tableVars, connVars, stopVars, busyVars
  <2> QED
    BY <2>1, <2>2, <2>3, <2>4, <2>5, <2>6, <2>7, <2>8, <2>9, <2>10, <2>11, <2>12,
       <2>13, <2>14, <2>15, <2>16, <2>17 DEF Next, HandlerStep, ReaderStep
<1> QED
  BY <1>1, <1>2, PTL DEF Spec

-----------------------------------------------------------------------------
(* The registry invariant. It speaks only of these variables, and most     *)
(* actions leave them alone.                                               *)
coreVars == <<runs, muxRun, phase, handler, mux, created>>

LEMMA InvStutter ==
  ASSUME Bookkeeping, UNCHANGED coreVars
  PROVE  Bookkeeping'
BY DEF Bookkeeping, coreVars, EntryFiled, CreatorBound, OneCreator, CreatorHolds,
       CreatorPhase, PhaseReached, IsCreator, Owes

LEMMA RunOfTyped == \A c \in Conns : RunOf[c] \in RunIDs /\ RunOf[c] # None
BY RegistryConstants

\* A connection that has not been dealt with made no multiplexer; dealing with it
\* without making one leaves the invariant as it is.
LEMMA InvJoin ==
  ASSUME TypeOK, Bookkeeping, NEW c \in Conns, handler[c] = "idle",
         NEW m \in Muxes \cup {None}, NEW h \in {"refusing", "acking", "end"},
         handler' = [handler EXCEPT ![c] = h],
         mux' = [mux EXCEPT ![c] = m],
         created' = [created EXCEPT ![c] = FALSE],
         UNCHANGED <<runs, muxRun, phase>>
  PROVE  Bookkeeping'
<1> USE DEF TypeOK, Bookkeeping, IsCreator, Owes
<1>1. EntryFiled'
  BY DEF EntryFiled
<1>2. CreatorBound'
  BY DEF CreatorBound
<1>3. OneCreator'
  BY DEF OneCreator
<1>4. CreatorHolds'
  BY DEF CreatorHolds
<1>5. CreatorPhase'
  BY DEF CreatorPhase
<1>7. ASSUME NEW d \in Conns, NEW n, IsCreator(d, n)
      PROVE  IsCreator(d, n)' /\ handler'[d] = handler[d]
  BY <1>7 DEF CreatorPhase
<1>6. PhaseReached'
  <2> SUFFICES ASSUME NEW n \in Muxes
               PROVE  /\ muxRun'[n] = None => phase'[n] = "new"
                      /\ phase'[n] \in {"running", "grace"} =>
                           \E d \in Conns : IsCreator(d, n)' /\ handler'[d] = "process"
                      /\ phase'[n] = "done" =>
                           \/ \E d \in Conns : IsCreator(d, n)' /\ handler'[d] = "removing"
                           \/ \A r \in RunIDs : runs'[r] # n
    BY DEF PhaseReached
  <2>1. PhaseReached
    OBVIOUS
  <2> HIDE DEF TypeOK, Bookkeeping, IsCreator
  <2>2. /\ muxRun'[n] = None => phase'[n] = "new"
        /\ phase'[n] \in {"running", "grace"} =>
             \E d \in Conns : IsCreator(d, n)' /\ handler'[d] = "process"
    BY <2>1, <1>7 DEF PhaseReached
  <2>3. phase'[n] = "done" =>
          \/ \E d \in Conns : IsCreator(d, n)' /\ handler'[d] = "removing"
          \/ \A r \in RunIDs : runs'[r] # n
    BY <2>1, <1>7 DEF PhaseReached
  <2> QED
    BY <2>2, <2>3
<1> QED
  BY <1>1, <1>2, <1>3, <1>4, <1>5, <1>6

\* A handler that makes a multiplexer files it under a run ID that was free.
LEMMA InvCreate ==
  ASSUME TypeOK, Bookkeeping, NEW c \in Conns, handler[c] = "idle",
         NEW m \in Muxes, NEW h \in {"acking", "process"},
         runs[RunOf[c]] = None, newMultiplexer(m, RunOf[c]),
         handler' = [handler EXCEPT ![c] = h],
         mux' = [mux EXCEPT ![c] = m],
         created' = [created EXCEPT ![c] = TRUE],
         UNCHANGED phase
  PROVE  Bookkeeping'
<1> USE RegistryConstants DEF TypeOK, Bookkeeping, IsCreator, Owes, newMultiplexer
<1>a. \A d \in Conns : created[d] => mux[d] # m /\ d # c
  <2>1. \A d \in Conns : created[d] => muxRun[mux[d]] # muxRun[m]
    BY RunOfTyped DEF CreatorBound
  <2>2. \A d \in Conns : created[d] => handler[d] # handler[c]
    BY DEF CreatorPhase
  <2> QED
    BY <2>1, <2>2
<1>b. \A d \in Conns : d # c => /\ created'[d] = created[d] /\ mux'[d] = mux[d]
                                /\ handler'[d] = handler[d]
  OBVIOUS
<1>c. created'[c] /\ mux'[c] = m /\ handler'[c] = h
  OBVIOUS
<1>d. /\ \A n \in Muxes : n # m => muxRun'[n] = muxRun[n]
      /\ muxRun'[m] = RunOf[c]
  OBVIOUS
<1>e. \A r \in RunIDs : r # RunOf[c] => runs'[r] = runs[r]
  OBVIOUS
<1>f. runs'[RunOf[c]] = m
  BY RunOfTyped
<1>1. EntryFiled'
  BY DEF EntryFiled
<1>2. CreatorBound'
  BY <1>a, <1>b, <1>c, <1>d DEF CreatorBound
<1>3. OneCreator'
  BY <1>a, <1>b, <1>c DEF OneCreator
<1>4. CreatorHolds'
  <2>1. ASSUME NEW d \in Conns, d # c
        PROVE  /\ Owes(d)' => created'[d]
               /\ (created'[d] /\ handler'[d] = "acking") \/ Owes(d)'
                    => runs'[RunOf[d]] = mux'[d]
    BY <1>b, <1>e, <2>1, RunOfTyped, <1>a DEF CreatorHolds, CreatorBound
  <2>2. /\ created'[c]
        /\ runs'[RunOf[c]] = mux'[c]
    BY <1>c, <1>f
  <2> QED
    BY <2>1, <2>2 DEF CreatorHolds
<1>5. CreatorPhase'
  BY DEF CreatorPhase, PhaseReached, CreatorBound
<1>6. PhaseReached'
  <2> SUFFICES ASSUME NEW n \in Muxes
               PROVE  /\ muxRun'[n] = None => phase'[n] = "new"
                      /\ phase'[n] \in {"running", "grace"} =>
                           \E d \in Conns : IsCreator(d, n)' /\ handler'[d] = "process"
                      /\ phase'[n] = "done" =>
                           \/ \E d \in Conns : IsCreator(d, n)' /\ handler'[d] = "removing"
                           \/ \A r \in RunIDs : runs'[r] # n
    BY DEF PhaseReached
  <2>1. CASE n = m
    BY <2>1, <1>d DEF PhaseReached
  <2>2. CASE n # m
    <3>1. ASSUME NEW d \in Conns, IsCreator(d, n)
          PROVE  IsCreator(d, n)' /\ handler'[d] = handler[d]
      BY <1>a, <1>b, <3>1
    <3>2. PhaseReached /\ muxRun'[n] = muxRun[n]
      BY <2>2, <1>d
    <3> HIDE DEF TypeOK, Bookkeeping, IsCreator
    <3>3. /\ muxRun'[n] = None => phase'[n] = "new"
          /\ phase'[n] \in {"running", "grace"} =>
               \E d \in Conns : IsCreator(d, n)' /\ handler'[d] = "process"
      BY <3>1, <3>2 DEF PhaseReached
    <3>4. phase'[n] = "done" =>
            \/ \E d \in Conns : IsCreator(d, n)' /\ handler'[d] = "removing"
            \/ \A r \in RunIDs : runs'[r] # n
      BY <2>2, <1>e, <1>f, <3>1, <3>2 DEF PhaseReached
    <3> QED
      BY <3>3, <3>4
  <2> QED
    BY <2>1, <2>2
<1> QED
  BY <1>1, <1>2, <1>3, <1>4, <1>5, <1>6

\* A creator that gives its entry up, with a multiplexer that is new or done.
LEMMA InvDrop ==
  ASSUME TypeOK, Bookkeeping, NEW c \in Conns, created[c],
         handler[c] \in {"acking", "removing"},
         runs' = [runs EXCEPT ![RunOf[c]] = None],
         handler' = [handler EXCEPT ![c] = "end"],
         UNCHANGED <<muxRun, phase, mux, created>>
  PROVE  Bookkeeping'
<1> USE RegistryConstants DEF TypeOK, Bookkeeping, IsCreator, Owes
<1>1. EntryFiled'
  BY DEF EntryFiled
<1>2. CreatorBound'
  BY DEF CreatorBound
<1>3. OneCreator'
  BY DEF OneCreator
<1>4. CreatorHolds'
  BY DEF CreatorHolds, CreatorBound, OneCreator
<1>5. CreatorPhase'
  BY DEF CreatorPhase
<1>6. PhaseReached'
  <2> SUFFICES ASSUME NEW m \in Muxes
               PROVE  /\ muxRun'[m] = None => phase'[m] = "new"
                      /\ phase'[m] \in {"running", "grace"} =>
                           \E d \in Conns : IsCreator(d, m)' /\ handler'[d] = "process"
                      /\ phase'[m] = "done" =>
                           \/ \E d \in Conns : IsCreator(d, m)' /\ handler'[d] = "removing"
                           \/ \A r \in RunIDs : runs'[r] # m
    BY DEF PhaseReached
  <2>1. CASE mux[c] = m
    BY <2>1 DEF PhaseReached, CreatorPhase, CreatorHolds, EntryFiled, CreatorBound
  <2>2. CASE mux[c] # m
    BY <2>2 DEF PhaseReached
  <2> QED
    BY <2>1, <2>2
<1> QED
  BY <1>1, <1>2, <1>3, <1>4, <1>5, <1>6

\* A phase is reached by way of its creator as long as creators stay where they are.
LEMMA PhaseKept ==
  ASSUME PhaseReached, UNCHANGED <<runs, muxRun, mux, created, phase>>,
         \A d \in Conns : (created[d] /\ handler[d] \in {"process", "removing"})
                            => handler'[d] = handler[d]
  PROVE  PhaseReached'
<1>1. \A n \in Muxes, d \in Conns : IsCreator(d, n)' <=> IsCreator(d, n)
  BY DEF IsCreator
<1>2. \A n \in Muxes, d \in Conns :
        /\ IsCreator(d, n) /\ handler[d] = "process" => handler'[d] = "process"
        /\ IsCreator(d, n) /\ handler[d] = "removing" => handler'[d] = "removing"
  BY DEF IsCreator
<1> QED
  BY <1>1, <1>2 DEF PhaseReached

\* A creator moves its own multiplexer from one phase to the next.
LEMMA InvAdvance ==
  ASSUME TypeOK, Bookkeeping, NEW c \in Conns, created[c],
         NEW h \in {"process", "removing"}, NEW p \in {"running", "grace", "done"},
         handler[c] = "process", (h = "removing") <=> (p = "done"),
         handler' = [handler EXCEPT ![c] = h],
         phase' = [phase EXCEPT ![mux[c]] = p],
         UNCHANGED <<runs, muxRun, mux, created>>
  PROVE  Bookkeeping'
<1> USE RegistryConstants DEF TypeOK, Bookkeeping, IsCreator, Owes
<1>1. EntryFiled'
  BY DEF EntryFiled
<1>2. CreatorBound'
  BY DEF CreatorBound
<1>3. OneCreator'
  BY DEF OneCreator
<1>4. CreatorHolds'
  BY DEF CreatorHolds
<1>5. CreatorPhase'
  BY DEF CreatorPhase, OneCreator, CreatorBound
<1>6. PhaseReached'
  <2> SUFFICES ASSUME NEW m \in Muxes
               PROVE  /\ muxRun'[m] = None => phase'[m] = "new"
                      /\ phase'[m] \in {"running", "grace"} =>
                           \E d \in Conns : IsCreator(d, m)' /\ handler'[d] = "process"
                      /\ phase'[m] = "done" =>
                           \/ \E d \in Conns : IsCreator(d, m)' /\ handler'[d] = "removing"
                           \/ \A r \in RunIDs : runs'[r] # m
    BY DEF PhaseReached
  <2>1. CASE mux[c] = m
    <3>1. phase'[m] = p /\ muxRun'[m] # None
      BY <2>1, RunOfTyped DEF CreatorBound
    <3>2. IsCreator(c, m)' /\ handler'[c] = h
      BY <2>1
    <3> QED
      BY <3>1, <3>2
  <2>2. CASE mux[c] # m
    <3>1. phase'[m] = phase[m]
      BY <2>2
    <3>2. ASSUME NEW d \in Conns, IsCreator(d, m)
          PROVE  IsCreator(d, m)' /\ handler'[d] = handler[d]
      BY <2>2, <3>2
    <3>3. /\ muxRun'[m] = None => phase'[m] = "new"
          /\ phase'[m] \in {"running", "grace"} =>
               \E d \in Conns : IsCreator(d, m)' /\ handler'[d] = "process"
      BY <3>1, <3>2 DEF PhaseReached
    <3>4. phase'[m] = "done" =>
            \/ \E d \in Conns : IsCreator(d, m)' /\ handler'[d] = "removing"
            \/ \A r \in RunIDs : runs'[r] # m
      BY <3>1, <3>2 DEF PhaseReached
    <3> QED
      BY <3>3, <3>4
  <2> QED
    BY <2>1, <2>2
<1> QED
  BY <1>1, <1>2, <1>3, <1>4, <1>5, <1>6

LEMMA InvStep == TypeOK /\ Bookkeeping /\ [Next]_vars => Bookkeeping'
<1> SUFFICES ASSUME TypeOK, Bookkeeping, [Next]_vars PROVE Bookkeeping'
  OBVIOUS
<1> USE DEF stopVars, busyVars, muxVars, tableVars, connVars
<1>1. ASSUME NEW c \in Conns, HandleConnection(c) PROVE Bookkeeping'
  <2>1. handler[c] = "idle" /\ UNCHANGED phase
    BY <1>1 DEF HandleConnection, CanEnter
  <2>2. ASSUME NEW m \in Muxes, runs[RunOf[c]] = None, newMultiplexer(m, RunOf[c]),
               Admit(c, m, TRUE)
        PROVE  Bookkeeping'
    BY <2>1, <2>2, InvCreate DEF Admit
  <2>3. CASE /\ runs[RunOf[c]] # None /\ Admit(c, runs[RunOf[c]], FALSE)
             /\ UNCHANGED <<runs, muxRun>>
    <3>1. runs[RunOf[c]] \in Muxes \cup {None}
      BY RegistryConstants DEF TypeOK
    <3> QED
      BY <2>1, <2>3, <3>1, InvJoin DEF Admit
  <2>4. CASE /\ handler' = [handler EXCEPT ![c] = "end"]
             /\ UNCHANGED <<runs, muxRun, conns, mux, created, reader>>
    <3>1. mux' = [mux EXCEPT ![c] = mux[c]] /\ mux[c] \in Muxes \cup {None}
      BY <2>4 DEF TypeOK
    <3>2. created' = [created EXCEPT ![c] = FALSE]
      BY <2>1, <2>4 DEF TypeOK, Bookkeeping, CreatorPhase
    <3> QED
      BY <2>1, <2>4, <3>1, <3>2, InvJoin
  <2> QED
    BY <1>1, <2>2, <2>3, <2>4 DEF HandleConnection
<1>2. ASSUME NEW c \in Conns, NEW code, Refuse(c, code), handler[c] = "idle",
             UNCHANGED phase
      PROVE  Bookkeeping'
  <2>1. mux' = [mux EXCEPT ![c] = mux[c]] /\ mux[c] \in Muxes \cup {None}
    BY <1>2 DEF TypeOK, Refuse
  <2>2. created' = [created EXCEPT ![c] = FALSE]
    BY <1>2 DEF TypeOK, Bookkeeping, CreatorPhase, Refuse
  <2> QED
    BY <1>2, <2>1, <2>2, InvJoin DEF Refuse
<1>3. ASSUME NEW c \in Conns, RefuseOpen(c) PROVE Bookkeeping'
  <2>1. CASE /\ handler' = [handler EXCEPT ![c] = "end"]
             /\ UNCHANGED <<runs, muxRun, mux, created, phase>>
    <3>1. mux' = [mux EXCEPT ![c] = mux[c]] /\ mux[c] \in Muxes \cup {None}
      BY <2>1 DEF TypeOK
    <3>2. created' = [created EXCEPT ![c] = FALSE]
      BY <1>3, <2>1 DEF TypeOK, Bookkeeping, CreatorPhase, RefuseOpen
    <3> QED
      BY <1>3, <2>1, <3>1, <3>2, InvJoin DEF RefuseOpen
  <2> QED
    BY <1>2, <1>3, <2>1 DEF RefuseOpen
<1>4. ASSUME NEW c \in Conns, NEW k \in KnownIDs, Start(c, k) PROVE Bookkeeping'
  <2>1. ASSUME NEW m \in Muxes, runs[RunOf[c]] = None, newMultiplexer(m, RunOf[c]),
               Bind(c, m, k, TRUE)
        PROVE  Bookkeeping'
    BY <1>4, <2>1, InvCreate DEF Bind, Start
  <2> QED
    BY <1>2, <1>4, <2>1 DEF Start
<1>5. ASSUME NEW c \in Conns, NEW k \in KnownIDs, Resume(c, k) PROVE Bookkeeping'
  <2> DEFINE m == runs[RunOf[c]]
  <2>1. CASE Bind(c, m, k, FALSE) /\ UNCHANGED <<runs, muxRun, writing>>
    <3>1. m \in Muxes \cup {None}
      BY RegistryConstants DEF TypeOK
    <3> QED
      BY <1>5, <2>1, <3>1, InvJoin DEF Bind, Resume, CanEnter
  <2> QED
    BY <1>2, <1>5, <2>1 DEF Resume, CanEnter
<1>6. ASSUME NEW c \in Conns, Acknowledge(c) PROVE Bookkeeping'
  <2> USE <1>6 DEF Acknowledge, TypeOK, Bookkeeping, IsCreator, Owes
  <2>1. EntryFiled' /\ CreatorBound' /\ OneCreator'
    BY DEF EntryFiled, CreatorBound, OneCreator
  <2>2. CreatorHolds'
    BY DEF CreatorHolds
  <2>3. CreatorPhase'
    BY DEF CreatorPhase
  <2>4. PhaseReached'
    <3>1. \A d \in Conns : handler[d] \in {"process", "removing"} => handler'[d] = handler[d]
      OBVIOUS
    <3> QED
      BY <3>1, PhaseKept
  <2> QED
    BY <2>1, <2>2, <2>3, <2>4
<1>7. ASSUME NEW c \in Conns, AcknowledgeFails(c) PROVE Bookkeeping'
  <2>1. CASE created[c]
    BY <1>7, <2>1, InvDrop DEF AcknowledgeFails
  <2>2. CASE ~created[c]
    <3> USE <1>7, <2>2 DEF AcknowledgeFails, TypeOK, Bookkeeping, IsCreator, Owes
    <3>1. EntryFiled' /\ CreatorBound' /\ OneCreator'
      BY DEF EntryFiled, CreatorBound, OneCreator
    <3>2. CreatorHolds'
      BY DEF CreatorHolds
    <3>3. CreatorPhase'
      BY DEF CreatorPhase
    <3>4. PhaseReached'
      <4>1. \A d \in Conns : created[d] => handler'[d] = handler[d]
        OBVIOUS
      <4> QED
        BY <4>1, PhaseKept
    <3> QED
      BY <3>1, <3>2, <3>3, <3>4
  <2> QED
    BY <2>1, <2>2
<1>8. ASSUME NEW c \in Conns, OwnerStep(c) PROVE Bookkeeping'
  <2>1. Owes(c) /\ created[c]
    BY <1>8 DEF OwnerStep, Process, SendBlocks, SendReturns, Finalize, CloseStreams,
                RemoveRun, Bookkeeping, CreatorHolds, Owes
  <2>2. CASE Process(c) \/ Finalize(c)
    <3>1. handler' = [handler EXCEPT ![c] = "process"] /\ handler[c] = "process"
      BY <2>2 DEF Process, Finalize, TypeOK
    <3> QED
      BY <2>1, <2>2, <3>1, InvAdvance DEF Process, Finalize
  <2>3. CASE CloseStreams(c)
    BY <2>1, <2>3, InvAdvance DEF CloseStreams
  <2>4. CASE RemoveRun(c)
    BY <2>1, <2>4, InvDrop DEF RemoveRun
  <2>5. CASE SendBlocks(c) \/ SendReturns(c)
    BY <2>5, InvStutter DEF SendBlocks, SendReturns, coreVars
  <2> QED
    BY <1>8, <2>2, <2>3, <2>4, <2>5 DEF OwnerStep
<1>9. ASSUME NEW c \in Conns, ReaderStep(c) \/ ClientCloses(c) \/ TimerStep(c)
      PROVE  Bookkeeping'
  <2>1. UNCHANGED coreVars
    BY <1>9 DEF ReaderStep, ReceiveRequest, RejectRequest, ReceivePing, ReceiveFails,
                Leave, ClientCloses, TimerStep, InactivityTimeout, InactivityCancel,
                coreVars
  <2> QED
    BY <2>1, InvStutter
<1>10. ASSUME NEW m \in Muxes, Executed(m) \/ WriterStep(m) PROVE Bookkeeping'
  <2>1. UNCHANGED coreVars
    BY <1>10 DEF Executed, WriterStep, Broadcast, WriteReturns, coreVars
  <2> QED
    BY <2>1, InvStutter
<1>12. ASSUME NEW c \in Conns, WaitForStreams(c) PROVE Bookkeeping'
  <2>1. UNCHANGED coreVars
    BY <1>12 DEF WaitForStreams, coreVars
  <2> QED
    BY <2>1, InvStutter
<1>13. ASSUME NEW c \in Conns, Refused(c) PROVE Bookkeeping'
  <2> USE <1>13 DEF Refused, TypeOK, Bookkeeping, IsCreator, Owes
  <2>1. EntryFiled' /\ CreatorBound' /\ OneCreator'
    BY DEF EntryFiled, CreatorBound, OneCreator
  <2>2. CreatorHolds' /\ CreatorPhase'
    BY DEF CreatorHolds, CreatorPhase
  <2>3. PhaseReached'
    BY DEF PhaseReached
  <2> QED
    BY <2>1, <2>2, <2>3
<1>11. CASE ShutdownCancel \/ ShutdownReturn \/ ShutdownExpires \/ UNCHANGED vars
  <2>1. UNCHANGED coreVars
    BY <1>11 DEF ShutdownCancel, ShutdownReturn, ShutdownExpires, vars, coreVars
  <2> QED
    BY <2>1, InvStutter
<1> QED
  BY <1>1, <1>3, <1>4, <1>5, <1>6, <1>7, <1>8, <1>9, <1>10, <1>11, <1>12, <1>13
  DEF Next, HandlerStep

\* The registry and the handlers' own view of it always agree: every state of
\* every behaviour satisfies the registry invariant.
THEOREM BookkeepingKept == Spec => []Bookkeeping
<1>1. Init => Bookkeeping
  BY RegistryConstants DEF Init, Bookkeeping, EntryFiled, CreatorBound, OneCreator,
     CreatorHolds, CreatorPhase, PhaseReached, IsCreator, Owes
<1> QED
  BY <1>1, InvStep, TypeCorrect, PTL DEF Spec

-----------------------------------------------------------------------------
(* What the invariant gives.                                               *)

\* removeRun deletes by run ID and still never drops another handler's run.
THEOREM RemovesOwn == Spec => []RemovesOwnRun
<1>1. Bookkeeping => RemovesOwnRun
  BY DEF Bookkeeping, CreatorHolds, RemovesOwnRun
<1> QED
  BY <1>1, BookkeepingKept, PTL

\* Two multiplexers of one run ID are never between process and the end of close
\* at the same time.
THEOREM NoSecondRun == Spec => []OneRunPerID
<1>1. TypeOK /\ Bookkeeping => OneRunPerID
  <2> SUFFICES ASSUME TypeOK, Bookkeeping, NEW m \in Muxes, NEW n \in Muxes,
                      muxRun[m] = muxRun[n],
                      phase[m] \in {"running", "grace"}, phase[n] \in {"running", "grace"}
               PROVE  m = n
    BY DEF OneRunPerID
  <2>1. PICK c \in Conns : IsCreator(c, m) /\ handler[c] = "process"
    BY DEF Bookkeeping, PhaseReached
  <2>2. PICK d \in Conns : IsCreator(d, n) /\ handler[d] = "process"
    BY DEF Bookkeeping, PhaseReached
  <2>3. RunOf[c] = RunOf[d]
    BY <2>1, <2>2 DEF Bookkeeping, CreatorBound, IsCreator
  <2> QED
    BY <2>1, <2>2, <2>3 DEF Bookkeeping, CreatorHolds, Owes, IsCreator
<1> QED
  BY <1>1, TypeCorrect, BookkeepingKept, PTL

\* The whole invariant of the registry, for any number of connections and runs.
THEOREM RegistryCorrect == Spec => []RegistryInv
<1>1. TypeOK /\ Bookkeeping /\ RemovesOwnRun /\ OneRunPerID => RegistryInv
  BY DEF RegistryInv
<1> QED
  BY <1>1, TypeCorrect, BookkeepingKept, RemovesOwn, NoSecondRun, PTL

\* What executes is registered, so the snapshot of Shutdown contains it.
LEMMA WorkingRegistered == TypeOK /\ Bookkeeping => Working \subseteq Registered
<1> SUFFICES ASSUME TypeOK, Bookkeeping, NEW m \in Working PROVE m \in Registered
  OBVIOUS
<1>1. PICK c \in Conns : IsCreator(c, m) /\ handler[c] = "process"
  BY DEF Working, Bookkeeping, PhaseReached
<1>2. runs[RunOf[c]] = m /\ RunOf[c] \in RunIDs
  BY <1>1, RunOfTyped DEF Bookkeeping, CreatorHolds, Owes, IsCreator
<1> QED
  BY <1>2, RegistryConstants DEF Registered, Working

THEOREM NothingMissed == Spec => ShutdownMissesNothing
<1>1. TypeOK /\ Bookkeeping /\ [Next]_vars
        => (stopper' = "waiting" /\ stopper = "idle" => Working \subseteq waitFor')
  <2> SUFFICES ASSUME TypeOK, Bookkeeping, [Next]_vars,
                      stopper = "idle", stopper' = "waiting"
               PROVE  Working \subseteq waitFor'
    OBVIOUS
  <2>1. ShutdownCancel
    BY DEF Next, HandlerStep, WaitForStreams, HandleConnection, RefuseOpen, Start,
           Resume, Refused, Acknowledge, AcknowledgeFails, ReaderStep, ReceiveRequest,
           RejectRequest, ReceivePing, ReceiveFails, Leave, OwnerStep, Process,
           SendBlocks, SendReturns, Finalize, CloseStreams, RemoveRun, ClientCloses,
           Executed, WriterStep, Broadcast, WriteReturns, TimerStep, InactivityTimeout,
           InactivityCancel, ShutdownReturn, ShutdownExpires, vars, stopVars
  <2> QED
    BY <2>1, WorkingRegistered DEF ShutdownCancel
<1> QED
  BY <1>1, TypeCorrect, BookkeepingKept, PTL DEF Spec, ShutdownMissesNothing

-----------------------------------------------------------------------------
(* The stream tables and the cell of each multiplexer.                     *)

\* A connection that was bound stays bound to a multiplexer made for its run, one
\* that was not has no receiving goroutine, and a table entry is a connection of
\* that multiplexer, under its own stream ID, until its goroutine has cleaned up.
Joined ==
  \A c \in Conns :
    /\ handler[c] = "idle" => mux[c] = None
    /\ handler[c] = "acking" => mux[c] # None
    /\ mux[c] = None <=> reader[c] = "none"
    /\ mux[c] # None => muxRun[mux[c]] = RunOf[c]

TableInv == Joined /\ StreamsOfThisRun

\* Dealing with a connection binds it to the multiplexer whose table it enters.
LEMMA TableJoin ==
  ASSUME TypeOK, TableInv, NEW c \in Conns, NEW m \in Muxes,
         NEW h \in {"acking", "process", "end"}, NEW i \in {"initial", "reading"},
         handler[c] = "idle", muxRun'[m] = RunOf[c],
         \A n \in Muxes : muxRun[n] # None => muxRun'[n] = muxRun[n],
         createStream(m, c),
         mux' = [mux EXCEPT ![c] = m],
         reader' = [reader EXCEPT ![c] = i],
         handler' = [handler EXCEPT ![c] = h]
  PROVE  TableInv'
<1> USE RegistryConstants, RunOfTyped
<1>1. \A d \in Conns : d # c => /\ mux'[d] = mux[d] /\ reader'[d] = reader[d]
                                /\ handler'[d] = handler[d]
  BY DEF TypeOK
<1>2. mux'[c] = m /\ reader'[c] = i /\ handler'[c] = h
  BY DEF TypeOK
<1>3. mux[c] = None
  BY DEF TableInv, Joined
<1>4. Joined'
  BY <1>1, <1>2 DEF TableInv, Joined, TypeOK
<1>5. ASSUME NEW n \in Muxes, NEW s \in StreamIDs, conns'[n][s] # None
      PROVE  LET d == conns'[n][s] IN
               /\ mux'[d] = n /\ StreamOf[d] = s /\ RunOf[d] = muxRun'[n]
               /\ reader'[d] \in {"initial", "reading", "leaving"}
  <2>1. CASE n = m /\ s = StreamOf[c]
    <3>1. conns'[n][s] = c
      BY <2>1 DEF createStream, TypeOK
    <3> QED
      BY <1>2, <2>1, <3>1
  <2>2. CASE ~(n = m /\ s = StreamOf[c])
    <3> DEFINE d == conns[n][s]
    <3>1. conns'[n][s] = d
      BY <2>2 DEF createStream, TypeOK
    <3>2. /\ d \in Conns /\ mux[d] = n /\ StreamOf[d] = s /\ RunOf[d] = muxRun[n]
          /\ reader[d] \in {"initial", "reading", "leaving"}
      BY <1>5, <3>1 DEF TableInv, StreamsOfThisRun, TypeOK
    <3>3. d # c /\ muxRun[n] # None
      BY <1>3, <3>2
    <3> QED
      BY <1>1, <3>1, <3>2, <3>3
  <2> QED
    BY <2>1, <2>2
<1>6. StreamsOfThisRun'
  BY <1>5 DEF StreamsOfThisRun
<1> QED
  BY <1>4, <1>6 DEF TableInv

\* A step that empties entries and binds nobody; a goroutine that ends has no entry
\* any more.
LEMMA TableKeep ==
  ASSUME TypeOK, TableInv,
         UNCHANGED <<mux, muxRun>>,
         \A n \in Muxes, s \in StreamIDs :
           conns'[n][s] = None \/ conns'[n][s] = conns[n][s],
         \A d \in Conns :
           /\ handler'[d] = "idle" => handler[d] = "idle"
           /\ handler'[d] = "acking" => handler[d] = "acking",
         \A d \in Conns :
           \/ reader'[d] = reader[d]
           \/ /\ reader[d] # "none" /\ reader'[d] \in {"initial", "reading", "leaving"}
           \/ /\ reader[d] # "none" /\ reader'[d] = "gone"
              /\ conns'[mux[d]][StreamOf[d]] = None
  PROVE  TableInv'
<1>1. Joined'
  <2>1. \A d \in Conns : /\ handler'[d] = "idle" => mux'[d] = None
                         /\ handler'[d] = "acking" => mux'[d] # None
                         /\ mux'[d] # None => muxRun'[mux'[d]] = RunOf[d]
    BY DEF TableInv, Joined
  <2>2. \A d \in Conns : mux'[d] = None <=> reader'[d] = "none"
    BY DEF TableInv, Joined
  <2> QED
    BY <2>1, <2>2 DEF Joined
<1>2. ASSUME NEW n \in Muxes, NEW s \in StreamIDs, conns'[n][s] # None
      PROVE  LET d == conns'[n][s] IN
               /\ mux'[d] = n /\ StreamOf[d] = s /\ RunOf[d] = muxRun'[n]
               /\ reader'[d] \in {"initial", "reading", "leaving"}
  <2> DEFINE d == conns[n][s]
  <2>1. conns'[n][s] = d
    BY <1>2
  <2>2. /\ d \in Conns /\ mux[d] = n /\ StreamOf[d] = s /\ RunOf[d] = muxRun[n]
        /\ reader[d] \in {"initial", "reading", "leaving"}
    BY <1>2, <2>1 DEF TableInv, StreamsOfThisRun, TypeOK
  <2>3. reader'[d] \in {"initial", "reading", "leaving"}
    BY <1>2, <2>1, <2>2
  <2> QED
    BY <2>1, <2>2, <2>3
<1>3. StreamsOfThisRun'
  BY <1>2 DEF StreamsOfThisRun
<1> QED
  BY <1>1, <1>3 DEF TableInv

\* removeStream and Streams.close only empty entries, and close no connection but
\* those they find.
LEMMA RemoveStreamEffect ==
  ASSUME TypeOK, NEW m \in Muxes, NEW s \in StreamIDs, removeStream(m, s)
  PROVE  /\ conns'[m][s] = None
         /\ \A n \in Muxes, t \in StreamIDs :
              conns'[n][t] = None \/ conns'[n][t] = conns[n][t]
         /\ \A c \in Conns : sock'[c] # sock[c] => conns[m][s] = c
BY DEF TypeOK, removeStream

LEMMA CloseStreamsEffect ==
  ASSUME TypeOK, NEW m \in Muxes, closeStreams(m)
  PROVE  /\ \A n \in Muxes, t \in StreamIDs :
              conns'[n][t] = None \/ conns'[n][t] = conns[n][t]
         /\ \A c \in Conns : sock'[c] # sock[c] => \E s \in StreamIDs : conns[m][s] = c
BY DEF TypeOK, closeStreams

\* The step keeps the tables, action by action.
LEMMA TableStep == TypeOK /\ Bookkeeping /\ TableInv /\ [Next]_vars => TableInv'
<1> SUFFICES ASSUME TypeOK, Bookkeeping, TableInv, [Next]_vars PROVE TableInv'
  OBVIOUS
<1> USE DEF stopVars, busyVars, muxVars, tableVars, connVars
<1>a. ASSUME NEW c \in Conns
      PROVE  /\ RunOf[c] \in RunIDs /\ runs[RunOf[c]] \in Muxes \cup {None}
             /\ runs[RunOf[c]] # None => muxRun[runs[RunOf[c]]] = RunOf[c]
  BY RegistryConstants DEF TypeOK, Bookkeeping, EntryFiled
<1>b. ASSUME NEW m \in Muxes, NEW c \in Conns, newMultiplexer(m, RunOf[c])
      PROVE  /\ muxRun'[m] = RunOf[c]
             /\ \A n \in Muxes : muxRun[n] # None => muxRun'[n] = muxRun[n]
  BY <1>b DEF newMultiplexer, TypeOK
<1>c. ASSUME NEW c \in Conns, NEW h \in {"refusing", "end"},
             handler' = [handler EXCEPT ![c] = h], UNCHANGED <<mux, muxRun, conns, reader>>
      PROVE  TableInv'
  BY <1>c, TableKeep DEF TypeOK
<1>1. ASSUME NEW c \in Conns, HandleConnection(c) PROVE TableInv'
  <2>1. handler[c] = "idle"
    BY <1>1 DEF HandleConnection, CanEnter
  <2>2. ASSUME NEW m \in Muxes, newMultiplexer(m, RunOf[c]), Admit(c, m, TRUE)
        PROVE  TableInv'
    BY <2>1, <2>2, <1>b, TableJoin DEF Admit
  <2>3. CASE /\ runs[RunOf[c]] # None /\ Admit(c, runs[RunOf[c]], FALSE)
             /\ UNCHANGED <<runs, muxRun>>
    BY <2>1, <2>3, <1>a, TableJoin DEF Admit
  <2> QED
    BY <1>1, <2>2, <2>3, <1>c DEF HandleConnection
<1>2. ASSUME NEW c \in Conns, RefuseOpen(c) \/ Refused(c) PROVE TableInv'
  BY <1>2, <1>c DEF RefuseOpen, Refuse, Refused
<1>3. ASSUME NEW c \in Conns, NEW k \in KnownIDs, Start(c, k) PROVE TableInv'
  <2>1. CASE Refuse(c, "exists")
    BY <2>1, <1>c DEF Refuse
  <2>2. ASSUME NEW m \in Muxes, newMultiplexer(m, RunOf[c]), Bind(c, m, k, TRUE)
        PROVE  TableInv'
    BY <1>3, <2>2, <1>b, TableJoin DEF Bind, Start
  <2> QED
    BY <1>3, <2>1, <2>2 DEF Start
<1>4. ASSUME NEW c \in Conns, NEW k \in KnownIDs, Resume(c, k) PROVE TableInv'
  <2> DEFINE m == runs[RunOf[c]]
  <2>1. CASE Refuse(c, "not_found") \/ Refuse(c, "denied") \/ Refuse(c, "internal")
    BY <2>1, <1>c DEF Refuse
  <2>2. CASE /\ m # None /\ Bind(c, m, k, FALSE)
             /\ UNCHANGED <<runs, muxRun, writing>>
    BY <1>4, <2>2, <1>a, TableJoin DEF Bind, Resume, CanEnter
  <2> QED
    BY <1>4, <2>1, <2>2 DEF Resume
<1>5. ASSUME NEW c \in Conns, Acknowledge(c) PROVE TableInv'
  BY <1>5, TableKeep DEF Acknowledge, TypeOK
<1>d. ASSUME NEW c \in Conns, mux[c] # None
      PROVE  mux[c] \in Muxes /\ StreamOf[c] \in StreamIDs
  BY <1>d, RegistryConstants DEF TypeOK
<1>6. ASSUME NEW c \in Conns, AcknowledgeFails(c) PROVE TableInv'
  <2>1. mux[c] # None
    BY <1>6 DEF AcknowledgeFails, TableInv, Joined
  <2> QED
    BY <1>6, <2>1, <1>d, RemoveStreamEffect, TableKeep DEF AcknowledgeFails, TypeOK
<1>7. ASSUME NEW c \in Conns, ReaderStep(c) PROVE TableInv'
  <2>1. CASE \/ RejectRequest(c) \/ ReceivePing(c) \/ ReceiveFails(c)
             \/ \E k \in KnownIDs : ReceiveRequest(c, k)
    BY <2>1, TableKeep DEF RejectRequest, ReceivePing, ReceiveFails, ReceiveRequest,
       HasMessage, TypeOK
  <2>2. CASE Leave(c)
    <3>1. mux[c] # None
      BY <2>2 DEF Leave, TableInv, Joined
    <3> QED
      BY <2>2, <3>1, <1>d, RemoveStreamEffect, TableKeep DEF Leave, TypeOK
  <2> QED
    BY <1>7, <2>1, <2>2 DEF ReaderStep
<1>8. ASSUME NEW c \in Conns, OwnerStep(c) PROVE TableInv'
  <2>1. CASE CloseStreams(c)
    <3>1. mux[c] \in Muxes
      BY <2>1 DEF CloseStreams, Bookkeeping, CreatorHolds, CreatorBound, Owes
    <3> QED
      BY <2>1, <3>1, CloseStreamsEffect, TableKeep DEF CloseStreams, TypeOK
  <2>2. CASE Process(c) \/ SendBlocks(c) \/ SendReturns(c) \/ Finalize(c) \/ RemoveRun(c)
    BY <2>2, TableKeep DEF Process, SendBlocks, SendReturns, Finalize, RemoveRun, TypeOK
  <2> QED
    BY <1>8, <2>1, <2>2 DEF OwnerStep
<1>9. ASSUME NEW c \in Conns, InactivityTimeout(c) PROVE TableInv'
  <2>1. mux[c] \in Muxes
    BY <1>9, <1>d DEF InactivityTimeout
  <2> QED
    BY <1>9, <2>1, CloseStreamsEffect, TableKeep DEF InactivityTimeout
<1>10. CASE \/ \E c \in Conns : ClientCloses(c) \/ InactivityCancel(c) \/ WaitForStreams(c)
            \/ \E m \in Muxes : Executed(m) \/ WriterStep(m)
            \/ ShutdownCancel \/ ShutdownReturn \/ ShutdownExpires \/ UNCHANGED vars
  BY <1>10, TableKeep DEF ClientCloses, Executed, InactivityCancel, WaitForStreams,
     WriterStep, Broadcast, WriteReturns, ShutdownCancel, ShutdownReturn,
     ShutdownExpires, vars
<1> QED
  BY <1>1, <1>2, <1>3, <1>4, <1>5, <1>6, <1>7, <1>8, <1>9, <1>10
  DEF Next, HandlerStep, TimerStep

LEMMA TablesKept == Spec => []TableInv
<1>1. Init => TableInv
  BY DEF Init, TableInv, Joined, StreamsOfThisRun
<1> QED
  BY <1>1, TableStep, TypeCorrect, BookkeepingKept, PTL DEF Spec

\* Whatever connections come, go, time out or fail to be answered, a broadcast to a
\* run's stream table reaches connections of that run only (streams.go, conns).
THEOREM TablesOfOneRun == Spec => []StreamsOfThisRun
<1>1. TableInv => StreamsOfThisRun
  BY DEF TableInv
<1> QED
  BY <1>1, TablesKept, PTL

\* A step that binds a known ID at most, and passes no request on.
LEMMA CellBind ==
  ASSUME TypeOK, BoundToOneCell, NEW m, NEW k \in KnownIDs, bindKnownID(m, k),
         UNCHANGED forwarded
  PROVE  BoundToOneCell'
<1> SUFFICES ASSUME NEW n \in Muxes PROVE forwarded[n] \subseteq {known'[n]}
  BY DEF BoundToOneCell
<1>1. CASE known[n] = None
  <2>1. forwarded[n] \subseteq KnownIDs /\ forwarded[n] \subseteq {None}
    BY <1>1 DEF TypeOK, BoundToOneCell
  <2> QED
    BY <2>1, RegistryConstants
<1>2. CASE known[n] # None
  <2>1. known'[n] = known[n]
    BY <1>2 DEF TypeOK, bindKnownID
  <2> QED
    BY <2>1 DEF BoundToOneCell
<1> QED
  BY <1>1, <1>2

\* Every request a multiplexer let through, over all the connections that ever
\* joined its run, names the one cell it is bound to (authorizeRequest).
THEOREM OneCellPerRun == Spec => []BoundToOneCell
<1>1. Init => BoundToOneCell
  BY DEF Init, BoundToOneCell
<1>2. TypeOK /\ BoundToOneCell /\ [Next]_vars => BoundToOneCell'
  <2> SUFFICES ASSUME TypeOK, BoundToOneCell, [Next]_vars PROVE BoundToOneCell'
    OBVIOUS
  <2> USE DEF stopVars, busyVars, muxVars, tableVars, connVars
  <2>a. ASSUME UNCHANGED <<known, forwarded>> PROVE BoundToOneCell'
    BY <2>a DEF BoundToOneCell
  <2>1. ASSUME NEW c \in Conns, \/ WaitForStreams(c) \/ HandleConnection(c)
                                \/ RefuseOpen(c) \/ Refused(c) \/ Acknowledge(c)
                                \/ AcknowledgeFails(c)
        PROVE  BoundToOneCell'
    BY <2>1, <2>a DEF WaitForStreams, HandleConnection, RefuseOpen, Refuse, Refused,
       Acknowledge, AcknowledgeFails
  <2>2. ASSUME NEW c \in Conns, NEW k \in KnownIDs, Start(c, k) \/ Resume(c, k)
        PROVE  BoundToOneCell'
    <3>1. UNCHANGED forwarded
      BY <2>2 DEF Start, Resume
    <3>2. UNCHANGED known \/ \E m : bindKnownID(m, k)
      BY <2>2 DEF Start, Resume, Refuse, Bind
    <3> QED
      BY <3>1, <3>2, <2>a, CellBind
  <2>3. ASSUME NEW c \in Conns, NEW k \in KnownIDs, ReceiveRequest(c, k)
        PROVE  BoundToOneCell'
    <3>1. CASE UNCHANGED <<known, forwarded>>
      BY <3>1, <2>a
    <3>2. CASE /\ Authorized(mux[c], k) /\ bindKnownID(mux[c], k)
               /\ forwarded' = [forwarded EXCEPT ![mux[c]] = @ \cup {k}]
      <4> DEFINE m == mux[c]
      <4>1. ASSUME NEW n \in Muxes, n # m PROVE forwarded'[n] \subseteq {known'[n]}
        BY <4>1, <3>2 DEF BoundToOneCell, bindKnownID, TypeOK
      <4>2. ASSUME m \in Muxes PROVE forwarded'[m] \subseteq {known'[m]}
        <5>1. known'[m] = k /\ forwarded'[m] = forwarded[m] \cup {k}
          BY <4>2, <3>2, RegistryConstants DEF Authorized, bindKnownID, TypeOK
        <5>2. forwarded[m] \subseteq {k}
          BY <4>2, <3>2, RegistryConstants DEF Authorized, BoundToOneCell, TypeOK
        <5> QED
          BY <5>1, <5>2
      <4> QED
        BY <4>1, <4>2 DEF BoundToOneCell
    <3> QED
      BY <2>3, <3>1, <3>2 DEF ReceiveRequest
  <2>4. ASSUME NEW c \in Conns, RejectRequest(c) PROVE BoundToOneCell'
    BY <2>4, <2>a, CellBind DEF RejectRequest
  <2>5. ASSUME NEW c \in Conns, \/ ReceivePing(c) \/ ReceiveFails(c) \/ Leave(c)
                                \/ OwnerStep(c) \/ ClientCloses(c)
        PROVE  BoundToOneCell'
    BY <2>5, <2>a DEF ReceivePing, ReceiveFails, Leave, OwnerStep, Process, SendBlocks,
       SendReturns, Finalize, CloseStreams, RemoveRun, ClientCloses
  <2>6. CASE \/ \E m \in Muxes : Executed(m) \/ WriterStep(m)
             \/ \E c \in Conns : TimerStep(c)
             \/ ShutdownCancel \/ ShutdownReturn \/ ShutdownExpires \/ UNCHANGED vars
    BY <2>6, <2>a DEF Executed, WriterStep, Broadcast, WriteReturns, TimerStep,
       InactivityTimeout, InactivityCancel, ShutdownCancel, ShutdownReturn,
       ShutdownExpires, vars
  <2> QED
    BY <2>1, <2>2, <2>3, <2>4, <2>5, <2>6 DEF Next, HandlerStep, ReaderStep
<1> QED
  BY <1>1, <1>2, TypeCorrect, PTL DEF Spec

-----------------------------------------------------------------------------
(* Who closes a connection.                                                *)

\* The causes for which the server closes a connection that its client keeps open:
\* its run has ended, its run has timed out, or a goroutine cleaned up under its
\* stream ID, in its run.
CloseCause(c) ==
  \/ phase'[mux[c]] = "done" /\ phase[mux[c]] = "grace"
  \/ \E d \in Conns : mux[d] = mux[c] /\ timedOut'[d] /\ ~timedOut[d]
  \/ \E d \in Conns : /\ reader[d] = "leaving" /\ reader'[d] = "gone"
                      /\ RunOf[d] = RunOf[c] /\ StreamOf[d] = StreamOf[c]
  \/ \E d \in Conns : /\ handler[d] = "acking" /\ handler'[d] = "end" /\ d # c
                      /\ RunOf[d] = RunOf[c] /\ StreamOf[d] = StreamOf[c]

LEMMA CloseCaused ==
  TypeOK /\ Bookkeeping /\ TableInv /\ [Next]_vars
    => \A c \in Conns : sock[c] = "open" /\ sock'[c] = "closed" => CloseCause(c)
<1> SUFFICES ASSUME TypeOK, Bookkeeping, TableInv, [Next]_vars,
                    NEW c \in Conns, sock[c] = "open", sock'[c] = "closed"
             PROVE  CloseCause(c)
  OBVIOUS
<1> USE DEF stopVars, busyVars, muxVars, tableVars, connVars
<1>a. ASSUME NEW m \in Muxes, NEW s \in StreamIDs, conns[m][s] = c
      PROVE  mux[c] = m /\ StreamOf[c] = s /\ RunOf[c] = muxRun[m]
  BY <1>a, RegistryConstants DEF TableInv, StreamsOfThisRun
<1>b. ASSUME NEW d \in Conns, mux[d] # None
      PROVE  /\ mux[d] \in Muxes /\ StreamOf[d] \in StreamIDs
             /\ muxRun[mux[d]] = RunOf[d]
  BY <1>b, RegistryConstants DEF TypeOK, TableInv, Joined
<1>1. ASSUME NEW d \in Conns, Leave(d) PROVE CloseCause(c)
  <2>1. mux[d] # None /\ reader[d] = "leaving" /\ reader'[d] = "gone"
    BY <1>1 DEF Leave, TableInv, Joined, TypeOK
  <2>2. conns[mux[d]][StreamOf[d]] = c
    BY <1>1, <2>1, <1>b, RemoveStreamEffect DEF Leave
  <2> QED
    BY <2>1, <2>2, <1>a, <1>b DEF CloseCause
<1>2. ASSUME NEW d \in Conns, AcknowledgeFails(d) PROVE CloseCause(c)
  <2>1. /\ mux[d] # None /\ handler[d] = "acking" /\ handler'[d] = "end"
        /\ d # c
    BY <1>2 DEF AcknowledgeFails, TableInv, Joined, TypeOK
  <2>2. conns[mux[d]][StreamOf[d]] = c
    BY <1>2, <2>1, <1>b, RemoveStreamEffect DEF AcknowledgeFails
  <2> QED
    BY <2>1, <2>2, <1>a, <1>b DEF CloseCause
<1>3. ASSUME NEW d \in Conns, CloseStreams(d) PROVE CloseCause(c)
  <2>1. mux[d] \in Muxes
    BY <1>3 DEF CloseStreams, Bookkeeping, CreatorHolds, CreatorBound, Owes
  <2>2. \E s \in StreamIDs : conns[mux[d]][s] = c
    BY <1>3, <2>1, CloseStreamsEffect DEF CloseStreams
  <2>3. mux[c] = mux[d]
    BY <2>1, <2>2, <1>a
  <2> QED
    BY <1>3, <2>1, <2>3 DEF CloseStreams, CloseCause, TypeOK
<1>4. ASSUME NEW d \in Conns, InactivityTimeout(d) PROVE CloseCause(c)
  <2>1. mux[d] \in Muxes
    BY <1>4, <1>b DEF InactivityTimeout
  <2>2. \E s \in StreamIDs : conns[mux[d]][s] = c
    BY <1>4, <2>1, CloseStreamsEffect DEF InactivityTimeout
  <2>3. mux[c] = mux[d]
    BY <2>1, <2>2, <1>a
  <2> QED
    BY <1>4, <2>3 DEF InactivityTimeout, CloseCause, TypeOK
<1>5. ASSUME NEW d \in Conns, ClientCloses(d) PROVE FALSE
  BY <1>5 DEF ClientCloses, TypeOK
<1>6. ASSUME NEW d \in Conns, HandlerStep(d) PROVE CloseCause(c)
  BY <1>2, <1>6 DEF HandlerStep, WaitForStreams, HandleConnection, RefuseOpen, Refuse, Start,
                    Resume, Refused, Acknowledge
<1>7. ASSUME NEW d \in Conns, ReaderStep(d) PROVE CloseCause(c)
  BY <1>1, <1>7 DEF ReaderStep, ReceiveRequest, RejectRequest, ReceivePing, ReceiveFails
<1>8. ASSUME NEW d \in Conns, OwnerStep(d) PROVE CloseCause(c)
  BY <1>3, <1>8 DEF OwnerStep, Process, SendBlocks, SendReturns, Finalize, RemoveRun
<1>9. ASSUME NEW d \in Conns, TimerStep(d) PROVE CloseCause(c)
  BY <1>4, <1>9 DEF TimerStep, InactivityCancel
<1>10. ASSUME NEW m \in Muxes, Executed(m) \/ WriterStep(m) PROVE UNCHANGED sock
  BY <1>10 DEF Executed, WriterStep, Broadcast, WriteReturns
<1>11. ASSUME ShutdownCancel \/ ShutdownReturn \/ ShutdownExpires \/ UNCHANGED vars
       PROVE  UNCHANGED sock
  BY <1>11 DEF ShutdownCancel, ShutdownReturn, ShutdownExpires, vars
<1>12. sock' # sock
  OBVIOUS
<1> QED
  BY <1>5, <1>6, <1>7, <1>8, <1>9, <1>10, <1>11, <1>12 DEF Next

\* Without any assumption on the IDs that clients choose: what the server closes,
\* other than at the end or the time-out of the run, was reached by a cleanup under
\* the very stream ID and run of the connection (removeStream).
THEOREM ClosedForCause ==
  Spec => [][\A c \in Conns :
               sock[c] = "open" /\ sock'[c] = "closed" => CloseCause(c)]_vars
<1>1. TypeOK /\ Bookkeeping /\ TableInv /\ [Next]_vars
        => [\A c \in Conns : sock[c] = "open" /\ sock'[c] = "closed" => CloseCause(c)]_vars
  BY CloseCaused
<1> QED
  BY <1>1, TypeCorrect, BookkeepingKept, TablesKept, PTL DEF Spec

\* When the connections of a run have stream IDs of their own, which is what a
\* uuidv4 per connection is for (handler.go, Handler), no cleanup, failed answer or
\* refusal of one connection ever closes another one.
THEOREM NobodyElseCloses ==
  ASSUME \A c, d \in Conns : RunOf[c] = RunOf[d] /\ StreamOf[c] = StreamOf[d] => c = d
  PROVE  Spec => NoCrossClose
<1>1. ASSUME NEW c \in Conns, CloseCause(c)
      PROVE  \/ reader[c] = "leaving" /\ reader'[c] = "gone"
             \/ phase'[mux[c]] = "done" /\ phase[mux[c]] = "grace"
             \/ \E d \in Conns : mux[d] = mux[c] /\ timedOut'[d] /\ ~timedOut[d]
  BY <1>1 DEF CloseCause
<1>2. TypeOK /\ Bookkeeping /\ TableInv /\ [Next]_vars
        => [\A c \in Conns :
              (sock[c] = "open" /\ sock'[c] = "closed")
                => \/ reader[c] = "leaving" /\ reader'[c] = "gone"
                   \/ phase'[mux[c]] = "done" /\ phase[mux[c]] = "grace"
                   \/ \E d \in Conns :
                        mux[d] = mux[c] /\ timedOut'[d] /\ ~timedOut[d]]_vars
  BY <1>1, CloseCaused
<1> QED
  BY <1>2, TypeCorrect, BookkeepingKept, TablesKept, PTL DEF Spec, NoCrossClose

-----------------------------------------------------------------------------
(* The registry implements the leasing of run IDs.                         *)

LEMMA RegisteredIff ==
  ASSUME TypeOK, Bookkeeping, NEW m \in Muxes
  PROVE  m \in Registered <=> muxRun[m] # None /\ runs[muxRun[m]] = m
BY RegistryConstants DEF TypeOK, Bookkeeping, EntryFiled, Registered

\* The stage of a multiplexer is a function of the registry and its phase.
LEMMA StageStutter ==
  ASSUME UNCHANGED <<runs, muxRun, phase>>
  PROVE  UNCHANGED <<[m \in Muxes |-> Stage(m)], muxRun>>
BY DEF Stage, Registered

LEMMA StageAcquire ==
  ASSUME TypeOK, Bookkeeping, TypeOK', Bookkeeping', NEW r \in RunIDs, NEW m \in Muxes,
         runs[r] = None, newMultiplexer(m, r), UNCHANGED phase
  PROVE  Lease!Acquire(m, r)
<1> USE RegistryConstants DEF newMultiplexer
<1>1. Stage(m) = "unborn"
  BY DEF Stage
<1>2. ASSUME NEW n \in Muxes, muxRun[n] = r PROVE Stage(n) = "released"
  BY <1>2, RegisteredIff DEF Stage
<1>3. Stage(m)' = "held"
  <2>1. muxRun'[m] = r /\ runs'[r] = m /\ phase'[m] = "new"
    BY DEF TypeOK, Bookkeeping, PhaseReached
  <2>2. m \in Registered'
    BY <2>1 DEF Registered
  <2> QED
    BY <2>1, <2>2 DEF Stage
<1>4. ASSUME NEW n \in Muxes, n # m PROVE Stage(n)' = Stage(n)
  <2>1. muxRun'[n] = muxRun[n] /\ phase'[n] = phase[n]
    BY <1>4 DEF TypeOK
  <2>2. n \in Registered' <=> n \in Registered
    BY <1>4 DEF TypeOK, Registered
  <2> QED
    BY <2>1, <2>2 DEF Stage
<1>5. [n \in Muxes |-> Stage(n)]' = [[n \in Muxes |-> Stage(n)] EXCEPT ![m] = "held"]
  BY <1>3, <1>4
<1> QED
  BY <1>1, <1>2, <1>5 DEF Lease!Acquire, Lease!Holding

LEMMA StageRelease ==
  ASSUME TypeOK, Bookkeeping, NEW c \in Conns, NEW m \in Muxes, created[c], mux[c] = m,
         handler[c] \in {"acking", "removing"},
         runs' = [runs EXCEPT ![RunOf[c]] = None], UNCHANGED <<muxRun, phase>>
  PROVE  Lease!Release(m)
<1>1. /\ muxRun[m] = RunOf[c] /\ runs[RunOf[c]] = m /\ phase[m] \in {"new", "done"}
  BY DEF Bookkeeping, CreatorBound, CreatorHolds, CreatorPhase, Owes
<1>2. RunOf[c] \in RunIDs /\ RunOf[c] # None
  BY RunOfTyped
<1>3. Stage(m) \in {"held", "closed"}
  BY <1>1, <1>2, RegisteredIff DEF Stage
<1>4. Stage(m)' = "released"
  <2>1. \A r \in RunIDs : runs'[r] # m
    BY <1>1, <1>2, RegistryConstants DEF TypeOK, Bookkeeping, EntryFiled
  <2>2. ~(m \in Registered')
    BY <2>1 DEF Registered
  <2> QED
    BY <1>1, <1>2, <2>2 DEF Stage
<1>5. ASSUME NEW n \in Muxes \ {m} PROVE Stage(n)' = Stage(n)
  <2>1. n \in Registered' <=> n \in Registered
    BY <1>1, <1>2, <1>5, RegistryConstants DEF TypeOK, Registered
  <2> QED
    BY <2>1 DEF Stage
<1>6. [n \in Muxes |-> Stage(n)]' = [[n \in Muxes |-> Stage(n)] EXCEPT ![m] = "released"]
  BY <1>4, <1>5
<1> QED
  BY <1>3, <1>6 DEF Lease!Release

LEMMA StageAdvance ==
  ASSUME TypeOK, Bookkeeping, NEW c \in Conns, NEW m \in Muxes, mux[c] = m,
         handler[c] = "process", NEW p \in {"running", "grace", "done"},
         phase' = [phase EXCEPT ![m] = p], UNCHANGED <<runs, muxRun>>
  PROVE  /\ phase[m] = "new" /\ p = "running" => Lease!Begin(m)
         /\ phase[m] = "running" /\ p = "grace"
              => UNCHANGED <<[n \in Muxes |-> Stage(n)], muxRun>>
         /\ phase[m] = "grace" /\ p = "done" => Lease!Complete(m)
<1>1. muxRun[m] = RunOf[c] /\ runs[RunOf[c]] = m
  BY DEF Bookkeeping, CreatorBound, CreatorHolds, Owes
<1>2. m \in Registered /\ muxRun[m] # None
  BY <1>1, RegisteredIff, RunOfTyped
<1>3. phase'[m] = p /\ \A n \in Muxes \ {m} : phase'[n] = phase[n]
  BY DEF TypeOK
<1>4. Registered' = Registered
  BY DEF Registered
<1>5. \A n \in Muxes \ {m} : Stage(n)' = Stage(n)
  BY <1>3, <1>4 DEF Stage
<1>6. ASSUME phase[m] = "new", p = "running" PROVE Lease!Begin(m)
  <2>1. Stage(m) = "held" /\ Stage(m)' = "working"
    BY <1>2, <1>3, <1>4, <1>6 DEF Stage
  <2>2. [n \in Muxes |-> Stage(n)]'
          = [[n \in Muxes |-> Stage(n)] EXCEPT ![m] = "working"]
    BY <1>5, <2>1
  <2> QED
    BY <2>1, <2>2 DEF Lease!Begin
<1>7. ASSUME phase[m] = "running", p = "grace"
      PROVE  UNCHANGED <<[n \in Muxes |-> Stage(n)], muxRun>>
  <2>1. Stage(m)' = Stage(m)
    BY <1>2, <1>3, <1>4, <1>7 DEF Stage
  <2> QED
    BY <1>5, <2>1
<1>8. ASSUME phase[m] = "grace", p = "done" PROVE Lease!Complete(m)
  <2>1. Stage(m) = "working" /\ Stage(m)' = "closed"
    BY <1>2, <1>3, <1>4, <1>8 DEF Stage
  <2>2. [n \in Muxes |-> Stage(n)]'
          = [[n \in Muxes |-> Stage(n)] EXCEPT ![m] = "closed"]
    BY <1>5, <2>1
  <2> QED
    BY <2>1, <2>2 DEF Lease!Complete
<1> QED
  BY <1>6, <1>7, <1>8

\* Every step of the registry is a step of the leasing, or none.
LEMMA LeaseStep ==
  ASSUME TypeOK, Bookkeeping, TypeOK', Bookkeeping', [Next]_vars
  PROVE  [Lease!LeaseNext]_(Lease!leaseVars)
<1> DEFINE Idle == UNCHANGED <<runs, muxRun, phase>>
<1>1. ASSUME Idle PROVE [Lease!LeaseNext]_(Lease!leaseVars)
  BY <1>1, StageStutter DEF Lease!leaseVars
<1>2. ASSUME NEW c \in Conns, NEW m \in Muxes, newMultiplexer(m, RunOf[c]),
             runs[RunOf[c]] = None, UNCHANGED phase
      PROVE  Lease!LeaseNext
  BY <1>2, StageAcquire, RegistryConstants DEF Lease!LeaseNext
<1>3. ASSUME NEW c \in Conns, created[c], handler[c] \in {"acking", "removing"},
             runs' = [runs EXCEPT ![RunOf[c]] = None], UNCHANGED <<muxRun, phase>>
      PROVE  Lease!LeaseNext
  <2>1. mux[c] \in Muxes
    BY <1>3 DEF Bookkeeping, CreatorBound
  <2>2. Lease!Release(mux[c])
    BY <1>3, <2>1, StageRelease
  <2> QED
    BY <2>1, <2>2 DEF Lease!LeaseNext
<1>4. ASSUME NEW c \in Conns, HandleConnection(c)
      PROVE  [Lease!LeaseNext]_(Lease!leaseVars)
  BY <1>1, <1>2, <1>4 DEF HandleConnection
<1>5. ASSUME NEW c \in Conns, \/ WaitForStreams(c) \/ RefuseOpen(c) \/ Refused(c)
                              \/ ClientCloses(c) \/ ReaderStep(c) \/ TimerStep(c)
                              \/ SendBlocks(c) \/ SendReturns(c)
      PROVE  [Lease!LeaseNext]_(Lease!leaseVars)
  <2>1. Idle
    BY <1>5 DEF WaitForStreams, RefuseOpen, Refuse, Refused, ClientCloses, ReaderStep,
                ReceiveRequest, RejectRequest, ReceivePing, ReceiveFails, Leave,
                TimerStep, InactivityTimeout, InactivityCancel, SendBlocks,
                SendReturns, muxVars
  <2> QED
    BY <1>1, <2>1
<1>6. ASSUME NEW c \in Conns, NEW k \in KnownIDs, Start(c, k)
      PROVE  [Lease!LeaseNext]_(Lease!leaseVars)
  BY <1>1, <1>2, <1>6 DEF Start, Refuse
<1>7. ASSUME NEW c \in Conns, NEW k \in KnownIDs, Resume(c, k)
      PROVE  [Lease!LeaseNext]_(Lease!leaseVars)
  <2>1. Idle
    BY <1>7 DEF Resume, Refuse
  <2> QED
    BY <1>1, <2>1
<1>8. ASSUME NEW c \in Conns, Acknowledge(c)
      PROVE  [Lease!LeaseNext]_(Lease!leaseVars)
  BY <1>1, <1>8 DEF Acknowledge, muxVars
<1>9. ASSUME NEW c \in Conns, AcknowledgeFails(c)
      PROVE  [Lease!LeaseNext]_(Lease!leaseVars)
  BY <1>1, <1>3, <1>9 DEF AcknowledgeFails, muxVars
<1>10. ASSUME NEW c \in Conns, Process(c) \/ Finalize(c) \/ CloseStreams(c)
       PROVE  [Lease!LeaseNext]_(Lease!leaseVars)
  <2> DEFINE m == mux[c]
  <2>1. handler[c] = "process" /\ mux[c] \in Muxes
    BY <1>10 DEF Process, Finalize, CloseStreams, Bookkeeping, CreatorHolds,
                 CreatorBound, Owes
  <2>2. CASE Process(c)
    <3>1. Lease!Begin(mux[c])
      BY <2>1, <2>2, StageAdvance DEF Process
    <3> QED
      BY <2>1, <3>1 DEF Lease!LeaseNext
  <2>3. CASE Finalize(c)
    <3>1. UNCHANGED <<[n \in Muxes |-> Stage(n)], muxRun>>
      BY <2>1, <2>3, StageAdvance DEF Finalize
    <3> QED
      BY <3>1 DEF Lease!leaseVars
  <2>4. CASE CloseStreams(c)
    <3>1. Lease!Complete(mux[c])
      BY <2>1, <2>4, StageAdvance DEF CloseStreams
    <3> QED
      BY <2>1, <3>1 DEF Lease!LeaseNext
  <2> QED
    BY <1>10, <2>2, <2>3, <2>4
<1>11. ASSUME NEW c \in Conns, RemoveRun(c)
       PROVE  [Lease!LeaseNext]_(Lease!leaseVars)
  <2>1. created[c]
    BY <1>11 DEF RemoveRun, Bookkeeping, CreatorHolds, Owes
  <2> QED
    BY <1>3, <1>11, <2>1 DEF RemoveRun, muxVars
<1>12. ASSUME NEW m \in Muxes, Executed(m) \/ WriterStep(m)
       PROVE  [Lease!LeaseNext]_(Lease!leaseVars)
  BY <1>1, <1>12 DEF Executed, WriterStep, Broadcast, WriteReturns, muxVars
<1>13. ASSUME ShutdownCancel \/ ShutdownReturn \/ ShutdownExpires
       PROVE  [Lease!LeaseNext]_(Lease!leaseVars)
  BY <1>1, <1>13 DEF ShutdownCancel, ShutdownReturn, ShutdownExpires, muxVars
<1>14. ASSUME UNCHANGED vars PROVE [Lease!LeaseNext]_(Lease!leaseVars)
  BY <1>1, <1>14 DEF vars, muxVars
<1> QED
  BY <1>4, <1>5, <1>6, <1>7, <1>8, <1>9, <1>10, <1>11, <1>12, <1>13, <1>14
     DEF Next, HandlerStep, OwnerStep

\* Connections, locks and timers aside, the registry leases each run ID to one
\* multiplexer at a time (handler.go, h.runs).
THEOREM RegistryLeases == Spec => LeaseSpec
<1>1. Init => Lease!LeaseInit
  BY DEF Init, Lease!LeaseInit, Stage
<1>2. TypeOK /\ Bookkeeping /\ TypeOK' /\ Bookkeeping' /\ [Next]_vars
        => [Lease!LeaseNext]_(Lease!leaseVars)
  BY LeaseStep
<1> QED
  BY <1>1, <1>2, TypeCorrect, BookkeepingKept, PTL DEF Spec, LeaseSpec, Lease!LeaseSpec
=============================================================================

------------------------- MODULE JupyterProxyProofs -------------------------
(***************************************************************************)
(* Proofs about JupyterProxy for any requests and kernels, any number of   *)
(* restarts of the Jupyter server and of messages, and any capacity of the *)
(* websockets.                                                             *)
(***************************************************************************)
EXTENDS JupyterProxyProps, SequenceFacts

-----------------------------------------------------------------------------
(* The inductive invariants.                                               *)

Statuses == {"none", "ok", "bad request", "not found", "forbidden", "bad gateway", "bridged"}
Errors == {"fail", "timeout", "write_ping"}

\* The part of TypeOK about the registry and the requests, with the functions' domains.
RequestShapes ==
  /\ file \in Records /\ accepted \in 1..(Restarts + 1) /\ servers \in Records
  /\ pc \in [All -> {"never", "idle", "resolve", "reload", "publish", "lookup", "send", "bridge",
                     "answered"}]
  /\ attempts \in [All -> 0..2] /\ loaded \in [All -> Records]
  /\ token \in [All -> 0..(Restarts + 1)]
  /\ answer \in [All -> Statuses] /\ excused \in [All -> BOOLEAN]

\* A request is sent with a token, the second time with another one; and one that
\* nothing excuses has found the accepted token wherever it looked.
Serving(q) == pc[q] \in {"resolve", "reload", "publish", "lookup", "send"}
Informed(q) ==
  /\ file = accepted
  /\ pc[q] = "publish" => loaded[q] = accepted
  /\ pc[q] = "lookup" => servers = accepted
  /\ attempts[q] = 1 => (pc[q] = "send" <=> token[q] = accepted)
ServeInv ==
  \A q \in All :
    /\ pc[q] \in {"send", "bridge"} => token[q] # 0
    /\ pc[q] \in {"never", "idle", "resolve"} => attempts[q] = 0
    /\ Serving(q) => attempts[q] <= 1 /\ (excused[q] \/ Informed(q))

\* The part of TypeOK about the bridges, with the functions' domains.
Wires == /\ wire \in [Channels -> [Dirs -> Seq(Nat)]]
         /\ \A k \in Channels, d \in Dirs : Len(wire[k][d]) <= WireCap
Loops == loop \in [Channels -> [Dirs -> {"off", "read", "write", "fail", "timeout", "done"}]]
Counts == /\ sent \in [Channels -> [Dirs -> Nat]]
          /\ \A k \in Channels, d \in Dirs : sent[k][d] <= Messages[d]
Reports == errs \in [Channels -> Seq(Errors)] /\ \A k \in Channels : Len(errs[k]) <= ErrCap
Holds == /\ hand \in [Channels -> [Dirs -> Nat]]
         /\ written \in [Channels -> [Dirs -> Seq(Nat)]]
Clocks == since \in [Channels -> 0..PongWait] /\ lapse \in [Channels -> BOOLEAN]
BridgeShapes == Wires /\ Loops /\ Counts /\ Reports /\ Holds /\ Clocks

\* What a loop is to write it has not written; a loop that does not bridge has nothing.
Pending ==
  \A k \in Channels, d \in Dirs :
    /\ loop[k][d] = "write" => hand[k][d] = Len(written[k][d]) + 1
    /\ loop[k][d] = "off" => hand[k][d] = Len(written[k][d])

\* As long as the loop could read all pongs, the last ping was answered by one that has
\* still to be read, or none was sent since.
PongDue ==
  \A k \in Channels :
    lapse[k] \/ since[k] = 0 \/ (since[k] = 1 /\ Pong \in ToSet(wire[k].toUpstream))

BridgeInv == BridgeShapes /\ Relayed /\ Pending /\ PongDue /\ AnsweringClientIsKept

-----------------------------------------------------------------------------
(* The requests.                                                           *)

\* Tokens are numbers from 1 on, and no token is None.
LEMMA Tokens ==
  /\ Restarts \in Nat /\ 0 \in 0..(Restarts + 1)
  /\ None \notin 0..(Restarts + 1) /\ 1..(Restarts + 1) \subseteq 0..(Restarts + 1)
  /\ Requests \cap Channels = {} /\ Requests \subseteq All /\ Channels \subseteq All
  BY JupyterConstants DEF All

\* What a bridge does, other than to return, and what surrounds it, leaves the requests
\* and the registry alone.
LEMMA BridgesApart ==
  ASSUME [Next]_vars
  PROVE  \/ \E q \in All : Arrive(q) \/ Serve(q)
         \/ Restart \/ WriteFile \/ RemoveFile
         \/ \E k \in Channels : BridgeReturns(k)
         \/ UNCHANGED <<registry, request>>
<1>1. ASSUME NEW k \in Channels, \/ ReadPong(k) \/ ReadTimesOut(k) \/ Pinging(k)
                                 \/ PingTimesOut(k)
      PROVE  UNCHANGED <<registry, request>>
  BY <1>1 DEF ReadPong, ReadTimesOut, Pinging, Ping, PingFails, PingReported, PingStops,
     PingTimesOut
<1>2. ASSUME NEW k \in Channels, NEW d \in Dirs, PeerSends(k, d) \/ Bridging(k, d)
      PROVE  UNCHANGED <<registry, request>>
  BY <1>2 DEF PeerSends, Bridging, ReadMessage, ReadFails, WriteMessage, WriteFails, BridgingEnds
<1>3. ASSUME NEW k \in Channels, NEW e \in Ends, NEW state \in {"up", "mute", "gone"},
             PeerChanges(k, e, state)
      PROVE  UNCHANGED <<registry, request>>
  BY <1>3 DEF PeerChanges
<1>4. CASE UNCHANGED vars
  BY <1>4 DEF vars
<1> QED
  BY <1>1, <1>2, <1>3, <1>4 DEF Next

LEMMA RequestInit == Init => RequestShapes /\ ServeInv
<1> SUFFICES ASSUME Init PROVE RequestShapes /\ ServeInv
  OBVIOUS
<1>1. PICK a \in Arrivals : pc = [q \in All |-> IF q \in a THEN "idle" ELSE "never"]
  BY DEF Init
<1>2. \A q \in All : pc[q] \in {"idle", "never"}
  BY <1>1
<1>3. RequestShapes
  BY <1>1, Tokens DEF Init, RequestShapes, Records, Statuses
<1>4. ServeInv
  BY <1>2 DEF Init, ServeInv, Serving
<1> QED
  BY <1>3, <1>4

\* A step that excuses requests lets the other excuses be.
LEMMA ExcuseShape ==
  ASSUME NEW qs, Excuse(qs), excused \in [All -> BOOLEAN]
  PROVE  /\ excused' \in [All -> BOOLEAN]
         /\ \A q \in All : excused[q] \/ q \in qs => excused'[q]
  BY DEF Excuse

\* Each step keeps the shapes of the variables.
LEMMA RequestShapesStep ==
  ASSUME RequestShapes, ServeInv, [Next]_vars
  PROVE  RequestShapes'
<1> USE DEF RequestShapes
<1> DEFINE Labels == {"never", "idle", "resolve", "reload", "publish", "lookup", "send", "bridge",
                      "answered"}
<1>0. excused \in [All -> BOOLEAN] /\ answer \in [All -> Statuses] /\ pc \in [All -> Labels]
  OBVIOUS
<1>1. ASSUME NEW q \in All, Arrive(q) PROVE RequestShapes'
  <2>1. excused' \in [All -> BOOLEAN]
    BY <1>1, ExcuseShape DEF Arrive
  <2> QED
    BY <1>1, <2>1 DEF Arrive, Goto, registry
<1>2. ASSUME NEW q \in All, NEW record \in 0..(Restarts + 1), Use(q, record)
      PROVE  /\ pc' \in [All -> Labels] /\ answer' \in [All -> Statuses]
             /\ token' \in [All -> 0..(Restarts + 1)]
  BY <1>2 DEF Use, Answer, Goto, Statuses
<1>3. ASSUME NEW q \in All, NEW status \in Statuses, Answer(q, status)
      PROVE  pc' \in [All -> Labels] /\ answer' \in [All -> Statuses]
  BY <1>3 DEF Answer, Goto
<1>4. servers # None => servers \in 0..(Restarts + 1)
  BY DEF Records
<1>5. ASSUME NEW q \in All, Resolve(q) PROVE RequestShapes'
  <2>1. CASE servers = None
    BY <1>5, <2>1 DEF Resolve, Goto, registry
  <2>2. CASE servers # None
    BY <1>2, <1>4, <1>5, <2>2 DEF Resolve, registry
  <2> QED
    BY <2>1, <2>2
<1>6. ASSUME NEW q \in All, ReadServers(q) PROVE RequestShapes'
  BY <1>6 DEF ReadServers, Goto, registry
<1>7. ASSUME NEW q \in All, ReadServersFails(q) PROVE RequestShapes'
  <2>1. excused' \in [All -> BOOLEAN]
    BY <1>7, ExcuseShape DEF ReadServersFails
  <2>2. pc' \in [All -> Labels] /\ answer' \in [All -> Statuses]
    BY <1>3, <1>7 DEF ReadServersFails, Statuses
  <2> QED
    BY <1>7, <2>1, <2>2 DEF ReadServersFails, registry
<1>8. ASSUME NEW q \in All, PublishServers(q) PROVE RequestShapes'
  <2>1. excused' \in [All -> BOOLEAN]
    BY <1>8, ExcuseShape DEF PublishServers
  <2> QED
    BY <1>8, <2>1 DEF PublishServers, Goto, Records
<1>9. ASSUME NEW q \in All, LookupResolved(q) PROVE RequestShapes'
  <2>1. CASE servers = None
    BY <1>3, <1>9, <2>1 DEF LookupResolved, registry, Statuses
  <2>2. CASE servers # None
    BY <1>2, <1>4, <1>9, <2>2 DEF LookupResolved, registry
  <2> QED
    BY <2>1, <2>2
<1>10. ASSUME NEW q \in All, LookupRefreshed(q) PROVE RequestShapes'
  <2>1. CASE servers \in {None, 0, token[q]}
    BY <1>3, <1>10, <2>1 DEF LookupRefreshed, registry, Statuses
  <2>2. CASE servers \notin {None, 0, token[q]}
    BY <1>2, <1>4, <1>10, <2>2 DEF LookupRefreshed, registry
  <2> QED
    BY <2>1, <2>2
<1>11. ASSUME NEW q \in All, Attempt(q), pc[q] = "send"
       PROVE  attempts' \in [All -> 0..2]
  BY <1>11 DEF Attempt, ServeInv, Serving
<1>12. ASSUME NEW q \in All, Forwarded(q) \/ Unanswered(q) \/ DialForbidden(q)
       PROVE  RequestShapes'
  <2>1. pc' \in [All -> Labels] /\ answer' \in [All -> Statuses]
    BY <1>3, <1>12 DEF Forwarded, Unanswered, DialForbidden, Statuses
  <2>2. attempts' \in [All -> 0..2]
    BY <1>11, <1>12 DEF Forwarded, Unanswered, DialForbidden
  <2> QED
    BY <1>12, <2>1, <2>2 DEF Forwarded, Unanswered, DialForbidden, registry
<1>13. ASSUME NEW q \in All, Forbidden(q) PROVE RequestShapes'
  <2>1. attempts' \in [All -> 0..2]
    BY <1>11, <1>13 DEF Forbidden
  <2>2. CASE attempts[q] = 0
    BY <1>13, <2>1, <2>2 DEF Forbidden, Goto, registry
  <2>3. CASE attempts[q] # 0
    BY <1>3, <1>13, <2>1, <2>3 DEF Forbidden, registry, Statuses
  <2> QED
    BY <2>2, <2>3
<1>14. ASSUME NEW q \in All, Dialled(q) PROVE RequestShapes'
  BY <1>11, <1>14 DEF Dialled, Goto, registry
<1>15. CASE Restart \/ RemoveFile
  <2>1. excused' \in [All -> BOOLEAN]
    BY <1>15, ExcuseShape DEF Restart, RemoveFile
  <2> QED
    BY <1>15, <2>1, Tokens DEF Restart, RemoveFile, Records
<1>16. CASE WriteFile
  BY <1>16, Tokens DEF WriteFile, request, Records
<1>17. ASSUME NEW k \in Channels, BridgeReturns(k) PROVE RequestShapes'
  BY <1>3, <1>17, Tokens DEF BridgeReturns, registry, Statuses
<1>18. CASE UNCHANGED <<registry, request>>
  BY <1>18 DEF registry, request
<1> QED
  BY <1>1, <1>5, <1>6, <1>7, <1>8, <1>9, <1>10, <1>12, <1>13, <1>14, <1>15, <1>16, <1>17,
     <1>18, BridgesApart DEF Serve

-----------------------------------------------------------------------------
(* Who is refused.                                                         *)

Served(q) ==
  /\ pc[q] \in {"send", "bridge"} => token[q] # 0
  /\ pc[q] \in {"never", "idle", "resolve"} => attempts[q] = 0
  /\ Serving(q) => attempts[q] <= 1 /\ (excused[q] \/ Informed(q))

\* A request that goes on by itself leaves the others as they were.
LEMMA OthersServed ==
  ASSUME ServeInv, NEW q \in All, UNCHANGED registry,
         \A p \in All : excused[p] => excused'[p],
         \A p \in All \ {q} : /\ pc'[p] = pc[p] /\ attempts'[p] = attempts[p]
                              /\ loaded'[p] = loaded[p] /\ token'[p] = token[p],
         Served(q)'
  PROVE  ServeInv'
<1>1. ASSUME NEW p \in All \ {q} PROVE Served(p)'
  BY <1>1 DEF ServeInv, Served, Serving, Informed, registry
<1> QED
  BY <1>1 DEF ServeInv, Served

\* With a record that is not None, a request is sent with it or refused.
LEMMA UseRecord ==
  ASSUME RequestShapes, NEW q \in All, servers # None, Use(q, servers)
  PROVE  /\ servers \in 0..(Restarts + 1)
         /\ \/ pc'[q] = "answered" /\ UNCHANGED token
            \/ servers # 0 /\ pc'[q] = "send" /\ token' = [token EXCEPT ![q] = servers]
                           /\ token'[q] = servers
         /\ \A p \in All \ {q} : pc'[p] = pc[p] /\ token'[p] = token[p]
  BY DEF Use, Answer, Goto, RequestShapes, Records

\* Each step keeps the invariant of the requests, and refuses no request but for cause.
LEMMA ServeStep ==
  ASSUME RequestShapes, ServeInv, [Next]_vars
  PROVE  ServeInv'
<1> USE DEF RequestShapes
<1>1. ASSUME NEW q \in All, Arrive(q) PROVE ServeInv'
  <2>1. \A p \in All : excused[p] => excused'[p]
    BY <1>1, ExcuseShape DEF Arrive
  <2>2. excused'[q] \/ file = accepted
    BY <1>1, ExcuseShape DEF Arrive
  <2>3. Served(q)'
    BY <1>1, <2>2 DEF Arrive, Goto, ServeInv, Served, Serving, Informed, registry
  <2> QED
    BY <1>1, <2>1, <2>3, OthersServed DEF Arrive, Goto
<1>2. ASSUME NEW q \in All, Resolve(q) PROVE ServeInv'
  <2>1. CASE servers = None
    <3>1. Served(q)'
      BY <1>2, <2>1 DEF Resolve, Goto, ServeInv, Served, Serving, Informed, registry
    <3> QED
      BY <1>2, <2>1, <3>1, OthersServed DEF Resolve, Goto
  <2>2. CASE servers # None
    <3>1. Served(q)'
      BY <1>2, <2>2, UseRecord DEF Resolve, ServeInv, Served, Serving, Informed, registry
    <3> QED
      BY <1>2, <2>2, <3>1, UseRecord, OthersServed DEF Resolve
  <2> QED
    BY <2>1, <2>2
<1>3. ASSUME NEW q \in All, ReadServers(q) PROVE ServeInv'
  <2>1. Served(q)'
    BY <1>3 DEF ReadServers, Goto, ServeInv, Served, Serving, Informed, registry
  <2> QED
    BY <1>3, <2>1, OthersServed DEF ReadServers, Goto
<1>4. ASSUME NEW q \in All, ReadServersFails(q) PROVE ServeInv'
  <2>1. \A p \in All : excused[p] => excused'[p]
    BY <1>4, ExcuseShape DEF ReadServersFails
  <2>2. Served(q)'
    BY <1>4 DEF ReadServersFails, Answer, Goto, Served, Serving
  <2> QED
    BY <1>4, <2>1, <2>2, OthersServed DEF ReadServersFails, Answer, Goto
<1>5. ASSUME NEW q \in All, PublishServers(q) PROVE ServeInv'
  <2>1. /\ \A p \in All : excused[p] => excused'[p]
        /\ loaded[q] # file => \A p \in All : pc[p] = "lookup" => excused'[p]
    BY <1>5, ExcuseShape DEF PublishServers
  <2>2. ASSUME NEW p \in All \ {q} PROVE Served(p)'
    BY <1>5, <2>1, <2>2 DEF PublishServers, Goto, ServeInv, Served, Serving, Informed
  <2>3. Served(q)'
    BY <1>5, <2>1 DEF PublishServers, Goto, ServeInv, Served, Serving, Informed
  <2> QED
    BY <2>2, <2>3 DEF ServeInv, Served
<1>6. ASSUME NEW q \in All, LookupResolved(q) PROVE ServeInv'
  <2>1. CASE servers = None
    <3>1. Served(q)'
      BY <1>6, <2>1 DEF LookupResolved, Answer, Goto, Served, Serving
    <3> QED
      BY <1>6, <2>1, <3>1, OthersServed DEF LookupResolved, Answer, Goto
  <2>2. CASE servers # None
    <3>1. Served(q)'
      BY <1>6, <2>2, UseRecord DEF LookupResolved, ServeInv, Served, Serving, Informed, registry
    <3> QED
      BY <1>6, <2>2, <3>1, UseRecord, OthersServed DEF LookupResolved
  <2> QED
    BY <2>1, <2>2
<1>7. ASSUME NEW q \in All, LookupRefreshed(q) PROVE ServeInv'
  <2>1. CASE servers \in {None, 0, token[q]}
    <3>1. Served(q)'
      BY <1>7, <2>1 DEF LookupRefreshed, Answer, Goto, Served, Serving
    <3> QED
      BY <1>7, <2>1, <3>1, OthersServed DEF LookupRefreshed, Answer, Goto
  <2>2. CASE servers \notin {None, 0, token[q]}
    <3>1. Served(q)'
      BY <1>7, <2>2, UseRecord DEF LookupRefreshed, ServeInv, Served, Serving, Informed, registry
    <3> QED
      BY <1>7, <2>2, <3>1, UseRecord, OthersServed DEF LookupRefreshed
  <2> QED
    BY <2>1, <2>2
<1>8. ASSUME NEW q \in All, Forwarded(q) \/ Unanswered(q) \/ DialForbidden(q) PROVE ServeInv'
  <2>1. Served(q)'
    BY <1>8 DEF Forwarded, Unanswered, DialForbidden, Answer, Goto, Served, Serving
  <2> QED
    BY <1>8, <2>1, OthersServed DEF Forwarded, Unanswered, DialForbidden, Attempt, Answer, Goto
<1>9. ASSUME NEW q \in All, Forbidden(q) PROVE ServeInv'
  <2>1. Served(q)'
    BY <1>9 DEF Forbidden, Attempt, Answer, Goto, ServeInv, Served, Serving, Informed, registry
  <2> QED
    BY <1>9, <2>1, OthersServed DEF Forbidden, Attempt, Answer, Goto
<1>10. ASSUME NEW q \in All, Dialled(q) PROVE ServeInv'
  <2>1. Served(q)'
    BY <1>10 DEF Dialled, Attempt, Goto, ServeInv, Served, Serving
  <2> QED
    BY <1>10, <2>1, OthersServed DEF Dialled, Attempt, Goto
<1>11. CASE Restart \/ RemoveFile
  <2>1. \A p \in All : excused[p] \/ (p \in Waiting /\ pc[p] # "idle") => excused'[p]
    BY <1>11, ExcuseShape DEF Restart, RemoveFile
  <2>2. UNCHANGED <<pc, attempts, token>>
    BY <1>11 DEF Restart, RemoveFile
  <2> QED
    BY <2>1, <2>2 DEF ServeInv, Serving, Waiting
<1>12. CASE WriteFile
  BY <1>12 DEF WriteFile, request, ServeInv, Serving, Informed
<1>13. ASSUME NEW k \in Channels, BridgeReturns(k) PROVE ServeInv'
  <2>1. k \in All /\ Served(k)'
    BY <1>13, Tokens DEF BridgeReturns, Answer, Goto, Served, Serving
  <2> QED
    BY <1>13, <2>1, OthersServed DEF BridgeReturns, Answer, Goto
<1>14. CASE UNCHANGED <<registry, request>>
  BY <1>14 DEF registry, request, ServeInv, Serving, Informed
<1> QED
  BY <1>1, <1>2, <1>3, <1>4, <1>5, <1>6, <1>7, <1>8, <1>9, <1>10, <1>11, <1>12, <1>13,
     <1>14, BridgesApart DEF Serve

Refused(q) == answer[q] \in {"forbidden", "not found"}

\* A request that nothing excuses is not refused by the step it takes.
LEMMA RefusedStep ==
  ASSUME RequestShapes, ServeInv, RefusedForCause, [Next]_vars
  PROVE  RefusedForCause'
<1> USE DEF RequestShapes
<1>1. ASSUME NEW q \in All, \A p \in All : excused[p] => excused'[p],
             \A p \in All \ {q} : answer'[p] = answer[p],
             q \in Requests => (Refused(q)' => excused'[q] \/ Refused(q))
      PROVE  RefusedForCause'
  BY <1>1, Tokens DEF RefusedForCause, Refused
<1>2. ASSUME UNCHANGED answer, \A p \in All : excused[p] => excused'[p] PROVE RefusedForCause'
  BY <1>2, Tokens DEF RefusedForCause
<1>3. ASSUME NEW q \in All, Arrive(q) PROVE RefusedForCause'
  BY <1>2, <1>3, ExcuseShape DEF Arrive
<1>4. ASSUME NEW q \in All, NEW record, Use(q, record)
      PROVE  /\ \A p \in All \ {q} : answer'[p] = answer[p]
             /\ Refused(q)' => Refused(q)
  BY <1>4 DEF Use, Answer, Refused
<1>5. ASSUME NEW q \in All, Resolve(q) PROVE RefusedForCause'
  BY <1>1, <1>2, <1>4, <1>5 DEF Resolve
<1>6. ASSUME NEW q \in All, ReadServersFails(q) PROVE RefusedForCause'
  <2>1. excused'[q] /\ \A p \in All : excused[p] => excused'[p]
    BY <1>6, ExcuseShape DEF ReadServersFails
  <2> QED
    BY <1>1, <1>6, <2>1 DEF ReadServersFails, Answer
<1>7. ASSUME NEW q \in All, PublishServers(q) PROVE RefusedForCause'
  BY <1>2, <1>7, ExcuseShape DEF PublishServers
<1>8. ASSUME NEW q \in All, LookupResolved(q) \/ LookupRefreshed(q) PROVE RefusedForCause'
  <2>1. excused[q] \/ (servers = accepted /\ (attempts[q] = 1 => token[q] # accepted))
    BY <1>8 DEF LookupResolved, LookupRefreshed, ServeInv, Serving, Informed
  <2>2. excused[q] \/ (servers \in 1..(Restarts + 1) /\ (attempts[q] = 1 => servers # token[q]))
    BY <2>1
  <2>3. CASE Use(q, servers)
    BY <1>1, <1>4, <1>8, <2>3 DEF LookupResolved, LookupRefreshed
  <2>4. CASE excused[q]
    BY <1>1, <1>4, <1>8, <2>4 DEF LookupResolved, LookupRefreshed, Answer
  <2>5. excused[q] \/ (servers # None /\ (attempts[q] = 1 => servers \notin {None, 0, token[q]}))
    BY <2>2, Tokens
  <2> QED
    BY <1>8, <2>3, <2>4, <2>5 DEF LookupResolved, LookupRefreshed
<1>9. ASSUME NEW q \in All, Forwarded(q) \/ Unanswered(q) PROVE RefusedForCause'
  BY <1>1, <1>9 DEF Forwarded, Unanswered, Answer, Refused
<1>10. ASSUME NEW q \in All, DialForbidden(q) PROVE RefusedForCause'
  <2>1. q \notin Requests
    BY <1>10, Tokens DEF DialForbidden
  <2> QED
    BY <1>1, <1>10, <2>1 DEF DialForbidden, Answer
<1>11. ASSUME NEW q \in All, Forbidden(q) PROVE RefusedForCause'
  <2>1. attempts[q] # 0 => excused[q]
    BY <1>11 DEF Forbidden, ServeInv, Serving, Informed
  <2> QED
    BY <1>1, <1>2, <1>11, <2>1 DEF Forbidden, Answer
<1>12. ASSUME NEW q \in All, ReadServers(q) \/ Dialled(q) PROVE RefusedForCause'
  BY <1>2, <1>12 DEF ReadServers, Dialled
<1>13. CASE Restart \/ RemoveFile
  BY <1>2, <1>13, ExcuseShape DEF Restart, RemoveFile
<1>14. ASSUME NEW k \in Channels, BridgeReturns(k) PROVE RefusedForCause'
  BY <1>1, <1>14, Tokens DEF BridgeReturns, Answer
<1>15. CASE WriteFile \/ UNCHANGED <<registry, request>>
  BY <1>2, <1>15 DEF WriteFile, request
<1> QED
  BY <1>3, <1>5, <1>6, <1>7, <1>8, <1>9, <1>10, <1>11, <1>12, <1>13, <1>14, <1>15,
     BridgesApart DEF Serve

\* For any number of requests, tokens and restarts: whoever is answered 403 or 404 was served
\* while the file did not name the accepted token, or lost a race for the map.
THEOREM RefusalsHaveCause == Spec => []RefusedForCause
<1> DEFINE Inv == RequestShapes /\ ServeInv /\ RefusedForCause
<1>1. Init => Inv
  <2>1. Init => RefusedForCause
    BY Tokens DEF Init, RefusedForCause
  <2> QED
    BY <2>1, RequestInit
<1>2. Inv /\ [Next]_vars => Inv'
  BY RequestShapesStep, ServeStep, RefusedStep
<1> QED
  BY <1>1, <1>2, PTL DEF Spec

-----------------------------------------------------------------------------
(* What is under way.                                                      *)

\* A frame sent is behind the others.
LEMMA SentFrame ==
  ASSUME NEW s \in Seq(Nat), NEW m \in Nat
  PROVE  /\ Append(s, m) \in Seq(Nat) /\ Len(Append(s, m)) = Len(s) + 1
         /\ ToSet(Append(s, m)) = ToSet(s) \cup {m}
<1> DEFINE t == Append(s, m)
<1>1. /\ t \in Seq(Nat) /\ Len(s) \in Nat /\ Len(t) = Len(s) + 1
      /\ DOMAIN s = 1..Len(s) /\ DOMAIN t = 1..Len(s)+1
      /\ t[Len(s) + 1] = m /\ \A i \in 1..Len(s) : t[i] = s[i]
  OBVIOUS
<1>2. ToSet(t) \subseteq ToSet(s) \cup {m}
  BY <1>1 DEF ToSet
<1>3. Len(s) + 1 \in DOMAIN t /\ \A i \in DOMAIN s : i \in DOMAIN t
  BY <1>1
<1>4. ToSet(s) \cup {m} \subseteq ToSet(t)
  BY <1>1, <1>3 DEF ToSet
<1> QED
  BY <1>1, <1>2, <1>4

\* The next message continues the messages under way.
LEMMA NextSent ==
  ASSUME NEW s \in Seq(Nat), NEW a \in Nat, NEW b \in Nat, a <= b, Carries(s, a, b)
  PROVE  Carries(Append(s, b + 1), a, b + 1)
<1> DEFINE t == Append(s, b + 1)
<1>1. /\ Len(s) \in Nat /\ DOMAIN s = 1..Len(s) /\ DOMAIN t = 1..Len(s)+1
      /\ t[Len(s) + 1] = b + 1 /\ \A i \in 1..Len(s) : t[i] = s[i]
  OBVIOUS
<1>2. ToSet(t) = ToSet(s) \cup {b + 1}
  BY SentFrame
<1>3. ToSet(t) \ {Pong} = a + 1 .. b + 1
  BY <1>2 DEF Carries, Pong
<1>4. \A i \in 1..Len(s) : s[i] # Pong => s[i] \in a + 1 .. b
  BY <1>1 DEF Carries, ToSet
<1>5. ASSUME NEW i \in DOMAIN t, NEW j \in DOMAIN t, i < j, Pong \notin {t[i], t[j]}
      PROVE  t[i] < t[j]
  <2>1. i \in 1..Len(s) /\ t[i] = s[i]
    BY <1>1, <1>5
  <2>2. CASE j \in 1..Len(s)
    BY <1>1, <1>5, <2>1, <2>2 DEF Carries
  <2>3. CASE j = Len(s) + 1
    BY <1>1, <1>4, <1>5, <2>1, <2>3
  <2> QED
    BY <1>1, <2>2, <2>3
<1> QED
  BY <1>3, <1>5 DEF Carries

\* A pong may come between any two messages.
LEMMA PongSent ==
  ASSUME NEW s \in Seq(Nat), NEW a \in Nat, NEW b \in Nat, Carries(s, a, b)
  PROVE  Carries(Append(s, Pong), a, b)
<1> DEFINE t == Append(s, Pong)
<1>1. /\ Len(s) \in Nat /\ DOMAIN s = 1..Len(s) /\ DOMAIN t = 1..Len(s)+1
      /\ t[Len(s) + 1] = Pong /\ \A i \in 1..Len(s) : t[i] = s[i]
  BY DEF Pong
<1>2. ToSet(t) = ToSet(s) \cup {Pong}
  BY SentFrame DEF Pong
<1>3. ToSet(t) \ {Pong} = a + 1 .. b
  BY <1>2 DEF Carries
<1>4. ASSUME NEW i \in DOMAIN t, NEW j \in DOMAIN t, i < j, Pong \notin {t[i], t[j]}
      PROVE  t[i] < t[j]
  BY <1>1, <1>4 DEF Carries
<1> QED
  BY <1>3, <1>4 DEF Carries

\* The first of the frames is a pong, or the next message to be read.
LEMMA NextRead ==
  ASSUME NEW s \in Seq(Nat), s # <<>>, NEW a \in Nat, NEW b \in Nat, Carries(s, a, b)
  PROVE  /\ Head(s) \in Nat /\ Tail(s) \in Seq(Nat) /\ Len(Tail(s)) < Len(s)
         /\ Head(s) = Pong => Carries(Tail(s), a, b)
         /\ Head(s) # Pong => /\ Head(s) = a + 1 /\ a + 1 <= b
                              /\ Carries(Tail(s), a + 1, b)
                              /\ Pong \in ToSet(s) => Pong \in ToSet(Tail(s))
<1> DEFINE t == Tail(s)
<1>1. /\ Head(s) = s[1] /\ Head(s) \in Nat /\ t \in Seq(Nat)
      /\ Len(s) \in Nat \ {0} /\ Len(t) = Len(s) - 1
      /\ DOMAIN s = 1..Len(s) /\ DOMAIN t = 1..Len(s)-1 /\ \A i \in 1..Len(s)-1 : t[i] = s[i + 1]
  OBVIOUS
<1>2. ToSet(s) = {Head(s)} \cup ToSet(t)
  BY HeadTailSet
<1>3. \A i, j \in DOMAIN t : i < j /\ Pong \notin {t[i], t[j]} => t[i] < t[j]
  <2> HIDE DEF t
  <2>1. ASSUME NEW i \in DOMAIN t, NEW j \in DOMAIN t, i < j, Pong \notin {t[i], t[j]}
        PROVE  t[i] < t[j]
    <3>0. i \in 1..Len(s)-1 /\ j \in 1..Len(s)-1 /\ Len(s) \in Nat
      BY <1>1
    <3>1. /\ i + 1 \in DOMAIN s /\ j + 1 \in DOMAIN s /\ i + 1 < j + 1
          /\ t[i] = s[i + 1] /\ t[j] = s[j + 1]
      <4>1. i + 1 \in 1..Len(s) /\ j + 1 \in 1..Len(s) /\ i + 1 < j + 1
        BY <2>1, <3>0
      <4> QED
        BY <1>1, <3>0, <4>1
    <3> QED
      BY <2>1, <3>1 DEF Carries
  <2> QED
    BY <2>1
<1>4. CASE Head(s) = Pong
  BY <1>1, <1>2, <1>3, <1>4 DEF Carries
<1>5. CASE Head(s) # Pong
  <2>1. Head(s) \in a + 1 .. b
    BY <1>2, <1>5 DEF Carries
  <2>2. ASSUME NEW x \in ToSet(t), x # Pong PROVE Head(s) < x
    <3>1. PICK i \in 1..Len(s)-1 : x = t[i]
      BY <1>1 DEF ToSet
    <3>2. x = s[i + 1] /\ 1 \in DOMAIN s /\ i + 1 \in DOMAIN s /\ 1 < i + 1
      BY <1>1, <3>1
    <3> QED
      BY <1>1, <1>5, <2>2, <3>2 DEF Carries
  <2>3. Head(s) = a + 1
    <3>1. a + 1 \in ToSet(s) /\ a + 1 # Pong
      BY <2>1 DEF Carries, Pong
    <3> QED
      BY <1>1, <1>2, <2>1, <2>2, <3>1
  <2>4. ToSet(t) \ {Pong} = a + 2 .. b
    <3>1. \A x \in ToSet(t) \ {Pong} : x \in a + 1 .. b /\ a + 1 < x
      BY <1>2, <2>2, <2>3 DEF Carries
    <3>2. \A x \in a + 2 .. b : x \in ToSet(s) /\ x # Pong /\ x # Head(s)
      BY <2>3 DEF Carries, Pong
    <3> QED
      BY <1>2, <3>1, <3>2
  <2> QED
    BY <1>1, <1>2, <1>3, <1>5, <2>1, <2>3, <2>4 DEF Carries
<1> QED
  BY <1>1, <1>4, <1>5

-----------------------------------------------------------------------------
(* The bridges.                                                            *)

LEMMA Directions ==
  /\ Dirs = {"toUpstream", "toClient"} /\ "toUpstream" \in Dirs
  /\ \A d \in Dirs : Messages[d] \in Nat
  BY JupyterConstants DEF Dirs, Source

\* A request whose bridge is open, or that was answered, does not come back.
LEMMA Onwards ==
  ASSUME RequestShapes, [Next]_vars, NEW q \in All, pc[q] \in {"bridge", "answered"}
  PROVE  pc'[q] \in {"bridge", "answered"}
<1>1. pc \in [All -> {"never", "idle", "resolve", "reload", "publish", "lookup", "send", "bridge",
                      "answered"}]
  BY DEF RequestShapes
<1>2. ASSUME NEW p \in All, NEW label, Goto(p, label), p # q PROVE pc'[q] = pc[q]
  BY <1>1, <1>2 DEF Goto
<1>3. ASSUME NEW p \in All, NEW status, Answer(p, status) PROVE pc'[q] \in {"bridge", "answered"}
  BY <1>1, <1>3 DEF Answer, Goto
<1>4. ASSUME NEW p \in All, Arrive(p) PROVE pc'[q] = pc[q]
  BY <1>2, <1>4 DEF Arrive
<1>5. ASSUME NEW p \in All, NEW record, Use(p, record), p # q
      PROVE  pc'[q] \in {"bridge", "answered"}
  BY <1>2, <1>3, <1>5 DEF Use
<1>6. ASSUME NEW p \in All, Resolve(p) PROVE pc'[q] \in {"bridge", "answered"}
  BY <1>2, <1>5, <1>6 DEF Resolve
<1>7. ASSUME NEW p \in All, ReadServers(p) \/ PublishServers(p) PROVE pc'[q] = pc[q]
  BY <1>2, <1>7 DEF ReadServers, PublishServers
<1>8. ASSUME NEW p \in All, \/ ReadServersFails(p) \/ Forwarded(p) \/ Unanswered(p)
                            \/ DialForbidden(p)
      PROVE  pc'[q] \in {"bridge", "answered"}
  BY <1>3, <1>8 DEF ReadServersFails, Forwarded, Unanswered, DialForbidden
<1>9. ASSUME NEW p \in All, LookupResolved(p) \/ LookupRefreshed(p)
      PROVE  pc'[q] \in {"bridge", "answered"}
  BY <1>3, <1>5, <1>9 DEF LookupResolved, LookupRefreshed
<1>10. ASSUME NEW p \in All, Forbidden(p) PROVE pc'[q] \in {"bridge", "answered"}
  BY <1>2, <1>3, <1>10 DEF Forbidden
<1>11. ASSUME NEW p \in All, Dialled(p) PROVE pc'[q] = pc[q]
  BY <1>2, <1>11 DEF Dialled
<1>12. ASSUME NEW k \in Channels, BridgeReturns(k) PROVE pc'[q] \in {"bridge", "answered"}
  BY <1>3, <1>12, Tokens DEF BridgeReturns
<1>13. CASE Restart \/ WriteFile \/ RemoveFile \/ UNCHANGED <<registry, request>>
  BY <1>13 DEF Restart, WriteFile, RemoveFile, request
<1> QED
  BY <1>4, <1>6, <1>7, <1>8, <1>9, <1>10, <1>11, <1>12, <1>13, BridgesApart DEF Serve

\* The steps that change a bridge.
LEMMA BridgeSteps ==
  ASSUME [Next]_vars
  PROVE  \/ UNCHANGED bridge
         \/ \E k \in Channels :
              \/ Dialled(k) \/ BridgeReturns(k)
              \/ ReadPong(k) \/ ReadTimesOut(k) \/ Ping(k)
              \/ PingFails(k) \/ PingReported(k) \/ PingStops(k) \/ PingTimesOut(k)
              \/ \E d \in Dirs : PeerSends(k, d) \/ Bridging(k, d)
              \/ \E e \in Ends, state \in {"up", "mute", "gone"} : PeerChanges(k, e, state)
<1>1. ASSUME NEW q \in All, Arrive(q) PROVE UNCHANGED bridge
  BY <1>1 DEF Arrive
<1>2. ASSUME NEW q \in All, Serve(q), ~Dialled(q) PROVE UNCHANGED bridge
  BY <1>2 DEF Serve, Resolve, ReadServers, ReadServersFails, PublishServers, LookupResolved,
     LookupRefreshed, Forwarded, Forbidden, Unanswered, DialForbidden
<1>3. ASSUME NEW q \in All, Dialled(q) PROVE q \in Channels
  BY <1>3 DEF Dialled
<1>4. CASE Restart \/ WriteFile \/ RemoveFile \/ UNCHANGED vars
  BY <1>4 DEF Restart, WriteFile, RemoveFile, vars
<1> QED
  BY <1>1, <1>2, <1>3, <1>4 DEF Next, Pinging

\* A bridge is made once: its loops are off until then.
Unmade ==
  \A k \in Channels, d \in Dirs : loop[k][d] = "off" \/ pc[k] \in {"bridge", "answered"}

\* What was read of an end, is held for the other and is under way, in one direction.
Way(k, d) ==
  /\ written[k][d] = [i \in 1..Len(written[k][d]) |-> i]
  /\ hand[k][d] \in {Len(written[k][d]), Len(written[k][d]) + 1} /\ hand[k][d] <= sent[k][d]
  /\ loop[k][d] \in {"off", "read"} => hand[k][d] = Len(written[k][d])
  /\ loop[k][d] = "write" => hand[k][d] = Len(written[k][d]) + 1
  /\ Carries(wire[k][d], hand[k][d], sent[k][d])

LEMMA WaysAreRelayed == (\A k \in Channels, d \in Dirs : Way(k, d)) <=> Relayed /\ Pending
  BY DEF Way, Relayed, Pending

LEMMA BridgeInit == Init => BridgeInv /\ Unmade
<1> SUFFICES ASSUME Init PROVE BridgeInv /\ Unmade
  OBVIOUS
<1>1. BridgeShapes
  BY Directions, JupyterConstants
  DEF Init, BridgeShapes, Wires, Loops, Counts, Reports, Holds, Clocks, ErrCap, PongWait
<1>2. Carries(<<>>, 0, 0)
  BY DEF Carries, ToSet
<1>3. \A k \in Channels, d \in Dirs : Way(k, d)
  BY <1>2 DEF Init, Way
<1>4. PongDue /\ AnsweringClientIsKept /\ Unmade
  BY Directions DEF Init, PongDue, AnsweringClientIsKept, Unmade
<1> QED
  BY <1>1, <1>3, <1>4, WaysAreRelayed DEF BridgeInv

LEMMA UnmadeStep ==
  ASSUME RequestShapes, BridgeShapes, Unmade, [Next]_vars
  PROVE  Unmade'
<1>1. \A k \in Channels : pc[k] \in {"bridge", "answered"} => pc'[k] \in {"bridge", "answered"}
  BY Onwards, Tokens
<1>2. ASSUME UNCHANGED loop PROVE Unmade'
  BY <1>1, <1>2 DEF Unmade
<1>3. ASSUME NEW k \in Channels, Dialled(k) PROVE Unmade'
  BY <1>1, <1>3, Tokens DEF Dialled, Goto, Unmade, RequestShapes, BridgeShapes, Loops
<1>4. ASSUME NEW k \in Channels, NEW d \in Dirs, NEW label, SetLoop(k, d, label),
             loop[k][d] # "off"
      PROVE  Unmade'
  BY <1>1, <1>4 DEF SetLoop, Unmade, BridgeShapes, Loops
<1>5. ASSUME NEW k \in Channels, NEW d \in Dirs, Bridging(k, d) PROVE Unmade'
  BY <1>4, <1>5 DEF Bridging, ReadMessage, ReadFails, WriteMessage, WriteFails, BridgingEnds
<1>6. ASSUME NEW k \in Channels, ReadTimesOut(k) PROVE Unmade'
  BY <1>4, <1>6, Directions DEF ReadTimesOut
<1>7. CASE UNCHANGED bridge
  BY <1>2, <1>7 DEF bridge
<1>8. ASSUME NEW k \in Channels, NEW d \in Dirs, PeerSends(k, d) PROVE UNCHANGED loop
  BY <1>8 DEF PeerSends
<1>9. ASSUME NEW k \in Channels, \/ BridgeReturns(k) \/ ReadPong(k) \/ Ping(k) \/ PingFails(k)
                                 \/ PingReported(k) \/ PingStops(k) \/ PingTimesOut(k)
      PROVE  UNCHANGED loop
  BY <1>9 DEF BridgeReturns, ReadPong, Ping, PingFails, PingReported, PingStops, PingTimesOut
<1>10. ASSUME NEW k \in Channels, NEW e \in Ends, NEW state, PeerChanges(k, e, state)
       PROVE  UNCHANGED loop
  BY <1>10 DEF PeerChanges
<1> QED
  BY <1>2, <1>3, <1>5, <1>6, <1>7, <1>8, <1>9, <1>10, BridgeSteps

-----------------------------------------------------------------------------
(* ... and their steps.                                                    *)

\* What a step leaves alone keeps its shape.
LEMMA ShapesKept ==
  ASSUME BridgeShapes
  PROVE  /\ UNCHANGED wire => Wires' 
         /\ UNCHANGED loop => Loops'
         /\ UNCHANGED sent => Counts'
         /\ UNCHANGED errs => Reports'
         /\ UNCHANGED <<hand, written>> => Holds'
         /\ UNCHANGED <<since, lapse>> => Clocks'
  BY DEF BridgeShapes, Wires, Loops, Counts, Reports, Holds, Clocks

LEMMA LoopSet ==
  ASSUME Loops, NEW k \in Channels, NEW d \in Dirs,
         NEW label \in {"read", "write", "fail", "timeout", "done"}, SetLoop(k, d, label)
  PROVE  /\ Loops' /\ loop'[k][d] = label
         /\ \A c \in Channels, e \in Dirs : c # k \/ e # d => loop'[c][e] = loop[c][e]
  BY DEF Loops, SetLoop

\* The frames of one direction change.
LEMMA WireSet ==
  ASSUME Wires, NEW k \in Channels, NEW d \in Dirs, NEW s \in Seq(Nat), Len(s) <= WireCap,
         wire' = [wire EXCEPT ![k][d] = s]
  PROVE  /\ Wires' /\ wire'[k][d] = s
         /\ \A c \in Channels, e \in Dirs : c # k \/ e # d => wire'[c][e] = wire[c][e]
<1>1. wire' \in [Channels -> [Dirs -> Seq(Nat)]] /\ wire'[k][d] = s
  BY DEF Wires
<1>2. \A c \in Channels, e \in Dirs : c # k \/ e # d => wire'[c][e] = wire[c][e]
  BY DEF Wires
<1> QED
  BY <1>1, <1>2 DEF Wires

LEMMA ReportSet ==
  ASSUME Reports, NEW k \in Channels, NEW operation \in Errors, Report(k, operation)
  PROVE  Reports'
<1>1. /\ Append(errs[k], operation) \in Seq(Errors)
      /\ Len(Append(errs[k], operation)) <= ErrCap
  BY DEF Report, Reports, ErrCap
<1> QED
  BY <1>1 DEF Report, Reports

LEMMA ShapesStep ==
  ASSUME BridgeShapes, Relayed, [Next]_vars
  PROVE  BridgeShapes'
<1> USE DEF BridgeShapes
<1>1. ASSUME NEW k \in Channels, NEW d \in Dirs, PeerSends(k, d) PROVE BridgeShapes'
  <2>1. wire[k][d] \in Seq(Nat) /\ sent[k][d] \in Nat
    BY DEF Wires, Counts
  <2>2. /\ Append(wire[k][d], sent[k][d] + 1) \in Seq(Nat)
        /\ Len(Append(wire[k][d], sent[k][d] + 1)) <= WireCap
    BY <1>1, <2>1, SentFrame, JupyterConstants DEF PeerSends
  <2>3. Wires'
    BY <1>1, <2>2, WireSet DEF PeerSends
  <2>4. sent' \in [Channels -> [Dirs -> Nat]]
    BY <1>1 DEF PeerSends, Counts
  <2>5. \A c \in Channels, e \in Dirs : sent'[c][e] <= Messages[e]
    BY <1>1, <2>1, Directions DEF PeerSends, Counts
  <2> QED
    BY <1>1, <2>3, <2>4, <2>5, ShapesKept DEF PeerSends, Counts
<1>2. ASSUME NEW k \in Channels, NEW d \in Dirs, wire[k][d] # <<>>
      PROVE  /\ Head(wire[k][d]) \in Nat /\ Tail(wire[k][d]) \in Seq(Nat)
             /\ Len(Tail(wire[k][d])) <= WireCap
  <2>1. wire[k][d] \in Seq(Nat) /\ Len(wire[k][d]) <= WireCap
        /\ hand[k][d] \in Nat /\ sent[k][d] \in Nat
    BY DEF Wires, Holds, Counts
  <2>2. Carries(wire[k][d], hand[k][d], sent[k][d])
    BY DEF Relayed
  <2>3. Head(wire[k][d]) \in Nat /\ Tail(wire[k][d]) \in Seq(Nat)
        /\ Len(Tail(wire[k][d])) < Len(wire[k][d])
    BY <1>2, <2>1, <2>2, NextRead
  <2> QED
    BY <2>1, <2>3, JupyterConstants
<1>3. ASSUME NEW k \in Channels, NEW d \in Dirs, ReadMessage(k, d) PROVE BridgeShapes'
  <2>1. Wires'
    BY <1>2, <1>3, WireSet DEF ReadMessage
  <2>2. Loops'
    BY <1>3, LoopSet DEF ReadMessage
  <2>3. Holds'
    BY <1>2, <1>3 DEF ReadMessage, Holds
  <2> QED
    BY <1>3, <2>1, <2>2, <2>3, ShapesKept DEF ReadMessage
<1>4. ASSUME NEW k \in Channels, ReadPong(k) PROVE BridgeShapes'
  <2>1. Wires'
    BY <1>2, <1>4, Directions, WireSet DEF ReadPong
  <2>2. Clocks'
    BY <1>4 DEF ReadPong, Clocks, PongWait
  <2> QED
    BY <1>4, <2>1, <2>2, ShapesKept DEF ReadPong
<1>5. ASSUME NEW k \in Channels, NEW d \in Dirs, ReadFails(k, d) \/ WriteFails(k, d)
      PROVE  BridgeShapes'
  <2>1. Loops'
    BY <1>5, LoopSet DEF ReadFails, WriteFails
  <2> QED
    BY <1>5, <2>1, ShapesKept DEF ReadFails, WriteFails
<1>6. ASSUME NEW k \in Channels, ReadTimesOut(k) PROVE BridgeShapes'
  <2>1. Loops'
    BY <1>6, Directions, LoopSet DEF ReadTimesOut
  <2> QED
    BY <1>6, <2>1, ShapesKept DEF ReadTimesOut
<1>7. ASSUME NEW k \in Channels, NEW d \in Dirs, WriteMessage(k, d) PROVE BridgeShapes'
  <2>1. Loops'
    BY <1>7, LoopSet DEF WriteMessage
  <2>2. Append(written[k][d], hand[k][d]) \in Seq(Nat)
    BY DEF Holds
  <2>3. Holds'
    BY <1>7, <2>2 DEF WriteMessage, Holds
  <2> QED
    BY <1>7, <2>1, <2>3, ShapesKept DEF WriteMessage
<1>8. ASSUME NEW k \in Channels, NEW d \in Dirs, BridgingEnds(k, d) PROVE BridgeShapes'
  <2>1. loop[k][d] \in Errors
    BY <1>8 DEF BridgingEnds, Errors
  <2>2. Reports' /\ Loops'
    BY <1>8, <2>1, LoopSet, ReportSet DEF BridgingEnds
  <2> QED
    BY <1>8, <2>2, ShapesKept DEF BridgingEnds
<1>9. ASSUME NEW k \in Channels, Ping(k) PROVE BridgeShapes'
  <2>1. wire[k].toUpstream \in Seq(Nat)
    BY Directions DEF Wires
  <2>2. /\ Append(wire[k].toUpstream, Pong) \in Seq(Nat)
        /\ Len(Append(wire[k].toUpstream, Pong)) <= WireCap
    BY <1>9, <2>1, SentFrame, JupyterConstants DEF Ping, Pong
  <2>3. Wires'
    <3>1. Len(wire[k].toUpstream) <= WireCap
      BY Directions DEF Wires
    <3> QED
      BY <1>9, <2>1, <2>2, <3>1, Directions, WireSet DEF Ping
  <2>4. Clocks'
    BY <1>9 DEF Ping, Clocks, PongWait
  <2> QED
    BY <1>9, <2>3, <2>4, ShapesKept DEF Ping
<1>10. ASSUME NEW k \in Channels, PingReported(k) PROVE BridgeShapes'
  <2>1. Reports'
    BY <1>10, ReportSet DEF PingReported, Errors
  <2> QED
    BY <1>10, <2>1, ShapesKept DEF PingReported
<1>11. ASSUME NEW k \in Channels, BridgeReturns(k) PROVE BridgeShapes'
  <2>1. Tail(errs[k]) \in Seq(Errors) /\ Len(Tail(errs[k])) <= ErrCap
    BY <1>11 DEF BridgeReturns, Reports, ErrCap
  <2>2. Reports'
    BY <1>11, <2>1 DEF BridgeReturns, Reports
  <2> QED
    BY <1>11, <2>2, ShapesKept DEF BridgeReturns
<1>12. ASSUME NEW k \in Channels, Dialled(k) PROVE BridgeShapes'
  <2>1. Loops'
    BY <1>12 DEF Dialled, Loops
  <2> QED
    BY <1>12, <2>1, ShapesKept DEF Dialled
<1>13. ASSUME NEW k \in Channels, PingFails(k) \/ PingStops(k) \/ PingTimesOut(k)
       PROVE  BridgeShapes'
  BY <1>13, ShapesKept DEF PingFails, PingStops, PingTimesOut
<1>14. ASSUME NEW k \in Channels, NEW e \in Ends, NEW state, PeerChanges(k, e, state)
       PROVE  BridgeShapes'
  BY <1>14, ShapesKept DEF PeerChanges
<1>15. CASE UNCHANGED bridge
  BY <1>15, ShapesKept DEF bridge
<1> HIDE DEF BridgeShapes
<1> QED
  BY <1>1, <1>3, <1>4, <1>5, <1>6, <1>7, <1>8, <1>9, <1>10, <1>11, <1>12, <1>13, <1>14, <1>15,
     BridgeSteps DEF Bridging

\* A step that touches one direction of one bridge leaves the other ways as they were.
LEMMA OneWay ==
  ASSUME \A c \in Channels, e \in Dirs : Way(c, e), NEW k \in Channels, NEW d \in Dirs,
         \A c \in Channels, e \in Dirs : c # k \/ e # d =>
           /\ wire'[c][e] = wire[c][e] /\ loop'[c][e] = loop[c][e] /\ hand'[c][e] = hand[c][e]
           /\ sent'[c][e] = sent[c][e] /\ written'[c][e] = written[c][e],
         Way(k, d)'
  PROVE  \A c \in Channels, e \in Dirs : Way(c, e)'
<1>1. ASSUME NEW c \in Channels, NEW e \in Dirs, c # k \/ e # d PROVE Way(c, e)'
  <2>1. Way(c, e)
    OBVIOUS
  <2>2. /\ wire'[c][e] = wire[c][e] /\ loop'[c][e] = loop[c][e] /\ hand'[c][e] = hand[c][e]
        /\ sent'[c][e] = sent[c][e] /\ written'[c][e] = written[c][e]
    BY <1>1
  <2> QED
    BY <2>1, <2>2 DEF Way
<1> QED
  BY <1>1

\* Messages go from an end to the loop and from the loop to the other end, one by one.
LEMMA WaysStep ==
  ASSUME BridgeShapes, Unmade, Relayed, Pending, [Next]_vars
  PROVE  \A k \in Channels, d \in Dirs : Way(k, d)'
<1>0. \A k \in Channels, d \in Dirs : Way(k, d)
  BY WaysAreRelayed
<1>t. \A k \in Channels, d \in Dirs :
        /\ wire[k][d] \in Seq(Nat) /\ hand[k][d] \in Nat /\ sent[k][d] \in Nat
        /\ written[k][d] \in Seq(Nat) /\ Len(written[k][d]) \in Nat
  BY DEF BridgeShapes, Wires, Holds, Counts
<1>s. Wires /\ Loops /\ Holds /\ Counts
  BY DEF BridgeShapes
<1>1. ASSUME NEW k \in Channels, NEW d \in Dirs, PeerSends(k, d)
      PROVE  \A c \in Channels, e \in Dirs : Way(c, e)'
  <2>1. /\ sent'[k][d] = sent[k][d] + 1 /\ wire'[k][d] = Append(wire[k][d], sent[k][d] + 1)
        /\ UNCHANGED <<hand, loop, written>>
    BY <1>1, <1>s DEF PeerSends, Wires, Counts
  <2>a. hand[k][d] <= sent[k][d] /\ Carries(wire[k][d], hand[k][d], sent[k][d])
    BY <1>0 DEF Way
  <2>2. Carries(wire'[k][d], hand[k][d], sent[k][d] + 1)
    BY <1>t, <2>1, <2>a, NextSent
  <2>3. Way(k, d)'
    BY <1>0, <1>t, <2>1, <2>2 DEF Way
  <2> QED
    BY <1>0, <1>1, <2>3, OneWay DEF PeerSends
<1>2. ASSUME NEW k \in Channels, NEW d \in Dirs, ReadMessage(k, d)
      PROVE  \A c \in Channels, e \in Dirs : Way(c, e)'
  <2>1. /\ hand'[k][d] = Head(wire[k][d]) /\ wire'[k][d] = Tail(wire[k][d])
        /\ loop'[k][d] = "write" /\ UNCHANGED <<sent, written>>
    BY <1>2, <1>s DEF ReadMessage, SetLoop, Wires, Loops, Holds
  <2>2. /\ Head(wire[k][d]) = hand[k][d] + 1 /\ hand[k][d] + 1 <= sent[k][d]
        /\ Carries(Tail(wire[k][d]), hand[k][d] + 1, sent[k][d])
    BY <1>0, <1>2, <1>t, NextRead DEF Way, ReadMessage
  <2>3. hand[k][d] = Len(written[k][d])
    BY <1>0, <1>2 DEF Way, ReadMessage
  <2>4. Way(k, d)'
    BY <1>0, <1>t, <2>1, <2>2, <2>3 DEF Way
  <2> QED
    BY <1>0, <1>2, <2>4, OneWay DEF ReadMessage, SetLoop
<1>3. ASSUME NEW k \in Channels, ReadPong(k) PROVE \A c \in Channels, e \in Dirs : Way(c, e)'
  <2> DEFINE d == "toUpstream"
  <2>1. d \in Dirs /\ wire'[k][d] = Tail(wire[k][d]) /\ UNCHANGED <<hand, sent, loop, written>>
    BY <1>3, <1>s, Directions DEF ReadPong, Wires
  <2>2. Carries(Tail(wire[k][d]), hand[k][d], sent[k][d])
    BY <1>0, <1>3, <1>t, <2>1, NextRead DEF Way, ReadPong
  <2>3. Way(k, d)'
    BY <1>0, <2>1, <2>2 DEF Way
  <2>4. \A c \in Channels, e \in Dirs : c # k \/ e # d => wire'[c][e] = wire[c][e]
    BY <1>3, <1>s DEF ReadPong, Wires
  <2> HIDE DEF d
  <2> QED
    BY <1>0, <2>1, <2>3, <2>4, OneWay
<1>4. ASSUME NEW k \in Channels, NEW d \in Dirs, ReadFails(k, d) \/ WriteFails(k, d)
      PROVE  \A c \in Channels, e \in Dirs : Way(c, e)'
  <2>1. loop'[k][d] = "fail" /\ UNCHANGED <<wire, hand, sent, written>>
        /\ \A c \in Channels, e \in Dirs : c # k \/ e # d => loop'[c][e] = loop[c][e]
    BY <1>4, <1>s, LoopSet DEF ReadFails, WriteFails
  <2>2. Way(k, d)'
    BY <1>0, <2>1 DEF Way
  <2> QED
    BY <1>0, <2>1, <2>2, OneWay
<1>5. ASSUME NEW k \in Channels, ReadTimesOut(k) PROVE \A c \in Channels, e \in Dirs : Way(c, e)'
  <2> DEFINE d == "toUpstream"
  <2>1. d \in Dirs /\ loop'[k][d] = "timeout" /\ UNCHANGED <<wire, hand, sent, written>>
        /\ \A c \in Channels, e \in Dirs : c # k \/ e # d => loop'[c][e] = loop[c][e]
    BY <1>5, <1>s, Directions, LoopSet DEF ReadTimesOut
  <2>2. Way(k, d)'
    BY <1>0, <2>1 DEF Way
  <2> QED
    BY <1>0, <2>1, <2>2, OneWay
<1>6. ASSUME NEW k \in Channels, NEW d \in Dirs, WriteMessage(k, d)
      PROVE  \A c \in Channels, e \in Dirs : Way(c, e)'
  <2> DEFINE s == written[k][d]
  <2>1. /\ written'[k][d] = Append(s, hand[k][d]) /\ loop'[k][d] = "read"
        /\ UNCHANGED <<wire, hand, sent>>
    BY <1>6, <1>s DEF WriteMessage, SetLoop, Loops, Holds
  <2>2. hand[k][d] = Len(s) + 1 /\ s = [i \in 1..Len(s) |-> i]
    BY <1>0, <1>6 DEF Way, WriteMessage
  <2>3. /\ Len(Append(s, hand[k][d])) = hand[k][d]
        /\ Append(s, hand[k][d]) = [i \in 1..hand[k][d] |-> i]
    BY <1>t, <2>2
  <2>4. Way(k, d)'
    BY <1>0, <1>t, <2>1, <2>3 DEF Way
  <2> QED
    BY <1>0, <1>6, <2>4, OneWay DEF WriteMessage, SetLoop
<1>7. ASSUME NEW k \in Channels, NEW d \in Dirs, BridgingEnds(k, d)
      PROVE  \A c \in Channels, e \in Dirs : Way(c, e)'
  <2>1. loop'[k][d] = "done" /\ UNCHANGED <<wire, hand, sent, written>>
        /\ \A c \in Channels, e \in Dirs : c # k \/ e # d => loop'[c][e] = loop[c][e]
    BY <1>7, <1>s, LoopSet DEF BridgingEnds
  <2>2. Way(k, d)'
    BY <1>0, <2>1 DEF Way
  <2> QED
    BY <1>0, <2>1, <2>2, OneWay
<1>8. ASSUME NEW k \in Channels, Ping(k) PROVE \A c \in Channels, e \in Dirs : Way(c, e)'
  <2> DEFINE d == "toUpstream"
  <2>1. /\ d \in Dirs /\ wire'[k][d] \in {wire[k][d], Append(wire[k][d], Pong)}
        /\ UNCHANGED <<hand, sent, loop, written>>
    BY <1>8, <1>s, Directions DEF Ping, Wires
  <2>a. Carries(wire[k][d], hand[k][d], sent[k][d])
    BY <1>0, <2>1 DEF Way
  <2>2. Carries(wire'[k][d], hand[k][d], sent[k][d])
    <3> HIDE DEF d
    <3> QED
      BY <1>t, <2>1, <2>a, PongSent
  <2>3. Way(k, d)'
    BY <1>0, <2>1, <2>2 DEF Way
  <2>4. \A c \in Channels, e \in Dirs : c # k \/ e # d => wire'[c][e] = wire[c][e]
    BY <1>8, <1>s DEF Ping, Wires
  <2> HIDE DEF d
  <2> QED
    BY <1>0, <2>1, <2>3, <2>4, OneWay
<1>9. ASSUME NEW k \in Channels, Dialled(k) PROVE \A c \in Channels, e \in Dirs : Way(c, e)'
  <2>1. \A d \in Dirs : loop[k][d] = "off" /\ loop'[k][d] = "read"
    <3>1. \A d \in Dirs : loop[k][d] = "off"
      BY <1>9 DEF Dialled, Unmade
    <3>2. loop'[k] = [d \in Dirs |-> "read"]
      BY <1>9, <1>s DEF Dialled, Loops
    <3> QED
      BY <3>1, <3>2
  <2>2. UNCHANGED <<wire, hand, sent, written>> /\ \A c \in Channels \ {k} : loop'[c] = loop[c]
    BY <1>9, <1>s DEF Dialled, Loops
  <2>3. ASSUME NEW c \in Channels, NEW e \in Dirs PROVE Way(c, e)'
    <3>1. Way(c, e) /\ loop'[c][e] = IF c = k THEN "read" ELSE loop[c][e]
      BY <1>0, <2>1, <2>2
    <3> QED
      BY <2>1, <2>2, <3>1 DEF Way
  <2> QED
    BY <2>3
<1>10. ASSUME UNCHANGED <<wire, loop, hand, sent, written>>
       PROVE  \A c \in Channels, e \in Dirs : Way(c, e)'
  BY <1>0, <1>10 DEF Way
<1>11. ASSUME NEW k \in Channels,
              \/ BridgeReturns(k) \/ PingFails(k) \/ PingReported(k) \/ PingStops(k)
              \/ PingTimesOut(k)
       PROVE  UNCHANGED <<wire, loop, hand, sent, written>>
  BY <1>11 DEF BridgeReturns, PingFails, PingReported, PingStops, PingTimesOut
<1>12. ASSUME NEW k \in Channels, NEW e \in Ends, NEW state, PeerChanges(k, e, state)
       PROVE  UNCHANGED <<wire, loop, hand, sent, written>>
  BY <1>12 DEF PeerChanges
<1>13. CASE UNCHANGED bridge
  BY <1>10, <1>13 DEF bridge
<1> QED
  BY <1>1, <1>2, <1>3, <1>4, <1>5, <1>6, <1>7, <1>8, <1>9, <1>10, <1>11, <1>12, <1>13, BridgeSteps
  DEF Bridging

-----------------------------------------------------------------------------
(* Pings and pongs.                                                        *)

\* A pong that is not read is still to be read.
LEMMA PongsKept ==
  ASSUME PongDue, UNCHANGED <<since, lapse>>,
         \A k \in Channels :
           Pong \in ToSet(wire[k].toUpstream) => Pong \in ToSet(wire'[k].toUpstream)
  PROVE  PongDue'
  BY DEF PongDue, ToSet

\* A read that does not time out now has done so before.
LEMMA DeadlinesKept ==
  ASSUME AnsweringClientIsKept, UNCHANGED lapse,
         \A k \in Channels : loop'[k].toUpstream = "timeout" => loop[k].toUpstream = "timeout"
  PROVE  AnsweringClientIsKept'
  BY DEF AnsweringClientIsKept

\* The deadline moves with every pong, and nothing but a client that does not answer or a
\* loop that does not read keeps the pong of one ping from being read before the next.
LEMMA PongStep ==
  ASSUME BridgeShapes, Relayed, PongDue, AnsweringClientIsKept, [Next]_vars
  PROVE  PongDue' /\ AnsweringClientIsKept'
<1>s. Wires /\ Loops /\ Holds /\ Counts /\ Clocks
  BY DEF BridgeShapes
<1>1. ASSUME NEW k \in Channels, NEW d \in Dirs, PeerSends(k, d)
      PROVE  PongDue' /\ AnsweringClientIsKept'
  <2>1. wire[k][d] \in Seq(Nat) /\ sent[k][d] + 1 \in Nat
    BY <1>s DEF Wires, Counts
  <2>2. wire'[k][d] = Append(wire[k][d], sent[k][d] + 1)
        /\ \A c \in Channels, e \in Dirs : c # k \/ e # d => wire'[c][e] = wire[c][e]
    BY <1>1, <1>s DEF PeerSends, Wires
  <2>3. ToSet(wire[k][d]) \subseteq ToSet(wire'[k][d])
    BY <2>1, <2>2, SentFrame
  <2>4. \A c \in Channels : ToSet(wire[c].toUpstream) \subseteq ToSet(wire'[c].toUpstream)
    BY <2>2, <2>3, Directions
  <2>5. UNCHANGED <<since, lapse, loop>>
    BY <1>1 DEF PeerSends
  <2> QED
    BY <2>4, <2>5, PongsKept, DeadlinesKept
<1>2. ASSUME NEW k \in Channels, NEW d \in Dirs, NEW label \in {"read", "write", "fail", "done"},
             SetLoop(k, d, label), UNCHANGED lapse
      PROVE  AnsweringClientIsKept'
  BY <1>2, <1>s, LoopSet, Directions, DeadlinesKept
<1>3. ASSUME NEW k \in Channels, NEW d \in Dirs, ReadMessage(k, d)
      PROVE  PongDue' /\ AnsweringClientIsKept'
  <2>1. /\ wire[k][d] \in Seq(Nat) /\ hand[k][d] \in Nat /\ sent[k][d] \in Nat
        /\ Carries(wire[k][d], hand[k][d], sent[k][d])
    <3>1. wire[k][d] \in Seq(Nat) /\ hand[k][d] \in Nat /\ sent[k][d] \in Nat
      BY <1>s DEF Wires, Counts, Holds
    <3>2. Carries(wire[k][d], hand[k][d], sent[k][d])
      BY DEF Relayed
    <3> QED
      BY <3>1, <3>2
  <2>2. wire'[k][d] = Tail(wire[k][d])
        /\ \A c \in Channels, e \in Dirs : c # k \/ e # d => wire'[c][e] = wire[c][e]
    BY <1>3, <1>s DEF ReadMessage, Wires
  <2>3. Pong \in ToSet(wire[k][d]) => Pong \in ToSet(wire'[k][d])
    BY <1>3, <2>1, <2>2, NextRead DEF ReadMessage
  <2>4. \A c \in Channels :
          Pong \in ToSet(wire[c].toUpstream) => Pong \in ToSet(wire'[c].toUpstream)
    BY <2>2, <2>3, Directions
  <2> QED
    BY <1>2, <1>3, <2>4, PongsKept DEF ReadMessage
<1>4. ASSUME NEW k \in Channels, ReadPong(k) PROVE PongDue' /\ AnsweringClientIsKept'
  <2>1. since'[k] = 0
        /\ \A c \in Channels \ {k} : /\ since'[c] = since[c] /\ lapse'[c] = lapse[c]
                                     /\ wire'[c] = wire[c]
    BY <1>4, <1>s DEF ReadPong, Clocks, Wires
  <2>2. PongDue'
    BY <2>1 DEF PongDue, ToSet
  <2>3. loop[k].toUpstream # "timeout" /\ UNCHANGED loop
    BY <1>4 DEF ReadPong
  <2> QED
    BY <2>1, <2>2, <2>3 DEF AnsweringClientIsKept
<1>5. ASSUME NEW k \in Channels, NEW d \in Dirs,
             \/ ReadFails(k, d) \/ WriteMessage(k, d) \/ WriteFails(k, d) \/ BridgingEnds(k, d)
      PROVE  PongDue' /\ AnsweringClientIsKept'
  BY <1>2, <1>5, PongsKept DEF ReadFails, WriteMessage, WriteFails, BridgingEnds
<1>6. ASSUME NEW k \in Channels, ReadTimesOut(k) PROVE PongDue' /\ AnsweringClientIsKept'
  <2>1. lapse[k]
    BY <1>6, <1>s DEF ReadTimesOut, PongDue, PongWait, Clocks
  <2>2. \A c \in Channels \ {k} : loop'[c].toUpstream = loop[c].toUpstream
    BY <1>6, <1>s DEF ReadTimesOut, SetLoop, Loops
  <2>3. UNCHANGED <<wire, since, lapse>>
    BY <1>6 DEF ReadTimesOut
  <2>4. AnsweringClientIsKept'
    BY <2>1, <2>2, <2>3 DEF AnsweringClientIsKept
  <2> QED
    BY <2>3, <2>4, PongsKept
<1>7. ASSUME NEW k \in Channels, Ping(k) PROVE PongDue' /\ AnsweringClientIsKept'
  <2>1. lapse'[k] = (lapse[k] \/ peer[k].client # "up" \/ loop[k].toUpstream # "read")
    BY <1>7, <1>s DEF Ping, Clocks
  <2>2. \A c \in Channels \ {k} : /\ since'[c] = since[c] /\ lapse'[c] = lapse[c]
                                  /\ wire'[c] = wire[c]
    BY <1>7, <1>s DEF Ping, Clocks, Wires
  <2>o. \A c \in Channels \ {k} :
          lapse'[c] \/ since'[c] = 0 \/ (since'[c] = 1 /\ Pong \in ToSet(wire'[c].toUpstream))
    BY <2>2 DEF PongDue
  <2>p. ASSUME \/ lapse'[k] \/ since'[k] = 0
               \/ since'[k] = 1 /\ Pong \in ToSet(wire'[k].toUpstream)
        PROVE  PongDue'
    <3>1. \A c \in Channels :
            lapse'[c] \/ since'[c] = 0 \/ (since'[c] = 1 /\ Pong \in ToSet(wire'[c].toUpstream))
      BY <2>o, <2>p
    <3> QED
      BY <3>1, Zenon DEF PongDue, ToSet
  <2>3. ASSUME ~lapse'[k] PROVE PongDue'
    <3>0. k \in Channels /\ "toUpstream" \in Dirs
      BY Directions
    <3>1. ~lapse[k] /\ peer[k].client = "up" /\ loop[k].toUpstream = "read"
      BY <2>1, <2>3
    <3>2. wire[k].toUpstream = <<>>
      BY <1>7, <3>1, Directions DEF Ping, Quiet
    <3>3. ToSet(wire[k].toUpstream) = {}
      BY <3>2 DEF ToSet
    <3>4. since[k] = 0
      BY <3>1, <3>3 DEF PongDue
    <3>5. wire'[k].toUpstream = Append(<<>>, Pong)
      BY <1>7, <1>s, <3>1, <3>2, Directions DEF Ping, Wires
    <3>6. Pong \in ToSet(wire'[k].toUpstream)
      <4>1. <<>> \in Seq(Nat) /\ Pong \in Nat
        BY DEF Pong
      <4>2. ToSet(Append(<<>>, Pong)) = ToSet(<<>>) \cup {Pong}
        BY <4>1, SentFrame
      <4> QED
        BY <3>5, <4>2
    <3>7. since'[k] = 1
      BY <1>7, <1>s, <3>4 DEF Ping, Clocks, PongWait
    <3> QED
      BY <2>p, <3>6, <3>7
  <2>4. ASSUME lapse'[k] PROVE PongDue'
    BY <2>p, <2>4
  <2>5. \A c \in Channels : lapse[c] => lapse'[c]
    BY <2>1, <2>2
  <2>6. UNCHANGED loop
    BY <1>7 DEF Ping
  <2>7. AnsweringClientIsKept'
    BY <2>5, <2>6 DEF AnsweringClientIsKept
  <2> QED
    BY <2>3, <2>4, <2>7
<1>8. ASSUME NEW k \in Channels, Dialled(k) PROVE PongDue' /\ AnsweringClientIsKept'
  <2>1. \A c \in Channels : loop'[c].toUpstream = "timeout" => loop[c].toUpstream = "timeout"
    BY <1>8, <1>s, Directions DEF Dialled, Loops
  <2>2. UNCHANGED <<wire, since, lapse>>
    BY <1>8 DEF Dialled
  <2> QED
    BY <2>1, <2>2, PongsKept, DeadlinesKept
<1>9. ASSUME UNCHANGED <<wire, loop, since, lapse>> PROVE PongDue' /\ AnsweringClientIsKept'
  BY <1>9, PongsKept, DeadlinesKept
<1>10. ASSUME NEW k \in Channels,
              \/ BridgeReturns(k) \/ PingFails(k) \/ PingReported(k) \/ PingStops(k)
              \/ PingTimesOut(k)
       PROVE  UNCHANGED <<wire, loop, since, lapse>>
  BY <1>10 DEF BridgeReturns, PingFails, PingReported, PingStops, PingTimesOut
<1>11. ASSUME NEW k \in Channels, NEW e \in Ends, NEW state, PeerChanges(k, e, state)
       PROVE  UNCHANGED <<wire, loop, since, lapse>>
  BY <1>11 DEF PeerChanges
<1>12. CASE UNCHANGED bridge
  BY <1>9, <1>12 DEF bridge
<1> QED
  BY <1>1, <1>3, <1>4, <1>5, <1>6, <1>7, <1>8, <1>9, <1>10, <1>11, <1>12, BridgeSteps DEF Bridging

-----------------------------------------------------------------------------
(* The theorems.                                                           *)

\* The invariants of the requests and of the bridges hold together.
LEMMA ProxyInvariant == Spec => [](RequestShapes /\ ServeInv /\ BridgeInv /\ Unmade)
<1> DEFINE Inv == RequestShapes /\ ServeInv /\ BridgeInv /\ Unmade
<1>1. Init => Inv
  BY RequestInit, BridgeInit
<1>2. ASSUME Inv, [Next]_vars PROVE Inv'
  <2>1. RequestShapes' /\ ServeInv'
    BY <1>2, RequestShapesStep, ServeStep
  <2>2. BridgeShapes' /\ Unmade' /\ PongDue' /\ AnsweringClientIsKept'
    BY <1>2, ShapesStep, UnmadeStep, PongStep DEF BridgeInv
  <2>3. Relayed' /\ Pending'
    <3>1. \A k \in Channels, d \in Dirs : Way(k, d)'
      BY <1>2, WaysStep DEF BridgeInv
    <3>2. ((\A k \in Channels, d \in Dirs : Way(k, d)) <=> Relayed /\ Pending)'
      BY WaysAreRelayed, PTL
    <3> QED
      BY <3>1, <3>2
  <2> QED
    BY <2>1, <2>2, <2>3 DEF BridgeInv
<1> QED
  BY <1>1, <1>2, PTL DEF Spec

\* What is under way are messages that were sent, and pongs.
LEMMA WireFrames ==
  ASSUME BridgeShapes, Relayed, NEW k \in Channels, NEW d \in Dirs
  PROVE  ToSet(wire[k][d]) \subseteq Frames(d)
<1>1. /\ hand[k][d] \in Nat /\ sent[k][d] \in Nat /\ sent[k][d] <= Messages[d]
      /\ Messages[d] \in Nat
  BY Directions DEF BridgeShapes, Holds, Counts
<1>2. ToSet(wire[k][d]) \ {Pong} = hand[k][d] + 1 .. sent[k][d]
  BY DEF Relayed, Carries
<1> QED
  BY <1>1, <1>2 DEF Frames, Pong

\* A request is sent at most twice, each time with a token; and a bridge writes to each end
\* the messages of the other, each once, in order and none dropped, whatever else happens
\* to its connections (forwardHTTP, bridgeWebSocketMessagesWithContext).
THEOREM MessagesAreRelayed == Spec => []JupyterInv
<1>1. ASSUME RequestShapes, ServeInv, BridgeInv PROVE JupyterInv
  <2>1. Relayed /\ BridgeShapes
    BY <1>1 DEF BridgeInv
  <2>2. \A k \in Channels, d \in Dirs : ToSet(wire[k][d]) \subseteq Frames(d)
    BY <2>1, WireFrames
  <2>3. /\ \A k \in Channels, d \in Dirs :
             /\ Len(wire[k][d]) <= WireCap
             /\ loop[k][d] \in {"off", "read", "write", "fail", "timeout", "done"}
        /\ \A k \in Channels : Len(errs[k]) <= ErrCap /\ since[k] \in 0..PongWait
    BY <2>1 DEF BridgeShapes, Wires, Loops, Reports, Clocks
  <2>4. \A q \in All : pc[q] \in {"send", "bridge"} => token[q] # 0
    BY <1>1 DEF ServeInv
  <2>5. TypeOK
    BY <1>1, <2>2, <2>3, <2>4 DEF TypeOK, RequestShapes
  <2> QED
    BY <2>1, <2>5 DEF JupyterInv
<1> QED
  BY <1>1, ProxyInvariant, PTL

\* A client that answers its pings keeps its channels: the read deadline of three ping
\* intervals strikes only after an interval in which it did not answer, or in which the
\* loop could not read (configureWebSocketPongKeepalive, sendWebSocketKeepalivePings).
THEOREM AnsweringClientsAreKept == Spec => []AnsweringClientIsKept
<1>1. BridgeInv => AnsweringClientIsKept
  BY DEF BridgeInv
<1> QED
  BY <1>1, ProxyInvariant, PTL
=============================================================================

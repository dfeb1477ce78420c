---------------------------- MODULE JupyterProxy ----------------------------
(***************************************************************************)
(* pkg/agent/server/jupyter_proxy.go: requests for one Jupyter server.  The *)
(* registry keeps what the server's file said when it was last read; an     *)
(* HTTP request that is forbidden reads the file again and is sent once     *)
(* more if the token has changed.  A request for the channels of a kernel   *)
(* becomes a bridge between two websockets: a goroutine for each direction  *)
(* and one that pings the client.                                          *)
(*                                                                         *)
(* A file that is missing or invalid is None, one without a token is 0.     *)
(* Time is counted in ping intervals of 20 s, in which everybody who can go *)
(* on does.                                                                *)
(***************************************************************************)
EXTENDS Integers, SequencesExt

CONSTANTS Requests,   \* HTTP requests for the server
          Channels,   \* websocket requests for one of its kernels
          Arrivals,   \* which of them may come together, a bound
          Restarts,   \* how often the Jupyter server takes another token, a bound
          Messages,   \* how many messages go each way on a bridge, a bound
          WireCap,    \* frames under way in one direction, a bound
          None

ASSUME JupyterConstants == /\ Requests \cap Channels = {}
                           /\ Arrivals \subseteq SUBSET (Requests \cup Channels)
                           /\ Restarts \in Nat
                           /\ Messages \in [{"toUpstream", "toClient"} -> Nat]
                           /\ WireCap \in Nat \ {0}
                           /\ None \notin 0..(Restarts + 1)

All == Requests \cup Channels

Ends == {"client", "upstream"}
Source == [toUpstream |-> "client", toClient |-> "upstream"]
Target == [toUpstream |-> "upstream", toClient |-> "client"]
Dirs == DOMAIN Source

Pong == 0
ErrCapOfOne == 1   \* mutant: no room for what nobody takes

ErrCap == 3     \* capacity of errCh
PongWait == 3   \* jupyterChannelsPongWait, in ping intervals

VARIABLES file,      \* what the server's file says: None, or its token
          accepted,  \* the token the Jupyter server accepts
          servers,   \* the server's record in jupyterServerRegistry.servers
          pc,        \* a request: "never", "idle", "resolve", "reload", "publish", "lookup",
                     \*            "send", "bridge", "answered"
          attempts,  \* how often it was sent to the Jupyter server
          loaded,    \* what its reload has read; None outside of reload
          token,     \* the token it is sent with
          answer,    \* the status it is answered with; "bridged" for a websocket
          excused,   \* history: what may let a request be forbidden (Excuse)
          peer,      \* an end of a bridge: "up", "mute" (neither reads nor sends), "gone"
          wire,      \* what an end has sent: the numbers of its messages, and Pong
          loop,      \* a bridging goroutine: "off", "read", "write", "fail",
                     \*                       "timeout", "done"
          hand,      \* the message it has read last
          sent,      \* how many messages its source has sent
          written,   \* the messages it has written
          pinger,    \* the pinging goroutine: "off", "wait", "fail", "done"
          errs,      \* errCh
          since,     \* ping intervals since the client's read deadline was set
          lapse      \* history: an interval passed in which no pong could be read

registry == <<file, accepted, servers>>
request == <<pc, attempts, loaded, token, answer, excused>>
bridge == <<peer, wire, loop, hand, sent, written, pinger, errs, since, lapse>>
vars == <<registry, request, bridge>>

Init ==
  /\ file \in {None, 0, 1} /\ accepted = 1 /\ servers = file
  /\ pc \in {[q \in All |-> IF q \in a THEN "idle" ELSE "never"] : a \in Arrivals}
  /\ attempts = [q \in All |-> 0]
  /\ loaded = [q \in All |-> None] /\ token = [q \in All |-> 0]
  /\ answer = [q \in All |-> "none"] /\ excused = [q \in All |-> FALSE]
  /\ peer = [k \in Channels |-> [e \in Ends |-> "up"]]
  /\ wire = [k \in Channels |-> [d \in Dirs |-> <<>>]]
  /\ loop = [k \in Channels |-> [d \in Dirs |-> "off"]]
  /\ hand = [k \in Channels |-> [d \in Dirs |-> 0]]
  /\ sent = [k \in Channels |-> [d \in Dirs |-> 0]]
  /\ written = [k \in Channels |-> [d \in Dirs |-> <<>>]]
  /\ pinger = [k \in Channels |-> "off"] /\ errs = [k \in Channels |-> <<>>]
  /\ since = [k \in Channels |-> 0] /\ lapse = [k \in Channels |-> FALSE]

-----------------------------------------------------------------------------
(* The registry and the requests.                                          *)

Waiting == {q \in All : pc[q] \notin {"never", "bridge", "answered"}}

Goto(q, label) == pc' = [pc EXCEPT ![q] = label]

Answer(q, status) == /\ Goto(q, "answered")
                     /\ answer' = [answer EXCEPT ![q] = status]

\* From here on nobody promises anything to the requests qs.
Excuse(qs) == excused' = [q \in All |-> excused[q] \/ q \in qs]

Arrive(q) ==
  /\ pc[q] = "idle"
  /\ Goto(q, "resolve")
  /\ Excuse(IF file = accepted THEN {} ELSE {q})
  /\ UNCHANGED <<registry, attempts, loaded, token, answer, bridge>>

\* With a record in hand a request is sent, unless the record has no token or, before the
\* first attempt, the body of the request cannot be read.
Use(q, record) ==
  \/ /\ record = 0 \/ (q \in Requests /\ attempts[q] = 0)
     /\ Answer(q, "bad request") /\ UNCHANGED token
  \/ /\ record # 0
     /\ Goto(q, "send") /\ token' = [token EXCEPT ![q] = record]
     /\ UNCHANGED answer

Resolve(q) ==
  /\ pc[q] = "resolve"
  /\ IF servers = None THEN Goto(q, "reload") /\ UNCHANGED <<token, answer>>
                       ELSE Use(q, servers)
  /\ UNCHANGED <<registry, attempts, loaded, excused, bridge>>

\* The directory and the file are read without the lock: what was read is old when
\* it is published.
ReadServers(q) ==
  /\ pc[q] = "reload"
  /\ loaded' = [loaded EXCEPT ![q] = file]
  /\ Goto(q, "publish")
  /\ UNCHANGED <<registry, attempts, token, answer, excused, bridge>>

\* The directory cannot be read.
ReadServersFails(q) ==
  /\ pc[q] = "reload"
  /\ Answer(q, IF attempts[q] = 0 THEN "not found" ELSE "forbidden")
  /\ Excuse({q})
  /\ UNCHANGED <<registry, attempts, loaded, token, bridge>>

\* Another request that has published the file and not yet looked its record up
\* will find this one.
PublishServers(q) ==
  /\ pc[q] = "publish"
  /\ servers' = loaded[q] /\ loaded' = [loaded EXCEPT ![q] = None]
  /\ Goto(q, "lookup")
  /\ Excuse(IF loaded[q] = file THEN {} ELSE {p \in All : pc[p] = "lookup"})
  /\ UNCHANGED <<file, accepted, attempts, token, answer, bridge>>

\* The end of Resolve.
LookupResolved(q) ==
  /\ pc[q] = "lookup" /\ attempts[q] = 0
  /\ IF servers = None THEN Answer(q, "not found") /\ UNCHANGED token
                       ELSE Use(q, servers)
  /\ UNCHANGED <<registry, attempts, loaded, excused, bridge>>

\* The end of ResolveRefreshed: only another token is worth another request.
LookupRefreshed(q) ==
  /\ pc[q] = "lookup" /\ attempts[q] = 1
  /\ IF servers \in {None, 0, token[q]}
       THEN Answer(q, "forbidden") /\ UNCHANGED token
       ELSE Use(q, servers)
  /\ UNCHANGED <<registry, attempts, loaded, excused, bridge>>

Attempt(q) == attempts' = [attempts EXCEPT ![q] = @ + 1]

\* The Jupyter server knows the token.
Forwarded(q) ==
  /\ pc[q] = "send" /\ q \in Requests /\ token[q] = accepted
  /\ Attempt(q) /\ Answer(q, "ok")
  /\ UNCHANGED <<registry, loaded, token, excused, bridge>>

\* Mutant: the record is looked up again without reading the file.
ForbiddenLooksUp(q) ==
  /\ pc[q] = "send" /\ q \in Requests /\ token[q] # accepted
  /\ Attempt(q)
  /\ IF attempts[q] = 0 THEN Goto(q, "lookup") /\ UNCHANGED answer
                         ELSE Answer(q, "forbidden")
  /\ UNCHANGED <<registry, loaded, token, excused, bridge>>

\* It does not: the first time the file is read again.
Forbidden(q) ==
  /\ pc[q] = "send" /\ q \in Requests /\ token[q] # accepted
  /\ Attempt(q)
  /\ IF attempts[q] = 0 THEN Goto(q, "reload") /\ UNCHANGED answer
                         ELSE Answer(q, "forbidden")
  /\ UNCHANGED <<registry, loaded, token, excused, bridge>>

\* The request cannot be made, or is not answered in 120 s; or the client of a
\* websocket is gone before it can be upgraded.
Unanswered(q) ==
  /\ pc[q] = "send"
  /\ Attempt(q) /\ Answer(q, "bad gateway")
  /\ UNCHANGED <<registry, loaded, token, excused, bridge>>

\* A refused dial is not tried again.
DialForbidden(k) ==
  /\ pc[k] = "send" /\ k \in Channels /\ token[k] # accepted
  /\ Attempt(k) /\ Answer(k, "forbidden")
  /\ UNCHANGED <<registry, loaded, token, excused, bridge>>

Dialled(k) ==
  /\ pc[k] = "send" /\ k \in Channels /\ token[k] = accepted
  /\ Attempt(k) /\ Goto(k, "bridge")
  /\ loop' = [loop EXCEPT ![k] = [d \in Dirs |-> "read"]]
  /\ pinger' = [pinger EXCEPT ![k] = "wait"]
  /\ UNCHANGED <<registry, loaded, token, answer, excused, peer, wire, hand, sent,
                 written, errs, since, lapse>>

\* While a request is to be served the Jupyter server is started again with another
\* token; whoever does that writes it to the file, and removes the file of a
\* server that was stopped.
Restart ==
  /\ Waiting # {} /\ accepted <= Restarts
  /\ accepted' = accepted + 1
  /\ Excuse({q \in Waiting : pc[q] # "idle"})
  /\ UNCHANGED <<file, servers, pc, attempts, loaded, token, answer, bridge>>

WriteFile ==
  /\ Waiting # {}
  /\ file' = accepted
  /\ UNCHANGED <<accepted, servers, request, bridge>>

RemoveFile ==
  /\ Waiting # {}
  /\ file' = None
  /\ Excuse({q \in Waiting : pc[q] # "idle"})
  /\ UNCHANGED <<accepted, servers, pc, attempts, loaded, token, answer, bridge>>

-----------------------------------------------------------------------------
(* A bridge.                                                               *)

Over(k) == pc[k] = "answered"   \* both connections are closed

SetLoop(k, d, label) == loop' = [loop EXCEPT ![k][d] = label]

\* An end sends a message, closes its connection, stalls, or gets on again.
PeerSends(k, d) ==
  /\ pc[k] = "bridge" /\ peer[k][Source[d]] = "up"
  /\ sent[k][d] < Messages[d] /\ Len(wire[k][d]) < WireCap
  /\ sent' = [sent EXCEPT ![k][d] = @ + 1]
  /\ wire' = [wire EXCEPT ![k][d] = Append(@, sent[k][d] + 1)]
  /\ UNCHANGED <<registry, request, peer, loop, hand, written, pinger, errs, since, lapse>>

PeerChanges(k, e, state) ==
  /\ pc[k] = "bridge" /\ peer[k][e] \notin {"gone", state}
  /\ peer' = [peer EXCEPT ![k][e] = state]
  /\ UNCHANGED <<registry, request, wire, loop, hand, sent, written, pinger, errs, since,
                 lapse>>

\* ReadMessage returns a message; a pong on the way sets the read deadline anew.
ReadMessage(k, d) ==
  /\ loop[k][d] = "read" /\ ~Over(k)
  /\ wire[k][d] # <<>> /\ Head(wire[k][d]) # Pong
  /\ hand' = [hand EXCEPT ![k][d] = Head(wire[k][d])]
  /\ wire' = [wire EXCEPT ![k][d] = Tail(@)]
  /\ SetLoop(k, d, "write")
  /\ UNCHANGED <<registry, request, peer, sent, written, pinger, errs, since, lapse>>

\* Mutant: no pong handler is set.
ReadPongOnly(k) ==
  /\ loop[k].toUpstream = "read" /\ ~Over(k)
  /\ wire[k].toUpstream # <<>> /\ Head(wire[k].toUpstream) = Pong
  /\ wire' = [wire EXCEPT ![k].toUpstream = Tail(@)]
  /\ lapse' = [lapse EXCEPT ![k] = FALSE]
  /\ UNCHANGED <<registry, request, peer, loop, hand, sent, written, pinger, errs, since>>

ReadPong(k) ==
  /\ loop[k].toUpstream = "read" /\ ~Over(k)
  /\ wire[k].toUpstream # <<>> /\ Head(wire[k].toUpstream) = Pong
  /\ wire' = [wire EXCEPT ![k].toUpstream = Tail(@)]
  /\ since' = [since EXCEPT ![k] = 0] /\ lapse' = [lapse EXCEPT ![k] = FALSE]
  /\ UNCHANGED <<registry, request, peer, loop, hand, sent, written, pinger, errs>>

\* The connection is closed by either side.
ReadFails(k, d) ==
  /\ loop[k][d] = "read" /\ (Over(k) \/ peer[k][Source[d]] = "gone")
  /\ SetLoop(k, d, "fail")
  /\ UNCHANGED <<registry, request, peer, wire, hand, sent, written, pinger, errs, since,
                 lapse>>

\* Only the client's connection has a read deadline.
ReadTimesOut(k) ==
  /\ loop[k].toUpstream = "read" /\ since[k] >= PongWait
  /\ SetLoop(k, "toUpstream", "timeout")
  /\ UNCHANGED <<registry, request, peer, wire, hand, sent, written, pinger, errs, since,
                 lapse>>

WriteMessage(k, d) ==
  /\ loop[k][d] = "write" /\ ~Over(k) /\ peer[k][Target[d]] # "mute"
  /\ written' = [written EXCEPT ![k][d] = Append(@, hand[k][d])]
  /\ SetLoop(k, d, "read")
  /\ UNCHANGED <<registry, request, peer, wire, hand, sent, pinger, errs, since, lapse>>

\* Mutant: the loop goes on after a write that failed.
WriteFailsQuietly(k, d) ==
  /\ loop[k][d] = "write" /\ (Over(k) \/ peer[k][Target[d]] = "gone")
  /\ SetLoop(k, d, "read")
  /\ UNCHANGED <<registry, request, peer, wire, hand, sent, written, pinger, errs, since,
                 lapse>>

WriteFails(k, d) ==
  /\ loop[k][d] = "write" /\ (Over(k) \/ peer[k][Target[d]] = "gone")
  /\ SetLoop(k, d, "fail")
  /\ UNCHANGED <<registry, request, peer, wire, hand, sent, written, pinger, errs, since,
                 lapse>>

Report(k, operation) == /\ Len(errs[k]) < ErrCap
                        /\ errs' = [errs EXCEPT ![k] = Append(@, operation)]

BridgingEnds(k, d) ==
  /\ loop[k][d] \in {"fail", "timeout"}
  /\ Report(k, loop[k][d])
  /\ SetLoop(k, d, "done")
  /\ UNCHANGED <<registry, request, peer, wire, hand, sent, written, pinger, since, lapse>>

\* Whatever the two loops can do within an interval they have done.
Quiet(k) ==
  /\ \A d \in Dirs :
       /\ loop[k][d] \notin {"fail", "timeout"}
       /\ (loop[k][d] = "write" => peer[k][Target[d]] = "mute")
       /\ (loop[k][d] = "read" => wire[k][d] = <<>>)
  /\ loop[k].toUpstream = "read" => since[k] < PongWait

\* Mutant: the client's connection is given no read deadline.
PingForEver(k) ==
  /\ pc[k] = "bridge" /\ pinger[k] = "wait" /\ Quiet(k)
  /\ Len(wire[k].toUpstream) < WireCap
  /\ wire' = [wire EXCEPT ![k].toUpstream = IF peer[k].client = "up" THEN Append(@, Pong) ELSE @]
  /\ UNCHANGED <<registry, request, peer, loop, hand, sent, written, pinger, errs, since, lapse>>

\* A ping, and the pong of a client that is up.
Ping(k) ==
  /\ pc[k] = "bridge" /\ pinger[k] = "wait" /\ Quiet(k)
  /\ Len(wire[k].toUpstream) < WireCap
  /\ since' = [since EXCEPT ![k] = IF @ < PongWait THEN @ + 1 ELSE @]
  /\ lapse' = [lapse EXCEPT ![k] = @ \/ peer[k].client # "up" \/ loop[k].toUpstream # "read"]
  /\ wire' = [wire EXCEPT ![k].toUpstream = IF peer[k].client = "up" THEN Append(@, Pong) ELSE @]
  /\ UNCHANGED <<registry, request, peer, loop, hand, sent, written, pinger, errs>>

\* A ping that cannot be written within 10 s, as when the other loop holds the connection.
PingTimesOut(k) ==
  /\ pinger[k] = "wait" /\ peer[k].client = "mute"
  /\ pinger' = [pinger EXCEPT ![k] = "fail"]
  /\ UNCHANGED <<registry, request, peer, wire, loop, hand, sent, written, errs, since, lapse>>

PingFails(k) ==
  /\ pinger[k] = "wait" /\ (Over(k) \/ peer[k].client = "gone")
  /\ pinger' = [pinger EXCEPT ![k] = "fail"]
  /\ UNCHANGED <<registry, request, peer, wire, loop, hand, sent, written, errs, since, lapse>>

PingReported(k) ==
  /\ pinger[k] = "fail"
  /\ Report(k, "write_ping")
  /\ pinger' = [pinger EXCEPT ![k] = "done"]
  /\ UNCHANGED <<registry, request, peer, wire, loop, hand, sent, written, since, lapse>>

PingStops(k) ==
  /\ pinger[k] = "wait" /\ Over(k)
  /\ pinger' = [pinger EXCEPT ![k] = "done"]
  /\ UNCHANGED <<registry, request, peer, wire, loop, hand, sent, written, errs, since, lapse>>

\* The first error ends the request: stopKeepalive and both connections are closed.
BridgeReturns(k) ==
  /\ pc[k] = "bridge" /\ errs[k] # <<>>
  /\ errs' = [errs EXCEPT ![k] = Tail(@)]
  /\ Answer(k, "bridged")
  /\ UNCHANGED <<registry, attempts, loaded, token, excused, peer, wire, loop, hand, sent,
                 written, pinger, since, lapse>>

-----------------------------------------------------------------------------
Serve(q) ==
  \/ Resolve(q) \/ ReadServers(q) \/ ReadServersFails(q) \/ PublishServers(q)
  \/ LookupResolved(q) \/ LookupRefreshed(q)
  \/ Forwarded(q) \/ Forbidden(q) \/ Unanswered(q) \/ DialForbidden(q) \/ Dialled(q)

Bridging(k, d) ==
  \/ ReadMessage(k, d) \/ ReadFails(k, d) \/ WriteMessage(k, d) \/ WriteFails(k, d)
  \/ BridgingEnds(k, d)

Pinging(k) == Ping(k) \/ PingFails(k) \/ PingReported(k) \/ PingStops(k)

Next ==
  \/ \E q \in All : Arrive(q) \/ Serve(q)
  \/ Restart \/ WriteFile \/ RemoveFile
  \/ \E k \in Channels :
       \/ ReadPong(k) \/ ReadTimesOut(k) \/ Pinging(k) \/ PingTimesOut(k)
       \/ BridgeReturns(k)
       \/ \E d \in Dirs : PeerSends(k, d) \/ Bridging(k, d)
       \/ \E e \in Ends, state \in {"up", "mute", "gone"} : PeerChanges(k, e, state)

Spec == Init /\ [][Next]_vars

\* The goroutines of the server run, and its clock does.  Nothing is asked of the
\* client and of the Jupyter server: an HTTP request to it ends by its timeout.
FairSpec ==
  /\ Spec
  /\ \A q \in All : WF_vars(Serve(q))
  /\ \A k \in Channels :
       /\ WF_vars(ReadPong(k) \/ ReadTimesOut(k) \/ Bridging(k, "toUpstream"))
       /\ WF_vars(Bridging(k, "toClient"))
       /\ WF_vars(Pinging(k)) /\ WF_vars(BridgeReturns(k))
=============================================================================

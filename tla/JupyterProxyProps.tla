-------------------------- MODULE JupyterProxyProps --------------------------
(***************************************************************************)
(* Correctness of the Jupyter proxy specified in JupyterProxy.             *)
(***************************************************************************)
EXTENDS JupyterProxy

Records == {None} \cup 0..(Restarts + 1)
Frames(d) == 0..Messages[d]

\* The variables have their types; a request is sent twice at most and is sent with a
\* token, and what a bridge has read of an end, holds and has written is what the end
\* sent: each message once, in order, none dropped (the loops of
\* bridgeWebSocketMessagesWithContext).
TypeOK ==
  /\ file \in Records /\ accepted \in 1..(Restarts + 1) /\ servers \in Records
  /\ pc \in [All -> {"never", "idle", "resolve", "reload", "publish", "lookup", "send", "bridge",
                     "answered"}]
  /\ attempts \in [All -> 0..2] /\ loaded \in [All -> Records]
  /\ token \in [All -> 0..(Restarts + 1)]
  /\ \A q \in All : pc[q] \in {"send", "bridge"} => token[q] # 0
  /\ \A k \in Channels, d \in Dirs :
       /\ ToSet(wire[k][d]) \subseteq Frames(d) /\ Len(wire[k][d]) <= WireCap
       /\ loop[k][d] \in {"off", "read", "write", "fail", "timeout", "done"}
  /\ \A k \in Channels : Len(errs[k]) <= ErrCap /\ since[k] \in 0..PongWait

\* Frames whose messages are those behind the a-th up to the b-th, each once, in order.
Carries(frames, a, b) ==
  /\ ToSet(frames) \ {Pong} = a + 1 .. b
  /\ \A i, j \in DOMAIN frames :
       i < j /\ Pong \notin {frames[i], frames[j]} => frames[i] < frames[j]

Relayed ==
  \A k \in Channels, d \in Dirs :
    LET n == Len(written[k][d]) IN
      /\ written[k][d] = [i \in 1..n |-> i]
      /\ hand[k][d] \in {n, n + 1} /\ hand[k][d] <= sent[k][d]
      /\ loop[k][d] = "read" => hand[k][d] = n
      /\ Carries(wire[k][d], hand[k][d], sent[k][d])

JupyterInv == TypeOK /\ Relayed

\* A stale token is found out: an HTTP request is answered 403 or 404 only if the file
\* did not name the token the Jupyter server accepts at some time while it was served,
\* or could not be read, or if another request published an older reading of the file
\* between this one's reload and its look at the map (forwardHTTP, ResolveRefreshed;
\* TestForwardHTTP_ReloadsTokenAfterForbidden is the case of one request).
RefusedForCause ==
  \A q \in Requests : answer[q] \in {"forbidden", "not found"} => excused[q]

\* A quiet kernel does not cost a client its channels (jupyter_proxy.go:31-33): the read
\* deadline strikes only after an interval in which the client did not answer, or in
\* which the loop could not read because the kernel took no message.
AnsweringClientIsKept ==
  \A k \in Channels : loop[k].toUpstream = "timeout" => lapse[k]

\* When the request for the channels returns, the three goroutines of the bridge end,
\* whatever each of them was waiting for: errCh has room for the errors nobody takes.
BridgeEnds ==
  \A k \in Channels :
    (answer[k] = "bridged")
      ~> (pinger[k] = "done" /\ \A d \in Dirs : loop[k][d] = "done")

\* A client that is gone, or says nothing for a minute, loses its bridge, and the Jupyter
\* server is let go, unless the Jupyter server itself takes no message.
SilentClientIsDropped ==
  \A k \in Channels :
    (pc[k] = "bridge" /\ peer[k].client # "up")
      ~> (pc[k] = "answered" \/ peer[k].client = "up" \/ peer[k].upstream = "mute")
=============================================================================

-------------------------- MODULE EnvMonitorProps ---------------------------
(***************************************************************************)
(* Correctness of the monitors specified in EnvMonitor.                     *)
(***************************************************************************)
EXTENDS EnvMonitor, FiniteSets

\* The variables have their types.
MonitorTypeOK ==
  /\ owl \in BOOLEAN /\ version \in 0..Updates /\ unread \in BOOLEAN
  /\ subscribers \in Seq(Monitors) /\ closed \subseteq Monitors
  /\ readers \subseteq Notifiers /\ locker \in Monitors \cup {Nobody}
  /\ notify \in [Notifiers -> {"idle", "rlock", "snapshot", "send"}]
  /\ snapshot \in [Notifiers -> 0..Updates] /\ todo \in [Notifiers -> Seq(Monitors)]
  /\ monitor \in [Monitors -> {"idle", "wait", "join", "returned"}]
  /\ over \subseteq Monitors
  /\ subscribing \in [Monitors -> {"no", "lock", "append", "fail", "done"}]
  /\ leaving \in [Monitors -> {"no", "wait", "close", "done"}]
  /\ consumer \in [Monitors -> {"no", "receive", "send", "drain", "done"}]
  /\ hand \in [Monitors -> 0..Updates]
  /\ shown \in [Monitors -> [newest : -1..Updates, last : -1..Updates]]
  /\ errc \in [Monitors -> BOOLEAN]

\* mu: who is in notifySubscribers has the read lock, and a Lock was announced by a
\* monitor that enters or leaves the list.
Locking == /\ readers = {n \in Notifiers : notify[n] \in {"snapshot", "send"}}
           /\ \A m \in Monitors :
                (locker = m) <=> (subscribing[m] = "append" \/ leaving[m] = "close")

\* The list of subscribers holds every monitor that has entered it and not left, once.
Listed == /\ \A i, j \in DOMAIN subscribers : subscribers[i] = subscribers[j] => i = j
          /\ \A m \in Monitors : (m \in ToSet(subscribers)) <=> (leaving[m] \in {"wait", "close"})

\* A notification has only open channels ahead of it, whose monitors are still listed: a
\* send on a closed channel would end the program (notifySubscribers, unsubscribeUnsafe).
SendsOnOpen == \A n \in Notifiers : notify[n] = "send" =>
                 ToSet(todo[n]) \subseteq ToSet(subscribers) \ closed

\* A channel of an owl store is closed when its monitor has left the list, and only
\* because its own context ended: one client that leaves cuts no other off.
OwnEnd == \A m \in Monitors : (owl /\ m \in closed) => leaving[m] = "done" /\ m \in over

\* All of this together, which is inductive.
MonitorInv == MonitorTypeOK /\ Locking /\ Listed /\ SendsOnOpen /\ OwnEnd

\* A client is shown the store as it is at some time, however its first snapshot, the
\* changes and other subscriptions interleave, unless owl fails to make a snapshot of it
\* (subscribe, notifySubscribers). An older snapshot may follow: LatestIsLast.
NewestIsShown(m) == (m \in ToSet(subscribers))
                      ~> (shown[m].newest = version \/ m \in over \/ unread)

\* A monitor whose client is gone or whose stream failed returns, although notifications
\* may be on their way to it (MonitorEnvStore: "it should be drained too").
MonitorEnds(m) == (monitor[m] # "idle" /\ m \in over) ~> (monitor[m] = "returned")

\* A command that changes the environment gets on: no subscriber that enters, leaves or
\* fails stops it for ever.
UpdateReturns == \A w \in Writers : (notify[w] # "idle") ~> (notify[w] = "idle")

-----------------------------------------------------------------------------
(* What one would expect and the code does not do.                         *)

\* The snapshot that a client got last is the newest. It need not be: the goroutine that
\* greets a subscriber and a command notify at the same time, under the read lock, and
\* each sends what it has read when its turn comes (session.go:320).
LatestIsLast(m) == (m \in ToSet(subscribers))
                     ~> (shown[m].last = version \/ m \in over \/ unread)
=============================================================================

----------------------------- MODULE EnvMonitor -----------------------------
(***************************************************************************)
(* runner/session.go, runner/service.go: the calls of MonitorEnvStore that  *)
(* follow the environment of one session, and the commands that change it.  *)
(* An owl store sends a snapshot of itself to every subscriber after each   *)
(* change; a subscriber is an unbuffered channel that a goroutine of the    *)
(* call forwards to its client.  The simple store refuses subscriptions.    *)
(*                                                                         *)
(* The environment is its version: the number of changes made to it.  A     *)
(* change that owl refuses notifies nobody and is left out.                 *)
(***************************************************************************)
EXTENDS Integers, SequencesExt

CONSTANTS Monitors,   \* calls of MonitorEnvStore on the session
          Writers,    \* goroutines of commands that change its environment
          Updates,    \* how many changes they make, a bound
          Nobody

ASSUME MonitorConstants == /\ Updates \in Nat
                           /\ Monitors \cap Writers = {}
                           /\ Nobody \notin Monitors \cup Writers

Notifiers == Monitors \cup Writers   \* who runs notifySubscribers

VARIABLES owl,          \* the session has an owl store
          version,      \* of the store
          unread,       \* history: owl has failed to make a snapshot of this version
          subscribers,  \* owlEnvStorer.subscribers
          closed,       \* channels that are closed
          readers,      \* who has the read lock of mu
          locker,       \* whose Lock of mu was announced; it holds mu when no reader does
          notify,       \* where notifySubscribers is: "idle", "rlock", "snapshot", "send"
          snapshot,     \* what it sends
          todo,         \* to whom it has to send it yet
          monitor,      \* MonitorEnvStore: "idle", "wait" (for a result), "join", "returned"
          over,         \* the calls whose context is done: cancelled, or the client is gone
          subscribing,  \* its call of Subscribe: "no", "lock", "append", "fail", "done"
          leaving,      \* the goroutine that unsubscribes: "no", "wait", "close", "done"
          consumer,     \* its consumer: "no", "receive", "send", "drain", "done"
          hand,         \* the snapshot the consumer has received
          errc,         \* its channel for one result: whether it holds one
          shown         \* the snapshots its client got: the newest, and the last

mutex == <<readers, locker>>
store == <<owl, version, subscribers, closed, unread>>
notification == <<notify, snapshot, todo>>
call == <<monitor, over, subscribing, leaving, consumer, hand, errc, shown>>
monitorVars == <<store, mutex, notification, call>>

MonitorInit ==
  /\ owl \in BOOLEAN /\ version = 0 /\ subscribers = <<>> /\ closed = {}
  /\ unread = FALSE
  /\ readers = {} /\ locker = Nobody
  /\ notify = [n \in Notifiers |-> "idle"] /\ snapshot = [n \in Notifiers |-> 0]
  /\ todo = [n \in Notifiers |-> <<>>]
  /\ monitor = [m \in Monitors |-> "idle"] /\ over = {}
  /\ subscribing = [m \in Monitors |-> "no"] /\ leaving = [m \in Monitors |-> "no"]
  /\ consumer = [m \in Monitors |-> "no"] /\ hand = [m \in Monitors |-> 0]
  /\ errc = [m \in Monitors |-> FALSE]
  /\ shown = [m \in Monitors |-> [newest |-> -1, last |-> -1]]

-----------------------------------------------------------------------------
(* sync.RWMutex: an announced Lock keeps new readers out and waits for the  *)
(* others.                                                                 *)

RLock(n) == locker = Nobody /\ readers' = readers \cup {n} /\ UNCHANGED locker
RUnlock(n) == readers' = readers \ {n} /\ UNCHANGED locker
Announce(m) == locker = Nobody /\ locker' = m /\ UNCHANGED readers
\* Mutant: the writer does not wait for the readers.
LockedNow(m) == locker = m
Locked(m) == locker = m /\ readers = {}
Unlock == locker' = Nobody /\ UNCHANGED readers

-----------------------------------------------------------------------------
(* Changes: updateStore, addEnvs, setEnv, and notifySubscribers.            *)

Update(w) == /\ notify[w] = "idle" /\ version < Updates
             /\ version' = version + 1 /\ unread' = FALSE
             /\ notify' = IF owl THEN [notify EXCEPT ![w] = "rlock"] ELSE notify
             /\ UNCHANGED <<owl, subscribers, closed, mutex, snapshot, todo, call>>

NotifyRLock(n) == /\ notify[n] = "rlock"
                  /\ RLock(n)
                  /\ notify' = [notify EXCEPT ![n] = "snapshot"]
                  /\ UNCHANGED <<store, snapshot, todo, call>>

\* owl may fail: then it is logged, and nobody is sent anything.
TakeSnapshot(n) ==
  /\ notify[n] = "snapshot"
  /\ \/ /\ snapshot' = [snapshot EXCEPT ![n] = version]
        /\ todo' = [todo EXCEPT ![n] = subscribers]
        /\ UNCHANGED unread
     \/ /\ todo' = [todo EXCEPT ![n] = <<>>]
        /\ unread' = TRUE /\ UNCHANGED snapshot
  /\ notify' = [notify EXCEPT ![n] = "send"]
  /\ UNCHANGED <<owl, version, subscribers, closed, mutex, call>>

\* The channel has no buffer: the notification waits for the consumer, which may be
\* forwarding another one.  A drained snapshot is dropped.
SendSnapshot(n) ==
  /\ notify[n] = "send" /\ todo[n] # <<>>
  /\ LET m == Head(todo[n]) IN
       \/ /\ consumer[m] = "receive"
          /\ hand' = [hand EXCEPT ![m] = snapshot[n]]
          /\ consumer' = [consumer EXCEPT ![m] = "send"]
       \/ consumer[m] = "drain" /\ UNCHANGED <<hand, consumer>>
  /\ todo' = [todo EXCEPT ![n] = Tail(@)]
  /\ UNCHANGED <<store, mutex, notify, snapshot, monitor, over, subscribing, leaving, errc,
                 shown>>

\* Mutant: a return in notifySubscribers without the unlock.
NotifyEndsLocked(n) == /\ notify[n] = "send" /\ todo[n] = <<>>
                       /\ notify' = [notify EXCEPT ![n] = "idle"]
                       /\ UNCHANGED <<store, mutex, snapshot, todo, call>>
NotifyEnds(n) == /\ notify[n] = "send" /\ todo[n] = <<>>
                 /\ RUnlock(n)
                 /\ notify' = [notify EXCEPT ![n] = "idle"]
                 /\ snapshot' = [snapshot EXCEPT ![n] = 0]
                 /\ UNCHANGED <<store, todo, call>>

-----------------------------------------------------------------------------
(* MonitorEnvStore.                                                        *)

Set(f, m, x) == f' = [f EXCEPT ![m] = x]

MonitorCall(m) ==
  /\ monitor[m] = "idle" /\ Set(monitor, m, "wait")
  /\ Set(subscribing, m, IF owl THEN "lock" ELSE "fail")
  /\ Set(consumer, m, "receive")
  /\ closed' = IF owl THEN closed ELSE closed \cup {m}
  /\ UNCHANGED <<owl, version, subscribers, unread, mutex, notification, over, leaving,
                 hand, errc, shown>>

\* The simple store has closed the channel and returned an error.
SubscribeFails(m) == /\ subscribing[m] = "fail" /\ ~errc[m]
                     /\ Set(errc, m, TRUE) /\ Set(subscribing, m, "done")
                     /\ UNCHANGED <<store, mutex, notification, monitor, over, leaving,
                                    consumer, hand, shown>>

SubscribeLock(m) == /\ subscribing[m] = "lock" /\ Announce(m)
                    /\ Set(subscribing, m, "append")
                    /\ UNCHANGED <<store, notification, monitor, over, leaving, consumer,
                                   hand, errc, shown>>

\* Two goroutines go on: one that waits for the end of the context, and one that sends the
\* first snapshot.
\* Mutant: without the second, the subscriber waits for a change.
SubscribeQuiet(m) == /\ subscribing[m] = "append" /\ Locked(m) /\ Unlock
                     /\ subscribers' = Append(subscribers, m)
                     /\ Set(subscribing, m, "done") /\ Set(leaving, m, "wait")
                     /\ UNCHANGED <<owl, version, closed, unread, notification, monitor, over,
                                    consumer, hand, errc, shown>>
Subscribe(m) == /\ subscribing[m] = "append" /\ Locked(m) /\ Unlock
                /\ subscribers' = Append(subscribers, m)
                /\ Set(subscribing, m, "done") /\ Set(leaving, m, "wait")
                /\ Set(notify, m, "rlock")
                /\ UNCHANGED <<owl, version, closed, unread, snapshot, todo, monitor, over,
                               consumer, hand, errc, shown>>

UnsubscribeLock(m) == /\ leaving[m] = "wait" /\ m \in over /\ Announce(m)
                      /\ Set(leaving, m, "close")
                      /\ UNCHANGED <<store, notification, monitor, over, subscribing,
                                     consumer, hand, errc, shown>>

Unsubscribe(m) == /\ leaving[m] = "close" /\ Locked(m) /\ Unlock
                  /\ \E i \in DOMAIN subscribers :
                       subscribers[i] = m /\ subscribers' = RemoveAt(subscribers, i)
                  /\ closed' = closed \cup {m}
                  /\ Set(leaving, m, "done")
                  /\ UNCHANGED <<owl, version, unread, notification, monitor, over, subscribing,
                                 consumer, hand, errc, shown>>

ClientLeaves(m) == /\ monitor[m] \in {"wait", "join"} /\ m \notin over
                   /\ over' = over \cup {m}
                   /\ UNCHANGED <<store, mutex, notification, monitor, subscribing, leaving,
                                  consumer, hand, errc, shown>>
-----------------------------------------------------------------------------
(* The consumer of a call.                                                 *)

Forward(m) == /\ consumer[m] = "send"
              /\ shown' = [shown EXCEPT ![m] = [newest |-> Max({@.newest, hand[m]}),
                                                last |-> hand[m]]]
              /\ Set(hand, m, 0) /\ Set(consumer, m, "receive")
              /\ UNCHANGED <<store, mutex, notification, monitor, over, subscribing, leaving,
                             errc>>

\* The snapshot cannot be converted, or the stream is broken: the error is reported, the
\* context cancelled, and what still comes is drained.
\* Mutant: the consumer ends at once.
GivesUp(m) == /\ consumer[m] = "send" /\ ~errc[m]
              /\ Set(errc, m, TRUE) /\ Set(consumer, m, "done") /\ Set(hand, m, 0)
              /\ over' = over \cup {m}
              /\ UNCHANGED <<store, mutex, notification, monitor, subscribing, leaving, shown>>
ForwardFails(m) ==
  /\ consumer[m] = "send" /\ ~errc[m]
  /\ Set(errc, m, TRUE) /\ Set(consumer, m, "drain") /\ Set(hand, m, 0)
  /\ over' = over \cup {m}
  /\ UNCHANGED <<store, mutex, notification, monitor, subscribing, leaving, shown>>

\* The channel is closed, and there is room in errc for the result.
ConsumerEnds(m) == /\ consumer[m] \in {"receive", "drain"} /\ m \in closed
                   /\ ~errc[m] /\ Set(errc, m, TRUE)
                   /\ Set(consumer, m, "done")
                   /\ UNCHANGED <<store, mutex, notification, monitor, over, subscribing,
                                  leaving, hand, shown>>

-----------------------------------------------------------------------------
(* ... and its handler: one result, and wg.Wait.                       *)

Result(m) == /\ monitor[m] = "wait" /\ errc[m]
             /\ Set(monitor, m, "join")
             /\ Set(errc, m, FALSE)
             /\ UNCHANGED <<store, mutex, notification, over, subscribing, leaving, consumer,
                            hand, shown>>

Return(m) == /\ monitor[m] = "join"
             /\ consumer[m] = "done" /\ subscribing[m] = "done"
             /\ Set(monitor, m, "returned")
             /\ UNCHANGED <<store, mutex, notification, over, subscribing, leaving, consumer,
                            hand, errc, shown>>

-----------------------------------------------------------------------------
NotifyStep(n) == NotifyRLock(n) \/ TakeSnapshot(n) \/ SendSnapshot(n) \/ NotifyEnds(n)
SubscribeStep(m) == SubscribeLock(m) \/ Subscribe(m) \/ SubscribeFails(m)
LeaveStep(m) == UnsubscribeLock(m) \/ Unsubscribe(m)
ConsumerStep(m) == Forward(m) \/ ForwardFails(m) \/ ConsumerEnds(m)
CallStep(m) == Result(m) \/ Return(m)

MonitorNext ==
  \/ \E w \in Writers : Update(w)
  \/ \E n \in Notifiers : NotifyStep(n)
  \/ \E m \in Monitors : \/ MonitorCall(m) \/ ClientLeaves(m)
                         \/ SubscribeStep(m) \/ LeaveStep(m)
                         \/ ConsumerStep(m) \/ CallStep(m)

MonitorSpec == MonitorInit /\ [][MonitorNext]_monitorVars

\* Goroutines get on.  The clients read what they are sent: srv.Send waits for one that
\* does not.  Nobody has to make a call, change anything or leave.
MonitorFairness ==
  /\ \A n \in Notifiers : WF_monitorVars(NotifyStep(n))
  /\ \A m \in Monitors : /\ WF_monitorVars(SubscribeStep(m)) /\ WF_monitorVars(LeaveStep(m))
                         /\ WF_monitorVars(ConsumerStep(m)) /\ WF_monitorVars(CallStep(m))
FairMonitorSpec == MonitorSpec /\ MonitorFairness
=============================================================================

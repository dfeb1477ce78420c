---------------------------- MODULE MCEnvMonitor ----------------------------
(***************************************************************************)
(* Two clients that follow a session and a command that changes it.  The    *)
(* notifications that greet a new client run beside those of the command.   *)
(* The clients are alike: what is checked of the one holds of the other.    *)
(***************************************************************************)
EXTENDS EnvMonitorProps

CONSTANTS m1, m2, w1

\* NewestIsShown, to a client among two (subscribe, notifySubscribers).
NewestIsShownToEach == NewestIsShown(m1)

\* MonitorEnds, for a client among two (MonitorEnvStore).
EachMonitorEnds == MonitorEnds(m1)
=============================================================================

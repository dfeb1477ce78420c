------------------------------ MODULE RunLease ------------------------------
(***************************************************************************)
(* What the agent's websocket handler promises about run identifiers,      *)
(* without connections, locks or goroutines: a run ID is leased to one     *)
(* multiplexer at a time, and a lease is given back only by a multiplexer  *)
(* that never began work or that finished its close path.                  *)
(***************************************************************************)

CONSTANTS RunIDs,   \* the run identifiers clients ask for
          Muxes,    \* multiplexer instances, each used for one run at most
          None      \* "no run"

VARIABLES stage,    \* [Muxes -> Stages], how far each instance has got
          lease     \* [Muxes -> RunIDs \cup {None}], the run it was made for

leaseVars == <<stage, lease>>

Stages == {"unborn", "held", "working", "closed", "released"}

\* The stages in which an instance has its run ID to itself.
Holding == {"held", "working", "closed"}

LeaseInit == /\ stage = [m \in Muxes |-> "unborn"]
             /\ lease = [m \in Muxes |-> None]

Acquire(m, r) == /\ stage[m] = "unborn"
                 /\ \A o \in Muxes : lease[o] = r => stage[o] \notin Holding
                 /\ stage' = [stage EXCEPT ![m] = "held"]
                 /\ lease' = [lease EXCEPT ![m] = r]

Begin(m) == /\ stage[m] = "held"
            /\ stage' = [stage EXCEPT ![m] = "working"]
            /\ UNCHANGED lease

Complete(m) == /\ stage[m] = "working"
               /\ stage' = [stage EXCEPT ![m] = "closed"]
               /\ UNCHANGED lease

Release(m) == /\ stage[m] \in {"held", "closed"}
              /\ stage' = [stage EXCEPT ![m] = "released"]
              /\ UNCHANGED lease

LeaseNext == \E m \in Muxes : \/ \E r \in RunIDs : Acquire(m, r)
                              \/ Begin(m)
                              \/ Complete(m)
                              \/ Release(m)

LeaseSpec == LeaseInit /\ [][LeaseNext]_leaseVars
=============================================================================

--------------------------- MODULE SessionsProps ----------------------------
(***************************************************************************)
(* Correctness of the sessions specified in Sessions.                      *)
(***************************************************************************)
EXTENDS Sessions

Pairs == Vars \X (Values \cup {Large, None})

\* The variables have their types, the list holds no session twice and never more
\* than its capacity, and a handler that has yet to list its session is the only one
\* to know it (Cache, Execute).
SessionsInv ==
  /\ order \in Seq(created) /\ created \subseteq IDs
  /\ env \in [IDs -> Environ]
  /\ pc \in [Handlers -> {"idle", "add", "merge", "update", "start", "running",
                          "collect", "output", "known", "done", "failed"}]
  /\ sess \in [Handlers -> created \cup {None}]
  /\ \A h \in Handlers : sess[h] = None <=> pc[h] = "idle"
  /\ request \in [Handlers -> Seq(Pairs)] /\ todo \in [Handlers -> Seq(Pairs)]
  /\ pre \in [Handlers -> Environ] /\ post \in [Handlers -> Environ]
  /\ wrote \in [Handlers -> SUBSET Vars]
  /\ Len(order) <= Capacity
  /\ \A i, j \in 1..Len(order) : order[i] = order[j] => i = j
  /\ \A h \in Handlers : pc[h] = "add" =>
       /\ ~Listed(sess[h])
       /\ \A g \in Handlers \ {h} : sess[g] # sess[h]

\* The items of a list, and the pairs of them whose first stands behind its second.
Members(s) == {s[i] : i \in 1..Len(s)}
Older(s) == {<<s[p[1]], s[p[2]]>> : p \in {q \in (1..Len(s)) \X (1..Len(s)) : q[1] > q[2]}}

\* The list is ordered by use, whichever calls of whichever handlers used a session,
\* and pushes out the one that was not used for the longest time (Cache.Add, GetByID).
Recency == INSTANCE RecencyList WITH
  Entries <- IDs, members <- Members(order), older <- Older(order)
RecencySpec == Recency!RecencySpec

\* What handler h may set v of its session to: what its request says, what its program
\* has changed v to, or the program's output, in __ and under its cell's name.
Intends(h, v, x) ==
  \/ pc[h] \in {"merge", "update"} /\ <<v, x>> \in ToSet(request[h])
  \/ pc[h] = "collect" /\ post[h][v] = x /\ pre[h][v] # x
  \/ pc[h] = "output" /\ v = Output
  \/ pc[h] = "known" /\ v \in KnownNames

\* Two commands that run in one session at the same time lose no change of each other:
\* a command's environment, a copy from its start, comes back only where the program
\* has changed it, so that what others have set meanwhile stays (collectEnv). Its output
\* is the exception: stored under the cell's name, it replaces what is there whoever has
\* set it (storeOutputInEnv).
OnlyOwnChanges ==
  [][\A s \in created, v \in Vars :
       env'[s][v] # env[s][v]
         => \E h \in Handlers : sess[h] = s /\ Intends(h, v, env'[s][v])]_vars

\* What a program did to its environment is stored whole or not at all, although it is
\* stored one variable at a time by a loop that ends at the first that is too large
\* (diffEnvs, collectEnv, EnvStoreMap.Merge).
AllOrNothing ==
  \A h \in Handlers :
    pc[h] = "output" => wrote[h] \in {{}, {v \in Vars : post[h][v] # pre[h][v]}}
=============================================================================

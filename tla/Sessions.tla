------------------------------ MODULE Sessions ------------------------------
(***************************************************************************)
(* The sessions of the runner service (v2): their list                     *)
(* (internal/lru), the handlers that share it (service.go,                 *)
(* service_sessions.go), and the environment of a session as it is set by  *)
(* requests and by the commands that run in it (service_execute.go,        *)
(* command_inline_shell.go, env_store_map.go).  A handler locks the list   *)
(* once per call and the environment once per variable; any step of        *)
(* another handler may come between.                                       *)
(*                                                                         *)
(* An environment maps each variable to a value or to None.  wrote is      *)
(* history: the variables a command has stored after its end.              *)
(***************************************************************************)
EXTENDS Integers, FiniteSets, SequencesExt

CONSTANTS IDs,        \* session IDs there are to draw from (bound)
          Capacity,   \* SessionListCapacity
          Handlers,   \* calls of Execute and UpdateSession, each used once
          Vars,       \* names of environment variables
          Values,     \* values that fit into a variable
          Large,      \* a value above MaxEnvSizeInBytes
          Output,     \* the variable __
          KnownNames, \* cells' names that are opinionated names of variables
          Requests,   \* environments of requests: sequences of <<name, value>>
          Effects,    \* what programs do: functions of some of Vars
          None

ASSUME SessionConstants ==
  /\ Capacity \in Nat \ {0}
  /\ IsFiniteSet(IDs) /\ None \notin IDs /\ IsFiniteSet(Vars)
  /\ Large \notin Values /\ None \notin Values \cup {Large}
  /\ Output \in Vars /\ KnownNames \subseteq Vars
  /\ Requests \subseteq Seq(Vars \X (Values \cup {Large}))
  /\ \A e \in Effects : /\ DOMAIN e \subseteq Vars
                        /\ \A v \in DOMAIN e : e[v] \in Values \cup {Large, None}

VARIABLES order,    \* Cache.order: the listed sessions, the most recent first
          created,  \* the sessions made so far
          env,      \* EnvStoreMap.items of each session
          pc,       \* where a handler is
          sess,     \* its session
          request,  \* the environment its request carries
          todo,     \* the assignments SetEnv and DeleteEnv have still to do
          pre, post,  \* the environment before and after its program ran
          wrote

cache == <<order, created>>
command == <<pre, post, wrote>>
vars == <<cache, env, pc, sess, request, todo, command>>

Environ == [Vars -> Values \cup {Large, None}]
Empty == [v \in Vars |-> None]

-----------------------------------------------------------------------------
(* internal/lru/cache.go                                                   *)

Listed(s) == \E i \in 1..Len(order) : order[i] = s
Place(s) == CHOOSE i \in 1..Len(order) : order[i] = s

\* Mutant: the list grows beyond its capacity.
AddUnbounded(s) == <<s>> \o order
\* Mutant: a full list drops its first entry.
AddDropsFirst(s) == <<s>> \o (IF Len(order) >= Capacity THEN Tail(order) ELSE order)
\* A full list first drops its last entry.
Add(s) ==
  <<s>> \o (IF Len(order) >= Capacity THEN SubSeq(order, 1, Len(order) - 1) ELSE order)

GetByID(s) == <<s>> \o RemoveAt(order, Place(s))

DeleteByID(s) == RemoveAt(order, Place(s))

-----------------------------------------------------------------------------
Init == /\ order = <<>> /\ created = {}
        /\ env = [s \in IDs |-> Empty]
        /\ pc = [h \in Handlers |-> "idle"]
        /\ sess = [h \in Handlers |-> None]
        /\ request = [h \in Handlers |-> <<>>]
        /\ todo = [h \in Handlers |-> <<>>]
        /\ pre = [h \in Handlers |-> Empty] /\ post = [h \in Handlers |-> Empty]
        /\ wrote = [h \in Handlers |-> {}]

Goto(h, place) == pc' = [pc EXCEPT ![h] = place]

\* Handler h takes up a request with environment r for session s.
Begin(h, place, s, r) ==
  /\ pc[h] = "idle"
  /\ Goto(h, place)
  /\ sess' = [sess EXCEPT ![h] = s]
  /\ request' = [request EXCEPT ![h] = r]
  /\ todo' = [todo EXCEPT ![h] = r]
  /\ UNCHANGED <<env, command>>

\* Calls that name a session: getOrCreateSessionFromRequest of Execute and
\* UpdateSession.  GetByID makes it the most recent.
ByID(h, place, s, r) == /\ Listed(s)
                        /\ order' = GetByID(s)
                        /\ Begin(h, place, s, r)
                        /\ UNCHANGED created

ExecuteByID(h, s, r) == ByID(h, "merge", s, r)
UpdateSession(h, s, r) == ByID(h, "update", s, r)

\* Newest leaves the order alone.
ExecuteMostRecent(h, r) == /\ order # <<>>
                           /\ Begin(h, "merge", Head(order), r)
                           /\ UNCHANGED cache

\* Neither ID nor strategy, or no session is listed: a new one, not listed yet.
ExecuteNew(h, s, r) == /\ s \notin created
                       /\ created' = created \cup {s}
                       /\ Begin(h, "add", s, r)
                       /\ UNCHANGED order

AddSession(h) == /\ pc[h] = "add"
                 /\ order' = Add(sess[h])
                 /\ Goto(h, "merge")
                 /\ UNCHANGED <<created, env, sess, request, todo, command>>

\* The request has no config, or the command cannot be built or started.
ExecuteFails(h) == /\ \/ pc[h] = "merge" /\ todo[h] = request[h]
                      \/ pc[h] = "start"
                   /\ Goto(h, "failed")
                   /\ UNCHANGED <<cache, env, sess, request, todo, command>>

-----------------------------------------------------------------------------
(* Session.SetEnv and DeleteEnv: a variable at a time, up to the first that *)
(* is too large.                                                           *)

Merged == [update |-> "done", merge |-> "start", collect |-> "output", known |-> "done"]
Refused == [update |-> "failed", merge |-> "failed", collect |-> "output", known |-> "done"]

Set(h) == /\ pc[h] \in DOMAIN Merged /\ todo[h] # <<>>
          /\ Head(todo[h])[2] # Large
          /\ env' = [env EXCEPT ![sess[h]][Head(todo[h])[1]] = Head(todo[h])[2]]
          /\ todo' = [todo EXCEPT ![h] = Tail(@)]
          /\ wrote' = [wrote EXCEPT ![h] = IF pc[h] = "collect"
                                           THEN @ \cup {Head(todo[h])[1]} ELSE @]
          /\ UNCHANGED <<cache, pc, sess, request, pre, post>>

MergeEnds(h) == /\ pc[h] \in DOMAIN Merged
                /\ \/ todo[h] = <<>> /\ Goto(h, Merged[pc[h]])
                   \/ /\ todo[h] # <<>> /\ Head(todo[h])[2] = Large
                      /\ Goto(h, Refused[pc[h]])
                /\ todo' = [todo EXCEPT ![h] = <<>>]
                /\ UNCHANGED <<cache, env, sess, request, command>>

-----------------------------------------------------------------------------
(* The command.                                                            *)

\* base.Env: the session's environment, and the request's on top of it.
Asked(r) == [v \in {r[i][1] : i \in 1..Len(r)} |->
               r[CHOOSE i \in 1..Len(r) : /\ r[i][1] = v
                                          /\ \A j \in i + 1 .. Len(r) : r[j][1] # v][2]]
With(e, change) == [v \in Vars |-> IF v \in DOMAIN change THEN change[v] ELSE e[v]]

Start(h) == /\ pc[h] = "start"
            /\ pre' = [pre EXCEPT ![h] = With(env[sess[h]], Asked(request[h]))]
            /\ Goto(h, "running")
            /\ UNCHANGED <<cache, env, sess, request, todo, post, wrote>>

\* diffEnvs loads both dumps into a store of its own, which refuses what is too
\* large; the order in which variables come out of its map is arbitrary.
\* Mutant: the dumps are compared whatever their sizes.
DiffUnchecked(a, b) ==
  LET Pairs(S) == {<<v, b[v]>> : v \in S}
  IN {c \o d : c \in SetToSeqs(Pairs({v \in Vars : b[v] \notin {a[v], None}})),
               d \in SetToSeqs(Pairs({v \in Vars : b[v] # a[v] /\ b[v] = None}))}
\* Mutant: every variable of the final dump counts as changed.
DiffAll(a, b) == IF \E v \in Vars : Large \in {a[v], b[v]} THEN {<<>>}
                 ELSE DiffUnchecked(Empty, b)
Diff(a, b) == IF \E v \in Vars : Large \in {a[v], b[v]} THEN {<<>>}
              ELSE DiffUnchecked(a, b)

\* The program ends and its effects are collected.
Finish(h) == /\ pc[h] = "running"
             /\ \E e \in Effects :
                  LET after == With(pre[h], e)
                  IN /\ post' = [post EXCEPT ![h] = after]
                     /\ \E d \in Diff(pre[h], after) : todo' = [todo EXCEPT ![h] = d]
             /\ Goto(h, "collect")
             /\ UNCHANGED <<cache, env, sess, request, pre, wrote>>

\* The program is not a shell, or Diff fails: nothing is collected.
FinishUncollected(h) == /\ pc[h] = "running"
                        /\ Goto(h, "output")
                        /\ UNCHANGED <<cache, env, sess, request, todo, command>>

\* storeOutputInEnv, deferred by Wait: what is stored is cut to fit beside __. It is
\* stored again under the name of the cell, unless that is not opinionated, or so much
\* longer that SetEnv refuses.
Again(x) == {<<>>} \cup {<<<<v, x>>>> : v \in KnownNames}

StoreOutput(h) == /\ pc[h] = "output"
                  /\ \E x \in Values :
                       /\ env' = [env EXCEPT ![sess[h]][Output] = x]
                       /\ \E named \in Again(x) : todo' = [todo EXCEPT ![h] = named]
                  /\ Goto(h, "known")
                  /\ UNCHANGED <<cache, sess, request, command>>

\* The request does not ask for its output to be stored.
KeepNoOutput(h) == /\ pc[h] = "output"
                   /\ Goto(h, "done")
                   /\ UNCHANGED <<cache, env, sess, request, todo, command>>

-----------------------------------------------------------------------------
(* Calls that lock the list once.                                          *)

\* CreateSession sets the environment of a session that nobody else knows yet.
CreateSession(s, r) ==
  /\ s \notin created
  /\ \A i \in 1..Len(r) : r[i][2] # Large
  /\ created' = created \cup {s}
  /\ env' = [env EXCEPT ![s] = With(Empty, Asked(r))]
  /\ order' = Add(s)
  /\ UNCHANGED <<pc, sess, request, todo, command>>

\* GetSession, and ResolveProgram that names a session.
GetSession(s) == /\ Listed(s)
                 /\ order' = GetByID(s)
                 /\ UNCHANGED <<created, env, pc, sess, request, todo, command>>

DeleteSession(s) == /\ Listed(s)
                    /\ order' = DeleteByID(s)
                    /\ UNCHANGED <<created, env, pc, sess, request, todo, command>>

-----------------------------------------------------------------------------
HandlerStep(h) ==
  \/ AddSession(h) \/ ExecuteFails(h) \/ Set(h) \/ MergeEnds(h)
  \/ Start(h) \/ Finish(h) \/ FinishUncollected(h)
  \/ StoreOutput(h) \/ KeepNoOutput(h)

Call(s, r) == \/ CreateSession(s, r) \/ GetSession(s) \/ DeleteSession(s)
              \/ \E h \in Handlers : \/ ExecuteByID(h, s, r) \/ UpdateSession(h, s, r)
                                     \/ ExecuteNew(h, s, r) \/ ExecuteMostRecent(h, r)

Next == \/ \E h \in Handlers : HandlerStep(h)
        \/ \E s \in IDs, r \in Requests : Call(s, r)

Spec == Init /\ [][Next]_vars
=============================================================================

----------------------------- MODULE RecencyList ----------------------------
(***************************************************************************)
(* What a list of the most recently used entries promises, without saying  *)
(* how it is kept: every use makes an entry the youngest, and an entry is  *)
(* pushed out only by a new one, only when the list is full, and only when *)
(* every other entry was used after it.                                    *)
(***************************************************************************)
EXTENDS Integers, FiniteSets

CONSTANTS Entries, Capacity

VARIABLES members,  \* the entries on the list
          older     \* <<a, b>>: a was last used before b

recencyVars == <<members, older>>

\* The pairs that say e was used before another entry, or after it.
Of(e) == {p \in older : p[1] = e \/ p[2] = e}

RecencyInit == members = {} /\ older = {}

Use(e) == /\ e \in members
          /\ members' = members
          /\ older' = (older \ Of(e)) \cup {<<o, e>> : o \in members \ {e}}

Enter(e) == /\ e \notin members
            /\ Cardinality(members) < Capacity
            /\ members' = members \cup {e}
            /\ older' = older \cup {<<o, e>> : o \in members}

Replace(e, out) == /\ e \notin members /\ out \in members
                   /\ Cardinality(members) = Capacity
                   /\ \A o \in members \ {out} : <<out, o>> \in older
                   /\ members' = (members \ {out}) \cup {e}
                   /\ older' = (older \ Of(out)) \cup {<<o, e>> : o \in members \ {out}}

Leave(e) == /\ e \in members
            /\ members' = members \ {e}
            /\ older' = older \ Of(e)

RecencyNext == \E e \in Entries : \/ Use(e) \/ Enter(e) \/ Leave(e)
                                  \/ \E out \in Entries : Replace(e, out)

RecencySpec == RecencyInit /\ [][RecencyNext]_recencyVars
=============================================================================

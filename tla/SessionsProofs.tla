--------------------------- MODULE SessionsProofs ---------------------------
(***************************************************************************)
(* Proofs about the sessions of the runner service v2: about Sessions for  *)
(* any number of handlers, sessions and variables, any requests and any    *)
(* effects of programs; and about EnvCollector, which brings the effects   *)
(* back, for environments of any size.                                     *)
(***************************************************************************)
EXTENDS SessionsProps, EnvCollectorProps, SequenceFacts

Vals == Values \cup {Large, None}

\* The variables a program has changed.
Changed(a, b) == {v \in Vars : b[v] # a[v]}
Changes(a, b) == {<<v, b[v]>> : v \in Changed(a, b)}

-----------------------------------------------------------------------------
(* Environments.                                                           *)

\* The environment of a request gives each of its names the last of its values.
LEMMA AskedTyped ==
  ASSUME NEW e \in Environ, NEW r \in Seq(Pairs)
  PROVE  With(e, Asked(r)) \in Environ
<1> DEFINE At(v) == {i \in 1..Len(r) : r[i][1] = v}
           IsLast(v, i) == r[i][1] = v /\ \A j \in i + 1 .. Len(r) : r[j][1] # v
<1>1. Len(r) \in Nat /\ \A i \in 1..Len(r) : r[i] \in Pairs
  OBVIOUS
<1>2. ASSUME NEW v \in DOMAIN Asked(r) PROVE Asked(r)[v] \in Vals
  <2>1. v \in {r[i][1] : i \in 1..Len(r)}
    BY <1>2 DEF Asked
  <2>2. At(v) \in SUBSET (1..Len(r)) /\ At(v) # {}
    BY <2>1
  <2>3. \E i \in At(v) : \A j \in i + 1 .. Len(r) : j \notin At(v)
    <3> HIDE DEF At
    <3> QED
      BY <1>1, <2>2, LastOf
  <2>4. \E i \in 1..Len(r) : IsLast(v, i)
    <3>1. PICK i \in At(v) : \A j \in i + 1 .. Len(r) : j \notin At(v)
      BY <2>3
    <3>2. i \in 1..Len(r) /\ r[i][1] = v
      OBVIOUS
    <3>3. ASSUME NEW j \in i + 1 .. Len(r) PROVE r[j][1] # v
      <4>1. j \in 1..Len(r)
        BY <1>1, <3>2
      <4> QED
        BY <3>1, <4>1
    <3> QED
      BY <3>2, <3>3
  <2>5. Asked(r)[v] = r[CHOOSE i \in 1..Len(r) : IsLast(v, i)][2]
    BY <2>1 DEF Asked
  <2>6. PICK i \in 1..Len(r) : Asked(r)[v] = r[i][2]
    <3> HIDE DEF IsLast
    <3> QED
      BY <2>4, <2>5
  <2> QED
    BY <1>1, <2>6 DEF Pairs, Vals
<1> QED
  BY <1>2 DEF With, Environ, Vals

LEMMA EffectTyped ==
  ASSUME NEW a \in Environ, NEW e \in Effects
  PROVE  With(a, e) \in Environ
<1>1. \A v \in DOMAIN e : e[v] \in Vals
  BY SessionConstants DEF Vals
<1> QED
  BY <1>1 DEF With, Environ, Vals

\* What is found in the two dumps: nothing when one of them cannot be loaded, else all
\* that has changed, and nothing that is too large.
LEMMA DiffItems ==
  ASSUME NEW a \in Environ, NEW b \in Environ, NEW d \in Diff(a, b)
  PROVE  /\ d \in Seq(Pairs)
         /\ \/ d = <<>>
            \/ ToSet(d) = Changes(a, b) /\ \A v \in Vars : b[v] # Large
<1>1. CASE \E v \in Vars : Large \in {a[v], b[v]}
  <2>1. d = <<>>
    BY <1>1 DEF Diff
  <2> QED
    BY <2>1
<1>2. CASE ~ \E v \in Vars : Large \in {a[v], b[v]}
  <2> DEFINE New == {v \in Vars : b[v] \notin {a[v], None}}
             Gone == {v \in Vars : b[v] # a[v] /\ b[v] = None}
             P(S) == {<<v, b[v]>> : v \in S}
  <2>1. d \in DiffUnchecked(a, b)
    BY <1>2 DEF Diff
  <2>2. PICK s \in SetToSeqs(P(New)), t \in SetToSeqs(P(Gone)) : d = s \o t
    <3> DEFINE C == SetToSeqs(P(New))
               D == SetToSeqs(P(Gone))
    <3>1. DiffUnchecked(a, b) = {c \o x : c \in C, x \in D}
      BY DEF DiffUnchecked
    <3> HIDE DEF C, D
    <3>2. \E s \in C, t \in D : d = s \o t
      BY <2>1, <3>1
    <3> QED
      BY <3>2 DEF C, D
  <2>3. ASSUME NEW S \in SUBSET Vars PROVE IsFiniteSet(P(S)) /\ P(S) \subseteq Pairs
    <3>1. IsFiniteSet(S)
      BY SessionConstants, FS_Subset
    <3> DEFINE f == [v \in S |-> <<v, b[v]>>]
    <3>2. f \in Surjection(S, P(S))
      BY DEF Surjection
    <3>3. IsFiniteSet(P(S))
      <4> HIDE DEF f, P
      <4> QED
        BY <3>1, <3>2, FS_Surjection
    <3>4. P(S) \subseteq Pairs
      BY DEF Pairs, Environ
    <3> QED
      BY <3>3, <3>4
  <2>4. /\ IsFiniteSet(P(New)) /\ IsFiniteSet(P(Gone))
        /\ P(New) \subseteq Pairs /\ P(Gone) \subseteq Pairs
    <3>1. New \in SUBSET Vars /\ Gone \in SUBSET Vars
      OBVIOUS
    <3> HIDE DEF New, Gone, P
    <3> QED
      BY <2>3, <3>1
  <2>5. /\ s \in Seq(P(New)) /\ ToSet(s) = P(New)
        /\ t \in Seq(P(Gone)) /\ ToSet(t) = P(Gone)
    <3> HIDE DEF New, Gone, P
    <3> QED
      BY <2>2, <2>4, EnumerationItems
  <2>6. s \in Seq(Pairs) /\ t \in Seq(Pairs)
    <3> HIDE DEF New, Gone, P
    <3> QED
      BY <2>4, <2>5, SeqOfMore
  <2>7. d \in Seq(Pairs) /\ ToSet(d) = P(New) \cup P(Gone)
    <3> HIDE DEF New, Gone, P
    <3> QED
      BY <2>2, <2>5, <2>6, ConcatSet
  <2>8. P(New) \cup P(Gone) = Changes(a, b)
    BY DEF Changes, Changed
  <2> QED
    BY <1>2, <2>7, <2>8
<1> QED
  BY <1>1, <1>2
-----------------------------------------------------------------------------
(* The list.                                                               *)

Listing == /\ order \in Seq(created) /\ created \subseteq IDs
           /\ Len(order) <= Capacity /\ Distinct(order)

LEMMA ListedIff == Listing => \A s : Listed(s) <=> s \in ToSet(order)
<1> SUFFICES ASSUME Listing PROVE \A s : Listed(s) <=> s \in ToSet(order)
  OBVIOUS
<1>1. DOMAIN order = 1..Len(order)
  BY DEF Listing
<1> QED
  BY <1>1 DEF Listed, ToSet

\* What Add leaves of the list: all of it, or all but the last.
Kept == IF Len(order) >= Capacity THEN SubSeq(order, 1, Len(order) - 1) ELSE order

LEMMA KeptItems ==
  ASSUME Listing
  PROVE  /\ Kept \in Seq(created) /\ Len(Kept) < Capacity /\ Len(Kept) <= Len(order)
         /\ \A i \in 1..Len(Kept) : Kept[i] = order[i]
         /\ Distinct(Kept) /\ ToSet(Kept) \subseteq ToSet(order)
<1>1. /\ Len(order) \in Nat /\ order \in Seq(created) /\ Len(order) <= Capacity
      /\ Capacity \in Nat \ {0}
  BY SessionConstants DEF Listing
<1>2. /\ Kept \in Seq(created) /\ Len(Kept) < Capacity /\ Len(Kept) <= Len(order)
      /\ \A i \in 1..Len(Kept) : Kept[i] = order[i]
  <2>1. CASE Len(order) >= Capacity
    <3>1. order # <<>> /\ Kept = SubSeq(order, 1, Len(order) - 1)
      BY <1>1, <2>1 DEF Kept
    <3>2. /\ Kept \in Seq(created) /\ Len(Kept) = Len(order) - 1
          /\ \A i \in 1..Len(order)-1 : Kept[i] = order[i]
      BY <1>1, <3>1, FrontItems
    <3> QED
      BY <1>1, <3>2
  <2>2. CASE Len(order) < Capacity
    BY <1>1, <2>2 DEF Kept
  <2> QED
    BY <1>1, <2>1, <2>2
<1>3. Len(Kept) \in Nat /\ DOMAIN Kept = 1..Len(Kept) /\ DOMAIN order = 1..Len(order)
  BY <1>1, <1>2
<1>4. \A i \in 1..Len(Kept) : i \in 1..Len(order)
  BY <1>1, <1>2, <1>3
<1>5. Distinct(Kept)
  BY <1>2, <1>3, <1>4 DEF Listing, Distinct
<1>6. ToSet(Kept) \subseteq ToSet(order)
  BY <1>2, <1>3, <1>4 DEF ToSet
<1> QED
  BY <1>2, <1>5, <1>6

\* A session that was not listed goes to the front.
LEMMA AddList ==
  ASSUME Listing, NEW T, created \subseteq T, NEW s \in T, ~Listed(s)
  PROVE  /\ Add(s) = <<s>> \o Kept
         /\ Add(s) \in Seq(T) /\ Len(Add(s)) <= Capacity /\ Distinct(Add(s))
         /\ ToSet(Add(s)) = {s} \cup ToSet(Kept)
<1>1. Add(s) = <<s>> \o Kept
  BY DEF Add, Kept
<1>2. Kept \in Seq(T) /\ Len(Kept) < Capacity /\ Len(Kept) \in Nat /\ Distinct(Kept)
  <2>1. Kept \in Seq(created) /\ Len(Kept) < Capacity /\ Distinct(Kept)
    BY KeptItems
  <2> HIDE DEF Kept
  <2> QED
    BY <2>1, SeqOfMore
<1>3. s \notin ToSet(Kept)
  BY KeptItems, ListedIff
<1>4. <<s>> \o Kept \in Seq(T) /\ Len(<<s>> \o Kept) = Len(Kept) + 1
  BY <1>2, ConsItems
<1>5. Distinct(<<s>> \o Kept) /\ ToSet(<<s>> \o Kept) = {s} \cup ToSet(Kept)
  BY <1>2, <1>3, ConsSet
<1>6. Len(Kept) + 1 <= Capacity
  BY <1>2, SessionConstants
<1> QED
  BY <1>1, <1>4, <1>5, <1>6

\* The others of the list.
LEMMA DeleteList ==
  ASSUME Listing, NEW s, Listed(s)
  PROVE  /\ Place(s) \in 1..Len(order) /\ order[Place(s)] = s
         /\ DeleteByID(s) \in Seq(created) /\ Len(DeleteByID(s)) = Len(order) - 1
         /\ Distinct(DeleteByID(s)) /\ ToSet(DeleteByID(s)) = ToSet(order) \ {s}
<1>1. Place(s) \in 1..Len(order) /\ order[Place(s)] = s
  BY DEF Listed, Place
<1>2. order \in Seq(created) /\ DOMAIN order = 1..Len(order) /\ Distinct(order)
  BY DEF Listing
<1>3. /\ RemoveAt(order, Place(s)) \in Seq(created)
      /\ Len(RemoveAt(order, Place(s))) = Len(order) - 1
  BY <1>1, <1>2, RemoveAtItems
<1>4. /\ Distinct(RemoveAt(order, Place(s)))
      /\ ToSet(RemoveAt(order, Place(s))) = ToSet(order) \ {s}
  BY <1>1, <1>2, RemoveAtSet
<1> QED
  BY <1>1, <1>3, <1>4 DEF DeleteByID

\* A session that is used goes to the front.
LEMMA GetList ==
  ASSUME Listing, NEW s, Listed(s)
  PROVE  /\ GetByID(s) = <<s>> \o DeleteByID(s)
         /\ GetByID(s) \in Seq(created) /\ Len(GetByID(s)) = Len(order)
         /\ Distinct(GetByID(s)) /\ ToSet(GetByID(s)) = ToSet(order)
<1>1. GetByID(s) = <<s>> \o DeleteByID(s)
  BY DEF GetByID, DeleteByID
<1>2. /\ DeleteByID(s) \in Seq(created) /\ Len(DeleteByID(s)) = Len(order) - 1
      /\ Distinct(DeleteByID(s)) /\ ToSet(DeleteByID(s)) = ToSet(order) \ {s}
  BY DeleteList
<1>3. s \in ToSet(order) /\ s \in created /\ Len(order) \in Nat
  <2>1. order \in Seq(created) /\ s \in ToSet(order)
    BY ListedIff DEF Listing
  <2>2. \A i \in 1..Len(order) : order[i] \in created
    BY <2>1
  <2> QED
    BY <2>1, <2>2 DEF Listed
<1>4. s \notin ToSet(DeleteByID(s))
  BY <1>2
<1> HIDE DEF DeleteByID
<1>5. <<s>> \o DeleteByID(s) \in Seq(created)
      /\ Len(<<s>> \o DeleteByID(s)) = Len(DeleteByID(s)) + 1
  BY <1>2, <1>3, ConsItems
<1>6. Distinct(<<s>> \o DeleteByID(s))
      /\ ToSet(<<s>> \o DeleteByID(s)) = {s} \cup ToSet(DeleteByID(s))
  BY <1>2, <1>3, <1>4, ConsSet
<1>7. Len(DeleteByID(s)) + 1 = Len(order)
  BY <1>2, <1>3
<1> QED
  BY <1>1, <1>2, <1>3, <1>5, <1>6, <1>7

LEMMA MembersCreated == Listing => ToSet(order) \subseteq created
<1> SUFFICES ASSUME Listing PROVE ToSet(order) \subseteq created
  OBVIOUS
<1>1. order \in Seq(created)
  BY DEF Listing
<1> QED
  BY <1>1 DEF ToSet

-----------------------------------------------------------------------------
(* The handlers.                                                           *)

Places == {"idle", "add", "merge", "update", "start", "running", "collect", "output", "known",
           "done", "failed"}

Typed == /\ env \in [IDs -> Environ]
         /\ pc \in [Handlers -> Places]
         /\ sess \in [Handlers -> created \cup {None}]
         /\ \A h \in Handlers : sess[h] = None <=> pc[h] = "idle"
         /\ request \in [Handlers -> Seq(Pairs)] /\ todo \in [Handlers -> Seq(Pairs)]
         /\ pre \in [Handlers -> Environ] /\ post \in [Handlers -> Environ]
         /\ wrote \in [Handlers -> SUBSET Vars]

\* Nobody else knows a session that its handler has not listed yet.
AddAlone == \A h \in Handlers : pc[h] = "add" =>
              /\ sess[h] \notin ToSet(order)
              /\ \A g \in Handlers \ {h} : sess[g] # sess[h]

\* The list keeps no session twice, and never more than Capacity.
LEMMA ListingStep == Listing /\ Typed /\ AddAlone /\ [Next]_vars => Listing'
<1> SUFFICES ASSUME Listing, Typed, AddAlone, [Next]_vars PROVE Listing'
  OBVIOUS
<1>1. ASSUME NEW s \in IDs, s \notin created, created' = created \cup {s}, order' = Add(s)
      PROVE  Listing'
  <2>1. created \subseteq created' /\ s \in created' /\ created' \subseteq IDs
    BY <1>1 DEF Listing
  <2>2. ~Listed(s)
    BY <1>1, ListedIff, MembersCreated
  <2>3. Add(s) \in Seq(created') /\ Len(Add(s)) <= Capacity /\ Distinct(Add(s))
    BY <2>1, <2>2, AddList
  <2> QED
    BY <1>1, <2>1, <2>3 DEF Listing
<1>2. ASSUME NEW s \in IDs, s \notin created, created' = created \cup {s}, UNCHANGED order
      PROVE  Listing'
  <2>1. order \in Seq(created')
    BY <1>2, SeqOfMore DEF Listing
  <2> QED
    BY <1>2, <2>1 DEF Listing
<1>3. ASSUME NEW h \in Handlers, AddSession(h) PROVE Listing'
  <2>1. sess[h] \in created /\ ~Listed(sess[h])
    BY <1>3, ListedIff DEF AddSession, Typed, AddAlone
  <2>2. Add(sess[h]) \in Seq(created) /\ Len(Add(sess[h])) <= Capacity /\ Distinct(Add(sess[h]))
    BY <2>1, AddList
  <2> QED
    BY <1>3, <2>2 DEF AddSession, Listing
<1>4. ASSUME NEW s \in IDs, Listed(s), order' = GetByID(s), UNCHANGED created PROVE Listing'
  BY <1>4, GetList DEF Listing
<1>5. ASSUME NEW s \in IDs, Listed(s), order' = DeleteByID(s), UNCHANGED created PROVE Listing'
  <2>1. /\ DeleteByID(s) \in Seq(created) /\ Len(DeleteByID(s)) = Len(order) - 1
        /\ Distinct(DeleteByID(s))
    BY <1>5, DeleteList
  <2>2. Len(order) \in Nat /\ Len(order) <= Capacity
    BY DEF Listing
  <2>3. Len(DeleteByID(s)) <= Capacity
    BY <2>1, <2>2, SessionConstants
  <2> QED
    BY <1>5, <2>1, <2>3 DEF Listing
<1>6. ASSUME UNCHANGED cache PROVE Listing'
  BY <1>6 DEF Listing, cache
<1>7. ASSUME NEW h \in Handlers, HandlerStep(h) PROVE Listing'
  BY <1>3, <1>6, <1>7 DEF HandlerStep, ExecuteFails, Set, MergeEnds, Start, Finish,
     FinishUncollected, StoreOutput, KeepNoOutput
<1>8. ASSUME NEW s \in IDs, NEW r \in Requests, Call(s, r) PROVE Listing'
  BY <1>1, <1>2, <1>4, <1>5, <1>6, <1>8 DEF Call, CreateSession, GetSession, DeleteSession,
     ExecuteByID, UpdateSession, ByID, ExecuteNew, ExecuteMostRecent
<1> QED
  BY <1>6, <1>7, <1>8 DEF Next, vars, cache

LEMMA AloneStep == Listing /\ Typed /\ AddAlone /\ [Next]_vars => AddAlone'
<1> SUFFICES ASSUME Listing, Typed, AddAlone, [Next]_vars,
                    NEW h \in Handlers, pc'[h] = "add"
             PROVE  /\ sess'[h] \notin ToSet(order')
                    /\ \A g \in Handlers \ {h} : sess'[g] # sess'[h]
  BY DEF AddAlone
<1> DEFINE Alone == /\ sess'[h] \notin ToSet(order')
                    /\ \A g \in Handlers \ {h} : sess'[g] # sess'[h]
\* A handler that was there before.
<1>1. ASSUME pc[h] = "add" PROVE /\ sess[h] \in created /\ sess[h] \notin ToSet(order)
                                /\ \A g \in Handlers \ {h} : sess[g] # sess[h]
  BY <1>1 DEF Typed, AddAlone
\* It stays alone when others take up sessions that are listed or are made.
<1>2. ASSUME NEW s \in IDs, NEW r, NEW k \in Handlers, ExecuteNew(k, s, r) PROVE Alone
  <2>1. /\ s \notin created /\ UNCHANGED order /\ sess' = [sess EXCEPT ![k] = s]
        /\ pc' = [pc EXCEPT ![k] = "add"] /\ s # None
    BY <1>2, SessionConstants DEF ExecuteNew, Begin, Goto
  <2>2. \A g \in Handlers : sess[g] # s
    BY <2>1 DEF Typed
  <2>3. s \notin ToSet(order)
    BY <2>1, MembersCreated
  <2>4. CASE h = k
    BY <2>1, <2>2, <2>3, <2>4 DEF Typed
  <2>5. CASE h # k
    <3>1. /\ pc[h] = "add" /\ sess'[h] = sess[h] /\ sess'[k] = s
          /\ \A g \in Handlers \ {k} : sess'[g] = sess[g]
      BY <2>1, <2>5 DEF Typed
    <3> QED
      BY <1>1, <2>1, <2>2, <3>1
  <2> QED
    BY <2>4, <2>5
<1>3. ASSUME NEW k \in Handlers, NEW s \in ToSet(order), NEW r, NEW place, place # "add",
             Begin(k, place, s, r), ToSet(order') = ToSet(order)
      PROVE  Alone
  <2>1. sess' = [sess EXCEPT ![k] = s] /\ pc' = [pc EXCEPT ![k] = place]
    BY <1>3 DEF Begin, Goto
  <2>2. /\ h # k /\ pc[h] = "add" /\ sess'[h] = sess[h] /\ sess'[k] = s
        /\ \A g \in Handlers \ {k} : sess'[g] = sess[g]
    BY <1>3, <2>1 DEF Typed
  <2> QED
    BY <1>1, <1>3, <2>2
\* ... and when nobody takes up anything.
<1>4. ASSUME UNCHANGED sess, pc[h] = "add", sess[h] \notin ToSet(order') PROVE Alone
  BY <1>1, <1>4
<1> HIDE DEF Alone
<1>5. ASSUME UNCHANGED <<cache, sess>>, pc[h] = "add" PROVE Alone
  BY <1>1, <1>4, <1>5 DEF cache
<1>6. ASSUME NEW k \in Handlers, AddSession(k) PROVE Alone
  <2>1. /\ pc[k] = "add" /\ h # k /\ pc[h] = "add" /\ order' = Add(sess[k]) /\ UNCHANGED sess
    BY <1>6 DEF AddSession, Goto, Typed
  <2>2. sess[k] \in created /\ ~Listed(sess[k]) /\ sess[k] # sess[h]
    BY <2>1, ListedIff DEF Typed, AddAlone
  <2>3. ToSet(order') \subseteq {sess[k]} \cup ToSet(order)
    BY <2>1, <2>2, AddList, KeptItems
  <2> QED
    BY <1>1, <1>4, <2>1, <2>2, <2>3
<1>7. ASSUME NEW k \in Handlers, HandlerStep(k) PROVE Alone
  <2>1. CASE AddSession(k)
    BY <1>6, <2>1
  <2>2. ASSUME NEW place, place # "add", Goto(k, place), UNCHANGED <<cache, sess>> PROVE Alone
    BY <1>5, <2>2 DEF Goto, Typed
  <2>3. CASE Set(k)
    BY <1>5, <2>3 DEF Set
  <2>4. CASE MergeEnds(k)
    <3>1. Merged[pc[k]] # "add" /\ Refused[pc[k]] # "add"
      BY <2>4 DEF MergeEnds, Merged, Refused
    <3> QED
      BY <2>2, <2>4, <3>1 DEF MergeEnds
  <2> QED
    BY <1>7, <2>1, <2>2, <2>3, <2>4 DEF HandlerStep, ExecuteFails, Start, Finish,
       FinishUncollected, StoreOutput, KeepNoOutput
<1>8. ASSUME NEW s \in IDs, NEW r \in Requests, Call(s, r) PROVE Alone
  <2>1. ASSUME CreateSession(s, r) PROVE Alone
    <3>1. /\ s \notin created /\ order' = Add(s) /\ UNCHANGED <<pc, sess>>
      BY <2>1 DEF CreateSession
    <3>2. ~Listed(s) /\ s \in IDs \cup created /\ pc[h] = "add" /\ s # sess[h]
      BY <1>1, <3>1, ListedIff, MembersCreated
    <3>3. ToSet(order') \subseteq {s} \cup ToSet(order)
      BY <3>1, <3>2, AddList, KeptItems DEF Listing
    <3> QED
      BY <1>1, <1>4, <3>1, <3>2, <3>3
  <2>2. ASSUME GetSession(s) PROVE Alone
    BY <1>1, <1>4, <2>2, GetList DEF GetSession
  <2>3. ASSUME DeleteSession(s) PROVE Alone
    BY <1>1, <1>4, <2>3, DeleteList DEF DeleteSession
  <2>4. ASSUME NEW k \in Handlers, NEW place \in {"merge", "update"}, ByID(k, place, s, r)
        PROVE  Alone
    <3>1. s \in ToSet(order) /\ ToSet(order') = ToSet(order)
      BY <2>4, ListedIff, GetList DEF ByID
    <3> QED
      BY <1>3, <2>4, <3>1 DEF ByID
  <2>5. ASSUME NEW k \in Handlers, ExecuteMostRecent(k, r) PROVE Alone
    <3>1. Head(order) \in ToSet(order)
      BY <2>5, TailSet DEF ExecuteMostRecent, Listing
    <3> QED
      BY <1>3, <2>5, <3>1 DEF ExecuteMostRecent, cache
  <2> QED
    BY <1>2, <1>8, <2>1, <2>2, <2>3, <2>4, <2>5 DEF Call, ExecuteByID, UpdateSession
<1>9. ASSUME UNCHANGED vars PROVE Alone
  BY <1>5, <1>9 DEF vars
<1> QED
  BY <1>7, <1>8, <1>9 DEF Next, Alone

\* What is stored under the name of a cell is an assignment, or nothing.
LEMMA AgainTyped == ASSUME NEW x \in Values PROVE Again(x) \subseteq Seq(Pairs)
<1> SUFFICES ASSUME NEW named \in Again(x) PROVE named \in Seq(Pairs)
  OBVIOUS
<1>1. CASE named = <<>>
  BY <1>1
<1>2. ASSUME NEW v \in KnownNames, named = <<<<v, x>>>>
      PROVE  named \in Seq(Pairs)
  <2>1. <<v, x>> \in Pairs
    BY <1>2, SessionConstants DEF Pairs
  <2> QED
    BY <1>2, <2>1
<1> QED
  BY <1>1, <1>2 DEF Again

\* Every variable of the handlers keeps its type.
LEMMA TypedStep == Listing /\ Typed /\ [Next]_vars => Typed'
<1> SUFFICES ASSUME Listing, Typed, [Next]_vars PROVE Typed'
  OBVIOUS
<1> USE DEF cache, command, vars
<1>1. \A r \in Requests : r \in Seq(Pairs)
  <2> SUFFICES ASSUME NEW r \in Requests PROVE r \in Seq(Pairs)
    OBVIOUS
  <2>1. r \in Seq(Vars \X (Values \cup {Large})) /\ Vars \X (Values \cup {Large}) \subseteq Pairs
    BY SessionConstants DEF Pairs
  <2> QED
    BY <2>1, SeqOfMore
<1>2. ASSUME NEW h \in Handlers, NEW place \in Places \ {"idle"}, NEW s \in created', s # None,
             NEW r \in Requests, created \subseteq created', Begin(h, place, s, r)
      PROVE  Typed'
  <2>1. r \in Seq(Pairs)
    BY <1>1
  <2>2. /\ pc' = [pc EXCEPT ![h] = place] /\ sess' = [sess EXCEPT ![h] = s]
        /\ request' = [request EXCEPT ![h] = r] /\ todo' = [todo EXCEPT ![h] = r]
        /\ UNCHANGED <<env, pre, post, wrote>>
    BY <1>2 DEF Begin, Goto
  <2>3. /\ pc' \in [Handlers -> Places]
        /\ sess' \in [Handlers -> created' \cup {None}]
    BY <1>2, <2>2 DEF Typed
  <2>4. /\ request' \in [Handlers -> Seq(Pairs)] /\ todo' \in [Handlers -> Seq(Pairs)]
    BY <2>1, <2>2 DEF Typed
  <2>5. \A g \in Handlers : sess'[g] = None <=> pc'[g] = "idle"
    BY <1>2, <2>2 DEF Typed
  <2> QED
    BY <2>2, <2>3, <2>4, <2>5 DEF Typed
<1>3. ASSUME NEW s \in IDs, NEW r \in Requests, Call(s, r) PROVE Typed'
  <2>1. s # None /\ None \notin created
    BY SessionConstants DEF Listing
  <2>2. ASSUME CreateSession(s, r) PROVE Typed'
    <3>1. With(Empty, Asked(r)) \in Environ
      BY <1>1, AskedTyped DEF Empty, Environ
    <3>2. env' \in [IDs -> Environ] /\ created \subseteq created'
      BY <2>2, <3>1 DEF CreateSession, Typed
    <3>3. sess' \in [Handlers -> created' \cup {None}]
      BY <2>2, <3>2 DEF CreateSession, Typed
    <3> QED
      BY <2>2, <3>2, <3>3 DEF CreateSession, Typed
  <2>3. CASE GetSession(s) \/ DeleteSession(s)
    BY <2>3 DEF GetSession, DeleteSession, Typed
  <2>4. ASSUME NEW h \in Handlers, NEW place \in {"merge", "update"}, ByID(h, place, s, r)
        PROVE  Typed'
    <3>1. s \in created /\ UNCHANGED created /\ place \in Places \ {"idle"}
      BY <2>4, ListedIff, MembersCreated DEF ByID, Places
    <3> QED
      BY <1>2, <2>1, <2>4, <3>1 DEF ByID
  <2>5. ASSUME NEW h \in Handlers, ExecuteNew(h, s, r) PROVE Typed'
    <3>1. s \in created' /\ created \subseteq created' /\ "add" \in Places \ {"idle"}
      BY <2>5 DEF ExecuteNew, Places
    <3> QED
      BY <1>2, <2>1, <2>5, <3>1 DEF ExecuteNew
  <2>6. ASSUME NEW h \in Handlers, ExecuteMostRecent(h, r) PROVE Typed'
    <3>1. Head(order) \in created /\ UNCHANGED created /\ "merge" \in Places \ {"idle"}
      BY <2>6, TailSet DEF ExecuteMostRecent, Listing, Places
    <3> QED
      BY <1>2, <2>1, <2>6, <3>1 DEF ExecuteMostRecent
  <2> QED
    BY <1>3, <2>2, <2>3, <2>4, <2>5, <2>6 DEF Call, ExecuteByID, UpdateSession
<1>4. ASSUME NEW h \in Handlers, HandlerStep(h) PROVE Typed'
  <2>1. ASSUME NEW place \in Places \ {"idle"}, pc[h] # "idle", Goto(h, place),
               UNCHANGED <<created, sess, request>>,
               env' \in [IDs -> Environ], todo' \in [Handlers -> Seq(Pairs)],
               pre' \in [Handlers -> Environ], post' \in [Handlers -> Environ],
               wrote' \in [Handlers -> SUBSET Vars]
        PROVE  Typed'
    <3>1. pc' = [pc EXCEPT ![h] = place]
      BY <2>1 DEF Goto
    <3>2. pc' \in [Handlers -> Places] /\ \A g \in Handlers : pc'[g] = "idle" <=> pc[g] = "idle"
      BY <2>1, <3>1 DEF Typed
    <3> QED
      BY <2>1, <3>2 DEF Typed
  <2>2. CASE AddSession(h)
    BY <2>1, <2>2 DEF AddSession, Typed, Places
  <2>3. CASE ExecuteFails(h)
    BY <2>1, <2>3 DEF ExecuteFails, Typed, Places
  <2>4. CASE Set(h)
    <3>1. /\ todo[h] \in Seq(Pairs) /\ todo[h] # <<>> /\ wrote[h] \subseteq Vars
          /\ Head(todo[h]) \in Pairs /\ Tail(todo[h]) \in Seq(Pairs)
      BY <2>4, TailSet DEF Set, Typed
    <3>2. Head(todo[h])[1] \in Vars /\ Head(todo[h])[2] \in Vals
      BY <3>1 DEF Pairs, Vals
    <3>3. todo' \in [Handlers -> Seq(Pairs)]
      BY <2>4, <3>1 DEF Set, Typed
    <3>4. env' \in [IDs -> Environ]
      <4> DEFINE x == Head(todo[h])[1]
                 y == Head(todo[h])[2]
      <4>1. env' = [env EXCEPT ![sess[h]][x] = y]
        BY <2>4 DEF Set
      <4>2. x \in Vars /\ y \in Vals
        BY <3>2
      <4> HIDE DEF x, y
      <4>3. ASSUME NEW e \in Environ PROVE [e EXCEPT ![x] = y] \in Environ
        BY <4>2 DEF Environ, Vals
      <4> QED
        BY <4>1, <4>3 DEF Typed
    <3>5. wrote' \in [Handlers -> SUBSET Vars]
      BY <2>4, <3>1, <3>2 DEF Set, Typed
    <3> QED
      BY <2>4, <3>3, <3>4, <3>5 DEF Set, Typed
  <2>5. CASE MergeEnds(h)
    <3>1. Merged[pc[h]] \in Places \ {"idle"} /\ Refused[pc[h]] \in Places \ {"idle"}
          /\ pc[h] # "idle"
      BY <2>5 DEF MergeEnds, Merged, Refused, Places
    <3>2. todo' \in [Handlers -> Seq(Pairs)]
      BY <2>5 DEF MergeEnds, Typed
    <3> QED
      BY <2>1, <2>5, <3>1, <3>2 DEF MergeEnds, Typed
  <2>6. CASE Start(h)
    <3>1. sess[h] \in IDs
      BY <2>6 DEF Start, Typed, Listing
    <3>2. With(env[sess[h]], Asked(request[h])) \in Environ
      BY <3>1, AskedTyped DEF Typed
    <3>3. pre' \in [Handlers -> Environ]
      BY <2>6, <3>2 DEF Start, Typed
    <3> QED
      BY <2>1, <2>6, <3>3 DEF Start, Typed, Places
  <2>7. CASE Finish(h)
    <3>1. PICK e \in Effects :
            /\ post' = [post EXCEPT ![h] = With(pre[h], e)]
            /\ \E d \in Diff(pre[h], With(pre[h], e)) : todo' = [todo EXCEPT ![h] = d]
      BY <2>7 DEF Finish
    <3>2. PICK d \in Diff(pre[h], With(pre[h], e)) : todo' = [todo EXCEPT ![h] = d]
      BY <3>1
    <3>3. With(pre[h], e) \in Environ /\ pre[h] \in Environ
      BY EffectTyped DEF Typed
    <3>4. d \in Seq(Pairs)
      BY <3>3, DiffItems
    <3>5. post' \in [Handlers -> Environ] /\ todo' \in [Handlers -> Seq(Pairs)]
      BY <3>1, <3>2, <3>3, <3>4 DEF Typed
    <3> QED
      BY <2>1, <2>7, <3>5 DEF Finish, Typed, Places
  <2>8. CASE FinishUncollected(h)
    BY <2>1, <2>8 DEF FinishUncollected, Typed, Places
  <2>9. CASE StoreOutput(h)
    <3>1. PICK x \in Values :
            /\ env' = [env EXCEPT ![sess[h]][Output] = x]
            /\ \E named \in Again(x) : todo' = [todo EXCEPT ![h] = named]
      BY <2>9 DEF StoreOutput
    <3>2. PICK named \in Again(x) : todo' = [todo EXCEPT ![h] = named]
      BY <3>1
    <3>3. env' \in [IDs -> Environ]
      <4>1. ASSUME NEW e \in Environ PROVE [e EXCEPT ![Output] = x] \in Environ
        BY SessionConstants DEF Environ
      <4> QED
        BY <3>1, <4>1 DEF Typed
    <3>4. todo' \in [Handlers -> Seq(Pairs)]
      BY <3>2, AgainTyped DEF Typed
    <3> QED
      BY <2>1, <2>9, <3>3, <3>4 DEF StoreOutput, Typed, Places
  <2>10. CASE KeepNoOutput(h)
    BY <2>1, <2>10 DEF KeepNoOutput, Typed, Places
  <2> QED
    BY <1>4, <2>2, <2>3, <2>4, <2>5, <2>6, <2>7, <2>8, <2>9, <2>10 DEF HandlerStep
<1>5. CASE UNCHANGED vars
  BY <1>5 DEF Typed
<1> QED
  BY <1>3, <1>4, <1>5 DEF Next

\* For any number of handlers and sessions and whatever the requests and programs do: the
\* list holds no session twice and never more than its capacity, and a session that was
\* not listed yet is known to its own handler only.
THEOREM SessionsKept == Spec => []SessionsInv
<1> DEFINE Inv == Listing /\ Typed /\ AddAlone
<1>1. Init => Inv
  <2> SUFFICES ASSUME Init PROVE Inv
    OBVIOUS
  <2>1. Empty \in Environ
    BY DEF Empty, Environ
  <2>2. Typed
    BY <2>1, SessionConstants DEF Init, Typed, Places
  <2>3. Listing
    BY SessionConstants DEF Init, Listing, Distinct
  <2> QED
    BY <2>2, <2>3 DEF Init, AddAlone
<1>2. Inv /\ [Next]_vars => Inv'
  BY ListingStep, TypedStep, AloneStep
<1>3. ASSUME Inv PROVE SessionsInv
  <2>1. \A i, j \in 1..Len(order) : order[i] = order[j] => i = j
    BY <1>3 DEF Listing, Distinct
  <2>2. \A h \in Handlers : pc[h] = "add" =>
          /\ ~Listed(sess[h])
          /\ \A g \in Handlers \ {h} : sess[g] # sess[h]
    BY <1>3, ListedIff DEF AddAlone
  <2> QED
    BY <1>3, <2>1, <2>2 DEF SessionsInv, Listing, Typed, Places
<1> QED
  BY <1>1, <1>2, <1>3, PTL DEF Spec
-----------------------------------------------------------------------------
(* What a handler writes into the environment of its session.              *)

Names(P) == {p[1] : p \in P}

LEMMA ChangesNames == ASSUME NEW a, NEW b PROVE Names(Changes(a, b)) = Changed(a, b)
<1> DEFINE C == Changed(a, b)
           P == Changes(a, b)
<1>1. \A v \in C : <<v, b[v]>> \in P
  BY DEF Changes
<1>2. \A p \in P : \E v \in C : p = <<v, b[v]>>
  BY DEF Changes
<1> HIDE DEF C, P
<1>3. ASSUME NEW v \in C PROVE v \in Names(P)
  <2> DEFINE q == <<v, b[v]>>
  <2>1. q \in P /\ q[1] = v
    BY <1>1
  <2> HIDE DEF q
  <2> QED
    BY <2>1 DEF Names
<1>4. \A v \in Names(P) : v \in C
  BY <1>2 DEF Names
<1>5. Names(P) = C
  BY <1>3, <1>4
<1> QED
  BY <1>5 DEF C, P

\* What is stored under the name of a cell.
NamedOnly(s) == \A p \in ToSet(s) : p[1] \in KnownNames

LEMMA AgainNamed == ASSUME NEW x, NEW named \in Again(x) PROVE NamedOnly(named)
<1>1. CASE named = <<>>
  BY <1>1 DEF NamedOnly, ToSet
<1>2. ASSUME NEW v \in KnownNames, named = <<<<v, x>>>> PROVE NamedOnly(named)
  BY <1>2 DEF NamedOnly, ToSet
<1> QED
  BY <1>1, <1>2 DEF Again

\* How far the loops that store variables have come.
Progress ==
  \A h \in Handlers :
    /\ pc[h] \in {"add", "merge", "update"} => ToSet(todo[h]) \subseteq ToSet(request[h])
    /\ pc[h] \notin {"collect", "output", "known", "done"} => wrote[h] = {}
    /\ pc[h] = "collect" =>
         \/ todo[h] = <<>> /\ wrote[h] = {}
         \/ /\ ToSet(todo[h]) \subseteq Changes(pre[h], post[h])
            /\ wrote[h] \cup Names(ToSet(todo[h])) = Changed(pre[h], post[h])
            /\ \A v \in Vars : post[h][v] # Large
    /\ pc[h] = "output" => wrote[h] \in {{}, Changed(pre[h], post[h])}
    /\ pc[h] = "known" => NamedOnly(todo[h])

LEMMA ProgressStep == Typed /\ Progress /\ [Next]_vars => Progress'
<1> SUFFICES ASSUME Typed, Progress, [Next]_vars PROVE Progress'
  OBVIOUS
<1> DEFINE P(h) ==
      /\ pc[h] \in {"add", "merge", "update"} => ToSet(todo[h]) \subseteq ToSet(request[h])
      /\ pc[h] \notin {"collect", "output", "known", "done"} => wrote[h] = {}
      /\ pc[h] = "collect" =>
           \/ todo[h] = <<>> /\ wrote[h] = {}
           \/ /\ ToSet(todo[h]) \subseteq Changes(pre[h], post[h])
              /\ wrote[h] \cup Names(ToSet(todo[h])) = Changed(pre[h], post[h])
              /\ \A v \in Vars : post[h][v] # Large
      /\ pc[h] = "output" => wrote[h] \in {{}, Changed(pre[h], post[h])}
      /\ pc[h] = "known" => NamedOnly(todo[h])
<1>1. \A h \in Handlers : P(h)
  BY DEF Progress
<1> SUFFICES ASSUME NEW h \in Handlers PROVE P(h)'
  BY DEF Progress
\* The other handlers' variables stay.
<1>2. ASSUME pc'[h] = pc[h], todo'[h] = todo[h], request'[h] = request[h], pre'[h] = pre[h],
             post'[h] = post[h], wrote'[h] = wrote[h]
      PROVE  P(h)'
  BY <1>1, <1>2
<1>3. ASSUME NEW k \in Handlers, NEW place \in {"add", "merge", "update"}, NEW s, NEW r,
             Begin(k, place, s, r)
      PROVE  P(h)'
  <2>1. CASE h = k
    <3>1. /\ pc'[h] = place /\ todo'[h] = r /\ request'[h] = r /\ wrote'[h] = wrote[h]
          /\ pc[h] = "idle"
      BY <1>3, <2>1 DEF Begin, Goto, Typed, command
    <3>2. wrote[h] = {}
      BY <1>1, <3>1
    <3> QED
      BY <3>1, <3>2
  <2>2. CASE h # k
    BY <1>2, <1>3, <2>2 DEF Begin, Goto, Typed, command
  <2> QED
    BY <2>1, <2>2
<1>4. ASSUME NEW s \in IDs, NEW r \in Requests, Call(s, r) PROVE P(h)'
  BY <1>2, <1>3, <1>4 DEF Call, CreateSession, GetSession, DeleteSession, ExecuteByID,
     UpdateSession, ByID, ExecuteNew, ExecuteMostRecent, command
<1>5. ASSUME HandlerStep(h) PROVE P(h)'
  <2>1. pc[h] \in Places /\ todo[h] \in Seq(Pairs) /\ P(h)
    BY <1>1 DEF Typed
  <2>2. CASE AddSession(h)
    BY <2>1, <2>2 DEF AddSession, Goto, Typed, command
  <2>3. CASE ExecuteFails(h)
    BY <2>1, <2>3 DEF ExecuteFails, Goto, Typed, command
  <2>4. CASE Set(h)
    <3>1. /\ pc'[h] = pc[h] /\ todo[h] # <<>> /\ todo'[h] = Tail(todo[h])
          /\ request'[h] = request[h] /\ pre'[h] = pre[h] /\ post'[h] = post[h]
          /\ wrote'[h] = IF pc[h] = "collect" THEN wrote[h] \cup {Head(todo[h])[1]}
                         ELSE wrote[h]
          /\ pc[h] \in {"merge", "update", "collect", "known"}
      BY <2>4 DEF Set, Merged, Typed
    <3>2. ToSet(todo[h]) = {Head(todo[h])} \cup ToSet(todo'[h])
      BY <2>1, <3>1, HeadTailSet
    <3>3. Names(ToSet(todo[h])) = {Head(todo[h])[1]} \cup Names(ToSet(todo'[h]))
      BY <3>2 DEF Names
    <3>4. NamedOnly(todo[h]) => NamedOnly(todo'[h])
      BY <3>2 DEF NamedOnly
    <3> QED
      BY <2>1, <3>1, <3>2, <3>3, <3>4
  <2>5. CASE MergeEnds(h)
    <3>1. /\ todo'[h] = <<>> /\ wrote'[h] = wrote[h] /\ pre'[h] = pre[h]
          /\ post'[h] = post[h] /\ pc[h] \in {"merge", "update", "collect", "known"}
          /\ pc[h] = "collect" => pc'[h] = "output"
          /\ pc[h] \in {"merge", "update"} => pc'[h] \in {"start", "done", "failed"}
          /\ pc[h] = "known" => pc'[h] = "done"
      BY <2>5 DEF MergeEnds, Goto, Merged, Refused, Typed, command
    <3>2. CASE pc[h] = "collect"
      <4>1. ASSUME wrote[h] # {} \/ todo[h] # <<>> PROVE wrote[h] = Changed(pre[h], post[h])
        <5>1. /\ ToSet(todo[h]) \subseteq Changes(pre[h], post[h])
              /\ wrote[h] \cup Names(ToSet(todo[h])) = Changed(pre[h], post[h])
              /\ \A v \in Vars : post[h][v] # Large
          BY <2>1, <3>2, <4>1
        <5>2. CASE todo[h] = <<>>
          <6>1. ToSet(todo[h]) = {}
            BY <5>2 DEF ToSet
          <6>2. Names(ToSet(todo[h])) = {}
            BY <6>1 DEF Names
          <6> QED
            BY <5>1, <6>2
        <5>3. CASE todo[h] # <<>>
          <6>1. Head(todo[h])[2] = Large /\ Head(todo[h]) \in ToSet(todo[h])
            BY <2>1, <2>5, <5>3, HeadTailSet DEF MergeEnds
          <6>2. PICK v \in Vars : Head(todo[h]) = <<v, post[h][v]>>
            BY <5>1, <6>1 DEF Changes, Changed
          <6> QED
            BY <5>1, <6>1, <6>2
        <5> QED
          BY <5>2, <5>3
      <4> QED
        BY <3>1, <3>2, <4>1
    <3>3. CASE pc[h] # "collect"
      BY <2>1, <3>1, <3>3
    <3> QED
      BY <3>2, <3>3
  <2>6. CASE Start(h)
    BY <2>1, <2>6 DEF Start, Goto, Typed
  <2>7. CASE Finish(h)
    <3>1. PICK e \in Effects :
            /\ post' = [post EXCEPT ![h] = With(pre[h], e)]
            /\ \E d \in Diff(pre[h], With(pre[h], e)) : todo' = [todo EXCEPT ![h] = d]
      BY <2>7 DEF Finish
    <3>2. PICK d \in Diff(pre[h], With(pre[h], e)) : todo' = [todo EXCEPT ![h] = d]
      BY <3>1
    <3>3. /\ pc'[h] = "collect" /\ todo'[h] = d /\ post'[h] = With(pre[h], e)
          /\ pre'[h] = pre[h] /\ wrote'[h] = wrote[h] /\ wrote[h] = {}
      BY <2>1, <2>7, <3>1, <3>2 DEF Finish, Goto, Typed
    <3>4. With(pre[h], e) \in Environ /\ pre[h] \in Environ
      BY EffectTyped DEF Typed
    <3>5. \/ d = <<>>
          \/ /\ ToSet(d) = Changes(pre'[h], post'[h])
             /\ \A v \in Vars : post'[h][v] # Large
      BY <3>2, <3>3, <3>4, DiffItems
    <3>6. Names(Changes(pre'[h], post'[h])) = Changed(pre'[h], post'[h])
      BY ChangesNames
    <3> QED
      BY <3>3, <3>5, <3>6
  <2>8. CASE FinishUncollected(h)
    BY <2>1, <2>8 DEF FinishUncollected, Goto, Typed, command
  <2>9. CASE StoreOutput(h)
    <3>1. PICK x \in Values : \E named \in Again(x) : todo' = [todo EXCEPT ![h] = named]
      BY <2>9 DEF StoreOutput
    <3>2. PICK named \in Again(x) : todo' = [todo EXCEPT ![h] = named]
      BY <3>1
    <3>3. /\ pc'[h] = "known" /\ todo'[h] = named /\ wrote'[h] = wrote[h]
      BY <2>9, <3>2 DEF StoreOutput, Goto, Typed, command
    <3> QED
      BY <3>3, AgainNamed
  <2>10. CASE KeepNoOutput(h)
    BY <2>1, <2>10 DEF KeepNoOutput, Goto, Typed, command
  <2> QED
    BY <1>5, <2>2, <2>3, <2>4, <2>5, <2>6, <2>7, <2>8, <2>9, <2>10 DEF HandlerStep
<1>6. ASSUME NEW k \in Handlers, k # h, HandlerStep(k) PROVE P(h)'
  BY <1>2, <1>6 DEF HandlerStep, AddSession, ExecuteFails, Set, MergeEnds, Start, Finish,
     FinishUncollected, StoreOutput, KeepNoOutput, Goto, Typed, command
<1>7. ASSUME UNCHANGED vars PROVE P(h)'
  BY <1>2, <1>7 DEF vars, command
<1> QED
  BY <1>4, <1>5, <1>6, <1>7 DEF Next

\* What the variables were at the steps of a run, for the theorems below.
LEMMA SessionsInductive == Spec => [](Listing /\ Typed /\ AddAlone /\ Progress)
<1> DEFINE Inv == Listing /\ Typed /\ AddAlone /\ Progress
<1>1. Init => Inv
  <2> SUFFICES ASSUME Init PROVE Inv
    OBVIOUS
  <2>1. Empty \in Environ
    BY DEF Empty, Environ
  <2>2. Typed
    BY <2>1, SessionConstants DEF Init, Typed, Places
  <2>3. Listing
    BY SessionConstants DEF Init, Listing, Distinct
  <2> QED
    BY <2>2, <2>3 DEF Init, AddAlone, Progress
<1>2. Inv /\ [Next]_vars => Inv'
  BY ListingStep, TypedStep, AloneStep, ProgressStep
<1> QED
  BY <1>1, <1>2, PTL DEF Spec

\* A program's changes are stored whole or not at all (collectEnv, EnvStoreMap.Merge):
\* the loop that stores them ends early only at a value that is too large, and then the
\* dumps would not have been loaded.
THEOREM WholeOrNothing == Spec => []AllOrNothing
<1>1. Progress => AllOrNothing
  BY DEF Progress, AllOrNothing, Changed
<1> QED
  BY <1>1, SessionsInductive, PTL

\* Whatever the commands of one session do at the same time, a variable of it changes
\* only to what one of them was asked to set or has changed (collectEnv), or when one
\* stores its output, in __ or under the name of its cell (storeOutputInEnv).
THEOREM NothingIsUndone == Spec => OnlyOwnChanges
<1> DEFINE Own == \A s \in created, v \in Vars :
                    env'[s][v] # env[s][v]
                      => \E h \in Handlers : sess[h] = s /\ Intends(h, v, env'[s][v])
<1>1. Listing /\ Typed /\ AddAlone /\ Progress /\ [Next]_vars => [Own]_vars
  <2> SUFFICES ASSUME Listing, Typed, AddAlone, Progress, [Next]_vars,
                      NEW s \in created, NEW v \in Vars, env'[s][v] # env[s][v]
               PROVE  \E h \in Handlers : sess[h] = s /\ Intends(h, v, env'[s][v])
    OBVIOUS
  <2>1. ASSUME NEW h \in Handlers, Set(h)
        PROVE  sess[h] = s /\ Intends(h, v, env'[s][v])
    <3>1. /\ todo[h] \in Seq(Pairs) /\ todo[h] # <<>> /\ env \in [IDs -> Environ]
          /\ env' = [env EXCEPT ![sess[h]][Head(todo[h])[1]] = Head(todo[h])[2]]
          /\ pc[h] \in {"merge", "update", "collect", "known"}
      BY <2>1 DEF Set, Typed, Merged
    <3>2. Head(todo[h]) \in Pairs /\ Head(todo[h]) \in ToSet(todo[h])
      BY <3>1, HeadTailSet
    <3> DEFINE p == Head(todo[h])
    <3>3. p = <<p[1], p[2]>> /\ p[1] \in Vars
      BY <3>2 DEF Pairs
    <3>4. s \in IDs /\ env[s] \in [Vars -> Vals]
      BY <3>1 DEF Listing, Environ, Vals
    <3>5. sess[h] = s /\ p[1] = v /\ env'[s][v] = p[2]
      <4> HIDE DEF p
      <4>1. env' = [env EXCEPT ![sess[h]][p[1]] = p[2]]
        BY <3>1 DEF p
      <4> QED
        BY <3>1, <3>3, <3>4, <4>1
    <3>6. CASE pc[h] \in {"merge", "update"}
      <4>1. p \in ToSet(request[h])
        BY <3>2, <3>6 DEF Progress
      <4> HIDE DEF p
      <4> QED
        BY <3>3, <3>5, <3>6, <4>1 DEF Intends
    <3>7. CASE pc[h] = "collect"
      <4>1. p \in Changes(pre[h], post[h])
        <5>1. ToSet(todo[h]) # {}
          BY <3>2
        <5> QED
          BY <3>1, <3>2, <3>7 DEF Progress
      <4> HIDE DEF p
      <4>2. post[h][p[1]] = p[2] /\ pre[h][p[1]] # p[2]
        BY <4>1 DEF Changes, Changed
      <4> QED
        BY <3>5, <3>7, <4>2 DEF Intends
    <3>8. CASE pc[h] = "known"
      <4>1. p[1] \in KnownNames
        BY <3>2, <3>8 DEF Progress, NamedOnly
      <4> HIDE DEF p
      <4> QED
        BY <3>5, <3>8, <4>1 DEF Intends
    <3> QED
      BY <3>1, <3>5, <3>6, <3>7, <3>8
  <2>2. ASSUME NEW h \in Handlers, StoreOutput(h)
        PROVE  sess[h] = s /\ Intends(h, v, env'[s][v])
    <3>1. PICK x \in Values : env' = [env EXCEPT ![sess[h]][Output] = x]
      BY <2>2 DEF StoreOutput
    <3>2. s \in IDs /\ env[s] \in [Vars -> Vals]
      BY DEF Listing, Typed, Environ, Vals
    <3>3. sess[h] = s /\ v = Output
      BY <3>1, <3>2 DEF Typed
    <3> QED
      BY <2>2, <3>3 DEF StoreOutput, Intends
  <2>3. ASSUME NEW r \in IDs, r \notin created, NEW e, env' = [env EXCEPT ![r] = e]
        PROVE  env'[s] = env[s]
    BY <2>3 DEF Listing, Typed
  <2>4. CASE \E h \in Handlers : HandlerStep(h)
    BY <2>1, <2>2, <2>4 DEF HandlerStep, AddSession, ExecuteFails, MergeEnds, Start, Finish,
       FinishUncollected, KeepNoOutput
  <2>5. ASSUME NEW r \in IDs, NEW q \in Requests, Call(r, q) PROVE env'[s] = env[s]
    BY <2>3, <2>5 DEF Call, CreateSession, GetSession, DeleteSession, ExecuteByID,
       UpdateSession, ByID, ExecuteNew, ExecuteMostRecent, Begin
  <2> QED
    BY <2>4, <2>5 DEF Next, vars
<1> QED
  BY <1>1, SessionsInductive, PTL DEF Spec, OnlyOwnChanges

-----------------------------------------------------------------------------
(* The list and the use of its sessions.                                   *)

\* x is a pair of items of s whose first stands behind its second.
Behind(s, x) == \E i, j \in 1..Len(s) : i > j /\ x = <<s[i], s[j]>>

LEMMA OlderIff == ASSUME NEW s, NEW x PROVE x \in Older(s) <=> Behind(s, x)
<1> DEFINE Q == {q \in (1..Len(s)) \X (1..Len(s)) : q[1] > q[2]}
<1>1. ASSUME x \in Older(s) PROVE Behind(s, x)
  <2>1. PICK p \in Q : x = <<s[p[1]], s[p[2]]>>
    BY <1>1 DEF Older
  <2>2. p[1] \in 1..Len(s) /\ p[2] \in 1..Len(s) /\ p[1] > p[2]
    OBVIOUS
  <2> QED
    BY <2>1, <2>2 DEF Behind
<1>2. ASSUME Behind(s, x) PROVE x \in Older(s)
  <2>1. PICK i, j \in 1..Len(s) : i > j /\ x = <<s[i], s[j]>>
    BY <1>2 DEF Behind
  <2> DEFINE p == <<i, j>>
  <2>2. p \in Q /\ p[1] = i /\ p[2] = j
    BY <2>1
  <2>3. x = <<s[p[1]], s[p[2]]>>
    BY <2>1, <2>2
  <2> HIDE DEF p
  <2> QED
    BY <2>2, <2>3 DEF Older
<1> QED
  BY <1>1, <1>2

\* A new first item stands before all others.
LEMMA OlderCons ==
  ASSUME NEW S, NEW x \in S, NEW t \in Seq(S)
  PROVE  Older(<<x>> \o t) = Older(t) \cup {<<o, x>> : o \in ToSet(t)}
<1> DEFINE u == <<x>> \o t
<1>1. /\ Len(u) = Len(t) + 1 /\ u[1] = x /\ \A i \in 2..Len(t)+1 : u[i] = t[i - 1]
  BY ConsItems
<1> HIDE DEF u
<1>2. Len(t) \in Nat /\ DOMAIN t = 1..Len(t)
  OBVIOUS
<1>3. ASSUME NEW y, Behind(u, y) PROVE Behind(t, y) \/ \E o \in ToSet(t) : y = <<o, x>>
  <2>1. PICK i, j \in 1..Len(u) : i > j /\ y = <<u[i], u[j]>>
    BY <1>3 DEF Behind
  <2>2. i \in 2..Len(t)+1 /\ i - 1 \in 1..Len(t) /\ u[i] = t[i - 1]
    BY <1>1, <1>2, <2>1
  <2>3. CASE j = 1
    <3>1. y = <<t[i - 1], x>> /\ t[i - 1] \in ToSet(t)
      BY <1>1, <1>2, <2>1, <2>2, <2>3 DEF ToSet
    <3> QED
      BY <3>1
  <2>4. CASE j # 1
    <3>1. j - 1 \in 1..Len(t) /\ u[j] = t[j - 1] /\ i - 1 > j - 1
      BY <1>1, <1>2, <2>1, <2>4
    <3> QED
      BY <2>1, <2>2, <3>1 DEF Behind
  <2> QED
    BY <2>3, <2>4
<1>4. ASSUME NEW y, Behind(t, y) PROVE Behind(u, y)
  <2>1. PICK i, j \in 1..Len(t) : i > j /\ y = <<t[i], t[j]>>
    BY <1>4 DEF Behind
  <2>2. /\ i + 1 \in 2..Len(t)+1 /\ j + 1 \in 2..Len(t)+1 /\ i + 1 > j + 1
        /\ (i + 1) - 1 = i /\ (j + 1) - 1 = j
    BY <1>2, <2>1
  <2>3. u[i + 1] = t[(i + 1) - 1] /\ u[j + 1] = t[(j + 1) - 1]
    BY <1>1, <2>2
  <2>4. u[i + 1] = t[i] /\ u[j + 1] = t[j]
    BY <2>2, <2>3
  <2>5. i + 1 \in 1..Len(u) /\ j + 1 \in 1..Len(u)
    BY <1>1, <1>2, <2>1
  <2> QED
    BY <2>1, <2>2, <2>4, <2>5 DEF Behind
<1>5. ASSUME NEW o \in ToSet(t) PROVE Behind(u, <<o, x>>)
  <2>1. PICK i \in 1..Len(t) : o = t[i]
    BY <1>2 DEF ToSet
  <2>2. /\ i + 1 \in 2..Len(t)+1 /\ (i + 1) - 1 = i /\ i + 1 > 1
        /\ i + 1 \in 1..Len(u) /\ 1 \in 1..Len(u)
    BY <1>1, <1>2, <2>1
  <2>3. u[i + 1] = o /\ u[1] = x
    BY <1>1, <2>1, <2>2
  <2> QED
    BY <2>2, <2>3 DEF Behind
<1>6. \A y : y \in Older(u) <=> y \in Older(t) \cup {<<o, x>> : o \in ToSet(t)}
  BY <1>3, <1>4, <1>5, OlderIff
<1>7. Older(u) = Older(t) \cup {<<o, x>> : o \in ToSet(t)}
  BY <1>6
<1> QED
  BY <1>7 DEF u

\* An item taken out leaves the order of the others.
LEMMA OlderRemove ==
  ASSUME NEW S, NEW s \in Seq(S), Distinct(s), NEW k \in 1..Len(s)
  PROVE  Older(RemoveAt(s, k)) =
           Older(s) \ {p \in Older(s) : p[1] = s[k] \/ p[2] = s[k]}
<1> DEFINE t == RemoveAt(s, k)
           To(i) == IF i < k THEN i ELSE i + 1
           From(i) == IF i < k THEN i ELSE i - 1
<1>1. Len(t) = Len(s) - 1 /\ \A i \in 1..Len(s)-1 : t[i] = s[To(i)]
  BY RemoveAtItems
<1> HIDE DEF t
<1>2. Len(s) \in Nat /\ DOMAIN s = 1..Len(s) /\ k \in 1..Len(s)
  OBVIOUS
<1>3. ASSUME NEW y, Behind(t, y)
      PROVE  Behind(s, y) /\ y[1] # s[k] /\ y[2] # s[k]
  <2>1. PICK i, j \in 1..Len(t) : i > j /\ y = <<t[i], t[j]>>
    BY <1>3 DEF Behind
  <2>2. /\ To(i) \in 1..Len(s) /\ To(j) \in 1..Len(s) /\ To(i) > To(j)
        /\ To(i) # k /\ To(j) # k /\ t[i] = s[To(i)] /\ t[j] = s[To(j)]
    BY <1>1, <1>2, <2>1
  <2> HIDE DEF To
  <2>3. s[To(i)] # s[k] /\ s[To(j)] # s[k]
    BY <1>2, <2>2 DEF Distinct
  <2> QED
    BY <2>1, <2>2, <2>3 DEF Behind
<1>4. ASSUME NEW y, Behind(s, y), y[1] # s[k], y[2] # s[k] PROVE Behind(t, y)
  <2>1. PICK i, j \in 1..Len(s) : i > j /\ y = <<s[i], s[j]>>
    BY <1>4 DEF Behind
  <2>2. i # k /\ j # k
    BY <1>4, <2>1
  <2>3. /\ From(i) \in 1..Len(t) /\ From(j) \in 1..Len(t) /\ From(i) > From(j)
        /\ To(From(i)) = i /\ To(From(j)) = j
    BY <1>1, <1>2, <2>1, <2>2
  <2>4. t[From(i)] = s[i] /\ t[From(j)] = s[j]
    <3> HIDE DEF To, From
    <3> QED
      BY <1>1, <2>3
  <2> HIDE DEF From
  <2> QED
    BY <2>1, <2>3, <2>4 DEF Behind
<1>5. \A y : y \in Older(t) <=> y \in Older(s) /\ y[1] # s[k] /\ y[2] # s[k]
  BY <1>3, <1>4, OlderIff
<1>6. Older(t) = Older(s) \ {p \in Older(s) : p[1] = s[k] \/ p[2] = s[k]}
  BY <1>5
<1> QED
  BY <1>6 DEF t

\* A list without its last item.
LEMMA FrontIsRemoveAt ==
  ASSUME NEW S, NEW s \in Seq(S), s # <<>>
  PROVE  SubSeq(s, 1, Len(s) - 1) = RemoveAt(s, Len(s))
<1> DEFINE f == SubSeq(s, 1, Len(s) - 1)
           t == RemoveAt(s, Len(s))
<1>1. Len(s) \in Nat /\ Len(s) \in 1..Len(s)
  OBVIOUS
<1>2. f \in Seq(S) /\ Len(f) = Len(s) - 1 /\ \A i \in 1..Len(s)-1 : f[i] = s[i]
  BY FrontItems
<1>3. /\ t \in Seq(S) /\ Len(t) = Len(s) - 1
      /\ \A i \in 1..Len(s)-1 : t[i] = s[IF i < Len(s) THEN i ELSE i + 1]
  <2> DEFINE n == Len(s)
  <2>1. n \in 1..Len(s) /\ n = Len(s)
    BY <1>1
  <2> HIDE DEF n
  <2>2. /\ RemoveAt(s, n) \in Seq(S) /\ Len(RemoveAt(s, n)) = Len(s) - 1
        /\ \A i \in 1..Len(s)-1 : RemoveAt(s, n)[i] = s[IF i < n THEN i ELSE i + 1]
    BY <2>1, RemoveAtItems
  <2> QED
    BY <2>1, <2>2
<1> HIDE DEF f, t
<1>4. \A i \in 1..Len(s)-1 : f[i] = t[i]
  BY <1>1, <1>2, <1>3
<1>5. f = t
  BY <1>1, <1>2, <1>3, <1>4
<1> QED
  BY <1>5 DEF f, t

\* What adding a session to a full list pushes out is the one all others stand before.
LEMMA LastIsOldest ==
  ASSUME NEW S, NEW s \in Seq(S), s # <<>>, NEW o \in ToSet(s) \ {s[Len(s)]}
  PROVE  <<s[Len(s)], o>> \in Older(s)
<1>1. Len(s) \in Nat /\ Len(s) \in 1..Len(s) /\ DOMAIN s = 1..Len(s)
  OBVIOUS
<1>2. PICK i \in 1..Len(s) : o = s[i]
  BY <1>1 DEF ToSet
<1> DEFINE n == Len(s)
<1>3. n > i
  <2>1. n \in Nat /\ i \in 1..n /\ i # n
    BY <1>1, <1>2
  <2> HIDE DEF n
  <2> QED
    BY <2>1
<1> QED
  BY <1>1, <1>2, <1>3, OlderIff DEF Behind

\* The abstract list's members are the items of this one.
LEMMA MembersAre == ASSUME NEW S, NEW s \in Seq(S) PROVE Members(s) = ToSet(s)
<1>1. DOMAIN s = 1..Len(s)
  OBVIOUS
<1> QED
  BY <1>1 DEF Members, ToSet

\* A use of a session, whichever call makes it, makes it the youngest; a session that is
\* not listed enters, or replaces the one that all others were used after.
LEMMA GetIsUse ==
  ASSUME Listing, NEW s, Listed(s), order' = GetByID(s)
  PROVE  Recency!Use(s)
<1> DEFINE D == DeleteByID(s)
<1>1. Listing /\ Place(s) \in 1..Len(order) /\ order[Place(s)] = s /\ D \in Seq(created)
      /\ Distinct(D) /\ ToSet(D) = ToSet(order) \ {s} /\ GetByID(s) = <<s>> \o D
  BY DeleteList, GetList
<1>2. order \in Seq(created) /\ Distinct(order) /\ s \in ToSet(order) /\ s \in created
  BY ListedIff, MembersCreated DEF Listing
<1>3. Older(D) = Older(order) \ {p \in Older(order) : p[1] = s \/ p[2] = s}
  BY <1>1, <1>2, OlderRemove DEF DeleteByID
<1> HIDE DEF D
<1>4. Older(<<s>> \o D) = Older(D) \cup {<<o, s>> : o \in ToSet(D)}
  BY <1>1, <1>2, OlderCons
<1>5. ToSet(<<s>> \o D) = {s} \cup ToSet(D)
  BY <1>1, <1>2, ConsSet
<1>6. ToSet(order') = ToSet(order)
  BY <1>1, <1>2, <1>5
<1>7. Members(order) = ToSet(order) /\ Members(order') = ToSet(order')
  <2>1. order' \in Seq(created)
    BY GetList
  <2> QED
    BY <1>2, <2>1, MembersAre
<1>8. Older(order') = (Older(order) \ {p \in Older(order) : p[1] = s \/ p[2] = s})
                      \cup {<<o, s>> : o \in ToSet(order) \ {s}}
  BY <1>1, <1>3, <1>4
<1> QED
  BY <1>2, <1>6, <1>8, <1>7 DEF Recency!Use, Recency!Of

LEMMA DeleteIsLeave ==
  ASSUME Listing, NEW s, Listed(s), order' = DeleteByID(s)
  PROVE  Recency!Leave(s)
<1>1. /\ Place(s) \in 1..Len(order) /\ order[Place(s)] = s /\ order' \in Seq(created)
      /\ ToSet(order') = ToSet(order) \ {s}
  BY DeleteList
<1>2. order \in Seq(created) /\ Distinct(order) /\ s \in ToSet(order)
  BY ListedIff DEF Listing
<1>3. Older(order') = Older(order) \ {p \in Older(order) : p[1] = s \/ p[2] = s}
  BY <1>1, <1>2, OlderRemove DEF DeleteByID
<1>4. Members(order) = ToSet(order) /\ Members(order') = ToSet(order')
  BY <1>1, <1>2, MembersAre
<1> QED
  BY <1>1, <1>2, <1>3, <1>4 DEF Recency!Leave, Recency!Of

LEMMA SameCardinality == ASSUME NEW S PROVE Recency!Cardinality(S) = Cardinality(S)
  BY DEF Recency!Cardinality, Cardinality

LEMMA AddIsEntry ==
  ASSUME Listing, NEW s \in IDs, ~Listed(s), order' = Add(s)
  PROVE  Recency!Enter(s) \/ \E out \in IDs : Recency!Replace(s, out)
<1>1. /\ order' = <<s>> \o Kept /\ order' \in Seq(IDs)
      /\ ToSet(order') = {s} \cup ToSet(Kept)
  BY AddList DEF Listing
<1>2. /\ order \in Seq(created) /\ Distinct(order) /\ s \notin ToSet(order)
      /\ ToSet(order) \subseteq IDs /\ Len(order) \in Nat /\ Len(order) <= Capacity
      /\ Capacity \in Nat \ {0} /\ Cardinality(ToSet(order)) = Len(order)
  BY ListedIff, MembersCreated, DistinctCardinality, SessionConstants DEF Listing
<1>3. Older(order') = Older(Kept) \cup {<<o, s>> : o \in ToSet(Kept)}
  <2>1. Kept \in Seq(IDs)
    <3>1. Kept \in Seq(created) /\ created \subseteq IDs
      BY KeptItems DEF Listing
    <3> HIDE DEF Kept
    <3> QED
      BY <3>1, SeqOfMore
  <2> HIDE DEF Kept
  <2> QED
    BY <1>1, <2>1, OlderCons
<1>4. Members(order) = ToSet(order) /\ Members(order') = ToSet(order')
  BY <1>1, <1>2, MembersAre
<1>5. CASE Len(order) < Capacity
  <2>1. Kept = order
    BY <1>2, <1>5 DEF Kept
  <2>2. /\ s \notin Members(order) /\ Members(order') = Members(order) \cup {s}
        /\ Cardinality(Members(order)) < Capacity
        /\ Older(order') = Older(order) \cup {<<o, s>> : o \in Members(order)}
    BY <1>1, <1>2, <1>3, <1>4, <1>5, <2>1
  <2>3. Recency!Enter(s)
    BY <2>2, SameCardinality DEF Recency!Enter
  <2> QED
    BY <2>3
<1>6. CASE Len(order) >= Capacity
  <2> DEFINE n == Len(order)
  <2>0. PICK out : out = order[n]
    OBVIOUS
  <2>1. n \in 1..Len(order) /\ order # <<>> /\ Len(order) = Capacity
    BY <1>2, <1>6
  <2>2. Kept = RemoveAt(order, n)
    BY <1>2, <1>6, <2>1, FrontIsRemoveAt DEF Kept
  <2>3. out \in ToSet(order) /\ DOMAIN order = 1..Len(order)
    BY <1>2, <2>0, <2>1 DEF ToSet
  <2>4. \A o \in ToSet(order) \ {out} : <<out, o>> \in Older(order)
    BY <1>2, <2>0, <2>1, LastIsOldest
  <2> HIDE DEF n
  <2>5. ToSet(Kept) = ToSet(order) \ {out}
    BY <1>2, <2>0, <2>1, <2>2, <2>3, RemoveAtSet
  <2>6. Older(Kept) = Older(order) \ {p \in Older(order) : p[1] = out \/ p[2] = out}
    BY <1>2, <2>0, <2>1, <2>2, OlderRemove
  <2>7. /\ s \notin Members(order) /\ out \in Members(order)
        /\ Cardinality(Members(order)) = Capacity
        /\ \A o \in Members(order) \ {out} : <<out, o>> \in Older(order)
        /\ Members(order') = (Members(order) \ {out}) \cup {s}
    BY <1>1, <1>2, <1>4, <2>1, <2>3, <2>4, <2>5
  <2>8. Older(order') = (Older(order) \ {p \in Older(order) : p[1] = out \/ p[2] = out})
                        \cup {<<o, s>> : o \in Members(order) \ {out}}
    BY <1>3, <1>4, <2>5, <2>6
  <2>9. Recency!Replace(s, out)
    BY <2>7, <2>8, SameCardinality DEF Recency!Replace, Recency!Of
  <2> QED
    BY <1>2, <2>3, <2>9
<1> QED
  BY <1>2, <1>5, <1>6

\* The list of sessions implements a list of the most recently used entries: a session
\* is pushed out only by a new one, only from a full list, and only when every other
\* was used after it (Cache.Add, Cache.GetByID).
THEOREM ListIsByUse == Spec => RecencySpec
<1>1. Init => Recency!RecencyInit
  BY DEF Init, Recency!RecencyInit, Members, Older
<1>2. Listing /\ Typed /\ AddAlone /\ Progress /\ [Next]_vars
        => [Recency!RecencyNext]_(Recency!recencyVars)
  <2> SUFFICES ASSUME Listing, Typed, AddAlone, Progress, [Next]_vars
               PROVE  Recency!RecencyNext \/ UNCHANGED Recency!recencyVars
    OBVIOUS
  <2> DEFINE Goal == Recency!RecencyNext \/ UNCHANGED Recency!recencyVars
  <2>1. ASSUME UNCHANGED order PROVE Goal
    BY <2>1 DEF Recency!recencyVars
  <2>2. ASSUME NEW s, Listed(s), order' \in {GetByID(s), DeleteByID(s)} PROVE Goal
    <3>1. s \in IDs
      BY <2>2, ListedIff, MembersCreated DEF Listing
    <3>2. Recency!Use(s) \/ Recency!Leave(s)
      BY <2>2, GetIsUse, DeleteIsLeave
    <3> QED
      BY <3>1, <3>2 DEF Recency!RecencyNext
  <2>3. ASSUME NEW s \in IDs, ~Listed(s), order' = Add(s) PROVE Goal
    BY <2>3, AddIsEntry DEF Recency!RecencyNext
  <2> HIDE DEF Goal
  <2>4. ASSUME NEW h \in Handlers, HandlerStep(h) PROVE Goal
    <3>1. ASSUME AddSession(h) PROVE Goal
      <4>1. sess[h] \in IDs /\ ~Listed(sess[h]) /\ order' = Add(sess[h])
        BY <3>1, ListedIff DEF AddSession, AddAlone, Typed, Listing
      <4> QED
        BY <4>1, <2>3
    <3> QED
      BY <2>1, <2>4, <3>1 DEF HandlerStep, ExecuteFails, Set, MergeEnds, Start, Finish,
         FinishUncollected, StoreOutput, KeepNoOutput, cache
  <2>5. ASSUME NEW s \in IDs, NEW r \in Requests, Call(s, r) PROVE Goal
    <3>1. ASSUME CreateSession(s, r) PROVE Goal
      BY <2>3, <3>1, ListedIff, MembersCreated DEF CreateSession
    <3> QED
      BY <2>1, <2>2, <2>5, <3>1 DEF Call, GetSession, DeleteSession, ExecuteByID,
         UpdateSession, ByID, ExecuteNew, ExecuteMostRecent, cache
  <2>6. ASSUME UNCHANGED vars PROVE Goal
    BY <2>1, <2>6 DEF vars, cache
  <2> QED
    BY <2>4, <2>5, <2>6 DEF Next, Goal
<1>3. Spec => Init /\ [][Next]_vars
  BY DEF Spec
<1> QED
  BY <1>1, <1>2, <1>3, SessionsInductive, PTL DEF RecencySpec, Recency!RecencySpec

-----------------------------------------------------------------------------
(* The environments that a shell dumps (EnvCollector).                     *)

Environments == Before \cup After
Bindings == UNION {ToSet(e) : e \in Environments}
Sentinel == <<"sentinel">>

\* A pair is not taken for the sentinel.
LEMMA PairItems ==
  /\ Items = Bindings \cup {Sentinel} /\ IsByte(Sentinel)
  /\ \A x \in Bindings : /\ x = <<x[1], x[2]>> /\ ~IsByte(x)
                      /\ x[2] \notin {Absent, "spoiled", "spoiled="}
<1>1. Items = Bindings \cup {Sentinel}
  BY Zenon DEF Items, Bindings, Sentinel, Environments
<1>2. IsByte(Sentinel)
  BY DEF IsByte, Sentinel
<1>3. ASSUME NEW x \in Bindings
      PROVE  x = <<x[1], x[2]>> /\ ~IsByte(x) /\ x[2] \notin {Absent, "spoiled", "spoiled="}
  <2>1. PICK e \in Environments : x \in ToSet(e)
    BY DEF Bindings
  <2>2. PICK i \in DOMAIN e : x = e[i]
    BY <2>1 DEF ToSet
  <2>3. x = <<x[1], x[2]>> /\ x[2] \notin {Absent, "spoiled", "spoiled="}
    BY <2>2, CollectorConstants DEF Environments
  <2>4. Len(<<x[1], x[2]>>) = 2
    OBVIOUS
  <2>5. ~IsByte(x)
    BY <2>3, <2>4 DEF IsByte
  <2> QED
    BY <2>3, <2>5
<1> QED
  BY <1>1, <1>2, <1>3

LEMMA EnvironmentItems ==
  ASSUME NEW e \in Environments
  PROVE  /\ e \in Seq(Bindings) /\ e # <<>>
         /\ \A i, j \in 1..Len(e) : e[i][1] = e[j][1] => i = j
<1>1. e \in Seq(ToSet(e)) /\ e # <<>> /\ \A i, j \in DOMAIN e : e[i][1] = e[j][1] => i = j
  BY CollectorConstants DEF Environments
<1>2. ToSet(e) \subseteq Bindings
  BY DEF Bindings
<1>3. e \in Seq(Bindings)
  BY <1>1, <1>2, SeqOfMore
<1>4. DOMAIN e = 1..Len(e)
  BY <1>3
<1> QED
  BY <1>1, <1>3, <1>4

\* The value of a name in an environment is the one that follows it.
LEMMA ValueOf ==
  ASSUME NEW e \in Environments
  PROVE  /\ \A x \in ToSet(e) : Value(e, x[1]) = x[2]
         /\ \A v : v \notin NamesOf(e) => Value(e, v) = Absent
         /\ NamesOf(e) = {x[1] : x \in ToSet(e)}
<1>1. /\ e \in Seq(Bindings) /\ \A i, j \in 1..Len(e) : e[i][1] = e[j][1] => i = j
      /\ DOMAIN e = 1..Len(e)
  BY EnvironmentItems
<1>2. ASSUME NEW x \in ToSet(e) PROVE Value(e, x[1]) = x[2]
  <2>1. PICK i \in 1..Len(e) : x = e[i]
    BY <1>1 DEF ToSet
  <2> DEFINE at == {j \in 1..Len(e) : e[j][1] = x[1]}
  <2>2. at = {i}
    BY <1>1, <2>1
  <2>3. (CHOOSE j \in at : TRUE) = i
    <3> HIDE DEF at
    <3> QED
      BY <2>2
  <2>4. Value(e, x[1]) = IF at = {} THEN Absent ELSE e[CHOOSE j \in at : TRUE][2]
    BY Zenon DEF Value
  <2> HIDE DEF at
  <2> QED
    BY <2>1, <2>2, <2>3, <2>4
<1>3. ASSUME NEW v, v \notin NamesOf(e) PROVE Value(e, v) = Absent
  <2>1. {j \in 1..Len(e) : e[j][1] = v} = {}
    BY <1>3 DEF NamesOf
  <2> QED
    BY <2>1 DEF Value
<1>4. NamesOf(e) = {x[1] : x \in ToSet(e)}
  BY <1>1 DEF NamesOf, ToSet
<1> QED
  BY <1>2, <1>3, <1>4

\* The comparison of two environments is their difference as sets of pairs.
LEMMA DifferenceIsExact ==
  ASSUME NEW q \in Environments, NEW r \in Environments
  PROVE  DiffEnvs(q, r) = [changed |-> ToSet(r) \ ToSet(q),
                           deleted |-> {x[1] : x \in ToSet(q)} \ {x[1] : x \in ToSet(r)}]
<1>1. ToSet(q) \subseteq Bindings /\ ToSet(r) \subseteq Bindings
  BY DEF Bindings
<1>2. ASSUME NEW x \in ToSet(r)
      PROVE  Value(q, x[1]) # Value(r, x[1]) <=> x \notin ToSet(q)
  <2>1. Value(r, x[1]) = x[2] /\ x[2] # Absent /\ x = <<x[1], x[2]>>
    BY <1>1, PairItems, ValueOf
  <2>2. CASE x[1] \in NamesOf(q)
    <3>1. PICK y \in ToSet(q) : y[1] = x[1]
      BY <2>2, ValueOf
    <3>2. Value(q, x[1]) = y[2] /\ y = <<y[1], y[2]>>
      BY <1>1, <3>1, PairItems, ValueOf
    <3>3. x \in ToSet(q) => Value(q, x[1]) = x[2]
      BY ValueOf
    <3> QED
      BY <2>1, <3>1, <3>2, <3>3
  <2>3. CASE x[1] \notin NamesOf(q)
    BY <2>1, <2>3, ValueOf
  <2> QED
    BY <2>2, <2>3
<1> DEFINE changed == {<<v, Value(r, v)>> :
                         v \in {u \in NamesOf(r) : Value(q, u) # Value(r, u)}}
<1>3. \A x \in ToSet(r) : x = <<x[1], Value(r, x[1])>> /\ x[1] \in NamesOf(r)
  BY <1>1, PairItems, ValueOf
<1>4. \A v \in NamesOf(r) : \E x \in ToSet(r) : x[1] = v /\ x = <<v, Value(r, v)>>
  BY <1>3, ValueOf
<1>5. changed = ToSet(r) \ ToSet(q)
  <2>1. ASSUME NEW x \in ToSet(r) \ ToSet(q) PROVE x \in changed
    BY <1>2, <1>3, <2>1
  <2>2. ASSUME NEW z \in changed PROVE z \in ToSet(r) \ ToSet(q)
    <3>1. PICK v \in NamesOf(r) : Value(q, v) # Value(r, v) /\ z = <<v, Value(r, v)>>
      OBVIOUS
    <3>2. z \in ToSet(r) /\ z[1] = v
      BY <1>4, <3>1
    <3> QED
      BY <1>2, <3>1, <3>2
  <2> QED
    BY <2>1, <2>2
<1>6. NamesOf(q) = {x[1] : x \in ToSet(q)} /\ NamesOf(r) = {x[1] : x \in ToSet(r)}
  BY ValueOf
<1>7. DiffEnvs(q, r) = [changed |-> changed, deleted |-> NamesOf(q) \ NamesOf(r)]
  BY Zenon DEF DiffEnvs
<1> HIDE DEF changed
<1> QED
  BY <1>5, <1>6, <1>7

-----------------------------------------------------------------------------
(* What is on its way from the shell to Diff.                              *)

\* What was dumped so far is what was read and what is in the FIFO, and with what the shell
\* has still to dump it is one of the environments; nothing but the sentinel comes behind
\* it, and that only when ensureReaderDone has returned.
Arrived(p) == got[p] \o fifo[p]
Dumped(q, p) ==
  /\ q \o dump[p] \in Environments
  /\ Arrived(p) = q \/ (ensure[p] = "done" /\ Arrived(p) = Append(q, Sentinel))
Underway(p) == \E q \in Seq(Bindings) : Dumped(q, p)
Flow == \A p \in Pipes : Underway(p)

\* The part of CollectorTypeOK about what is read and written.
CollectorShapes ==
  /\ encrypted \in BOOLEAN /\ noDevice \in BOOLEAN /\ byte \in {"nul", "=", "other"}
  /\ shell \in {"start", "pre", "script", "post", "ended"} /\ opened \subseteq Pipes
  /\ fifo \in [Pipes -> Seq(Items)] /\ got \in [Pipes -> Seq(Items)]
  /\ dump \in [Pipes -> Seq(Bindings)]
  /\ writers \in [Pipes -> SUBSET {"shell", "sentinel"}]
  /\ reader \in [Pipes -> {"new", "open", "read", "closed", "done"}]
  /\ ensure \in [Pipes -> {"idle", "select", "fired", "write", "done", "error"}]
  /\ diff \in {"before", "ensure", "join", "ok", "failed"}

\* Diff is called when the shell has ended; a sentinel is written by who has the FIFO open;
\* a reader that met the end of its FIFO left nothing there, and nobody who writes to it.
Phases ==
  /\ ~encrypted => byte = "nul"
  /\ diff = "before" => \A p \in Pipes : ensure[p] = "idle"
  /\ diff # "before" => shell = "ended"
  /\ \A p \in Pipes :
       /\ ensure[p] = "write" => "sentinel" \in writers[p]
       /\ reader[p] \in {"closed", "done"} => fifo[p] = <<>> /\ writers[p] = {}
       /\ noDevice => ensure[p] # "error"

\* What Diff has made of what was read, which does not change any more.
Outcome ==
  /\ diff = "ok" => /\ \A p \in Pipes : reader[p] = "done" /\ ~ReadDataRefuses(p)
                    /\ result = DiffEnvs(ScanEnv("pre"), ScanEnv("post"))
  /\ diff = "failed" => \E p \in Pipes : \/ ensure[p] = "error"
                                         \/ reader[p] = "done" /\ ReadDataRefuses(p)

LEMMA AppendBehind ==
  ASSUME NEW S, NEW s \in Seq(S), NEW t \in Seq(S), NEW x \in S
  PROVE  s \o Append(t, x) = Append(s \o t, x)
<1> DEFINE one == <<x>>
           u == s \o t
<1>1. one \in Seq(S) /\ u \in Seq(S)
  OBVIOUS
<1>2. Append(t, x) = t \o one /\ Append(u, x) = u \o one
  BY <1>1
<1>3. s \o (t \o one) = (s \o t) \o one
  <2> HIDE DEF one, u
  <2> QED
    BY <1>1, ConcatAssociative
<1> QED
  BY <1>2, <1>3

LEMMA NextDumped ==
  ASSUME NEW S, NEW q \in Seq(S), NEW d \in Seq(S), d # <<>>
  PROVE  /\ Head(d) \in S /\ Tail(d) \in Seq(S) /\ Append(q, Head(d)) \in Seq(S)
         /\ Append(q, Head(d)) \o Tail(d) = q \o d
<1> DEFINE h == Head(d)
           t == Tail(d)
           one == <<h>>
<1>1. h \in S /\ t \in Seq(S)
  BY HeadTailProperties
<1>2. <<>> \o d = one \o t
  BY MoveHead
<1>3. d = one \o t
  BY <1>2, ConcatEmptySeq
<1> HIDE DEF h, t
<1>4. one \in Seq(S) /\ Append(q, h) \in Seq(S) /\ Append(q, h) = q \o one
  BY <1>1
<1> HIDE DEF one
<1>5. (q \o one) \o t = q \o (one \o t)
  BY <1>1, <1>4, ConcatAssociative
<1> QED
  BY <1>1, <1>3, <1>4, <1>5 DEF h, t

-----------------------------------------------------------------------------
(* ... and the steps that move it.                                         *)

LEMMA CollectorInitial == CollectorInit => CollectorShapes /\ Phases /\ Outcome /\ Flow
<1> SUFFICES ASSUME CollectorInit PROVE CollectorShapes /\ Phases /\ Outcome /\ Flow
  OBVIOUS
<1>1. PICK b \in Before, a \in After : dump = [pre |-> b, post |-> a]
  BY DEF CollectorInit
<1>2. /\ b \in Environments /\ a \in Environments /\ b \in Seq(Bindings) /\ a \in Seq(Bindings)
      /\ "pre" \in Pipes /\ "post" \in Pipes
  BY EnvironmentItems DEF Environments, Pipes
<1>3. \A p \in Pipes : dump[p] \in Environments /\ dump[p] \in Seq(Bindings)
  BY <1>1, <1>2 DEF Pipes
<1>4. dump \in [Pipes -> Seq(Bindings)]
  BY <1>1, <1>2, <1>3 DEF Pipes
<1>5. CollectorShapes
  BY <1>4 DEF CollectorInit, CollectorShapes
<1>6. Phases /\ Outcome
  BY DEF CollectorInit, Phases, Outcome
<1>7. ASSUME NEW p \in Pipes PROVE Dumped(<<>>, p)
  <2>1. got[p] = <<>> /\ fifo[p] = <<>> /\ <<>> \o <<>> = <<>>
    BY ConcatEmptySeq DEF CollectorInit
  <2>2. <<>> \o dump[p] = dump[p]
    BY <1>3, ConcatEmptySeq
  <2> QED
    BY <1>3, <2>1, <2>2 DEF Dumped, Arrived
<1>8. <<>> \in Seq(Bindings)
  OBVIOUS
<1> QED
  BY <1>5, <1>6, <1>7, <1>8 DEF Flow, Underway

LEMMA CollectorShapesStep ==
  ASSUME CollectorShapes, [CollectorNext]_collectorVars
  PROVE  CollectorShapes'
<1> USE DEF CollectorShapes, config
<1>1. ASSUME NEW p \in Pipes, ShellOpens(p) PROVE CollectorShapes'
  BY <1>1 DEF ShellOpens, OpenForWriting, Pipes
<1>2. ASSUME NEW p \in Pipes, ShellWrites(p) PROVE CollectorShapes'
  <2>1. Head(dump[p]) \in Bindings /\ Tail(dump[p]) \in Seq(Bindings)
    BY <1>2, TailSet DEF ShellWrites
  <2>2. Append(fifo[p], Head(dump[p])) \in Seq(Items)
    BY <2>1, PairItems
  <2> QED
    BY <1>2, <2>1, <2>2 DEF ShellWrites
<1>3. ASSUME NEW p \in Pipes, ShellCloses(p) PROVE CollectorShapes'
  BY <1>3 DEF ShellCloses
<1>4. CASE ShellIsKilled
  BY <1>4 DEF ShellIsKilled
<1>5. ASSUME NEW p \in Pipes, Reads(p) PROVE CollectorShapes'
  <2>1. got[p] \o fifo[p] \in Seq(Items) /\ <<>> \in Seq(Items)
    OBVIOUS
  <2> QED
    BY <1>5, <2>1 DEF Reads
<1>6. ASSUME NEW p \in Pipes, ReaderOpens(p) \/ ReaderEOF(p) \/ ReaderDone(p)
      PROVE  CollectorShapes'
  BY <1>6 DEF ReaderOpens, ReaderEOF, ReaderDone
<1>7. CASE DiffCall
  BY <1>7 DEF DiffCall
<1>8. CASE Ensured
  BY <1>8 DEF Ensured
<1>9. CASE Join
  BY <1>9 DEF Join
<1>10. ASSUME NEW p \in Pipes, EnsureSeesDone(p) \/ Tick(p) \/ SentinelFails(p)
       PROVE  CollectorShapes'
  BY <1>10 DEF EnsureSeesDone, Tick, SentinelFails, Ensure
<1>11. ASSUME NEW p \in Pipes, SentinelOpens(p) PROVE CollectorShapes'
  BY <1>11 DEF SentinelOpens, OpenForWriting, Ensure
<1>12. ASSUME NEW p \in Pipes, SentinelWrites(p) PROVE CollectorShapes'
  <2>1. Sentinel \in Items /\ fifo' = [fifo EXCEPT ![p] = Append(@, Sentinel)]
    BY <1>12, PairItems DEF SentinelWrites, Sentinel
  <2>2. Append(fifo[p], Sentinel) \in Seq(Items)
    BY <2>1
  <2>3. fifo' \in [Pipes -> Seq(Items)]
    BY <2>1, <2>2
  <2> QED
    BY <1>12, <2>3 DEF SentinelWrites, Ensure
<1>13. CASE UNCHANGED collectorVars
  BY <1>13 DEF collectorVars
<1> QED
  BY <1>1, <1>2, <1>3, <1>4, <1>5, <1>6, <1>7, <1>8, <1>9, <1>10, <1>11, <1>12, <1>13
  DEF CollectorNext, ShellStep, ReaderStep, EnsureStep

LEMMA PhasesStep ==
  ASSUME CollectorShapes, Phases, [CollectorNext]_collectorVars
  PROVE  Phases'
<1> USE DEF CollectorShapes, Phases, config
<1>1. ASSUME NEW p \in Pipes, ShellOpens(p) PROVE Phases'
  BY <1>1 DEF ShellOpens, OpenForWriting, HasReader, Dumping
<1>2. ASSUME NEW p \in Pipes, ShellWrites(p) PROVE Phases'
  BY <1>2 DEF ShellWrites
<1>3. ASSUME NEW p \in Pipes, ShellCloses(p) PROVE Phases'
  BY <1>3 DEF ShellCloses, Pipes
<1>4. CASE ShellIsKilled
  BY <1>4 DEF ShellIsKilled
<1>5. ASSUME NEW p \in Pipes, Reads(p) PROVE Phases'
  BY <1>5 DEF Reads
<1>6. ASSUME NEW p \in Pipes, ReaderOpens(p) \/ ReaderEOF(p) \/ ReaderDone(p) PROVE Phases'
  BY <1>6 DEF ReaderOpens, ReaderEOF, ReaderDone
<1>7. CASE DiffCall
  BY <1>7 DEF DiffCall
<1>8. CASE Ensured
  BY <1>8 DEF Ensured
<1>9. CASE Join
  BY <1>9 DEF Join
<1>10. ASSUME NEW p \in Pipes, EnsureSeesDone(p) \/ Tick(p) \/ SentinelFails(p) PROVE Phases'
  BY <1>10 DEF EnsureSeesDone, Tick, SentinelFails, Ensure
<1>11. ASSUME NEW p \in Pipes, SentinelOpens(p) PROVE Phases'
  BY <1>11 DEF SentinelOpens, OpenForWriting, HasReader, Ensure
<1>12. ASSUME NEW p \in Pipes, SentinelWrites(p) PROVE Phases'
  BY <1>12 DEF SentinelWrites, Ensure
<1>13. CASE UNCHANGED collectorVars
  BY <1>13 DEF collectorVars
<1> QED
  BY <1>1, <1>2, <1>3, <1>4, <1>5, <1>6, <1>7, <1>8, <1>9, <1>10, <1>11, <1>12, <1>13
  DEF CollectorNext, ShellStep, ReaderStep, EnsureStep

-----------------------------------------------------------------------------
(* The way of a dump, and what Diff makes of it.                           *)

\* A step that does not touch the FIFO leaves its way as it was.
LEMMA FlowKept ==
  ASSUME NEW p \in Pipes, Underway(p),
         got'[p] = got[p], fifo'[p] = fifo[p], dump'[p] = dump[p],
         ensure[p] = "done" => ensure'[p] = "done"
  PROVE  Underway(p)'
  BY DEF Underway, Dumped, Arrived

\* One entry more in the FIFO is one less to dump.
LEMMA Written ==
  ASSUME NEW q \in Seq(Bindings), NEW d \in Seq(Bindings), d # <<>>,
         NEW g \in Seq(Items), NEW f \in Seq(Items), g \o f = q
  PROVE  /\ g \o Append(f, Head(d)) \in Seq(Bindings)
         /\ (g \o Append(f, Head(d))) \o Tail(d) = q \o d
<1>1. /\ Head(d) \in Bindings /\ Append(q, Head(d)) \in Seq(Bindings)
      /\ Append(q, Head(d)) \o Tail(d) = q \o d
  <2>1. Head(d) \in Bindings
    BY NextDumped
  <2>2. Append(q, Head(d)) \in Seq(Bindings)
    BY NextDumped
  <2>3. Append(q, Head(d)) \o Tail(d) = q \o d
    BY NextDumped
  <2> QED
    BY <2>1, <2>2, <2>3, Zenon
<1>2. Head(d) \in Items
  BY <1>1, PairItems
<1>3. g \o Append(f, Head(d)) = Append(g \o f, Head(d))
  BY <1>2, AppendBehind
<1> QED
  BY <1>1, <1>3, Zenon

LEMMA FlowStep ==
  ASSUME CollectorShapes, Phases, Flow, [CollectorNext]_collectorVars
  PROVE  Flow'
<1>s. /\ fifo \in [Pipes -> Seq(Items)] /\ got \in [Pipes -> Seq(Items)]
      /\ dump \in [Pipes -> Seq(Bindings)]
      /\ ensure \in [Pipes -> {"idle", "select", "fired", "write", "done", "error"}]
  BY DEF CollectorShapes
<1>0. \A p \in Pipes : Underway(p)
  BY DEF Flow
<1>b. Bindings \subseteq Items /\ Sentinel \in Items
  BY PairItems
<1>1. ASSUME NEW p \in Pipes, ShellWrites(p) PROVE Flow'
  <2>1. /\ dump[p] # <<>> /\ fifo'[p] = Append(fifo[p], Head(dump[p]))
        /\ dump'[p] = Tail(dump[p]) /\ UNCHANGED <<got, ensure>>
        /\ \A o \in Pipes \ {p} : fifo'[o] = fifo[o] /\ dump'[o] = dump[o]
    BY <1>1, <1>s DEF ShellWrites
  <2>2. ensure[p] = "idle"
    BY <1>1 DEF ShellWrites, Phases, Pipes
  <2>3. PICK q \in Seq(Bindings) : Dumped(q, p)
    BY <1>0 DEF Underway
  <2>4. Arrived(p) = q /\ q \o dump[p] \in Environments
    BY <2>2, <2>3 DEF Dumped
  <2>5. PICK d \in Seq(Bindings), g \in Seq(Items), f \in Seq(Items) :
          d = dump[p] /\ g = got[p] /\ f = fifo[p]
    BY <1>s
  <2>6. PICK r \in Seq(Bindings) : r \o Tail(d) = q \o d /\ g \o Append(f, Head(d)) = r
    <3>1. d # <<>> /\ g \o f = q
      BY <2>1, <2>4, <2>5 DEF Arrived
    <3>2. g \o Append(f, Head(d)) \in Seq(Bindings)
      BY <3>1, Written
    <3>3. (g \o Append(f, Head(d))) \o Tail(d) = q \o d
      BY <3>1, Written
    <3> QED
      BY <3>2, <3>3, Zenon
  <2>7. Arrived(p)' = r
    BY <2>1, <2>5, <2>6, Zenon DEF Arrived
  <2>8. r \o dump'[p] \in Environments
    BY <2>1, <2>4, <2>5, <2>6, Zenon
  <2>9. Dumped(r, p)'
    BY <2>7, <2>8, Zenon DEF Dumped
  <2>10. Underway(p)'
    BY <2>9, Zenon DEF Underway
  <2> QED
    BY <1>0, <2>1, <2>10, FlowKept DEF Flow
<1>2. ASSUME NEW p \in Pipes, Reads(p) PROVE Flow'
  <2>1. /\ got'[p] = got[p] \o fifo[p] /\ fifo'[p] = <<>> /\ UNCHANGED <<dump, ensure>>
        /\ \A o \in Pipes \ {p} : got'[o] = got[o] /\ fifo'[o] = fifo[o]
    BY <1>2, <1>s DEF Reads
  <2>2. got[p] \o fifo[p] \in Seq(Items)
    BY <1>s
  <2>3. (got[p] \o fifo[p]) \o <<>> = got[p] \o fifo[p]
    BY <2>2, ConcatEmptySeq
  <2>4. Arrived(p)' = Arrived(p)
    BY <2>1, <2>3 DEF Arrived
  <2>5. PICK q \in Seq(Bindings) : Dumped(q, p)
    BY <1>0 DEF Underway
  <2>6. Dumped(q, p)'
    BY <2>1, <2>4, <2>5 DEF Dumped
  <2> QED
    BY <1>0, <2>1, <2>6, FlowKept DEF Flow, Underway
<1>3. ASSUME NEW p \in Pipes, SentinelWrites(p) PROVE Flow'
  <2>1. /\ ensure[p] = "write" /\ ensure'[p] = "done"
        /\ fifo'[p] = Append(fifo[p], Sentinel) /\ UNCHANGED <<got, dump>>
        /\ \A o \in Pipes \ {p} : fifo'[o] = fifo[o] /\ ensure'[o] = ensure[o]
    BY <1>3, <1>s DEF SentinelWrites, Ensure, Sentinel
  <2>2. PICK q \in Seq(Bindings) : Dumped(q, p)
    BY <1>0 DEF Underway
  <2>3. Arrived(p) = q /\ q \o dump[p] \in Environments
    BY <2>1, <2>2 DEF Dumped
  <2>4. got[p] \o Append(fifo[p], Sentinel) = Append(got[p] \o fifo[p], Sentinel)
    BY <1>s, <1>b, AppendBehind
  <2>5. Arrived(p)' = Append(q, Sentinel)
    BY <2>1, <2>3, <2>4 DEF Arrived
  <2>6. Dumped(q, p)'
    BY <2>1, <2>3, <2>5 DEF Dumped
  <2> QED
    BY <1>0, <2>1, <2>6, FlowKept DEF Flow, Underway
<1>4. ASSUME UNCHANGED <<got, fifo, dump>>,
             \A p \in Pipes : ensure[p] = "done" => ensure'[p] = "done"
      PROVE  Flow'
  BY <1>0, <1>4, FlowKept DEF Flow
<1>5. ASSUME NEW p \in Pipes,
             \/ ShellOpens(p) \/ ShellCloses(p)
             \/ ReaderOpens(p) \/ ReaderEOF(p) \/ ReaderDone(p)
      PROVE  UNCHANGED <<got, fifo, dump, ensure>>
  BY <1>5 DEF ShellOpens, ShellCloses, ReaderOpens, ReaderEOF, ReaderDone
<1>6. CASE ShellIsKilled \/ Ensured \/ Join \/ UNCHANGED collectorVars
  BY <1>4, <1>6 DEF ShellIsKilled, Ensured, Join, collectorVars
<1>7. CASE DiffCall
  BY <1>4, <1>7 DEF DiffCall, Phases
<1>8. ASSUME NEW p \in Pipes,
             EnsureSeesDone(p) \/ Tick(p) \/ SentinelOpens(p) \/ SentinelFails(p)
      PROVE  Flow'
  <2>1. UNCHANGED <<got, fifo, dump>>
    BY <1>8 DEF EnsureSeesDone, Tick, SentinelOpens, SentinelFails, Ensure
  <2>2. \A o \in Pipes : ensure[o] = "done" => ensure'[o] = "done"
    BY <1>8, <1>s DEF EnsureSeesDone, Tick, SentinelOpens, SentinelFails, Ensure
  <2> QED
    BY <1>4, <2>1, <2>2
<1> QED
  BY <1>1, <1>2, <1>3, <1>4, <1>5, <1>6, <1>7, <1>8
  DEF CollectorNext, ShellStep, ReaderStep, EnsureStep

\* What a reader has read decides what is made of it.
LEMMA ScansKept ==
  ASSUME NEW p \in Pipes, got'[p] = got[p], UNCHANGED byte
  PROVE  ScanEnv(p)' = ScanEnv(p) /\ ReadDataRefuses(p)' = ReadDataRefuses(p)
<1>1. Entries(p)' = Entries(p)
  BY DEF Entries
<1>2. ScanEnv(p)' = ScanEnv(p)
  BY <1>1, Zenon DEF ScanEnv, Spoiled
<1> QED
  BY <1>1, <1>2, Zenon DEF ReadDataRefuses

LEMMA OutcomeStep ==
  ASSUME CollectorShapes, Phases, Outcome, [CollectorNext]_collectorVars
  PROVE  Outcome'
<1>s. /\ got \in [Pipes -> Seq(Items)]
      /\ reader \in [Pipes -> {"new", "open", "read", "closed", "done"}]
      /\ ensure \in [Pipes -> {"idle", "select", "fired", "write", "done", "error"}]
      /\ "pre" \in Pipes /\ "post" \in Pipes
  BY DEF CollectorShapes, Pipes
<1>1. ASSUME UNCHANGED <<byte, diff, result>>,
             \A p \in Pipes : reader[p] = "done" => reader'[p] = "done" /\ got'[p] = got[p],
             \A p \in Pipes : ensure[p] = "error" => ensure'[p] = "error"
      PROVE  Outcome'
  <2>1. \A p \in Pipes : reader[p] = "done" => /\ ScanEnv(p)' = ScanEnv(p)
                                               /\ ReadDataRefuses(p)' = ReadDataRefuses(p)
    BY <1>1, ScansKept
  <2>2. CASE diff = "ok"
    <3>1. \A p \in Pipes : reader'[p] = "done" /\ ~ReadDataRefuses(p)'
      BY <1>1, <2>1, <2>2 DEF Outcome
    <3>2. ScanEnv("pre")' = ScanEnv("pre") /\ ScanEnv("post")' = ScanEnv("post")
      BY <1>s, <2>1, <2>2 DEF Outcome
    <3>3. result = DiffEnvs(ScanEnv("pre"), ScanEnv("post"))
      BY <2>2 DEF Outcome
    <3>4. result' = DiffEnvs(ScanEnv("pre")', ScanEnv("post")')
      BY <1>1, <3>2, <3>3
    <3> QED
      BY <1>1, <2>2, <3>1, <3>4 DEF Outcome
  <2>3. CASE diff = "failed"
    <3>1. PICK p \in Pipes : ensure[p] = "error" \/ (reader[p] = "done" /\ ReadDataRefuses(p))
      BY <2>3 DEF Outcome
    <3>2. ensure'[p] = "error" \/ (reader'[p] = "done" /\ ReadDataRefuses(p)')
      BY <1>1, <2>1, <3>1
    <3> QED
      BY <1>1, <2>3, <3>2 DEF Outcome
  <2> QED
    BY <1>1, <2>2, <2>3 DEF Outcome
<1>2. ASSUME NEW p \in Pipes, ShellOpens(p) \/ SentinelOpens(p) PROVE Outcome'
  BY <1>1, <1>2, <1>s DEF ShellOpens, SentinelOpens, OpenForWriting, HasReader, Ensure, config
<1>3. ASSUME NEW p \in Pipes, ShellWrites(p) \/ ShellCloses(p) PROVE Outcome'
  BY <1>1, <1>3 DEF ShellWrites, ShellCloses, config
<1>4. ASSUME NEW p \in Pipes,
             Reads(p) \/ ReaderOpens(p) \/ ReaderEOF(p) \/ ReaderDone(p)
      PROVE  Outcome'
  BY <1>1, <1>4, <1>s DEF Reads, ReaderOpens, ReaderEOF, ReaderDone, config
<1>5. CASE ShellIsKilled \/ UNCHANGED collectorVars
  BY <1>1, <1>5 DEF ShellIsKilled, collectorVars, config
<1>6. CASE DiffCall
  BY <1>6 DEF DiffCall, Outcome
<1>7. ASSUME NEW p \in Pipes, EnsureSeesDone(p) \/ Tick(p) \/ SentinelFails(p) \/ SentinelWrites(p)
      PROVE  Outcome'
  BY <1>1, <1>7, <1>s DEF EnsureSeesDone, Tick, SentinelFails, SentinelWrites, Ensure, config
<1>8. CASE Ensured
  <2>1. diff' = IF \E p \in Pipes : ensure[p] = "error" THEN "failed" ELSE "join"
    BY <1>8 DEF Ensured
  <2>2. UNCHANGED ensure
    BY <1>8 DEF Ensured
  <2> QED
    BY <2>1, <2>2 DEF Outcome
<1>9. CASE Join
  <2>1. \A p \in Pipes : /\ ScanEnv(p)' = ScanEnv(p) /\ ReadDataRefuses(p)' = ReadDataRefuses(p)
                         /\ reader[p] = "done" /\ reader'[p] = "done"
    BY <1>9, ScansKept DEF Join, config
  <2>2. CASE \E p \in Pipes : ReadDataRefuses(p)
    <3>1. diff' = "failed"
      BY <1>9, <2>2 DEF Join
    <3> QED
      BY <2>1, <2>2, <3>1 DEF Outcome
  <2>3. CASE ~ \E p \in Pipes : ReadDataRefuses(p)
    <3>1. diff' = "ok" /\ result' = DiffEnvs(ScanEnv("pre"), ScanEnv("post"))
      BY <1>9, <2>3 DEF Join
    <3>2. \A p \in Pipes : ~ReadDataRefuses(p)'
      BY <2>1, <2>3
    <3>3. result' = DiffEnvs(ScanEnv("pre")', ScanEnv("post")')
      BY <1>s, <2>1, <3>1
    <3> QED
      BY <2>1, <3>1, <3>2, <3>3 DEF Outcome
  <2> QED
    BY <2>2, <2>3
<1> QED
  BY <1>2, <1>3, <1>4, <1>5, <1>6, <1>7, <1>8, <1>9
  DEF CollectorNext, ShellStep, ReaderStep, EnsureStep

-----------------------------------------------------------------------------
(* What Diff makes of what was dumped.                                     *)

LEMMA CollectorInvariant == CollectorSpec => [](CollectorShapes /\ Phases /\ Outcome /\ Flow)
<1>1. CollectorShapes /\ Phases /\ Outcome /\ Flow /\ [CollectorNext]_collectorVars
        => (CollectorShapes /\ Phases /\ Outcome /\ Flow)'
  BY CollectorShapesStep, PhasesStep, OutcomeStep, FlowStep
<1> QED
  BY <1>1, CollectorInitial, PTL DEF CollectorSpec

LEMMA AppendEnds ==
  ASSUME NEW S, NEW q \in Seq(S), NEW x \in S
  PROVE  LET s == Append(q, x) IN
           /\ s \in Seq(S) /\ s # <<>> /\ Last(s) = x /\ Front(s) = q
           /\ Len(s) = Len(q) + 1 /\ \A i \in 1..Len(q) : s[i] = q[i]
<1> DEFINE s == Append(q, x)
<1>1. /\ s \in Seq(S) /\ Len(s) = Len(q) + 1 /\ s[Len(q) + 1] = x /\ Len(q) \in Nat
      /\ \A i \in 1..Len(q) : s[i] = q[i]
  OBVIOUS
<1> HIDE DEF s
<1>2. s # <<>> /\ Last(s) = x
  BY <1>1 DEF Last
<1>3. Len(s) - 1 = Len(q)
  BY <1>1
<1>4. Front(s) = SubSeq(s, 1, Len(q))
  BY <1>3 DEF Front
<1>5. SubSeq(s, 1, Len(q)) = q
  BY <1>1
<1> QED
  BY <1>1, <1>2, <1>4, <1>5 DEF s

\* A reader that is done has read what was dumped, and perhaps the sentinel behind it.
LEMMA ReadWhole ==
  ASSUME CollectorShapes, Phases, Flow, NEW p \in Pipes, reader[p] = "done"
  PROVE  \E q \in Seq(Bindings) : /\ q \o dump[p] \in Environments
                                  /\ got[p] = q \/ got[p] = Append(q, Sentinel)
<1>1. PICK q \in Seq(Bindings) : Dumped(q, p)
  BY DEF Flow, Underway
<1>2. fifo[p] = <<>> /\ got[p] \in Seq(Items)
  BY DEF Phases, CollectorShapes
<1>3. Arrived(p) = got[p]
  BY <1>2, ConcatEmptySeq DEF Arrived
<1> QED
  BY <1>1, <1>3, Zenon DEF Dumped

\* What its scanner makes of it.
LEMMA Scanned ==
  ASSUME NEW p \in Pipes, NEW q \in Seq(Bindings), got[p] = q \/ got[p] = Append(q, Sentinel)
  PROVE  /\ Entries(p) = q
         /\ \/ got[p] = q /\ ScanEnv(p) = q
            \/ /\ got[p] = Append(q, Sentinel) /\ got[p] # <<>>
               /\ q # <<>> => ScanEnv(p) = IF byte = "nul" THEN q
                                           ELSE Front(q) \o <<<<Last(q)[1], Spoiled>>>>
<1>1. CASE got[p] = q
  <2>1. q = <<>> \/ ~IsByte(Last(q))
    <3>1. q # <<>> => Last(q) \in Bindings
      <4>1. Len(q) \in Nat /\ (q # <<>> => Len(q) > 0)
        OBVIOUS
      <4> QED
        BY <4>1 DEF Last
    <3> QED
      BY <3>1, PairItems
  <2>2. Entries(p) = q
    BY <1>1, <2>1, Zenon DEF Entries
  <2> QED
    BY <1>1, <2>1, <2>2, Zenon DEF ScanEnv
<1>2. CASE got[p] = Append(q, Sentinel)
  <2>1. q \in Seq(Items)
    BY PairItems, SeqOfMore
  <2>2. got[p] # <<>> /\ Last(got[p]) = Sentinel /\ Front(got[p]) = q
    BY <1>2, <2>1, PairItems, AppendEnds
  <2>3. IsByte(Last(got[p]))
    BY <2>2, PairItems
  <2>4. Entries(p) = q
    BY <2>2, <2>3, Zenon DEF Entries
  <2> QED
    BY <1>2, <2>2, <2>3, <2>4, Zenon DEF ScanEnv
<1> QED
  BY <1>1, <1>2

\* An environment that is dumped whole, behind what has been dumped, is what was dumped.
LEMMA WholeDump ==
  ASSUME NEW q \in Seq(Bindings), q \o <<>> \in Environments
  PROVE  q \in Environments /\ q # <<>>
<1>1. q \o <<>> = q
  BY ConcatEmptySeq
<1> QED
  BY <1>1, EnvironmentItems

\* The sentinel is the last that is read of a FIFO.
LEMMA SentinelIsLast ==
  ASSUME CollectorShapes, Flow, NEW p \in Pipes, NEW i \in 1..Len(got[p]), IsByte(got[p][i])
  PROVE  i = Len(got[p])
<1>1. PICK q \in Seq(Bindings) : Dumped(q, p)
  BY DEF Flow, Underway
<1>2. PICK g \in Seq(Items), f \in Seq(Items) : g = got[p] /\ f = fifo[p]
  BY DEF CollectorShapes
<1>3. g \o f = q \/ g \o f = Append(q, Sentinel)
  BY <1>1, <1>2 DEF Dumped, Arrived
<1>4. /\ Len(g) \in Nat /\ Len(f) \in Nat /\ Len(q) \in Nat /\ i \in 1..Len(g)
      /\ Len(g \o f) = Len(g) + Len(f)
  BY <1>2
<1>a. (g \o f)[i] = g[i]
  <2>1. i \in 1..Len(g) + Len(f) /\ i <= Len(g)
    BY <1>4
  <2> QED
    BY <2>1, ConcatProperties
<1>5. \A j \in 1..Len(q) : ~IsByte(q[j])
  BY PairItems
<1>6. q \in Seq(Items) /\ Sentinel \in Items
  BY PairItems, SeqOfMore
<1>7. CASE g \o f = q
  <2> DEFINE u == g \o f
  <2>1. Len(u) = Len(g) + Len(f) /\ u[i] = g[i] /\ u = q
    BY <1>4, <1>7, <1>a
  <2> HIDE DEF u
  <2>2. i \in 1..Len(q)
    BY <1>4, <2>1
  <2> QED
    BY <1>2, <1>5, <2>1, <2>2
<1>8. CASE g \o f = Append(q, Sentinel)
  <2> DEFINE s == Append(q, Sentinel)
             u == g \o f
  <2>1. Len(s) = Len(q) + 1 /\ \A j \in 1..Len(q) : s[j] = q[j]
    BY <1>6, AppendEnds
  <2>2. Len(u) = Len(g) + Len(f) /\ u[i] = g[i] /\ u = s
    BY <1>4, <1>8, <1>a
  <2> HIDE DEF s, u
  <2>3. i \notin 1..Len(q)
    BY <1>2, <1>5, <2>1, <2>2
  <2>4. Len(q) + 1 = Len(g) + Len(f)
    BY <2>1, <2>2
  <2>5. i = Len(g)
    BY <1>4, <2>3, <2>4
  <2> QED
    BY <1>2, <2>5
<1> QED
  BY <1>3, <1>7, <1>8

\* A comparison of whole dumps is exact: neither the time at which a sentinel was written
\* nor the readers it was written for make a difference (Diff, ensureReaderDone).
THEOREM DiffsAreExact == CollectorSpec => []CollectorInv
<1>1. CollectorShapes /\ Flow => CollectorTypeOK
  <2> SUFFICES ASSUME CollectorShapes, Flow PROVE CollectorTypeOK
    OBVIOUS
  <2>1. \A p \in Pipes : dump[p] \in Seq(Items)
    BY PairItems, SeqOfMore DEF CollectorShapes
  <2>2. dump \in [Pipes -> Seq(Items)]
    BY <2>1 DEF CollectorShapes
  <2> QED
    BY <2>2, SentinelIsLast DEF CollectorShapes, CollectorTypeOK
<1>2. CollectorShapes /\ Phases /\ Outcome /\ Flow => ExactDiff
  <2> SUFFICES ASSUME CollectorShapes, Phases, Outcome, Flow, diff = "ok", Complete, ~encrypted
               PROVE  result = Exact /\ \A p \in Pipes : fifo[p] = <<>>
    BY DEF ExactDiff
  <2>1. ASSUME NEW p \in Pipes
        PROVE  fifo[p] = <<>> /\ Entries(p) \in Environments /\ ScanEnv(p) = Entries(p)
    <3>1. reader[p] = "done" /\ dump[p] = <<>> /\ byte = "nul" /\ fifo[p] = <<>>
      BY <2>1 DEF Outcome, Phases, Complete, Pipes
    <3>2. PICK q \in Seq(Bindings) : /\ q \o <<>> \in Environments
                                     /\ got[p] = q \/ got[p] = Append(q, Sentinel)
      BY <3>1, ReadWhole
    <3>3. q \in Environments /\ q # <<>>
      BY <3>2, WholeDump
    <3> QED
      BY <3>1, <3>2, <3>3, Scanned
  <2>2. result = DiffEnvs(Entries("pre"), Entries("post"))
    BY <2>1 DEF Outcome, Pipes
  <2> QED
    BY <2>1, <2>2, DifferenceIsExact DEF Exact, Pipes
<1> QED
  BY <1>1, <1>2, CollectorInvariant, PTL DEF CollectorInv

\* A FIFO that the shell has not opened: what comes out of it is the sentinel at most, and
\* its reader meets the end of it only behind the sentinel.
Untouched(p) ==
  /\ "shell" \notin writers[p] /\ shell # p
  /\ \/ Arrived(p) = <<Sentinel>> /\ ensure[p] = "done"
     \/ /\ Arrived(p) = <<>> /\ reader[p] \notin {"closed", "done"}
        /\ reader[p] = "read" => "sentinel" \in writers[p]
Unopened == \A p \in Pipes : p \notin opened => Untouched(p)

LEMMA UnopenedStep ==
  ASSUME CollectorShapes, Phases, Unopened, [CollectorNext]_collectorVars
  PROVE  Unopened'
<1> SUFFICES ASSUME NEW p \in Pipes, p \notin opened' PROVE Untouched(p)'
  BY DEF Unopened
<1>s. /\ fifo \in [Pipes -> Seq(Items)] /\ got \in [Pipes -> Seq(Items)]
      /\ writers \in [Pipes -> SUBSET {"shell", "sentinel"}]
      /\ reader \in [Pipes -> {"new", "open", "read", "closed", "done"}]
      /\ ensure \in [Pipes -> {"idle", "select", "fired", "write", "done", "error"}]
      /\ opened \subseteq Pipes
  BY DEF CollectorShapes
<1>o. opened \subseteq opened'
  BY DEF CollectorNext, collectorVars, ShellStep, ShellOpens, ShellWrites, ShellCloses,
     ShellIsKilled, DiffCall, Ensured, Join, ReaderStep, ReaderOpens, Reads, ReaderEOF,
     ReaderDone, EnsureStep, EnsureSeesDone, Tick, SentinelOpens, SentinelFails,
     SentinelWrites, Ensure
<1>u. Untouched(p)
  BY <1>o DEF Unopened
\* A step that moves nothing of it.
<1>1. ASSUME fifo'[p] = fifo[p], got'[p] = got[p], writers'[p] \ {"shell"} = writers[p] \ {"shell"},
             "shell" \notin writers'[p], shell' # p, reader'[p] = reader[p],
             ensure[p] = "done" => ensure'[p] = "done"
      PROVE  Untouched(p)'
  <2>1. Arrived(p)' = Arrived(p)
    BY <1>1 DEF Arrived
  <2> QED
    BY <1>1, <1>u, <2>1 DEF Untouched
<1>2. ASSUME NEW o \in Pipes, ShellOpens(o) PROVE Untouched(p)'
  <2>1. o # p
    BY <1>2 DEF ShellOpens
  <2> QED
    BY <1>1, <1>2, <1>s, <1>u, <2>1 DEF ShellOpens, OpenForWriting, Untouched
<1>3. ASSUME NEW o \in Pipes, ShellWrites(o) \/ ShellCloses(o) PROVE Untouched(p)'
  <2>1. o # p
    BY <1>3, <1>u DEF ShellWrites, ShellCloses, Untouched
  <2> QED
    BY <1>1, <1>3, <1>s, <1>u, <2>1 DEF ShellWrites, ShellCloses, Untouched, Pipes
<1>4. CASE ShellIsKilled
  BY <1>1, <1>4, <1>s, <1>u DEF ShellIsKilled, Untouched, Pipes
<1>5. CASE DiffCall
  BY <1>1, <1>5, <1>s, <1>u DEF DiffCall, Untouched, Phases, Pipes
<1>6. CASE Ensured \/ Join \/ UNCHANGED collectorVars
  BY <1>1, <1>6, <1>u DEF Ensured, Join, collectorVars, Untouched
<1>7. ASSUME NEW o \in Pipes, ReaderStep(o) \/ EnsureStep(o), o # p PROVE Untouched(p)'
  BY <1>1, <1>7, <1>s, <1>u DEF ReaderStep, ReaderOpens, Reads, ReaderEOF, ReaderDone,
     EnsureStep, EnsureSeesDone, Tick, SentinelOpens, SentinelFails, SentinelWrites,
     OpenForWriting, Ensure, Untouched
<1>8. CASE Reads(p)
  <2>1. PICK g \in Seq(Items), f \in Seq(Items) : g = got[p] /\ f = fifo[p]
    BY <1>s
  <2>2. got'[p] = g \o f /\ fifo'[p] = <<>>
    BY <1>8, <1>s, <2>1 DEF Reads
  <2>3. (g \o f) \o <<>> = g \o f
    BY <2>1, ConcatProperties, ConcatEmptySeq
  <2>4. Arrived(p)' = Arrived(p)
    BY <2>1, <2>2, <2>3 DEF Arrived
  <2>5. UNCHANGED <<shell, writers, reader, ensure>>
    BY <1>8 DEF Reads
  <2> QED
    BY <1>u, <2>4, <2>5 DEF Untouched
<1>9. CASE ReaderOpens(p) \/ ReaderEOF(p) \/ ReaderDone(p)
  <2>1. UNCHANGED <<shell, fifo, writers, got, ensure>> /\ Arrived(p)' = Arrived(p)
    BY <1>9 DEF ReaderOpens, ReaderEOF, ReaderDone, Arrived
  <2>2. CASE Arrived(p) = <<Sentinel>> /\ ensure[p] = "done"
    BY <1>u, <2>1, <2>2 DEF Untouched
  <2>3. CASE Arrived(p) = <<>> /\ reader[p] \notin {"closed", "done"}
    <3>1. ~ReaderEOF(p) /\ ~ReaderDone(p)
      BY <1>u, <2>3 DEF ReaderEOF, ReaderDone, Untouched
    <3>2. reader'[p] = "open"
      BY <1>9, <1>s, <3>1 DEF ReaderOpens
    <3> QED
      BY <1>u, <2>1, <2>3, <3>2 DEF Untouched
  <2> QED
    BY <1>u, <2>2, <2>3 DEF Untouched
<1>10. CASE EnsureSeesDone(p) \/ Tick(p) \/ SentinelFails(p)
  <2>1. /\ UNCHANGED <<shell, fifo, writers, reader, got>> /\ ensure[p] # "done"
    BY <1>10 DEF EnsureSeesDone, Tick, SentinelFails, Ensure
  <2> QED
    BY <1>1, <1>u, <2>1 DEF Untouched
<1>11. CASE SentinelOpens(p)
  <2>1. /\ UNCHANGED <<shell, fifo, got>> /\ ensure[p] = "fired" /\ ensure'[p] = "write"
        /\ writers'[p] = writers[p] \cup {"sentinel"} /\ reader'[p] = "read"
    BY <1>11, <1>s DEF SentinelOpens, OpenForWriting, Ensure
  <2>2. Arrived(p)' = Arrived(p)
    BY <2>1 DEF Arrived
  <2> QED
    BY <1>u, <2>1, <2>2 DEF Untouched
<1>12. CASE SentinelWrites(p)
  <2>1. /\ UNCHANGED <<shell, got, reader>> /\ ensure[p] = "write" /\ ensure'[p] = "done"
        /\ writers'[p] = writers[p] \ {"sentinel"} /\ fifo'[p] = Append(fifo[p], Sentinel)
    BY <1>12, <1>s DEF SentinelWrites, Ensure, Sentinel
  <2>2. Arrived(p) = <<>>
    BY <1>u, <2>1 DEF Untouched
  <2>3. PICK g \in Seq(Items), f \in Seq(Items) : g = got[p] /\ f = fifo[p]
    BY <1>s
  <2>4. g \o Append(f, Sentinel) = Append(g \o f, Sentinel)
    BY PairItems, AppendBehind
  <2>5. Arrived(p)' = <<Sentinel>>
    BY <2>1, <2>2, <2>3, <2>4 DEF Arrived
  <2> QED
    BY <1>u, <2>1, <2>5 DEF Untouched
<1> QED
  BY <1>2, <1>3, <1>4, <1>5, <1>6, <1>7, <1>8, <1>9, <1>10, <1>11, <1>12
  DEF CollectorNext, ShellStep, ReaderStep, EnsureStep

\* An environment that the shell never began to dump is not taken for an empty one,
\* whenever the shell was killed: a reader without a shell ends only behind a sentinel,
\* and readData refuses one that is all there is to read. Nothing is claimed of a dump
\* that was begun.
THEOREM UnopenedNeverPasses == CollectorSpec => []UnopenedIsRefused
<1>1. CollectorInit => Unopened
  <2> SUFFICES ASSUME CollectorInit, NEW p \in Pipes PROVE Untouched(p)
    BY DEF Unopened
  <2>1. Arrived(p) = <<>>
    BY ConcatEmptySeq DEF CollectorInit, Arrived
  <2> QED
    BY <2>1 DEF CollectorInit, Untouched, Pipes
<1>2. CollectorShapes /\ Phases /\ Unopened /\ [CollectorNext]_collectorVars => Unopened'
  BY UnopenedStep
<1>3. CollectorShapes /\ Phases /\ Outcome /\ Unopened => UnopenedIsRefused
  <2> SUFFICES ASSUME CollectorShapes, Phases, Outcome, Unopened, diff = "ok", ~encrypted,
                      NEW p \in Pipes, p \notin opened
               PROVE  FALSE
    BY DEF UnopenedIsRefused, CollectorShapes
  <2>1. reader[p] = "done" /\ ~ReadDataRefuses(p) /\ byte = "nul" /\ fifo[p] = <<>>
    BY DEF Phases, Outcome
  <2>2. Arrived(p) = <<Sentinel>>
    BY <2>1 DEF Unopened, Untouched
  <2>3. got[p] = Append(<<>>, Sentinel) /\ <<>> \in Seq(Bindings)
    <3>1. PICK g \in Seq(Items) : g = got[p]
      BY DEF CollectorShapes
    <3>2. g \o <<>> = g
      BY ConcatEmptySeq
    <3>3. g = <<Sentinel>>
      BY <2>1, <2>2, <3>1, <3>2, Zenon DEF Arrived
    <3> QED
      BY <3>1, <3>3
  <2>4. Entries(p) = <<>> /\ got[p] # <<>>
    <3>1. PICK q \in Seq(Bindings) : q = <<>> /\ got[p] = Append(q, Sentinel)
      BY <2>3
    <3>2. Entries(p) = q
      BY <3>1, Scanned
    <3> QED
      BY <2>3, <3>1, <3>2
  <2>5. ~(byte # "=")
    BY <2>1, <2>4, Zenon DEF ReadDataRefuses
  <2> QED
    BY <2>1, <2>5
<1> QED
  BY <1>1, <1>2, <1>3, CollectorInvariant, PTL DEF CollectorSpec

\* Whole dumps are accepted whatever sentinels there were, if a reader that has gone is no
\* error and no first variable looks as if it had two values.
THEOREM WholeDumpsAreAccepted == CollectorSpec => []CompleteIsAccepted
<1>1. CollectorShapes /\ Phases /\ Outcome /\ Flow => CompleteIsAccepted
  <2> SUFFICES ASSUME CollectorShapes, Phases, Outcome, Flow,
                      diff = "failed", Complete, noDevice
               PROVE  \E p \in Pipes : /\ Entries(p) # <<>>
                                       /\ \/ Entries(p)[1][2] \in HasEquals
                                          \/ Len(Entries(p)) = 1 /\ byte = "="
    BY DEF CompleteIsAccepted
  <2>1. PICK p \in Pipes : reader[p] = "done" /\ ReadDataRefuses(p)
    BY DEF Outcome, Phases
  <2>2. dump[p] = <<>>
    BY DEF Complete, Pipes
  <2>3. PICK q \in Seq(Bindings) : /\ q \o <<>> \in Environments
                                   /\ got[p] = q \/ got[p] = Append(q, Sentinel)
    BY <2>1, <2>2, ReadWhole
  <2>4. q # <<>>
    BY <2>3, WholeDump
  <2>5. Entries(p) = q /\ ScanEnv(p)[1][2] \in HasEquals \cup {"spoiled="}
    BY <2>1, <2>3, <2>4, Scanned DEF ReadDataRefuses
  <2>6. Len(q) \in Nat /\ Len(q) > 0 /\ q[1] \in Bindings
    BY <2>4
  <2>7. CASE ScanEnv(p)[1] = q[1]
    <3>1. q[1][2] # "spoiled="
      BY <2>6, PairItems
    <3> QED
      BY <2>4, <2>5, <2>7, <3>1
  <2>8. CASE ScanEnv(p)[1] # q[1]
    <3>1. ScanEnv(p) = Front(q) \o <<<<Last(q)[1], Spoiled>>>>
      BY <2>3, <2>4, <2>8, Scanned
    <3>2. /\ Front(q) \in Seq(Bindings) /\ Len(Front(q)) = Len(q) - 1
          /\ \A i \in 1..Len(q)-1 : Front(q)[i] = q[i]
      BY <2>4, FrontItems DEF Front
    <3>3. Len(q) = 1
      <4>1. PICK f, x : f = Front(q) /\ x = <<Last(q)[1], Spoiled>>
        OBVIOUS
      <4>2. f \in Seq(Bindings \cup {x}) /\ <<x>> \in Seq(Bindings \cup {x})
        BY <3>2, <4>1, SeqOfMore
      <4>3. Len(f) > 0 => (f \o <<x>>)[1] = f[1]
        BY <4>2
      <4> QED
        BY <2>6, <2>8, <3>1, <3>2, <4>1, <4>3
    <3>4. Front(q) = <<>>
      BY <3>2, <3>3
    <3>5. ScanEnv(p)[1][2] = Spoiled
      BY <3>1, <3>4
    <3>6. byte = "="
      BY <2>5, <3>5, CollectorConstants DEF Spoiled
    <3> QED
      BY <2>4, <2>5, <3>3, <3>6
  <2> QED
    BY <2>7, <2>8
<1> QED
  BY <1>1, CollectorInvariant, PTL
=============================================================================

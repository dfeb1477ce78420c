--------------------------- MODULE SequenceFacts ---------------------------
(***************************************************************************)
(* Facts about sequences that the proofs of this project share.            *)
(***************************************************************************)
EXTENDS Integers, SequencesExt, FiniteSetTheorems, SequenceTheorems, TLAPS

-----------------------------------------------------------------------------
(* Sequences without repetition.                                           *)

Distinct(s) == \A i, j \in DOMAIN s : s[i] = s[j] => i = j

\* What is left of a sequence without its i-th item.
LEMMA RemoveAtItems ==
  ASSUME NEW S, NEW s \in Seq(S), NEW i \in 1..Len(s)
  PROVE  /\ RemoveAt(s, i) \in Seq(S)
         /\ Len(RemoveAt(s, i)) = Len(s) - 1
         /\ \A j \in 1..Len(s)-1 : RemoveAt(s, i)[j] = s[IF j < i THEN j ELSE j + 1]
<1> DEFINE front == SubSeq(s, 1, i - 1)
           back == SubSeq(s, i + 1, Len(s))
<1>1. Len(s) \in Nat /\ i \in 1..Len(s)
  OBVIOUS
<1>2. /\ front \in Seq(S) /\ Len(front) = i - 1
      /\ \A j \in 1..i-1 : front[j] = s[j]
  BY <1>1
<1>3. /\ back \in Seq(S) /\ Len(back) = Len(s) - i
      /\ \A j \in 1..Len(s)-i : back[j] = s[i + j]
  BY <1>1
<1> DEFINE all == RemoveAt(s, i)
<1>4. front \in Seq(S) /\ back \in Seq(S) /\ all = front \o back
  BY <1>2, <1>3 DEF RemoveAt
<1> HIDE DEF front, back, all
<1>c. Len(front) \in Nat /\ Len(back) \in Nat
  BY <1>4
<1>d. all \in Seq(S) /\ Len(all) = Len(front) + Len(back)
  BY <1>4, <1>c
<1>e. \A j \in 1..Len(front) : all[j] = front[j]
  BY <1>4, <1>c
<1>f. ASSUME NEW j \in 1..Len(back) PROVE all[Len(front) + j] = back[j]
  BY <1>4, <1>c
<1>5. all \in Seq(S) /\ Len(all) = Len(s) - 1
  BY <1>1, <1>2, <1>3, <1>d
<1>6. ASSUME NEW j \in 1..Len(s)-1 PROVE all[j] = s[IF j < i THEN j ELSE j + 1]
  <2>1. CASE j < i
    BY <1>1, <1>2, <1>e, <2>1
  <2>2. CASE j >= i
    <3>1. j - (i - 1) \in 1..Len(s)-i /\ i + (j - (i - 1)) = j + 1
          /\ (i - 1) + (j - (i - 1)) = j
      BY <1>1, <2>2
    <3>2. all[(i - 1) + (j - (i - 1))] = back[j - (i - 1)]
      BY <1>2, <1>3, <1>f, <3>1
    <3>3. back[j - (i - 1)] = s[i + (j - (i - 1))]
      BY <1>3, <3>1
    <3> QED
      BY <2>2, <3>1, <3>2, <3>3
  <2> QED
    BY <1>1, <2>1, <2>2
<1> QED
  BY <1>5, <1>6 DEF all

\* Of a sequence without repetition it is all the other items, again without repetition.
LEMMA RemoveAtSet ==
  ASSUME NEW S, NEW s \in Seq(S), Distinct(s), NEW i \in DOMAIN s
  PROVE  /\ RemoveAt(s, i) \in Seq(S)
         /\ Distinct(RemoveAt(s, i))
         /\ ToSet(RemoveAt(s, i)) = ToSet(s) \ {s[i]}
<1> DEFINE t == RemoveAt(s, i)
<1>1. i \in 1..Len(s) /\ Len(s) \in Nat /\ DOMAIN s = 1..Len(s)
  OBVIOUS
<1>2. /\ t \in Seq(S) /\ Len(t) = Len(s) - 1
      /\ \A j \in 1..Len(s)-1 : t[j] = s[IF j < i THEN j ELSE j + 1]
  BY <1>1, RemoveAtItems
<1> HIDE DEF t
<1>3. DOMAIN t = 1..Len(s)-1
  BY <1>2
<1>4. Distinct(t)
  <2> DEFINE To(j) == IF j < i THEN j ELSE j + 1
  <2>1. ASSUME NEW j \in 1..Len(s)-1, NEW k \in 1..Len(s)-1, t[j] = t[k] PROVE j = k
    <3>1. To(j) \in 1..Len(s) /\ To(k) \in 1..Len(s) /\ (To(j) = To(k) => j = k)
      BY <1>1
    <3>2. t[j] = s[To(j)] /\ t[k] = s[To(k)]
      BY <1>2
    <3> HIDE DEF To
    <3>3. s[To(j)] = s[To(k)]
      BY <2>1, <3>2
    <3> QED
      BY <1>1, <3>1, <3>3 DEF Distinct
  <2> QED
    BY <1>3, <2>1 DEF Distinct
<1>5. ASSUME NEW x \in ToSet(t) PROVE x \in ToSet(s) \ {s[i]}
  <2>1. PICK j \in 1..Len(s)-1 : x = t[j]
    BY <1>3, <1>5 DEF ToSet
  <2>2. PICK l \in 1..Len(s) : l # i /\ x = s[l]
    BY <1>1, <1>2, <2>1
  <2> QED
    BY <1>1, <2>2 DEF ToSet, Distinct
<1>6. ASSUME NEW x \in ToSet(s) \ {s[i]} PROVE x \in ToSet(t)
  <2>1. PICK l \in 1..Len(s) : x = s[l] /\ l # i
    BY <1>1, <1>6 DEF ToSet
  <2>2. CASE l < i
    <3>1. l \in 1..Len(s)-1 /\ t[l] = x
      BY <1>1, <1>2, <2>1, <2>2
    <3> QED
      BY <1>3, <3>1 DEF ToSet
  <2>3. CASE l > i
    <3>1. l - 1 \in 1..Len(s)-1 /\ ~(l - 1 < i) /\ (l - 1) + 1 = l
      BY <1>1, <2>3
    <3>2. t[l - 1] = x
      BY <1>2, <2>1, <3>1
    <3> QED
      BY <1>3, <3>1, <3>2 DEF ToSet
  <2> QED
    BY <1>1, <2>1, <2>2, <2>3
<1> QED
  BY <1>2, <1>4, <1>5, <1>6 DEF t

\* A new item at the end.
LEMMA AppendSet ==
  ASSUME NEW S, NEW s \in Seq(S), Distinct(s), NEW x \in S, x \notin ToSet(s)
  PROVE  /\ Append(s, x) \in Seq(S)
         /\ Distinct(Append(s, x))
         /\ ToSet(Append(s, x)) = ToSet(s) \cup {x}
<1> DEFINE t == Append(s, x)
<1>1. /\ t \in Seq(S) /\ Len(t) = Len(s) + 1 /\ Len(s) \in Nat
      /\ \A j \in 1..Len(s) : t[j] = s[j]
      /\ t[Len(s) + 1] = x
  OBVIOUS
<1>2. DOMAIN s = 1..Len(s)
  OBVIOUS
<1> HIDE DEF t
<1>3. DOMAIN t = 1..Len(s) + 1
  BY <1>1
<1>4. \A j \in 1..Len(s) : s[j] # x
  BY <1>2 DEF ToSet
<1>5. Distinct(t)
  BY <1>1, <1>2, <1>3, <1>4 DEF Distinct
<1>6. ToSet(t) = ToSet(s) \cup {x}
  BY <1>1, <1>2, <1>3 DEF ToSet
<1> QED
  BY <1>1, <1>5, <1>6 DEF t

\* The items behind the first are items of the sequence.
LEMMA TailSet ==
  ASSUME NEW S, NEW s \in Seq(S), s # <<>>
  PROVE  Head(s) \in S /\ Tail(s) \in Seq(S) /\ ToSet(Tail(s)) \subseteq ToSet(s)
                 /\ Head(s) \in ToSet(s)
<1>1. Len(s) \in Nat /\ Len(s) > 0 /\ Head(s) = s[1]
  OBVIOUS
<1>2. /\ Tail(s) \in Seq(S) /\ Len(Tail(s)) = Len(s) - 1
      /\ \A j \in 1..Len(s)-1 : Tail(s)[j] = s[j + 1]
  BY <1>1
<1>3. DOMAIN s = 1..Len(s) /\ DOMAIN Tail(s) = 1..Len(s)-1
  BY <1>1, <1>2
<1> QED
  BY <1>1, <1>2, <1>3 DEF ToSet

\* The first item, and the items behind it.
LEMMA HeadTailSet ==
  ASSUME NEW S, NEW s \in Seq(S), s # <<>>
  PROVE  /\ Head(s) \in S /\ Head(s) \in ToSet(s)
         /\ ToSet(s) = {Head(s)} \cup ToSet(Tail(s))
<1>1. Len(s) \in Nat /\ Len(s) > 0 /\ Head(s) = s[1] /\ DOMAIN s = 1..Len(s)
  OBVIOUS
<1>2. /\ Tail(s) \in Seq(S) /\ Len(Tail(s)) = Len(s) - 1
      /\ \A j \in 1..Len(s)-1 : Tail(s)[j] = s[j + 1]
  BY <1>1
<1>3. DOMAIN Tail(s) = 1..Len(s)-1
  BY <1>1, <1>2
<1>4. ASSUME NEW x \in ToSet(s) PROVE x = Head(s) \/ x \in ToSet(Tail(s))
  <2>1. PICK i \in 1..Len(s) : x = s[i]
    BY <1>1 DEF ToSet
  <2>2. CASE i = 1
    BY <1>1, <2>1, <2>2
  <2>3. CASE i # 1
    <3>1. i - 1 \in 1..Len(s)-1 /\ (i - 1) + 1 = i
      BY <1>1, <2>3
    <3>2. x = Tail(s)[i - 1]
      BY <1>2, <2>1, <3>1
    <3> QED
      BY <1>3, <3>1, <3>2 DEF ToSet
  <2> QED
    BY <2>2, <2>3
<1>5. ToSet(Tail(s)) \subseteq ToSet(s) /\ Head(s) \in ToSet(s) /\ Head(s) \in S
  BY TailSet
<1> QED
  BY <1>4, <1>5

-----------------------------------------------------------------------------
(* Sequences put together.                                                 *)

LEMMA SeqOfMore ==
  ASSUME NEW S, NEW T, S \subseteq T, NEW s \in Seq(S)
  PROVE  s \in Seq(T)
<1>1. \A i \in 1..Len(s) : s[i] \in T
  OBVIOUS
<1>2. Len(s) \in Nat /\ s = [i \in 1..Len(s) |-> s[i]]
  OBVIOUS
<1> QED
  BY <1>1, <1>2

LEMMA ConcatSet ==
  ASSUME NEW S, NEW s \in Seq(S), NEW t \in Seq(S)
  PROVE  s \o t \in Seq(S) /\ ToSet(s \o t) = ToSet(s) \cup ToSet(t)
<1> DEFINE u == s \o t
<1>1. Len(s) \in Nat /\ Len(t) \in Nat /\ u \in Seq(S)
  OBVIOUS
<1>2. Len(u) = Len(s) + Len(t)
  OBVIOUS
<1>3. \A i \in 1..Len(s) : u[i] = s[i]
  BY <1>1
<1>4. ASSUME NEW i \in 1..Len(t) PROVE u[Len(s) + i] = t[i]
  BY <1>1
<1> HIDE DEF u
<1>5. DOMAIN s = 1..Len(s) /\ DOMAIN t = 1..Len(t) /\ DOMAIN u = 1..Len(u)
  BY <1>1
<1>6. ASSUME NEW x \in ToSet(u) PROVE x \in ToSet(s) \cup ToSet(t)
  <2>1. PICK i \in 1..Len(u) : x = u[i]
    BY <1>5 DEF ToSet
  <2>2. CASE i <= Len(s)
    BY <1>1, <1>3, <1>5, <2>1, <2>2 DEF ToSet
  <2>3. CASE i > Len(s)
    <3>1. i - Len(s) \in 1..Len(t) /\ Len(s) + (i - Len(s)) = i
      BY <1>1, <1>2, <2>1, <2>3
    <3>2. x = t[i - Len(s)]
      BY <1>4, <2>1, <3>1
    <3> QED
      BY <1>5, <3>1, <3>2 DEF ToSet
  <2> QED
    BY <1>1, <2>1, <2>2, <2>3
<1>7. ASSUME NEW x \in ToSet(s) PROVE x \in ToSet(u)
  <2>1. PICK i \in 1..Len(s) : x = s[i]
    BY <1>5 DEF ToSet
  <2>2. i \in 1..Len(u) /\ u[i] = x
    BY <1>1, <1>2, <1>3, <2>1
  <2> QED
    BY <1>5, <2>2 DEF ToSet
<1>8. ASSUME NEW x \in ToSet(t) PROVE x \in ToSet(u)
  <2>1. PICK i \in 1..Len(t) : x = t[i]
    BY <1>5 DEF ToSet
  <2>2. Len(s) + i \in 1..Len(u)
    BY <1>1, <1>2, <2>1
  <2>3. u[Len(s) + i] = x
    BY <1>4, <2>1
  <2> QED
    BY <1>5, <2>2, <2>3 DEF ToSet
<1> QED
  BY <1>1, <1>6, <1>7, <1>8 DEF u

\* A new item at the front.
LEMMA ConsItems ==
  ASSUME NEW S, NEW x \in S, NEW t \in Seq(S)
  PROVE  /\ <<x>> \o t \in Seq(S)
         /\ Len(<<x>> \o t) = Len(t) + 1
         /\ (<<x>> \o t)[1] = x
         /\ \A i \in 2..Len(t)+1 : (<<x>> \o t)[i] = t[i - 1]
<1> DEFINE one == <<x>>
           u == one \o t
<1>0. Len(one) = 1 /\ one[1] = x /\ Len(t) \in Nat
  OBVIOUS
<1>1. one \in Seq(S) /\ u = one \o t
  OBVIOUS
<1> HIDE DEF one, u
<1>2. u \in Seq(S) /\ Len(u) = Len(one) + Len(t)
  BY <1>1
<1>3. \A i \in 1..Len(one) : u[i] = one[i]
  BY <1>1
<1>4. ASSUME NEW i \in 1..Len(t) PROVE u[Len(one) + i] = t[i]
  BY <1>1
<1>5. ASSUME NEW i \in 2..Len(t)+1 PROVE u[i] = t[i - 1]
  <2>1. i - 1 \in 1..Len(t) /\ Len(one) + (i - 1) = i
    BY <1>0
  <2> QED
    BY <1>4, <2>1
<1>6. Len(u) = Len(t) + 1 /\ u[1] = x
  BY <1>0, <1>2, <1>3
<1> QED
  BY <1>2, <1>5, <1>6 DEF one, u

LEMMA ConsSet ==
  ASSUME NEW S, NEW x \in S, NEW t \in Seq(S), Distinct(t), x \notin ToSet(t)
  PROVE  Distinct(<<x>> \o t) /\ ToSet(<<x>> \o t) = {x} \cup ToSet(t)
<1> DEFINE u == <<x>> \o t
<1>1. /\ u \in Seq(S) /\ Len(u) = Len(t) + 1 /\ u[1] = x
      /\ \A i \in 2..Len(t)+1 : u[i] = t[i - 1]
  BY ConsItems
<1> HIDE DEF u
<1>2. Len(t) \in Nat /\ DOMAIN t = 1..Len(t) /\ DOMAIN u = 1..Len(t)+1
  BY <1>1
<1>3. \A i \in 2..Len(t)+1 : i - 1 \in 1..Len(t) /\ u[i] # x
  BY <1>1, <1>2 DEF ToSet
<1>4. Distinct(u)
  <2>1. ASSUME NEW i \in 1..Len(t)+1, NEW j \in 1..Len(t)+1, u[i] = u[j] PROVE i = j
    <3>1. CASE i = 1 \/ j = 1
      BY <1>1, <1>2, <1>3, <2>1, <3>1
    <3>2. CASE i # 1 /\ j # 1
      <4>1. i \in 2..Len(t)+1 /\ j \in 2..Len(t)+1
        BY <1>2, <3>2
      <4>2. i - 1 \in 1..Len(t) /\ j - 1 \in 1..Len(t) /\ t[i - 1] = t[j - 1]
        BY <1>1, <1>3, <2>1, <4>1
      <4>3. i - 1 = j - 1
        BY <1>2, <4>2 DEF Distinct
      <4> QED
        BY <4>1, <4>3
    <3> QED
      BY <3>1, <3>2
  <2> QED
    BY <1>2, <2>1 DEF Distinct
<1>5. ASSUME NEW y \in ToSet(t) PROVE y \in ToSet(u)
  <2>1. PICK i \in 1..Len(t) : y = t[i]
    BY <1>2 DEF ToSet
  <2>2. i + 1 \in 2..Len(t)+1 /\ (i + 1) - 1 = i
    BY <1>2
  <2>3. u[i + 1] = y /\ i + 1 \in 1..Len(t)+1
    BY <1>1, <1>2, <2>1, <2>2
  <2> QED
    BY <1>2, <2>3 DEF ToSet
<1>6. ASSUME NEW y \in ToSet(u) PROVE y \in {x} \cup ToSet(t)
  <2>1. PICK i \in 1..Len(t)+1 : y = u[i]
    BY <1>2 DEF ToSet
  <2>2. CASE i = 1
    BY <1>1, <2>1, <2>2
  <2>3. CASE i # 1
    <3>1. i \in 2..Len(t)+1
      BY <1>2, <2>3
    <3> QED
      BY <1>1, <1>2, <1>3, <2>1, <3>1 DEF ToSet
  <2> QED
    BY <2>2, <2>3
<1>7. x \in ToSet(u)
  <2>1. 1 \in 1..Len(t)+1
    BY <1>2
  <2> QED
    BY <1>1, <1>2, <2>1 DEF ToSet
<1> QED
  BY <1>4, <1>5, <1>6, <1>7 DEF u

\* A sequence without its last item.
LEMMA FrontItems ==
  ASSUME NEW S, NEW s \in Seq(S), s # <<>>
  PROVE  /\ SubSeq(s, 1, Len(s) - 1) \in Seq(S)
         /\ Len(SubSeq(s, 1, Len(s) - 1)) = Len(s) - 1
         /\ \A i \in 1..Len(s)-1 : SubSeq(s, 1, Len(s) - 1)[i] = s[i]
<1> DEFINE n == Len(s) - 1
<1>1. n \in Nat /\ n <= Len(s) /\ Len(s) \in Nat
  OBVIOUS
<1> HIDE DEF n
<1>2. SubSeq(s, 1, n) \in Seq(S) /\ Len(SubSeq(s, 1, n)) = n
  BY <1>1
<1>3. \A i \in 1..n : SubSeq(s, 1, n)[i] = s[i]
  BY <1>1
<1> QED
  BY <1>2, <1>3 DEF n

\* Items that go from the front of one sequence to the end of the one before it.
LEMMA MoveAll ==
  ASSUME NEW S, NEW s \in Seq(S), NEW t \in Seq(S), NEW u \in Seq(S)
  PROVE  s \o (t \o u) = (s \o t) \o (<<>> \o u)
<1>1. <<>> \o u = u
  BY ConcatEmptySeq
<1>2. (s \o t) \o u = s \o (t \o u)
  BY ConcatAssociative
<1> QED
  BY <1>1, <1>2

LEMMA MoveAcrossEmpty ==
  ASSUME NEW S, NEW t \in Seq(S), NEW u \in Seq(S)
  PROVE  <<>> \o (t \o u) = t \o (<<>> \o u)
<1>1. t \o u \in Seq(S)
  BY ConcatProperties
<1>2. <<>> \o (t \o u) = t \o u /\ <<>> \o u = u
  BY <1>1, ConcatEmptySeq
<1> QED
  BY <1>2

LEMMA MoveHead ==
  ASSUME NEW S, NEW s \in Seq(S), s # <<>>
  PROVE  <<>> \o s = <<Head(s)>> \o Tail(s)
<1>1. Head(s) \in S /\ Tail(s) \in Seq(S) /\ Len(Tail(s)) = Len(s) - 1
  BY HeadTailProperties
<1>2. \A i \in 1..Len(s)-1 : Tail(s)[i] = s[i + 1]
  BY <1>1, HeadTailProperties
<1> DEFINE h == Head(s)
           t == Tail(s)
           u == <<h>> \o t
<1>3. h = s[1] /\ Len(s) \in Nat /\ Len(s) > 0
  OBVIOUS
<1> HIDE DEF h, t
<1>4. h \in S /\ t \in Seq(S) /\ Len(t) = Len(s) - 1 /\ \A i \in 1..Len(s)-1 : t[i] = s[i + 1]
  BY <1>1, <1>2 DEF h, t
<1>5. /\ u \in Seq(S) /\ Len(u) = Len(t) + 1 /\ u[1] = h
      /\ \A i \in 2..Len(t)+1 : u[i] = t[i - 1]
  BY <1>4, ConsItems
<1> HIDE DEF u
<1>6. ASSUME NEW i \in 1..Len(u) PROVE u[i] = s[i]
  <2>1. CASE i = 1
    BY <1>3, <1>5, <2>1
  <2>2. CASE i # 1
    <3>1. i \in 2..Len(t)+1 /\ i - 1 \in 1..Len(s)-1 /\ (i - 1) + 1 = i
      BY <1>3, <1>4, <1>5, <2>2
    <3> QED
      BY <1>4, <1>5, <3>1
  <2> QED
    BY <2>1, <2>2
<1>7. u = s
  <2>1. Len(u) = Len(s)
    BY <1>3, <1>4, <1>5
  <2> QED
    BY <1>5, <1>6, <2>1, SeqEqual
<1>8. <<>> \o s = s
  BY ConcatEmptySeq
<1> QED
  BY <1>7, <1>8 DEF u, h, t

\* Associativity, in a form that the provers find when they are told which sequences.
Regroups(s, t, u) == (s \o t) \o u = s \o (t \o u)

LEMMA Regrouped ==
  ASSUME NEW S, NEW s \in Seq(S), NEW t \in Seq(S), NEW u \in Seq(S)
  PROVE  Regroups(s, t, u)
<1>1. (s \o t) \o u = s \o (t \o u)
  BY ConcatAssociative, SMTT(20)
<1> QED
  BY <1>1, Zenon DEF Regroups

\* What is in front is a prefix, strict unless nothing follows.
LEMMA FrontIsPrefix ==
  ASSUME NEW S, NEW s \in Seq(S), NEW t \in Seq(S)
  PROVE  /\ Len(s) <= Len(s \o t)
         /\ SubSeq(s, 1, Len(s)) = SubSeq(s \o t, 1, Len(s))
         /\ t # <<>> => s # s \o t
<1>1. /\ s \o t \in Seq(S) /\ Len(s \o t) = Len(s) + Len(t)
      /\ \A i \in 1..Len(s) + Len(t) : (s \o t)[i] = IF i <= Len(s) THEN s[i] ELSE t[i - Len(s)]
  BY ConcatProperties
<1> DEFINE u == s \o t
<1>2. Len(s) \in Nat /\ Len(t) \in Nat /\ Len(u) = Len(s) + Len(t) /\ u \in Seq(S)
  BY <1>1
<1>3. \A i \in 1..Len(s) : u[i] = s[i]
  BY <1>1, <1>2
<1>4. t # <<>> => s # u
  BY ConcatEqualIffEmpty
<1> HIDE DEF u
<1>5. SubSeq(s, 1, Len(s)) = SubSeq(u, 1, Len(s))
  BY <1>2, <1>3
<1>6. Len(s) <= Len(u)
  BY <1>2
<1> QED
  BY <1>4, <1>5, <1>6 DEF u

-----------------------------------------------------------------------------
(* Sequences and the sizes of sets.                                        *)

LEMMA DistinctCardinality ==
  ASSUME NEW S, NEW s \in Seq(S), Distinct(s)
  PROVE  IsFiniteSet(ToSet(s)) /\ Cardinality(ToSet(s)) = Len(s)
<1>1. Len(s) \in Nat /\ DOMAIN s = 1..Len(s)
  OBVIOUS
<1>2. s \in [1..Len(s) -> ToSet(s)]
  <2>1. s = [i \in 1..Len(s) |-> s[i]]
    BY <1>1
  <2>2. \A i \in 1..Len(s) : s[i] \in ToSet(s)
    BY <1>1 DEF ToSet
  <2> QED
    BY <2>1, <2>2
<1>3. s \in Injection(1..Len(s), ToSet(s))
  BY <1>1, <1>2 DEF Injection, IsInjective, Distinct
<1>4. s \in Surjection(1..Len(s), ToSet(s))
  BY <1>1, <1>2 DEF Surjection, ToSet
<1>5. ExistsBijection(1..Len(s), ToSet(s))
  BY <1>3, <1>4 DEF ExistsBijection, Bijection
<1> QED
  BY <1>1, <1>5, FS_CountingElements, FS_NatBijection

\* The enumerations of a finite set.
LEMMA EnumerationItems ==
  ASSUME NEW S, IsFiniteSet(S), NEW s \in SetToSeqs(S)
  PROVE  s \in Seq(S) /\ ToSet(s) = S
<1>1. Cardinality(S) \in Nat
  BY FS_CardinalityType
<1>2. s \in [1..Cardinality(S) -> S] /\ \A i, j \in 1..Cardinality(S) : i # j => s[i] # s[j]
  BY DEF SetToSeqs
<1>3. s \in Seq(S) /\ Len(s) = Cardinality(S)
  BY <1>1, <1>2
<1>4. Distinct(s)
  BY <1>2 DEF Distinct
<1>5. ToSet(s) \in SUBSET S
  BY <1>2 DEF ToSet
<1>6. Cardinality(ToSet(s)) = Cardinality(S)
  BY <1>3, <1>4, DistinctCardinality
<1> QED
  BY <1>3, <1>5, <1>6, FS_Subset
-----------------------------------------------------------------------------
(* Least and last.                                                         *)

LEMMA LeastOf ==
  ASSUME NEW T \in SUBSET Nat, T # {}
  PROVE  \E x \in T : \A y \in T : x <= y
<1> DEFINE R == {p \in Nat \X Nat : p[1] < p[2]}
<1>1. OpToRel(<, Nat) = R
  BY DEF OpToRel
<1>2. IsWellFoundedOn(R, Nat)
  BY <1>1, NatLessThanWellFounded
<1> HIDE DEF R
<1>3. PICK x \in T : \A y \in T : <<y, x>> \notin R
  BY <1>2, WFMin
<1>4. ASSUME NEW y \in T PROVE x <= y
  <2>1. x \in Nat /\ y \in Nat /\ <<y, x>> \notin R
    BY <1>3
  <2>2. ~(y < x)
    BY <2>1 DEF R
  <2> QED
    BY <2>1, <2>2
<1> QED
  BY <1>4

\* A set of positions that is not empty has a last one.
LEMMA LastOf ==
  ASSUME NEW n \in Nat, NEW I \in SUBSET (1..n), I # {}
  PROVE  \E i \in I : \A j \in i + 1 .. n : j \notin I
<1> DEFINE T == {k \in 0..n : n - k \in I}
<1>1. T \in SUBSET Nat /\ T # {}
  <2>1. PICK i \in I : TRUE
    OBVIOUS
  <2>2. n - i \in 0..n /\ n - (n - i) = i
    BY <2>1
  <2>3. n - i \in T
    BY <2>1, <2>2
  <2>4. T \subseteq Nat
    OBVIOUS
  <2> HIDE DEF T
  <2> QED
    BY <2>3, <2>4
<1>2. PICK k \in T : \A l \in T : k <= l
  <2> HIDE DEF T
  <2> QED
    BY <1>1, LeastOf
<1>3. k \in 0..n /\ n - k \in I
  OBVIOUS
<1>4. ASSUME NEW j \in (n - k) + 1 .. n, j \in I PROVE FALSE
  <2>1. n - j \in 0..n /\ n - (n - j) = j /\ n - j < k
    BY <1>3, <1>4
  <2>2. n - j \in T
    BY <1>4, <2>1
  <2> QED
    BY <1>2, <1>3, <2>1, <2>2
<1> QED
  BY <1>3, <1>4

-----------------------------------------------------------------------------
(* Counting.                                                               *)

LEMMA OneMore ==
  ASSUME NEW S, NEW x, IsFiniteSet(S)
  PROVE  /\ IsFiniteSet(S \cup {x})
         /\ Cardinality(S) \in Nat /\ Cardinality(S \cup {x}) \in Nat
         /\ Cardinality(S \cup {x}) <= Cardinality(S) + 1
         /\ x \notin S => Cardinality(S \cup {x}) = Cardinality(S) + 1
<1>1. /\ IsFiniteSet(S \cup {x})
      /\ Cardinality(S \cup {x}) = IF x \in S THEN Cardinality(S) ELSE Cardinality(S) + 1
  BY FS_AddElement
<1>2. Cardinality(S) \in Nat
  BY FS_CardinalityType
<1> QED
  BY <1>1, <1>2
=============================================================================

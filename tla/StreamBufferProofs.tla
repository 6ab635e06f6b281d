-------------------------- MODULE StreamBufferProofs -------------------------
(***************************************************************************)
(* Proofs about StreamBuffer: nothing that is put into a stream is lost,   *)
(* doubled or exchanged, for areas of any size, any number of characters,  *)
(* failures and packets.  FlattenSeq is recursive, so the first part       *)
(* proves what it computes, by induction on the length of its argument.    *)
(* The induction theorems of the library have an operator as a parameter;  *)
(* a least counterexample, from a well-founded order, takes their place.   *)
(***************************************************************************)
EXTENDS StreamBuffer, SequenceTheorems, WellFoundedInduction, TLAPS

-----------------------------------------------------------------------------
(* Induction *)

\* A set of natural numbers that is not empty has a least element.
LEMMA LeastNumber ==
    ASSUME NEW T \in SUBSET Nat, T # {}
    PROVE  \E m \in T : \A k \in T : m <= k
<1> DEFINE R == OpToRel(<, Nat)
<1>1. IsWellFoundedOn(R, Nat)
    BY NatLessThanWellFounded
<1>2. \A x, y \in Nat : y < x => <<y, x>> \in R
    BY DEF OpToRel
<1> HIDE DEF R
<1>3. PICK m \in T : \A y \in T : ~ (<<y, m>> \in R)
    BY <1>1, WFMin
<1>4. \A k \in T : ~ (k < m)
    BY <1>2, <1>3
<1> QED
    BY <1>4

\* A set of natural numbers with 0, and with the successor of each of its members,
\* has all of them.
LEMMA NumbersByInduction ==
    ASSUME NEW S \in SUBSET Nat, 0 \in S, \A n \in S : n + 1 \in S
    PROVE  S = Nat
<1> SUFFICES ASSUME Nat \ S # {} PROVE FALSE
    OBVIOUS
<1>1. PICK m \in Nat \ S : \A k \in Nat \ S : m <= k
    BY LeastNumber
<1>2. m - 1 \in S
    BY <1>1
<1>3. (m - 1) + 1 \in S
    BY <1>2
<1> QED
    BY <1>1, <1>3

\* A position of what is left when the first of k is gone.
LEMMA NextPosition ==
    ASSUME NEW k \in Nat, NEW n, n = k - 1, NEW m \in 1..n
    PROVE  m \in Nat /\ m + 1 \in 1..k /\ m + 1 # 1 /\ (m + 1) - 1 = m /\ n \in Nat
OBVIOUS

-----------------------------------------------------------------------------
(* What FlattenSeq computes *)

\* g[i] joins the first i sequences of s.
Joins(g, s) ==
    \A i \in 1..Len(s) : g[i] = IF i = 1 THEN s[i] ELSE g[i - 1] \o s[i]

\* t begins as s does.
Begins(s, t) == Len(s) <= Len(t) /\ \A i \in 1..Len(s) : s[i] = t[i]

\* One step of it.
LEMMA JoinNext ==
    ASSUME NEW g, NEW s, Len(s) \in Nat, Joins(g, s), NEW i \in 1..Len(s), i # 1
    PROVE  g[i] = g[i - 1] \o s[i]
BY DEF Joins

\* Such a function exists.
LEMMA JoinExists ==
    ASSUME NEW S, NEW s \in Seq(Seq(S))
    PROVE  \E g \in [1..Len(s) -> Seq(S)] : Joins(g, s)
<1> DEFINE J(g, n) == \A i \in 1..n : g[i] = IF i = 1 THEN s[i] ELSE g[i - 1] \o s[i]
           N == {n \in Nat : n <= Len(s) => \E g \in [1..n -> Seq(S)] : J(g, n)}
<1>0. Len(s) \in Nat /\ \A i \in 1..Len(s) : s[i] \in Seq(S)
    BY LenProperties, ElementOfSeq
<1>1. 0 \in N
  <2>1. [i \in 1..0 |-> <<>>] \in [1..0 -> Seq(S)] /\ J([i \in 1..0 |-> <<>>], 0)
    OBVIOUS
  <2> QED
    BY <2>1
<1>2. ASSUME NEW n \in N, n + 1 <= Len(s)
      PROVE  \E g \in [1..(n + 1) -> Seq(S)] : J(g, n + 1)
  <2>0. n \in Nat /\ (n <= Len(s) => \E g \in [1..n -> Seq(S)] : J(g, n))
    OBVIOUS
  <2> HIDE DEF J, N
  <2>1. PICK g \in [1..n -> Seq(S)] : J(g, n)
    BY <1>0, <1>2, <2>0
  <2> DEFINE e == IF n = 0 THEN s[1] ELSE g[n] \o s[n + 1]
             h == [i \in 1..(n + 1) |-> IF i <= n THEN g[i] ELSE e]
  <2>2. e \in Seq(S)
    <3>1. s[n + 1] \in Seq(S)
      BY <1>0, <1>2, <2>0
    <3>2. CASE n = 0
      BY <3>1, <3>2
    <3>3. CASE n # 0
      <4>1. g[n] \in Seq(S)
        BY <2>0, <3>3
      <4> QED
        BY <3>1, <3>3, <4>1, ConcatProperties
    <3> QED
      BY <3>2, <3>3
  <2> HIDE DEF e
  <2>3. h \in [1..(n + 1) -> Seq(S)]
    BY <2>2
  <2>4. ASSUME NEW i \in 1..(n + 1)
        PROVE  h[i] = IF i = 1 THEN s[i] ELSE h[i - 1] \o s[i]
    <3>1. CASE i <= n
      <4>1. h[i] = g[i] /\ (i # 1 => h[i - 1] = g[i - 1])
        BY <2>0, <3>1
      <4>2. g[i] = IF i = 1 THEN s[i] ELSE g[i - 1] \o s[i]
        <5>1. i \in 1..n
          BY <2>0, <3>1
        <5> HIDE DEF h, e
        <5> QED
          BY <2>1, <5>1 DEF J
      <4> HIDE DEF h
      <4> QED
        BY <4>1, <4>2
    <3>2. CASE i = n + 1
      <4>1. h[i] = e /\ (i # 1 => h[i - 1] = g[n])
        BY <2>0, <3>2
      <4> HIDE DEF h
      <4> QED
        BY <2>0, <3>2, <4>1 DEF e
    <3> QED
      BY <2>0, <3>1, <3>2
  <2> HIDE DEF h
  <2> QED
    BY <2>3, <2>4 DEF J
<1>3. \A n \in N : n + 1 \in N
  <2> SUFFICES ASSUME NEW n \in N PROVE n + 1 \in N
    OBVIOUS
  <2>1. n + 1 \in Nat
    OBVIOUS
  <2> HIDE DEF J
  <2>2. n + 1 <= Len(s) => \E g \in [1..(n + 1) -> Seq(S)] : J(g, n + 1)
    BY <1>2
  <2> QED
    BY <2>1, <2>2
<1>4. N \in SUBSET Nat
    OBVIOUS
<1> HIDE DEF N
<1>5. N = Nat
    BY <1>1, <1>3, <1>4, NumbersByInduction
<1>6. Len(s) \in N
    BY <1>0, <1>5
<1> QED
    BY <1>0, <1>6 DEF N, Joins

\* Two of them agree as far as what they join does.
LEMMA JoinsAgree ==
    ASSUME NEW S, NEW s \in Seq(Seq(S)), NEW t \in Seq(Seq(S)), NEW g, NEW h,
           Joins(g, s), Joins(h, t),
           Begins(s, t)
    PROVE  \A k \in 1..Len(s) : g[k] = h[k]
<1>0. Len(s) \in Nat /\ Len(t) \in Nat
    BY LenProperties
<1> DEFINE T == {i \in 1..Len(s) : g[i] # h[i]}
<1> SUFFICES ASSUME T # {} PROVE FALSE
    OBVIOUS
<1>1. T \in SUBSET Nat
    BY <1>0
<1>2. PICK m \in T : \A k \in T : m <= k
    BY <1>1, LeastNumber
<1>3. m \in 1..Len(s) /\ m \in 1..Len(t) /\ g[m] # h[m] /\ s[m] = t[m]
    BY <1>0, <1>2 DEF Begins
<1>4. m # 1
    BY <1>3 DEF Joins
<1>5. m - 1 \in 1..Len(s) /\ m - 1 \notin T
    BY <1>0, <1>2, <1>3, <1>4
<1>6. g[m - 1] = h[m - 1]
    BY <1>5
<1> QED
    BY <1>3, <1>4, <1>6 DEF Joins

\* The last value, which is FlattenSeq.
LEMMA LastJoinsAgree ==
    ASSUME NEW S, NEW s \in Seq(Seq(S)), NEW t \in Seq(Seq(S)), NEW g, NEW h,
           Joins(g, s), Joins(h, t), Begins(s, t), Len(s) # 0
    PROVE  g[Len(s)] = h[Len(s)]
<1>1. \A k \in 1..Len(s) : g[k] = h[k]
    BY JoinsAgree
<1> QED
    BY <1>1, LenProperties

\* So FlattenSeq is the last value of any of them.
LEMMA FlattenJoins ==
    ASSUME NEW S, NEW s \in Seq(Seq(S)), s # <<>>
    PROVE  \E g \in [1..Len(s) -> Seq(S)] : Joins(g, s) /\ FlattenSeq(s) = g[Len(s)]
<1> DEFINE F == CHOOSE g : g = [i \in 1..Len(s) |-> IF i = 1 THEN s[i] ELSE g[i - 1] \o s[i]]
<1>0. Len(s) \in Nat /\ Len(s) # 0
    BY LenProperties, EmptySeq
<1>1. FlattenSeq(s) = F[Len(s)]
    BY <1>0 DEF FlattenSeq
<1>2. PICK g \in [1..Len(s) -> Seq(S)] : Joins(g, s)
    BY JoinExists
<1>3. g = [i \in 1..Len(s) |-> IF i = 1 THEN s[i] ELSE g[i - 1] \o s[i]]
    BY <1>2 DEF Joins
<1>4. F = [i \in 1..Len(s) |-> IF i = 1 THEN s[i] ELSE F[i - 1] \o s[i]]
    BY <1>3
<1> HIDE DEF F
<1>5. Joins(F, s)
    BY <1>4 DEF Joins
<1>6. F[Len(s)] = g[Len(s)]
  <2>1. Begins(s, s)
    BY <1>0 DEF Begins
  <2> QED
    BY <1>0, <1>2, <1>5, <2>1, LastJoinsAgree
<1> QED
    BY <1>1, <1>2, <1>6

\* One sequence more is joined at the end.
LEMMA FlattenAppend ==
    ASSUME NEW S, NEW s \in Seq(Seq(S)), NEW e \in Seq(S)
    PROVE  FlattenSeq(Append(s, e)) = FlattenSeq(s) \o e
<1> DEFINE t == Append(s, e)
<1>1. /\ t \in Seq(Seq(S)) /\ t # <<>> /\ Len(t) = Len(s) + 1
      /\ \A i \in 1..Len(s) : t[i] = s[i]
      /\ t[Len(s) + 1] = e
    BY AppendProperties
<1>2. Len(s) \in Nat
    BY LenProperties
<1> HIDE DEF t
<1>3. PICK h \in [1..Len(t) -> Seq(S)] : Joins(h, t) /\ FlattenSeq(t) = h[Len(t)]
    BY <1>1, FlattenJoins
<1>4. CASE s = <<>>
  <2>1. Len(s) = 0 /\ FlattenSeq(s) = <<>>
    BY <1>4, EmptySeq DEF FlattenSeq
  <2>2. h[1] = e
    BY <1>1, <1>3, <2>1 DEF Joins
  <2>3. <<>> \o e = e
    BY ConcatEmptySeq
  <2> QED
    BY <1>1, <1>3, <2>1, <2>2, <2>3 DEF t
<1>5. CASE s # <<>>
  <2>1. PICK g \in [1..Len(s) -> Seq(S)] : Joins(g, s) /\ FlattenSeq(s) = g[Len(s)]
    BY <1>5, FlattenJoins
  <2>2. Len(s) # 0
    BY <1>5, EmptySeq
  <2>3. g[Len(s)] = h[Len(s)]
    <3>1. Begins(s, t)
      BY <1>1, <1>2 DEF Begins
    <3>2. t \in Seq(Seq(S)) /\ Joins(g, s) /\ Joins(h, t)
      BY <1>1, <1>3, <2>1
    <3> QED
      BY <2>2, <3>1, <3>2, LastJoinsAgree
  <2>4. h[Len(s) + 1] = h[Len(s)] \o e
    <3> DEFINE i == Len(t)
    <3>1. i \in Nat /\ i \in 1..Len(t) /\ i # 1 /\ i - 1 = Len(s) /\ i = Len(s) + 1
      BY <1>1, <1>2, <2>2
    <3> HIDE DEF i
    <3>2. Len(t) \in Nat
      BY <1>1, <1>2
    <3>3. h[i] = h[i - 1] \o t[i]
      BY <1>3, <3>1, <3>2, JoinNext
    <3> QED
      BY <1>1, <3>1, <3>3
  <2> QED
    BY <1>1, <1>3, <2>1, <2>3, <2>4 DEF t
<1> QED
    BY <1>4, <1>5

\* One sequence alone.
LEMMA FlattenOne ==
    ASSUME NEW S, NEW e \in Seq(S)
    PROVE  FlattenSeq(<<e>>) = e
<1>1. <<>> \in Seq(Seq(S)) /\ Append(<<>>, e) = <<e>>
    BY EmptySeq
<1>2. FlattenSeq(<<>>) = <<>>
    BY EmptySeq DEF FlattenSeq
<1>3. <<>> \o e = e
    BY ConcatEmptySeq
<1> QED
    BY <1>1, <1>2, <1>3, FlattenAppend

\* The first one is joined before the others.
LEMMA FlattenTail ==
    ASSUME NEW S, NEW s \in Seq(Seq(S)), s # <<>>
    PROVE  FlattenSeq(s) = Head(s) \o FlattenSeq(Tail(s))
<1> DEFINE t == Tail(s)
           e == s[1]
<1>1. /\ Len(s) \in Nat /\ Len(s) # 0
      /\ t \in Seq(Seq(S)) /\ Len(t) = Len(s) - 1
      /\ \A i \in 1..Len(t) : t[i] = s[i + 1]
      /\ Head(s) = e /\ e \in Seq(S)
    BY LenProperties, EmptySeq, HeadTailProperties, ElementOfSeq
<1>2. PICK g \in [1..Len(s) -> Seq(S)] : Joins(g, s) /\ FlattenSeq(s) = g[Len(s)]
    BY FlattenJoins
<1>3. g[1] = e
    BY <1>1, <1>2 DEF Joins
<1> HIDE DEF t, e
<1>4. CASE t = <<>>
  <2>1. Len(t) = 0 /\ FlattenSeq(t) = <<>>
    BY <1>4, EmptySeq DEF FlattenSeq
  <2>2. e \o <<>> = e
    BY <1>1, ConcatEmptySeq
  <2>3. Len(s) = 1
    BY <1>1, <2>1
  <2> QED
    BY <1>1, <1>2, <1>3, <2>1, <2>2, <2>3 DEF t
<1>5. CASE t # <<>>
  <2>1. PICK h \in [1..Len(t) -> Seq(S)] : Joins(h, t) /\ FlattenSeq(t) = h[Len(t)]
    BY <1>1, <1>5, FlattenJoins
  <2>2. Len(t) # 0
    BY <1>1, <1>5, EmptySeq
  <2> DEFINE T == {i \in 1..Len(t) : g[i + 1] # e \o h[i]}
  <2>3. T = {}
    <3> SUFFICES ASSUME T # {} PROVE FALSE
      OBVIOUS
    <3>1. T \in SUBSET Nat
      BY <1>1
    <3>2. PICK m \in T : \A k \in T : m <= k
      BY <3>1, LeastNumber
    <3>3. m \in 1..Len(t) /\ m \in T
      BY <3>2
    <3>4. m \in Nat /\ m + 1 \in 1..Len(s) /\ m + 1 # 1 /\ (m + 1) - 1 = m /\ Len(t) \in Nat
      <4>1. Len(s) \in Nat /\ Len(t) = Len(s) - 1 /\ m \in 1..Len(t)
        BY <1>1, <3>3
      <4> QED
        BY <4>1, NextPosition
    <3>5. g[m + 1] # e \o h[m] /\ t[m] = s[m + 1]
      BY <1>1, <3>3
    <3> HIDE DEF T
    <3>6. g[m + 1] = g[m] \o t[m]
      <4>0. Len(s) \in Nat /\ Joins(g, s) /\ m + 1 \in 1..Len(s) /\ m + 1 # 1
        BY <1>1, <1>2, <3>4
      <4>1. g[m + 1] = g[(m + 1) - 1] \o s[m + 1]
        BY <4>0, JoinNext
      <4> QED
        BY <3>4, <3>5, <4>1
    <3>7. m # 1
      <4>1. CASE m = 1
        <5>1. h[1] = t[1]
          BY <2>1, <3>3, <4>1 DEF Joins
        <5> QED
          BY <1>3, <3>5, <3>6, <4>1, <5>1
      <4> QED
        BY <4>1
    <3>8. m - 1 \in 1..Len(t) /\ (m - 1) + 1 = m /\ m - 1 \notin T
      BY <3>2, <3>3, <3>4, <3>7
    <3>9. g[m] = e \o h[m - 1]
      BY <3>8 DEF T
    <3>10. h[m] = h[m - 1] \o t[m]
      BY <2>1, <3>3, <3>4, <3>7, JoinNext
    <3>11. (e \o h[m - 1]) \o t[m] = e \o (h[m - 1] \o t[m])
      <4>1. h[m - 1] \in Seq(S)
        BY <2>1, <3>8
      <4>2. t[m] \in Seq(S)
        BY <1>1, <3>3, ElementOfSeq
      <4>3. e \in Seq(S)
        BY <1>1
      <4> DEFINE a == h[m - 1]
                 b == t[m]
      <4> HIDE DEF a, b
      <4>4. a \in Seq(S) /\ b \in Seq(S)
        BY <4>1, <4>2 DEF a, b
      <4>5. (e \o a) \o b = e \o (a \o b)
        BY <4>3, <4>4, SMTT(60)
      <4> QED
        BY <4>5 DEF a, b
    <3> QED
      BY <3>5, <3>6, <3>9, <3>10, <3>11
  <2>4. Len(t) \in 1..Len(t) /\ Len(t) + 1 = Len(s)
    BY <1>1, <2>2
  <2>5. g[Len(s)] = e \o h[Len(t)]
    BY <2>3, <2>4
  <2> QED
    BY <1>1, <1>2, <2>1, <2>5 DEF t
<1> QED
    BY <1>4, <1>5

\* What is joined is a sequence.
LEMMA FlattenType ==
    ASSUME NEW S, NEW s \in Seq(Seq(S))
    PROVE  FlattenSeq(s) \in Seq(S)
<1>1. CASE s = <<>>
    BY <1>1, EmptySeq DEF FlattenSeq
<1>2. CASE s # <<>>
  <2>1. PICK g \in [1..Len(s) -> Seq(S)] : FlattenSeq(s) = g[Len(s)]
    BY <1>2, FlattenJoins
  <2>2. Len(s) \in 1..Len(s)
    BY <1>2, LenProperties, EmptySeq
  <2> QED
    BY <2>1, <2>2
<1> QED
    BY <1>1, <1>2

-----------------------------------------------------------------------------
(* What the actions do to sequences *)

\* A put area within the array holds characters.
LEMMA PutAreaType ==
    ASSUME NEW a \in [0..(Capacity - 1) -> Nat], NEW n \in 0..Capacity
    PROVE  PutArea(a, n) \in Seq(Nat)
BY SizeAssumption DEF PutArea, Capacity

\* Nothing is left after a write that was taken whole.
LEMMA PutAreaEmpty ==
    ASSUME NEW a
    PROVE  PutArea(a, 0) = <<>>
BY DEF PutArea

\* A character behind the put area is the last of the longer one.
LEMMA PutAreaGrows ==
    ASSUME NEW a \in [0..(Capacity - 1) -> Nat], NEW n \in 0..(Capacity - 1), NEW c \in Nat
    PROVE  PutArea([a EXCEPT ![n] = c], n + 1) = PutArea(a, n) \o <<c>>
BY SizeAssumption DEF PutArea, Capacity

Characters(n) == [i \in 1..n |-> i]

\* One character more was put.
LEMMA OneMoreCharacter ==
    ASSUME NEW n \in Nat
    PROVE  Characters(n + 1) = Characters(n) \o <<n + 1>>
BY DEF Characters

\* The last character that was taken is put back.
LEMMA LastIsSplitOff ==
    ASSUME NEW t \in Seq(Nat), Len(t) # 0
    PROVE  /\ t = SubSeq(t, 1, Len(t) - 1) \o <<t[Len(t)]>>
           /\ SubSeq(t, 1, Len(t) - 1) \in Seq(Nat)
           /\ Len(SubSeq(t, 1, Len(t) - 1)) = Len(t) - 1
           /\ \A i \in 1..(Len(t) - 1) : SubSeq(t, 1, Len(t) - 1)[i] = t[i]
OBVIOUS

\* The next character of the get area is taken.
LEMMA NextIsSplitOff ==
    ASSUME NEW a \in Seq(Nat), NEW g \in 0..(Len(a) - 1)
    PROVE  SubSeq(a, g + 1, Len(a)) = <<a[g + 1]>> \o SubSeq(a, g + 2, Len(a))
OBVIOUS

\* A read splits what is on its way.
LEMMA PartsJoin ==
    ASSUME NEW r \in Seq(Nat), NEW n \in 1..Len(r)
    PROVE  /\ SubSeq(r, 1, n) \in Seq(Nat) /\ SubSeq(r, n + 1, Len(r)) \in Seq(Nat)
           /\ SubSeq(r, 1, n) \o SubSeq(r, n + 1, Len(r)) = r
OBVIOUS

\* What is unread of a whole area, and of one that was read.
LEMMA UnreadEnds ==
    ASSUME NEW a \in Seq(Nat)
    PROVE  SubSeq(a, 1, Len(a)) = a /\ SubSeq(a, Len(a) + 1, Len(a)) = <<>>
OBVIOUS

\* A step of the reader moves characters across the border of what was taken, one of
\* the writer across that of the put area.
LEMMA TakenMoves ==
    ASSUME NEW t \in Seq(Nat), NEW x \in Nat, NEW u \in Seq(Nat)
    PROVE  (t \o <<x>>) \o u = t \o (<<x>> \o u)
OBVIOUS

\* As much of a datagram as there is room for, and all of one that fits.
LEMMA AreaFilled ==
    ASSUME NEW r \in Seq(Nat), NEW m \in 0..Len(r)
    PROVE  [i \in 1..m |-> r[i]] \in Seq(Nat) /\ (m = Len(r) => [i \in 1..m |-> r[i]] = r)
<1>1. m \in Nat /\ \A i \in 1..m : r[i] \in Nat
    BY LenProperties, ElementOfSeq
<1>2. [i \in 1..m |-> r[i]] \in [1..m -> Nat]
    BY <1>1
<1>3. [i \in 1..m |-> r[i]] \in Seq(Nat)
    BY <1>1, <1>2, SeqDef
<1>4. [i \in 1..Len(r) |-> r[i]] = r
    OBVIOUS
<1> QED
    BY <1>3, <1>4

LEMMA Regrouped ==
    \A s, t, u \in Seq(Nat) : (s \o t) \o u = s \o (t \o u)
OBVIOUS

\* What is flushed was in the put area before.
LEMMA FlushMoves ==
    ASSUME NEW t \in Seq(Nat), NEW f \in Seq(Nat), NEW p \in Seq(Nat)
    PROVE  (t \o (f \o p)) \o <<>> = (t \o f) \o p
<1>1. f \o p \in Seq(Nat)
    BY ConcatProperties
<1>2. t \o (f \o p) \in Seq(Nat)
    BY <1>1, ConcatProperties
<1>3. (t \o (f \o p)) \o <<>> = t \o (f \o p)
    BY <1>2, ConcatEmptySeq
<1>4. t \o (f \o p) = (t \o f) \o p
    BY Regrouped
<1> QED
    BY <1>3, <1>4

-----------------------------------------------------------------------------
(* The invariant *)

\* Each failed write that was cleared leaves the put pointer one further at most, and
\* a writer that has not failed stores within that.
PointerKept == pptr <= Bufsize + clears /\ (good => pptr < Bufsize + clears)

\* What was taken from the get area is the last that was taken, so it can be put back.
TakenAgrees ==
    /\ gptr <= Len(taken)
    /\ \A i \in 1..gptr : taken[Len(taken) - gptr + i] = area[i]

IInv == TypeOK /\ PointerKept /\ TakenAgrees /\ Conserved /\ StaysInArray

\* Where each character is, in order.
Known == taken \o Unread
Everything == Known \o FlattenSeq(net) \o PutArea(array, pptr)

\* What a get area has behind its pointer.
LEMMA RestType ==
    ASSUME NEW a \in Seq(Nat), NEW g \in 0..Len(a)
    PROVE  SubSeq(a, g + 1, Len(a)) \in Seq(Nat)
OBVIOUS

LEMMA KnownType ==
    ASSUME TypeOK
    PROVE  Unread \in Seq(Nat) /\ Known \in Seq(Nat)
<1>1. /\ area \in Seq(Nat) /\ taken \in Seq(Nat) /\ gptr \in 0..Len(area)
    BY DEF TypeOK
<1>2. SubSeq(area, gptr + 1, Len(area)) \in Seq(Nat)
    BY <1>1, RestType
<1>3. \A s, t \in Seq(Nat) : s \o t \in Seq(Nat)
    BY ConcatProperties
<1> QED
    BY <1>1, <1>2, <1>3 DEF Unread, Known

LEMMA KnownTypeNext ==
    ASSUME TypeOK'
    PROVE  Unread' \in Seq(Nat)
<1>1. area' \in Seq(Nat) /\ gptr' \in 0..Len(area')
    BY DEF TypeOK
<1>2. SubSeq(area', gptr' + 1, Len(area')) \in Seq(Nat)
    BY <1>1, RestType
<1> QED
    BY <1>2 DEF Unread

\* The sizes of the areas.
LEMMA SizesAgree ==
    /\ Capacity \in Nat /\ Capacity = Bufsize + Putbacksize
    /\ Epptr \in Int /\ Epptr = Bufsize - 1
    /\ Room \in Nat
    /\ Bufsize \in Nat /\ Putbacksize \in Nat /\ Bufsize # 0
BY SizeAssumption DEF Capacity, Epptr, Room

\* What one read can take, for each kind of device.
LEMMA ReadableType ==
    ASSUME TypeOK
    PROVE  /\ Readable \in Seq(Nat)
           /\ net = <<>> => Readable = <<>>
           /\ net # <<>> => /\ net[1] \in Seq(Nat) /\ Head(net) = net[1]
                            /\ Tail(net) \in Seq(Seq(Nat))
           /\ net # <<>> /\ device = "stream" => Readable = FlattenSeq(net)
           /\ net # <<>> /\ device = "datagram" => Readable = net[1]
<1>1. net \in Seq(Seq(Nat)) /\ device \in {"none", "stream", "datagram"}
    BY DEF TypeOK
<1>2. CASE net = <<>>
  <2>1. FlattenSeq(net) = <<>>
    BY <1>2, EmptySeq DEF FlattenSeq
  <2>2. Readable = <<>>
    BY <1>2, <2>1 DEF Readable
  <2> QED
    BY <1>2, <2>2, EmptySeq
<1>3. CASE net # <<>>
  <2>1. net[1] \in Seq(Nat) /\ Head(net) = net[1] /\ Tail(net) \in Seq(Seq(Nat))
    BY <1>1, <1>3, HeadTailProperties
  <2>2. FlattenSeq(net) \in Seq(Nat)
    BY <1>1, FlattenType
  <2>3. Readable = IF device = "stream" THEN FlattenSeq(net) ELSE net[1]
    BY <1>3 DEF Readable
  <2> QED
    BY <1>3, <2>1, <2>2, <2>3
<1> QED
    BY <1>2, <1>3

\* A write that succeeds, falls short, or fails.
LEMMA SyncCases ==
    ASSUME TypeOK, NEW a \in [0..(Capacity - 1) -> Nat], NEW p \in 0..Capacity, Sync(a, p)
    PROVE  /\ array' = a
           /\ \/ /\ net' = Append(net, PutArea(a, p)) /\ pptr' = 0 /\ good' = good /\ past' = past
              \/ /\ net' \in Seq(Seq(Nat)) /\ pptr' \in 0..Capacity /\ pptr' < p /\ good' = good
                 /\ past' = past \union {"short"}
              \/ /\ net' = net /\ pptr' = p /\ good' = FALSE /\ past' = past
           /\ PutArea(a, p) \in Seq(Nat)
           /\ net' \in Seq(Seq(Nat))
           /\ pptr' \in 0..Capacity
<1>1. PutArea(a, p) \in Seq(Nat)
    BY PutAreaType
<1>2. net \in Seq(Seq(Nat))
    BY DEF TypeOK
<1>3. CASE /\ net' = Append(net, PutArea(a, p)) /\ pptr' = 0 /\ UNCHANGED <<good, past>>
  <2>1. net' \in Seq(Seq(Nat))
    BY <1>1, <1>2, <1>3, AppendProperties
  <2> QED
    BY <1>1, <1>3, <2>1, SizesAgree DEF Sync
<1>4. CASE \E n \in 1..(p - 1) : /\ net' = Append(net, PutArea(a, n))
                                 /\ pptr' = p - n
                                 /\ past' = past \union {"short"}
                                 /\ UNCHANGED good
  <2>1. PICK n \in 1..(p - 1) : /\ net' = Append(net, PutArea(a, n)) /\ pptr' = p - n
                                /\ past' = past \union {"short"} /\ UNCHANGED good
    BY <1>4
  <2>2. n \in 0..Capacity /\ pptr' \in 0..Capacity /\ pptr' < p
    BY <2>1, SizesAgree
  <2>3. PutArea(a, n) \in Seq(Nat)
    BY <2>2, PutAreaType
  <2>4. net' \in Seq(Seq(Nat))
    BY <1>2, <2>1, <2>3, AppendProperties
  <2> QED
    BY <1>1, <2>1, <2>2, <2>4 DEF Sync
<1>5. CASE pptr' = p /\ good' = FALSE /\ UNCHANGED <<net, past>>
    BY <1>1, <1>2, <1>5 DEF Sync
<1> QED
    BY <1>3, <1>4, <1>5 DEF Sync

\* The array that overflow() writes from, and the length of its put area.
LEMMA OverflowArea ==
    ASSUME TypeOK, pptr < Capacity
    PROVE  /\ Store(count + 1) \in [0..(Capacity - 1) -> Nat]
           /\ pptr + 1 \in 0..Capacity
           /\ PutArea(array, pptr) \in Seq(Nat)
           /\ PutArea(Store(count + 1), pptr + 1) = PutArea(array, pptr) \o <<count + 1>>
<1>1. /\ array \in [0..(Capacity - 1) -> Nat] /\ pptr \in 0..(Capacity - 1)
      /\ pptr \in 0..Capacity /\ count + 1 \in Nat
    BY SizesAgree DEF TypeOK
<1>2. Store(count + 1) \in [0..(Capacity - 1) -> Nat] /\ pptr + 1 \in 0..Capacity
    BY <1>1, SizesAgree DEF Store
<1>3. PutArea(array, pptr) \in Seq(Nat)
    BY <1>1, PutAreaType
<1>4. PutArea(Store(count + 1), pptr + 1) = PutArea(array, pptr) \o <<count + 1>>
    BY <1>1, PutAreaGrows DEF Store
<1> QED
    BY <1>2, <1>3, <1>4

-----------------------------------------------------------------------------
(* Each action keeps it *)

\* Nothing has been put.
LEMMA InitHolds == Init => IInv
<1> SUFFICES ASSUME Init PROVE IInv
    OBVIOUS
<1>1. TypeOK
    BY SizesAgree, EmptySeq DEF Init, TypeOK
<1>2. PointerKept /\ TakenAgrees /\ StaysInArray
    BY SizesAgree, EmptySeq DEF Init, PointerKept, TakenAgrees, StaysInArray
<1>3. Conserved
  <2>1. Unread = <<>> /\ FlattenSeq(net) = <<>> /\ PutArea(array, pptr) = <<>>
    BY EmptySeq, PutAreaEmpty DEF Init, Unread, FlattenSeq
  <2>2. Characters(count) = <<>>
    BY DEF Init, Characters
  <2>3. Everything = <<>>
    BY <2>1 DEF Everything, Known, Init
  <2> QED
    BY <2>2, <2>3 DEF Conserved, Everything, Known, Characters
<1> QED
    BY <1>1, <1>2, <1>3 DEF IInv

\* The put area with one character more is written.
LEMMA OverflowKeeps == ASSUME IInv, Overflow PROVE IInv'
<1> DEFINE c == <<count + 1>>
           p == PutArea(array, pptr)
           a == Store(count + 1)
<1>1. TypeOK /\ PointerKept /\ TakenAgrees /\ Conserved /\ StaysInArray
    BY DEF IInv
<1>2. /\ good /\ pptr < Capacity /\ pptr >= Epptr /\ Sync(a, pptr + 1) /\ count' = count + 1
      /\ UNCHANGED <<device, clears, area, gptr, ready, taken>>
    BY DEF Overflow, reader
<1>3. /\ a \in [0..(Capacity - 1) -> Nat] /\ pptr + 1 \in 0..Capacity
      /\ p \in Seq(Nat) /\ PutArea(a, pptr + 1) = p \o c
    BY <1>1, <1>2, OverflowArea
<1> HIDE DEF a
<1>4. /\ array' = a /\ net' \in Seq(Seq(Nat)) /\ pptr' \in 0..Capacity
      /\ \/ /\ net' = Append(net, PutArea(a, pptr + 1))
            /\ pptr' = 0 /\ good' = good /\ past' = past
         \/ /\ pptr' < pptr + 1 /\ good' = good /\ past' = past \union {"short"}
         \/ /\ net' = net /\ pptr' = pptr + 1 /\ good' = FALSE /\ past' = past
    BY <1>1, <1>2, <1>3, SyncCases
<1>5. /\ pptr \in Nat /\ clears \in Nat /\ pptr < Bufsize + clears
      /\ count \in Nat /\ net \in Seq(Seq(Nat)) /\ past \subseteq {"short", "cut", "overrun"}
      /\ good \in BOOLEAN /\ taken \in Seq(Nat) /\ area \in Seq(Nat) /\ gptr \in 0..Len(area)
    BY <1>1, <1>2 DEF TypeOK, PointerKept
<1>6. TypeOK'
  <2>1. good' \in BOOLEAN /\ past' \subseteq {"short", "cut", "overrun"}
    BY <1>4, <1>5
  <2> QED
    BY <1>1, <1>2, <1>3, <1>4, <2>1 DEF TypeOK
<1>7. PointerKept'
  <2>1. pptr' \in Int /\ (pptr' < pptr + 1 \/ (pptr' = pptr + 1 /\ ~ good') \/ pptr' = 0)
    BY <1>4
  <2> QED
    BY <1>2, <1>5, <2>1, SizesAgree DEF PointerKept
<1>8. TakenAgrees' /\ StaysInArray'
    BY <1>1, <1>2, <1>4 DEF TakenAgrees, StaysInArray
<1>9. Conserved'
  <2> SUFFICES ASSUME past' = {}
               PROVE  Known' \o FlattenSeq(net') \o PutArea(array', pptr') = Characters(count')
    BY DEF Conserved, Known, Characters
  <2>1. past = {} /\ Known' = Known
    BY <1>2, <1>4 DEF Known, Unread
  <2>2. Known \o FlattenSeq(net) \o p = Characters(count)
    BY <1>1, <2>1 DEF Conserved, Known, Characters
  <2>3. Characters(count') = Characters(count) \o c
    BY <1>2, <1>5, OneMoreCharacter
  <2>4. FlattenSeq(net) \in Seq(Nat) /\ Known \in Seq(Nat)
    BY <1>1, <1>5, FlattenType, KnownType
  <2> DEFINE f == FlattenSeq(net)
             t == Known
  <2>5. f \in Seq(Nat) /\ t \in Seq(Nat) /\ p \in Seq(Nat) /\ c \in Seq(Nat)
    BY <1>3, <1>5, <2>4
  <2> HIDE DEF c, f, p, t
  <2>6. (t \o f) \o (p \o c) = ((t \o f) \o p) \o c
    <3> DEFINE q == t \o f
    <3>1. q \in Seq(Nat)
      BY <2>5, ConcatProperties
    <3> HIDE DEF q
    <3>2. q \o (p \o c) = (q \o p) \o c
      BY <2>5, <3>1, Regrouped
    <3> QED
      BY <3>2 DEF q
  <2>7. ((t \o f) \o p) \o c = Characters(count')
    BY <2>2, <2>3 DEF f, t
  <2>8. CASE net' = Append(net, PutArea(a, pptr + 1)) /\ pptr' = 0
    <3>1. FlattenSeq(net') = f \o (p \o c)
      <4>1. p \o c \in Seq(Nat)
        BY <2>5, ConcatProperties
      <4> QED
        BY <1>3, <1>5, <2>8, <4>1, FlattenAppend DEF f
    <3>2. PutArea(array', pptr') = <<>>
      BY <2>8, PutAreaEmpty
    <3>3. (t \o (f \o (p \o c))) \o <<>> = (t \o f) \o (p \o c)
      <4> DEFINE q == p \o c
      <4>1. q \in Seq(Nat)
        BY <2>5, ConcatProperties
      <4> HIDE DEF q
      <4>2. (t \o (f \o q)) \o <<>> = (t \o f) \o q
        BY <2>5, <4>1, FlushMoves
      <4> QED
        BY <4>2 DEF q
    <3> QED
      BY <2>1, <2>6, <2>7, <3>1, <3>2, <3>3 DEF t
  <2>9. CASE net' = net /\ pptr' = pptr + 1
    <3>1. FlattenSeq(net') = f /\ PutArea(array', pptr') = p \o c
      BY <1>3, <1>4, <2>9 DEF f
    <3> QED
      BY <2>1, <2>6, <2>7, <3>1 DEF t
  <2> QED
    BY <1>4, <2>8, <2>9
<1> QED
    BY <1>6, <1>7, <1>8, <1>9 DEF IInv

\* The put area is written as it is.
LEMMA FlushKeeps == ASSUME IInv, Flush PROVE IInv'
<1> DEFINE p == PutArea(array, pptr)
<1>1. TypeOK /\ PointerKept /\ TakenAgrees /\ Conserved /\ StaysInArray
    BY DEF IInv
<1>2. /\ good /\ Sync(array, pptr)
      /\ UNCHANGED <<device, clears, count, area, gptr, ready, taken>>
    BY DEF Flush, reader
<1>3. /\ array \in [0..(Capacity - 1) -> Nat] /\ pptr \in 0..Capacity
      /\ pptr \in Nat /\ clears \in Nat /\ pptr < Bufsize + clears
      /\ net \in Seq(Seq(Nat)) /\ past \subseteq {"short", "cut", "overrun"} /\ good \in BOOLEAN
    BY <1>1, <1>2 DEF TypeOK, PointerKept
<1>4. /\ array' = array /\ net' \in Seq(Seq(Nat)) /\ pptr' \in 0..Capacity /\ p \in Seq(Nat)
      /\ \/ /\ net' = Append(net, p) /\ pptr' = 0 /\ good' = good /\ past' = past
         \/ /\ pptr' < pptr /\ good' = good /\ past' = past \union {"short"}
         \/ /\ net' = net /\ pptr' = pptr /\ good' = FALSE /\ past' = past
    BY <1>1, <1>2, <1>3, SyncCases
<1> HIDE DEF p
<1>5. TypeOK'
  <2>1. good' \in BOOLEAN /\ past' \subseteq {"short", "cut", "overrun"}
    BY <1>3, <1>4
  <2> QED
    BY <1>1, <1>2, <1>4, <2>1 DEF TypeOK
<1>6. PointerKept'
  <2>1. pptr' \in Int /\ (pptr' <= pptr \/ pptr' = 0)
    BY <1>3, <1>4
  <2> QED
    BY <1>2, <1>3, <2>1, SizesAgree DEF PointerKept
<1>7. TakenAgrees' /\ StaysInArray'
    BY <1>1, <1>2, <1>4 DEF TakenAgrees, StaysInArray
<1>8. Conserved'
  <2> SUFFICES ASSUME past' = {}
               PROVE  Known' \o FlattenSeq(net') \o PutArea(array', pptr') = Characters(count')
    BY DEF Conserved, Known, Characters
  <2>1. past = {} /\ Known' = Known /\ count' = count
    BY <1>2, <1>4 DEF Known, Unread
  <2> DEFINE f == FlattenSeq(net)
             t == Known
  <2>2. (t \o f) \o p = Characters(count')
    BY <1>1, <2>1 DEF Conserved, Known, Characters, p
  <2>3. f \in Seq(Nat) /\ t \in Seq(Nat) /\ p \in Seq(Nat)
    BY <1>1, <1>3, <1>4, FlattenType, KnownType
  <2> HIDE DEF f, t
  <2>4. CASE net' = Append(net, p) /\ pptr' = 0
    <3>1. FlattenSeq(net') = f \o p
      BY <1>3, <1>4, <2>4, FlattenAppend DEF f
    <3>2. PutArea(array', pptr') = <<>>
      BY <2>4, PutAreaEmpty
    <3>3. (t \o (f \o p)) \o <<>> = (t \o f) \o p
      BY <2>3, FlushMoves
    <3> QED
      BY <2>1, <2>2, <3>1, <3>2, <3>3 DEF t
  <2>5. CASE net' = net /\ pptr' = pptr
    BY <1>4, <2>1, <2>2, <2>5 DEF f, p, t
  <2> QED
    BY <1>4, <2>4, <2>5
<1> QED
    BY <1>5, <1>6, <1>7, <1>8 DEF IInv

\* A character in the put area, without a write.
LEMMA PutKeeps == ASSUME IInv, Put PROVE IInv'
<1> DEFINE c == <<count + 1>>
           p == PutArea(array, pptr)
<1>1. TypeOK /\ PointerKept /\ TakenAgrees /\ Conserved /\ StaysInArray
    BY DEF IInv
<1>2. /\ good /\ pptr < Epptr
      /\ array' = Store(count + 1) /\ pptr' = pptr + 1 /\ count' = count + 1
      /\ UNCHANGED <<device, good, clears, net, area, gptr, ready, taken, past>>
    BY DEF Put, reader
<1>3. /\ pptr \in Nat /\ clears \in Nat /\ count \in Nat
      /\ pptr < Capacity /\ net \in Seq(Seq(Nat))
    BY <1>1, <1>2, SizesAgree DEF TypeOK
<1>4. /\ array' \in [0..(Capacity - 1) -> Nat] /\ pptr' \in 0..Capacity
      /\ p \in Seq(Nat) /\ PutArea(array', pptr') = p \o c
    BY <1>1, <1>2, <1>3, OverflowArea
<1>5. TypeOK'
    BY <1>1, <1>2, <1>3, <1>4 DEF TypeOK
<1>6. PointerKept' /\ TakenAgrees' /\ StaysInArray'
    BY <1>1, <1>2, <1>3, SizesAgree DEF PointerKept, TakenAgrees, StaysInArray
<1>7. Conserved'
  <2> SUFFICES ASSUME past = {}
               PROVE  Known \o FlattenSeq(net) \o (p \o c) = Characters(count')
    BY <1>2, <1>4 DEF Conserved, Known, Unread, Characters
  <2>1. Characters(count') = Characters(count) \o c
    BY <1>2, <1>3, OneMoreCharacter
  <2>2. Known \o FlattenSeq(net) \o p = Characters(count)
    BY <1>1 DEF Conserved, Known, Characters
  <2> DEFINE f == FlattenSeq(net)
             t == Known
  <2>3. f \in Seq(Nat) /\ t \in Seq(Nat) /\ p \in Seq(Nat) /\ c \in Seq(Nat)
    BY <1>1, <1>3, <1>4, FlattenType, KnownType
  <2> HIDE DEF c, f, p, t
  <2>4. (t \o f) \o (p \o c) = ((t \o f) \o p) \o c
    <3> DEFINE q == t \o f
    <3>1. q \in Seq(Nat)
      BY <2>3, ConcatProperties
    <3> HIDE DEF q
    <3>2. q \o (p \o c) = (q \o p) \o c
      BY <2>3, <3>1, Regrouped
    <3> QED
      BY <3>2 DEF q
  <2> QED
    BY <2>1, <2>2, <2>4 DEF f, t
<1> QED
    BY <1>5, <1>6, <1>7 DEF IInv

\* The put pointer has left the array only after so many failures were cleared.
LEMMA OverrunKeeps == ASSUME IInv, Overrun PROVE IInv'
<1>1. TypeOK /\ PointerKept /\ TakenAgrees
    BY DEF IInv
<1>2. /\ good /\ pptr >= Capacity /\ count' = count + 1 /\ good' = FALSE
      /\ past' = past \union {"overrun"}
      /\ UNCHANGED <<device, array, pptr, clears, net, area, gptr, ready, taken>>
    BY DEF Overrun, reader
<1>3. TypeOK'
  <2>1. past' \subseteq {"short", "cut", "overrun"} /\ count' \in Nat
    BY <1>1, <1>2 DEF TypeOK
  <2> QED
    BY <1>1, <1>2, <2>1 DEF TypeOK
<1>4. PointerKept' /\ TakenAgrees' /\ Conserved'
    BY <1>1, <1>2 DEF PointerKept, TakenAgrees, Conserved
<1>5. StaysInArray'
  <2>1. pptr \in Nat /\ clears \in Nat /\ pptr < Bufsize + clears
    BY <1>1, <1>2 DEF TypeOK, PointerKept
  <2> QED
    BY <1>2, <2>1, SizesAgree DEF StaysInArray
<1> QED
    BY <1>3, <1>4, <1>5 DEF IInv

\* One failure more is cleared.
LEMMA ClearKeeps == ASSUME IInv, Clear PROVE IInv'
<1>1. TypeOK /\ PointerKept /\ TakenAgrees /\ Conserved /\ StaysInArray
    BY DEF IInv
<1>2. /\ good' = TRUE /\ clears' = clears + 1
      /\ UNCHANGED <<device, array, pptr, count, net, area, gptr, ready, taken, past>>
    BY DEF Clear, reader
<1>3. pptr \in Nat /\ clears \in Nat
    BY <1>1 DEF TypeOK
<1>4. TypeOK' /\ TakenAgrees'
    BY <1>1, <1>2, <1>3 DEF TypeOK, TakenAgrees
<1>5. PointerKept' /\ StaysInArray'
    BY <1>1, <1>2, <1>3, SizesAgree DEF PointerKept, StaysInArray
<1>6. Conserved'
    BY <1>1, <1>2 DEF Conserved, Unread
<1> QED
    BY <1>4, <1>5, <1>6 DEF IInv

\* These change none of the areas.
LEMMA OpenKeeps == ASSUME IInv, Open PROVE IInv'
<1>1. TypeOK /\ PointerKept /\ TakenAgrees /\ Conserved /\ StaysInArray
    BY DEF IInv
<1>2. /\ device' \in {"stream", "datagram"}
      /\ UNCHANGED <<array, pptr, good, clears, count, net, area, gptr, ready, taken, past>>
    BY DEF Open, writer, reader
<1>3. TypeOK' /\ PointerKept' /\ TakenAgrees' /\ StaysInArray'
    BY <1>1, <1>2 DEF TypeOK, PointerKept, TakenAgrees, StaysInArray
<1>4. Conserved'
    BY <1>1, <1>2 DEF Conserved, Unread
<1> QED
    BY <1>3, <1>4 DEF IInv

LEMMA ClearReaderKeeps == ASSUME IInv, ClearReader PROVE IInv'
<1>1. TypeOK /\ PointerKept /\ TakenAgrees /\ Conserved /\ StaysInArray
    BY DEF IInv
<1>2. /\ ready' = TRUE
      /\ UNCHANGED <<device, array, pptr, good, clears, count, net, area, gptr, taken, past>>
    BY DEF ClearReader, writer
<1>3. TypeOK' /\ PointerKept' /\ TakenAgrees' /\ StaysInArray'
    BY <1>1, <1>2 DEF TypeOK, PointerKept, TakenAgrees, StaysInArray
<1>4. Conserved'
    BY <1>1, <1>2 DEF Conserved, Unread
<1> QED
    BY <1>3, <1>4 DEF IInv

\* One character more of the get area is taken.
LEMMA GetKeeps == ASSUME IInv, Get PROVE IInv'
<1>1. TypeOK /\ PointerKept /\ TakenAgrees /\ Conserved /\ StaysInArray
    BY DEF IInv
<1>2. /\ gptr < Len(area) /\ taken' = Append(taken, area[gptr + 1]) /\ gptr' = gptr + 1
      /\ UNCHANGED <<device, array, pptr, good, clears, count, net, area, ready, past>>
    BY DEF Get, writer
<1>3. /\ area \in Seq(Nat) /\ Len(area) \in Nat /\ taken \in Seq(Nat) /\ Len(taken) \in Nat
      /\ gptr \in 0..(Len(area) - 1) /\ gptr \in Nat
      /\ area[gptr + 1] \in Nat
    BY <1>1, <1>2, LenProperties, ElementOfSeq DEF TypeOK
<1> DEFINE x == area[gptr + 1]
<1>4. /\ taken' \in Seq(Nat) /\ taken' = taken \o <<x>> /\ Len(taken') = Len(taken) + 1
      /\ \A i \in 1..Len(taken) : taken'[i] = taken[i]
      /\ taken'[Len(taken) + 1] = x
    BY <1>2, <1>3, AppendProperties, AppendIsConcat
<1>5. TypeOK'
    BY <1>1, <1>2, <1>3, <1>4 DEF TypeOK
<1>6. TakenAgrees'
  <2>1. gptr' <= Len(taken')
    BY <1>1, <1>2, <1>3, <1>4 DEF TakenAgrees
  <2>2. ASSUME NEW i \in 1..gptr'
        PROVE  taken'[Len(taken') - gptr' + i] = area'[i]
    <3>1. Len(taken') - gptr' + i = Len(taken) - gptr + i /\ i \in Nat
      BY <1>2, <1>3, <1>4
    <3>2. CASE i = gptr + 1
      <4>1. Len(taken) - gptr + i = Len(taken) + 1
        BY <1>3, <3>2
      <4> QED
        BY <1>2, <1>4, <3>1, <3>2, <4>1
    <3>3. CASE i # gptr + 1
      <4>1. i \in 1..gptr /\ gptr <= Len(taken)
        BY <1>1, <1>2, <1>3, <3>3 DEF TakenAgrees
      <4>2. Len(taken) - gptr + i \in 1..Len(taken)
        BY <1>3, <4>1
      <4>3. taken[Len(taken) - gptr + i] = area[i]
        BY <1>1, <4>1 DEF TakenAgrees
      <4> QED
        BY <1>2, <1>4, <3>1, <4>2, <4>3
    <3> QED
      BY <3>2, <3>3
  <2> QED
    BY <2>1, <2>2 DEF TakenAgrees
<1>7. PointerKept' /\ StaysInArray'
    BY <1>1, <1>2 DEF PointerKept, StaysInArray
<1>8. Known' = Known
  <2>1. Unread = <<x>> \o Unread'
    <3>1. SubSeq(area, gptr + 1, Len(area)) = <<x>> \o SubSeq(area, gptr + 2, Len(area))
      BY <1>3, NextIsSplitOff
    <3>2. gptr' + 1 = gptr + 2
      BY <1>2, <1>3
    <3> QED
      BY <1>2, <3>1, <3>2 DEF Unread
  <2> DEFINE u == Unread'
  <2>2. u \in Seq(Nat) /\ x \in Nat
    BY <1>3, <1>5, KnownTypeNext
  <2> HIDE DEF u, x
  <2>3. (taken \o <<x>>) \o u = taken \o (<<x>> \o u)
    BY <1>3, <2>2, TakenMoves
  <2> QED
    BY <1>4, <2>1, <2>3 DEF Known, u
<1>9. Conserved'
    BY <1>1, <1>2, <1>8 DEF Conserved, Known
<1> QED
    BY <1>5, <1>6, <1>7, <1>9 DEF IInv

\* The last character that was taken is put back; the get area still has it.
LEMMA UngetKeeps == ASSUME IInv, Unget PROVE IInv'
<1> DEFINE x == area[gptr]
           n == Len(taken)
           t == SubSeq(taken, 1, n - 1)
<1>1. TypeOK /\ PointerKept /\ TakenAgrees /\ Conserved /\ StaysInArray
    BY DEF IInv
<1>2. /\ gptr > 0 /\ taken' = t /\ gptr' = gptr - 1
      /\ UNCHANGED <<device, array, pptr, good, clears, count, net, area, ready, past>>
    BY DEF Unget, writer
<1>3. /\ area \in Seq(Nat) /\ Len(area) \in Nat /\ taken \in Seq(Nat) /\ n \in Nat
      /\ gptr \in 1..Len(area) /\ gptr <= n /\ x \in Nat
    BY <1>1, <1>2, LenProperties, ElementOfSeq DEF TypeOK, TakenAgrees
<1>4. taken[n] = x
  <2>1. gptr \in 1..gptr /\ n - gptr + gptr = n
    BY <1>3
  <2>2. taken[n - gptr + gptr] = area[gptr]
    BY <1>1, <2>1 DEF TakenAgrees
  <2> QED
    BY <2>1, <2>2
<1>5. /\ taken = t \o <<x>> /\ t \in Seq(Nat) /\ Len(t) = n - 1
      /\ \A i \in 1..(n - 1) : t[i] = taken[i]
  <2>1. Len(taken) # 0
    BY <1>3
  <2> QED
    BY <1>3, <1>4, <2>1, LastIsSplitOff
<1> HIDE DEF t
<1>6. TypeOK'
  <2>1. gptr' \in 0..Len(area)
    BY <1>2, <1>3
  <2> QED
    BY <1>1, <1>2, <1>5, <2>1 DEF TypeOK
<1>7. TakenAgrees'
  <2>1. gptr' <= Len(taken')
    BY <1>2, <1>3, <1>5
  <2>2. ASSUME NEW i \in 1..gptr'
        PROVE  taken'[Len(taken') - gptr' + i] = area'[i]
    <3> DEFINE k == n - gptr + i
    <3>1. Len(taken') - gptr' + i = k /\ i \in 1..gptr /\ k \in 1..(n - 1)
      BY <1>2, <1>3, <1>5
    <3>2. taken[k] = area[i]
      BY <1>1, <3>1 DEF TakenAgrees
    <3>3. t[k] = taken[k]
      BY <1>5, <3>1
    <3> HIDE DEF k, n
    <3> QED
      BY <1>2, <3>1, <3>2, <3>3
  <2> QED
    BY <2>1, <2>2 DEF TakenAgrees
<1>8. PointerKept' /\ StaysInArray'
    BY <1>1, <1>2 DEF PointerKept, StaysInArray
<1>9. Known' = Known
  <2>1. Unread' = <<x>> \o Unread
    <3>1. gptr - 1 \in 0..(Len(area) - 1) /\ (gptr - 1) + 1 = gptr /\ (gptr - 1) + 2 = gptr + 1
      BY <1>3
    <3>2. SubSeq(area, (gptr - 1) + 1, Len(area)) =
            <<area[(gptr - 1) + 1]>> \o SubSeq(area, (gptr - 1) + 2, Len(area))
      BY <1>3, <3>1, NextIsSplitOff
    <3> QED
      BY <1>2, <3>1, <3>2 DEF Unread
  <2> DEFINE u == Unread
  <2>2. u \in Seq(Nat) /\ x \in Nat
    BY <1>1, <1>3, KnownType
  <2> HIDE DEF u, x
  <2>3. (t \o <<x>>) \o u = t \o (<<x>> \o u)
    BY <1>5, <2>2, TakenMoves
  <2> QED
    BY <1>2, <1>5, <2>1, <2>3 DEF Known, u
<1>10. Conserved'
    BY <1>1, <1>2, <1>9 DEF Conserved, Known
<1> QED
    BY <1>6, <1>7, <1>8, <1>10 DEF IInv

\* A read fills the area that was used up with what comes first of what is on its way.
LEMMA RefillKeeps ==
    ASSUME IInv, NEW r \in Seq(Nat), NEW rest \in Seq(Seq(Nat)),
           gptr = Len(area), area' = r, gptr' = 0, net' = rest,
           UNCHANGED <<device, array, pptr, good, clears, count, ready, taken>>,
           past' \in SUBSET {"short", "cut", "overrun"}, past \subseteq past',
           "overrun" \in past' => "overrun" \in past,
           past' = {} => FlattenSeq(net) = r \o FlattenSeq(rest)
    PROVE  IInv'
<1>1. TypeOK /\ PointerKept /\ TakenAgrees /\ Conserved /\ StaysInArray
    BY DEF IInv
<1>2. TypeOK'
  <2>1. gptr' \in 0..Len(area')
    BY LenProperties
  <2> QED
    BY <1>1, <2>1 DEF TypeOK
<1>3. PointerKept' /\ StaysInArray'
    BY <1>1 DEF PointerKept, StaysInArray
<1>4. TakenAgrees'
    BY <1>1, LenProperties DEF TakenAgrees, TypeOK
<1>5. Conserved'
  <2> SUFFICES ASSUME past' = {}
               PROVE  (taken \o Unread') \o FlattenSeq(rest) =
                       (taken \o Unread) \o FlattenSeq(net)
    BY <1>1 DEF Conserved
  <2>1. /\ area \in Seq(Nat) /\ taken \in Seq(Nat) /\ net \in Seq(Seq(Nat))
    BY <1>1 DEF TypeOK
  <2>2. Unread = <<>> /\ Unread' = r
    <3>1. SubSeq(area, Len(area) + 1, Len(area)) = <<>>
      BY <2>1, UnreadEnds
    <3>2. SubSeq(r, 1, Len(r)) = r
      BY UnreadEnds
    <3> QED
      BY <3>1, <3>2 DEF Unread
  <2> DEFINE f == FlattenSeq(net)
             g == FlattenSeq(rest)
  <2>3. f \in Seq(Nat) /\ g \in Seq(Nat) /\ f = r \o g
    BY <2>1, FlattenType
  <2> HIDE DEF f, g
  <2>4. (taken \o <<>>) \o f = (taken \o r) \o g
    <3>1. taken \o <<>> = taken
      BY <2>1, ConcatEmptySeq
    <3>2. taken \o (r \o g) = (taken \o r) \o g
      BY <2>1, <2>3, Regrouped
    <3> QED
      BY <2>3, <3>1, <3>2
  <2> QED
    BY <2>2, <2>4 DEF f, g
<1> QED
    BY <1>2, <1>3, <1>4, <1>5 DEF IInv

\* A stream gives any part of what has come.
LEMMA UnderflowStreamKeeps == ASSUME IInv, UnderflowStream PROVE IInv'
<1>1. TypeOK
    BY DEF IInv
<1>2. /\ device = "stream" /\ gptr = Len(area)
      /\ UNCHANGED <<device, array, pptr, good, clears, count, ready, taken, past>>
    BY DEF UnderflowStream, Refill, writer
<1> DEFINE R == Readable
<1>3. PICK n \in 1..Room : /\ n <= Len(R) /\ area' = SubSeq(R, 1, n) /\ gptr' = 0
                           /\ net' = <<SubSeq(R, n + 1, Len(R))>>
    BY DEF UnderflowStream, Refill
<1>4. R \in Seq(Nat) /\ net # <<>> /\ R = FlattenSeq(net)
  <2>1. R \in Seq(Nat) /\ (net = <<>> => R = <<>>)
        /\ (net # <<>> => R = FlattenSeq(net))
    BY <1>1, <1>2, ReadableType
  <2>2. Room \in Nat /\ Len(<<>>) = 0
    BY SizesAgree, EmptySeq
  <2> QED
    BY <1>3, <2>1, <2>2
<1> HIDE DEF R
<1>5. n \in 1..Len(R)
    BY <1>3, <1>4, SizesAgree, LenProperties
<1> DEFINE a == SubSeq(R, 1, n)
           b == SubSeq(R, n + 1, Len(R))
<1>6. a \in Seq(Nat) /\ b \in Seq(Nat) /\ a \o b = R
    BY <1>4, <1>5, PartsJoin
<1>7. area' = a /\ net' = <<b>>
    BY <1>3
<1> HIDE DEF a, b
<1>8. FlattenSeq(<<b>>) = b /\ <<b>> \in Seq(Seq(Nat))
    BY <1>6, FlattenOne
<1>9. FlattenSeq(net) = a \o FlattenSeq(<<b>>)
    BY <1>4, <1>6, <1>8
<1>10. past \in SUBSET {"short", "cut", "overrun"}
    BY <1>1 DEF TypeOK
<1> QED
    BY <1>2, <1>3, <1>6, <1>7, <1>8, <1>9, <1>10, RefillKeeps

\* A datagram that fits is read whole.
LEMMA UnderflowDatagramKeeps == ASSUME IInv, UnderflowDatagram PROVE IInv'
<1>1. TypeOK
    BY DEF IInv
<1> DEFINE R == Readable
           m == IF Len(R) > Room THEN Room ELSE Len(R)
           a == [i \in 1..m |-> R[i]]
<1>2. /\ device = "datagram" /\ gptr = Len(area) /\ R # <<>>
      /\ area' = a /\ gptr' = 0 /\ net' = Tail(net)
      /\ past' = IF Len(R) > Room THEN past \union {"cut"} ELSE past
      /\ UNCHANGED <<device, array, pptr, good, clears, count, ready, taken>>
    BY DEF UnderflowDatagram, Refill, writer
<1>3. /\ net \in Seq(Seq(Nat)) /\ net # <<>> /\ R \in Seq(Nat) /\ R = Head(net)
      /\ Tail(net) \in Seq(Seq(Nat))
    BY <1>1, <1>2, ReadableType DEF TypeOK
<1> HIDE DEF R
<1>4. m \in 0..Len(R)
    BY <1>3, SizesAgree, LenProperties
<1>5. a \in Seq(Nat) /\ (m = Len(R) => a = R)
  <2> HIDE DEF m
  <2> QED
    BY <1>3, <1>4, AreaFilled
<1>6. past' = {} => a = R
  <2>1. SUFFICES ASSUME ~ (Len(R) > Room) PROVE a = R
    BY <1>2
  <2>2. m = Len(R)
    BY <2>1
  <2> QED
    BY <1>5, <2>2
<1>7. FlattenSeq(net) = R \o FlattenSeq(Tail(net))
    BY <1>3, FlattenTail
<1>8. /\ past' \in SUBSET {"short", "cut", "overrun"} /\ past \subseteq past'
      /\ "overrun" \in past' => "overrun" \in past
    BY <1>1, <1>2 DEF TypeOK
<1> HIDE DEF a, m
<1>9. past' = {} => FlattenSeq(net) = a \o FlattenSeq(Tail(net))
    BY <1>6, <1>7
<1> QED
    BY <1>2, <1>3, <1>5, <1>8, <1>9, RefillKeeps

\* What is met as the end has no characters.
LEMMA EofKeeps == ASSUME IInv, Eof PROVE IInv'
<1>1. TypeOK /\ PointerKept /\ TakenAgrees /\ Conserved /\ StaysInArray
    BY DEF IInv
<1>2. /\ device # "none" /\ Readable = <<>> /\ ready' = FALSE
      /\ net' = IF net = <<>> THEN <<>> ELSE Tail(net)
      /\ UNCHANGED <<device, array, pptr, good, clears, count, area, gptr, taken, past>>
    BY DEF Eof, writer
<1>3. net \in Seq(Seq(Nat)) /\ device \in {"stream", "datagram"}
    BY <1>1, <1>2 DEF TypeOK
<1>4. net' \in Seq(Seq(Nat)) /\ FlattenSeq(net') = FlattenSeq(net)
  <2>1. CASE net = <<>>
    BY <1>2, <1>3, <2>1
  <2>2. CASE net # <<>>
    <3>1. net' = Tail(net) /\ Head(net) \in Seq(Nat) /\ Tail(net) \in Seq(Seq(Nat))
      BY <1>2, <1>3, <2>2, HeadTailProperties
    <3>2. FlattenSeq(net) = Head(net) \o FlattenSeq(Tail(net))
      BY <1>3, <2>2, FlattenTail
    <3> DEFINE h == Head(net)
               g == FlattenSeq(Tail(net))
    <3>3. h \in Seq(Nat) /\ g \in Seq(Nat)
      BY <3>1, FlattenType
    <3>4. h = <<>>
      <4>1. CASE device = "datagram"
        BY <1>1, <1>2, <2>2, <4>1, ReadableType
      <4>2. CASE device = "stream"
        <5>1. h \o g = <<>>
          BY <1>1, <1>2, <2>2, <3>2, <4>2, ReadableType
        <5> HIDE DEF h, g
        <5> QED
          BY <3>3, <5>1, ConcatEqualIffEmpty
      <4> QED
        BY <1>3, <4>1, <4>2
    <3> HIDE DEF h, g
    <3>5. h \o g = g
      BY <3>3, <3>4, ConcatEmptySeq
    <3> QED
      BY <3>1, <3>2, <3>5 DEF h, g
  <2> QED
    BY <2>1, <2>2
<1>5. TypeOK' /\ PointerKept' /\ TakenAgrees' /\ StaysInArray'
    BY <1>1, <1>2, <1>4 DEF TypeOK, PointerKept, TakenAgrees, StaysInArray
<1>6. Conserved'
    BY <1>1, <1>2, <1>4 DEF Conserved, Unread
<1> QED
    BY <1>5, <1>6 DEF IInv

\* Every step keeps the invariant.
LEMMA NextKeeps == IInv /\ [Next]_vars => IInv'
<1> SUFFICES ASSUME IInv, [Next]_vars PROVE IInv'
    OBVIOUS
<1>1. CASE UNCHANGED vars
    BY <1>1 DEF IInv, vars, writer, reader, TypeOK, PointerKept, TakenAgrees, Conserved,
       Unread,
       StaysInArray
<1>2. CASE Next
    BY <1>2, OpenKeeps, PutKeeps, OverflowKeeps, OverrunKeeps, FlushKeeps, ClearKeeps,
       GetKeeps,
       UngetKeeps, UnderflowStreamKeeps, UnderflowDatagramKeeps, EofKeeps, ClearReaderKeeps
       DEF Next
<1> QED
    BY <1>1, <1>2

-----------------------------------------------------------------------------
(* Theorems *)

\* The invariant holds for areas, characters, failures and packets of any number.
THEOREM Invariance == Spec => []IInv
BY InitHolds, NextKeeps, PTL DEF Spec

\* All pointers stay in their areas: basic_streambuf never reads or writes elsewhere,
\* but for the store that Overrun names.
THEOREM TypeCorrect == Spec => []TypeOK
<1>1. IInv => TypeOK
    BY DEF IInv
<1> QED
    BY <1>1, Invariance, PTL

\* overflow(), sync() and underflow() lose, double or exchange no character, whatever
\* fails and is tried again, as long as the device takes each write whole or not at all,
\* a datagram fits the reader's area and the writer stayed in its array.
THEOREM NothingLost == Spec => []Conserved
<1>1. IInv => Conserved
    BY DEF IInv
<1> QED
    BY <1>1, Invariance, PTL

\* Only a program that clears more failures than there is room for behind the put area
\* makes overflow() store behind the array.
THEOREM ArrayKept == Spec => []StaysInArray
<1>1. IInv => StaysInArray
    BY DEF IInv
<1> QED
    BY <1>1, Invariance, PTL
=============================================================================

--------------------------- MODULE SequenceLemmas ---------------------------
(***************************************************************************)
(* Facts about finite sequences and their sets of elements that the proofs *)
(* about the components share.                                             *)
(***************************************************************************)
EXTENDS Integers, Sequences, SequencesExt, SequenceFilter, SequenceTheorems,
        WellFoundedInduction, TLAPS

\* Appending adds one element at the end.
LEMMA AppendElements ==
    ASSUME NEW S, NEW s \in Seq(S), NEW e \in S
    PROVE  /\ Append(s, e) \in Seq(S)
           /\ Len(Append(s, e)) = Len(s) + 1
           /\ \A i \in 1 .. Len(s) : Append(s, e)[i] = s[i]
           /\ Append(s, e)[Len(s) + 1] = e
           /\ ToSet(Append(s, e)) = ToSet(s) \cup {e}
<1>1. Append(s, e) \in Seq(S) /\ Len(Append(s, e)) = Len(s) + 1
      /\ \A i \in 1 .. Len(s) : Append(s, e)[i] = s[i]
  OBVIOUS
<1>2. Append(s, e)[Len(s) + 1] = e
  OBVIOUS
<1>3. DOMAIN s = 1 .. Len(s) /\ Len(s) \in Nat
  OBVIOUS
<1>4. DOMAIN Append(s, e) = 1 .. Len(s) + 1
  BY <1>1
<1>5. ToSet(Append(s, e)) \subseteq ToSet(s) \cup {e}
  <2> SUFFICES ASSUME NEW i \in 1 .. Len(s) + 1
               PROVE  Append(s, e)[i] \in ToSet(s) \cup {e}
    BY <1>4 DEF ToSet
  <2>1. CASE i \in 1 .. Len(s)
    BY <2>1, <1>1, <1>3 DEF ToSet
  <2>2. CASE i = Len(s) + 1
    BY <2>2, <1>2
  <2> QED
    BY <2>1, <2>2, <1>3
<1>6. ToSet(s) \cup {e} \subseteq ToSet(Append(s, e))
  <2>1. ToSet(s) \subseteq ToSet(Append(s, e))
    BY <1>1, <1>3, <1>4 DEF ToSet
  <2>2. Len(s) + 1 \in DOMAIN Append(s, e)
    BY <1>3, <1>4
  <2>3. e \in ToSet(Append(s, e))
    BY <1>2, <2>2 DEF ToSet
  <2> QED
    BY <2>1, <2>3
<1> QED
  BY <1>1, <1>2, <1>5, <1>6

\* Sequences of no and of one element.
LEMMA FewElements ==
    ASSUME NEW S, NEW e \in S
    PROVE  /\ <<>> \in Seq(S) /\ ToSet(<<>>) = {} /\ Len(<<>>) = 0
           /\ <<e>> \in Seq(S) /\ ToSet(<<e>>) = {e} /\ Len(<<e>>) = 1 /\ <<e>>[1] = e
  BY DEF ToSet

\* A sequence that is not empty is its head before its tail.
LEMMA HeadAndTail ==
    ASSUME NEW S, NEW s \in Seq(S), s # <<>>
    PROVE  /\ Head(s) = s[1] /\ Head(s) \in S
           /\ Tail(s) \in Seq(S) /\ Len(s) = Len(Tail(s)) + 1
           /\ \A i \in 1 .. Len(Tail(s)) : Tail(s)[i] = s[i + 1]
           /\ ToSet(s) = {Head(s)} \cup ToSet(Tail(s))
<1>1. Len(s) \in Nat /\ Len(s) > 0 /\ DOMAIN s = 1 .. Len(s)
  OBVIOUS
<1>2. Head(s) = s[1] /\ Head(s) \in S
  BY <1>1
<1>3. Tail(s) \in Seq(S) /\ Len(s) = Len(Tail(s)) + 1
      /\ \A i \in 1 .. Len(Tail(s)) : Tail(s)[i] = s[i + 1]
  BY <1>1
<1>4. DOMAIN Tail(s) = 1 .. Len(Tail(s)) /\ Len(Tail(s)) \in Nat
  BY <1>3
<1>5. ToSet(s) \subseteq {Head(s)} \cup ToSet(Tail(s))
  <2> SUFFICES ASSUME NEW i \in 1 .. Len(s)
               PROVE  s[i] \in {Head(s)} \cup ToSet(Tail(s))
    BY <1>1 DEF ToSet
  <2>1. CASE i = 1
    BY <2>1, <1>2
  <2>2. CASE i > 1
    <3>1. i - 1 \in 1 .. Len(Tail(s)) /\ (i - 1) + 1 = i
      BY <2>2, <1>3, <1>4
    <3>2. s[i] = Tail(s)[i - 1]
      BY <3>1, <1>3
    <3> QED
      BY <3>1, <3>2, <1>4 DEF ToSet
  <2> QED
    BY <2>1, <2>2
<1>6. {Head(s)} \cup ToSet(Tail(s)) \subseteq ToSet(s)
  <2>1. Head(s) \in ToSet(s)
    BY <1>1, <1>2 DEF ToSet
  <2>2. ASSUME NEW i \in 1 .. Len(Tail(s)) PROVE Tail(s)[i] \in ToSet(s)
    <3>1. i + 1 \in 1 .. Len(s) /\ Tail(s)[i] = s[i + 1]
      BY <1>3, <1>4
    <3> QED
      BY <3>1, <1>1 DEF ToSet
  <2> QED
    BY <2>1, <2>2, <1>4 DEF ToSet
<1> QED
  BY <1>2, <1>3, <1>5, <1>6

\* A sequence that is not empty is its front before its last element.
LEMMA FrontThenLast ==
    ASSUME NEW S, NEW s \in Seq(S), s # <<>>
    PROVE  /\ Front(s) \in Seq(S) /\ Last(s) \in S /\ Last(s) = s[Len(s)]
           /\ Len(s) = Len(Front(s)) + 1
           /\ \A i \in 1 .. Len(Front(s)) : Front(s)[i] = s[i]
           /\ s = Append(Front(s), Last(s))
           /\ ToSet(s) = ToSet(Front(s)) \cup {Last(s)}
<1>1. Len(s) \in Nat /\ Len(s) > 0 /\ DOMAIN s = 1 .. Len(s)
  OBVIOUS
<1>2. Last(s) = s[Len(s)] /\ Last(s) \in S
  BY <1>1 DEF Last
<1>3. /\ Front(s) \in Seq(S) /\ Len(s) = Len(Front(s)) + 1
      /\ \A i \in 1 .. Len(Front(s)) : Front(s)[i] = s[i]
  BY <1>1 DEF Front
<1>4. s = Append(Front(s), Last(s))
  BY <1>1, <1>2, <1>3
<1>5. ToSet(Append(Front(s), Last(s))) = ToSet(Front(s)) \cup {Last(s)}
  BY <1>2, <1>3, AppendElements
<1> QED
  BY <1>2, <1>3, <1>4, <1>5

\* Concatenation: positions and elements.
LEMMA ConcatElements ==
    ASSUME NEW S, NEW s \in Seq(S), NEW t \in Seq(S)
    PROVE  /\ s \o t \in Seq(S) /\ Len(s \o t) = Len(s) + Len(t)
           /\ \A i \in 1 .. Len(s) : (s \o t)[i] = s[i]
           /\ \A i \in 1 .. Len(t) : (s \o t)[Len(s) + i] = t[i]
           /\ ToSet(s \o t) = ToSet(s) \cup ToSet(t)
<1>1. /\ s \o t \in Seq(S) /\ Len(s \o t) = Len(s) + Len(t)
      /\ \A i \in 1 .. Len(s) : (s \o t)[i] = s[i]
  OBVIOUS
<1>2. \A i \in 1 .. Len(t) : (s \o t)[Len(s) + i] = t[i]
  OBVIOUS
<1>3. Len(s) \in Nat /\ Len(t) \in Nat /\ DOMAIN s = 1 .. Len(s) /\ DOMAIN t = 1 .. Len(t)
      /\ DOMAIN (s \o t) = 1 .. Len(s) + Len(t)
  BY <1>1
<1>4. ToSet(s \o t) \subseteq ToSet(s) \cup ToSet(t)
  <2> SUFFICES ASSUME NEW i \in 1 .. Len(s) + Len(t)
               PROVE  (s \o t)[i] \in ToSet(s) \cup ToSet(t)
    BY <1>3 DEF ToSet
  <2>1. CASE i <= Len(s)
    BY <2>1, <1>1, <1>3 DEF ToSet
  <2>2. CASE i > Len(s)
    <3>1. i - Len(s) \in 1 .. Len(t) /\ Len(s) + (i - Len(s)) = i
      BY <2>2, <1>3
    <3>2. (s \o t)[i] = t[i - Len(s)]
      BY <3>1, <1>2
    <3> QED
      BY <3>1, <3>2, <1>3 DEF ToSet
  <2> QED
    BY <2>1, <2>2, <1>3
<1>5. ToSet(s) \subseteq ToSet(s \o t)
  BY <1>1, <1>3 DEF ToSet
<1>6. ToSet(t) \subseteq ToSet(s \o t)
  <2> SUFFICES ASSUME NEW i \in 1 .. Len(t) PROVE t[i] \in ToSet(s \o t)
    BY <1>3 DEF ToSet
  <2>1. Len(s) + i \in 1 .. Len(s) + Len(t) /\ t[i] = (s \o t)[Len(s) + i]
    BY <1>2, <1>3
  <2> QED
    BY <2>1, <1>3 DEF ToSet
<1> QED
  BY <1>1, <1>2, <1>4, <1>5, <1>6

\* What was appended last is what Front takes away.
LEMMA FrontOfAppend ==
    ASSUME NEW S, NEW s \in Seq(S), NEW e \in S
    PROVE  Front(Append(s, e)) = s /\ Last(Append(s, e)) = e
<1> DEFINE a == Append(s, e)
           f == Front(a)
<1>0. a \in Seq(S) /\ Len(a) = Len(s) + 1 /\ Len(s) \in Nat
      /\ (\A i \in 1 .. Len(s) : a[i] = s[i]) /\ a[Len(s) + 1] = e
  BY AppendElements
<1> HIDE DEF a
<1>1. a \in Seq(S) /\ Len(a) = Len(s) + 1 /\ a # <<>> /\ Len(s) \in Nat
      /\ (\A i \in 1 .. Len(s) : a[i] = s[i]) /\ a[Len(s) + 1] = e
  <2>1. Len(<<>>) = 0 /\ Len(a) # 0
    BY <1>0
  <2> QED
    BY <1>0, <2>1
<1>2. f \in Seq(S) /\ Len(a) = Len(f) + 1 /\ Last(a) = a[Len(a)]
      /\ \A i \in 1 .. Len(f) : f[i] = a[i]
  BY <1>1, FrontThenLast
<1>3. Len(f) = Len(s) /\ \A i \in 1 .. Len(f) : f[i] = s[i]
  BY <1>1, <1>2
<1>4. f = s
  BY <1>2, <1>3, SeqEqual
<1> QED
  BY <1>1, <1>2, <1>4 DEF a, f

\* The order of the natural numbers as a relation; named, so that the provers
\* need not look into it.
Less == OpToRel(<, Nat)

LEMMA LessWellFounded == IsWellFoundedOn(Less, Nat)
  BY Zenon, NatLessThanWellFounded DEF Less

LEMMA LessIsLess ==
    ASSUME NEW a \in Nat, NEW b \in Nat, a < b
    PROVE  <<a, b>> \in Less
  BY Zenon DEF Less, OpToRel

\* Strong induction up to N, for a property given as a set.
LEMMA Upward ==
    ASSUME NEW N \in Nat, NEW S,
           \A n \in 0 .. N : (\A k \in 0 .. n - 1 : k \in S) => n \in S
    PROVE  \A n \in 0 .. N : n \in S
<1>1. SUFFICES ASSUME (0 .. N) \ S # {} PROVE FALSE
  OBVIOUS
<1>2. (0 .. N) \ S \subseteq Nat
  OBVIOUS
<1>3. PICK n \in (0 .. N) \ S : \A k \in (0 .. N) \ S : ~(<<k, n>> \in Less)
  BY <1>1, <1>2, WFMin, LessWellFounded
<1>4. ASSUME NEW k \in 0 .. n - 1 PROVE k \in S
  <2>1. k \in 0 .. N /\ k \in Nat /\ n \in Nat /\ k < n
    OBVIOUS
  <2> QED
    BY <2>1, <1>3, LessIsLess
<1> QED
  BY <1>3, <1>4

\* A property of the empty sequence that appending preserves holds of every
\* sequence.
LEMMA SequenceInduction ==
    ASSUME NEW T, NEW P, <<>> \in P,
           \A s \in Seq(T), e \in T : s \in P => Append(s, e) \in P
    PROVE  \A s \in Seq(T) : s \in P
<1> SUFFICES ASSUME NEW t \in Seq(T) PROVE t \in P
  OBVIOUS
<1> DEFINE S == {n \in Nat : \A s \in Seq(T) : Len(s) = n => s \in P}
<1>1. ASSUME NEW n \in 0 .. Len(t), \A k \in 0 .. n - 1 : k \in S
      PROVE  n \in S
  <2> SUFFICES ASSUME NEW s \in Seq(T), Len(s) = n PROVE s \in P
    OBVIOUS
  <2>1. CASE s = <<>>
    BY <2>1
  <2>2. CASE s # <<>>
    <3> DEFINE f == Front(s)
    <3>1. f \in Seq(T) /\ Last(s) \in T /\ Len(s) = Len(f) + 1 /\ s = Append(f, Last(s))
      BY <2>2, FrontThenLast
    <3> HIDE DEF f
    <3>2. Len(f) \in 0 .. n - 1
      BY <3>1
    <3>3. f \in P
      BY <3>1, <3>2, <1>1
    <3> QED
      BY <3>1, <3>3
  <2> QED
    BY <2>1, <2>2
<1> HIDE DEF S
<1>2. Len(t) \in Nat
  OBVIOUS
<1>3. \A n \in 0 .. Len(t) : n \in S
  BY <1>1, <1>2, Upward
<1>4. Len(t) \in S
  BY <1>2, <1>3
<1> QED
  BY <1>4 DEF S

\* A recursive function on 0 .. N: its value at n comes, by h[n], from its value
\* at a smaller number prev[n].
IsStep(h, N, V) == h \in [1 .. N -> [V -> V]]
Descends(prev, N) == prev \in [1 .. N -> Nat] /\ \A n \in 1 .. N : prev[n] < n
IsRecursion(g, N, V, b, h, prev) ==
    /\ g \in [0 .. N -> V] /\ g[0] = b
    /\ \A n \in 1 .. N : g[n] = h[n][g[prev[n]]]

LEMMA RecursionExists ==
    ASSUME NEW N \in Nat, NEW V, NEW b \in V, NEW h, IsStep(h, N, V),
           NEW prev, Descends(prev, N)
    PROVE  \E g : IsRecursion(g, N, V, b, h, prev)
<1> USE DEF IsStep, Descends
<1> DEFINE Rec(n, g) == g[0] = b /\ \A i \in 1 .. n : g[i] = h[i][g[prev[i]]]
           S == {n \in 0 .. N : \E g \in [0 .. n -> V] : Rec(n, g)}
<1>1. ASSUME NEW n \in 0 .. N, \A k \in 0 .. n - 1 : k \in S
      PROVE  n \in S
  <2>1. CASE n = 0
    <3> DEFINE g == [i \in 0 .. 0 |-> b]
    <3>1. g \in [0 .. 0 -> V] /\ Rec(0, g)
      OBVIOUS
    <3> QED
      BY <2>1, <3>1
  <2>2. CASE n # 0
    <3>0. n - 1 \in 0 .. n - 1
      BY <2>2
    <3>1. n - 1 \in S
      BY <3>0, <1>1
    <3>2. PICK g \in [0 .. n - 1 -> V] : Rec(n - 1, g)
      BY <3>1
    <3> DEFINE v == h[n][g[prev[n]]]
               new == [i \in 0 .. n |-> IF i = n THEN v ELSE g[i]]
    <3>3. n \in 1 .. N /\ prev[n] \in 0 .. n - 1
      BY <2>2
    <3>4. g[prev[n]] \in V /\ h[n] \in [V -> V]
      BY <3>2, <3>3
    <3>5. v \in V
      BY <3>4
    <3> HIDE DEF v
    <3>6. new \in [0 .. n -> V]
      BY <3>2, <3>5
    <3>7. new[n] = v /\ \A i \in 0 .. n - 1 : new[i] = g[i]
      BY <3>3
    <3>8. new[0] = b
      BY <3>2, <3>7, <2>2
    <3>9. ASSUME NEW i \in 1 .. n PROVE new[i] = h[i][new[prev[i]]]
      <4>1. prev[i] \in 0 .. n - 1 /\ new[prev[i]] = g[prev[i]]
        BY <3>3, <3>7
      <4>2. CASE i = n
        BY <4>1, <4>2, <3>7 DEF v
      <4>3. CASE i # n
        <5>1. i \in 1 .. n - 1 /\ i \in 0 .. n - 1
          BY <4>3
        <5> QED
          BY <4>1, <5>1, <3>2, <3>7
      <4> QED
        BY <4>2, <4>3
    <3> HIDE DEF new
    <3> QED
      BY <3>6, <3>8, <3>9
  <2> QED
    BY <2>1, <2>2
<1> HIDE DEF S
<1>2. \A n \in 0 .. N : n \in S
  BY <1>1, Upward
<1>3. N \in S
  BY <1>2
<1>4. PICK g \in [0 .. N -> V] : Rec(N, g)
  BY <1>3 DEF S
<1> QED
  BY <1>4 DEF IsRecursion

\* Filtered is a recursive function on the positions of the sequence.
IsFilter(g, s, S, T) ==
    /\ g \in [0 .. Len(s) -> Seq(T \cap S)]
    /\ Filtered(s, S) = g[Len(s)] /\ g[0] = <<>>
    /\ \A n \in 1 .. Len(s) :
          g[n] = IF s[n] \in S THEN Append(g[n - 1], s[n]) ELSE g[n - 1]

LEMMA FilteredFunction ==
    ASSUME NEW T, NEW s \in Seq(T), NEW S
    PROVE  \E g : IsFilter(g, s, S, T)
<1> DEFINE N == Len(s)
           V == Seq(T \cap S)
           h == [n \in 1 .. N |-> [v \in V |-> IF s[n] \in S THEN Append(v, s[n]) ELSE v]]
           prev == [n \in 1 .. N |-> n - 1]
           Body(g) == [i \in 0 .. Len(s) |->
                          IF i = 0 THEN <<>>
                          ELSE IF s[i] \in S THEN Append(g[i - 1], s[i]) ELSE g[i - 1]]
<1>1. N \in Nat /\ \A n \in 1 .. N : s[n] \in T
  OBVIOUS
<1>2. ASSUME NEW n \in 1 .. N, NEW v \in V
      PROVE  (IF s[n] \in S THEN Append(v, s[n]) ELSE v) \in V
  <2>1. CASE s[n] \in S
    <3>1. s[n] \in T \cap S
      BY <1>1, <2>1
    <3> QED
      BY <2>1, <3>1, AppendElements
  <2> QED
    BY <2>1
<1>3. \E g \in [0 .. N -> V] :
          /\ g[0] = <<>>
          /\ \A n \in 1 .. N : g[n] = IF s[n] \in S THEN Append(g[n - 1], s[n]) ELSE g[n - 1]
  <2> HIDE DEF N
  <2>1. <<>> \in V
    OBVIOUS
  <2> HIDE DEF V
  <2>2. h \in [1 .. N -> [V -> V]]
    BY <1>2
  <2>3. prev \in [1 .. N -> Nat] /\ \A n \in 1 .. N : prev[n] < n
    BY <1>1
  <2>4. \A n \in 1 .. N, v \in V : h[n][v] = IF s[n] \in S THEN Append(v, s[n]) ELSE v
    OBVIOUS
  <2>5. \A n \in 1 .. N : prev[n] = n - 1 /\ n - 1 \in 0 .. N
    BY <1>1
  <2> DEFINE b == <<>>
  <2>. HIDE DEF h, prev, b
  <2>8. b \in V
    BY <2>1 DEF b
  <2>9. IsStep(h, N, V) /\ Descends(prev, N)
    BY <2>2, <2>3 DEF IsStep, Descends
  <2>10. PICK g : IsRecursion(g, N, V, b, h, prev)
    BY <1>1, <2>8, <2>9, RecursionExists
  <2>6. /\ g \in [0 .. N -> V] /\ g[0] = <<>>
        /\ \A n \in 1 .. N : g[n] = h[n][g[prev[n]]]
    BY <2>10 DEF b, IsRecursion
  <2>7. ASSUME NEW n \in 1 .. N
        PROVE  g[n] = IF s[n] \in S THEN Append(g[n - 1], s[n]) ELSE g[n - 1]
    BY <2>4, <2>5, <2>6
  <2> QED
    BY <2>6, <2>7
<1>4. PICK g \in [0 .. N -> V] :
          /\ g[0] = <<>>
          /\ \A n \in 1 .. N : g[n] = IF s[n] \in S THEN Append(g[n - 1], s[n]) ELSE g[n - 1]
  BY <1>3
<1>5. g = Body(g)
  <2>1. g[0] = Body(g)[0]
    BY <1>1, <1>4
  <2>2. ASSUME NEW i \in 1 .. N PROVE g[i] = Body(g)[i]
    <3>1. i \in 0 .. N /\ i # 0
      BY <1>1
    <3> QED
      BY <3>1, <1>4
  <2>3. \A i \in 0 .. N : i = 0 \/ i \in 1 .. N
    BY <1>1
  <2>4. \A i \in 0 .. N : g[i] = Body(g)[i]
    BY <2>1, <2>2, <2>3
  <2>5. DOMAIN g = 0 .. N /\ g = [i \in 0 .. N |-> g[i]]
    BY <1>4
  <2> QED
    BY <2>4, <2>5
<1>6. \E f : f = Body(f)
  BY <1>5
<1> DEFINE c == CHOOSE f : f = Body(f)
<1>7. c = Body(c)
  BY Zenon, <1>6
<1>8. Filtered(s, S) = c[Len(s)]
  BY Zenon DEF Filtered
<1> HIDE DEF c
<1>9. c[0] = <<>> /\ \A n \in 1 .. N :
          c[n] = IF s[n] \in S THEN Append(c[n - 1], s[n]) ELSE c[n - 1]
  <2>1. \A i \in 0 .. N : c[i] = IF i = 0 THEN <<>>
                                ELSE IF s[i] \in S THEN Append(c[i - 1], s[i]) ELSE c[i - 1]
    BY <1>7
  <2>2. 0 \in 0 .. N /\ \A n \in 1 .. N : n \in 0 .. N /\ n # 0
    BY <1>1
  <2> QED
    BY <2>1, <2>2
<1>10. DOMAIN c = 0 .. N /\ c = [n \in 0 .. N |-> c[n]]
  BY <1>7
<1>11. ASSUME NEW n \in 0 .. N, \A k \in 0 .. n - 1 : k \in {i \in 0 .. N : c[i] \in V}
       PROVE  n \in {i \in 0 .. N : c[i] \in V}
  <2>1. CASE n = 0
    <3>1. <<>> \in V
      OBVIOUS
    <3> HIDE DEF V
    <3> QED
      BY <2>1, <3>1, <1>9
  <2>2. CASE n # 0
    <3>1. n \in 1 .. N /\ n - 1 \in 0 .. n - 1
      BY <2>2, <1>1
    <3>2. c[n - 1] \in V
      BY <3>1, <1>11
    <3> HIDE DEF V
    <3>3. (IF s[n] \in S THEN Append(c[n - 1], s[n]) ELSE c[n - 1]) \in V
      BY <1>2, <3>1, <3>2
    <3>4. c[n] \in V
      BY <1>9, <3>1, <3>3
    <3> QED
      BY <3>4
  <2> QED
    BY <2>1, <2>2
<1>12. \A n \in 0 .. N : n \in {i \in 0 .. N : c[i] \in V}
  <2> HIDE DEF N, V
  <2> QED
    BY <1>1, <1>11, Upward
<1>13. c \in [0 .. N -> V]
  BY <1>10, <1>12
<1> QED
  BY <1>8, <1>9, <1>13 DEF IsFilter

LEMMA FilteredEmpty ==
    ASSUME NEW S
    PROVE  Filtered(<<>>, S) = <<>>
<1>1. <<>> \in Seq({}) /\ Len(<<>>) = 0
  OBVIOUS
<1>2. PICK g : IsFilter(g, <<>>, S, {})
  BY <1>1, FilteredFunction
<1> QED
  BY <1>1, <1>2 DEF IsFilter

\* An element appended to the sequence is appended to what is kept, or dropped.
LEMMA FilteredAppend ==
    ASSUME NEW T, NEW s \in Seq(T), NEW e \in T, NEW S
    PROVE  Filtered(Append(s, e), S) =
              IF e \in S THEN Append(Filtered(s, S), e) ELSE Filtered(s, S)
<1> DEFINE t == Append(s, e)
           N == Len(s)
<1>1. t \in Seq(T) /\ Len(t) = N + 1 /\ N \in Nat
      /\ (\A i \in 1 .. N : t[i] = s[i]) /\ t[N + 1] = e
  BY AppendElements
<1> HIDE DEF t
<1>2. PICK g : IsFilter(g, s, S, T)
  BY FilteredFunction
<1>3. PICK h : IsFilter(h, t, S, T)
  BY <1>1, FilteredFunction
<1> USE DEF IsFilter
<1> HIDE DEF N
<1> DEFINE Same == {n \in 0 .. N : g[n] = h[n]}
<1>4. ASSUME NEW n \in 0 .. N, \A k \in 0 .. n - 1 : k \in Same
      PROVE  n \in Same
  <2>1. CASE n = 0
    BY <2>1, <1>2, <1>3
  <2>2. CASE n # 0
    <3>1. n \in 1 .. N /\ n \in 1 .. Len(s) /\ n \in 1 .. Len(t)
      BY <2>2, <1>1 DEF N
    <3>2. n - 1 \in 0 .. n - 1
      BY <2>2
    <3>3. g[n - 1] = h[n - 1]
      BY <3>2, <1>4
    <3>4. s[n] = t[n]
      BY <3>1, <1>1
    <3> QED
      BY <3>1, <3>3, <3>4, <1>2, <1>3
  <2> QED
    BY <2>1, <2>2
<1>5. \A n \in 0 .. N : n \in Same
  <2> HIDE DEF Same
  <2> QED
    BY <1>1, <1>4, Upward
<1>6. g[N] = h[N]
  BY <1>1, <1>5
<1>7. N + 1 \in 1 .. Len(t) /\ (N + 1) - 1 = N
  BY <1>1
<1>8. h[N + 1] = IF e \in S THEN Append(h[N], e) ELSE h[N]
  BY <1>1, <1>3, <1>7
<1> QED
  BY <1>1, <1>2, <1>3, <1>6, <1>8 DEF t, N

\* What is kept are the elements of s in S.
LEMMA FilteredElements ==
    ASSUME NEW T, NEW s \in Seq(T), NEW S
    PROVE  Filtered(s, S) \in Seq(T \cap S) /\ ToSet(Filtered(s, S)) = ToSet(s) \cap S
<1>1. \A t \in Seq(T) : Filtered(t, S) \in Seq(T \cap S)
  <2> SUFFICES ASSUME NEW t \in Seq(T) PROVE Filtered(t, S) \in Seq(T \cap S)
    OBVIOUS
  <2>1. PICK g : IsFilter(g, t, S, T)
    BY FilteredFunction
  <2>2. Len(t) \in 0 .. Len(t)
    OBVIOUS
  <2>3. g \in [0 .. Len(t) -> Seq(T \cap S)] /\ Filtered(t, S) = g[Len(t)]
    BY Zenon, <2>1 DEF IsFilter
  <2> QED
    BY <2>2, <2>3
<1> DEFINE P == {t \in Seq(T) : ToSet(Filtered(t, S)) = ToSet(t) \cap S}
<1>2. <<>> \in P
  BY FilteredEmpty DEF ToSet
<1>3. ASSUME NEW t \in Seq(T), NEW e \in T, t \in P
      PROVE  Append(t, e) \in P
  <2> DEFINE k == Filtered(t, S)
  <2>1. k \in Seq(T \cap S) /\ ToSet(k) = ToSet(t) \cap S
    BY <1>1, <1>3
  <2>2. Append(t, e) \in Seq(T) /\ ToSet(Append(t, e)) = ToSet(t) \cup {e}
    BY AppendElements
  <2>3. Filtered(Append(t, e), S) = IF e \in S THEN Append(k, e) ELSE k
    BY FilteredAppend
  <2> HIDE DEF k
  <2>4. CASE e \in S
    <3>1. ToSet(Append(k, e)) = ToSet(k) \cup {e}
      BY <2>1, <2>4, AppendElements
    <3> QED
      BY <2>1, <2>2, <2>3, <2>4, <3>1
  <2>5. CASE e \notin S
    BY <2>1, <2>2, <2>3, <2>5
  <2> QED
    BY <2>4, <2>5
<1>4. \A t \in Seq(T) : t \in P
  <2> HIDE DEF P
  <2> QED
    BY <1>2, <1>3, SequenceInduction
<1> QED
  BY <1>1, <1>4

\* A sequence of elements of S is kept as it is.
LEMMA FilteredWhole ==
    ASSUME NEW T, NEW s \in Seq(T), NEW S, ToSet(s) \subseteq S
    PROVE  Filtered(s, S) = s
<1> DEFINE P == {t \in Seq(T) : ToSet(t) \subseteq S => Filtered(t, S) = t}
<1>1. <<>> \in P
  BY FilteredEmpty
<1>2. ASSUME NEW t \in Seq(T), NEW e \in T, t \in P
      PROVE  Append(t, e) \in P
  <2>1. Append(t, e) \in Seq(T) /\ ToSet(Append(t, e)) = ToSet(t) \cup {e}
    BY AppendElements
  <2>2. Filtered(Append(t, e), S) = IF e \in S THEN Append(Filtered(t, S), e) ELSE Filtered(t, S)
    BY FilteredAppend
  <2> QED
    BY <2>1, <2>2, <1>2
<1>3. \A t \in Seq(T) : t \in P
  <2> HIDE DEF P
  <2> QED
    BY <1>1, <1>2, SequenceInduction
<1> QED
  BY <1>3

\* Filtering goes through concatenation.
LEMMA FilteredConcat ==
    ASSUME NEW T, NEW s \in Seq(T), NEW t \in Seq(T), NEW S
    PROVE  Filtered(s \o t, S) = Filtered(s, S) \o Filtered(t, S)
<1> DEFINE P == {u \in Seq(T) : Filtered(s \o u, S) = Filtered(s, S) \o Filtered(u, S)}
<1>0. Filtered(s, S) \in Seq(T)
  <2>1. Filtered(s, S) \in Seq(T \cap S)
    BY FilteredElements
  <2> QED
    BY <2>1
<1>1. <<>> \in P
  <2> DEFINE k == Filtered(s, S)
  <2>1. s \o <<>> = s /\ Filtered(<<>>, S) = <<>> /\ <<>> \in Seq(T)
    BY ConcatEmptySeq, FilteredEmpty
  <2>2. k \o <<>> = k
    BY <1>0, ConcatEmptySeq
  <2>3. Filtered(s \o <<>>, S) = k \o Filtered(<<>>, S)
    BY <2>1, <2>2
  <2> QED
    BY <2>1, <2>3
<1>2. ASSUME NEW u \in Seq(T), NEW e \in T, u \in P
      PROVE  Append(u, e) \in P
  <2> DEFINE k == Filtered(s, S)
             l == Filtered(u, S)
  <2>1. l \in Seq(T)
    <3>1. l \in Seq(T \cap S)
      BY FilteredElements
    <3> QED
      BY <3>1
  <2>2. s \o u \in Seq(T) /\ s \o Append(u, e) = Append(s \o u, e)
    OBVIOUS
  <2>3. Filtered(Append(s \o u, e), S) =
            IF e \in S THEN Append(Filtered(s \o u, S), e) ELSE Filtered(s \o u, S)
    BY <2>2, FilteredAppend
  <2>4. Filtered(Append(u, e), S) = IF e \in S THEN Append(l, e) ELSE l
    BY FilteredAppend
  <2>5. Filtered(s \o u, S) = k \o l
    BY <1>2
  <2> HIDE DEF k, l
  <2>6. k \in Seq(T)
    BY <1>0 DEF k
  <2>7. k \o Append(l, e) = Append(k \o l, e)
    BY <2>1, <2>6
  <2>8. Filtered(s \o Append(u, e), S) = k \o Filtered(Append(u, e), S)
    BY <2>2, <2>3, <2>4, <2>5, <2>7
  <2> QED
    BY <2>8 DEF k
<1>3. \A u \in Seq(T) : u \in P
  <2> HIDE DEF P
  <2> QED
    BY <1>1, <1>2, SequenceInduction
<1> QED
  BY <1>3

\* A part of a sequence.
LEMMA PartElements ==
    ASSUME NEW S, NEW s \in Seq(S), NEW a \in Nat \ {0}, NEW b \in Nat, b <= Len(s)
    PROVE  /\ SubSeq(s, a, b) \in Seq(S)
           /\ ToSet(SubSeq(s, a, b)) = {s[i] : i \in a .. b}
<1>1. \A i \in a .. b : s[i] \in S
  OBVIOUS
<1>2. /\ SubSeq(s, a, b) \in Seq(S)
      /\ Len(SubSeq(s, a, b)) = IF a <= b THEN b - a + 1 ELSE 0
      /\ \A i \in 1 .. b - a + 1 : SubSeq(s, a, b)[i] = s[a + i - 1]
  BY <1>1, SubSeqProperties
<1> DEFINE p == SubSeq(s, a, b)
<1> HIDE DEF p
<1>3. DOMAIN p = 1 .. Len(p)
  BY <1>2 DEF p
<1>4. ToSet(p) \subseteq {s[i] : i \in a .. b}
  BY <1>2, <1>3 DEF p, ToSet
<1>5. ASSUME NEW i \in a .. b PROVE s[i] \in ToSet(p)
  <2>1. i - a + 1 \in DOMAIN p /\ p[i - a + 1] = s[i]
    BY <1>2, <1>3 DEF p
  <2> QED
    BY <2>1 DEF ToSet
<1> QED
  BY <1>2, <1>4, <1>5 DEF p

\* The first elements of a sequence.
LEMMA PrefixElements ==
    ASSUME NEW S, NEW s \in Seq(S), NEW k \in 0 .. Len(s)
    PROVE  /\ SubSeq(s, 1, k) \in Seq(S) /\ Len(SubSeq(s, 1, k)) = k
           /\ \A i \in 1 .. k : SubSeq(s, 1, k)[i] = s[i]
           /\ ToSet(SubSeq(s, 1, k)) \subseteq ToSet(s)
<1>1. Len(s) \in Nat /\ DOMAIN s = 1 .. Len(s) /\ \A i \in 1 .. Len(s) : s[i] \in S
  OBVIOUS
<1>2. SubSeq(s, 1, k) = [i \in 1 .. k |-> s[i]]
  BY <1>1
<1> DEFINE p == SubSeq(s, 1, k)
<1>3. p \in Seq(S) /\ Len(p) = k /\ DOMAIN p = 1 .. k /\ \A i \in 1 .. k : p[i] = s[i]
  BY <1>1, <1>2
<1> HIDE DEF p
<1>4. ToSet(p) \subseteq ToSet(s)
  BY <1>1, <1>3 DEF ToSet
<1> QED
  BY <1>3, <1>4 DEF p

LEMMA PrefixWhole ==
    ASSUME NEW S, NEW s \in Seq(S)
    PROVE  SubSeq(s, 1, Len(s)) = s /\ SubSeq(s, 1, 0) = <<>>
<1>1. Len(s) \in Nat /\ 0 \in 0 .. Len(s) /\ Len(s) \in 0 .. Len(s)
  OBVIOUS
<1> DEFINE p == SubSeq(s, 1, Len(s))
           q == SubSeq(s, 1, 0)
<1>2. p \in Seq(S) /\ Len(p) = Len(s) /\ \A i \in 1 .. Len(s) : p[i] = s[i]
  BY <1>1, PrefixElements
<1>3. q \in Seq(S) /\ Len(q) = 0
  BY <1>1, PrefixElements
<1> HIDE DEF p, q
<1>4. p = s
  BY <1>2, SeqEqual
<1>5. q = <<>>
  BY <1>3
<1> QED
  BY <1>4, <1>5 DEF p, q

\* Appending leaves what came first as it was.
LEMMA PrefixOfAppend ==
    ASSUME NEW S, NEW s \in Seq(S), NEW e \in S, NEW k \in 0 .. Len(s)
    PROVE  SubSeq(Append(s, e), 1, k) = SubSeq(s, 1, k)
<1> DEFINE a == Append(s, e)
           p == SubSeq(a, 1, k)
           q == SubSeq(s, 1, k)
<1>1. a \in Seq(S) /\ Len(a) = Len(s) + 1 /\ \A i \in 1 .. Len(s) : a[i] = s[i]
  BY AppendElements
<1>2. Len(s) \in Nat
  OBVIOUS
<1> HIDE DEF a
<1>3. k \in 0 .. Len(a)
  BY <1>1, <1>2
<1>4. p \in Seq(S) /\ Len(p) = k /\ \A i \in 1 .. k : p[i] = a[i]
  BY <1>1, <1>3, PrefixElements
<1>5. q \in Seq(S) /\ Len(q) = k /\ \A i \in 1 .. k : q[i] = s[i]
  BY PrefixElements
<1> HIDE DEF p, q
<1>6. \A i \in 1 .. k : p[i] = q[i]
  BY <1>1, <1>2, <1>4, <1>5
<1>7. p = q
  BY <1>4, <1>5, <1>6, SeqEqual
<1> QED
  BY <1>7 DEF p, q, a

\* A sequence that is not empty, put together again from head and tail.
LEMMA HeadThenTail ==
    ASSUME NEW S, NEW s \in Seq(S), s # <<>>
    PROVE  <<Head(s)>> \o Tail(s) = s
<1>1. Len(s) \in Nat /\ Len(s) > 0 /\ DOMAIN s = 1 .. Len(s)
  OBVIOUS
<1>2. \A i \in 1 .. Len(s) : (<<Head(s)>> \o Tail(s))[i] = s[i]
  BY <1>1
<1>3. <<Head(s)>> \o Tail(s) \in Seq(S) /\ Len(<<Head(s)>> \o Tail(s)) = Len(s)
  BY <1>1
<1> QED
  BY <1>2, <1>3, SeqEqual

\* The filter of what is left when the head has been taken.
LEMMA FilteredTail ==
    ASSUME NEW T, NEW s \in Seq(T), s # <<>>, NEW S
    PROVE  Filtered(s, S) = IF Head(s) \in S THEN <<Head(s)>> \o Filtered(Tail(s), S)
                            ELSE Filtered(Tail(s), S)
<1> DEFINE h == <<Head(s)>>
           t == Tail(s)
<1>1. Head(s) \in T /\ t \in Seq(T) /\ h \in Seq(T) /\ h \o t = s
  BY HeadAndTail, HeadThenTail
<1>2. Filtered(s, S) = Filtered(h, S) \o Filtered(t, S)
  <2>1. h \in Seq(T) /\ t \in Seq(T)
    BY <1>1
  <2> HIDE DEF h, t
  <2>2. Filtered(h \o t, S) = Filtered(h, S) \o Filtered(t, S)
    BY <2>1, FilteredConcat
  <2> QED
    BY <1>1, <2>2
<1>3. Filtered(h, S) = IF Head(s) \in S THEN h ELSE <<>>
  <2> DEFINE e == Head(s)
             none == <<>>
             a == Append(none, e)
  <2>1. none \in Seq(T) /\ e \in T /\ a = h
    BY <1>1
  <2>2. Filtered(none, S) = none
    BY FilteredEmpty
  <2> HIDE DEF none, e
  <2>3. Filtered(a, S) = IF e \in S THEN Append(Filtered(none, S), e) ELSE Filtered(none, S)
    BY <2>1, FilteredAppend
  <2> HIDE DEF h
  <2>4. Filtered(h, S) = IF e \in S THEN h ELSE none
    BY <2>1, <2>2, <2>3
  <2> QED
    BY <2>4 DEF e, none
<1>4. Filtered(t, S) \in Seq(T \cap S)
  <2> HIDE DEF t
  <2> QED
    BY <1>1, FilteredElements
<1>5. <<>> \o Filtered(t, S) = Filtered(t, S)
  <2> DEFINE f == Filtered(t, S)
  <2> HIDE DEF f
  <2>1. f \in Seq(T \cap S)
    BY <1>4 DEF f
  <2>2. <<>> \o f = f
    BY <2>1, ConcatEmptySeq
  <2> QED
    BY <2>2 DEF f
<1> HIDE DEF h, t
<1>6. Filtered(s, S) = IF Head(s) \in S THEN h \o Filtered(t, S) ELSE Filtered(t, S)
  BY <1>2, <1>3, <1>5
<1> QED
  BY <1>6 DEF h, t

\* The filter looks at the elements of the sequence only.
LEMMA FilteredSame ==
    ASSUME NEW T, NEW s \in Seq(T), NEW S, NEW R, ToSet(s) \cap S = ToSet(s) \cap R
    PROVE  Filtered(s, S) = Filtered(s, R)
<1> DEFINE P == {t \in Seq(T) : ToSet(t) \subseteq ToSet(s) => Filtered(t, S) = Filtered(t, R)}
<1>1. <<>> \in P
  <2>1. <<>> \in Seq(T)
    OBVIOUS
  <2> QED
    BY <2>1, FilteredEmpty
<1>2. ASSUME NEW t \in Seq(T), NEW e \in T, t \in P
      PROVE  Append(t, e) \in P
  <2>1. Append(t, e) \in Seq(T) /\ ToSet(Append(t, e)) = ToSet(t) \cup {e}
    BY AppendElements
  <2>2. SUFFICES ASSUME ToSet(Append(t, e)) \subseteq ToSet(s)
                 PROVE  Filtered(Append(t, e), S) = Filtered(Append(t, e), R)
    BY <2>1
  <2>3. Filtered(t, S) = Filtered(t, R) /\ (e \in S <=> e \in R)
    BY <1>2, <2>1, <2>2
  <2> DEFINE a == Append(t, e)
             WithS == Append(Filtered(t, S), e)
             WithR == Append(Filtered(t, R), e)
  <2>4. Filtered(a, S) = IF e \in S THEN WithS ELSE Filtered(t, S)
    BY FilteredAppend
  <2>5. Filtered(a, R) = IF e \in R THEN WithR ELSE Filtered(t, R)
    BY FilteredAppend
  <2>6. WithS = WithR
    BY <2>3
  <2> HIDE DEF a, WithS, WithR
  <2>7. Filtered(a, S) = Filtered(a, R)
    BY <2>3, <2>4, <2>5, <2>6
  <2> QED
    BY <2>7 DEF a
<1>3. \A t \in Seq(T) : t \in P
  <2> HIDE DEF P
  <2> QED
    BY <1>1, <1>2, SequenceInduction
<1> QED
  BY <1>3

\* A set of numbers with a bound has a greatest one.
LEMMA GreatestOne ==
    ASSUME NEW n \in Nat, NEW S \in SUBSET (1 .. n), S # {}
    PROVE  Max(S) \in S /\ \A y \in S : Max(S) >= y
<1> DEFINE P == {k \in 0 .. n : \A R \in SUBSET (1 .. k) :
                    R # {} => \E x \in R : \A y \in R : x >= y}
<1>1. ASSUME NEW k \in 0 .. n, \A j \in 0 .. k - 1 : j \in P PROVE k \in P
  <2> SUFFICES ASSUME NEW R \in SUBSET (1 .. k), R # {}
               PROVE  \E x \in R : \A y \in R : x >= y
    OBVIOUS
  <2>1. CASE k \in R
    BY <2>1
  <2>2. CASE k \notin R
    <3>1. k \in Nat /\ \A x \in R : x \in 1 .. k /\ x # k
      BY <2>2
    <3>2. \A x \in R : x \in 1 .. k - 1
      BY <3>1
    <3>3. k - 1 \in 0 .. k - 1
      <4>1. PICK x \in R : TRUE
        OBVIOUS
      <4>2. x \in 1 .. k
        BY <3>1
      <4> QED
        BY <3>1, <4>2
    <3>4. R \in SUBSET (1 .. k - 1)
      BY <3>2
    <3> QED
      BY <1>1, <3>3, <3>4
  <2> QED
    BY <2>1, <2>2
<1>2. \A k \in 0 .. n : k \in P
  <2> HIDE DEF P
  <2> QED
    BY <1>1, Upward
<1>3. \E x \in S : \A y \in S : x >= y
  BY <1>2
<1> QED
  BY <1>3 DEF Max

(***************************************************************************)
(* Sequences in which nothing occurs twice.                                *)
(***************************************************************************)

LEMMA InjectiveAppend ==
    ASSUME NEW S, NEW s \in Seq(S), NEW e \in S, IsInjective(s), e \notin ToSet(s)
    PROVE  IsInjective(Append(s, e))
<1>1. /\ Len(Append(s, e)) = Len(s) + 1 /\ Append(s, e) \in Seq(S)
      /\ \A i \in 1 .. Len(s) : Append(s, e)[i] = s[i]
      /\ Append(s, e)[Len(s) + 1] = e
  BY AppendElements
<1> DEFINE a == Append(s, e)
<1> HIDE DEF a
<1>2. Len(s) \in Nat /\ DOMAIN s = 1 .. Len(s) /\ DOMAIN a = 1 .. Len(s) + 1
  BY <1>1 DEF a
<1>3. \A i \in 1 .. Len(s) : a[i] = s[i] /\ a[i] # e
  BY <1>1, <1>2 DEF a, ToSet
<1>4. a[Len(s) + 1] = e
  BY <1>1 DEF a
<1>5. \A i, j \in 1 .. Len(s) : s[i] = s[j] => i = j
  BY <1>2 DEF IsInjective
<1>6. \A i \in 1 .. Len(s) + 1 : i \in 1 .. Len(s) \/ i = Len(s) + 1
  BY <1>2
<1>7. \A i, j \in 1 .. Len(s) + 1 : a[i] = a[j] => i = j
  BY <1>3, <1>4, <1>5, <1>6
<1> QED
  BY <1>2, <1>7 DEF IsInjective, a

LEMMA InjectiveTail ==
    ASSUME NEW S, NEW s \in Seq(S), s # <<>>, IsInjective(s)
    PROVE  IsInjective(Tail(s)) /\ Head(s) \notin ToSet(Tail(s))
<1> DEFINE t == Tail(s)
<1>1. /\ Head(s) = s[1] /\ t \in Seq(S) /\ Len(s) = Len(t) + 1
      /\ \A i \in 1 .. Len(t) : t[i] = s[i + 1]
  BY HeadAndTail
<1> HIDE DEF t
<1>2. Len(t) \in Nat /\ DOMAIN t = 1 .. Len(t) /\ DOMAIN s = 1 .. Len(t) + 1
  BY <1>1
<1>3. \A i, j \in 1 .. Len(t) + 1 : s[i] = s[j] => i = j
  BY <1>2 DEF IsInjective
<1>4. \A i \in 1 .. Len(t) : i + 1 \in 1 .. Len(t) + 1 /\ t[i] = s[i + 1] /\ i + 1 # 1
  BY <1>1, <1>2
<1>5. 1 \in 1 .. Len(t) + 1
  BY <1>2
<1>6. \A i, j \in 1 .. Len(t) : t[i] = t[j] => i = j
  BY <1>2, <1>3, <1>4
<1>7. \A i \in 1 .. Len(t) : t[i] # s[1]
  BY <1>3, <1>4, <1>5
<1> QED
  BY <1>1, <1>2, <1>6, <1>7 DEF IsInjective, ToSet, t

LEMMA InjectiveConcat ==
    ASSUME NEW S, NEW s \in Seq(S), NEW t \in Seq(S), IsInjective(s), IsInjective(t),
           ToSet(s) \cap ToSet(t) = {}
    PROVE  IsInjective(s \o t)
<1> DEFINE c == s \o t
           M == Len(s)
           N == Len(t)
<1>1. /\ c \in Seq(S) /\ Len(c) = M + N
      /\ \A i \in 1 .. M : c[i] = s[i]
      /\ \A i \in 1 .. N : c[M + i] = t[i]
  BY ConcatElements
<1>2. M \in Nat /\ N \in Nat /\ DOMAIN s = 1 .. M /\ DOMAIN t = 1 .. N
  OBVIOUS
<1> HIDE DEF c, M, N
<1>3. \A i, j \in 1 .. M : s[i] = s[j] => i = j
  BY <1>2 DEF IsInjective
<1>4. \A i, j \in 1 .. N : t[i] = t[j] => i = j
  BY <1>2 DEF IsInjective
<1>5. \A i \in 1 .. M, j \in 1 .. N : s[i] # t[j]
  BY <1>2 DEF ToSet
<1>6. ASSUME NEW i \in 1 .. M + N, i \notin 1 .. M
      PROVE  i - M \in 1 .. N /\ c[i] = t[i - M]
  <2>1. i - M \in 1 .. N /\ M + (i - M) = i
    BY <1>2, <1>6
  <2> QED
    BY <1>1, <2>1
<1>7. ASSUME NEW i \in 1 .. M + N, NEW j \in 1 .. M + N, c[i] = c[j] PROVE i = j
  <2>1. CASE i \in 1 .. M /\ j \in 1 .. M
    BY <1>1, <1>3, <1>7, <2>1
  <2>2. CASE i \in 1 .. M /\ j \notin 1 .. M
    BY <1>1, <1>5, <1>6, <1>7, <2>2
  <2>3. CASE i \notin 1 .. M /\ j \in 1 .. M
    BY <1>1, <1>5, <1>6, <1>7, <2>3
  <2>4. CASE i \notin 1 .. M /\ j \notin 1 .. M
    <3>1. i - M = j - M
      BY <1>4, <1>6, <1>7, <2>4
    <3> QED
      BY <1>2, <3>1
  <2> QED
    BY <2>1, <2>2, <2>3, <2>4
<1>8. DOMAIN c = 1 .. M + N
  BY <1>1, <1>2
<1> QED
  BY <1>7, <1>8 DEF IsInjective, c

(***************************************************************************)
(* Folds: FoldLeft is a recursive function on the sets of positions, which *)
(* takes the greatest position of a set first.  The steps are functions    *)
(* here, h[n] what position n makes of the result so far.                  *)
(***************************************************************************)

IsFold(g, N, V, b, h) ==
    /\ g \in [SUBSET (1 .. N) -> V] /\ g[{}] = b
    /\ \A S \in SUBSET (1 .. N) : S # {} => g[S] = h[Max(S)][g[S \ {Max(S)}]]

\* There is a function that folds every set of positions step by step.
LEMMA FoldExists ==
    ASSUME NEW N \in Nat, NEW V, NEW b \in V, NEW h, IsStep(h, N, V)
    PROVE  \E g : IsFold(g, N, V, b, h)
<1> DEFINE P == {n \in 0 .. N : \E g : IsFold(g, n, V, b, h)}
<1>1. ASSUME NEW n \in 0 .. N, \A k \in 0 .. n - 1 : k \in P
      PROVE  n \in P
  <2>1. CASE n = 0
    <3> DEFINE g == [S \in SUBSET (1 .. 0) |-> b]
    <3>0. 1 .. 0 = {}
      OBVIOUS
    <3>1. IsFold(g, 0, V, b, h)
      BY <3>0 DEF IsFold
    <3> QED
      BY <2>1, <3>1
  <2>2. CASE n # 0
    <3>1. n - 1 \in 0 .. n - 1 /\ n \in 1 .. N /\ n - 1 \in Nat
      BY <2>2
    <3>2. PICK g : IsFold(g, n - 1, V, b, h)
      BY <1>1, <3>1
    <3> DEFINE new == [S \in SUBSET (1 .. n) |-> IF n \in S THEN h[n][g[S \ {n}]] ELSE g[S]]
    <3>3. h[n] \in [V -> V]
      BY <3>1 DEF IsStep
    <3>4. ASSUME NEW S \in SUBSET (1 .. n)
          PROVE  S \ {n} \in SUBSET (1 .. n - 1) /\ (n \notin S => S \in SUBSET (1 .. n - 1))
      BY <3>1
    <3>5. g \in [SUBSET (1 .. n - 1) -> V] /\ g[{}] = b
          /\ \A S \in SUBSET (1 .. n - 1) : S # {} => g[S] = h[Max(S)][g[S \ {Max(S)}]]
      BY <3>2 DEF IsFold
    <3>6. ASSUME NEW S \in SUBSET (1 .. n)
          PROVE  (IF n \in S THEN h[n][g[S \ {n}]] ELSE g[S]) \in V
      BY <3>3, <3>4, <3>5
    <3>7. new \in [SUBSET (1 .. n) -> V]
      BY <3>6
    <3>8. \A S \in SUBSET (1 .. n) : new[S] = IF n \in S THEN h[n][g[S \ {n}]] ELSE g[S]
      OBVIOUS
    <3> HIDE DEF new
    <3>9. new[{}] = b
      BY <3>5, <3>8
    <3>10. ASSUME NEW S \in SUBSET (1 .. n), S # {}
           PROVE  new[S] = h[Max(S)][new[S \ {Max(S)}]]
      <4>1. Max(S) \in S /\ \A y \in S : Max(S) >= y
        BY <3>1, <3>10, GreatestOne
      <4>2. CASE n \in S
        <5>1. Max(S) = n
          <6> DEFINE m == Max(S)
          <6>1. m \in 1 .. n /\ m >= n
            BY <4>1, <4>2
          <6> HIDE DEF m
          <6>2. m = n
            BY <3>1, <6>1
          <6> QED
            BY <6>2 DEF m
        <5>2. S \ {n} \in SUBSET (1 .. n) /\ n \notin S \ {n}
          OBVIOUS
        <5>3. new[S \ {n}] = g[S \ {n}]
          BY <3>8, <5>2
        <5> QED
          BY <3>8, <4>2, <5>1, <5>3
      <4>3. CASE n \notin S
        <5>1. S \in SUBSET (1 .. n - 1) /\ S \ {Max(S)} \in SUBSET (1 .. n) /\ n \notin S \ {Max(S)}
          BY <3>4, <4>3
        <5>2. new[S \ {Max(S)}] = g[S \ {Max(S)}] /\ new[S] = g[S]
          BY <3>8, <4>3, <5>1
        <5> QED
          BY <3>5, <3>10, <5>1, <5>2
      <4> QED
        BY <4>2, <4>3
    <3>11. IsFold(new, n, V, b, h)
      BY <3>7, <3>9, <3>10 DEF IsFold
    <3> QED
      BY <3>11
  <2> QED
    BY <2>1, <2>2
<1>2. \A n \in 0 .. N : n \in P
  <2> HIDE DEF P
  <2> QED
    BY <1>1, Upward
<1> QED
  BY <1>2

\* Of the first n positions the last one is taken first.
LEMMA TakenFirst ==
    ASSUME NEW N \in Nat, NEW n \in 1 .. N
    PROVE  /\ 1 .. n \in SUBSET (1 .. N) /\ 1 .. n # {}
           /\ Max(1 .. n) = n /\ (1 .. n) \ {Max(1 .. n)} = 1 .. (n - 1)
<1>1. n \in Nat /\ 1 .. n \in SUBSET (1 .. n) /\ 1 .. n # {} /\ n \in 1 .. n
  OBVIOUS
<1> DEFINE S == 1 .. n
<1>2. Max(S) \in S /\ \A y \in S : Max(S) >= y
  <2> HIDE DEF S
  <2>1. S \in SUBSET (1 .. n) /\ S # {}
    BY <1>1 DEF S
  <2> QED
    BY <1>1, <2>1, GreatestOne
<1>3. Max(S) = n
  <2> DEFINE m == Max(S)
  <2>1. m \in 1 .. n /\ m >= n
    BY <1>1, <1>2
  <2> HIDE DEF m
  <2>2. m = n
    BY <1>1, <2>1
  <2> QED
    BY <2>2 DEF m
<1> QED
  BY <1>1, <1>3

\* What a fold has made of the positions up to n, for each n.
IsRun(r, N, V, b, h) ==
    /\ r \in [0 .. N -> V] /\ r[0] = b
    /\ \A n \in 1 .. N : r[n] = h[n][r[n - 1]]

\* A function on the sets of positions that satisfies the equations of a fold, as far as its values are
\* known to be in V.
IsFolded(c, N, V, b, h) ==
    \A S \in SUBSET (1 .. N) :
        /\ S = {} => c[S] = b
        /\ S # {} /\ c[S \ {Max(S)}] \in V => c[S] = h[Max(S)][c[S \ {Max(S)}]]

\* Such a function agrees with the steps taken one after the other, on all positions.
LEMMA FoldRuns ==
    ASSUME NEW N \in Nat, NEW V, NEW b \in V, NEW h, IsStep(h, N, V),
           NEW c, IsFolded(c, N, V, b, h)
    PROVE  \E r : IsRun(r, N, V, b, h) /\ c[1 .. N] = r[N]
<1> DEFINE r == [n \in 0 .. N |-> c[1 .. n]]
           P == {n \in 0 .. N : r[n] \in V}
<1>1. 0 \in 0 .. N /\ N \in 0 .. N /\ 1 .. 0 = {} /\ {} \in SUBSET (1 .. N)
  OBVIOUS
<1>2. r[0] = b /\ r[N] = c[1 .. N]
  BY <1>1 DEF IsFolded
<1>3. ASSUME NEW n \in 1 .. N, r[n - 1] \in V PROVE r[n] = h[n][r[n - 1]] /\ r[n] \in V
  <2>1. n \in 0 .. N /\ n - 1 \in 0 .. N
    OBVIOUS
  <2>2. /\ 1 .. n \in SUBSET (1 .. N) /\ 1 .. n # {}
        /\ Max(1 .. n) = n /\ (1 .. n) \ {Max(1 .. n)} = 1 .. (n - 1)
    BY TakenFirst
  <2>3. r[n] = h[n][r[n - 1]]
    BY <1>3, <2>1, <2>2 DEF IsFolded
  <2>4. h[n] \in [V -> V]
    BY DEF IsStep
  <2> QED
    BY <1>3, <2>3, <2>4
<1> HIDE DEF r
<1>4. ASSUME NEW n \in 0 .. N, \A k \in 0 .. n - 1 : k \in P PROVE n \in P
  <2>1. CASE n = 0
    BY <1>2, <2>1
  <2>2. CASE n # 0
    <3>1. n \in 1 .. N /\ n - 1 \in 0 .. n - 1
      BY <2>2
    <3>2. r[n - 1] \in V
      BY <1>4, <3>1
    <3> QED
      BY <1>3, <3>1, <3>2
  <2> QED
    BY <2>1, <2>2
<1>5. \A n \in 0 .. N : n \in P
  <2> HIDE DEF P
  <2> QED
    BY <1>4, Upward
<1>6. \A n \in 1 .. N : n - 1 \in 0 .. N /\ r[n - 1] \in V
  BY <1>5
<1>7. r \in [0 .. N -> V]
  BY <1>5 DEF r
<1>8. IsRun(r, N, V, b, h)
  BY <1>2, <1>3, <1>6, <1>7 DEF IsRun
<1> QED
  BY <1>2, <1>8

\* A fold over one position more goes on from where the shorter one ended.
LEMMA RunGoesOn ==
    ASSUME NEW N \in Nat, NEW V, NEW b, NEW h, NEW k, NEW r, NEW q,
           IsRun(r, N, V, b, h), IsRun(q, N + 1, V, b, k), \A n \in 1 .. N : k[n] = h[n]
    PROVE  q[N + 1] = k[N + 1][r[N]] /\ r[N] \in V
<1> DEFINE P == {n \in 0 .. N : r[n] = q[n]}
<1>1. ASSUME NEW n \in 0 .. N, \A i \in 0 .. n - 1 : i \in P PROVE n \in P
  <2>1. CASE n = 0
    BY <2>1 DEF IsRun
  <2>2. CASE n # 0
    <3>1. n \in 1 .. N /\ n \in 1 .. N + 1 /\ n - 1 \in 0 .. n - 1
      BY <2>2
    <3>2. r[n - 1] = q[n - 1]
      BY <1>1, <3>1
    <3> QED
      BY <3>1, <3>2 DEF IsRun
  <2> QED
    BY <2>1, <2>2
<1>2. \A n \in 0 .. N : n \in P
  <2> HIDE DEF P
  <2> QED
    BY <1>1, Upward
<1>3. N \in 0 .. N /\ N + 1 \in 1 .. N + 1 /\ (N + 1) - 1 = N
  OBVIOUS
<1>4. r[N] = q[N]
  BY <1>2, <1>3
<1> QED
  BY <1>3, <1>4 DEF IsRun

\* Appending to the second of two sequences appends to both together.
LEMMA ConcatOfAppend ==
    ASSUME NEW S, NEW s \in Seq(S), NEW t \in Seq(S), NEW e \in S
    PROVE  s \o Append(t, e) = Append(s \o t, e)
<1> DEFINE x == s \o Append(t, e)
           y == Append(s \o t, e)
<1>1. Append(t, e) \in Seq(S) /\ Len(Append(t, e)) = Len(t) + 1 /\ Append(t, e)[Len(t) + 1] = e
      /\ \A i \in 1 .. Len(t) : Append(t, e)[i] = t[i]
  BY AppendElements
<1>2. /\ x \in Seq(S) /\ Len(x) = Len(s) + (Len(t) + 1)
      /\ \A i \in 1 .. Len(s) + (Len(t) + 1) :
            x[i] = IF i <= Len(s) THEN s[i] ELSE Append(t, e)[i - Len(s)]
  BY <1>1, ConcatProperties
<1>3. /\ s \o t \in Seq(S) /\ Len(s \o t) = Len(s) + Len(t)
      /\ \A i \in 1 .. Len(s) + Len(t) : (s \o t)[i] = IF i <= Len(s) THEN s[i] ELSE t[i - Len(s)]
  BY ConcatProperties
<1> DEFINE c == s \o t
<1> HIDE DEF c
<1>4. /\ y \in Seq(S) /\ Len(y) = Len(c) + 1 /\ y[Len(c) + 1] = e
      /\ \A i \in 1 .. Len(c) : y[i] = c[i]
  BY <1>3, AppendElements DEF c
<1>5. Len(s) \in Nat /\ Len(t) \in Nat
  OBVIOUS
<1> DEFINE a == Append(t, e)
<1> HIDE DEF a
<1>6. ASSUME NEW i \in 1 .. Len(s) + Len(t) + 1 PROVE x[i] = y[i]
  <2>1. CASE i <= Len(s)
    BY <1>2, <1>3, <1>4, <1>5, <2>1 DEF c
  <2>2. CASE i > Len(s) /\ i <= Len(s) + Len(t)
    <3>1. i - Len(s) \in 1 .. Len(t) /\ i \in 1 .. Len(s) + Len(t) /\ ~(i <= Len(s))
      BY <1>5, <2>2
    <3>2. x[i] = a[i - Len(s)] /\ a[i - Len(s)] = t[i - Len(s)]
      BY <1>1, <1>2, <1>5, <3>1 DEF a
    <3>3. y[i] = c[i] /\ c[i] = t[i - Len(s)]
      BY <1>3, <1>4, <3>1 DEF c
    <3> QED
      BY <3>2, <3>3
  <2>3. CASE i = Len(s) + Len(t) + 1
    <3>1. i - Len(s) = Len(t) + 1 /\ ~(i <= Len(s)) /\ i \in 1 .. Len(s) + (Len(t) + 1)
      BY <1>5, <2>3
    <3>2. x[i] = a[i - Len(s)]
      BY <1>2, <3>1 DEF a
    <3>3. y[i] = e
      BY <1>3, <1>4, <2>3 DEF c
    <3> QED
      BY <1>1, <3>1, <3>2, <3>3 DEF a
  <2> QED
    BY <1>5, <2>1, <2>2, <2>3
<1>7. Len(x) = Len(s) + Len(t) + 1 /\ Len(y) = Len(s) + Len(t) + 1
  BY <1>2, <1>3, <1>4, <1>5 DEF c
<1> HIDE DEF x, y
<1>8. x = y
  BY <1>2, <1>4, <1>6, <1>7, SeqEqual
<1> QED
  BY <1>8 DEF x, y
============================================================================

--------------------------- MODULE Telemetry_proofs ---------------------------
(***************************************************************************)
(* Proofs about controller/telemetry.py: for every stream of events, what  *)
(* the pass of normalize_events computes is what Telemetry says of it      *)
(* without a pass.                                                         *)
(***************************************************************************)
EXTENDS Telemetry, FiniteSetTheorems, SequenceTheorems, WellFoundedInduction, TLAPS

(* Induction over the length of a stream, from the library's fact that < is *)
(* well founded on Nat.                                                     *)

Less == OpToRel(<, Nat)

\* No descending chain of natural numbers goes on for ever.
LEMMA LessWF == IsWellFoundedOn(Less, Nat)
BY NatLessThanWellFounded DEF Less

\* What the relation says.
LEMMA LessIs == \A x, y \in Nat : <<x, y>> \in Less <=> x < y
BY DEF Less, OpToRel

\* A set with 0, and with each number its successor, holds every number.
LEMMA NatSetInduction ==
  ASSUME NEW S, 0 \in S, \A n \in Nat : n \in S => n + 1 \in S
  PROVE  Nat \subseteq S
<1> DEFINE T == Nat \ S
<1> SUFFICES ASSUME T # {} PROVE FALSE OBVIOUS
<1>1. T \subseteq Nat OBVIOUS
<1> HIDE DEF T
<1>2. PICK x \in T : \A y \in T : ~(<<y, x>> \in Less) BY <1>1, LessWF, WFMin
<1> USE DEF T
<1>3. x \in Nat /\ x # 0 /\ x - 1 \in Nat /\ x = (x - 1) + 1 BY <1>2
<1>4. x - 1 \in T BY <1>2, <1>3
<1>5. x - 1 < x BY <1>3
<1> QED BY <1>2, <1>3, <1>4, <1>5, LessIs

\* The same up to a bound.
LEMMA UpToInduction ==
  ASSUME NEW N \in Nat, NEW S, 0 \in S,
         \A n \in 0 .. N - 1 : n \in S => n + 1 \in S
  PROVE  0 .. N \subseteq S
<1> DEFINE T == {n \in Nat : n \in 0 .. N => n \in S}
<1>1. 0 \in T OBVIOUS
<1>2. \A n \in Nat : n \in T => n + 1 \in T OBVIOUS
<1> HIDE DEF T
<1>3. Nat \subseteq T BY <1>1, <1>2, NatSetInduction
<1> QED BY <1>3 DEF T

-----------------------------------------------------------------------------
(* The two recursive functions.                                            *)

\* The loop of normalize_events: nothing before the first event, and each
\* event is absorbed in turn.
LEMMA PassIs ==
  ASSUME NEW events, Len(events) \in Nat
  PROVE  Pass(events) = [n \in 0 .. Len(events) |->
                           IF n = 0 THEN Nothing
                           ELSE Absorb(Pass(events)[n - 1], events[n])]
<1> DEFINE Rec(f, m) == f = [n \in 0 .. m |-> IF n = 0 THEN Nothing
                                              ELSE Absorb(f[n - 1], events[n])]
           S == {m \in Nat : \E f : Rec(f, m)}
<1>1. 0 \in S
  <2> DEFINE f == [n \in 0 .. 0 |-> Nothing]
  <2>1. Rec(f, 0) OBVIOUS
  <2> QED BY <2>1
<1>2. ASSUME NEW m \in Nat, m \in S PROVE m + 1 \in S
  <2>1. PICK f : Rec(f, m) BY <1>2
  <2> DEFINE g == [n \in 0 .. m + 1 |-> IF n = m + 1 THEN Absorb(f[m], events[m + 1]) ELSE f[n]]
  <2>2. \A n \in 0 .. m + 1 : g[n] = IF n = 0 THEN Nothing
                                      ELSE Absorb(g[n - 1], events[n])
    <3> SUFFICES ASSUME NEW n \in 0 .. m + 1
                 PROVE  g[n] = IF n = 0 THEN Nothing ELSE Absorb(g[n - 1], events[n])
      OBVIOUS
    <3>1. CASE n = m + 1 BY <3>1
    <3>2. CASE n = 0 BY <3>2, <2>1
    <3>3. CASE n \in 1 .. m
      <4>1. g[n] = f[n] /\ g[n - 1] = f[n - 1] BY <3>3
      <4>2. f[n] = Absorb(f[n - 1], events[n]) BY <2>1, <3>3
      <4> QED BY <4>1, <4>2, <3>3
    <3> QED BY <3>1, <3>2, <3>3
  <2> HIDE DEF g
  <2>3. g = [n \in 0 .. m + 1 |-> g[n]] BY DEF g
  <2>4. Rec(g, m + 1) BY <2>2, <2>3
  <2> QED BY <2>4
<1> HIDE DEF Rec
<1>3. Nat \subseteq S
  <2> HIDE DEF S
  <2> QED BY <1>1, <1>2, NatSetInduction
<1>4. \E f : Rec(f, Len(events)) BY <1>3
<1> QED BY <1>4 DEF Pass, Rec

\* The same, read at one place.
LEMMA PassAt ==
  ASSUME NEW events, Len(events) \in Nat
  PROVE  /\ Pass(events)[0] = Nothing
         /\ \A n \in 0 .. Len(events) - 1 :
              Pass(events)[n + 1] = Absorb(Pass(events)[n], events[n + 1])
<1> DEFINE P == Pass(events)
<1>1. P = [n \in 0 .. Len(events) |-> IF n = 0 THEN Nothing
                                      ELSE Absorb(P[n - 1], events[n])] BY PassIs
<1> HIDE DEF P
<1>2. P[0] = Nothing BY <1>1
<1>3. ASSUME NEW n \in 0 .. Len(events) - 1 PROVE P[n + 1] = Absorb(P[n], events[n + 1])
  <2>1. n + 1 \in 0 .. Len(events) /\ n + 1 # 0 /\ (n + 1) - 1 = n OBVIOUS
  <2> QED BY <1>1, <2>1
<1> QED BY <1>2, <1>3 DEF P

\* The sums of the beginnings of a list.
LEMMA SumsIs ==
  ASSUME NEW s, Len(s) \in Nat
  PROVE  Sums(s) = [n \in 0 .. Len(s) |-> IF n = 0 THEN 0 ELSE Sums(s)[n - 1] + s[n]]
<1> DEFINE Rec(f, m) == f = [n \in 0 .. m |-> IF n = 0 THEN 0 ELSE f[n - 1] + s[n]]
           S == {m \in Nat : \E f : Rec(f, m)}
<1>1. 0 \in S
  <2> DEFINE f == [n \in 0 .. 0 |-> 0]
  <2>1. Rec(f, 0) OBVIOUS
  <2> QED BY <2>1
<1>2. ASSUME NEW m \in Nat, m \in S PROVE m + 1 \in S
  <2>1. PICK f : Rec(f, m) BY <1>2
  <2> DEFINE g == [n \in 0 .. m + 1 |-> IF n = m + 1 THEN f[m] + s[m + 1] ELSE f[n]]
  <2>2. \A n \in 0 .. m + 1 : g[n] = IF n = 0 THEN 0 ELSE g[n - 1] + s[n]
    <3> SUFFICES ASSUME NEW n \in 0 .. m + 1
                 PROVE  g[n] = IF n = 0 THEN 0 ELSE g[n - 1] + s[n]
      OBVIOUS
    <3>1. CASE n = m + 1 BY <3>1
    <3>2. CASE n = 0 BY <3>2, <2>1
    <3>3. CASE n \in 1 .. m
      <4>1. g[n] = f[n] /\ g[n - 1] = f[n - 1] BY <3>3
      <4>2. f[n] = f[n - 1] + s[n] BY <2>1, <3>3
      <4> QED BY <4>1, <4>2, <3>3
    <3> QED BY <3>1, <3>2, <3>3
  <2> HIDE DEF g
  <2>3. g = [n \in 0 .. m + 1 |-> g[n]] BY DEF g
  <2>4. Rec(g, m + 1) BY <2>2, <2>3
  <2> QED BY <2>4
<1> HIDE DEF Rec
<1>3. Nat \subseteq S
  <2> HIDE DEF S
  <2> QED BY <1>1, <1>2, NatSetInduction
<1>4. \E f : Rec(f, Len(s)) BY <1>3
<1> QED BY <1>4 DEF Sums, Rec

\* The sums of a list of numbers are numbers, each the one before plus an element.
LEMMA SumsAt ==
  ASSUME NEW s \in Seq(Nat)
  PROVE  /\ Sums(s)[0] = 0
         /\ \A n \in 0 .. Len(s) - 1 : Sums(s)[n + 1] = Sums(s)[n] + s[n + 1]
         /\ \A n \in 0 .. Len(s) : Sums(s)[n] \in Nat
<1> DEFINE P == Sums(s)
<1>1. P = [n \in 0 .. Len(s) |-> IF n = 0 THEN 0 ELSE P[n - 1] + s[n]] BY SumsIs
<1> HIDE DEF P
<1>2. P[0] = 0 BY <1>1
<1>3. ASSUME NEW n \in 0 .. Len(s) - 1 PROVE P[n + 1] = P[n] + s[n + 1]
  <2>1. n + 1 \in 0 .. Len(s) /\ n + 1 # 0 /\ (n + 1) - 1 = n OBVIOUS
  <2> QED BY <1>1, <2>1
<1>4. \A n \in 0 .. Len(s) : P[n] \in Nat
  <2> DEFINE S == {n \in 0 .. Len(s) : P[n] \in Nat}
  <2>1. 0 \in S BY <1>2
  <2>2. \A n \in 0 .. Len(s) - 1 : n \in S => n + 1 \in S BY <1>3
  <2>3. Len(s) \in Nat OBVIOUS
  <2> HIDE DEF S
  <2>4. 0 .. Len(s) \subseteq S BY <2>1, <2>2, <2>3, UpToInduction
  <2> QED BY <2>4 DEF S
<1> QED BY <1>2, <1>3, <1>4 DEF P

\* The total of a list with one more number.
LEMMA TotalAppend ==
  ASSUME NEW s \in Seq(Nat), NEW x \in Nat
  PROVE  Total(Append(s, x)) = Total(s) + x /\ Total(s) \in Nat /\ Total(<<>>) = 0
<1> DEFINE t == Append(s, x)
           S == {n \in 0 .. Len(s) : Sums(t)[n] = Sums(s)[n]}
<1>1. t \in Seq(Nat) /\ Len(t) = Len(s) + 1 /\ t[Len(s) + 1] = x
      /\ \A i \in 1 .. Len(s) : t[i] = s[i]
  OBVIOUS
<1> HIDE DEF t
<1>2. 0 \in S BY <1>1, SumsAt
<1>3. \A n \in 0 .. Len(s) - 1 : n \in S => n + 1 \in S
  <2> SUFFICES ASSUME NEW n \in 0 .. Len(s) - 1, Sums(t)[n] = Sums(s)[n]
               PROVE  Sums(t)[n + 1] = Sums(s)[n + 1]
    OBVIOUS
  <2>1. n \in 0 .. Len(t) - 1 /\ n + 1 \in 1 .. Len(s) BY <1>1
  <2>2. Sums(t)[n + 1] = Sums(t)[n] + t[n + 1] BY <1>1, <2>1, SumsAt
  <2>3. Sums(s)[n + 1] = Sums(s)[n] + s[n + 1] BY SumsAt
  <2> QED BY <1>1, <2>1, <2>2, <2>3
<1>4. Len(s) \in Nat OBVIOUS
<1> HIDE DEF S
<1>5. 0 .. Len(s) \subseteq S BY <1>2, <1>3, <1>4, UpToInduction
<1>6. Sums(t)[Len(s)] = Sums(s)[Len(s)] BY <1>4, <1>5 DEF S
<1>7. Sums(t)[Len(s) + 1] = Sums(t)[Len(s)] + t[Len(s) + 1]
  <2>1. Len(s) \in 0 .. Len(t) - 1 BY <1>1
  <2> QED BY <1>1, <2>1, SumsAt
<1>8. Sums(s)[Len(s)] \in Nat BY SumsAt
<1>9. <<>> \in Seq(Nat) /\ Len(<<>>) = 0 OBVIOUS
<1>10. Sums(<<>>)[0] = 0 BY <1>9, SumsAt
<1> QED BY <1>1, <1>6, <1>7, <1>8, <1>9, <1>10 DEF Total, t

\* What came before does not depend on what comes after: a stream with one
\* more event ends in what that event makes of the rest.
LEMMA AccumulateAppend ==
  ASSUME NEW D, NEW s \in Seq(Event(D)), NEW e \in Event(D)
  PROVE  Accumulate(Append(s, e)) = Absorb(Accumulate(s), e)
<1> DEFINE t == Append(s, e)
           S == {n \in 0 .. Len(s) : Pass(t)[n] = Pass(s)[n]}
<1>1. t \in Seq(Event(D)) /\ Len(t) = Len(s) + 1 /\ t[Len(s) + 1] = e
      /\ \A i \in 1 .. Len(s) : t[i] = s[i]
  OBVIOUS
<1>2. Len(t) \in Nat /\ Len(s) \in Nat OBVIOUS
<1> HIDE DEF t
<1>3. 0 \in S BY <1>2, PassAt
<1>4. \A n \in 0 .. Len(s) - 1 : n \in S => n + 1 \in S
  <2> SUFFICES ASSUME NEW n \in 0 .. Len(s) - 1, Pass(t)[n] = Pass(s)[n]
               PROVE  Pass(t)[n + 1] = Pass(s)[n + 1]
    OBVIOUS
  <2>1. n \in 0 .. Len(t) - 1 /\ n + 1 \in 1 .. Len(s) BY <1>1
  <2>2. Pass(t)[n + 1] = Absorb(Pass(t)[n], t[n + 1]) BY <1>2, <2>1, PassAt
  <2>3. Pass(s)[n + 1] = Absorb(Pass(s)[n], s[n + 1]) BY <1>2, PassAt
  <2> QED BY <1>1, <2>1, <2>2, <2>3
<1> HIDE DEF S
<1>5. 0 .. Len(s) \subseteq S BY <1>2, <1>3, <1>4, UpToInduction
<1>6. Pass(t)[Len(s)] = Pass(s)[Len(s)] BY <1>2, <1>5 DEF S
<1>7. Pass(t)[Len(s) + 1] = Absorb(Pass(t)[Len(s)], t[Len(s) + 1])
  <2>1. Len(s) \in 0 .. Len(t) - 1 BY <1>1
  <2> QED BY <1>2, <2>1, PassAt
<1> QED BY <1>1, <1>6, <1>7 DEF Accumulate, t

-----------------------------------------------------------------------------
(* Positions in order.                                                     *)

\* The empty set has no order to put it in.
LEMMA InOrderEmpty == InOrder({}) = <<>>
<1>1. Cardinality({}) = 0 BY FS_EmptySet
<1> QED BY <1>1 DEF InOrder

\* A position behind all others comes last.
LEMMA InOrderAppend ==
  ASSUME NEW at, IsFiniteSet(at), at \subseteq Nat, InOrder(at) \in Seq(at),
         NEW m \in Nat, \A i \in at : i < m
  PROVE  InOrder(at \cup {m}) = Append(InOrder(at), m)
<1> DEFINE c  == Cardinality(at)
           up == at \cup {m}
           Rank(i)   == Cardinality({j \in at : j <= i})
           RankUp(i) == Cardinality({j \in up : j <= i})
<1>1. c \in Nat /\ Cardinality(up) = c + 1
  <2>1. m \notin at OBVIOUS
  <2> QED BY <2>1, FS_AddElement, FS_CardinalityType
<1>2. \A i \in at : RankUp(i) = Rank(i)
  <2> SUFFICES ASSUME NEW i \in at PROVE RankUp(i) = Rank(i) OBVIOUS
  <2>1. {j \in up : j <= i} = {j \in at : j <= i} OBVIOUS
  <2> QED BY <2>1
<1>3. RankUp(m) = c + 1
  <2>1. \A j \in up : j <= m OBVIOUS
  <2> HIDE DEF up
  <2>2. {j \in up : j <= m} = up BY <2>1
  <2> QED BY <2>2, <1>1
<1>4. \A n \in 1 .. c : (CHOOSE i \in up : RankUp(i) = n) = (CHOOSE i \in at : Rank(i) = n)
  <2> SUFFICES ASSUME NEW n \in 1 .. c
               PROVE  (CHOOSE i \in up : RankUp(i) = n) = (CHOOSE i \in at : Rank(i) = n)
    OBVIOUS
  <2>1. n # c + 1 BY <1>1
  <2> HIDE DEF c
  <2>2. \A i : (i \in up /\ RankUp(i) = n) <=> (i \in at /\ Rank(i) = n)
    BY <1>2, <1>3, <2>1
  <2> HIDE DEF up, Rank, RankUp
  <2> QED BY <2>2
<1>5. (CHOOSE i \in up : RankUp(i) = c + 1) = m
  <2>1. \A i \in at : Rank(i) # c + 1
    <3> SUFFICES ASSUME NEW i \in at PROVE Rank(i) # c + 1 OBVIOUS
    <3>1. Rank(i) <= c /\ Rank(i) \in Nat
      <4>1. {j \in at : j <= i} \subseteq at OBVIOUS
      <4> QED BY <4>1, FS_Subset, FS_CardinalityType
    <3> QED BY <3>1, <1>1
  <2>2. \A i \in up : RankUp(i) = c + 1 <=> i = m
    <3> HIDE DEF c, Rank, RankUp
    <3> QED BY <1>2, <1>3, <2>1
  <2>3. m \in up OBVIOUS
  <2> HIDE DEF up, Rank, RankUp, c
  <2> QED BY <2>2, <2>3
<1>6. InOrder(up) = [n \in 1 .. c + 1 |-> CHOOSE i \in up : RankUp(i) = n]
  BY <1>1 DEF InOrder
<1>7. InOrder(at) = [n \in 1 .. c |-> CHOOSE i \in at : Rank(i) = n] BY DEF InOrder
<1>8. \A n \in 1 .. c + 1 : InOrder(up)[n] = IF n = c + 1 THEN m ELSE InOrder(at)[n]
  <2> SUFFICES ASSUME NEW n \in 1 .. c + 1
               PROVE  InOrder(up)[n] = IF n = c + 1 THEN m ELSE InOrder(at)[n]
    OBVIOUS
  <2> HIDE DEF c, up, Rank, RankUp
  <2>1. InOrder(up)[n] = CHOOSE i \in up : RankUp(i) = n BY <1>6
  <2>2. CASE n = c + 1 BY <2>1, <2>2, <1>5
  <2>3. CASE n # c + 1
    <3>1. n \in 1 .. c BY <2>3, <1>1
    <3> QED BY <3>1, <2>1, <2>3, <1>4, <1>7
  <2> QED BY <2>2, <2>3
<1>9. Len(InOrder(at)) = c
  <2> HIDE DEF c, Rank
  <2> QED BY <1>1, <1>7
<1> HIDE DEF c, up, Rank, RankUp
<1>10. InOrder(up) = [n \in 1 .. c + 1 |-> InOrder(up)[n]] BY <1>6
<1>11. InOrder(up) = Append(InOrder(at), m)
  <2> DEFINE s == InOrder(at)
             u == InOrder(up)
             a == Append(s, m)
  <2>1. s \in Seq(Nat) /\ Len(s) = c
    <3>1. InOrder(at) \in Seq(Nat) BY SeqMonotonic
    <3> QED BY <3>1, <1>9
  <2>2. u = [n \in 1 .. c + 1 |-> u[n]] BY <1>10
  <2>3. \A n \in 1 .. c + 1 : u[n] = IF n = c + 1 THEN m ELSE s[n] BY <1>8
  <2> HIDE DEF s, u
  <2>4. a \in Seq(Nat) /\ Len(a) = c + 1 BY <2>1
  <2>5. \A n \in 1 .. c + 1 : a[n] = IF n = c + 1 THEN m ELSE s[n] BY <2>1
  <2> HIDE DEF a
  <2>6. a = [n \in 1 .. c + 1 |-> a[n]] BY <2>4
  <2>7. u = a BY <2>2, <2>3, <2>5, <2>6
  <2> QED BY <2>7 DEF s, u, a
<1> QED BY <1>11 DEF up

\* Positions in order are a list of these positions, of all of them, and each
\* comes before the larger ones.
LEMMA InOrderSorts ==
  ASSUME NEW N \in Nat, NEW at \in SUBSET (1 .. N)
  PROVE  /\ InOrder(at) \in Seq(at)
         /\ \A k \in at : \E i \in DOMAIN InOrder(at) : InOrder(at)[i] = k
         /\ \A i, j \in DOMAIN InOrder(at) : i < j => InOrder(at)[i] < InOrder(at)[j]
<1> DEFINE Sorted(s, b) == /\ s \in Seq(b)
                           /\ \A k \in b : \E i \in DOMAIN s : s[i] = k
                           /\ \A i, j \in DOMAIN s : i < j => s[i] < s[j]
           S == {n \in Nat : \A b \in SUBSET (1 .. n) : Sorted(InOrder(b), b)}
<1>1. 0 \in S
  <2>1. \A b \in SUBSET (1 .. 0) : b = {} OBVIOUS
  <2>2. Sorted(<<>>, {}) OBVIOUS
  <2> HIDE DEF Sorted
  <2> QED BY <2>1, <2>2, InOrderEmpty
<1>2. ASSUME NEW n \in Nat, n \in S PROVE n + 1 \in S
  <2> SUFFICES ASSUME NEW b \in SUBSET (1 .. n + 1) PROVE Sorted(InOrder(b), b) OBVIOUS
  <2>1. CASE n + 1 \notin b
    <3>1. b \in SUBSET (1 .. n) BY <2>1
    <3> QED BY <3>1, <1>2
  <2>2. CASE n + 1 \in b
    <3> DEFINE d == b \ {n + 1}
               s == InOrder(d)
    <3>1. d \in SUBSET (1 .. n) /\ b = d \cup {n + 1} BY <2>2
    <3>2. Sorted(s, d) BY <3>1, <1>2
    <3>3. IsFiniteSet(d)
      <4>1. IsFiniteSet(1 .. n) BY FS_Interval
      <4> QED BY <3>1, <4>1, FS_Subset
    <3> HIDE DEF d
    <3>4. d \subseteq Nat /\ \A i \in d : i < n + 1 BY <3>1
    <3>5. n + 1 \in Nat OBVIOUS
    <3>6. InOrder(b) = Append(s, n + 1)
      BY <3>1, <3>2, <3>3, <3>4, <3>5, InOrderAppend
    <3> HIDE DEF s
    <3>7. s \in Seq(b) BY <3>1, <3>2, SeqMonotonic
    <3> DEFINE a == Append(s, n + 1)
    <3>8. /\ a \in Seq(b) /\ Len(a) = Len(s) + 1
          /\ \A i \in 1 .. Len(s) : a[i] = s[i]
          /\ a[Len(s) + 1] = n + 1
      BY <2>2, <3>7, AppendProperties
    <3>9. Len(s) \in Nat /\ DOMAIN s = 1 .. Len(s) /\ DOMAIN a = 1 .. Len(s) + 1
          /\ \A i \in DOMAIN s : s[i] \in d
      BY <3>2, <3>7, <3>8
    <3> HIDE DEF a
    <3>10. \A k \in b : \E i \in DOMAIN a : a[i] = k
      <4> SUFFICES ASSUME NEW k \in b PROVE \E i \in DOMAIN a : a[i] = k OBVIOUS
      <4>1. CASE k = n + 1 BY <3>8, <3>9, <4>1
      <4>2. CASE k \in d
        <5>1. PICK i \in DOMAIN s : s[i] = k BY <3>2, <4>2
        <5>2. i \in DOMAIN a /\ a[i] = k BY <5>1, <3>8, <3>9
        <5> QED BY <5>2
      <4> QED BY <3>1, <4>1, <4>2
    <3>11. \A i, j \in DOMAIN a : i < j => a[i] < a[j]
      <4> SUFFICES ASSUME NEW i \in DOMAIN a, NEW j \in DOMAIN a, i < j PROVE a[i] < a[j]
        OBVIOUS
      <4>1. i \in DOMAIN s /\ a[i] = s[i] BY <3>8, <3>9
      <4>2. CASE j = Len(s) + 1
        <5>1. s[i] \in d BY <4>1, <3>9
        <5> QED BY <4>1, <4>2, <5>1, <3>4, <3>8
      <4>3. CASE j \in 1 .. Len(s)
        <5>1. s[i] < s[j] BY <4>1, <4>3, <3>2, <3>9
        <5> QED BY <4>1, <4>3, <5>1, <3>8
      <4> QED BY <4>2, <4>3, <3>9
    <3>12. Sorted(a, b) BY <3>8, <3>10, <3>11
    <3> QED BY <3>6, <3>12 DEF a
  <2> QED BY <2>1, <2>2
<1> HIDE DEF S
<1>3. Nat \subseteq S BY <1>1, <1>2, NatSetInduction
<1>4. Sorted(InOrder(at), at) BY <1>3 DEF S
<1> QED BY <1>4

\* The next position comes last.
LEMMA InOrderNext ==
  ASSUME NEW n \in Nat, NEW at \in SUBSET (1 .. n)
  PROVE  InOrder(at \cup {n + 1}) = Append(InOrder(at), n + 1)
<1>1. IsFiniteSet(at)
  <2>1. IsFiniteSet(1 .. n) BY FS_Interval
  <2> QED BY <2>1, FS_Subset
<1>2. at \subseteq Nat /\ \A i \in at : i < n + 1 OBVIOUS
<1>3. InOrder(at) \in Seq(at) BY InOrderSorts
<1>4. n + 1 \in Nat OBVIOUS
<1> QED BY <1>1, <1>2, <1>3, <1>4, InOrderAppend

-----------------------------------------------------------------------------
(* Types.                                                                  *)

Call == {ToolName(t) : t \in Tool}

Step ==
  [role : ValidStepRole, reason : STRING, in : Nat, out : Nat, cached : Nat,
   tools : Seq(Call)]

\* What the loop holds.
Held(D) ==
  [steps : Seq(Step), pending : Seq(Call), guards : SUBSET Guard, patch : D \cup {{}}]

\* A tool event names a tool.
LEMMA ToolNameType == ASSUME NEW e \in ToolEvent PROVE ToolName(e) \in Call
<1> DEFINE t == [name |-> e.name, sub |-> e.sub]
<1>1. t \in Tool BY DEF ToolEvent, Tool
<1>2. ToolName(t) = ToolName(e) BY DEF ToolName
<1> QED BY <1>1, <1>2 DEF Call

\* An event is of one kind, and has the fields of that kind.
LEMMA EventKinds ==
  ASSUME NEW D, NEW e \in Event(D)
  PROVE  /\ e.kind \in {"start", "tool", "step", "text", "patch"}
         /\ e.kind = "tool" => e \in ToolEvent
         /\ e.kind = "step" => e \in StepEvent
         /\ e.kind = "text" => e.guard \in Guard
         /\ e.kind = "patch" => e.diff \in D
BY DEF Event, ToolEvent, StepEvent

\* The tools a step names itself.
LEMMA OwnToolsType == ASSUME NEW e \in StepEvent PROVE OwnTools(e) \in Seq(Call)
<1>1. e.own \in Seq(Tool) BY DEF StepEvent
<1>2. Len(e.own) \in Nat /\ DOMAIN e.own = 1 .. Len(e.own) BY <1>1
<1>3. \A i \in 1 .. Len(e.own) : ToolName(e.own[i]) \in Call
  <2> SUFFICES ASSUME NEW i \in 1 .. Len(e.own) PROVE ToolName(e.own[i]) \in Call
    OBVIOUS
  <2>1. e.own[i] \in Tool BY <1>1
  <2> QED BY <2>1 DEF Call
<1> QED BY <1>2, <1>3 DEF OwnTools

\* A step of an event and a list of tools.
LEMMA CoerceStepType ==
  ASSUME NEW e \in StepEvent, NEW tools \in Seq(Call) PROVE CoerceStep(e, tools) \in Step
<1>1. e.reason \in STRING /\ e.in \in Nat /\ e.out \in Nat /\ e.cached \in Nat
  BY DEF StepEvent
<1>2. NormalizeRole(e.role) \in ValidStepRole BY DEF NormalizeRole, ValidStepRole
<1> QED BY <1>1, <1>2 DEF CoerceStep, Step

\* The body of the loop keeps the types.
LEMMA AbsorbType ==
  ASSUME NEW D, NEW acc \in Held(D), NEW e \in Event(D) PROVE Absorb(acc, e) \in Held(D)
<1>1. /\ acc.steps \in Seq(Step) /\ acc.pending \in Seq(Call)
      /\ acc.guards \subseteq Guard /\ acc.patch \in D \cup {{}}
  BY DEF Held
<1>2. e.kind = "step" => StepsWith(acc, e) \in Seq(Step)
  <2> SUFFICES ASSUME e \in StepEvent PROVE StepsWith(acc, e) \in Seq(Step)
    BY EventKinds
  <2> DEFINE tools == IF e.own = <<>> THEN acc.pending ELSE OwnTools(e)
  <2>1. tools \in Seq(Call) BY <1>1, OwnToolsType
  <2> HIDE DEF tools
  <2>2. CoerceStep(e, tools) \in Step BY <2>1, CoerceStepType
  <2>3. Append(acc.steps, CoerceStep(e, tools)) \in Seq(Step) BY <1>1, <2>2
  <2> QED BY <2>3 DEF StepsWith, tools
<1>3. e.kind = "tool" => Append(acc.pending, ToolName(e)) \in Seq(Call)
  <2> SUFFICES ASSUME e \in ToolEvent PROVE Append(acc.pending, ToolName(e)) \in Seq(Call)
    BY EventKinds
  <2>1. ToolName(e) \in Call BY ToolNameType
  <2> QED BY <1>1, <2>1
<1>4. <<>> \in Seq(Call) OBVIOUS
<1>5. e.kind = "text" => {e.guard} \ {"none"} \subseteq Guard BY EventKinds
<1>6. e.kind = "patch" => e.diff \in D \cup {{}} BY EventKinds
<1> QED BY <1>1, <1>2, <1>3, <1>4, <1>5, <1>6 DEF Absorb, Held

\* So the loop keeps them.
LEMMA PassType ==
  ASSUME NEW D, NEW events \in Seq(Event(D))
  PROVE  \A n \in 0 .. Len(events) : Pass(events)[n] \in Held(D)
<1> DEFINE S == {n \in 0 .. Len(events) : Pass(events)[n] \in Held(D)}
<1>1. Len(events) \in Nat OBVIOUS
<1>2. 0 \in S
  <2>1. Nothing \in Held(D) BY DEF Nothing, Held
  <2> QED BY <1>1, <2>1, PassAt
<1>3. ASSUME NEW n \in 0 .. Len(events) - 1, n \in S PROVE n + 1 \in S
  <2>1. events[n + 1] \in Event(D) BY <1>1
  <2>2. Pass(events)[n] \in Held(D) BY <1>3
  <2>3. Pass(events)[n + 1] = Absorb(Pass(events)[n], events[n + 1]) BY <1>1, PassAt
  <2> QED BY <1>1, <2>1, <2>2, <2>3, AbsorbType
<1> HIDE DEF S
<1>4. 0 .. Len(events) \subseteq S BY <1>1, <1>2, <1>3, UpToInduction
<1> QED BY <1>4 DEF S

-----------------------------------------------------------------------------
(* Attribution.                                                            *)

\* Which tools have run since the latest start or end of a step.
LEMMA RanBeforeNext ==
  ASSUME NEW events, NEW k \in Nat \ {0}
  PROVE  RanBefore(events, k + 1) =
           IF events[k].kind \in {"start", "step"} THEN {}
           ELSE IF events[k].kind = "tool" THEN RanBefore(events, k) \cup {k}
           ELSE RanBefore(events, k)
<1> DEFINE Apart(i, m) == \A j \in i .. m : events[j].kind \notin {"start", "step"}
<1>1. (k + 1) - 1 = k /\ k - 1 \in Nat OBVIOUS
<1>2. RanBefore(events, k + 1) = {i \in 1 .. k : events[i].kind = "tool" /\ Apart(i, k)}
  BY <1>1 DEF RanBefore
<1>3. RanBefore(events, k) = {i \in 1 .. k - 1 : events[i].kind = "tool" /\ Apart(i, k - 1)}
  BY DEF RanBefore
<1>4. ASSUME NEW i \in 1 .. k
      PROVE  Apart(i, k) <=> Apart(i, k - 1) /\ events[k].kind \notin {"start", "step"}
  <2>1. \A j : j \in i .. k <=> (j \in i .. k - 1 \/ j = k) OBVIOUS
  <2> QED BY <2>1
<1>5. Apart(k, k - 1) OBVIOUS
<1> DEFINE ran == RanBefore(events, k)
           now == RanBefore(events, k + 1)
<1> HIDE DEF Apart
<1>6. \A i : i \in now <=> i \in 1 .. k /\ events[i].kind = "tool" /\ Apart(i, k) BY <1>2
<1>7. \A i : i \in ran <=> i \in 1 .. k - 1 /\ events[i].kind = "tool" /\ Apart(i, k - 1)
  BY <1>3
<1>8. \A i : i \in 1 .. k <=> i \in 1 .. k - 1 \/ i = k OBVIOUS
<1> HIDE DEF ran, now
<1>9. CASE events[k].kind \in {"start", "step"} 
  <2>1. \A i : i \notin now BY <1>4, <1>6, <1>9
  <2>2. now = {} BY <2>1
  <2> QED BY <2>2, <1>9 DEF now
<1>10. CASE events[k].kind = "tool"
  <2>1. \A i : i \in now <=> i \in ran \/ i = k BY <1>4, <1>5, <1>6, <1>7, <1>8, <1>10
  <2>2. now = ran \cup {k} BY <2>1
  <2> QED BY <2>2, <1>10 DEF now, ran
<1>11. CASE events[k].kind \notin {"start", "step", "tool"}
  <2>1. \A i : i \in now <=> i \in ran BY <1>4, <1>6, <1>7, <1>8, <1>11
  <2>2. now = ran BY <2>1
  <2> QED BY <2>2, <1>11 DEF now, ran
<1> QED BY <1>9, <1>10, <1>11

\* Which steps have been finished.
LEMMA StepsAtNext ==
  ASSUME NEW events, NEW n \in Nat
  PROVE  /\ StepsAt(events, 0) = {}
         /\ StepsAt(events, n + 1) = IF events[n + 1].kind = "step"
                                     THEN StepsAt(events, n) \cup {n + 1}
                                     ELSE StepsAt(events, n)
<1>1. 1 .. n + 1 = 1 .. n \cup {n + 1} OBVIOUS
<1> QED BY <1>1 DEF StepsAt

\* One more place in a list of places is one more name in the list of names.
LEMMA ToolNamesAppend ==
  ASSUME NEW t, NEW at \in Seq(Nat), NEW m \in Nat
  PROVE  ToolNames(t, Append(at, m)) = Append(ToolNames(t, at), ToolName(t[m]))
BY DEF ToolNames

\* A step that finishes comes behind the steps before it.
LEMMA AttributedNext ==
  ASSUME NEW events, NEW n \in Nat
  PROVE  AttributedSteps(events, n + 1) =
           IF events[n + 1].kind = "step"
           THEN Append(AttributedSteps(events, n),
                       CoerceStep(events[n + 1], ToolsOfStep(events, n + 1)))
           ELSE AttributedSteps(events, n)
<1> DEFINE at == StepsAt(events, n)
           s  == InOrder(at)
           F(i) == CoerceStep(events[i], ToolsOfStep(events, i))
<1>1. CASE events[n + 1].kind # "step"
  <2>1. StepsAt(events, n + 1) = at BY <1>1, StepsAtNext
  <2> QED BY <1>1, <2>1 DEF AttributedSteps
<1>2. CASE events[n + 1].kind = "step"
  <2>1. at \in SUBSET (1 .. n) BY DEF StepsAt
  <2>2. InOrder(StepsAt(events, n + 1)) = Append(s, n + 1)
    BY <1>2, <2>1, StepsAtNext, InOrderNext
  <2>3. s \in Seq(Nat)
    <3>1. s \in Seq(at) BY <2>1, InOrderSorts
    <3>2. at \subseteq Nat BY <2>1
    <3> HIDE DEF at, s
    <3> QED BY <3>1, <3>2, SeqMonotonic
  <2>4. AttributedSteps(events, n) = [i \in DOMAIN s |-> F(s[i])]
    BY DEF AttributedSteps
  <2>5. AttributedSteps(events, n + 1)
          = [i \in DOMAIN Append(s, n + 1) |-> F(Append(s, n + 1)[i])]
    BY <2>2 DEF AttributedSteps
  <2> HIDE DEF s, F
  <2>6. [i \in DOMAIN Append(s, n + 1) |-> F(Append(s, n + 1)[i])]
          = Append([i \in DOMAIN s |-> F(s[i])], F(n + 1))
    BY <2>3
  <2>7. AttributedSteps(events, n + 1) = Append(AttributedSteps(events, n), F(n + 1))
    BY <2>4, <2>5, <2>6
  <2> QED BY <1>2, <2>7 DEF F
<1> QED BY <1>1, <1>2

\* After every event, the steps are those finished so far with the tools that
\* are theirs, and the pending tools are those the next step would get.
LEMMA PassAttributes ==
  ASSUME NEW D, NEW events \in Seq(Event(D))
  PROVE  \A n \in 0 .. Len(events) :
           /\ Pass(events)[n].steps = AttributedSteps(events, n)
           /\ Pass(events)[n].pending
                = ToolNames(events, InOrder(RanBefore(events, n + 1)))
<1> DEFINE Ok(n) == /\ Pass(events)[n].steps = AttributedSteps(events, n)
                    /\ Pass(events)[n].pending
                         = ToolNames(events, InOrder(RanBefore(events, n + 1)))
           S == {n \in 0 .. Len(events) : Ok(n)}
<1>1. Len(events) \in Nat OBVIOUS
<1>2. Ok(0)
  <2>1. Pass(events)[0] = Nothing BY <1>1, PassAt
  <2>2. StepsAt(events, 0) = {} BY DEF StepsAt
  <2>3. RanBefore(events, 0 + 1) = {} BY DEF RanBefore
  <2>4. AttributedSteps(events, 0) = <<>>
    <3>1. InOrder(StepsAt(events, 0)) = <<>> BY <2>2, InOrderEmpty
    <3> QED BY <3>1 DEF AttributedSteps
  <2>5. ToolNames(events, <<>>) = <<>> BY DEF ToolNames
  <2>6. Nothing.steps = <<>> /\ Nothing.pending = <<>> BY DEF Nothing
  <2>7. InOrder(RanBefore(events, 0 + 1)) = <<>> BY <2>3, InOrderEmpty
  <2> QED BY <2>1, <2>4, <2>5, <2>6, <2>7
<1>3. ASSUME NEW n \in 0 .. Len(events) - 1, Ok(n) PROVE Ok(n + 1)
  <2> DEFINE e   == events[n + 1]
             acc == Pass(events)[n]
             ran == RanBefore(events, n + 1)
  <2>1. Pass(events)[n + 1] = Absorb(acc, e) BY <1>1, PassAt
  <2>2. /\ acc.steps = AttributedSteps(events, n)
        /\ acc.pending = ToolNames(events, InOrder(ran))
    BY <1>3
  <2>3. n \in Nat /\ n + 1 \in Nat \ {0} /\ n + 1 \in 1 .. Len(events) BY <1>1
  <2>4. ran \in SUBSET (1 .. n) BY <2>3 DEF RanBefore
  <2>6. /\ Absorb(acc, e).steps = IF e.kind = "step" THEN StepsWith(acc, e) ELSE acc.steps
        /\ Absorb(acc, e).pending = IF e.kind = "tool" THEN Append(acc.pending, ToolName(e))
                                    ELSE IF e.kind \in {"start", "step"} THEN <<>>
                                    ELSE acc.pending
    BY DEF Absorb
  <2>7. Absorb(acc, e).pending = ToolNames(events, InOrder(RanBefore(events, n + 1 + 1)))
    <3>1. RanBefore(events, n + 1 + 1) = IF e.kind \in {"start", "step"} THEN {}
                                         ELSE IF e.kind = "tool" THEN ran \cup {n + 1}
                                         ELSE ran
      BY <2>3, RanBeforeNext
    <3>2. CASE e.kind = "tool"
      <4>1. InOrder(ran \cup {n + 1}) = Append(InOrder(ran), n + 1)
        BY <2>3, <2>4, InOrderNext
      <4>2. InOrder(ran) \in Seq(Nat)
        <5>1. InOrder(ran) \in Seq(ran) BY <2>3, <2>4, InOrderSorts
        <5>2. ran \subseteq Nat BY <2>4
        <5> HIDE DEF ran
        <5> QED BY <5>1, <5>2, SeqMonotonic
      <4>3. ToolNames(events, Append(InOrder(ran), n + 1))
              = Append(ToolNames(events, InOrder(ran)), ToolName(e))
        BY <4>2, <2>3, ToolNamesAppend
      <4> QED BY <3>1, <3>2, <4>1, <4>3, <2>2, <2>6
    <3>3. CASE e.kind \in {"start", "step"}
      <4>1. ToolNames(events, <<>>) = <<>> BY DEF ToolNames
      <4> QED BY <3>1, <3>3, <4>1, <2>6, InOrderEmpty
    <3>4. CASE e.kind \notin {"tool", "start", "step"} BY <3>1, <3>4, <2>2, <2>6
    <3> QED BY <3>2, <3>3, <3>4
  <2>8. Absorb(acc, e).steps = AttributedSteps(events, n + 1)
    <3>1. CASE e.kind # "step"
      <4>1. AttributedSteps(events, n + 1) = AttributedSteps(events, n)
        BY <2>3, <3>1, AttributedNext
      <4> QED BY <4>1, <3>1, <2>2, <2>6
    <3>2. CASE e.kind = "step"
      <4>1. StepsWith(acc, e)
              = Append(AttributedSteps(events, n), CoerceStep(e, ToolsOfStep(events, n + 1)))
        BY <2>2, <2>3 DEF StepsWith, ToolsOfStep
      <4>2. AttributedSteps(events, n + 1)
              = Append(AttributedSteps(events, n), CoerceStep(e, ToolsOfStep(events, n + 1)))
        BY <2>3, <3>2, AttributedNext
      <4> QED BY <4>1, <4>2, <3>2, <2>6
    <3> QED BY <3>1, <3>2
  <2> QED BY <2>1, <2>7, <2>8
<1> HIDE DEF Ok
<1>4. 0 \in S BY <1>1, <1>2
<1>5. \A n \in 0 .. Len(events) - 1 : n \in S => n + 1 \in S BY <1>1, <1>3
<1> HIDE DEF S
<1>6. 0 .. Len(events) \subseteq S BY <1>1, <1>4, <1>5, UpToInduction
<1>7. \A n \in 0 .. Len(events) : Ok(n) BY <1>6 DEF S
<1> QED BY <1>7 DEF Ok

\* The steps that normalize_events returns are those the stream finishes, in
\* its order, and each has the tools it names itself, or those that have run
\* since the latest start or end of a step: for every stream.
THEOREM StepsAttributed ==
  ASSUME NEW D, NEW events \in Seq(Event(D))
  PROVE  Normalize(events).steps = AttributedSteps(events, Len(events))
<1>1. Len(events) \in 0 .. Len(events) OBVIOUS
<1> QED BY <1>1, PassAttributes DEF Normalize, Accumulate

\* The tools of a step are a list of names.
LEMMA ToolsOfStepType ==
  ASSUME NEW D, NEW events \in Seq(Event(D)), NEW k \in 1 .. Len(events),
         events[k].kind = "step"
  PROVE  ToolsOfStep(events, k) \in Seq(Call)
<1>1. events[k] \in StepEvent
  <2>1. events[k] \in Event(D) OBVIOUS
  <2> QED BY <2>1, EventKinds
<1>2. ToolNames(events, InOrder(RanBefore(events, k))) \in Seq(Call)
  <2>1. k - 1 \in 0 .. Len(events) /\ (k - 1) + 1 = k OBVIOUS
  <2>2. Pass(events)[k - 1] \in Held(D) BY <2>1, PassType
  <2>3. Pass(events)[k - 1].pending \in Seq(Call) BY <2>2 DEF Held
  <2>4. Pass(events)[k - 1].pending
          = ToolNames(events, InOrder(RanBefore(events, (k - 1) + 1)))
    BY <2>1, PassAttributes
  <2> QED BY <2>1, <2>3, <2>4
<1> QED BY <1>1, <1>2, OwnToolsType DEF ToolsOfStep

\* The calls of a step more.
LEMMA CallsOfNext ==
  ASSUME NEW D, NEW events \in Seq(Event(D)), NEW n \in 0 .. Len(events) - 1,
         IsFiniteSet(CallsOf(events, n)), events[n + 1].kind = "step"
  PROVE  /\ IsFiniteSet(CallsOf(events, n + 1))
         /\ Cardinality(CallsOf(events, n + 1))
              = Cardinality(CallsOf(events, n)) + Len(ToolsOfStep(events, n + 1))
<1> DEFINE old == CallsOf(events, n)
           new == {n + 1} \X DOMAIN ToolsOfStep(events, n + 1)
           t   == Len(ToolsOfStep(events, n + 1))
<1>1. n \in Nat /\ n + 1 \in 1 .. Len(events) OBVIOUS
<1>2. t \in Nat /\ DOMAIN ToolsOfStep(events, n + 1) = 1 .. t
  <2>1. ToolsOfStep(events, n + 1) \in Seq(Call) BY <1>1, ToolsOfStepType
  <2> QED BY <2>1
<1>3. CallsOf(events, n + 1) = old \cup new
  <2>1. StepsAt(events, n + 1) = StepsAt(events, n) \cup {n + 1} BY <1>1, StepsAtNext
  <2> QED BY <2>1 DEF CallsOf
<1>4. old \cap new = {}
  <2> SUFFICES ASSUME NEW c \in old, c \in new PROVE FALSE OBVIOUS
  <2>1. PICK k \in StepsAt(events, n) : c \in {k} \X DOMAIN ToolsOfStep(events, k)
    BY DEF CallsOf
  <2>2. c[1] = k /\ c[1] = n + 1 BY <2>1
  <2>3. k \in 1 .. n BY DEF StepsAt
  <2> QED BY <2>2, <2>3, <1>1
<1>5. IsFiniteSet(new) /\ Cardinality(new) = t
  <2>1. IsFiniteSet({n + 1}) /\ Cardinality({n + 1}) = 1 BY FS_Singleton
  <2>2. IsFiniteSet(1 .. t) /\ Cardinality(1 .. t) = t
    <3>1. 1 \in Int /\ t \in Int BY <1>2
    <3>2. Cardinality(1 .. t) = IF 1 > t THEN 0 ELSE t - 1 + 1 BY <3>1, FS_Interval
    <3> HIDE DEF t
    <3> QED BY <1>2, <3>1, <3>2, FS_Interval
  <2>3. /\ IsFiniteSet({n + 1} \X (1 .. t))
        /\ Cardinality({n + 1} \X (1 .. t)) = Cardinality({n + 1}) * Cardinality(1 .. t)
    BY <2>1, <2>2, FS_Product
  <2>4. Cardinality({n + 1} \X (1 .. t)) = 1 * t BY <2>1, <2>2, <2>3
  <2>5. t \in Nat BY <1>2
  <2> HIDE DEF t
  <2>6. 1 * t = t BY <2>5
  <2>7. new = {n + 1} \X (1 .. t) BY <1>2
  <2> HIDE DEF new
  <2> QED BY <2>3, <2>4, <2>6, <2>7
<1>6. Cardinality(old) \in Nat BY FS_CardinalityType
<1>7. Cardinality({}) = 0 BY FS_EmptySet
<1> HIDE DEF old, new, t
<1>8. /\ IsFiniteSet(old \cup new)
      /\ Cardinality(old \cup new)
           = Cardinality(old) + Cardinality(new) - Cardinality(old \cap new)
  <2>1. IsFiniteSet(old) BY DEF old
  <2> QED BY <2>1, <1>5, FS_Union
<1>9. Cardinality(old \cup new) = Cardinality(old) + t
  <2>1. Cardinality(old \cap new) = 0 BY <1>4, <1>7
  <2>2. Cardinality(new) = t /\ t \in Nat BY <1>2, <1>5
  <2>3. Cardinality(old) \in Nat BY <1>6
  <2> DEFINE o == Cardinality(old)
             u == Cardinality(old \cup new)
  <2>4. u = o + t - 0 BY <1>8, <2>1, <2>2
  <2> HIDE DEF o, u
  <2>5. o \in Nat BY <2>3 DEF o
  <2> QED BY <2>2, <2>4, <2>5 DEF o, u
<1> QED BY <1>3, <1>8, <1>9 DEF old, t

\* The figures of a list of steps, with one step more.
LEMMA FiguresAppend ==
  ASSUME NEW s \in Seq(Step), NEW x \in Step
  PROVE  /\ Ins(s) \in Seq(Nat) /\ Ins(Append(s, x)) = Append(Ins(s), x.in)
         /\ Outs(s) \in Seq(Nat) /\ Outs(Append(s, x)) = Append(Outs(s), x.out)
         /\ Cacheds(s) \in Seq(Nat) /\ Cacheds(Append(s, x)) = Append(Cacheds(s), x.cached)
         /\ ToolCounts(s) \in Seq(Nat)
         /\ ToolCounts(Append(s, x)) = Append(ToolCounts(s), Len(x.tools))
         /\ x.in \in Nat /\ x.out \in Nat /\ x.cached \in Nat /\ Len(x.tools) \in Nat
<1>1. \A y \in Step : y.in \in Nat /\ y.out \in Nat /\ y.cached \in Nat /\ Len(y.tools) \in Nat
  <2> SUFFICES ASSUME NEW y \in Step
               PROVE  y.in \in Nat /\ y.out \in Nat /\ y.cached \in Nat /\ Len(y.tools) \in Nat
    OBVIOUS
  <2>1. y.tools \in Seq(Call) BY DEF Step
  <2>2. Len(y.tools) \in Nat BY <2>1
  <2> QED BY <2>2 DEF Step
<1>2. Len(s) \in Nat /\ DOMAIN s = 1 .. Len(s) /\ \A i \in 1 .. Len(s) : s[i] \in Step OBVIOUS
<1>3. Ins(s) \in Seq(Nat) BY <1>1, <1>2 DEF Ins
<1>4. Outs(s) \in Seq(Nat) BY <1>1, <1>2 DEF Outs
<1>5. Cacheds(s) \in Seq(Nat) BY <1>1, <1>2 DEF Cacheds
<1>6. ToolCounts(s) \in Seq(Nat) BY <1>1, <1>2 DEF ToolCounts
<1>7. Ins(Append(s, x)) = Append(Ins(s), x.in) BY <1>2 DEF Ins
<1>8. Outs(Append(s, x)) = Append(Outs(s), x.out) BY <1>2 DEF Outs
<1>9. Cacheds(Append(s, x)) = Append(Cacheds(s), x.cached) BY <1>2 DEF Cacheds
<1>10. ToolCounts(Append(s, x)) = Append(ToolCounts(s), Len(x.tools)) BY <1>2 DEF ToolCounts
<1> QED BY <1>1, <1>3, <1>4, <1>5, <1>6, <1>7, <1>8, <1>9, <1>10

\* The number of tool calls that normalize_events reports is the number of
\* calls the stream shows, each counted once, for the step it belongs to.
THEOREM CallsCounted ==
  ASSUME NEW D, NEW events \in Seq(Event(D))
  PROVE  Normalize(events).tool_calls = Cardinality(CallsOf(events, Len(events)))
<1> DEFINE A(n)  == AttributedSteps(events, n)
           Ok(n) == /\ IsFiniteSet(CallsOf(events, n))
                    /\ Total(ToolCounts(A(n))) = Cardinality(CallsOf(events, n))
           S == {n \in 0 .. Len(events) : Ok(n)}
<1>1. Len(events) \in Nat OBVIOUS
<1>2. ASSUME NEW n \in 0 .. Len(events) PROVE A(n) \in Seq(Step)
  <2>1. Pass(events)[n].steps \in Seq(Step) BY PassType DEF Held
  <2> QED BY <2>1, PassAttributes
<1>3. Ok(0)
  <2>1. StepsAt(events, 0) = {} BY DEF StepsAt
  <2>2. CallsOf(events, 0) = {} BY <2>1 DEF CallsOf
  <2>3. A(0) = <<>>
    <3>1. InOrder(StepsAt(events, 0)) = <<>> BY <2>1, InOrderEmpty
    <3> QED BY <3>1 DEF AttributedSteps
  <2>4. ToolCounts(<<>>) = <<>> BY DEF ToolCounts
  <2>5. <<>> \in Seq(Nat) /\ 0 \in Nat OBVIOUS
  <2>6. Total(<<>>) = 0 BY <2>5, TotalAppend
  <2> QED BY <2>2, <2>3, <2>4, <2>6, FS_EmptySet
<1>4. ASSUME NEW n \in 0 .. Len(events) - 1, Ok(n) PROVE Ok(n + 1)
  <2> DEFINE e == events[n + 1]
             t == ToolsOfStep(events, n + 1)
             x == CoerceStep(e, t)
  <2>1. n \in Nat /\ n \in 0 .. Len(events) /\ n + 1 \in 1 .. Len(events) BY <1>1
  <2>2. CASE e.kind # "step"
    <3>1. A(n + 1) = A(n) BY <2>1, <2>2, AttributedNext
    <3>2. StepsAt(events, n + 1) = StepsAt(events, n) BY <2>1, <2>2, StepsAtNext
    <3>3. CallsOf(events, n + 1) = CallsOf(events, n) BY <3>2 DEF CallsOf
    <3> QED BY <3>1, <3>3, <1>4
  <2>3. CASE e.kind = "step"
    <3>1. A(n + 1) = Append(A(n), x) BY <2>1, <2>3, AttributedNext
    <3>2. t \in Seq(Call) BY <2>1, <2>3, ToolsOfStepType
    <3>3. x \in Step
      <4>1. e \in Event(D) BY <2>1
      <4>2. e \in StepEvent BY <4>1, <2>3, EventKinds
      <4> QED BY <3>2, <4>2, CoerceStepType
    <3>4. x.tools = t BY DEF CoerceStep
    <3>5. A(n) \in Seq(Step) BY <2>1, <1>2
    <3>6. /\ IsFiniteSet(CallsOf(events, n + 1))
          /\ Cardinality(CallsOf(events, n + 1)) = Cardinality(CallsOf(events, n)) + Len(t)
      BY <1>4, <2>3, CallsOfNext
    <3> HIDE DEF A, x, t
    <3>7. /\ ToolCounts(A(n)) \in Seq(Nat) /\ Len(x.tools) \in Nat
          /\ ToolCounts(A(n + 1)) = Append(ToolCounts(A(n)), Len(x.tools))
      BY <3>1, <3>3, <3>5, FiguresAppend
    <3>8. Total(ToolCounts(A(n + 1))) = Total(ToolCounts(A(n))) + Len(t)
      BY <3>4, <3>7, TotalAppend
    <3>9. Total(ToolCounts(A(n))) = Cardinality(CallsOf(events, n)) BY <1>4 DEF A
    <3>10. Total(ToolCounts(A(n + 1))) = Cardinality(CallsOf(events, n + 1))
      BY <3>6, <3>8, <3>9
    <3> QED BY <3>6, <3>10 DEF A
  <2> QED BY <2>2, <2>3
<1>5. 0 \in S BY <1>1, <1>3
<1> HIDE DEF Ok
<1>6. \A n \in 0 .. Len(events) - 1 : n \in S => n + 1 \in S BY <1>1, <1>4
<1> HIDE DEF S
<1>7. 0 .. Len(events) \subseteq S BY <1>1, <1>5, <1>6, UpToInduction
<1>8. Ok(Len(events)) BY <1>1, <1>7 DEF S
<1>9. Normalize(events).tool_calls = Total(ToolCounts(Accumulate(events).steps))
  BY DEF Normalize
<1>10. Accumulate(events).steps = AttributedSteps(events, Len(events))
  BY StepsAttributed DEF Normalize
<1> QED BY <1>8, <1>9, <1>10 DEF Ok

\* A delegation is reported exactly when a step of the primary agent, of an
\* alias or of an unknown role has started the orchestrator.
THEOREM DelegationSeen ==
  ASSUME NEW D, NEW events \in Seq(Event(D))
  PROVE  Normalize(events).delegated <=>
           \E k \in StepsAt(events, Len(events)) :
             /\ NormalizeRole(events[k].role) = "pm"
             /\ \E i \in DOMAIN ToolsOfStep(events, k) :
                  ToolsOfStep(events, k)[i] = <<"task", "orchestrator">>
<1> DEFINE at    == StepsAt(events, Len(events))
           s     == InOrder(at)
           steps == AttributedSteps(events, Len(events))
           Does(x) == x.role = "pm" /\ <<"task", "orchestrator">> \in Calls(x)
           F(k)  == CoerceStep(events[k], ToolsOfStep(events, k))
<1>1. Normalize(events).delegated <=> Delegated(steps)
  <2>1. Normalize(events).delegated <=> Delegated(Accumulate(events).steps)
    BY DEF Normalize
  <2>2. Accumulate(events).steps = steps BY StepsAttributed DEF Normalize
  <2> QED BY <2>1, <2>2
<1>2. steps = [i \in DOMAIN s |-> F(s[i])] BY DEF AttributedSteps
<1>3. /\ \A i \in DOMAIN s : s[i] \in at
      /\ \A k \in at : \E i \in DOMAIN s : s[i] = k
  <2>1. Len(events) \in Nat /\ at \in SUBSET (1 .. Len(events)) BY DEF StepsAt
  <2> HIDE DEF at
  <2>2. s \in Seq(at) /\ \A k \in at : \E i \in DOMAIN s : s[i] = k BY <2>1, InOrderSorts
  <2> HIDE DEF s
  <2> QED BY <2>2
<1>4. Delegated(steps) <=> \E i \in DOMAIN steps : Does(steps[i]) BY DEF Delegated
<1>5. \A k : Does(F(k)) <=> /\ NormalizeRole(events[k].role) = "pm"
                            /\ \E i \in DOMAIN ToolsOfStep(events, k) :
                                 ToolsOfStep(events, k)[i] = <<"task", "orchestrator">>
  BY DEF Calls, CoerceStep
<1> HIDE DEF at, s, steps, Does, F
<1>6. (\E i \in DOMAIN steps : Does(steps[i])) <=> \E k \in at : Does(F(k)) BY <1>2, <1>3
<1>7. Delegated(steps) <=> \E k \in at : Does(F(k)) BY <1>4, <1>6
<1> QED BY <1>1, <1>5, <1>7 DEF at

\* The patch of a stream that ends in a patch_diff event is the diff of that
\* event, whatever came before.
THEOREM LastPatchCounts ==
  ASSUME NEW D, NEW s \in Seq(Event(D)), NEW d \in D
  PROVE  Normalize(Append(s, [kind |-> "patch", diff |-> d])).patch = d
<1> DEFINE e == [kind |-> "patch", diff |-> d]
<1>1. e \in Event(D) BY DEF Event
<1>2. Accumulate(Append(s, e)) = Absorb(Accumulate(s), e) BY <1>1, AccumulateAppend
<1>3. Absorb(Accumulate(s), e).patch = d BY DEF Absorb
<1>4. Normalize(Append(s, e)).patch = Accumulate(Append(s, e)).patch BY DEF Normalize
<1> QED BY <1>2, <1>3, <1>4

-----------------------------------------------------------------------------
(* A run's figures and those of its attempts.                              *)

\* An element behind two lists put together is one behind the second.
LEMMA ConcatAppend ==
  \A s, t \in Seq(Step), x \in Step : Append(s \o t, x) = s \o Append(t, x)
<1> SUFFICES ASSUME NEW s \in Seq(Step), NEW t \in Seq(Step), NEW x \in Step
             PROVE  Append(s \o t, x) = s \o Append(t, x)
  OBVIOUS
<1>1. s \o t \in Seq(Step) /\ <<x>> \in Seq(Step) BY ConcatProperties
<1>2. Append(s \o t, x) = (s \o t) \o <<x>> BY <1>1, AppendIsConcat
<1>3. Append(t, x) = t \o <<x>> BY AppendIsConcat
<1>4. (s \o t) \o <<x>> = s \o (t \o <<x>>) BY <1>1, ConcatAssociative
<1> QED BY <1>2, <1>3, <1>4

\* What comes before does not change the sums of a list.
LEMMA SumsPrefix ==
  ASSUME NEW s \in Seq(Nat), NEW u \in Seq(Nat), Len(s) <= Len(u),
         \A i \in 1 .. Len(s) : u[i] = s[i]
  PROVE  \A n \in 0 .. Len(s) : Sums(u)[n] = Sums(s)[n]
<1> DEFINE S == {n \in 0 .. Len(s) : Sums(u)[n] = Sums(s)[n]}
<1>1. Len(s) \in Nat /\ Len(u) \in Nat OBVIOUS
<1>2. 0 \in S BY <1>1, SumsAt
<1>3. ASSUME NEW n \in 0 .. Len(s) - 1, Sums(u)[n] = Sums(s)[n]
      PROVE  Sums(u)[n + 1] = Sums(s)[n + 1]
  <2>1. n \in 0 .. Len(u) - 1 /\ n + 1 \in 1 .. Len(s) BY <1>1
  <2>2. Sums(u)[n + 1] = Sums(u)[n] + u[n + 1] BY <2>1, SumsAt
  <2>3. Sums(s)[n + 1] = Sums(s)[n] + s[n + 1] BY SumsAt
  <2> QED BY <1>3, <2>1, <2>2, <2>3
<1>4. \A n \in 0 .. Len(s) - 1 : n \in S => n + 1 \in S BY <1>1, <1>3
<1> HIDE DEF S
<1>5. 0 .. Len(s) \subseteq S BY <1>1, <1>2, <1>4, UpToInduction
<1> QED BY <1>5 DEF S

\* The total of two lists put together.
LEMMA TotalConcat ==
  ASSUME NEW s \in Seq(Nat), NEW t \in Seq(Nat)
  PROVE  Total(s \o t) = Total(s) + Total(t)
<1> DEFINE u == s \o t
           a == Len(s)
           b == Len(t)
           S == {n \in 0 .. b : Sums(u)[a + n] = Total(s) + Sums(t)[n]}
<1>1. /\ a \in Nat /\ b \in Nat /\ u \in Seq(Nat) /\ Len(u) = a + b
      /\ \A i \in 1 .. a : u[i] = s[i]
      /\ \A i \in 1 .. b : u[a + i] = t[i]
  BY ConcatProperties
<1> HIDE DEF u, a, b
<1>2. Total(s) \in Nat BY TotalAppend
<1>3. Sums(u)[a] = Total(s)
  <2>1. /\ a = Len(s) /\ Len(s) <= Len(u) /\ a \in 0 .. Len(s)
        /\ \A i \in 1 .. Len(s) : u[i] = s[i]
    BY <1>1 DEF a
  <2>2. Sums(u)[a] = Sums(s)[a] BY <1>1, <2>1, SumsPrefix
  <2> QED BY <2>1, <2>2 DEF Total
<1>4. 0 \in S
  <2>1. Sums(t)[0] = 0 BY SumsAt
  <2>2. a + 0 = a /\ 0 \in 0 .. b BY <1>1
  <2> QED BY <1>2, <1>3, <2>1, <2>2
<1>5. ASSUME NEW n \in 0 .. b - 1, Sums(u)[a + n] = Total(s) + Sums(t)[n]
      PROVE  Sums(u)[a + (n + 1)] = Total(s) + Sums(t)[n + 1]
  <2>1. a + n \in 0 .. Len(u) - 1 /\ (a + n) + 1 = a + (n + 1) /\ n + 1 \in 1 .. b BY <1>1
  <2>2. Sums(u)[a + (n + 1)] = Sums(u)[a + n] + u[a + (n + 1)] BY <1>1, <2>1, SumsAt
  <2>3. n \in 0 .. Len(t) - 1 BY DEF b
  <2>4. Sums(t)[n + 1] = Sums(t)[n] + t[n + 1] /\ Sums(t)[n] \in Nat BY <2>3, SumsAt
  <2>5. u[a + (n + 1)] = t[n + 1] BY <1>1, <2>1
  <2>6. t[n + 1] \in Nat BY <2>1 DEF b
  <2> QED BY <1>2, <1>5, <2>2, <2>4, <2>5, <2>6
<1>6. \A n \in 0 .. b - 1 : n \in S => n + 1 \in S BY <1>1, <1>5
<1> HIDE DEF S
<1>7. 0 .. b \subseteq S BY <1>1, <1>4, <1>6, UpToInduction
<1>8. Sums(u)[a + b] = Total(s) + Sums(t)[b] BY <1>1, <1>7 DEF S
<1> QED BY <1>1, <1>8 DEF Total, u, b

\* Two streams put together, the second one from a step_start on.
Joined(s, t) == (s \o <<[kind |-> "start"]>>) \o t

\* The stream put together.
LEMMA JoinedIs ==
  ASSUME NEW D, NEW s \in Seq(Event(D)), NEW t \in Seq(Event(D))
  PROVE  /\ Joined(s, t) \in Seq(Event(D))
         /\ Len(Joined(s, t)) = Len(s) + 1 + Len(t)
         /\ \A i \in 1 .. Len(s) : Joined(s, t)[i] = s[i]
         /\ Joined(s, t)[Len(s) + 1] = [kind |-> "start"]
         /\ \A i \in 1 .. Len(t) : Joined(s, t)[Len(s) + 1 + i] = t[i]
<1> DEFINE e == <<[kind |-> "start"]>>
           v == s \o e
<1>1. [kind |-> "start"] \in Event(D) BY DEF Event
<1>2. e \in Seq(Event(D)) /\ Len(e) = 1 /\ e[1] = [kind |-> "start"] BY <1>1
<1>3. Len(s) \in Nat /\ Len(t) \in Nat OBVIOUS
<1> HIDE DEF e
<1>4. /\ v \in Seq(Event(D)) /\ Len(v) = Len(s) + 1
      /\ \A i \in 1 .. Len(s) : v[i] = s[i]
      /\ v[Len(s) + 1] = [kind |-> "start"]
  <2>1. /\ v \in Seq(Event(D)) /\ Len(v) = Len(s) + Len(e)
        /\ \A i \in 1 .. Len(s) + Len(e) : v[i] = IF i <= Len(s) THEN s[i] ELSE e[i - Len(s)]
    BY <1>2, ConcatProperties
  <2> QED BY <1>2, <1>3, <2>1
<1> HIDE DEF v
<1>5. /\ v \o t \in Seq(Event(D)) /\ Len(v \o t) = Len(v) + Len(t)
      /\ \A i \in 1 .. Len(v) + Len(t) : (v \o t)[i] = IF i <= Len(v) THEN v[i]
                                                       ELSE t[i - Len(v)]
  BY <1>4, ConcatProperties
<1>6. Joined(s, t) = v \o t BY DEF Joined, v, e
<1> QED BY <1>3, <1>4, <1>5, <1>6

\* What comes after does not change what the pass holds.
LEMMA PassPrefix ==
  ASSUME NEW D, NEW s \in Seq(Event(D)), NEW u \in Seq(Event(D)), Len(s) <= Len(u),
         \A i \in 1 .. Len(s) : u[i] = s[i]
  PROVE  \A n \in 0 .. Len(s) : Pass(u)[n] = Pass(s)[n]
<1> DEFINE S == {n \in 0 .. Len(s) : Pass(u)[n] = Pass(s)[n]}
<1>1. Len(s) \in Nat /\ Len(u) \in Nat OBVIOUS
<1>2. 0 \in S BY <1>1, PassAt
<1>3. ASSUME NEW n \in 0 .. Len(s) - 1, Pass(u)[n] = Pass(s)[n]
      PROVE  Pass(u)[n + 1] = Pass(s)[n + 1]
  <2>1. n \in 0 .. Len(u) - 1 /\ n + 1 \in 1 .. Len(s) BY <1>1
  <2>2. Pass(u)[n + 1] = Absorb(Pass(u)[n], u[n + 1]) BY <1>1, <2>1, PassAt
  <2>3. Pass(s)[n + 1] = Absorb(Pass(s)[n], s[n + 1]) BY <1>1, PassAt
  <2> QED BY <1>3, <2>1, <2>2, <2>3
<1>4. \A n \in 0 .. Len(s) - 1 : n \in S => n + 1 \in S BY <1>1, <1>3
<1> HIDE DEF S
<1>5. 0 .. Len(s) \subseteq S BY <1>1, <1>2, <1>4, UpToInduction
<1> QED BY <1>5 DEF S

\* The pass over the stream put together finishes the steps of both.
LEMMA JoinedSteps ==
  ASSUME NEW D, NEW s \in Seq(Event(D)), NEW t \in Seq(Event(D))
  PROVE  Accumulate(Joined(s, t)).steps = Accumulate(s).steps \o Accumulate(t).steps
<1> DEFINE u == Joined(s, t)
           a == Len(s) + 1
           first == Accumulate(s).steps
           Ok(n) == /\ Pass(u)[a + n].steps = first \o Pass(t)[n].steps
                    /\ Pass(u)[a + n].pending = Pass(t)[n].pending
           S == {n \in 0 .. Len(t) : Ok(n)}
<1>1. Len(s) \in Nat /\ Len(t) \in Nat /\ a \in Nat OBVIOUS
<1>2. /\ u \in Seq(Event(D)) /\ Len(u) = a + Len(t)
      /\ \A i \in 1 .. Len(s) : u[i] = s[i]
      /\ u[a] = [kind |-> "start"]
      /\ \A i \in 1 .. Len(t) : u[a + i] = t[i]
  <2>1. /\ u \in Seq(Event(D)) /\ Len(u) = Len(s) + 1 + Len(t)
        /\ \A i \in 1 .. Len(s) : u[i] = s[i]
        /\ u[Len(s) + 1] = [kind |-> "start"]
        /\ \A i \in 1 .. Len(t) : u[Len(s) + 1 + i] = t[i]
    <3>1. u \in Seq(Event(D)) BY JoinedIs
    <3>2. Len(u) = Len(s) + 1 + Len(t) BY JoinedIs
    <3>3. \A i \in 1 .. Len(s) : u[i] = s[i] BY JoinedIs
    <3>4. u[Len(s) + 1] = [kind |-> "start"] BY JoinedIs
    <3>5. \A i \in 1 .. Len(t) : u[Len(s) + 1 + i] = t[i] BY JoinedIs
    <3> QED BY <3>1, <3>2, <3>3, <3>4, <3>5
  <2> HIDE DEF u
  <2> QED BY <1>1, <2>1
<1>3. Pass(s)[Len(s)] \in Held(D) BY <1>1, PassType
<1>4. first \in Seq(Step) BY <1>3 DEF Accumulate, Held
<1> HIDE DEF u
<1>5. Ok(0)
  <2>1. Pass(u)[Len(s)] = Accumulate(s)
    <3>1. Len(s) <= Len(u) /\ Len(s) \in 0 .. Len(s) BY <1>1, <1>2
    <3> QED BY <1>2, <3>1, PassPrefix DEF Accumulate
  <2>2. Pass(u)[Len(s) + 1] = Absorb(Accumulate(s), u[Len(s) + 1])
    <3>1. Len(s) \in 0 .. Len(u) - 1 /\ Len(u) \in Nat BY <1>1, <1>2
    <3> QED BY <2>1, <3>1, PassAt
  <2>3. /\ Absorb(Accumulate(s), u[a]).steps = first
        /\ Absorb(Accumulate(s), u[a]).pending = <<>>
    BY <1>2 DEF Absorb
  <2>4. Pass(t)[0] = Nothing BY <1>1, PassAt
  <2>5. Nothing.steps = <<>> /\ Nothing.pending = <<>> BY DEF Nothing
  <2>6. first \o <<>> = first
    <3> HIDE DEF first
    <3> QED BY <1>4, ConcatEmptySeq
  <2>7. a + 0 = Len(s) + 1 BY <1>1
  <2> QED BY <2>2, <2>3, <2>4, <2>5, <2>6, <2>7
<1>6. ASSUME NEW n \in 0 .. Len(t) - 1, Ok(n) PROVE Ok(n + 1)
  <2> DEFINE e == t[n + 1]
             p == Pass(t)[n]
             q == Pass(u)[a + n]
  <2>1. Pass(t)[n + 1] = Absorb(p, e) BY <1>1, PassAt
  <2>2. Pass(u)[a + (n + 1)] = Absorb(q, e)
    <3>1. a + n \in 0 .. Len(u) - 1 /\ (a + n) + 1 = a + (n + 1) /\ n + 1 \in 1 .. Len(t)
      BY <1>1, <1>2
    <3>2. Len(u) \in Nat BY <1>1, <1>2
    <3>3. Pass(u)[(a + n) + 1] = Absorb(Pass(u)[a + n], u[(a + n) + 1]) BY <3>1, <3>2, PassAt
    <3> QED BY <1>2, <3>1, <3>3
  <2>3. q.steps = first \o p.steps /\ q.pending = p.pending BY <1>6
  <2>4. p \in Held(D)
    <3>1. n \in 0 .. Len(t) BY <1>1
    <3> QED BY <3>1, PassType
  <2>5. p.steps \in Seq(Step) BY <2>4 DEF Held
  <2> DEFINE tools == IF e.own = <<>> THEN p.pending ELSE OwnTools(e)
             x     == CoerceStep(e, tools)
  <2>6. /\ Absorb(p, e).steps = IF e.kind = "step" THEN Append(p.steps, x) ELSE p.steps
        /\ Absorb(q, e).steps = IF e.kind = "step" THEN Append(q.steps, x) ELSE q.steps
    BY <2>3 DEF Absorb, StepsWith
  <2>7. Absorb(q, e).pending = Absorb(p, e).pending BY <2>3 DEF Absorb
  <2>8. e.kind = "step" => x \in Step
    <3>1. e \in Event(D) BY <1>1
    <3>2. p.pending \in Seq(Call) BY <2>4 DEF Held
    <3> SUFFICES ASSUME e.kind = "step" PROVE x \in Step OBVIOUS
    <3>3. e \in StepEvent BY <3>1, EventKinds
    <3>4. tools \in Seq(Call) BY <3>2, <3>3, OwnToolsType
    <3> HIDE DEF tools
    <3> QED BY <3>3, <3>4, CoerceStepType
  <2>9. Absorb(q, e).steps = first \o Absorb(p, e).steps
    <3> DEFINE ps == p.steps
    <3>1. ps \in Seq(Step) /\ q.steps = first \o ps BY <2>3, <2>5
    <3>2. /\ Absorb(p, e).steps = IF e.kind = "step" THEN Append(ps, x) ELSE ps
          /\ Absorb(q, e).steps = IF e.kind = "step" THEN Append(first \o ps, x) ELSE first \o ps
      BY <2>6, <3>1
    <3> HIDE DEF first, ps, x, q
    <3>3. e.kind = "step" => Append(first \o ps, x) = first \o Append(ps, x)
      BY <1>4, <2>8, <3>1, ConcatAppend
    <3> QED BY <3>2, <3>3
  <2> QED BY <2>1, <2>2, <2>7, <2>9
<1> HIDE DEF Ok
<1>7. 0 \in S BY <1>1, <1>5
<1>8. \A n \in 0 .. Len(t) - 1 : n \in S => n + 1 \in S BY <1>1, <1>6
<1> HIDE DEF S
<1>9. 0 .. Len(t) \subseteq S BY <1>1, <1>7, <1>8, UpToInduction
<1>10. Ok(Len(t)) BY <1>1, <1>9 DEF S
<1> QED BY <1>2, <1>10 DEF Ok, Accumulate, u

\* The figures of two lists of steps put together.
LEMMA FiguresConcat ==
  ASSUME NEW s \in Seq(Step), NEW t \in Seq(Step)
  PROVE  /\ Len(s \o t) = Len(s) + Len(t)
         /\ Ins(s) \in Seq(Nat) /\ Ins(s \o t) = Ins(s) \o Ins(t)
         /\ Outs(s) \in Seq(Nat) /\ Outs(s \o t) = Outs(s) \o Outs(t)
         /\ ToolCounts(s) \in Seq(Nat) /\ ToolCounts(s \o t) = ToolCounts(s) \o ToolCounts(t)
<1>1. \A y \in Step : y.in \in Nat /\ y.out \in Nat /\ Len(y.tools) \in Nat
  <2> SUFFICES ASSUME NEW y \in Step PROVE y.in \in Nat /\ y.out \in Nat /\ Len(y.tools) \in Nat
    OBVIOUS
  <2>1. y.tools \in Seq(Call) BY DEF Step
  <2>2. Len(y.tools) \in Nat BY <2>1
  <2> QED BY <2>2 DEF Step
<1>2. Len(s) \in Nat /\ DOMAIN s = 1 .. Len(s) /\ \A i \in 1 .. Len(s) : s[i] \in Step OBVIOUS
<1>3. Len(t) \in Nat /\ DOMAIN t = 1 .. Len(t) OBVIOUS
<1>4. Len(s \o t) = Len(s) + Len(t) OBVIOUS
<1>5. Ins(s) \in Seq(Nat) BY <1>1, <1>2 DEF Ins
<1>6. Outs(s) \in Seq(Nat) BY <1>1, <1>2 DEF Outs
<1>7. ToolCounts(s) \in Seq(Nat) BY <1>1, <1>2 DEF ToolCounts
<1>8. Ins(s \o t) = Ins(s) \o Ins(t) BY <1>2, <1>3 DEF Ins
<1>9. Outs(s \o t) = Outs(s) \o Outs(t) BY <1>2, <1>3 DEF Outs
<1>10. ToolCounts(s \o t) = ToolCounts(s) \o ToolCounts(t) BY <1>2, <1>3 DEF ToolCounts
<1> QED BY <1>4, <1>5, <1>6, <1>7, <1>8, <1>9, <1>10

\* The total of a list of two.
LEMMA TotalOfTwo ==
  ASSUME NEW a \in Nat, NEW b \in Nat PROVE Total(<<a, b>>) = a + b
<1>1. <<>> \in Seq(Nat) /\ <<a>> \in Seq(Nat) OBVIOUS
<1>2. <<a>> = Append(<<>>, a) /\ <<a, b>> = Append(<<a>>, b) OBVIOUS
<1>3. Total(<<a>>) = 0 + a BY <1>1, <1>2, TotalAppend
<1>4. Total(<<a, b>>) = Total(<<a>>) + b BY <1>1, <1>2, TotalAppend
<1> QED BY <1>3, <1>4

\* The figures of a run over two attempts (aggregate_run) are those of the one
\* stream their streams make when the second begins with a step_start.
THEOREM AttemptsAddUp ==
  ASSUME NEW D, NEW s \in Seq(Event(D)), NEW t \in Seq(Event(D))
  PROVE  LET run == AggregateRun(<<Normalize(s), Normalize(t)>>)
             one == Normalize(Joined(s, t))
         IN /\ run.step_count = one.step_count
            /\ run.tool_calls = one.tool_calls
            /\ run.tokens_in = one.tokens_in
            /\ run.tokens_out = one.tokens_out
<1> DEFINE a == Accumulate(s).steps
           b == Accumulate(t).steps
           n == Normalize(s)
           m == Normalize(t)
           run == AggregateRun(<<n, m>>)
           one == Normalize(Joined(s, t))
<1>1. a \in Seq(Step)
  <2>1. Len(s) \in 0 .. Len(s) OBVIOUS
  <2>2. Pass(s)[Len(s)] \in Held(D) BY <2>1, PassType
  <2> QED BY <2>2 DEF Accumulate, Held
<1>2. b \in Seq(Step)
  <2>1. Len(t) \in 0 .. Len(t) OBVIOUS
  <2>2. Pass(t)[Len(t)] \in Held(D) BY <2>1, PassType
  <2> QED BY <2>2 DEF Accumulate, Held
<1>3. /\ one.step_count = Len(a \o b)
      /\ one.tool_calls = Total(ToolCounts(a \o b))
      /\ one.tokens_in = Total(Ins(a \o b))
      /\ one.tokens_out = Total(Outs(a \o b))
  BY JoinedSteps DEF Normalize
<1>4. /\ n.step_count = Len(a) /\ m.step_count = Len(b)
      /\ n.tool_calls = Total(ToolCounts(a)) /\ m.tool_calls = Total(ToolCounts(b))
      /\ n.tokens_in = Total(Ins(a)) /\ m.tokens_in = Total(Ins(b))
      /\ n.tokens_out = Total(Outs(a)) /\ m.tokens_out = Total(Outs(b))
  BY DEF Normalize
<1> HIDE DEF a, b, n, m
<1>5. /\ run.step_count = Total(<<n.step_count, m.step_count>>)
      /\ run.tool_calls = Total(<<n.tool_calls, m.tool_calls>>)
      /\ run.tokens_in = Total(<<n.tokens_in, m.tokens_in>>)
      /\ run.tokens_out = Total(<<n.tokens_out, m.tokens_out>>)
  <2> DEFINE two == <<n, m>>
  <2>1. /\ [i \in DOMAIN two |-> two[i].step_count] = <<n.step_count, m.step_count>>
        /\ [i \in DOMAIN two |-> two[i].tool_calls] = <<n.tool_calls, m.tool_calls>>
        /\ [i \in DOMAIN two |-> two[i].tokens_in] = <<n.tokens_in, m.tokens_in>>
        /\ [i \in DOMAIN two |-> two[i].tokens_out] = <<n.tokens_out, m.tokens_out>>
    OBVIOUS
  <2> HIDE DEF two
  <2>2. /\ AggregateRun(two).step_count = Total([i \in DOMAIN two |-> two[i].step_count])
        /\ AggregateRun(two).tool_calls = Total([i \in DOMAIN two |-> two[i].tool_calls])
        /\ AggregateRun(two).tokens_in = Total([i \in DOMAIN two |-> two[i].tokens_in])
        /\ AggregateRun(two).tokens_out = Total([i \in DOMAIN two |-> two[i].tokens_out])
    BY DEF AggregateRun
  <2> QED BY <2>1, <2>2 DEF two
<1> HIDE DEF run, one
<1>6. /\ Total(Ins(a \o b)) = Total(Ins(a)) + Total(Ins(b))
      /\ Total(Outs(a \o b)) = Total(Outs(a)) + Total(Outs(b))
      /\ Total(ToolCounts(a \o b)) = Total(ToolCounts(a)) + Total(ToolCounts(b))
      /\ Len(a \o b) = Len(a) + Len(b)
  <2>1. /\ Len(a \o b) = Len(a) + Len(b)
        /\ Ins(a \o b) = Ins(a) \o Ins(b)
        /\ Outs(a \o b) = Outs(a) \o Outs(b)
        /\ ToolCounts(a \o b) = ToolCounts(a) \o ToolCounts(b)
    BY <1>1, <1>2, FiguresConcat
  <2>2. Ins(a) \in Seq(Nat) /\ Outs(a) \in Seq(Nat) /\ ToolCounts(a) \in Seq(Nat)
    BY <1>1, FiguresConcat
  <2>3. Ins(b) \in Seq(Nat) /\ Outs(b) \in Seq(Nat) /\ ToolCounts(b) \in Seq(Nat)
    BY <1>2, FiguresConcat
  <2>4. Total(Ins(a) \o Ins(b)) = Total(Ins(a)) + Total(Ins(b)) BY <2>2, <2>3, TotalConcat
  <2>5. Total(Outs(a) \o Outs(b)) = Total(Outs(a)) + Total(Outs(b)) BY <2>2, <2>3, TotalConcat
  <2>6. Total(ToolCounts(a) \o ToolCounts(b)) = Total(ToolCounts(a)) + Total(ToolCounts(b))
    BY <2>2, <2>3, TotalConcat
  <2> QED BY <2>1, <2>4, <2>5, <2>6
<1>7. /\ Total(Ins(a)) \in Nat /\ Total(Ins(b)) \in Nat
      /\ Total(Outs(a)) \in Nat /\ Total(Outs(b)) \in Nat
      /\ Total(ToolCounts(a)) \in Nat /\ Total(ToolCounts(b)) \in Nat
      /\ Len(a) \in Nat /\ Len(b) \in Nat
  <2>1. /\ Ins(a) \in Seq(Nat) /\ Outs(a) \in Seq(Nat) /\ ToolCounts(a) \in Seq(Nat)
        /\ Ins(b) \in Seq(Nat) /\ Outs(b) \in Seq(Nat) /\ ToolCounts(b) \in Seq(Nat)
    BY <1>1, <1>2, FiguresConcat
  <2>2. \A q \in Seq(Nat) : Total(q) \in Nat
    <3>1. 0 \in Nat OBVIOUS
    <3> QED BY <3>1, TotalAppend
  <2>3. Len(a) \in Nat /\ Len(b) \in Nat BY <1>1, <1>2
  <2> QED BY <2>1, <2>2, <2>3
<1>8. /\ run.step_count = one.step_count /\ run.tool_calls = one.tool_calls
      /\ run.tokens_in = one.tokens_in /\ run.tokens_out = one.tokens_out
  <2>1. run.step_count = Len(a) + Len(b) BY <1>4, <1>5, <1>7, TotalOfTwo
  <2>2. run.tool_calls = Total(ToolCounts(a)) + Total(ToolCounts(b))
    BY <1>4, <1>5, <1>7, TotalOfTwo
  <2>3. run.tokens_in = Total(Ins(a)) + Total(Ins(b)) BY <1>4, <1>5, <1>7, TotalOfTwo
  <2>4. run.tokens_out = Total(Outs(a)) + Total(Outs(b)) BY <1>4, <1>5, <1>7, TotalOfTwo
  <2> QED BY <1>3, <1>6, <2>1, <2>2, <2>3, <2>4
<1> QED BY <1>8 DEF run, one, n, m

\* The index of the 95th percentile lies in the list, and is the first with
\* at least 95 % of the values up to it (_p95 of telemetry.py).
THEOREM P95IsLeast ==
  ASSUME NEW n \in Nat \ {0}
  PROVE  /\ P95Index(n) \in 0 .. n - 1
         /\ 20 * (P95Index(n) + 1) >= 19 * n
         /\ 20 * P95Index(n) < 19 * n
BY DEF P95Index
============================================================================

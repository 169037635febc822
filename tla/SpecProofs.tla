----------------------------- MODULE SpecProofs -----------------------------
(***************************************************************************)
(* Theorems about SpecRules and DeployKey for strings of any length over   *)
(* any alphabet: what is put together of two strings is taken apart at the *)
(* place where they meet.                                                  *)
(***************************************************************************)
EXTENDS MCSpecs, SequenceTheorems, FiniteSetTheorems, WellFoundedInduction, TLAPS

-----------------------------------------------------------------------------
(* The first and the last separator *)

\* A non-empty set of numbers from a finite set has a greatest one.
LEMMA Greatest ==
  ASSUME NEW N \in SUBSET Nat, IsFiniteSet(N), NEW S \in SUBSET N, S # {}
  PROVE  \E n \in S : \A m \in S : n >= m
<1>. DEFINE Above(n) == {m \in S : m > n}
            R == StrictSubsetOrdering(N)
            T == {Above(n) : n \in S}
<1>0. \A k \in S : k \in Nat
  OBVIOUS
<1>1. T \subseteq FiniteSubsetsOf(N) /\ T # {}
  <2>1. T \subseteq SUBSET N /\ T # {}
    OBVIOUS
  <2>. QED
    BY <2>1, FS_FiniteSubsetsOfFinite
<1>2. PICK x \in T : \A y \in T : <<y, x>> \notin R
  <2>. HIDE DEF T, R
  <2>1. IsWellFoundedOn(StrictSubsetOrdering(N), FiniteSubsetsOf(N))
    BY FS_StrictSubsetOrderingWellFounded
  <2>. QED
    BY <1>1, <2>1, WFMin DEF R
<1>3. PICK n \in S : x = Above(n)
  BY <1>2
<1>4. ASSUME NEW m \in S, m > n
      PROVE  FALSE
  <2>1. Above(m) \subseteq Above(n)
    <3>1. \A k \in S : k > m => k > n
      BY <1>0, <1>4
    <3>. QED
      BY <3>1
  <2>2. m \in Above(n) /\ m \notin Above(m)
    BY <1>0, <1>4
  <2>3. Above(m) \in T /\ Above(m) \in SUBSET N /\ Above(n) \in SUBSET N
    OBVIOUS
  <2>4. <<Above(m), x>> \in R
    BY <1>3, <2>1, <2>2, <2>3 DEF StrictSubsetOrdering
  <2>. QED
    BY <1>2, <2>3, <2>4
<1>5. \A m \in S : n >= m
  BY <1>0, <1>4
<1>. QED
  BY <1>5

LEMMA GreatestTo ==
  ASSUME NEW bound \in Nat, NEW S \in SUBSET (0..bound), S # {}
  PROVE  \E n \in S : \A m \in S : n >= m
<1>1. IsFiniteSet(0..bound) /\ 0..bound \in SUBSET Nat
  <2>1. IsFiniteSet(0..bound)
    BY FS_Interval
  <2>. QED
    BY <2>1
<1>. DEFINE N == 0..bound
<1>. HIDE DEF N
<1>2. IsFiniteSet(N) /\ N \in SUBSET Nat /\ S \in SUBSET N
  BY <1>1 DEF N
<1>. QED
  BY <1>2, Greatest

\* A string that has c has a first and a last one.
LEMMA LastOf ==
  ASSUME NEW T, NEW s \in Seq(T), NEW c, Has(s, c)
  PROVE  \E k \in 1..Len(s) : s[k] = c /\ \A i \in (k + 1)..Len(s) : s[i] # c
<1>. DEFINE S == {i \in 1..Len(s) : s[i] = c}
<1>1. Len(s) \in Nat /\ S \in SUBSET (0..Len(s)) /\ S # {}
  BY DEF Has
<1>2. \E n \in S : \A m \in S : n >= m
  <2>. HIDE DEF S
  <2>. QED
    BY <1>1, GreatestTo
<1>. QED
  BY <1>1, <1>2

LEMMA FirstOf ==
  ASSUME NEW T, NEW s \in Seq(T), NEW c, Has(s, c)
  PROVE  \E k \in 1..Len(s) : s[k] = c /\ \A i \in 1..(k - 1) : s[i] # c
<1>. DEFINE S == {j \in 0..Len(s) : j < Len(s) /\ s[Len(s) - j] = c}
<1>1. Len(s) \in Nat /\ S \in SUBSET (0..Len(s))
  OBVIOUS
<1>2. S # {}
  <2>1. PICK i \in 1..Len(s) : s[i] = c
    BY DEF Has
  <2>2. Len(s) - i \in 0..Len(s) /\ Len(s) - i < Len(s) /\ Len(s) - (Len(s) - i) = i
    BY <1>1, <2>1
  <2>3. Len(s) - i \in S
    BY <2>1, <2>2
  <2>. QED
    BY <2>3
<1>3. PICK j \in S : \A m \in S : j >= m
  <2>. HIDE DEF S
  <2>. QED
    BY <1>1, <1>2, GreatestTo
<1>. DEFINE k == Len(s) - j
<1>4. k \in 1..Len(s) /\ s[k] = c
  BY <1>1, <1>3
<1>5. ASSUME NEW i \in 1..(k - 1), s[i] = c
      PROVE  FALSE
  <2>1. Len(s) - i \in 0..Len(s) /\ Len(s) - i < Len(s) /\ Len(s) - (Len(s) - i) = i
        /\ Len(s) - i > j
    BY <1>1, <1>3, <1>4, <1>5
  <2>2. Len(s) - i \in S
    BY <1>5, <2>1
  <2>. QED
    BY <1>3, <2>1, <2>2
<1>. QED
  BY <1>4, <1>5

-----------------------------------------------------------------------------
(* UpTo and AfterLast *)

\* UpTo ends at the first separator, wherever that is found.
LEMMA UpToIs ==
  ASSUME NEW T, NEW s \in Seq(T), NEW c, NEW k \in 0..Len(s),
         k < Len(s) => s[k + 1] = c, \A i \in 1..k : s[i] # c
  PROVE  UpTo(s, c) = SubSeq(s, 1, k)
<1>. DEFINE Is(m) == (m < Len(s) => s[m + 1] = c) /\ \A i \in 1..m : s[i] # c
            first == CHOOSE m \in 0..Len(s) : Is(m)
<1>1. Len(s) \in Nat /\ Is(k)
  OBVIOUS
<1>2. first \in 0..Len(s) /\ Is(first)
  BY <1>1
<1>3. first = k
  <2>. HIDE DEF first
  <2>. QED
    BY <1>1, <1>2
<1>4. UpTo(s, c) = SubSeq(s, 1, first)
  BY DEF UpTo
<1>. QED
  BY <1>3, <1>4

LEMMA AfterLastIs ==
  ASSUME NEW T, NEW s \in Seq(T), NEW c, NEW k \in 0..Len(s),
         k > 0 => s[k] = c, \A i \in (k + 1)..Len(s) : s[i] # c
  PROVE  AfterLast(s, c) = SubSeq(s, k + 1, Len(s))
<1>. DEFINE Is(m) == (m > 0 => s[m] = c) /\ \A i \in (m + 1)..Len(s) : s[i] # c
            last == CHOOSE m \in 0..Len(s) : Is(m)
<1>1. Len(s) \in Nat /\ Is(k)
  OBVIOUS
<1>2. last \in 0..Len(s) /\ Is(last)
  BY <1>1
<1>3. last = k
  <2>. HIDE DEF last
  <2>. QED
    BY <1>1, <1>2
<1>4. AfterLast(s, c) = SubSeq(s, last + 1, Len(s))
  BY DEF AfterLast
<1>. QED
  BY <1>3, <1>4

\* Where UpTo ends.
LEMMA UpToEnd ==
  ASSUME NEW T, NEW s \in Seq(T), NEW c
  PROVE  \E k \in 0..Len(s) :
           /\ k < Len(s) => s[k + 1] = c
           /\ \A i \in 1..k : s[i] # c
           /\ UpTo(s, c) = SubSeq(s, 1, k)
<1>1. Len(s) \in Nat
  OBVIOUS
<1>2. CASE Has(s, c)
  <2>1. PICK k \in 1..Len(s) : s[k] = c /\ \A i \in 1..(k - 1) : s[i] # c
    BY <1>2, FirstOf
  <2>. DEFINE m == k - 1
  <2>2. m \in 0..Len(s) /\ m + 1 = k /\ s[m + 1] = c /\ \A i \in 1..m : s[i] # c
    BY <1>1, <2>1
  <2>. HIDE DEF m
  <2>. QED
    BY <2>2, UpToIs
<1>3. CASE ~Has(s, c)
  <2>1. Len(s) \in 0..Len(s) /\ \A i \in 1..Len(s) : s[i] # c
    BY <1>1, <1>3 DEF Has
  <2>2. UpTo(s, c) = SubSeq(s, 1, Len(s))
    BY <1>1, <2>1, UpToIs
  <2>. QED
    BY <1>1, <2>1, <2>2
<1>. QED
  BY <1>2, <1>3

LEMMA AfterLastStart ==
  ASSUME NEW T, NEW s \in Seq(T), NEW c
  PROVE  \E k \in 0..Len(s) :
           /\ k > 0 => s[k] = c
           /\ \A i \in (k + 1)..Len(s) : s[i] # c
           /\ AfterLast(s, c) = SubSeq(s, k + 1, Len(s))
<1>1. Len(s) \in Nat
  OBVIOUS
<1>2. CASE Has(s, c)
  <2>1. PICK k \in 1..Len(s) : s[k] = c /\ \A i \in (k + 1)..Len(s) : s[i] # c
    BY <1>2, LastOf
  <2>2. k \in 0..Len(s)
    OBVIOUS
  <2>. QED
    BY <2>1, <2>2, AfterLastIs
<1>3. CASE ~Has(s, c)
  <2>1. 0 \in 0..Len(s) /\ \A i \in (0 + 1)..Len(s) : s[i] # c
    BY <1>1, <1>3 DEF Has
  <2>2. AfterLast(s, c) = SubSeq(s, 0 + 1, Len(s))
    BY <1>1, <2>1, AfterLastIs
  <2>. QED
    BY <1>1, <2>1, <2>2
<1>. QED
  BY <1>2, <1>3

-----------------------------------------------------------------------------
(* Taking apart what was put together *)

\* whole consists of s followed by t.
Joins(whole, s, t) ==
  /\ Len(whole) = Len(s) + Len(t)
  /\ \A i \in 1..Len(s) : whole[i] = s[i]
  /\ \A i \in 1..Len(t) : whole[Len(s) + i] = t[i]

LEMMA Concatenation ==
  ASSUME NEW S, NEW s \in Seq(S), NEW t \in Seq(S)
  PROVE  s \o t \in Seq(S) /\ Joins(s \o t, s, t)
BY ConcatProperties, LenProperties DEF Joins

LEMMA HasJoined ==
  ASSUME NEW T, NEW s \in Seq(T), NEW t \in Seq(T), NEW c
  PROVE  Has(s \o t, c) <=> Has(s, c) \/ Has(t, c)
<1>1. PICK u \in Seq(T) : u = s \o t /\ Joins(u, s, t)
  BY Concatenation, Zenon
<1>2. Len(s) \in Nat /\ Len(t) \in Nat /\ Len(u) = Len(s) + Len(t)
  BY <1>1, LenProperties DEF Joins
<1>3. ASSUME Has(s, c)
      PROVE  Has(u, c)
  BY <1>1, <1>2, <1>3 DEF Has, Joins
<1>4. ASSUME Has(t, c)
      PROVE  Has(u, c)
  <2>1. PICK i \in 1..Len(t) : t[i] = c
    BY <1>4 DEF Has
  <2>2. Len(s) + i \in 1..Len(u) /\ u[Len(s) + i] = c
    BY <1>1, <1>2, <2>1 DEF Joins
  <2>. QED
    BY <2>2 DEF Has
<1>5. ASSUME Has(u, c), ~Has(s, c)
      PROVE  Has(t, c)
  <2>1. PICK i \in 1..Len(u) : u[i] = c
    BY <1>5 DEF Has
  <2>2. ~(i \in 1..Len(s))
    BY <1>1, <1>5, <2>1 DEF Has, Joins
  <2>3. i - Len(s) \in 1..Len(t) /\ Len(s) + (i - Len(s)) = i
    BY <1>2, <2>2
  <2>4. t[i - Len(s)] = c
    BY <1>1, <2>1, <2>3 DEF Joins
  <2>. QED
    BY <2>3, <2>4 DEF Has
<1>. QED
  BY <1>1, <1>3, <1>4, <1>5

\* Without a separator in the front, UpTo cuts the back.
LEMMA UpToJoined ==
  ASSUME NEW T, NEW s \in Seq(T), NEW t \in Seq(T), NEW c, ~Has(s, c)
  PROVE  UpTo(t, c) \in Seq(T) /\ UpTo(s \o t, c) = s \o UpTo(t, c)
<1>1. PICK u \in Seq(T) : u = s \o t /\ Joins(u, s, t)
  BY Concatenation, Zenon
<1>2. PICK k \in 0..Len(t) :
        /\ k < Len(t) => t[k + 1] = c
        /\ \A i \in 1..k : t[i] # c
        /\ UpTo(t, c) = SubSeq(t, 1, k)
  BY UpToEnd
<1>3. Len(s) \in Nat /\ Len(t) \in Nat /\ Len(u) = Len(s) + Len(t)
  BY <1>1, LenProperties DEF Joins
<1>. DEFINE m == Len(s) + k
<1>4. m \in 0..Len(u) /\ (m < Len(u) => u[m + 1] = c)
  <2>1. m \in 0..Len(u)
    BY <1>3
  <2>2. ASSUME m < Len(u)
        PROVE  u[m + 1] = c
    <3>1. k + 1 \in 1..Len(t) /\ m + 1 = Len(s) + (k + 1) /\ k < Len(t)
      BY <1>3, <2>2
    <3>. QED
      BY <1>1, <1>2, <3>1 DEF Joins
  <2>. QED
    BY <2>1, <2>2
<1>5. ASSUME NEW i \in 1..m
      PROVE  u[i] # c
  <2>1. CASE i <= Len(s)
    <3>1. i \in 1..Len(s) /\ s[i] # c
      BY <1>3, <2>1 DEF Has
    <3>. QED
      BY <1>1, <3>1 DEF Joins
  <2>2. CASE ~(i <= Len(s))
    <3>1. i - Len(s) \in 1..k /\ i - Len(s) \in 1..Len(t) /\ Len(s) + (i - Len(s)) = i
      BY <1>3, <2>2
    <3>. QED
      BY <1>1, <1>2, <3>1 DEF Joins
  <2>. QED
    BY <2>1, <2>2
<1>6. UpTo(u, c) = SubSeq(u, 1, m)
  <2>. HIDE DEF m
  <2>. QED
    BY <1>4, <1>5, UpToIs
<1>. DEFINE a == SubSeq(u, 1, m)
            b == SubSeq(t, 1, k)
<1>7. a \in Seq(T) /\ Len(a) = m /\ \A i \in 1..m : a[i] = u[i]
  BY <1>3
<1>8. b \in Seq(T) /\ Len(b) = k /\ \A i \in 1..k : b[i] = t[i]
  BY <1>3
<1>9. PICK v \in Seq(T) : v = s \o b /\ Joins(v, s, b)
  <2>. HIDE DEF b
  <2>. QED
    BY <1>8, Concatenation, Zenon
<1>10. a = v
  <2>. HIDE DEF a, b
  <2>1. Len(a) = Len(v)
    BY <1>7, <1>8, <1>9 DEF Joins
  <2>2. ASSUME NEW i \in 1..Len(a)
        PROVE  a[i] = v[i]
    <3>1. CASE i <= Len(s)
      <4>1. i \in 1..Len(s) /\ i \in 1..m
        BY <1>3, <1>7, <2>2, <3>1
      <4>. QED
        BY <1>1, <1>7, <1>9, <4>1 DEF Joins
    <3>2. CASE ~(i <= Len(s))
      <4>. DEFINE j == i - Len(s)
      <4>1. j \in 1..k /\ j \in 1..Len(t) /\ Len(s) + j = i /\ i \in 1..m
        BY <1>3, <1>7, <2>2, <3>2
      <4>. HIDE DEF j
      <4>2. u[Len(s) + j] = t[j] /\ v[Len(s) + j] = b[j] /\ b[j] = t[j]
        BY <1>1, <1>8, <1>9, <4>1 DEF Joins
      <4>. QED
        BY <1>7, <4>1, <4>2
    <3>. QED
      BY <3>1, <3>2
  <2>. QED
    BY <1>7, <1>9, <2>1, <2>2, SeqEqual
<1>. QED
  BY <1>1, <1>2, <1>6, <1>8, <1>9, <1>10

\* Without a separator in the back, AfterLast cuts the front.
LEMMA AfterLastJoined ==
  ASSUME NEW T, NEW s \in Seq(T), NEW t \in Seq(T), NEW c, ~Has(t, c)
  PROVE  AfterLast(s, c) \in Seq(T) /\ AfterLast(s \o t, c) = AfterLast(s, c) \o t
<1>1. PICK u \in Seq(T) : u = s \o t /\ Joins(u, s, t)
  BY Concatenation, Zenon
<1>2. PICK k \in 0..Len(s) :
        /\ k > 0 => s[k] = c
        /\ \A i \in (k + 1)..Len(s) : s[i] # c
        /\ AfterLast(s, c) = SubSeq(s, k + 1, Len(s))
  BY AfterLastStart
<1>3. Len(s) \in Nat /\ Len(t) \in Nat /\ Len(u) = Len(s) + Len(t)
  BY <1>1, LenProperties DEF Joins
<1>4. k \in 0..Len(u) /\ (k > 0 => u[k] = c)
  <2>1. k > 0 => k \in 1..Len(s)
    BY <1>3
  <2>. QED
    BY <1>1, <1>2, <1>3, <2>1 DEF Joins
<1>5. ASSUME NEW i \in (k + 1)..Len(u)
      PROVE  u[i] # c
  <2>1. CASE i <= Len(s)
    <3>1. i \in 1..Len(s) /\ s[i] # c
      BY <1>2, <1>3, <2>1
    <3>. QED
      BY <1>1, <3>1 DEF Joins
  <2>2. CASE ~(i <= Len(s))
    <3>1. i - Len(s) \in 1..Len(t) /\ Len(s) + (i - Len(s)) = i
      BY <1>3, <2>2
    <3>2. t[i - Len(s)] # c
      BY <3>1 DEF Has
    <3>. QED
      BY <1>1, <3>1, <3>2 DEF Joins
  <2>. QED
    BY <2>1, <2>2
<1>6. AfterLast(u, c) = SubSeq(u, k + 1, Len(u))
  BY <1>4, <1>5, AfterLastIs
<1>. DEFINE a == SubSeq(u, k + 1, Len(u))
            b == SubSeq(s, k + 1, Len(s))
<1>7. a \in Seq(T) /\ Len(a) = Len(u) - k /\ \A i \in 1..(Len(u) - k) : a[i] = u[k + i]
  <2>1. k \in 0..Len(u) /\ Len(u) \in Nat
    BY <1>4
  <2>2. a \in Seq(T) /\ Len(a) = Len(u) - k
    BY <2>1
  <2>3. \A i \in 1..(Len(u) - k) : a[i] = u[k + i]
    BY <2>1
  <2>. QED
    BY <2>2, <2>3
<1>8. b \in Seq(T) /\ Len(b) = Len(s) - k /\ \A i \in 1..(Len(s) - k) : b[i] = s[k + i]
  BY <1>3
<1>9. PICK v \in Seq(T) : v = b \o t /\ Joins(v, b, t)
  <2>. HIDE DEF b
  <2>. QED
    BY <1>8, Concatenation, Zenon
<1>10. a = v
  <2>. HIDE DEF a, b
  <2>1. Len(a) = Len(v)
    BY <1>3, <1>7, <1>8, <1>9 DEF Joins
  <2>2. ASSUME NEW i \in 1..Len(a)
        PROVE  a[i] = v[i]
    <3>1. CASE i <= Len(b)
      <4>1. i \in 1..Len(b) /\ i \in 1..(Len(u) - k) /\ k + i \in 1..Len(s)
        BY <1>3, <1>7, <1>8, <2>2, <3>1
      <4>2. u[k + i] = s[k + i] /\ v[i] = b[i] /\ b[i] = s[k + i]
        BY <1>1, <1>8, <1>9, <4>1 DEF Joins
      <4>. QED
        BY <1>7, <4>1, <4>2
    <3>2. CASE ~(i <= Len(b))
      <4>. DEFINE j == i - Len(b)
      <4>1. j \in 1..Len(t) /\ Len(b) + j = i /\ Len(s) + j = k + i /\ i \in 1..(Len(u) - k)
        BY <1>3, <1>7, <1>8, <2>2, <3>2
      <4>. HIDE DEF j
      <4>2. u[Len(s) + j] = t[j] /\ v[Len(b) + j] = t[j]
        BY <1>1, <1>9, <4>1 DEF Joins
      <4>. QED
        BY <1>7, <4>1, <4>2
    <3>. QED
      BY <3>1, <3>2
  <2>. QED
    BY <1>7, <1>9, <2>1, <2>2, SeqEqual
<1>. QED
  BY <1>1, <1>2, <1>6, <1>8, <1>9, <1>10

\* With a separator in the front, UpTo does not see the back.
LEMMA UpToInFront ==
  ASSUME NEW T, NEW s \in Seq(T), NEW t \in Seq(T), NEW c, Has(s, c)
  PROVE  UpTo(s \o t, c) = UpTo(s, c)
<1>1. PICK u \in Seq(T) : u = s \o t /\ Joins(u, s, t)
  BY Concatenation, Zenon
<1>2. PICK k \in 1..Len(s) : s[k] = c /\ \A i \in 1..(k - 1) : s[i] # c
  BY FirstOf
<1>3. Len(s) \in Nat /\ Len(t) \in Nat /\ Len(u) = Len(s) + Len(t)
  BY <1>1, LenProperties DEF Joins
<1>. DEFINE m == k - 1
<1>4. m \in 0..Len(s) /\ m \in 0..Len(u) /\ m + 1 = k /\ k \in 1..Len(u)
  BY <1>3
<1>5. u[m + 1] = c /\ s[m + 1] = c /\ \A i \in 1..m : s[i] # c /\ u[i] # c
  <2>1. \A i \in 1..m : i \in 1..Len(s)
    BY <1>3
  <2>. QED
    BY <1>1, <1>2, <1>4, <2>1 DEF Joins
<1>. HIDE DEF m
<1>6. UpTo(s, c) = SubSeq(s, 1, m) /\ UpTo(u, c) = SubSeq(u, 1, m)
  BY <1>4, <1>5, UpToIs
<1>. DEFINE a == SubSeq(u, 1, m)
            b == SubSeq(s, 1, m)
<1>7. /\ a \in Seq(T) /\ Len(a) = m /\ \A i \in 1..m : a[i] = u[i]
      /\ b \in Seq(T) /\ Len(b) = m /\ \A i \in 1..m : b[i] = s[i]
  BY <1>3, <1>4
<1>8. \A i \in 1..m : i \in 1..Len(s)
  BY <1>3, <1>4
<1>9. a = b
  <2>. HIDE DEF a, b
  <2>1. \A i \in 1..m : a[i] = b[i]
    BY <1>1, <1>7, <1>8 DEF Joins
  <2>. QED
    BY <1>7, <2>1, SeqEqual
<1>. QED
  BY <1>1, <1>6, <1>9

LEMMA NoSeparator ==
  ASSUME NEW T, NEW s \in Seq(T), NEW c, ~Has(s, c)
  PROVE  UpTo(s, c) = s
<1>1. Len(s) \in Nat /\ Len(s) \in 0..Len(s) /\ \A i \in 1..Len(s) : s[i] # c
  BY LenProperties DEF Has
<1>2. UpTo(s, c) = SubSeq(s, 1, Len(s))
  BY <1>1, UpToIs
<1>. QED
  BY <1>2, SubSeqFull

\* What begins with the separator has nothing before it, and nothing else does.
LEMMA UpToEmpty ==
  ASSUME NEW T, NEW s \in Seq(T), NEW c
  PROVE  /\ UpTo(s, c) \in Seq(T)
         /\ UpTo(s, c) = <<>> <=> (s = <<>> \/ s[1] = c)
         /\ UpTo(s, c) # <<>> => UpTo(s, c)[1] = s[1]
<1>1. PICK k \in 0..Len(s) :
        /\ k < Len(s) => s[k + 1] = c
        /\ \A i \in 1..k : s[i] # c
        /\ UpTo(s, c) = SubSeq(s, 1, k)
  BY UpToEnd
<1>. DEFINE a == SubSeq(s, 1, k)
<1>2. Len(s) \in Nat
  BY LenProperties
<1>3. a \in Seq(T) /\ Len(a) = k /\ \A i \in 1..k : a[i] = s[i]
  BY <1>2
<1>4. s = <<>> <=> Len(s) = 0
  BY EmptySeq
<1>5. a = <<>> <=> k = 0
  <2>. HIDE DEF a
  <2>. QED
    BY <1>3, EmptySeq
<1>6. k = 0 <=> (s = <<>> \/ s[1] = c)
  <2>1. k = 0 => Len(s) = 0 \/ s[0 + 1] = c
    BY <1>1, <1>2
  <2>2. k # 0 => 1 \in 1..k /\ Len(s) # 0 /\ s[1] # c
    BY <1>1, <1>2
  <2>. QED
    BY <1>2, <1>4, <2>1, <2>2
<1>7. k # 0 => a[1] = s[1]
  BY <1>3
<1>. QED
  BY <1>1, <1>3, <1>5, <1>6, <1>7

\* The same facts about the strings over one alphabet.
Associates(s, t, u) == (s \o t) \o u = s \o (t \o u)
CutsBack(s, t, c) == UpTo(s \o t, c) = s \o UpTo(t, c)

Rules(T) ==
  /\ \A s, t, u \in Seq(T) : Associates(s, t, u)
  /\ \A s \in Seq(T) : s \o <<>> = s
  /\ \A c : \A s, t \in Seq(T) : Has(s \o t, c) <=> Has(s, c) \/ Has(t, c)
  /\ \A c : \A s, t \in Seq(T) : ~Has(s, c) => CutsBack(s, t, c)
  /\ \A c : \A s, t \in Seq(T) : ~Has(t, c) =>
       AfterLast(s \o t, c) = AfterLast(s, c) \o t
  /\ \A c : \A s, t \in Seq(T) : Has(s, c) => UpTo(s \o t, c) = UpTo(s, c)
  /\ \A c : \A s \in Seq(T) : AfterLast(s, c) \in Seq(T)

LEMMA RulesHold ==
  ASSUME NEW T
  PROVE  Rules(T)
<1>1. \A s, t, u \in Seq(T) : Associates(s, t, u)
  BY ConcatAssociative DEF Associates
<1>2. \A s \in Seq(T) : s \o <<>> = s
  BY ConcatEmptySeq
<1>3. \A c : \A s, t \in Seq(T) : Has(s \o t, c) <=> Has(s, c) \/ Has(t, c)
  BY HasJoined
<1>4. \A c : \A s, t \in Seq(T) : ~Has(s, c) => CutsBack(s, t, c)
  BY UpToJoined DEF CutsBack
<1>5. \A c : \A s, t \in Seq(T) : ~Has(t, c) =>
        AfterLast(s \o t, c) = AfterLast(s, c) \o t
  BY AfterLastJoined
<1>6. \A c : \A s, t \in Seq(T) : Has(s, c) => UpTo(s \o t, c) = UpTo(s, c)
  BY UpToInFront
<1>7. \A c : \A s \in Seq(T) : AfterLast(s, c) \in Seq(T)
  <2>. SUFFICES ASSUME NEW c, NEW s \in Seq(T)
                PROVE  AfterLast(s, c) \in Seq(T)
    OBVIOUS
  <2>1. PICK k \in 0..Len(s) : AfterLast(s, c) = SubSeq(s, k + 1, Len(s))
    BY AfterLastStart
  <2>. QED
    BY <2>1
<1>. QED
  BY <1>1, <1>2, <1>3, <1>4, <1>5, <1>6, <1>7 DEF Rules

-----------------------------------------------------------------------------
(* Deploy tokens *)

\* Where the parts of the HMAC's input are.
Layout(input, name, repo) ==
  /\ Len(input) = Len(name) + Len(repo) + 3
  /\ input[2] = Len(name)
  /\ \A i \in 1..Len(name) : input[2 + i] = name[i]
  /\ \A i \in 1..Len(repo) : input[Len(name) + 3 + i] = repo[i]

LEMMA InputLayout ==
  ASSUME NEW S, Tag \in S, Nat \subseteq S,
         NEW name \in Seq(S), NEW repo \in Seq(S), Len(name) <= MaxU32
  PROVE  Layout(Input(name, repo), name, repo)
<1>1. Length(name) = Len(name) /\ Length(name) \in S /\ Length(repo) \in S
  BY LenProperties, DeployKeyAssumption DEF Length
<1>2. PICK h \in Seq(S) : h = <<Tag, Length(name)>> /\ Len(h) = 2 /\ h[2] = Len(name)
  <2>1. <<Tag, Length(name)>> \in Seq(S)
    BY <1>1
  <2> WITNESS <<Tag, Length(name)>> \in Seq(S)
  <2> QED
    BY <1>1
<1>3. PICK m \in Seq(S) : m = <<Length(repo)>> /\ Len(m) = 1
  <2>1. <<Length(repo)>> \in Seq(S)
    BY <1>1
  <2> WITNESS <<Length(repo)>> \in Seq(S)
  <2> QED
    OBVIOUS
<1>4. PICK hn \in Seq(S) : hn = h \o name /\ Joins(hn, h, name)
  BY Concatenation, Zenon
<1>5. PICK hnm \in Seq(S) : hnm = hn \o m /\ Joins(hnm, hn, m)
  BY Concatenation, Zenon
<1>6. PICK input \in Seq(S) : input = hnm \o repo /\ Joins(input, hnm, repo)
  BY Concatenation, Zenon
<1>7. Input(name, repo) = input
  BY <1>2, <1>3, <1>4, <1>5, <1>6 DEF Input
<1>8. Len(name) \in Nat /\ Len(repo) \in Nat
  BY LenProperties
<1>9. Len(hn) = Len(name) + 2 /\ Len(hnm) = Len(name) + 3
  BY <1>2, <1>3, <1>4, <1>5, <1>8 DEF Joins
<1>10. Len(input) = Len(name) + Len(repo) + 3
  BY <1>6, <1>8, <1>9 DEF Joins
<1>11. input[2] = Len(name)
  BY <1>2, <1>4, <1>5, <1>6, <1>8, <1>9 DEF Joins
<1>12. \A i \in 1..Len(name) : input[2 + i] = name[i]
  BY <1>2, <1>4, <1>5, <1>6, <1>8, <1>9 DEF Joins
<1>13. \A i \in 1..Len(repo) : input[Len(name) + 3 + i] = repo[i]
  BY <1>6, <1>8, <1>9 DEF Joins
<1> QED
  BY <1>7, <1>10, <1>11, <1>12, <1>13 DEF Layout

\* The HMAC's input determines the name and the repository: the length in front
\* of the name says where it ends, so that no other pair is put together to
\* the same bytes.  It needs no assumption on the length of the repository.
LEMMA InputInjective ==
  ASSUME NEW S, Tag \in S, Nat \subseteq S,
         NEW name1 \in Seq(S), NEW repo1 \in Seq(S), Len(name1) <= MaxU32,
         NEW name2 \in Seq(S), NEW repo2 \in Seq(S), Len(name2) <= MaxU32,
         Input(name1, repo1) = Input(name2, repo2)
  PROVE  name1 = name2 /\ repo1 = repo2
<1>1. PICK input : Layout(input, name1, repo1) /\ Layout(input, name2, repo2)
  <2>1. Layout(Input(name1, repo1), name1, repo1)
    BY InputLayout
  <2>2. Layout(Input(name2, repo2), name2, repo2)
    BY InputLayout
  <2> QED
    BY <2>1, <2>2
<1>2. Len(name1) = Len(name2) /\ Len(repo1) = Len(repo2)
  BY <1>1, LenProperties DEF Layout
<1>3. \A i \in 1..Len(name1) : name1[i] = name2[i]
  BY <1>1, <1>2 DEF Layout
<1>4. \A i \in 1..Len(repo1) : repo1[i] = repo2[i]
  BY <1>1, <1>2 DEF Layout
<1> QED
  BY <1>2, <1>3, <1>4, SeqEqual

-----------------------------------------------------------------------------
(* Theorems *)

\* A token is accepted for the app and repository it was issued for and for no
\* other, under the secret it was issued with (deploy_key.rs:13-27);
\* validate_dns_label bounds the names by 63, far below MaxU32.  S holds the
\* letters of the input: the characters, the tag and the lengths.
THEOREM TokenBinds ==
  ASSUME NEW S, Tag \in S, Nat \subseteq S, NEW issued, NEW secret,
         NEW name1 \in Seq(S), NEW repo1 \in Seq(S), Len(name1) <= MaxU32,
         NEW name2 \in Seq(S), NEW repo2 \in Seq(S), Len(name2) <= MaxU32
  PROVE  verify(secret, derive(issued, name1, repo1), name2, repo2)
           <=> (issued = secret /\ name1 = name2 /\ repo1 = repo2)
<1>1. ASSUME verify(secret, derive(issued, name1, repo1), name2, repo2)
      PROVE  issued = secret /\ Input(name1, repo1) = Input(name2, repo2)
  BY <1>1 DEF verify, derive, mac_bytes, hmac
<1>2. (issued = secret /\ name1 = name2 /\ repo1 = repo2)
        => verify(secret, derive(issued, name1, repo1), name2, repo2)
  BY DEF verify
<1> QED
  BY <1>1, <1>2, InputInjective

\* A repository that passes validation is read back from every reference that
\* is made of it, pinned or not, and so is the tag; the credentials are those of
\* its registry (bugpot-config lib.rs:361-389, image.rs: registry_host).
THEOREM ReferenceReadBack ==
  ASSUME NEW T, ":" \in T, "@" \in T,
         NEW repo \in Seq(T), NEW tag \in Seq(T), NEW digest \in Seq(T)
  PROVE  ReferenceResolves(repo, tag, digest)
<1>. SUFFICES ASSUME validate_repo(repo), IsTag(tag), IsDigest(digest)
              PROVE  LET ref    == resolve_image_ref(repo, tag)
                         pinned == digest_pinned_ref(ref, digest)
                     IN  /\ TagOf(ref) = tag /\ TagOf(pinned) = tag
                         /\ RepoOf(ref) = repo /\ RepoOf(pinned) = repo
                         /\ digest_pinned_ref(pinned, <<>>) = pinned
                         /\ registry_host(ref) = registry_host(repo)
                         /\ registry_host(pinned) = registry_host(repo)
  BY DEF ReferenceResolves
<1>0. Rules(T)
  BY RulesHold
<1>1. PICK colon \in Seq(T) :
        /\ colon = <<":">> /\ Len(colon) = 1
        /\ Has(colon, ":") /\ ~Has(colon, "@") /\ ~Has(colon, "/")
  <2>1. <<":">> \in Seq(T)
    OBVIOUS
  <2>. WITNESS <<":">> \in Seq(T)
  <2>. QED
    BY DEF Has
<1>2. PICK at \in Seq(T) :
        /\ at = <<"@">> /\ Len(at) = 1
        /\ Has(at, "@") /\ ~Has(at, "/")
  <2>1. <<"@">> \in Seq(T)
    OBVIOUS
  <2>. WITNESS <<"@">> \in Seq(T)
  <2>. QED
    BY DEF Has
<1>3. PICK back \in Seq(T) : back = colon \o tag /\ Joins(back, colon, tag)
  BY Concatenation, Zenon
<1>4. PICK ref \in Seq(T) : ref = repo \o back /\ Joins(ref, repo, back)
  BY Concatenation, Zenon
<1>5. PICK end \in Seq(T) : end = at \o digest /\ Joins(end, at, digest)
  BY Concatenation, Zenon
<1>6. PICK pinned \in Seq(T) : pinned = ref \o end /\ Joins(pinned, ref, end)
  BY Concatenation, Zenon
<1>7. resolve_image_ref(repo, tag) = ref
  <2>1. Associates(repo, colon, tag)
    BY <1>0 DEF Rules
  <2>. QED
    BY <1>1, <1>3, <1>4, <2>1 DEF resolve_image_ref, Associates
<1>8. ~Has(back, "@") /\ ~Has(back, "/") /\ ~Has(repo, "@")
  <2>1. ~Has(tag, "@") /\ ~Has(tag, "/") /\ ~Has(repo, "@")
    BY DEF IsTag, validate_repo
  <2>. QED
    BY <1>1, <1>3, <2>1, <1>0 DEF Rules
<1>9. ~Has(ref, "@")
  BY <1>4, <1>8, <1>0 DEF Rules
<1>10. Has(end, "@") /\ ~Has(end, "/")
  BY <1>2, <1>5, <1>0 DEF IsDigest, Rules
<1>11. Has(pinned, "@")
  BY <1>6, <1>10, <1>0 DEF Rules
<1>12. digest_pinned_ref(ref, digest) = pinned
  <2>1. Associates(ref, at, digest)
    BY <1>0 DEF Rules
  <2>. QED
    BY <1>2, <1>5, <1>6, <1>9, <2>1 DEF digest_pinned_ref, Associates
<1>13. digest_pinned_ref(pinned, <<>>) = pinned
  BY <1>11 DEF digest_pinned_ref
<1>14. Unpinned(ref) = ref
  BY <1>9, NoSeparator DEF Unpinned
<1>15. Unpinned(pinned) = ref
  <2>1. UpTo(end, "@") = <<>>
    <3>1. end[1] = "@"
      BY <1>2, <1>5 DEF Joins
    <3>. QED
      BY <3>1, UpToEmpty
  <2>0. CutsBack(ref, end, "@")
    BY <1>9, <1>0 DEF Rules
  <2>2. UpTo(pinned, "@") = ref \o <<>>
    BY <1>6, <2>0, <2>1 DEF CutsBack
  <2>. QED
    BY <2>2, <1>0 DEF Unpinned, Rules
<1>. DEFINE tail == AfterLast(repo, "/")
            last == AfterLast(ref, "/")
<1>16. tail \in Seq(T) /\ ~Has(tail, ":") /\ last = tail \o back
  <2>1. AfterLast(repo, "/") \in Seq(T)
        /\ AfterLast(repo \o back, "/") = AfterLast(repo, "/") \o back
    <3>1. \A s, t \in Seq(T) : ~Has(t, "/") =>
            AfterLast(s \o t, "/") = AfterLast(s, "/") \o t
      BY <1>0 DEF Rules
    <3>2. AfterLast(repo, "/") \in Seq(T)
      BY <1>0 DEF Rules
    <3>. QED
      BY <1>8, <3>1, <3>2
  <2>2. ~Has(AfterLast(repo, "/"), ":")
    BY DEF validate_repo
  <2>. QED
    BY <1>4, <2>1, <2>2
<1>17. UpTo(last, ":") = tail
  <2>. HIDE DEF tail, last
  <2>1. UpTo(back, ":") = <<>>
    <3>1. back[1] = ":"
      BY <1>1, <1>3 DEF Joins
    <3>. QED
      BY <3>1, UpToEmpty
  <2>0. CutsBack(tail, back, ":")
    BY <1>16, <1>0 DEF Rules
  <2>2. UpTo(last, ":") = tail \o <<>>
    BY <1>16, <2>0, <2>1 DEF CutsBack
  <2>. QED
    BY <1>16, <2>2, <1>0 DEF Rules
<1>18. SubSeq(last, Len(tail) + 2, Len(last)) = tag
  <2>. HIDE DEF tail, last
  <2>1. last \in Seq(T) /\ Joins(last, tail, back)
    BY <1>16, Concatenation, Zenon
  <2>2. /\ Len(tail) \in Nat /\ Len(tag) \in Nat
        /\ Len(last) = Len(tail) + Len(tag) + 1 /\ Len(back) = Len(tag) + 1
    BY <1>1, <1>3, <1>16, <2>1, LenProperties DEF Joins
  <2>. DEFINE a == SubSeq(last, Len(tail) + 2, Len(last))
  <2>3. a \in Seq(T) /\ Len(a) = Len(tag)
        /\ \A i \in 1..Len(tag) : a[i] = last[Len(tail) + 1 + i]
    <3>. DEFINE m == Len(tail) + 2
                n == Len(last)
    <3>1. m \in Int /\ n \in Int /\ n - m + 1 = Len(tag) /\ \A i \in m..n : last[i] \in T
      BY <2>1, <2>2
    <3>2. /\ a \in Seq(T) /\ Len(a) = IF m <= n THEN n - m + 1 ELSE 0
          /\ \A i \in 1..(n - m + 1) : a[i] = last[m + i - 1]
      <4>. HIDE DEF m, n
      <4>1. a = SubSeq(last, m, n)
        BY DEF m, n
      <4>. HIDE DEF a
      <4>. QED
        BY <3>1, <4>1, SubSeqProperties
    <3>3. \A i \in 1..Len(tag) : m + i - 1 = Len(tail) + 1 + i
      BY <2>2
    <3>. HIDE DEF a
    <3>. QED
      <4>1. m <= n \/ Len(tag) = 0
        BY <2>2, <3>1
      <4>2. Len(a) = Len(tag)
        BY <2>2, <3>1, <3>2, <4>1
      <4>3. \A i \in 1..Len(tag) : a[i] = last[m + i - 1]
        BY <3>1, <3>2
      <4>. QED
        BY <3>2, <3>3, <4>2, <4>3
  <2>4. \A i \in 1..Len(tag) : a[i] = tag[i]
    <3>. HIDE DEF a
    <3>. TAKE i \in 1..Len(tag)
    <3>1. i + 1 \in 1..Len(back) /\ Len(tail) + 1 + i = Len(tail) + (i + 1)
      BY <2>2
    <3>2. last[Len(tail) + (i + 1)] = back[i + 1]
      BY <2>1, <3>1 DEF Joins
    <3>3. back[i + 1] = tag[i]
      <4>1. back[Len(colon) + i] = tag[i]
        BY <1>3 DEF Joins
      <4>2. Len(colon) + i = i + 1
        BY <1>1, <2>2
      <4>. QED
        BY <4>1, <4>2
    <3>. QED
      BY <2>3, <3>1, <3>2, <3>3
  <2>. HIDE DEF a
  <2>5. a = tag
    BY <2>3, <2>4, SeqEqual
  <2>. QED
    BY <2>5 DEF a
<1>19. TagOf(ref) = tag /\ TagOf(pinned) = tag
  BY <1>14, <1>15, <1>17, <1>18 DEF TagOf
<1>20. RepoOf(ref) = repo /\ RepoOf(pinned) = repo
  <2>1. Len(ref) - Len(tag) - 1 = Len(repo)
    BY <1>1, <1>3, <1>4, LenProperties DEF Joins
  <2>2. SubSeq(ref, 1, Len(repo)) = repo
    <3>. DEFINE a == SubSeq(ref, 1, Len(repo))
    <3>1. Len(repo) \in Nat /\ Len(back) \in Nat /\ Len(ref) = Len(repo) + Len(back)
      BY <1>4, LenProperties DEF Joins
    <3>2. a \in Seq(T) /\ Len(a) = Len(repo) /\ \A i \in 1..Len(repo) : a[i] = ref[i]
      BY <3>1
    <3>. HIDE DEF a
    <3>3. a = repo
      <4>1. \A i \in 1..Len(repo) : a[i] = repo[i]
        BY <1>4, <3>2 DEF Joins
      <4>. QED
        BY <3>2, <4>1, SeqEqual
    <3>. QED
      BY <3>3 DEF a
  <2>3. tag # <<>>
    BY DEF IsTag
  <2>. QED
    BY <1>14, <1>15, <1>19, <2>1, <2>2, <2>3 DEF RepoOf
<1>21. registry_host(ref) = registry_host(repo) /\ registry_host(pinned) = registry_host(repo)
  <2>1. CASE Has(repo, "/")
    <3>1. Has(ref, "/") /\ Has(pinned, "/")
      BY <1>4, <1>6, <2>1, <1>0 DEF Rules
    <3>2. UpTo(ref, "/") = UpTo(repo, "/") /\ UpTo(pinned, "/") = UpTo(ref, "/")
      BY <1>4, <1>6, <2>1, <3>1, <1>0 DEF Rules
    <3>. QED
      BY <2>1, <3>1, <3>2 DEF registry_host
  <2>2. CASE ~Has(repo, "/")
    <3>1. ~Has(ref, "/")
      BY <1>4, <1>8, <2>2, <1>0 DEF Rules
    <3>2. ~Has(pinned, "/")
      BY <1>6, <1>10, <3>1, <1>0 DEF Rules
    <3>. QED
      BY <2>2, <3>1, <3>2 DEF registry_host
  <2>. QED
    BY <2>1, <2>2
<1>. QED
  BY <1>7, <1>12, <1>13, <1>19, <1>20, <1>21

\* The Host header of an app leads to its subdomain, whatever domain or port
\* follows it, and any longer first label does not (router lib.rs:221-229).
THEOREM HostReadBack ==
  ASSUME NEW T, NEW label \in Seq(T), NEW rest \in Seq(T)
  PROVE  HostReaches(label, rest)
<1>. SUFFICES ASSUME validate_dns_label(label)
              PROVE  subdomain_of(label \o rest) = label
                       <=> (rest = <<>> \/ rest[1] \in {".", ":"})
  BY DEF HostReaches
<1>0. Rules(T)
  BY RulesHold
<1>1. ~Has(label, ":") /\ ~Has(label, ".") /\ 1 \in 1..Len(label) /\ label[1] # "["
  BY SpecRulesAssumption DEF validate_dns_label, Has
<1>2. PICK host \in Seq(T) : host = label \o rest /\ Joins(host, label, rest)
  BY Concatenation, Zenon
<1>3. host[1] # "["
  BY <1>1, <1>2 DEF Joins
<1>. DEFINE port == UpTo(rest, ":")
            more == UpTo(port, ".")
<1>4. /\ port \in Seq(T)
      /\ port = <<>> <=> (rest = <<>> \/ rest[1] = ":")
      /\ port # <<>> => port[1] = rest[1]
  BY UpToEmpty
<1>5. /\ more \in Seq(T)
      /\ more = <<>> <=> (port = <<>> \/ port[1] = ".")
  <2>. HIDE DEF port
  <2>. QED
    BY <1>4, UpToEmpty
<1>6. UpTo(host, ":") = label \o port
  BY <1>1, <1>2, <1>0 DEF Rules, CutsBack
<1>7. UpTo(label \o port, ".") = label \o more
  <2>. HIDE DEF port
  <2>. QED
    BY <1>1, <1>4, <1>0 DEF Rules, CutsBack
<1>8. subdomain_of(host) = label \o more
  BY <1>3, <1>6, <1>7 DEF subdomain_of
<1>9. label \o more = label <=> more = <<>>
  <2>. HIDE DEF more
  <2>. QED
    BY <1>5, ConcatEqualIffEmpty
<1>. QED
  <2>. HIDE DEF port, more
  <2>. QED
    BY <1>2, <1>4, <1>5, <1>8, <1>9

\* The machine that writes every text goes through the three theorems: wherever
\* a text is parted in two, the parts are recovered, without any bound.
THEOREM PartsHold == SpecsSpec => []PartsRecovered
<1>. DEFINE Inv == text \in Seq(Alphabet)
<1>1. Init => Inv
  BY DEF Init
<1>2. Inv /\ [Next]_<<text, image_env>> => Inv'
  <2>. SUFFICES ASSUME Inv, [Next]_<<text, image_env>>
                PROVE  Inv'
    OBVIOUS
  <2>1. ASSUME NEW c \in Alphabet, Type(c)
        PROVE  Inv'
    BY <2>1 DEF Type
  <2>2. CASE UNCHANGED text
    BY <2>2
  <2>. QED
    BY <2>1, <2>2 DEF Next, AddEntry
<1>3. Inv => PartsRecovered
  <2>. SUFFICES ASSUME Inv, NEW i \in Places
                PROVE  /\ ReferenceResolves(Before(i), After(i), <<"s", ":", "d">>)
                       /\ HostReaches(Before(i), After(i))
                       /\ \A j \in Places :
                            TokenBound(Before(i), After(i), Before(j), After(j))
    BY DEF PartsRecovered
  <2>. DEFINE T == Alphabet \cup {"s", "d", Tag} \cup Nat
  <2>1. ":" \in T /\ "@" \in T /\ Tag \in T /\ Nat \subseteq T /\ text \in Seq(T)
    BY DEF Alphabet
  <2>2. <<"s", ":", "d">> \in Seq(T)
    BY DEF Alphabet
  <2>. HIDE DEF T
  <2>3. \A j \in Places : Before(j) \in Seq(T) /\ After(j) \in Seq(T)
    BY <2>1 DEF Places, Before, After
  <2>4. ReferenceResolves(Before(i), After(i), <<"s", ":", "d">>)
    <3>. DEFINE digest == <<"s", ":", "d">>
    <3>1. digest \in Seq(T)
      BY <2>2
    <3>. HIDE DEF digest
    <3>2. ReferenceResolves(Before(i), After(i), digest)
      BY <2>1, <2>3, <3>1, ReferenceReadBack
    <3>. QED
      BY <3>2 DEF digest
  <2>5. HostReaches(Before(i), After(i))
    BY <2>3, HostReadBack
  <2>6. ASSUME NEW j \in Places
        PROVE  TokenBound(Before(i), After(i), Before(j), After(j))
    BY <2>1, <2>3, TokenBinds DEF TokenBound
  <2>. QED
    BY <2>4, <2>5, <2>6
<1>. QED
  BY <1>1, <1>2, <1>3, PTL DEF SpecsSpec

=============================================================================

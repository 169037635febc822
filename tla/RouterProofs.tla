---------------------------- MODULE RouterProofs ----------------------------
(***************************************************************************)
(* Theorems about Router and the loops it runs beside (Pressure), for any  *)
(* number of apps, requests, permits and readings and any idle timeout.    *)
(***************************************************************************)
EXTENDS Router, FiniteSetTheorems, SequenceTheorems, TLAPS

-----------------------------------------------------------------------------
(* The inductive invariant *)

\* Whoever has got past the resolver names an app, and an end can only be gone
\* from a connection that is being spliced.
HostsKnown ==
  /\ \A r \in Requests :
       phase[r] \in {"forward", "connect"} \cup Counted => host[r] \in Apps
  /\ \A r \in broken : phase[r] = "splice"

\* Nothing is read that was not sent, and a direction is shut after its end of
\* file, behind everything that came before it.
PipesInOrder ==
  \A r \in Requests, d \in Directions :
    /\ pipe[r][d].unread <= pipe[r][d].sent
    /\ pipe[r][d].shut =>
         pipe[r][d].eof /\ pipe[r][d].unread = 0 /\ pipe[r][d].buffer = 0

\* The time a splice has been quiet and the time until its watchdog looks
\* cannot exceed the bound together.
WatchKept ==
  \A r \in Requests :
    /\ quiet[r] + sleep[r] < IDLE + TICK
    /\ phase[r] # "splice" => quiet[r] = 0 /\ sleep[r] = 0

\* The loop evicts for a shortage only.
EvictsWhenShort == evicting => short

\* The scan: steady apps are frozen, and those it has passed by are not older
\* than the candidate as it was when the scan read it.
ScanInOrder ==
  /\ \A a \in steady : state[a] = "Frozen"
  /\ candidate = NoApp => older = {} /\ steady \subseteq unscanned
  /\ candidate \in steady => older = {b \in Apps : Before(b, candidate)}
  /\ older \cap steady \subseteq unscanned
  /\ \A x \in older, y \in Apps \ older : Before(x, y)

RouterIInv ==
  /\ RouterInv
  /\ HostsKnown /\ PipesInOrder /\ WatchKept /\ EvictsWhenShort /\ ScanInOrder
-----------------------------------------------------------------------------
(* Counting *)

\* Sets that differ in one request at most differ by one in size.
LEMMA Count ==
  ASSUME NEW S \in SUBSET Requests, NEW T \in SUBSET Requests, NEW r \in Requests,
         \A q \in Requests \ {r} : q \in S <=> q \in T
  PROVE  /\ Cardinality(S) \in Nat /\ Cardinality(T) \in Nat
         /\ Cardinality(T) + (IF r \in S THEN 1 ELSE 0)
              = Cardinality(S) + (IF r \in T THEN 1 ELSE 0)
<1>1. IsFiniteSet(S) /\ IsFiniteSet(T) /\ IsFiniteSet(S \ {r})
  BY RouterAssumption, FS_Subset
<1>2. /\ Cardinality(S) \in Nat /\ Cardinality(T) \in Nat
      /\ Cardinality(S \ {r}) \in Nat
  BY <1>1, FS_CardinalityType
<1>3. Cardinality(S \ {r}) = IF r \in S THEN Cardinality(S) - 1 ELSE Cardinality(S)
  BY <1>1, FS_RemoveElement
<1>4. Cardinality(T \ {r}) = IF r \in T THEN Cardinality(T) - 1 ELSE Cardinality(T)
  BY <1>1, FS_RemoveElement
<1>5. Cardinality(S \ {r}) = Cardinality(T \ {r})
  <2>1. S \ {r} = T \ {r}
    OBVIOUS
  <2>. QED
    BY <2>1
<1>6. CASE r \in S
  BY <1>2, <1>3, <1>4, <1>5, <1>6
<1>7. CASE r \notin S
  BY <1>2, <1>3, <1>4, <1>5, <1>7
<1>. QED
  BY <1>6, <1>7

-----------------------------------------------------------------------------
(* Sequences without repetition *)

LEMMA Taken ==
  ASSUME NEW S, NEW seq \in Seq(S), IsInjective(seq), NEW x \in ToSet(seq)
  PROVE  \E i \in 1..Len(seq) :
           /\ seq[i] = x
           /\ Without(seq, x) \in Seq(S)
           /\ Len(Without(seq, x)) = Len(seq) - 1
           /\ \A j \in 1..(Len(seq) - 1) :
                Without(seq, x)[j] = IF j < i THEN seq[j] ELSE seq[j + 1]
<1>1. Len(seq) \in Nat /\ DOMAIN seq = 1..Len(seq) /\ \A j \in 1..Len(seq) : seq[j] \in S
  BY LenProperties, ElementOfSeq
<1>2. PICK i \in 1..Len(seq) : seq[i] = x /\ i = CHOOSE j \in DOMAIN seq : seq[j] = x
  BY <1>1 DEF ToSet
<1>. DEFINE front == SubSeq(seq, 1, i - 1)
            back == SubSeq(seq, i + 1, Len(seq))
<1>3. Without(seq, x) = front \o back
  BY <1>2 DEF Without, RemoveAt
<1>4. /\ front \in Seq(S) /\ Len(front) = i - 1
      /\ \A j \in 1..(i - 1) : front[j] = seq[j]
  <2>1. 1 \in Int /\ i - 1 \in Int /\ \A j \in 1..(i - 1) : seq[j] \in S
    BY <1>1, <1>2
  <2>2. /\ front \in Seq(S)
        /\ Len(front) = IF 1 <= i - 1 THEN i - 1 - 1 + 1 ELSE 0
        /\ \A j \in 1..(i - 1 - 1 + 1) : front[j] = seq[1 + j - 1]
    BY <2>1, SubSeqProperties
  <2>. QED
    BY <1>1, <1>2, <2>2
<1>5. /\ back \in Seq(S) /\ Len(back) = Len(seq) - i
      /\ \A j \in 1..(Len(seq) - i) : back[j] = seq[i + j]
  <2>1. i + 1 \in Int /\ Len(seq) \in Int /\ \A j \in (i + 1)..Len(seq) : seq[j] \in S
    BY <1>1, <1>2
  <2>2. /\ back \in Seq(S)
        /\ Len(back) = IF i + 1 <= Len(seq) THEN Len(seq) - (i + 1) + 1 ELSE 0
        /\ \A j \in 1..(Len(seq) - (i + 1) + 1) : back[j] = seq[i + 1 + j - 1]
    BY <2>1, SubSeqProperties
  <2>3. /\ Len(seq) - (i + 1) + 1 = Len(seq) - i
        /\ ~(i + 1 <= Len(seq)) => Len(seq) - i = 0
    BY <1>1, <1>2
  <2>4. Len(back) = Len(seq) - i
    BY <2>2, <2>3
  <2>5. ASSUME NEW j \in 1..(Len(seq) - i) PROVE back[j] = seq[i + j]
    <3>1. i + 1 + j - 1 = i + j
      BY <1>2
    <3>. QED
      BY <2>2, <2>3, <3>1
  <2>. QED
    BY <2>2, <2>4, <2>5
<1>. HIDE DEF front, back
<1>6. /\ front \o back \in Seq(S)
      /\ Len(front \o back) = Len(front) + Len(back)
      /\ \A j \in 1..(Len(front) + Len(back)) : (front \o back)[j] =
           IF j <= Len(front) THEN front[j] ELSE back[j - Len(front)]
  BY <1>4, <1>5, ConcatProperties
<1>7. Len(front \o back) = Len(seq) - 1
  BY <1>1, <1>2, <1>4, <1>5, <1>6
<1>8. ASSUME NEW j \in 1..(Len(seq) - 1)
      PROVE  (front \o back)[j] = IF j < i THEN seq[j] ELSE seq[j + 1]
  <2>1. (front \o back)[j] = IF j <= i - 1 THEN front[j] ELSE back[j - (i - 1)]
    BY <1>1, <1>2, <1>4, <1>5, <1>6
  <2>2. CASE j < i
    BY <1>1, <1>2, <1>4, <2>1, <2>2
  <2>3. CASE ~(j < i)
    <3>1. j - (i - 1) \in 1..(Len(seq) - i) /\ i + (j - (i - 1)) = j + 1
      BY <1>1, <1>2, <2>3
    <3>2. back[j - (i - 1)] = seq[j + 1]
      BY <1>5, <3>1
    <3>3. ~(j <= i - 1)
      BY <1>2, <2>3
    <3>. QED
      BY <2>1, <2>3, <3>2, <3>3
  <2>. QED
    BY <2>2, <2>3
<1>. QED
  BY <1>2, <1>3, <1>6, <1>7, <1>8

LEMMA Left ==
  ASSUME NEW S, NEW seq \in Seq(S), IsInjective(seq), NEW x \in ToSet(seq)
  PROVE  /\ Without(seq, x) \in Seq(S) /\ IsInjective(Without(seq, x))
         /\ ToSet(Without(seq, x)) = ToSet(seq) \ {x}
<1>. DEFINE rest == Without(seq, x)
<1>1. PICK i \in 1..Len(seq) :
        /\ seq[i] = x /\ rest \in Seq(S) /\ Len(rest) = Len(seq) - 1
        /\ \A j \in 1..(Len(seq) - 1) : rest[j] = IF j < i THEN seq[j] ELSE seq[j + 1]
  BY Taken
<1>. HIDE DEF rest
<1>2. Len(seq) \in Nat /\ DOMAIN seq = 1..Len(seq) /\ DOMAIN rest = 1..(Len(seq) - 1)
  BY <1>1, LenProperties
<1>3. \A j, k \in 1..Len(seq) : seq[j] = seq[k] => j = k
  BY <1>2 DEF IsInjective
<1>4. \A j, k \in 1..(Len(seq) - 1) : rest[j] = rest[k] => j = k
  BY <1>1, <1>2, <1>3
<1>5. \A j \in 1..(Len(seq) - 1) : \E k \in 1..Len(seq) : k # i /\ rest[j] = seq[k]
  <2>1. ASSUME NEW j \in 1..(Len(seq) - 1), j < i
        PROVE  j \in 1..Len(seq) /\ j # i /\ rest[j] = seq[j]
    BY <1>1, <1>2, <2>1
  <2>2. ASSUME NEW j \in 1..(Len(seq) - 1), ~(j < i)
        PROVE  j + 1 \in 1..Len(seq) /\ j + 1 # i /\ rest[j] = seq[j + 1]
    BY <1>1, <1>2, <2>2
  <2>. QED
    BY <2>1, <2>2
<1>6. ASSUME NEW j \in 1..Len(seq), seq[j] # x
      PROVE  \E k \in 1..(Len(seq) - 1) : rest[k] = seq[j]
  <2>1. CASE j < i
    BY <1>1, <1>2, <2>1
  <2>2. CASE j > i
    <3>1. j - 1 \in 1..(Len(seq) - 1) /\ rest[j - 1] = seq[j]
      BY <1>1, <1>2, <2>2
    <3>. QED
      BY <3>1
  <2>. QED
    BY <1>1, <1>2, <1>6, <2>1, <2>2
<1>7. ToSet(rest) = ToSet(seq) \ {x}
  <2>1. ASSUME NEW y \in ToSet(rest) PROVE y \in ToSet(seq) \ {x}
    <3>1. PICK j \in 1..(Len(seq) - 1) : y = rest[j]
      BY <1>2 DEF ToSet
    <3>2. PICK k \in 1..Len(seq) : k # i /\ y = seq[k]
      BY <1>5, <3>1
    <3>. QED
      BY <1>1, <1>2, <1>3, <3>2 DEF ToSet
  <2>2. ASSUME NEW y PROVE y \in ToSet(seq) \ {x} => y \in ToSet(rest)
    BY <1>2, <1>6 DEF ToSet
  <2>. QED
    BY <2>1, <2>2
<1>8. IsInjective(rest)
  BY <1>2, <1>4 DEF IsInjective
<1>. QED
  BY <1>1, <1>7, <1>8 DEF rest

LEMMA Joined ==
  ASSUME NEW S, NEW seq \in Seq(S), IsInjective(seq), NEW x \in S, x \notin ToSet(seq)
  PROVE  /\ Append(seq, x) \in Seq(S) /\ IsInjective(Append(seq, x))
         /\ ToSet(Append(seq, x)) = ToSet(seq) \cup {x}
<1>. DEFINE longer == Append(seq, x)
<1>1. /\ longer \in Seq(S) /\ Len(longer) = Len(seq) + 1
      /\ \A j \in 1..Len(seq) : longer[j] = seq[j]
      /\ longer[Len(seq) + 1] = x
  BY AppendProperties
<1>. HIDE DEF longer
<1>2. Len(seq) \in Nat /\ DOMAIN seq = 1..Len(seq) /\ DOMAIN longer = 1..(Len(seq) + 1)
  BY <1>1, LenProperties
<1>3. \A j \in 1..Len(seq) : seq[j] # x
  BY <1>2 DEF ToSet
<1>4. IsInjective(longer)
  BY <1>1, <1>2, <1>3 DEF IsInjective
<1>5. ToSet(longer) = ToSet(seq) \cup {x}
  BY <1>1, <1>2 DEF ToSet
<1>. QED
  BY <1>1, <1>4, <1>5 DEF longer

LEMMA Served ==
  ASSUME NEW S, NEW seq \in Seq(S), IsInjective(seq), seq # <<>>
  PROVE  /\ Head(seq) \in ToSet(seq)
         /\ Tail(seq) \in Seq(S) /\ IsInjective(Tail(seq))
         /\ ToSet(Tail(seq)) = ToSet(seq) \ {Head(seq)}
<1>1. /\ Len(seq) \in Nat \ {0} /\ DOMAIN seq = 1..Len(seq)
      /\ Head(seq) = seq[1]
      /\ Tail(seq) \in Seq(S) /\ Len(Tail(seq)) = Len(seq) - 1
      /\ \A j \in 1..(Len(seq) - 1) : Tail(seq)[j] = seq[j + 1]
  BY LenProperties, HeadTailProperties, EmptySeq
<1>2. DOMAIN Tail(seq) = 1..(Len(seq) - 1)
  BY <1>1, LenProperties
<1>3. \A j, k \in 1..Len(seq) : seq[j] = seq[k] => j = k
  BY <1>1 DEF IsInjective
<1>4. IsInjective(Tail(seq))
  BY <1>1, <1>2, <1>3 DEF IsInjective
<1>5. \A j \in 1..(Len(seq) - 1) : \E k \in 1..Len(seq) : k # 1 /\ Tail(seq)[j] = seq[k]
  <2>1. ASSUME NEW j \in 1..(Len(seq) - 1)
        PROVE  j + 1 \in 1..Len(seq) /\ j + 1 # 1 /\ Tail(seq)[j] = seq[j + 1]
    BY <1>1
  <2>. QED
    BY <2>1
<1>6. ASSUME NEW j \in 1..Len(seq), seq[j] # Head(seq)
      PROVE  \E k \in 1..(Len(seq) - 1) : Tail(seq)[k] = seq[j]
  <2>1. j - 1 \in 1..(Len(seq) - 1) /\ Tail(seq)[j - 1] = seq[j]
    BY <1>1, <1>6
  <2>. QED
    BY <2>1
<1>7. ToSet(Tail(seq)) = ToSet(seq) \ {Head(seq)}
  <2>1. ASSUME NEW y PROVE y \in ToSet(Tail(seq)) => y \in ToSet(seq) \ {Head(seq)}
    BY <1>1, <1>2, <1>3, <1>5 DEF ToSet
  <2>2. ASSUME NEW y \in ToSet(seq) \ {Head(seq)} PROVE y \in ToSet(Tail(seq))
    <3>1. PICK j \in 1..Len(seq) : y = seq[j] /\ y # Head(seq)
      BY <1>1 DEF ToSet
    <3>2. PICK k \in 1..(Len(seq) - 1) : Tail(seq)[k] = y
      BY <1>6, <3>1
    <3>. QED
      BY <1>2, <3>2 DEF ToSet
  <2>. QED
    BY <2>1, <2>2
<1>8. Head(seq) \in ToSet(seq)
  BY <1>1 DEF ToSet
<1>. QED
  BY <1>1, <1>4, <1>7, <1>8
-----------------------------------------------------------------------------
(* The order of last_access *)

LEMMA Listed ==
  ASSUME NEW seq \in SetToSeqs(Apps)
  PROVE  /\ seq \in [1..Cardinality(Apps) -> Apps]
         /\ \A i, j \in 1..Cardinality(Apps) : i # j => seq[i] # seq[j]
         /\ \A a \in Apps : \E i \in DOMAIN seq : seq[i] = a
<1>. DEFINE N == Cardinality(Apps)
<1>1. N \in Nat /\ IsFiniteSet(Apps)
  BY PressureAssumption, FS_CardinalityType
<1>2. /\ seq \in [1..N -> Apps]
      /\ \A i, j \in 1..N : i # j => seq[i] # seq[j]
  BY DEF SetToSeqs
<1>3. seq \in Injection(1..N, Apps)
  BY <1>2 DEF Injection, IsInjective
<1>4. IsFiniteSet(1..N) /\ Cardinality(1..N) = N
  <2>1. Cardinality(1..N) = IF 1 > N THEN 0 ELSE N - 1 + 1
    BY <1>1, FS_Interval
  <2>. QED
    BY <1>1, <2>1, FS_Interval
<1>5. seq \in Surjection(1..N, Apps)
  BY <1>1, <1>3, <1>4, FS_Injection
<1>6. \A a \in Apps : \E i \in 1..N : seq[i] = a
  BY <1>5 DEF Surjection
<1>. QED
  BY <1>2, <1>6

LEMMA PlaceKnown ==
  ASSUME recency \in SetToSeqs(Apps), NEW a \in Apps
  PROVE  Place(a) \in 1..Cardinality(Apps) /\ recency[Place(a)] = a
<1>1. Place(a) \in DOMAIN recency /\ recency[Place(a)] = a
  BY Listed DEF Place
<1>. QED
  BY <1>1, Listed

LEMMA PlaceUnique ==
  ASSUME recency \in SetToSeqs(Apps), NEW i \in 1..Cardinality(Apps)
  PROVE  recency[i] \in Apps /\ Place(recency[i]) = i
<1>1. /\ recency \in [1..Cardinality(Apps) -> Apps]
      /\ \A j, k \in 1..Cardinality(Apps) : j # k => recency[j] # recency[k]
  BY DEF SetToSeqs
<1>2. recency[i] \in Apps
  BY <1>1
<1>. QED
  BY <1>1, <1>2, PlaceKnown

LEMMA BeforeOrders ==
  ASSUME recency \in SetToSeqs(Apps)
  PROVE  /\ \A a, b \in Apps : Before(a, b) => ~Before(b, a)
         /\ \A a, b \in Apps : a # b => Before(a, b) \/ Before(b, a)
         /\ \A a, b, c \in Apps : Before(a, b) /\ Before(b, c) => Before(a, c)
<1>1. \A a \in Apps : Place(a) \in Nat /\ recency[Place(a)] = a
  BY PlaceKnown
<1>. QED
  BY <1>1 DEF Before

LEMMA AccessedOrder ==
  ASSUME recency \in SetToSeqs(Apps), NEW a \in Apps, Accessed(a)
  PROVE  /\ recency' \in SetToSeqs(Apps)
         /\ \A b \in Apps \ {a} : (Before(b, a))' /\ ~(Before(a, b))'
         /\ \A b, c \in Apps \ {a} : (Before(b, c))' <=> Before(b, c)
<1>. DEFINE N == Cardinality(Apps)
            rest == Without(recency, a)
<1>1. N \in Nat
  BY PressureAssumption, FS_CardinalityType
<1>2. /\ recency \in [1..N -> Apps]
      /\ \A i, j \in 1..N : i # j => recency[i] # recency[j]
  BY DEF SetToSeqs
<1>3. recency \in Seq(Apps) /\ Len(recency) = N /\ IsInjective(recency)
  BY <1>1, <1>2 DEF IsInjective
<1>4. a \in ToSet(recency)
  BY <1>2, PlaceKnown DEF ToSet
<1>5. PICK i \in 1..N :
        /\ recency[i] = a /\ rest \in Seq(Apps) /\ Len(rest) = N - 1
        /\ \A j \in 1..(N - 1) : rest[j] = IF j < i THEN recency[j] ELSE recency[j + 1]
  <2>1. \E i \in 1..Len(recency) :
          /\ recency[i] = a /\ rest \in Seq(Apps) /\ Len(rest) = Len(recency) - 1
          /\ \A j \in 1..(Len(recency) - 1) :
               rest[j] = IF j < i THEN recency[j] ELSE recency[j + 1]
    BY <1>3, <1>4, Taken, Zenon
  <2>. QED
    BY <1>3, <2>1
<1>. HIDE DEF rest
<1>6. recency' = Append(rest, a)
  BY DEF Accessed, rest
<1>7. /\ recency' \in Seq(Apps) /\ Len(recency') = N /\ recency'[N] = a
      /\ \A j \in 1..(N - 1) : recency'[j] = rest[j]
  BY <1>1, <1>5, <1>6, AppendProperties
<1>8. recency' \in [1..N -> Apps]
  BY <1>7, LenProperties
<1>9. \A j \in 1..(N - 1) : recency'[j] = IF j < i THEN recency[j] ELSE recency[j + 1]
  BY <1>5, <1>7
<1>10. \A j, k \in 1..N : j # k => recency'[j] # recency'[k]
  BY <1>1, <1>2, <1>5, <1>7, <1>9
<1>11. recency' \in SetToSeqs(Apps)
  BY <1>8, <1>10 DEF SetToSeqs
<1>12. Place(a) = i
  BY <1>5, PlaceUnique
<1>13. \A b \in Apps : (Place(b))' \in 1..N /\ recency'[(Place(b))'] = b
  <2>. SUFFICES ASSUME NEW b \in Apps
                PROVE  (Place(b))' \in 1..N /\ recency'[(Place(b))'] = b
    OBVIOUS
  <2>1. \E k \in DOMAIN recency' : recency'[k] = b
    BY <1>11, Listed
  <2>2. (Place(b))' \in DOMAIN recency' /\ recency'[(Place(b))'] = b
    BY <2>1 DEF Place
  <2>. QED
    BY <1>8, <2>2
<1>14. (Place(a))' = N
  BY <1>1, <1>5, <1>7, <1>10, <1>13
<1>15. ASSUME NEW b \in Apps \ {a}
       PROVE  (Place(b))' = IF Place(b) < i THEN Place(b) ELSE Place(b) - 1
  <2>1. Place(b) \in 1..N /\ recency[Place(b)] = b /\ Place(b) # i
    BY <1>5, PlaceKnown
  <2>2. CASE Place(b) < i
    <3>1. Place(b) \in 1..(N - 1) /\ recency'[Place(b)] = b
      BY <1>1, <1>9, <2>1, <2>2
    <3>. QED
      BY <1>1, <1>10, <1>13, <2>2, <3>1
  <2>3. CASE Place(b) > i
    <3>1. Place(b) - 1 \in 1..(N - 1) /\ recency'[Place(b) - 1] = b
      BY <1>1, <1>9, <2>1, <2>3
    <3>2. (Place(b))' \in 1..N /\ recency'[(Place(b))'] = b
      BY <1>13
    <3>3. (Place(b))' = Place(b) - 1
      BY <1>1, <1>10, <3>1, <3>2
    <3>. QED
      BY <1>1, <1>5, <2>1, <2>3, <3>3
  <2>. QED
    BY <1>1, <2>1, <2>2, <2>3
<1>16. \A b \in Apps \ {a} : Place(b) \in 1..N /\ Place(b) # i
  BY <1>5, PlaceKnown
<1>17. ASSUME NEW b \in Apps \ {a} PROVE (Before(b, a))' /\ ~(Before(a, b))'
  BY <1>1, <1>14, <1>15, <1>16 DEF Before
<1>18. ASSUME NEW b \in Apps \ {a}, NEW c \in Apps \ {a}
       PROVE  (Before(b, c))' <=> Before(b, c)
  <2>1. Place(b) = Place(c) => b = c
    BY PlaceKnown
  <2>. QED
    BY <1>1, <1>15, <1>16, <2>1 DEF Before
<1>. QED
  BY <1>11, <1>17, <1>18
-----------------------------------------------------------------------------
(* What a step does to the limits *)

One(b) == IF b THEN 1 ELSE 0

Holders(P) == {r \in Requests : phase[r] \in P}
CountedAt(a) == {r \in Requests : phase[r] \in Counted /\ host[r] = a}

\* A request goes from one phase to another and takes or returns what that
\* takes and returns.
LEMMA SlotsMoved ==
  ASSUME RouterTypeOK, SlotsAccounted, NEW r \in Requests, NEW p \in Phases,
         phase' = [phase EXCEPT ![r] = p],
         request_slots' \in Nat, upgrade_slots' \in Nat,
         request_slots' = request_slots + One(phase[r] \in InHandler) - One(p \in InHandler),
         upgrade_slots' = upgrade_slots + One(phase[r] \in HoldsPermit) - One(p \in HoldsPermit),
         ToSet(queue') = {q \in Requests : phase'[q] = "queued"}, IsInjective(queue')
  PROVE  /\ SlotsAccounted'
         /\ request_slots' \in 0..MAX_CONCURRENT_REQUESTS
         /\ upgrade_slots' \in 0..MAX_CONCURRENT_UPGRADES
<1>1. /\ MAX_CONCURRENT_REQUESTS \in Nat /\ MAX_CONCURRENT_UPGRADES \in Nat
      /\ request_slots \in Nat /\ upgrade_slots \in Nat
      /\ phase'[r] = p /\ \A q \in Requests \ {r} : phase'[q] = phase[q]
  BY RouterAssumption DEF RouterTypeOK
<1>2. ASSUME NEW P
      PROVE  /\ Cardinality(Holders(P)) \in Nat /\ Cardinality((Holders(P))') \in Nat
             /\ Cardinality((Holders(P))') + One(phase[r] \in P)
                  = Cardinality(Holders(P)) + One(p \in P)
  <2>1. /\ Holders(P) \in SUBSET Requests /\ (Holders(P))' \in SUBSET Requests
        /\ \A q \in Requests \ {r} : q \in Holders(P) <=> q \in (Holders(P))'
        /\ (r \in Holders(P)) <=> (phase[r] \in P)
        /\ (r \in (Holders(P))') <=> (p \in P)
    BY <1>1 DEF Holders
  <2>2. /\ Cardinality(Holders(P)) \in Nat /\ Cardinality((Holders(P))') \in Nat
        /\ Cardinality((Holders(P))') + (IF r \in Holders(P) THEN 1 ELSE 0)
             = Cardinality(Holders(P)) + (IF r \in (Holders(P))' THEN 1 ELSE 0)
    BY <2>1, Count
  <2>. QED
    BY <2>1, <2>2 DEF One
<1>3. /\ request_slots + Cardinality(Holders(InHandler)) = MAX_CONCURRENT_REQUESTS
      /\ upgrade_slots + Cardinality(Holders(HoldsPermit)) = MAX_CONCURRENT_UPGRADES
  BY DEF SlotsAccounted, Holders
<1>4. /\ request_slots' + Cardinality((Holders(InHandler))') = MAX_CONCURRENT_REQUESTS
      /\ request_slots' \in 0..MAX_CONCURRENT_REQUESTS
  <2>1. /\ Cardinality(Holders(InHandler)) \in Nat /\ Cardinality((Holders(InHandler))') \in Nat
        /\ Cardinality((Holders(InHandler))') + One(phase[r] \in InHandler)
             = Cardinality(Holders(InHandler)) + One(p \in InHandler)
    BY <1>2
  <2>. QED
    BY <1>1, <1>3, <2>1 DEF One
<1>5. /\ upgrade_slots' + Cardinality((Holders(HoldsPermit))') = MAX_CONCURRENT_UPGRADES
      /\ upgrade_slots' \in 0..MAX_CONCURRENT_UPGRADES
  <2>1. /\ Cardinality(Holders(HoldsPermit)) \in Nat /\ Cardinality((Holders(HoldsPermit))') \in Nat
        /\ Cardinality((Holders(HoldsPermit))') + One(phase[r] \in HoldsPermit)
             = Cardinality(Holders(HoldsPermit)) + One(p \in HoldsPermit)
    BY <1>2
  <2>. QED
    BY <1>1, <1>3, <2>1 DEF One
<1>. QED
  BY <1>4, <1>5 DEF SlotsAccounted, Holders, InHandler, HoldsPermit

LEMMA UpgradesMoved ==
  ASSUME RouterTypeOK, UpgradesCounted, SlotsAccounted',
         upgrade_slots' \in 0..MAX_CONCURRENT_UPGRADES,
         NEW r \in Requests,
         \A q \in Requests \ {r} : phase'[q] = phase[q] /\ host'[q] = host[q],
         active_upgrades' \in [Apps -> Int],
         \A a \in Apps : active_upgrades'[a] + One(phase[r] \in Counted /\ host[r] = a)
           = active_upgrades[a] + One(phase'[r] \in Counted /\ host'[r] = a)
  PROVE  /\ UpgradesCounted'
         /\ active_upgrades' \in [Apps -> 0..MAX_CONCURRENT_UPGRADES]
<1>1. ASSUME NEW a \in Apps
      PROVE  /\ active_upgrades'[a] = Cardinality((CountedAt(a))')
             /\ active_upgrades'[a] \in 0..MAX_CONCURRENT_UPGRADES
  <2>1. /\ CountedAt(a) \in SUBSET Requests /\ (CountedAt(a))' \in SUBSET Requests
        /\ \A q \in Requests \ {r} : q \in CountedAt(a) <=> q \in (CountedAt(a))'
        /\ (r \in CountedAt(a)) <=> (phase[r] \in Counted /\ host[r] = a)
        /\ (r \in (CountedAt(a))') <=> (phase'[r] \in Counted /\ host'[r] = a)
    BY DEF CountedAt, Counted
  <2>2. /\ Cardinality(CountedAt(a)) \in Nat /\ Cardinality((CountedAt(a))') \in Nat
        /\ Cardinality((CountedAt(a))') + (IF r \in CountedAt(a) THEN 1 ELSE 0)
             = Cardinality(CountedAt(a)) + (IF r \in (CountedAt(a))' THEN 1 ELSE 0)
    BY <2>1, Count
  <2>3. active_upgrades[a] = Cardinality(CountedAt(a)) /\ active_upgrades'[a] \in Int
    BY DEF UpgradesCounted, CountedAt
  <2>4. active_upgrades'[a] = Cardinality((CountedAt(a))')
    BY <2>1, <2>2, <2>3 DEF One
  <2>5. (CountedAt(a))' \in SUBSET (Holders(HoldsPermit))' /\ (Holders(HoldsPermit))' \in SUBSET Requests
    BY DEF CountedAt, Holders, Counted, HoldsPermit
  <2>6. IsFiniteSet((Holders(HoldsPermit))')
    BY <2>5, RouterAssumption, FS_Subset
  <2>7. Cardinality((CountedAt(a))') <= Cardinality((Holders(HoldsPermit))')
    BY <2>5, <2>6, FS_Subset
  <2>8. Cardinality((Holders(HoldsPermit))') \in Nat
    BY <2>6, FS_CardinalityType
  <2>9. upgrade_slots' + Cardinality((Holders(HoldsPermit))') = MAX_CONCURRENT_UPGRADES
    BY DEF SlotsAccounted, Holders, HoldsPermit
  <2>. QED
    BY <2>2, <2>4, <2>7, <2>8, <2>9, RouterAssumption
<1>. QED
  BY <1>1 DEF UpgradesCounted, CountedAt, Counted
-----------------------------------------------------------------------------
(* What a step does to the scan *)

\* A request for an app leaves the scan in order: the app is passed over.
LEMMA AccessKeepsScan ==
  ASSUME RouterTypeOK, ScanInOrder, NEW a \in Apps, Accessed(a),
         \A b \in Apps \ {a} : state'[b] = state[b],
         UNCHANGED <<candidate, unscanned>>
  PROVE  /\ ScanInOrder'
         /\ recency' \in SetToSeqs(Apps) /\ older' \subseteq Apps /\ steady' \subseteq Apps
<1>1. /\ recency' \in SetToSeqs(Apps)
      /\ \A b \in Apps \ {a} : (Before(b, a))' /\ ~(Before(a, b))'
      /\ \A b, c \in Apps \ {a} : (Before(b, c))' <=> Before(b, c)
  BY AccessedOrder DEF RouterTypeOK
<1>2. older' = older \ {a} /\ steady' = steady \ {a} /\ older \subseteq Apps /\ steady \subseteq Apps
  BY DEF Accessed, RouterTypeOK
<1>3. \A b \in steady' : state'[b] = "Frozen"
  BY <1>2 DEF ScanInOrder
<1>4. candidate' = NoApp => older' = {} /\ steady' \subseteq unscanned'
  BY <1>2 DEF ScanInOrder
<1>5. candidate' \in steady' => older' = {b \in Apps : (Before(b, candidate))'}
  <2>. SUFFICES ASSUME candidate \in steady \ {a}
                PROVE  older \ {a} = {b \in Apps : (Before(b, candidate))'}
    BY <1>2
  <2>1. older = {b \in Apps : Before(b, candidate)} /\ candidate \in Apps \ {a}
    BY <1>2 DEF ScanInOrder
  <2>2. ~(Before(a, candidate))'
    BY <1>1, <2>1
  <2>. QED
    BY <1>1, <2>1, <2>2
<1>6. older' \cap steady' \subseteq unscanned'
  BY <1>2 DEF ScanInOrder
<1>7. ASSUME NEW x \in older', NEW y \in Apps \ older' PROVE (Before(x, y))'
  <2>1. x \in Apps \ {a} /\ x \in older
    BY <1>2
  <2>2. CASE y = a
    BY <1>1, <2>1, <2>2
  <2>3. CASE y # a
    BY <1>1, <1>2, <2>1, <2>3 DEF ScanInOrder
  <2>. QED
    BY <2>2, <2>3
<1>8. ScanInOrder'
  BY <1>3, <1>4, <1>5, <1>6, <1>7 DEF ScanInOrder
<1>. QED
  BY <1>1, <1>2, <1>8

LEMMA ScanUndisturbed ==
  ASSUME ScanInOrder, UNCHANGED <<state, recency, unscanned, candidate, older, steady>>
  PROVE  ScanInOrder'
BY DEF ScanInOrder, Before, Place

\* The look at one more app.
LEMMA ScanGoesOn ==
  ASSUME RouterTypeOK, ScanInOrder, EvictsWhenShort, NEW a \in Apps, Scan(a)
  PROVE  /\ ScanInOrder' /\ EvictsWhenShort'
         /\ candidate' \in Apps \cup {NoApp} /\ older' \subseteq Apps /\ unscanned' \subseteq Apps
         /\ evicting' \in BOOLEAN /\ (~Asleep' => evicting')
<1>. USE DEF Scan, Found
<1>1. /\ unscanned' = unscanned \ {a} /\ a \in unscanned
      /\ UNCHANGED <<state, recency, steady, short>>
      /\ older \subseteq Apps /\ steady \subseteq Apps /\ unscanned \subseteq Apps
      /\ candidate \in Apps \cup {NoApp} /\ a # NoApp
      /\ evicting' = (unscanned' # {} \/ candidate' # NoApp)
  BY PressureAssumption DEF RouterTypeOK
<1>2. \A b, c \in Apps : (Before(b, c))' <=> Before(b, c)
  BY <1>1 DEF Before, Place
<1>3. EvictsWhenShort' /\ evicting' \in BOOLEAN /\ (~Asleep' => evicting')
  BY <1>1 DEF EvictsWhenShort, RouterTypeOK, Asleep
<1>4. recency \in SetToSeqs(Apps)
  BY DEF RouterTypeOK
<1>5. CASE state[a] = "Frozen" /\ (candidate = NoApp \/ a \in older)
  <2>1. candidate' = a /\ older' = {b \in Apps : Before(b, a)}
    BY <1>5
  <2>2. a \notin older'
    BY <1>4, <2>1, BeforeOrders
  <2>3. older' \cap steady \subseteq unscanned
    <3>1. CASE candidate = NoApp
      BY <3>1 DEF ScanInOrder
    <3>2. CASE a \in older
      <4>1. older' \subseteq older
        BY <1>1, <1>4, <2>1, <3>2, BeforeOrders DEF ScanInOrder
      <4>. QED
        BY <4>1 DEF ScanInOrder
    <3>. QED
      BY <1>5, <3>1, <3>2
  <2>4. ASSUME NEW x \in older', NEW y \in Apps \ older' PROVE Before(x, y)
    <3>1. x \in Apps /\ y \in Apps /\ Before(x, a) /\ ~Before(y, a)
      BY <2>1
    <3>. QED
      BY <1>1, <1>4, <3>1, BeforeOrders
  <2>5. older' = {b \in Apps : (Before(b, a))'}
    BY <1>1, <1>2, <2>1
  <2>6. ScanInOrder'
    BY <1>1, <1>2, <2>1, <2>2, <2>3, <2>4, <2>5 DEF ScanInOrder
  <2>. QED
    BY <1>1, <1>3, <2>1, <2>6
<1>6. CASE ~(state[a] = "Frozen" /\ (candidate = NoApp \/ a \in older))
  <2>1. candidate' = candidate /\ older' = older
    BY <1>6
  <2>2. a \in steady => candidate # NoApp /\ a \notin older
    BY <1>6 DEF ScanInOrder
  <2>3. ASSUME candidate \in steady
        PROVE  older = {b \in Apps : (Before(b, candidate))'}
    <3>1. candidate \in Apps /\ older = {b \in Apps : Before(b, candidate)}
      BY <1>1, <2>3 DEF ScanInOrder
    <3>2. \A b \in Apps : (Before(b, candidate))' <=> Before(b, candidate)
      BY <1>1, <2>1, <3>1 DEF Before, Place
    <3>. QED
      BY <3>1, <3>2
  <2>4. \A x \in older, y \in Apps \ older : (Before(x, y))'
    BY <1>1, <1>2 DEF ScanInOrder
  <2>5. ScanInOrder'
    BY <1>1, <2>1, <2>2, <2>3, <2>4 DEF ScanInOrder
  <2>. QED
    BY <1>1, <1>3, <2>1, <2>5
<1>. QED
  BY <1>5, <1>6
-----------------------------------------------------------------------------
(* The steps of the loops *)

\* What concerns the requests and their splices and no app.
LEMMA RequestsUndisturbed ==
  ASSUME RouterIInv, UNCHANGED <<requestVars, spliceVars, active_upgrades>>
  PROVE  SlotsAccounted' /\ UpgradesCounted' /\ HostsKnown' /\ PipesInOrder' /\ WatchKept'
BY DEF RouterIInv, RouterInv, requestVars, spliceVars, SlotsAccounted, UpgradesCounted,
   HostsKnown, PipesInOrder, WatchKept

LEMMA LoopsKeep ==
  ASSUME RouterIInv, UNCHANGED <<requestVars, spliceVars>>,
         \/ Tick \/ Evict \/ MemoryChanges
         \/ \E a \in Apps : Scan(a) \/ FreezeDecide(a) \/ FreezeCommit(a)
  PROVE  RouterIInv'
<1>. USE DEF RouterIInv, RouterInv, RouterTypeOK, requestVars, spliceVars, pressureVars, loopVars
<1>1. CASE Tick
  <2>1. RouterTypeOK'
    BY <1>1 DEF Tick, BeginScan, StayAsleep, Asleep
  <2>2. EvictsWhenShort'
    BY <1>1 DEF Tick, BeginScan, StayAsleep, EvictsWhenShort
  <2>3. ScanInOrder'
    <3>1. /\ unscanned = {} /\ candidate = NoApp /\ older = {}
          /\ UNCHANGED <<state, recency, candidate, older>>
          /\ \/ unscanned' = Apps /\ steady' = {a \in Apps : state[a] = "Frozen"}
             \/ UNCHANGED <<unscanned, steady>>
      BY <1>1 DEF Tick, BeginScan, StayAsleep, Asleep, ScanInOrder
    <3>2. CASE unscanned' = Apps /\ steady' = {a \in Apps : state[a] = "Frozen"}
      BY <3>1, <3>2, PressureAssumption DEF ScanInOrder
    <3>3. CASE UNCHANGED <<unscanned, steady>>
      BY <3>1, <3>3, ScanUndisturbed
    <3>. QED
      BY <3>1, <3>2, <3>3
  <2>4. UNCHANGED active_upgrades
    BY <1>1 DEF Tick
  <2>. QED
    BY <2>1, <2>2, <2>3, <2>4, RequestsUndisturbed
<1>2. CASE Evict
  <2>1. RouterTypeOK'
    BY <1>2 DEF Evict, Asleep
  <2>2. EvictsWhenShort' /\ ScanInOrder'
    BY <1>2 DEF Evict, EvictsWhenShort, ScanInOrder
  <2>3. UNCHANGED active_upgrades
    BY <1>2 DEF Evict
  <2>. QED
    BY <2>1, <2>2, <2>3, RequestsUndisturbed
<1>3. CASE MemoryChanges
  <2>1. RouterTypeOK'
    BY <1>3 DEF MemoryChanges, Asleep
  <2>2. EvictsWhenShort' /\ ScanInOrder'
    BY <1>3, ScanUndisturbed DEF MemoryChanges, EvictsWhenShort
  <2>3. UNCHANGED active_upgrades
    BY <1>3 DEF MemoryChanges
  <2>. QED
    BY <2>1, <2>2, <2>3, RequestsUndisturbed
<1>4. ASSUME NEW a \in Apps, Scan(a) PROVE RouterIInv'
  <2>1. /\ ScanInOrder' /\ EvictsWhenShort'
        /\ candidate' \in Apps \cup {NoApp} /\ older' \subseteq Apps /\ unscanned' \subseteq Apps
        /\ evicting' \in BOOLEAN /\ (~Asleep' => evicting')
    BY <1>4, ScanGoesOn
  <2>2. UNCHANGED <<load, state, recency, active_upgrades, freezing, mem_available, steady, short>>
    BY <1>4 DEF Scan, Found
  <2>3. RouterTypeOK'
    BY <2>1, <2>2
  <2>. QED
    BY <2>1, <2>2, <2>3, RequestsUndisturbed
<1>5. ASSUME NEW a \in Apps, FreezeDecide(a) PROVE RouterIInv'
  <2>1. RouterTypeOK'
    BY <1>5 DEF FreezeDecide, Asleep
  <2>2. EvictsWhenShort' /\ ScanInOrder'
    BY <1>5, ScanUndisturbed DEF FreezeDecide, EvictsWhenShort
  <2>3. UNCHANGED active_upgrades
    BY <1>5 DEF FreezeDecide
  <2>. QED
    BY <2>1, <2>2, <2>3, RequestsUndisturbed
<1>6. ASSUME NEW a \in Apps, FreezeCommit(a) PROVE RouterIInv'
  <2>1. RouterTypeOK'
    BY <1>6 DEF FreezeCommit, Asleep
  <2>2. EvictsWhenShort'
    BY <1>6 DEF FreezeCommit, EvictsWhenShort
  <2>3. ScanInOrder'
    BY <1>6 DEF FreezeCommit, ScanInOrder, Before, Place
  <2>4. UNCHANGED active_upgrades
    BY <1>6 DEF FreezeCommit
  <2>. QED
    BY <2>1, <2>2, <2>3, <2>4, RequestsUndisturbed
<1>. QED
  BY <1>1, <1>2, <1>3, <1>4, <1>5, <1>6
-----------------------------------------------------------------------------
(* The steps of a request *)

\* A request reads and writes no more of the apps than the one it names.
OneAppMoves ==
  /\ UNCHANGED <<load, freezing, mem_available, loopVars>>
  /\ \/ UNCHANGED <<state, recency, older, steady>>
     \/ \E a \in Apps : /\ Accessed(a)
                        /\ state' \in {[state EXCEPT ![a] = s] : s \in {"Running", "Stopped"}}

LEMMA AppsKept ==
  ASSUME RouterIInv, OneAppMoves
  PROVE  /\ ScanInOrder' /\ EvictsWhenShort'
         /\ state' \in [Apps -> {"Stopped", "Running", "Frozen"}]
         /\ recency' \in SetToSeqs(Apps) /\ older' \subseteq Apps /\ steady' \subseteq Apps
         /\ Asleep' = Asleep
<1>1. EvictsWhenShort' /\ Asleep' = Asleep
  BY DEF OneAppMoves, loopVars, RouterIInv, EvictsWhenShort, Asleep
<1>2. CASE UNCHANGED <<state, recency, older, steady>>
  BY <1>1, <1>2, ScanUndisturbed DEF OneAppMoves, loopVars, RouterIInv, RouterInv, RouterTypeOK
<1>3. ASSUME NEW a \in Apps, Accessed(a), NEW s \in {"Running", "Stopped"},
             state' = [state EXCEPT ![a] = s]
      PROVE  /\ ScanInOrder' /\ state' \in [Apps -> {"Stopped", "Running", "Frozen"}]
             /\ recency' \in SetToSeqs(Apps) /\ older' \subseteq Apps /\ steady' \subseteq Apps
  <2>1. state \in [Apps -> {"Stopped", "Running", "Frozen"}] /\ RouterTypeOK /\ ScanInOrder
    BY DEF RouterIInv, RouterInv, RouterTypeOK
  <2>2. UNCHANGED <<candidate, unscanned>>
    BY DEF OneAppMoves, loopVars
  <2>3. \A b \in Apps \ {a} : state'[b] = state[b]
    BY <1>3, <2>1
  <2>. QED
    BY <1>3, <2>1, <2>2, <2>3, AccessKeepsScan
<1>. QED
  BY <1>1, <1>2, <1>3 DEF OneAppMoves

\* The request r goes to p, now naming h, with everything that goes with it.
Moves(r, p, h) ==
  /\ p \in Phases \ {"splice"} /\ phase[r] # "splice"
  /\ h \in Apps \cup {NoApp}
  /\ p \in {"forward", "connect"} \cup Counted => h \in Apps
  /\ phase' = [phase EXCEPT ![r] = p] /\ host' = [host EXCEPT ![r] = h]
  /\ upgrade' \in [Requests -> BOOLEAN]
  /\ request_slots' \in Nat /\ upgrade_slots' \in Nat
  /\ request_slots' = request_slots + One(phase[r] \in InHandler) - One(p \in InHandler)
  /\ upgrade_slots' = upgrade_slots + One(phase[r] \in HoldsPermit) - One(p \in HoldsPermit)
  /\ queue' \in Seq(Requests) /\ IsInjective(queue')
  /\ ToSet(queue') = {q \in Requests : phase'[q] = "queued"}
  /\ active_upgrades' \in [Apps -> Int]
  /\ \A a \in Apps : active_upgrades'[a] + One(phase[r] \in Counted /\ host[r] = a)
       = active_upgrades[a] + One(p \in Counted /\ h = a)

LEMMA RequestMoves ==
  ASSUME RouterIInv, OneAppMoves, UNCHANGED spliceVars,
         NEW r \in Requests, NEW p, NEW h, Moves(r, p, h)
  PROVE  RouterIInv'
<1>. USE DEF RouterIInv, RouterInv, Moves
<1>1. /\ phase \in [Requests -> Phases] /\ host \in [Requests -> Apps \cup {NoApp}]
      /\ phase' \in [Requests -> Phases] /\ host' \in [Requests -> Apps \cup {NoApp}]
      /\ phase'[r] = p /\ host'[r] = h
      /\ \A q \in Requests \ {r} : phase'[q] = phase[q] /\ host'[q] = host[q]
  BY DEF RouterTypeOK
<1>2. /\ SlotsAccounted'
      /\ request_slots' \in 0..MAX_CONCURRENT_REQUESTS
      /\ upgrade_slots' \in 0..MAX_CONCURRENT_UPGRADES
  BY SlotsMoved DEF RouterTypeOK
<1>3. /\ UpgradesCounted'
      /\ active_upgrades' \in [Apps -> 0..MAX_CONCURRENT_UPGRADES]
  BY <1>1, <1>2, UpgradesMoved
<1>4. /\ ScanInOrder' /\ EvictsWhenShort'
      /\ state' \in [Apps -> {"Stopped", "Running", "Frozen"}]
      /\ recency' \in SetToSeqs(Apps) /\ older' \subseteq Apps /\ steady' \subseteq Apps
      /\ Asleep' = Asleep
  BY AppsKept
<1>5. RouterTypeOK'
  BY <1>1, <1>2, <1>3, <1>4 DEF RouterTypeOK, OneAppMoves, loopVars, spliceVars
<1>6. HostsKnown'
  BY <1>1 DEF HostsKnown, spliceVars, RouterTypeOK
<1>7. PipesInOrder' /\ WatchKept'
  BY <1>1 DEF PipesInOrder, WatchKept, spliceVars
<1>. QED
  BY <1>2, <1>3, <1>4, <1>5, <1>6, <1>7
RequestSteps(r) ==
  \/ Arrive(r) \/ Leave(r) \/ Enter(r)
  \/ ResolveFails(r) \/ ResolvedPlain(r) \/ ResolvedUpgrade(r) \/ UpgradeRefused(r)
  \/ Forwarded(r) \/ NotUpgraded(r) \/ Upgraded(r) \/ Dropped(r)

LEMMA RequestsKeep ==
  ASSUME RouterIInv, NEW r \in Requests, RequestSteps(r)
  PROVE  RouterIInv'
<1>. DEFINE InLine == {q \in Requests : phase[q] = "queued"}
<1>1. /\ phase \in [Requests -> Phases] /\ host \in [Requests -> Apps \cup {NoApp}]
      /\ upgrade \in [Requests -> BOOLEAN] /\ queue \in Seq(Requests)
      /\ state \in [Apps -> {"Stopped", "Running", "Frozen"}]
      /\ active_upgrades \in [Apps -> Nat]
      /\ request_slots \in Nat /\ upgrade_slots \in Nat
      /\ load.apps \subseteq Apps /\ load.upgrades \in BOOLEAN
      /\ IsInjective(queue) /\ ToSet(queue) = InLine
  BY PressureAssumption DEF RouterIInv, RouterInv, RouterTypeOK, SlotsAccounted
<1>. USE DEF InHandler, Goto
\* An exchange ends with a response, a refusal or by being dropped.
<1>2. ASSUME phase[r] \in InHandler, Answer(r), OneAppMoves, UNCHANGED active_upgrades,
             upgrade_slots' = upgrade_slots + One(phase[r] \in HoldsPermit)
      PROVE  RouterIInv'
  <2>1. /\ phase' = [phase EXCEPT ![r] = "idle"] /\ host' = [host EXCEPT ![r] = NoApp]
        /\ upgrade' \in [Requests -> BOOLEAN]
        /\ request_slots' = request_slots + 1 /\ UNCHANGED <<queue, spliceVars>>
    BY <1>1, <1>2 DEF Answer, Forget
  <2>2. ToSet(queue') = {q \in Requests : phase'[q] = "queued"}
    BY <1>1, <1>2, <2>1
  <2>3. Moves(r, "idle", NoApp)
    BY <1>1, <1>2, <2>1, <2>2 DEF Moves, One, Phases, InHandler, HoldsPermit, Counted
  <2>. QED
    BY <1>1, <1>2, <2>1, <2>2, <2>3, RequestMoves
<1>3. CASE Arrive(r)
  <2>1. PICK h \in Apps \cup {NoApp} : host' = [host EXCEPT ![r] = h]
    BY <1>1, <1>3 DEF Arrive
  <2>2. /\ queue' \in Seq(Requests) /\ IsInjective(queue')
        /\ ToSet(queue') = ToSet(queue) \cup {r}
    BY <1>1, <1>3, Joined DEF Arrive
  <2>3. /\ phase' = [phase EXCEPT ![r] = "queued"] /\ upgrade' \in [Requests -> BOOLEAN]
        /\ ToSet(queue') = {q \in Requests : phase'[q] = "queued"}
    BY <1>1, <1>3, <2>2 DEF Arrive
  <2>4. OneAppMoves
    BY <1>3 DEF Arrive, OneAppMoves, pressureVars
  <2>5. Moves(r, "queued", h)
    BY <1>1, <1>3, <2>1, <2>2, <2>3, <2>4 DEF Moves, One, Phases, InHandler, HoldsPermit, Counted, Arrive, pressureVars
  <2>. QED
    BY <1>1, <1>3, <2>1, <2>2, <2>3, <2>4, <2>5, RequestMoves DEF Arrive
<1>4. CASE Leave(r)
  <2>1. /\ queue' \in Seq(Requests) /\ IsInjective(queue')
        /\ ToSet(queue') = ToSet(queue) \ {r}
    BY <1>1, <1>4, Left DEF Leave
  <2>2. /\ phase' = [phase EXCEPT ![r] = "idle"] /\ host' = [host EXCEPT ![r] = NoApp]
        /\ upgrade' \in [Requests -> BOOLEAN]
        /\ ToSet(queue') = {q \in Requests : phase'[q] = "queued"}
    BY <1>1, <1>4, <2>1 DEF Leave, Forget
  <2>3. OneAppMoves
    BY <1>4 DEF Leave, OneAppMoves, pressureVars
  <2>4. Moves(r, "idle", NoApp)
    BY <1>1, <1>4, <2>1, <2>2, <2>3 DEF Moves, One, Phases, InHandler, HoldsPermit, Counted, Leave, pressureVars
  <2>. QED
    BY <1>1, <1>4, <2>1, <2>2, <2>3, <2>4, RequestMoves DEF Leave
<1>5. CASE Enter(r)
  <2>1. queue # <<>>
    BY <1>1, <1>5 DEF Enter, ToSet
  <2>2. /\ queue' \in Seq(Requests) /\ IsInjective(queue')
        /\ ToSet(queue') = ToSet(queue) \ {r}
    BY <1>1, <1>5, <2>1, Served DEF Enter
  <2>3. /\ phase' = [phase EXCEPT ![r] = "resolve"] /\ host' = [host EXCEPT ![r] = host[r]]
        /\ ToSet(queue') = {q \in Requests : phase'[q] = "queued"}
    BY <1>1, <1>5, <2>2 DEF Enter
  <2>4. OneAppMoves
    BY <1>5 DEF Enter, OneAppMoves, pressureVars
  <2>5. /\ active_upgrades' \in [Apps -> Int]
        /\ \A a \in Apps : active_upgrades'[a] + One(phase[r] \in Counted /\ host[r] = a)
             = active_upgrades[a] + One("resolve" \in Counted /\ host[r] = a)
    BY <1>1, <1>5 DEF Enter, One, Counted, pressureVars
  <2>6. /\ request_slots' \in Nat /\ upgrade_slots' \in Nat
        /\ request_slots' = request_slots + One(phase[r] \in InHandler) - One("resolve" \in InHandler)
        /\ upgrade_slots' = upgrade_slots + One(phase[r] \in HoldsPermit) - One("resolve" \in HoldsPermit)
    BY <1>1, <1>5 DEF Enter, One, HoldsPermit
  <2>7. Moves(r, "resolve", host[r])
    BY <1>1, <1>5, <2>2, <2>3, <2>4, <2>5, <2>6 DEF Moves, Phases, HoldsPermit, Counted, Enter
  <2>. QED
    BY <1>1, <1>5, <2>2, <2>3, <2>4, <2>7, RequestMoves DEF Enter
<1>6. CASE ResolveFails(r)
  <2>1. OneAppMoves
    BY <1>1, <1>6 DEF ResolveFails, OneAppMoves, pressureVars
  <2>. QED
    BY <1>1, <1>2, <1>6, <2>1 DEF ResolveFails, One, HoldsPermit, pressureVars
<1>7. CASE ResolvedPlain(r)
  <2>1. OneAppMoves /\ host[r] \in Apps
    BY <1>1, <1>7 DEF ResolvedPlain, Touch, OneAppMoves
  <2>2. /\ phase' = [phase EXCEPT ![r] = "forward"] /\ host' = [host EXCEPT ![r] = host[r]]
        /\ ToSet(queue') = {q \in Requests : phase'[q] = "queued"}
    BY <1>1, <1>7 DEF ResolvedPlain
  <2>3. /\ active_upgrades' \in [Apps -> Int]
        /\ \A a \in Apps : active_upgrades'[a] + One(phase[r] \in Counted /\ host[r] = a)
             = active_upgrades[a] + One("forward" \in Counted /\ host[r] = a)
    BY <1>1, <1>7 DEF ResolvedPlain, One, Counted
  <2>4. /\ request_slots' \in Nat /\ upgrade_slots' \in Nat
        /\ request_slots' = request_slots + One(phase[r] \in InHandler) - One("forward" \in InHandler)
        /\ upgrade_slots' = upgrade_slots + One(phase[r] \in HoldsPermit) - One("forward" \in HoldsPermit)
    BY <1>1, <1>7 DEF ResolvedPlain, One, HoldsPermit
  <2>5. Moves(r, "forward", host[r])
    BY <1>1, <1>7, <2>1, <2>2, <2>3, <2>4 DEF Moves, Phases, HoldsPermit, Counted, ResolvedPlain
  <2>. QED
    BY <1>1, <1>7, <2>1, <2>2, <2>5, RequestMoves DEF ResolvedPlain
<1>8. CASE ResolvedUpgrade(r)
  <2>1. OneAppMoves /\ host[r] \in Apps
    BY <1>1, <1>8 DEF ResolvedUpgrade, Touch, OneAppMoves
  <2>2. /\ phase' = [phase EXCEPT ![r] = "connect"] /\ host' = [host EXCEPT ![r] = host[r]]
        /\ ToSet(queue') = {q \in Requests : phase'[q] = "queued"}
    BY <1>1, <1>8 DEF ResolvedUpgrade
  <2>3. /\ active_upgrades' \in [Apps -> Int]
        /\ \A a \in Apps : active_upgrades'[a] + One(phase[r] \in Counted /\ host[r] = a)
             = active_upgrades[a] + One("connect" \in Counted /\ host[r] = a)
    BY <1>1, <1>8 DEF ResolvedUpgrade, One, Counted
  <2>4. /\ request_slots' \in Nat /\ upgrade_slots' \in Nat
        /\ request_slots' = request_slots + One(phase[r] \in InHandler) - One("connect" \in InHandler)
        /\ upgrade_slots' = upgrade_slots + One(phase[r] \in HoldsPermit) - One("connect" \in HoldsPermit)
    BY <1>1, <1>8 DEF ResolvedUpgrade, One, HoldsPermit
  <2>5. Moves(r, "connect", host[r])
    BY <1>1, <1>8, <2>1, <2>2, <2>3, <2>4 DEF Moves, Phases, HoldsPermit, Counted, ResolvedUpgrade
  <2>. QED
    BY <1>1, <1>8, <2>1, <2>2, <2>5, RequestMoves DEF ResolvedUpgrade
<1>9. CASE UpgradeRefused(r)
  <2>1. OneAppMoves
    BY <1>1, <1>9 DEF UpgradeRefused, Touch, OneAppMoves
  <2>. QED
    BY <1>1, <1>2, <1>9, <2>1 DEF UpgradeRefused, One, HoldsPermit
<1>10. CASE Forwarded(r)
  <2>1. OneAppMoves
    BY <1>10 DEF Forwarded, OneAppMoves, pressureVars
  <2>. QED
    BY <1>1, <1>2, <1>10, <2>1 DEF Forwarded, One, HoldsPermit, pressureVars
<1>11. CASE NotUpgraded(r)
  <2>1. OneAppMoves
    BY <1>11 DEF NotUpgraded, OneAppMoves, pressureVars
  <2>. QED
    BY <1>1, <1>2, <1>11, <2>1 DEF NotUpgraded, One, HoldsPermit, pressureVars
<1>12. CASE Upgraded(r)
  <2>1. OneAppMoves /\ host[r] \in Apps
    BY <1>12 DEF Upgraded, OneAppMoves, RouterIInv, HostsKnown
  <2>2. /\ phase' = [phase EXCEPT ![r] = "handshake"] /\ host' = [host EXCEPT ![r] = host[r]]
        /\ ToSet(queue') = {q \in Requests : phase'[q] = "queued"}
    BY <1>1, <1>12 DEF Upgraded
  <2>3. /\ active_upgrades' \in [Apps -> Int]
        /\ \A a \in Apps : active_upgrades'[a] + One(phase[r] \in Counted /\ host[r] = a)
             = active_upgrades[a] + One("handshake" \in Counted /\ host[r] = a)
    BY <1>1, <1>12, <2>1, <2>2 DEF Upgraded, One, Counted
  <2>4. /\ request_slots' \in Nat /\ upgrade_slots' \in Nat
        /\ request_slots' = request_slots + One(phase[r] \in InHandler) - One("handshake" \in InHandler)
        /\ upgrade_slots' = upgrade_slots + One(phase[r] \in HoldsPermit) - One("handshake" \in HoldsPermit)
    BY <1>1, <1>12 DEF Upgraded, One, HoldsPermit
  <2>5. Moves(r, "handshake", host[r])
    BY <1>1, <1>12, <2>1, <2>2, <2>3, <2>4 DEF Moves, Phases, HoldsPermit, Counted, Upgraded
  <2>. QED
    BY <1>1, <1>12, <2>1, <2>2, <2>5, RequestMoves DEF Upgraded
<1>13. CASE Dropped(r)
  <2>1. OneAppMoves
    BY <1>13 DEF Dropped, OneAppMoves, pressureVars
  <2>. QED
    BY <1>1, <1>2, <1>13, <2>1 DEF Dropped, One, HoldsPermit, pressureVars
<1>. QED
  BY <1>3, <1>4, <1>5, <1>6, <1>7, <1>8, <1>9, <1>10, <1>11, <1>12, <1>13 DEF RequestSteps
-----------------------------------------------------------------------------
(* The steps of a splice *)

PipeStates ==
  [sent : 0..MaxChunks, unread : 0..MaxChunks, buffer : {0, 1}, eof : BOOLEAN, shut : BOOLEAN]

InOrder(p) ==
  /\ p.unread <= p.sent
  /\ p.shut => p.eof /\ p.unread = 0 /\ p.buffer = 0

LEMMA TickBelowIdle == TICK \in Nat /\ IDLE \in Nat \ {0}
BY RouterAssumption DEF TICK

LEMMA NewPipeInOrder == NewPipe \in PipeStates /\ InOrder(NewPipe)
BY RouterAssumption DEF NewPipe, PipeStates, InOrder

LEMMA PressureUndisturbed ==
  ASSUME RouterIInv, UNCHANGED <<load, state, recency, freezing, mem_available, loopVars, older, steady>>
  PROVE  ScanInOrder' /\ EvictsWhenShort' /\ Asleep' = Asleep
BY ScanUndisturbed DEF RouterIInv, loopVars, EvictsWhenShort, Asleep

LEMMA SpliceEnds ==
  ASSUME RouterIInv, NEW r \in Requests, phase[r] \in Counted, EndSplice(r)
  PROVE  RouterIInv'
<1>. USE DEF RouterIInv, RouterInv
<1>1. /\ phase \in [Requests -> Phases] /\ host \in [Requests -> Apps \cup {NoApp}]
      /\ active_upgrades \in [Apps -> Nat] /\ upgrade_slots \in Nat /\ request_slots \in Nat
      /\ host[r] \in Apps
  BY DEF RouterTypeOK, HostsKnown
<1>2. /\ phase' = [phase EXCEPT ![r] = "idle"] /\ host' = [host EXCEPT ![r] = NoApp]
      /\ upgrade' = [upgrade EXCEPT ![r] = FALSE]
      /\ upgrade_slots' = upgrade_slots + 1 /\ UNCHANGED <<queue, request_slots>>
      /\ active_upgrades' = [active_upgrades EXCEPT ![host[r]] = active_upgrades[host[r]] - 1]
  BY DEF EndSplice, Goto, Forget
<1>3. /\ ToSet(queue') = {q \in Requests : phase'[q] = "queued"} /\ IsInjective(queue')
  BY <1>1, <1>2 DEF SlotsAccounted, Counted
<1>4. /\ SlotsAccounted'
      /\ request_slots' \in 0..MAX_CONCURRENT_REQUESTS
      /\ upgrade_slots' \in 0..MAX_CONCURRENT_UPGRADES
  <2>1. /\ request_slots' \in Nat /\ upgrade_slots' \in Nat /\ "idle" \in Phases
        /\ request_slots' = request_slots + One(phase[r] \in InHandler) - One("idle" \in InHandler)
        /\ upgrade_slots' = upgrade_slots + One(phase[r] \in HoldsPermit) - One("idle" \in HoldsPermit)
    BY <1>1, <1>2 DEF One, InHandler, HoldsPermit, Counted, Phases
  <2>. QED
    BY <1>2, <1>3, <2>1, SlotsMoved
<1>5. /\ UpgradesCounted'
      /\ active_upgrades' \in [Apps -> 0..MAX_CONCURRENT_UPGRADES]
  <2>1. \A q \in Requests \ {r} : phase'[q] = phase[q] /\ host'[q] = host[q]
    BY <1>1, <1>2
  <2>2. /\ active_upgrades' \in [Apps -> Int]
        /\ \A a \in Apps : active_upgrades'[a] + One(phase[r] \in Counted /\ host[r] = a)
             = active_upgrades[a] + One(phase'[r] \in Counted /\ host'[r] = a)
    BY <1>1, <1>2 DEF One, Counted
  <2>. QED
    BY <1>4, <2>1, <2>2, UpgradesMoved
<1>6. ScanInOrder' /\ EvictsWhenShort' /\ Asleep' = Asleep
  BY PressureUndisturbed DEF EndSplice
<1>7. /\ pipe' = [pipe EXCEPT ![r] = [d \in Directions |-> NewPipe]]
      /\ quiet' = [quiet EXCEPT ![r] = 0] /\ sleep' = [sleep EXCEPT ![r] = 0]
      /\ broken' = broken \ {r}
  BY DEF EndSplice
<1>8. pipe' \in [Requests -> [Directions -> PipeStates]]
  BY <1>7, NewPipeInOrder DEF RouterTypeOK, PipeStates
<1>9. RouterTypeOK'
  BY <1>1, <1>2, <1>4, <1>5, <1>6, <1>7, <1>8, TickBelowIdle
     DEF RouterTypeOK, PipeStates, Phases, EndSplice, loopVars
<1>10. HostsKnown'
  BY <1>1, <1>2, <1>7 DEF HostsKnown, Counted, RouterTypeOK
<1>11. PipesInOrder'
  BY <1>7, NewPipeInOrder DEF PipesInOrder, RouterTypeOK, InOrder
<1>12. WatchKept'
  BY <1>1, <1>2, <1>7, TickBelowIdle DEF WatchKept, RouterTypeOK
<1>. QED
  BY <1>4, <1>5, <1>6, <1>9, <1>10, <1>11, <1>12

\* A copy or an end moves one direction on, and a read resets the watchdog.
LEMMA PipeMoves ==
  ASSUME RouterIInv, NEW r \in Requests, NEW d \in Directions, phase[r] = "splice",
         UNCHANGED <<pressureVars, requestVars, sleep, broken>>,
         NEW p \in PipeStates, InOrder(p),
         pipe' = [pipe EXCEPT ![r] = [pipe[r] EXCEPT ![d] = p]],
         quiet' = quiet \/ quiet' = [quiet EXCEPT ![r] = 0]
  PROVE  RouterIInv'
<1>. USE DEF RouterIInv, RouterInv, pressureVars, requestVars
<1>1. ScanInOrder' /\ EvictsWhenShort' /\ Asleep' = Asleep
  BY PressureUndisturbed
<1>2. SlotsAccounted' /\ UpgradesCounted' /\ HostsKnown'
  BY DEF SlotsAccounted, UpgradesCounted, HostsKnown
<1>3. pipe' \in [Requests -> [Directions -> PipeStates]]
  BY DEF RouterTypeOK, PipeStates
<1>4. RouterTypeOK'
  <2>1. quiet' \in [Requests -> Nat]
    BY DEF RouterTypeOK
  <2>. QED
    BY <1>1, <1>3, <2>1 DEF RouterTypeOK, PipeStates, loopVars
<1>5. PipesInOrder'
  BY DEF PipesInOrder, RouterTypeOK, InOrder
<1>6. WatchKept'
  BY TickBelowIdle DEF WatchKept, RouterTypeOK
<1>. QED
  BY <1>1, <1>2, <1>4, <1>5, <1>6
SpliceSteps(r) ==
  \/ Handshake(r) \/ HandshakeFails(r) \/ Join(r) \/ SpliceError(r)
  \/ Watchdog(r) \/ Elapse(r) \/ Break(r)
  \/ \E d \in Directions : Send(r, d) \/ Read(r, d) \/ Write(r, d) \/ Shut(r, d)

LEMMA SplicesKeep ==
  ASSUME RouterIInv, NEW r \in Requests, SpliceSteps(r)
  PROVE  RouterIInv'
<1>. USE DEF RouterIInv, RouterInv
<1>1. CASE Handshake(r)
  <2>1. /\ phase[r] = "handshake" /\ phase' = [phase EXCEPT ![r] = "splice"]
        /\ sleep' = [sleep EXCEPT ![r] = TICK] /\ phase \in [Requests -> Phases]
        /\ UNCHANGED <<pressureVars, host, upgrade, queue, request_slots, upgrade_slots>>
        /\ UNCHANGED <<pipe, quiet, broken>>
    BY <1>1 DEF Handshake, Goto, RouterTypeOK
  <2>2. /\ SlotsAccounted'
        /\ request_slots' \in 0..MAX_CONCURRENT_REQUESTS
        /\ upgrade_slots' \in 0..MAX_CONCURRENT_UPGRADES
    <3>1. /\ request_slots' \in Nat /\ upgrade_slots' \in Nat /\ "splice" \in Phases
          /\ request_slots' = request_slots + One(phase[r] \in InHandler) - One("splice" \in InHandler)
          /\ upgrade_slots' = upgrade_slots + One(phase[r] \in HoldsPermit) - One("splice" \in HoldsPermit)
      BY <2>1 DEF One, InHandler, HoldsPermit, Phases, RouterTypeOK
    <3>2. ToSet(queue') = {q \in Requests : phase'[q] = "queued"} /\ IsInjective(queue')
      BY <2>1 DEF SlotsAccounted
    <3>. QED
      BY <2>1, <3>1, <3>2, SlotsMoved
  <2>3. UpgradesCounted'
    <3>1. \A q \in Requests : phase'[q] \in Counted <=> phase[q] \in Counted
      BY <2>1 DEF Counted
    <3>2. \A a \in Apps : (CountedAt(a))' = CountedAt(a)
      BY <2>1, <3>1 DEF CountedAt
    <3>. QED
      BY <2>1, <3>2 DEF UpgradesCounted, CountedAt, pressureVars
  <2>4. ScanInOrder' /\ EvictsWhenShort' /\ Asleep' = Asleep
    BY <2>1, PressureUndisturbed DEF pressureVars
  <2>5. RouterTypeOK'
    BY <2>1, <2>2, <2>4, TickBelowIdle DEF RouterTypeOK, Phases, HoldsPermit, pressureVars, loopVars
  <2>6. HostsKnown' /\ PipesInOrder'
    BY <2>1 DEF HostsKnown, PipesInOrder, Counted, RouterTypeOK
  <2>7. WatchKept'
    <3>1. quiet[r] = 0 /\ quiet \in [Requests -> Nat] /\ sleep \in [Requests -> 0..TICK]
      BY <2>1 DEF WatchKept, RouterTypeOK
    <3>2. ASSUME NEW q \in Requests
          PROVE  /\ quiet'[q] + sleep'[q] < IDLE + TICK
                 /\ phase'[q] # "splice" => quiet'[q] = 0 /\ sleep'[q] = 0
      <4>1. CASE q = r
        BY <2>1, <3>1, <4>1, TickBelowIdle
      <4>2. CASE q # r
        BY <2>1, <3>1, <4>2, TickBelowIdle DEF WatchKept
      <4>. QED
        BY <4>1, <4>2
    <3>. QED
      BY <3>2 DEF WatchKept
  <2>. QED
    BY <2>2, <2>3, <2>4, <2>5, <2>6, <2>7
<1>2. CASE HandshakeFails(r) \/ Join(r)
  BY <1>2, SpliceEnds DEF HandshakeFails, Join, Counted
<1>3. CASE SpliceError(r)
  BY <1>3, SpliceEnds DEF SpliceError, Counted, HostsKnown
\* The watchdog, the clock and a broken end leave phases and pipes alone.
<1>4. ASSUME UNCHANGED <<pressureVars, requestVars, pipe>>,
             sleep' \in [Requests -> 0..TICK], quiet' \in [Requests -> Nat],
             broken' \subseteq {q \in Requests : phase[q] = "splice"}, WatchKept'
      PROVE  RouterIInv'
  <2>. USE DEF pressureVars, requestVars
  <2>1. ScanInOrder' /\ EvictsWhenShort' /\ Asleep' = Asleep
    BY <1>4, PressureUndisturbed
  <2>2. SlotsAccounted' /\ UpgradesCounted' /\ HostsKnown' /\ PipesInOrder'
    BY <1>4 DEF SlotsAccounted, UpgradesCounted, HostsKnown, PipesInOrder
  <2>3. RouterTypeOK'
    BY <1>4, <2>1 DEF RouterTypeOK, loopVars
  <2>. QED
    BY <1>4, <2>1, <2>2, <2>3
<1>5. CASE Watchdog(r)
  <2>1. CASE quiet[r] >= IDLE
    BY <1>5, <2>1, SpliceEnds DEF Watchdog, Counted
  <2>2. CASE ~(quiet[r] >= IDLE)
    <3>1. /\ sleep' = [sleep EXCEPT ![r] = TICK] /\ phase[r] = "splice"
          /\ UNCHANGED <<pressureVars, requestVars, pipe, quiet, broken>>
      BY <1>5, <2>2 DEF Watchdog
    <3>2. WatchKept'
      <4>1. phase' = phase /\ quiet' = quiet /\ quiet[r] \in Nat /\ sleep \in [Requests -> 0..TICK]
        BY <3>1 DEF requestVars, RouterTypeOK
      <4>2. quiet[r] + TICK < IDLE + TICK
        BY <2>2, <4>1, TickBelowIdle
      <4>3. sleep'[r] = TICK /\ \A q \in Requests \ {r} : sleep'[q] = sleep[q]
        BY <3>1, <4>1
      <4>. QED
        BY <3>1, <4>1, <4>2, <4>3 DEF WatchKept
    <3>3. sleep' \in [Requests -> 0..TICK] /\ quiet' \in [Requests -> Nat]
      BY <3>1, TickBelowIdle DEF RouterTypeOK
    <3>4. broken' \subseteq {q \in Requests : phase[q] = "splice"}
      BY <3>1 DEF RouterTypeOK, HostsKnown
    <3>. QED
      BY <1>4, <3>1, <3>2, <3>3, <3>4
  <2>. QED
    BY <2>1, <2>2
<1>6. CASE Elapse(r)
  <2>1. /\ sleep' = [sleep EXCEPT ![r] = sleep[r] - 1] /\ quiet' = [quiet EXCEPT ![r] = quiet[r] + 1]
        /\ phase[r] = "splice" /\ sleep[r] > 0
        /\ UNCHANGED <<pressureVars, requestVars, pipe, broken>>
    BY <1>6 DEF Elapse
  <2>2. WatchKept'
    BY <2>1, TickBelowIdle DEF WatchKept, RouterTypeOK, requestVars
  <2>3. sleep' \in [Requests -> 0..TICK] /\ quiet' \in [Requests -> Nat]
    BY <2>1, TickBelowIdle DEF RouterTypeOK
  <2>. QED
    BY <1>4, <2>1, <2>2, <2>3 DEF RouterTypeOK, HostsKnown
<1>7. CASE Break(r)
  <2>1. WatchKept'
    BY <1>7 DEF Break, WatchKept, requestVars
  <2>. QED
    BY <1>4, <1>7, <2>1 DEF Break, RouterTypeOK, HostsKnown
<1>8. ASSUME NEW d \in Directions, Send(r, d) \/ Read(r, d) \/ Write(r, d) \/ Shut(r, d)
      PROVE  RouterIInv'
  <2>. DEFINE p == pipe[r][d]
              next == pipe'[r][d]
  <2>1. /\ pipe \in [Requests -> [Directions -> PipeStates]] /\ p \in PipeStates /\ InOrder(p)
    BY DEF RouterTypeOK, PipeStates, PipesInOrder, InOrder
  <2>2. next \in PipeStates /\ InOrder(next)
    <3>1. CASE Send(r, d)
      <4>1. ~p.eof /\ ~p.shut
        BY <2>1, <3>1 DEF Send, InOrder, PipeStates
      <4>2. CASE p.sent < MaxChunks /\ next = [p EXCEPT !.sent = p.sent + 1, !.unread = p.unread + 1]
        <5>1. /\ p.sent \in 0..MaxChunks /\ p.unread \in 0..MaxChunks /\ p.buffer \in {0, 1}
              /\ p.eof \in BOOLEAN /\ p.shut \in BOOLEAN /\ p.unread <= p.sent
          BY <2>1 DEF PipeStates, InOrder
        <5>2. next = [sent |-> p.sent + 1, unread |-> p.unread + 1, buffer |-> p.buffer,
                      eof |-> p.eof, shut |-> p.shut]
          BY <2>1, <4>2 DEF PipeStates
        <5>3. p.sent + 1 \in 0..MaxChunks /\ p.unread + 1 \in 0..MaxChunks
          BY <4>2, <5>1, RouterAssumption
        <5>. HIDE DEF p, next
        <5>. QED
          BY <4>1, <5>1, <5>2, <5>3 DEF PipeStates, InOrder
      <4>3. CASE next = [p EXCEPT !.eof = TRUE]
        BY <2>1, <4>1, <4>3 DEF PipeStates, InOrder
      <4>. QED
        BY <2>1, <3>1, <4>2, <4>3 DEF Send
    <3>2. CASE Read(r, d)
      BY <2>1, <3>2 DEF Read, PipeStates, InOrder
    <3>3. CASE Write(r, d)
      BY <2>1, <3>3 DEF Write, PipeStates, InOrder
    <3>4. CASE Shut(r, d)
      BY <2>1, <3>4 DEF Shut, PipeStates, InOrder
    <3>. QED
      BY <1>8, <3>1, <3>2, <3>3, <3>4
  <2>3. pipe' = [pipe EXCEPT ![r] = [pipe[r] EXCEPT ![d] = next]]
    BY <1>8, <2>1 DEF Send, Read, Write, Shut
  <2>4. /\ phase[r] = "splice" /\ UNCHANGED <<pressureVars, requestVars, sleep, broken>>
        /\ quiet' = quiet \/ quiet' = [quiet EXCEPT ![r] = 0]
    BY <1>8 DEF Send, Read, Write, Shut
  <2>. QED
    BY <2>2, <2>3, <2>4, PipeMoves
<1>. QED
  BY <1>1, <1>2, <1>3, <1>5, <1>6, <1>7, <1>8 DEF SpliceSteps
-----------------------------------------------------------------------------
(* The theorems *)

LEMMA InitOrdered == Init => RouterIInv
<1>. SUFFICES ASSUME Init PROVE RouterIInv
  OBVIOUS
<1>. USE DEF Init, PressureInit
<1>1. RouterTypeOK
  <2>1. /\ load \in Loads
        /\ state \in [Apps -> {"Stopped", "Running", "Frozen"}]
        /\ active_upgrades \in [Apps -> 0..MAX_CONCURRENT_UPGRADES]
        /\ request_slots \in 0..MAX_CONCURRENT_REQUESTS
        /\ upgrade_slots \in 0..MAX_CONCURRENT_UPGRADES
        /\ candidate \in Apps \cup {NoApp} /\ (~Asleep => evicting)
    BY RouterAssumption DEF Asleep
  <2>2. phase \in [Requests -> Phases] /\ queue \in Seq(Requests)
    BY DEF Phases
  <2>3. pipe \in [Requests -> [Directions -> PipeStates]]
    BY NewPipeInOrder
  <2>4. quiet \in [Requests -> Nat] /\ sleep \in [Requests -> 0..TICK]
    BY TickBelowIdle
  <2>. QED
    BY <2>1, <2>2, <2>3, <2>4 DEF RouterTypeOK, PipeStates
<1>2. SlotsAccounted
  <2>1. /\ {r \in Requests : phase[r] \in InHandler} = {}
        /\ {r \in Requests : phase[r] \in HoldsPermit} = {}
        /\ ToSet(queue) = {r \in Requests : phase[r] = "queued"} /\ IsInjective(queue)
    BY DEF InHandler, HoldsPermit, ToSet, IsInjective
  <2>2. /\ Cardinality({r \in Requests : phase[r] \in InHandler}) = 0
        /\ Cardinality({r \in Requests : phase[r] \in HoldsPermit}) = 0
    BY <2>1, FS_EmptySet
  <2>. QED
    BY <2>1, <2>2, RouterAssumption DEF SlotsAccounted
<1>3. UpgradesCounted
  <2>1. \A a \in Apps : {r \in Requests : phase[r] \in Counted /\ host[r] = a} = {}
    BY DEF Counted
  <2>. QED
    BY <2>1, FS_EmptySet DEF UpgradesCounted
<1>4. HostsKnown /\ PipesInOrder
  BY DEF HostsKnown, PipesInOrder, Counted, NewPipe
<1>5. WatchKept
  BY TickBelowIdle DEF WatchKept
<1>6. EvictsWhenShort /\ ScanInOrder
  BY DEF EvictsWhenShort, ScanInOrder
<1>. QED
  BY <1>1, <1>2, <1>3, <1>4, <1>5, <1>6 DEF RouterIInv, RouterInv

LEMMA StepOrdered == RouterIInv /\ [Next]_vars => RouterIInv'
<1>. SUFFICES ASSUME RouterIInv, [Next]_vars PROVE RouterIInv'
  OBVIOUS
<1>1. CASE UNCHANGED vars
  <2>1. UNCHANGED <<pressureVars, requestVars, spliceVars>>
    BY <1>1 DEF vars
  <2>2. SlotsAccounted' /\ UpgradesCounted' /\ HostsKnown' /\ PipesInOrder' /\ WatchKept'
    BY <2>1, RequestsUndisturbed DEF pressureVars
  <2>3. ScanInOrder' /\ EvictsWhenShort' /\ Asleep' = Asleep
    BY <2>1, PressureUndisturbed DEF pressureVars
  <2>4. RouterTypeOK'
    BY <2>1, <2>3 DEF RouterIInv, RouterInv, RouterTypeOK, pressureVars, requestVars, spliceVars, loopVars
  <2>. QED
    BY <2>2, <2>3, <2>4 DEF RouterIInv, RouterInv
<1>2. CASE Next
  <2>1. CASE LoopStep \/ /\ MemoryChanges \/ \E a \in Apps : FreezeDecide(a) \/ FreezeCommit(a)
                         /\ UNCHANGED <<requestVars, spliceVars>>
    BY <2>1, LoopsKeep DEF LoopStep, Loops
  <2>2. CASE \E r \in Requests : RequestSteps(r) \/ SpliceSteps(r)
    BY <2>2, RequestsKeep, SplicesKeep
  <2>. QED
    BY <1>2, <2>1, <2>2 DEF Next, RequestSteps, SpliceSteps, Handler, SpliceTask
<1>. QED
  BY <1>1, <1>2

\* The limits and the counter go by what is under way, on every path on which a
\* request or a splice can end, for any number of them (router lib.rs:296-304,
\* 528, 564-606).
THEOREM LimitsHold == RouterSpec => []RouterInv
<1>1. RouterIInv => RouterInv
  BY DEF RouterIInv
<1>. QED
  BY <1>1, InitOrdered, StepOrdered, PTL DEF RouterSpec

\* A half-close never overtakes what was sent before it (router lib.rs:629-660).
THEOREM HalfCloseHolds == RouterSpec => []HalfCloseDelivers
<1>1. RouterIInv => HalfCloseDelivers
  BY DEF RouterIInv, PipesInOrder, HalfCloseDelivers
<1>. QED
  BY <1>1, InitOrdered, StepOrdered, PTL DEF RouterSpec

\* A quiet connection is gone after one and a half times the idle timeout,
\* whatever that timeout is (router lib.rs:662-675).
THEOREM QuietEnds == RouterSpec => []QuietIsBounded
<1>1. RouterIInv => QuietIsBounded
  BY TickBelowIdle DEF RouterIInv, RouterInv, RouterTypeOK, WatchKept, QuietIsBounded
<1>. QED
  BY <1>1, InitOrdered, StepOrdered, PTL DEF RouterSpec

\* No other step of the program, of this request or another, ends a splice that
\* has neither finished nor failed nor been idle (router lib.rs:607-614).
THEOREM SplicesEndRightly == RouterSpec => SplicesEndForCause
<1>1. RouterIInv /\ [Next]_vars =>
        [\A r \in Requests :
           phase[r] = "splice" /\ phase'[r] # "splice" =>
             Finished(r) \/ quiet[r] >= IDLE \/ r \in broken]_vars
  <2>. SUFFICES ASSUME RouterIInv, Next, NEW q \in Requests,
                       phase[q] = "splice", phase'[q] # "splice"
                PROVE  Finished(q) \/ quiet[q] >= IDLE \/ q \in broken
    OBVIOUS
  <2>1. phase \in [Requests -> Phases]
    BY DEF RouterIInv, RouterInv, RouterTypeOK
  <2>2. PICK r \in Requests : RequestSteps(r) \/ SpliceSteps(r)
    BY DEF Next, LoopStep, requestVars, RequestSteps, SpliceSteps, Handler, SpliceTask
  <2>3. r = q
    BY <2>1, <2>2 DEF RequestSteps, SpliceSteps, Arrive, Leave, Enter, ResolveFails, ResolvedPlain,
       ResolvedUpgrade, UpgradeRefused, Forwarded, NotUpgraded, Upgraded, Dropped, Answer, Goto,
       Handshake, HandshakeFails, Join, SpliceError, Watchdog, Elapse, Break, Send, Read, Write,
       Shut, EndSplice, requestVars
  <2>4. ~RequestSteps(q)
    BY DEF RequestSteps, Arrive, Leave, Enter, ResolveFails, ResolvedPlain, ResolvedUpgrade,
       UpgradeRefused, Forwarded, NotUpgraded, Upgraded, Dropped, InHandler
  <2>5. CASE Join(q) \/ SpliceError(q)
    BY <2>5 DEF Join, SpliceError
  <2>6. CASE Watchdog(q)
    BY <2>6 DEF Watchdog, requestVars
  <2>7. ~(Handshake(q) \/ HandshakeFails(q))
    BY DEF Handshake, HandshakeFails
  <2>8. ~(Elapse(q) \/ Break(q) \/ \E d \in Directions :
            Send(q, d) \/ Read(q, d) \/ Write(q, d) \/ Shut(q, d))
    BY DEF Elapse, Break, Send, Read, Write, Shut, requestVars
  <2>. QED
    BY <2>2, <2>3, <2>4, <2>5, <2>6, <2>7, <2>8 DEF SpliceSteps
<1>. QED
  BY <1>1, InitOrdered, StepOrdered, PTL DEF RouterSpec, SplicesEndForCause

\* An eviction happens in a shortage only and takes, of the apps that were left
\* alone during the scan, the one idle for longest, in whatever order the scan
\* took their locks and whatever the others did meanwhile (loops.rs:36-38, 89-104).
THEOREM EvictionsRight == RouterSpec => EvictsRightly
<1>1. RouterIInv /\ [Next]_vars =>
        [Evict =>
           /\ short
           /\ candidate \in steady => \A b \in steady \ {candidate} : Before(candidate, b)]_vars
  <2>. SUFFICES ASSUME RouterIInv, Evict
                PROVE  /\ short
                       /\ candidate \in steady =>
                            \A b \in steady \ {candidate} : Before(candidate, b)
    OBVIOUS
  <2>1. unscanned = {} /\ candidate # NoApp
    BY DEF Evict
  <2>2. short
    BY <2>1 DEF RouterIInv, RouterInv, RouterTypeOK, Asleep, EvictsWhenShort
  <2>3. ASSUME candidate \in steady, NEW b \in steady \ {candidate} PROVE Before(candidate, b)
    <3>1. b \in Apps /\ candidate \in Apps /\ recency \in SetToSeqs(Apps)
      BY <2>3 DEF RouterIInv, RouterInv, RouterTypeOK
    <3>2. b \notin older
      BY <2>1, <2>3 DEF RouterIInv, ScanInOrder
    <3>3. ~Before(b, candidate)
      BY <2>3, <3>1, <3>2 DEF RouterIInv, ScanInOrder
    <3>. QED
      BY <2>3, <3>1, <3>3, BeforeOrders
  <2>. QED
    BY <2>2, <2>3
<1>. QED
  BY <1>1, InitOrdered, StepOrdered, PTL DEF RouterSpec, EvictsRightly

=============================================================================

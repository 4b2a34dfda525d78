-------------------------- MODULE StoryLink_proofs --------------------------
(***************************************************************************)
(* Proofs about StoryLink: the types, that no cluster is in two live       *)
(* stories, that stories are forwarded to older ones, and that weak edges  *)
(* never merge two delivered stories.                                      *)
(***************************************************************************)
EXTENDS StoryLink, FiniteSetTheorems, WellFoundedInduction, TLAPS

-----------------------------------------------------------------------------
(* A finite set of naturals that is not empty has a least element.         *)
LEMMA LeastNatural ==
    ASSUME NEW S, IsFiniteSet(S), S \subseteq Nat, S # {}
    PROVE  Min(S) \in S /\ \A y \in S : Min(S) <= y
<1> DEFINE Has(T) == \E x \in T : \A y \in T : x =< y
           Bad == {T \in SUBSET S : T # {} /\ ~ Has(T)}
<1>1. SUFFICES Has(S)
  BY DEF Min
<1>2. SUFFICES ASSUME Bad # {} PROVE FALSE
  OBVIOUS
<1>3. IsWellFoundedOn(StrictSubsetOrdering(S), SUBSET S)
  BY FS_StrictSubsetOrderingWellFounded, FS_FiniteSubsetsOfFinite
<1>4. PICK T \in Bad : \A U \in Bad : <<U, T>> \notin StrictSubsetOrdering(S)
  BY <1>2, <1>3, WFMin
<1>5. PICK x \in T : TRUE
  OBVIOUS
<1>6. T \ {x} \notin Bad
  BY <1>4, <1>5 DEF StrictSubsetOrdering
<1>7. CASE T \ {x} = {}
  BY <1>5, <1>7
<1>8. CASE Has(T \ {x})
  <2>1. PICK m \in T \ {x} : \A y \in T \ {x} : m =< y
    BY <1>8
  <2>2. T \subseteq Nat
    OBVIOUS
  <2>3. Has(T)
    <3>1. CASE m =< x
      BY <2>1, <3>1
    <3>2. CASE ~ (m =< x)
      BY <2>1, <2>2, <3>2, <1>5
    <3> QED BY <3>1, <3>2
  <2> QED BY <2>3
<1> QED BY <1>6, <1>7, <1>8

(* It has a greatest element, too.                                         *)
LEMMA GreatestNatural ==
    ASSUME NEW S, IsFiniteSet(S), S \subseteq Nat, S # {}
    PROVE  \E x \in S : \A y \in S : y <= x
<1> DEFINE Has(T) == \E x \in T : \A y \in T : y =< x
           Bad == {T \in SUBSET S : T # {} /\ ~ Has(T)}
<1>2. SUFFICES ASSUME Bad # {} PROVE FALSE
  OBVIOUS
<1>3. IsWellFoundedOn(StrictSubsetOrdering(S), SUBSET S)
  BY FS_StrictSubsetOrderingWellFounded, FS_FiniteSubsetsOfFinite
<1>4. PICK T \in Bad : \A U \in Bad : <<U, T>> \notin StrictSubsetOrdering(S)
  BY <1>2, <1>3, WFMin
<1>5. PICK x \in T : TRUE
  OBVIOUS
<1>6. T \ {x} \notin Bad
  BY <1>4, <1>5 DEF StrictSubsetOrdering
<1>7. CASE T \ {x} = {}
  BY <1>5, <1>7
<1>8. CASE Has(T \ {x})
  <2>1. PICK m \in T \ {x} : \A y \in T \ {x} : y =< m
    BY <1>8
  <2>2. T \subseteq Nat
    OBVIOUS
  <2>3. Has(T)
    <3>1. CASE x =< m
      BY <2>1, <3>1
    <3>2. CASE ~ (x =< m)
      BY <2>1, <2>2, <3>2, <1>5
    <3> QED BY <3>1, <3>2
  <2> QED BY <2>3
<1> QED BY <1>6, <1>7, <1>8

(* What holds of 0, and of the next number whenever it holds of a number,  *)
(* holds of every number up to a bound.                                    *)
LEMMA StepByStep ==
    ASSUME NEW n \in Nat, NEW G, 0 \in G, \A i \in Nat : i < n /\ i \in G => i + 1 \in G
    PROVE  0 .. n \subseteq G
<1> DEFINE Bad == (0 .. n) \ G
<1>1. SUFFICES ASSUME Bad # {} PROVE FALSE
  OBVIOUS
<1>2. IsFiniteSet(Bad) /\ Bad \subseteq Nat
  <2>1. PICK k \in Int : k = n
    OBVIOUS
  <2>2. IsFiniteSet(0 .. n)
    BY <2>1, FS_Interval
  <2> QED
    BY <2>2, FS_Subset
<1>3. PICK m \in Bad : \A y \in Bad : m <= y
  BY <1>1, <1>2, LeastNatural
<1>4. m # 0 /\ m - 1 \in Nat /\ m - 1 < n /\ m - 1 \notin Bad
  BY <1>3
<1> QED
  BY <1>4

-----------------------------------------------------------------------------
(* The steps of `components`.                                              *)
RoughParts(p, f, n) ==
    f = [i \in 0 .. n |-> IF i = 0 THEN {{c} : c \in p.day.candidates} ELSE Joined(p, i, f[i - 1])]

(* The recursive function of `components`, one union after the other,      *)
(* exists: it is put together step by step.                                *)
LEMMA PartsExist ==
    ASSUME NEW p
    PROVE  \A n \in Nat : \E f : RoughParts(p, f, n)
<1> TAKE n \in Nat
<1> DEFINE G == {k \in Nat : \E f : RoughParts(p, f, k)}
<1>1. 0 \in G
  <2> DEFINE f == [i \in 0 .. 0 |-> {{c} : c \in p.day.candidates}]
  <2>1. RoughParts(p, f, 0)
    BY DEF RoughParts
  <2> QED
    BY <2>1
<1>2. ASSUME NEW k \in Nat, k \in G PROVE k + 1 \in G
  <2>1. PICK f : RoughParts(p, f, k)
    BY <1>2
  <2> DEFINE g == [i \in 0 .. k + 1 |-> IF i <= k THEN f[i] ELSE Joined(p, k + 1, f[k])]
  <2>0. \A i \in 0 .. k : f[i] = IF i = 0 THEN {{c} : c \in p.day.candidates} ELSE Joined(p, i, f[i - 1])
    BY <2>1, Zenon DEF RoughParts
  <2>2. \A i \in 0 .. k + 1 : g[i] = IF i = 0 THEN {{c} : c \in p.day.candidates} ELSE Joined(p, i, g[i - 1])
    <3> TAKE i \in 0 .. k + 1
    <3>1. CASE i = 0
      <4>1. 0 \in 0 .. k /\ 0 <= k /\ 0 \in 0 .. k + 1
        OBVIOUS
      <4>2. g[0] = f[0]
        BY <4>1
      <4>3. f[0] = {{c} : c \in p.day.candidates}
        BY <2>0, <4>1
      <4>4. g[i] = {{c} : c \in p.day.candidates}
        BY <3>1, <4>2, <4>3
      <4> HIDE DEF g
      <4> QED
        BY <3>1, <4>4
    <3>2. CASE i # 0 /\ i <= k
      <4>1. i \in 0 .. k /\ i - 1 \in 0 .. k
        BY <3>2
      <4>2. g[i] = f[i] /\ g[i - 1] = f[i - 1]
        BY <4>1
      <4> QED
        BY <2>0, <3>2, <4>1, <4>2
    <3>3. CASE i = k + 1
      BY <3>3
    <3> QED
      BY <3>1, <3>2, <3>3
  <2> HIDE DEF g
  <2>3. g = [i \in 0 .. k + 1 |-> g[i]]
    BY DEF g
  <2>4. RoughParts(p, g, k + 1)
    BY <2>2, <2>3 DEF RoughParts
  <2> QED
    BY <2>4
<1>3. 0 .. n \subseteq G
  <2> HIDE DEF G
  <2> QED
    BY <1>1, <1>2, StepByStep
<1> QED
  BY <1>3

(* So the components are the last partition of a sequence that starts with *)
(* single clusters and joins two blocks at most in a step.                 *)
LEMMA ComponentsAreParts ==
    ASSUME NEW p, Len(EdgesOf(p)) \in Nat
    PROVE  \E f : RoughParts(p, f, Len(EdgesOf(p))) /\ Components(p) = f[Len(EdgesOf(p))]
<1>1. PICK n \in Nat : n = Len(EdgesOf(p))
  OBVIOUS
<1> DEFINE f == CHOOSE h : h = [i \in 0 .. n |-> IF i = 0 THEN {{c} : c \in p.day.candidates} ELSE Joined(p, i, h[i - 1])]
<1>2. RoughParts(p, f, n)
  <2>1. \E h : RoughParts(p, h, n)
    BY PartsExist
  <2> QED
    BY <2>1, Zenon DEF RoughParts
<1>3. Components(p) = f[n]
  BY <1>1 DEF Components
<1> QED
  BY <1>1, <1>2, <1>3

(* A day's candidates are clusters, and its edges join candidates.         *)
LEMMA DaysSound ==
    ASSUME NEW p \in Pass
    PROVE  /\ p.day.candidates \in SUBSET Clusters
           /\ p.day.strong \in Edges /\ p.day.weak \in Edges /\ EdgesOf(p) \in Edges
           /\ Len(p.day.strong) \in Nat /\ Len(EdgesOf(p)) \in Nat
           /\ \A i \in 1 .. Len(EdgesOf(p)) :
                 /\ EdgesOf(p)[i][1] \in p.day.candidates /\ EdgesOf(p)[i][2] \in p.day.candidates
                 /\ i <= Len(p.day.strong) => EdgesOf(p)[i] \in Range(p.day.strong)
<1>1. p.day \in Days \/ p.day = NoDay
  BY DEF Pass
<1>2. p.day.candidates \in SUBSET Clusters /\ p.day.strong \in Edges /\ p.day.weak \in Edges
  <2>1. CASE p.day \in Days
    BY <2>1, StoryAssumption DEF Day
  <2>2. CASE p.day = NoDay
    BY <2>2 DEF NoDay, Edges
  <2> QED
    BY <1>1, <2>1, <2>2
<1>3. \A e \in Range(p.day.strong) \cup Range(p.day.weak) : e[1] \in p.day.candidates /\ e[2] \in p.day.candidates
  <2>1. CASE p.day \in Days
    BY <2>1, StoryAssumption
  <2>2. CASE p.day = NoDay
    <3>1. Range(p.day.strong) = {} /\ Range(p.day.weak) = {}
      BY <2>2 DEF NoDay, Range
    <3> QED
      BY <3>1
  <2> QED
    BY <1>1, <2>1, <2>2
<1>4. PICK s \in Edges, t \in Edges : s = p.day.strong /\ t = p.day.weak
  BY <1>2
<1>5. EdgesOf(p) = s \o t /\ s \o t \in Edges /\ Len(s \o t) = Len(s) + Len(t) /\ Len(s) \in Nat /\ Len(t) \in Nat
  BY <1>4 DEF EdgesOf, Edges
<1>6. ASSUME NEW i \in 1 .. Len(s \o t)
      PROVE  (s \o t)[i] \in Range(s) \cup Range(t) /\ (i <= Len(s) => (s \o t)[i] \in Range(s))
  <2>1. CASE i <= Len(s)
    <3>1. (s \o t)[i] = s[i] /\ i \in DOMAIN s
      BY <1>5, <2>1 DEF Edges
    <3> QED
      BY <3>1 DEF Range
  <2>2. CASE ~ (i <= Len(s))
    <3>1. (s \o t)[i] = t[i - Len(s)] /\ i - Len(s) \in DOMAIN t
      BY <1>5, <2>2 DEF Edges
    <3> QED
      BY <2>2, <3>1 DEF Range
  <2> QED
    BY <2>1, <2>2
<1>7. EdgesOf(p) \in Edges /\ Len(EdgesOf(p)) \in Nat /\ Len(p.day.strong) \in Nat
  <2>1. EdgesOf(p) \in Edges
    BY <1>5
  <2>2. Len(EdgesOf(p)) = Len(s) + Len(t) /\ Len(p.day.strong) = Len(s)
    BY <1>4, <1>5
  <2> QED
    BY <1>5, <2>1, <2>2
<1>8. ASSUME NEW i \in 1 .. Len(EdgesOf(p))
      PROVE  /\ EdgesOf(p)[i] \in Range(p.day.strong) \cup Range(p.day.weak)
             /\ i <= Len(p.day.strong) => EdgesOf(p)[i] \in Range(p.day.strong)
  <2>1. i \in 1 .. Len(s \o t) /\ EdgesOf(p)[i] = (s \o t)[i]
    BY <1>5
  <2> QED
    BY <1>4, <1>6, <2>1
<1> QED
  BY <1>2, <1>3, <1>7, <1>8

-----------------------------------------------------------------------------
(* The parts are a partition of the candidates.  A set of candidates that  *)
(* no strong edge leaves, and no two clusters of a delivered story, has    *)
(* all the delivered clusters of a part or none.                           *)
Partition(parts, S) ==
    /\ parts \subseteq SUBSET S /\ {} \notin parts
    /\ \A c \in S : \E b \in parts : c \in b
    /\ \A a, b \in parts : a # b => a \cap b = {}

Closed(p) ==
    {C \in SUBSET p.day.candidates :
        /\ \A e \in Range(p.day.strong) : e[1] \in C <=> e[2] \in C
        /\ \A c, d \in p.day.candidates :
              p.prior[c] = p.prior[d] /\ p.prior[c] \in p.delivered => (c \in C <=> d \in C)}

Delivered(p) == {c \in p.day.candidates : p.prior[c] \in p.delivered}

GoodParts(p, i, parts) ==
    /\ Partition(parts, p.day.candidates)
    /\ \A C \in Closed(p), b \in parts :
          /\ i <= Len(p.day.strong) => b \subseteq C \/ b \cap C = {}
          /\ b \cap Delivered(p) \subseteq C \/ b \cap Delivered(p) \cap C = {}

(* A candidate is in its block.                                            *)
LEMMA BlockIn ==
    ASSUME NEW S, NEW parts, Partition(parts, S), NEW c \in S
    PROVE  Block(parts, c) \in parts /\ c \in Block(parts, c)
BY DEF Partition, Block

(* A union of two blocks leaves a partition of the candidates.             *)
LEMMA UnionParts ==
    ASSUME NEW S, NEW parts, Partition(parts, S), NEW a \in parts, NEW b \in parts
    PROVE  Partition(Union(parts, a, b), S)
<1>1. Union(parts, a, b) \subseteq SUBSET S /\ {} \notin Union(parts, a, b)
  BY DEF Partition, Union
<1>2. \A c \in S : \E d \in Union(parts, a, b) : c \in d
  <2> TAKE c \in S
  <2>1. PICK d \in parts : c \in d
    BY DEF Partition
  <2>2. CASE d \in {a, b}
    BY <2>1, <2>2 DEF Union
  <2>3. CASE d \notin {a, b}
    BY <2>1, <2>3 DEF Union
  <2> QED
    BY <2>2, <2>3
<1>3. \A d, e \in Union(parts, a, b) : d # e => d \cap e = {}
  BY DEF Partition, Union
<1> QED
  BY <1>1, <1>2, <1>3 DEF Partition

(* One more edge keeps it so: a strong edge stays within a closed set, and *)
(* a weak one joins no blocks of different delivered stories.              *)
LEMMA JoinedGood ==
    ASSUME NEW p \in Pass, NEW i \in 1 .. Len(EdgesOf(p)), NEW parts, GoodParts(p, i - 1, parts)
    PROVE  GoodParts(p, i, Joined(p, i, parts))
<1>1. PICK e : e = EdgesOf(p)[i]
  OBVIOUS
<1>2. /\ e[1] \in p.day.candidates /\ e[2] \in p.day.candidates
      /\ Len(p.day.strong) \in Nat
      /\ i <= Len(p.day.strong) => e \in Range(p.day.strong)
  BY <1>1, DaysSound
<1>3. PICK a, b : a = Block(parts, e[1]) /\ b = Block(parts, e[2])
  OBVIOUS
<1>4. Partition(parts, p.day.candidates)
  BY DEF GoodParts
<1>5. a \in parts /\ b \in parts /\ e[1] \in a /\ e[2] \in b
  BY <1>2, <1>3, <1>4, BlockIn
<1>6. Joined(p, i, parts) = IF Joins(p, i, a, b) THEN Union(parts, a, b) ELSE parts
  BY <1>1, <1>3 DEF Joined
<1>7. i \in Nat /\ i - 1 \in Nat /\ (i <= Len(p.day.strong) => i - 1 <= Len(p.day.strong))
  BY <1>2
<1>8. CASE ~ Joins(p, i, a, b)
  BY <1>6, <1>7, <1>8 DEF GoodParts
<1>9. CASE Joins(p, i, a, b)
  <2>1. Joined(p, i, parts) = Union(parts, a, b)
    BY <1>6, <1>9
  <2>2. Partition(Union(parts, a, b), p.day.candidates)
    BY <1>4, <1>5, UnionParts
  <2>3. ASSUME NEW C \in Closed(p), NEW d \in Union(parts, a, b)
        PROVE  /\ i <= Len(p.day.strong) => d \subseteq C \/ d \cap C = {}
               /\ d \cap Delivered(p) \subseteq C \/ d \cap Delivered(p) \cap C = {}
    <3>1. CASE d \in parts
      BY <1>7, <3>1 DEF GoodParts
    <3>2. CASE d = a \cup b /\ i <= Len(p.day.strong)
      <4>1. e[1] \in C <=> e[2] \in C
        BY <1>2, <3>2 DEF Closed
      <4>2. (a \subseteq C \/ a \cap C = {}) /\ (b \subseteq C \/ b \cap C = {})
        BY <1>5, <1>7, <3>2 DEF GoodParts
      <4> QED
        BY <1>5, <3>2, <4>1, <4>2
    <3>3. CASE d = a \cup b /\ ~ (i <= Len(p.day.strong))
      <4>1. \/ DeliveredIn(p, a) = {} \/ DeliveredIn(p, b) = {}
            \/ DeliveredIn(p, a) \cap DeliveredIn(p, b) # {}
        BY <1>9, <3>3 DEF Joins, MergesDistinctDelivered
      <4>2. /\ a \cap Delivered(p) \subseteq C \/ a \cap Delivered(p) \cap C = {}
            /\ b \cap Delivered(p) \subseteq C \/ b \cap Delivered(p) \cap C = {}
        BY <1>5 DEF GoodParts
      <4>3. CASE DeliveredIn(p, a) = {}
        <5>1. a \cap Delivered(p) = {}
          BY <4>3 DEF DeliveredIn, Delivered
        <5> QED
          BY <3>3, <4>2, <5>1
      <4>4. CASE DeliveredIn(p, b) = {}
        <5>1. b \cap Delivered(p) = {}
          BY <4>4 DEF DeliveredIn, Delivered
        <5> QED
          BY <3>3, <4>2, <5>1
      <4>5. CASE DeliveredIn(p, a) \cap DeliveredIn(p, b) # {}
        <5>1. a \subseteq p.day.candidates /\ b \subseteq p.day.candidates
          BY <1>4, <1>5 DEF Partition
        <5>2. PICK c \in a, f \in b : p.prior[c] = p.prior[f] /\ p.prior[c] \in p.delivered
          BY <4>5 DEF DeliveredIn
        <5>3. c \in Delivered(p) /\ f \in Delivered(p) /\ (c \in C <=> f \in C)
          BY <5>1, <5>2 DEF Delivered, Closed
        <5> QED
          BY <3>3, <4>2, <5>2, <5>3
      <4> QED
        BY <4>1, <4>3, <4>4, <4>5
    <3> QED
      BY <3>1, <3>2, <3>3 DEF Union
  <2> QED
    BY <2>1, <2>2, <2>3 DEF GoodParts
<1> QED
  BY <1>8, <1>9

(* What `components` returns.                                              *)
LEMMA ComponentsGood ==
    ASSUME NEW p \in Pass
    PROVE  GoodParts(p, Len(EdgesOf(p)), Components(p))
<1>1. PICK n \in Nat : n = Len(EdgesOf(p))
  BY DaysSound
<1>2. PICK f : RoughParts(p, f, n) /\ Components(p) = f[n]
  BY <1>1, ComponentsAreParts
<1>3. \A i \in 0 .. n : f[i] = IF i = 0 THEN {{c} : c \in p.day.candidates} ELSE Joined(p, i, f[i - 1])
  BY <1>2, Zenon DEF RoughParts
<1> DEFINE G == {i \in Nat : i <= n => GoodParts(p, i, f[i])}
<1>4. 0 \in G
  <2>1. f[0] = {{c} : c \in p.day.candidates}
    <3>1. 0 \in 0 .. n
      OBVIOUS
    <3> QED
      BY <1>3, <3>1
  <2>2. Partition(f[0], p.day.candidates)
    BY <2>1 DEF Partition
  <2>3. ASSUME NEW C, NEW D, NEW b \in f[0]
        PROVE  (b \subseteq C \/ b \cap C = {}) /\ (b \cap D \subseteq C \/ b \cap D \cap C = {})
    BY <2>1
  <2>4. GoodParts(p, 0, f[0])
    BY <2>2, <2>3 DEF GoodParts
  <2> QED
    BY <2>4
<1>5. ASSUME NEW i \in Nat, i < n, i \in G PROVE i + 1 \in G
  <2>1. GoodParts(p, i, f[i]) /\ f[i + 1] = Joined(p, i + 1, f[i])
    <3>1. i + 1 \in 0 .. n /\ i + 1 # 0 /\ (i + 1) - 1 = i /\ i <= n
      BY <1>5
    <3>2. f[i + 1] = Joined(p, i + 1, f[(i + 1) - 1])
      BY <1>3, <3>1
    <3> QED
      BY <1>5, <3>1, <3>2
  <2>2. i + 1 \in 1 .. Len(EdgesOf(p)) /\ (i + 1) - 1 = i
    BY <1>1, <1>5
  <2>3. GoodParts(p, i + 1, Joined(p, i + 1, f[i]))
    BY <2>1, <2>2, JoinedGood
  <2> QED
    BY <2>1, <2>3
<1>6. n \in G
  <2> HIDE DEF G
  <2>1. 0 .. n \subseteq G
    BY <1>4, <1>5, StepByStep
  <2> QED
    BY <2>1
<1> QED
  BY <1>1, <1>2, <1>6

-----------------------------------------------------------------------------
(* The components are taken in the order of their smallest clusters, which *)
(* are all different.                                                      *)
LEMMA BlocksSound ==
    ASSUME NEW p \in Pass, NEW parts, parts = Components(p)
    PROVE  /\ Partition(parts, p.day.candidates)
           /\ \A b \in parts : b # {} /\ b \subseteq Clusters /\ Min(b) \in b /\ Min(b) \in Nat
           /\ \A a, b \in parts : Min(a) = Min(b) => a = b
           /\ \E n \in Nat : \A b \in parts : Min(b) < n
<1>1. Partition(parts, p.day.candidates)
  BY ComponentsGood DEF GoodParts
<1>2. ASSUME NEW b \in parts
      PROVE  b # {} /\ b \subseteq Clusters /\ Min(b) \in b /\ Min(b) \in Nat
  <2>1. b # {} /\ b \subseteq Clusters
    BY <1>1, DaysSound DEF Partition
  <2>2. IsFiniteSet(b) /\ b \subseteq Nat
    BY <2>1, StoryAssumption, FS_Subset
  <2> QED
    BY <2>1, <2>2, LeastNatural
<1>3. \A a, b \in parts : Min(a) = Min(b) => a = b
  BY <1>1, <1>2 DEF Partition
<1>4. \E n \in Nat : \A b \in parts : Min(b) < n
  <2>1. CASE Clusters = {}
    BY <1>2, <2>1
  <2>2. CASE Clusters # {}
    <3>1. PICK m \in Clusters : \A c \in Clusters : c <= m
      BY <2>2, StoryAssumption, GreatestNatural
    <3>2. m \in Nat /\ m + 1 \in Nat
      BY StoryAssumption
    <3>3. \A b \in parts : Min(b) < m + 1
      BY <1>2, <3>1, <3>2
    <3> QED
      BY <3>2, <3>3
  <2> QED
    BY <2>1, <2>2
<1> QED
  BY <1>1, <1>2, <1>3, <1>4

Upto(parts, n) == {b \in parts : Min(b) < n}

Claimed(p, parts, f, n) ==
    f = [b \in Upto(parts, n) |-> Claim(p, {f[a] : a \in Before(parts, b)}, b)]

(* The recursive function of `forward_ids` exists: the components up to a  *)
(* smallest cluster have their claims, for every such bound.               *)
LEMMA ClaimsExist ==
    ASSUME NEW p \in Pass, NEW parts, parts = Components(p)
    PROVE  \A n \in Nat : \E f : Claimed(p, parts, f, n)
<1> TAKE n \in Nat
<1> DEFINE G == {k \in Nat : \E f : Claimed(p, parts, f, k)}
<1>0. \A b \in parts : Min(b) \in Nat
  BY BlocksSound
<1>1. 0 \in G
  <2>1. Upto(parts, 0) = {}
    BY <1>0 DEF Upto
  <2> DEFINE f == [b \in {} |-> b]
  <2>2. Claimed(p, parts, f, 0)
    BY <2>1 DEF Claimed
  <2> QED
    BY <2>2
<1>2. ASSUME NEW k \in Nat, k \in G PROVE k + 1 \in G
  <2>1. PICK f : Claimed(p, parts, f, k)
    BY <1>2
  <2>2. \A b \in Upto(parts, k) : f[b] = Claim(p, {f[a] : a \in Before(parts, b)}, b)
    BY <2>1, Zenon DEF Claimed
  <2>3. PICK g : g = [b \in Upto(parts, k + 1) |->
                        IF b \in Upto(parts, k) THEN f[b] ELSE Claim(p, {f[a] : a \in Before(parts, b)}, b)]
    OBVIOUS
  <2>4. ASSUME NEW b \in Upto(parts, k + 1)
        PROVE  g[b] = Claim(p, {g[a] : a \in Before(parts, b)}, b)
    <3>1. Before(parts, b) \subseteq Upto(parts, k) /\ Before(parts, b) \subseteq Upto(parts, k + 1)
      BY <1>0, <2>4 DEF Before, Upto
    <3>2. \A a \in Before(parts, b) : g[a] = f[a]
      BY <2>3, <3>1
    <3>3. {g[a] : a \in Before(parts, b)} = {f[a] : a \in Before(parts, b)}
      BY <3>2
    <3>4. g[b] = Claim(p, {f[a] : a \in Before(parts, b)}, b)
      BY <2>2, <2>3
    <3> QED
      BY <3>3, <3>4
  <2>5. g = [b \in Upto(parts, k + 1) |-> g[b]]
    BY <2>3
  <2>6. Claimed(p, parts, g, k + 1)
    BY <2>4, <2>5, Zenon DEF Claimed
  <2> QED
    BY <2>6
<1>3. 0 .. n \subseteq G
  <2> HIDE DEF G
  <2> QED
    BY <1>1, <1>2, StepByStep
<1> QED
  BY <1>3

(* So every component claims an id of its own prior ids, given those of    *)
(* the components before it.                                               *)
LEMMA ClaimsAreClaimed ==
    ASSUME NEW p \in Pass, NEW parts, parts = Components(p)
    PROVE  /\ DOMAIN Claims(p) = parts
           /\ \A b \in parts : Claims(p)[b] = Claim(p, {Claims(p)[a] : a \in Before(parts, b)}, b)
<1>1. PICK n \in Nat : \A b \in parts : Min(b) < n
  BY BlocksSound
<1>2. Upto(parts, n) = parts
  BY <1>1 DEF Upto
<1> DEFINE f == CHOOSE h : h = [b \in parts |-> Claim(p, {h[a] : a \in Before(parts, b)}, b)]
<1>3. f = [b \in parts |-> Claim(p, {f[a] : a \in Before(parts, b)}, b)]
  <2>1. \E h : h = [b \in parts |-> Claim(p, {h[a] : a \in Before(parts, b)}, b)]
    <3>1. PICK h : Claimed(p, parts, h, n)
      BY ClaimsExist
    <3>2. h = [b \in Upto(parts, n) |-> Claim(p, {h[a] : a \in Before(parts, b)}, b)]
      BY <3>1, Zenon DEF Claimed
    <3>3. h = [b \in parts |-> Claim(p, {h[a] : a \in Before(parts, b)}, b)]
      BY <1>2, <3>2, Zenon
    <3> QED
      BY <3>3
  <2> QED
    BY <2>1, Zenon
<1>4. Claims(p) = f
  BY DEF Claims
<1> HIDE DEF f
<1>5. DOMAIN f = parts /\ \A b \in parts : f[b] = Claim(p, {f[a] : a \in Before(parts, b)}, b)
  BY <1>3, Zenon
<1> QED
  BY <1>4, <1>5

-----------------------------------------------------------------------------
(* The components claim ids that are all different: each the oldest of the *)
(* ids that its clusters carried and no component before it has claimed,   *)
(* or else the next id that is minted.                                     *)
Fresh(p, f, parts, n) == {s \in {f[b] : b \in Upto(parts, n)} : s > p.base}

SoundUpto(p, f, parts, n) ==
    /\ \A a, b \in Upto(parts, n) : f[a] = f[b] => a = b
    /\ \A b \in Upto(parts, n) : f[b] \in PriorIds(p, b) \/ f[b] > p.base
    /\ Cardinality(Fresh(p, f, parts, n)) \in Nat
    /\ Fresh(p, f, parts, n) = p.base + 1 .. p.base + Cardinality(Fresh(p, f, parts, n))

PriorKnown(p) == \A c \in Clusters : p.prior[c] <= p.base

(* What a component claims while one of its prior ids is free: the oldest  *)
(* free one.                                                               *)
LEMMA FreeSurvives ==
    ASSUME NEW p \in Pass, PriorKnown(p), NEW b \in SUBSET Clusters, NEW claimed
    PROVE  /\ PriorIds(p, b) \subseteq 1 .. p.base
           /\ p.base \in Nat
           /\ LET free == PriorIds(p, b) \ claimed
              IN  free # {} => /\ Claim(p, claimed, b) \in free
                               /\ \A s \in free : Claim(p, claimed, b) <= s
<1>1. p.base \in Nat /\ p.prior \in [Clusters -> Ids \cup {NoStory}]
  BY StoryAssumption DEF Pass
<1>2. PriorIds(p, b) \subseteq 1 .. p.base
  BY <1>1 DEF PriorIds, PriorKnown, Ids, NoStory
<1> DEFINE free == PriorIds(p, b) \ claimed
<1>3. ASSUME free # {} PROVE Claim(p, claimed, b) \in free /\ \A s \in free : Claim(p, claimed, b) <= s
  <2>1. PICK n \in Int : n = p.base
    BY <1>1
  <2>2. IsFiniteSet(1 .. n)
    BY FS_Interval
  <2>3. IsFiniteSet(free) /\ free \subseteq Nat
    BY <1>2, <2>1, <2>2, FS_Subset
  <2>4. Claim(p, claimed, b) = Min(free)
    BY <1>3 DEF Claim, Survivor
  <2>5. PICK F : F = free
    OBVIOUS
  <2>6. Min(F) \in F /\ \A y \in F : Min(F) <= y
    BY <1>3, <2>3, <2>5, LeastNatural
  <2>7. Claim(p, claimed, b) = Min(F)
    BY <2>4, <2>5
  <2> HIDE DEF free
  <2> QED
    BY <2>5, <2>6, <2>7
<1> QED
  BY <1>1, <1>2, <1>3

(* If the components before a block have claimed well, so has the block:   *)
(* its oldest free prior id, or the next new id.                           *)
LEMMA NextClaim ==
    ASSUME NEW p \in Pass, PriorKnown(p), NEW parts, parts = Components(p), NEW f, DOMAIN f = parts,
           \A b \in parts : f[b] = Claim(p, {f[a] : a \in Before(parts, b)}, b),
           NEW n \in Nat, SoundUpto(p, f, parts, n)
    PROVE  SoundUpto(p, f, parts, n + 1)
<1>0. \A b \in parts : Min(b) \in Nat /\ b \in SUBSET Clusters
  BY BlocksSound
<1>1. CASE \A b \in parts : Min(b) # n
  <2>1. Upto(parts, n + 1) = Upto(parts, n)
    BY <1>0, <1>1 DEF Upto
  <2> QED
    BY <2>1 DEF SoundUpto, Fresh
<1>2. ASSUME NEW b \in parts, Min(b) = n PROVE SoundUpto(p, f, parts, n + 1)
  <2>1. Upto(parts, n + 1) = Upto(parts, n) \cup {b} /\ Before(parts, b) = Upto(parts, n) /\ b \notin Upto(parts, n)
    <3>1. \A a \in parts : Min(a) = n => a = b
      BY <1>2, BlocksSound
    <3> QED
      BY <1>0, <1>2, <3>1 DEF Upto, Before
  <2>2. PICK claimed : claimed = {f[a] : a \in Upto(parts, n)}
    OBVIOUS
  <2>3. f[b] = Claim(p, claimed, b) /\ Fresh(p, f, parts, n) = {s \in claimed : s > p.base}
    BY <2>1, <2>2 DEF Fresh
  <2>4. PICK k \in Nat : k = Cardinality(Fresh(p, f, parts, n))
    BY DEF SoundUpto
  <2>5. Fresh(p, f, parts, n) = p.base + 1 .. p.base + k
    BY <2>4 DEF SoundUpto
  <2>6. PriorIds(p, b) \subseteq 1 .. p.base /\ p.base \in Nat
    BY <1>0, FreeSurvives
  <2>7. Fresh(p, f, parts, n + 1) = {s \in claimed \cup {f[b]} : s > p.base}
    BY <2>1, <2>2 DEF Fresh
  <2>8. CASE PriorIds(p, b) \ claimed # {}
    <3>1. f[b] \in PriorIds(p, b) \ claimed
      BY <1>0, <2>3, <2>8, FreeSurvives
    <3>2. Fresh(p, f, parts, n + 1) = Fresh(p, f, parts, n)
      BY <2>3, <2>6, <2>7, <3>1
    <3>3. \A a \in Upto(parts, n) : f[a] # f[b]
      BY <2>2, <3>1
    <3>4. \A a, c \in Upto(parts, n + 1) : f[a] = f[c] => a = c
      BY <2>1, <3>3 DEF SoundUpto
    <3>5. \A a \in Upto(parts, n + 1) : f[a] \in PriorIds(p, a) \/ f[a] > p.base
      BY <2>1, <3>1 DEF SoundUpto
    <3> QED
      BY <2>4, <2>5, <3>2, <3>4, <3>5 DEF SoundUpto
  <2>9. CASE PriorIds(p, b) \ claimed = {}
    <3>1. f[b] = p.base + 1 + k
      BY <2>3, <2>4, <2>9 DEF Claim
    <3>2. f[b] > p.base /\ f[b] \notin Fresh(p, f, parts, n)
      BY <2>5, <2>6, <3>1
    <3>3. f[b] \notin claimed
      BY <2>3, <3>2
    <3>4. \A a \in Upto(parts, n) : f[a] # f[b]
      BY <2>2, <3>3
    <3>5. \A a, c \in Upto(parts, n + 1) : f[a] = f[c] => a = c
      BY <2>1, <3>4 DEF SoundUpto
    <3>6. \A a \in Upto(parts, n + 1) : f[a] \in PriorIds(p, a) \/ f[a] > p.base
      BY <2>1, <3>2 DEF SoundUpto
    <3>7. Fresh(p, f, parts, n + 1) = Fresh(p, f, parts, n) \cup {f[b]}
      BY <2>3, <2>7, <3>2
    <3>8. Fresh(p, f, parts, n + 1) = p.base + 1 .. p.base + (k + 1)
      <4>1. PICK m \in Nat : m = p.base
        BY <2>6
      <4>2. (m + 1 .. m + k) \cup {m + 1 + k} = m + 1 .. m + (k + 1)
        OBVIOUS
      <4> QED
        BY <2>5, <3>1, <3>7, <4>1, <4>2
    <3>9. Cardinality(Fresh(p, f, parts, n + 1)) = k + 1
      <4>1. PICK l \in Int, h \in Int : l = p.base + 1 /\ h = p.base + (k + 1)
        BY <2>6
      <4>2. Cardinality(l .. h) = IF l > h THEN 0 ELSE h - l + 1
        BY FS_Interval
      <4> QED
        BY <2>6, <3>8, <4>1, <4>2
    <3> QED
      BY <3>5, <3>6, <3>8, <3>9 DEF SoundUpto
  <2> QED
    BY <2>8, <2>9
<1> QED
  BY <1>1, <1>2

(* What forward_ids returns: the survivors.                                *)
LEMMA ClaimsSound ==
    ASSUME NEW p \in Pass, PriorKnown(p)
    PROVE  /\ Partition(DOMAIN Claims(p), p.day.candidates)
           /\ DOMAIN Claims(p) = Components(p)
           /\ \A a, b \in DOMAIN Claims(p) : Claims(p)[a] = Claims(p)[b] => a = b
           /\ \A b \in DOMAIN Claims(p) : Claims(p)[b] \in PriorIds(p, b) \/ Claims(p)[b] > p.base
           /\ Minted(p) \in Nat
           /\ {s \in Range(Claims(p)) : s > p.base} = p.base + 1 .. p.base + Minted(p)
           /\ Range(Claims(p)) \subseteq 1 .. p.base + Minted(p)
           /\ \A b \in DOMAIN Claims(p) : \A s \in Losers(p, Claims(p), b) :
                 Claims(p)[b] \in PriorIds(p, b) /\ Claims(p)[b] < s
<1>1. PICK parts, f : parts = Components(p) /\ f = Claims(p)
  OBVIOUS
<1>2. DOMAIN f = parts /\ \A b \in parts : f[b] = Claim(p, {f[a] : a \in Before(parts, b)}, b)
  BY <1>1, ClaimsAreClaimed
<1>3. Partition(parts, p.day.candidates) /\ \A b \in parts : Min(b) \in Nat /\ b \in SUBSET Clusters
  BY <1>1, BlocksSound
<1>4. p.base \in Nat /\ \A b \in parts : PriorIds(p, b) \subseteq 1 .. p.base
  BY <1>3, FreeSurvives
<1>5. PICK n \in Nat : \A b \in parts : Min(b) < n
  BY <1>1, BlocksSound
<1>6. SoundUpto(p, f, parts, n)
  <2> DEFINE G == {k \in Nat : SoundUpto(p, f, parts, k)}
  <2>1. 0 \in G
    <3>1. Upto(parts, 0) = {} /\ Fresh(p, f, parts, 0) = {}
      BY <1>3 DEF Upto, Fresh
    <3>2. Cardinality({}) = 0
      BY FS_EmptySet
    <3>3. {} = p.base + 1 .. p.base + 0
      BY <1>4
    <3>4. Cardinality(Fresh(p, f, parts, 0)) = 0
      BY <3>1, <3>2
    <3>5. Fresh(p, f, parts, 0) = p.base + 1 .. p.base + Cardinality(Fresh(p, f, parts, 0))
      BY <3>1, <3>3, <3>4
    <3>6. /\ \A a, b \in Upto(parts, 0) : f[a] = f[b] => a = b
          /\ \A b \in Upto(parts, 0) : f[b] \in PriorIds(p, b) \/ f[b] > p.base
      BY <3>1
    <3>7. SoundUpto(p, f, parts, 0)
      BY <3>4, <3>5, <3>6 DEF SoundUpto
    <3> QED
      BY <3>7
  <2>2. \A k \in Nat : k < n /\ k \in G => k + 1 \in G
    BY <1>1, <1>2, NextClaim
  <2> HIDE DEF G
  <2>3. 0 .. n \subseteq G
    BY <2>1, <2>2, StepByStep
  <2> QED
    BY <2>3 DEF G
<1>7. Upto(parts, n) = parts /\ Range(f) = {f[b] : b \in parts}
  BY <1>2, <1>5 DEF Upto, Range
<1>8. Fresh(p, f, parts, n) = {s \in Range(f) : s > p.base}
  BY <1>7 DEF Fresh
<1>9. Minted(p) = Cardinality(Fresh(p, f, parts, n))
  BY <1>1, <1>8 DEF Minted
<1>10. /\ \A a, b \in parts : f[a] = f[b] => a = b
       /\ \A b \in parts : f[b] \in PriorIds(p, b) \/ f[b] > p.base
       /\ Minted(p) \in Nat
       /\ {s \in Range(f) : s > p.base} = p.base + 1 .. p.base + Minted(p)
  BY <1>6, <1>7, <1>8, <1>9 DEF SoundUpto
<1>11. Range(f) \subseteq 1 .. p.base + Minted(p)
  <2> SUFFICES ASSUME NEW b \in parts PROVE f[b] \in 1 .. p.base + Minted(p)
    BY <1>7
  <2>1. CASE f[b] \in PriorIds(p, b)
    BY <1>4, <1>10, <2>1
  <2>2. CASE f[b] > p.base
    <3>1. f[b] \in p.base + 1 .. p.base + Minted(p)
      BY <1>7, <1>10, <2>2
    <3> QED
      BY <1>4, <1>10, <3>1
  <2> QED
    BY <1>10, <2>1, <2>2
<1>12. ASSUME NEW b \in parts, NEW s \in Losers(p, f, b)
       PROVE  f[b] \in PriorIds(p, b) /\ f[b] < s
  <2>1. PICK claimed : claimed = {f[a] : a \in Before(parts, b)}
    OBVIOUS
  <2>2. claimed \subseteq Range(f) /\ s \in PriorIds(p, b) \ Range(f) /\ f[b] \in Range(f)
    BY <1>7, <2>1 DEF Before, Losers
  <2>3. s \in PriorIds(p, b) \ claimed
    BY <2>2
  <2>4. f[b] \in PriorIds(p, b) \ claimed /\ f[b] <= s
    <3>1. f[b] = Claim(p, claimed, b) /\ b \in SUBSET Clusters
      BY <1>2, <1>3, <2>1
    <3>2. PICK free : free = PriorIds(p, b) \ claimed
      OBVIOUS
    <3>3. Claim(p, claimed, b) \in free /\ \A u \in free : Claim(p, claimed, b) <= u
      BY <2>3, <3>1, <3>2, FreeSurvives
    <3> QED
      BY <2>3, <3>1, <3>2, <3>3
  <2> QED
    BY <1>4, <2>2, <2>3, <2>4
<1> QED
  BY <1>1, <1>2, <1>3, <1>10, <1>11, <1>12

-----------------------------------------------------------------------------
(* What a pass writes: the stories it has claimed, with their components;  *)
(* a tombstone for an id that no component kept; nothing else.             *)
Upserted(p, s, b) ==
    /\ b \in DOMAIN Claims(p) /\ Claims(p)[b] = s
    /\ Persisted(p)[s] = [story[s] EXCEPT !.born = TRUE, !.into = NoStory, !.clusters = b]
Absorbed(p, s, b) ==
    /\ b \in DOMAIN Claims(p) /\ s \in Losers(p, Claims(p), b)
    /\ Persisted(p)[s] = [story[s] EXCEPT !.into = Claims(p)[b], !.clusters = {}]
LeftAlone(p, s) ==
    /\ s \notin Range(Claims(p))
    /\ \A b \in DOMAIN Claims(p) : s \notin Losers(p, Claims(p), b)
    /\ Persisted(p)[s] = story[s]

(* Of some survivors, one is written last.                                 *)
LEMMA LastOne ==
    ASSUME NEW n \in Nat, NEW S \in SUBSET (1 .. n), S # {}
    PROVE  LastSurvivor(S) \in S
<1>1. IsFiniteSet(1 .. n) /\ 1 .. n \subseteq Nat
  BY FS_Interval
<1>2. S \subseteq Nat /\ IsFiniteSet(S)
  BY <1>1, FS_Subset
<1>3. PICK m \in S : \A y \in S : y <= m
  BY <1>2, GreatestNatural
<1> QED
  BY <1>2, <1>3 DEF LastSurvivor, Max

(* The row an assignment leaves under an id: a claimed one, a tombstone,   *)
(* or the one that was there.                                              *)
LEMMA PersistedRow ==
    ASSUME NEW p \in Pass, PriorKnown(p), NEW s \in Ids
    PROVE  \/ \E b : Upserted(p, s, b)
           \/ \E b : Absorbed(p, s, b)
           \/ LeftAlone(p, s)
<1>1. PICK claims : claims = Claims(p)
  OBVIOUS
<1>2. PICK S : S = {claims[b] : b \in {a \in DOMAIN claims : s \in Losers(p, claims, a)}}
  OBVIOUS
<1>3. Persisted(p)[s] =
         IF s \in Range(claims)
         THEN [story[s] EXCEPT !.born = TRUE, !.into = NoStory,
                               !.clusters = CHOOSE b \in DOMAIN claims : claims[b] = s]
         ELSE IF S # {} THEN Tombstone(story[s], LastSurvivor(S))
         ELSE story[s]
  BY <1>1, <1>2 DEF Persisted
<1>4. CASE s \in Range(claims)
  <2>1. PICK b : b = CHOOSE d \in DOMAIN claims : claims[d] = s
    OBVIOUS
  <2>2. b \in DOMAIN claims /\ claims[b] = s
    BY <1>4, <2>1 DEF Range
  <2>3. Persisted(p)[s] = [story[s] EXCEPT !.born = TRUE, !.into = NoStory, !.clusters = b]
    BY <1>3, <1>4, <2>1
  <2> QED
    BY <1>1, <2>2, <2>3 DEF Upserted
<1>5. CASE s \notin Range(claims) /\ S # {}
  <2>1. S \subseteq Range(claims)
    BY <1>2 DEF Range
  <2>2. PICK n \in Nat : Range(claims) \subseteq 1 .. n
    <3>1. Minted(p) \in Nat /\ Range(claims) \subseteq 1 .. p.base + Minted(p)
      BY <1>1, ClaimsSound
    <3>2. p.base + Minted(p) \in Nat
      BY <3>1, StoryAssumption DEF Pass
    <3> QED
      BY <3>1, <3>2
  <2>3. LastSurvivor(S) \in S
    BY <1>5, <2>1, <2>2, LastOne
  <2>4. PICK b \in DOMAIN claims : s \in Losers(p, claims, b) /\ claims[b] = LastSurvivor(S)
    BY <1>2, <2>3
  <2>5. Persisted(p)[s] = [story[s] EXCEPT !.into = claims[b], !.clusters = {}]
    BY <1>3, <1>5, <2>4 DEF Tombstone
  <2> QED
    BY <1>1, <2>4, <2>5 DEF Absorbed
<1>6. CASE s \notin Range(claims) /\ S = {}
  BY <1>1, <1>2, <1>3, <1>6 DEF LeftAlone
<1> QED
  BY <1>4, <1>5, <1>6

-----------------------------------------------------------------------------
(***************************************************************************)
(* The inductive invariant.  Every story is of an id that was minted, and  *)
(* is forwarded to an older one that exists; a linked pass has minted the  *)
(* ids it will write, and, as long as nobody else has written a story, has *)
(* the table before it as it is.                                           *)
(***************************************************************************)
StoriesMinted ==
    \A s \in Ids :
        /\ story[s].born \/ story[s].into # NoStory => s <= minted
        /\ story[s].into # NoStory => story[s].into < s /\ story[story[s].into].born

Linked(p) == p.base + Minted(p) <= minted /\ PriorKnown(p)

Agrees(p) ==
    /\ \A s \in Ids : s > p.base => ~ story[s].born /\ story[s].into = NoStory
    /\ \A c \in p.day.candidates :
          IF PriorOf(c) # {} THEN p.prior[c] \in PriorOf(c) ELSE p.prior[c] = NoStory
    /\ p.delivered = {s \in Ids : Live(s) /\ story[s].delivered}

PassesLinked ==
    \A w \in Workers : pass[w].pc = "linked" =>
        Linked(pass[w]) /\ (w \notin stale => Agrees(pass[w]))

StoryInv == TypeOK /\ StoriesMinted /\ PassesLinked

(* What a linked pass knows of the table stays true in a step that leaves  *)
(* the table and the pass alone.                                           *)
LEMMA PassFrame ==
    ASSUME StoryInv, NEW w \in Workers,
           story' = story, minted' = minted, stale' \in {stale, stale \ {w}},
           \A v \in Workers \ {w} : pass'[v] = pass[v],
           pass'[w].pc # "linked"
    PROVE  StoriesMinted' /\ PassesLinked'
<1>1. StoriesMinted'
  BY DEF StoryInv, StoriesMinted
<1>2. ASSUME NEW v \in Workers, pass'[v].pc = "linked"
      PROVE  Linked(pass[v])' /\ (v \notin stale' => Agrees(pass[v])')
  <2>1. v # w /\ pass'[v] = pass[v] /\ (v \notin stale' => v \notin stale)
    BY <1>2
  <2>2. Linked(pass[v]) /\ (v \notin stale => Agrees(pass[v]))
    BY <1>2, <2>1 DEF StoryInv, PassesLinked
  <2> QED
    BY <2>1, <2>2 DEF Linked, Agrees, PriorOf, Live
<1> QED
  BY <1>1, <1>2 DEF PassesLinked

(* The ranges of the ids, for the arithmetic below.                        *)
LEMMA TypeFacts ==
    ASSUME TypeOK
    PROVE  /\ story \in [Ids -> StoryRow] /\ minted \in Nat /\ minted <= MaxStories
           /\ pass \in [Workers -> Pass] /\ IdlePass \in Pass
           /\ Ids \subseteq Nat /\ NoStory \notin Ids
<1>1. IdlePass \in Pass
  BY StoryAssumption DEF IdlePass, Pass
<1> QED
  BY <1>1, StoryAssumption DEF TypeOK, Ids, NoStory

(* The inductive invariant holds initially.                                *)
LEMMA InitStoryInv == Init => StoryInv
<1> SUFFICES ASSUME Init PROVE StoryInv
  OBVIOUS
<1>1. IdlePass \in Pass /\ IdlePass.pc = "idle"
  BY StoryAssumption DEF IdlePass, Pass
<1>2. UnbornStory \in StoryRow /\ ~ UnbornStory.born /\ UnbornStory.into = NoStory
  BY DEF UnbornStory, StoryRow
<1>3. [frozen |-> FALSE, delivered |-> FALSE, items |-> {}] \in DigestRow
  BY DEF DigestRow
<1>4. TypeOK
  <2>1. \A s \in Ids : UnbornStory.clusters = {}
    BY DEF UnbornStory
  <2>2. 0 \in 0 .. MaxStories
    BY StoryAssumption
  <2> QED
    BY <1>1, <1>2, <1>3, <2>1, <2>2 DEF Init, TypeOK
<1>5. StoriesMinted /\ PassesLinked
  BY <1>1, <1>2 DEF Init, StoriesMinted, PassesLinked
<1> QED
  BY <1>4, <1>5 DEF StoryInv

(* A pass that links reads the table as it is, and takes ids nobody has.   *)
LEMMA LinkInv ==
    ASSUME StoryInv, NEW w \in Workers, Link(w)
    PROVE  StoryInv'
<1>0. /\ story \in [Ids -> StoryRow] /\ minted \in Nat /\ minted <= MaxStories /\ pass \in [Workers -> Pass]
      /\ Ids \subseteq Nat /\ NoStory \notin Ids
  BY TypeFacts DEF StoryInv
<1>1. PICK n \in 1 .. Windows, day \in Days, prior \in [Clusters -> {s \in Ids : Live(s)} \cup {NoStory}], p \in Pass :
         /\ \A c \in Clusters : IF c \in day.candidates /\ PriorOf(c) # {}
                                THEN prior[c] \in PriorOf(c) ELSE prior[c] = NoStory
         /\ p = [pc |-> "linked", window |-> n, day |-> day, prior |-> prior, base |-> minted,
                 delivered |-> {s \in Ids : Live(s) /\ story[s].delivered},
                 stories |-> {}]
         /\ minted + Minted(p) <= MaxStories
         /\ minted' = minted + Minted(p)
         /\ pass' = [pass EXCEPT ![w] = p]
  <2> DEFINE P(n, day, prior) ==
               [pc |-> "linked", window |-> n, day |-> day, prior |-> prior, base |-> minted,
                delivered |-> {s \in Ids : Live(s) /\ story[s].delivered}, stories |-> {}]
  <2>1. \E n \in 1 .. Windows, day \in Days, prior \in [Clusters -> {s \in Ids : Live(s)} \cup {NoStory}] :
           /\ \A c \in Clusters : IF c \in day.candidates /\ PriorOf(c) # {}
                                  THEN prior[c] \in PriorOf(c) ELSE prior[c] = NoStory
           /\ minted + Minted(P(n, day, prior)) <= MaxStories
           /\ minted' = minted + Minted(P(n, day, prior))
           /\ pass' = [pass EXCEPT ![w] = P(n, day, prior)]
    BY DEF Link
  <2>2. PICK n \in 1 .. Windows, day \in Days, prior \in [Clusters -> {s \in Ids : Live(s)} \cup {NoStory}] :
           /\ \A c \in Clusters : IF c \in day.candidates /\ PriorOf(c) # {}
                                  THEN prior[c] \in PriorOf(c) ELSE prior[c] = NoStory
           /\ minted + Minted(P(n, day, prior)) <= MaxStories
           /\ minted' = minted + Minted(P(n, day, prior))
           /\ pass' = [pass EXCEPT ![w] = P(n, day, prior)]
    BY <2>1
  <2>3. P(n, day, prior) \in Pass
    <3>1. minted \in 0 .. MaxStories /\ prior \in [Clusters -> Ids \cup {NoStory}]
      BY <1>0, StoryAssumption
    <3> QED
      BY <3>1 DEF Pass
  <2> QED
    BY <2>2, <2>3
<1>3. /\ UNCHANGED <<story, digest, stale, overlapped>> /\ pass[w].pc = "idle"
      /\ pass'[w] = p /\ \A v \in Workers \ {w} : pass'[v] = pass[v]
      /\ pass' \in [Workers -> Pass]
  BY <1>0, <1>1 DEF Link
<1>4. p.base = minted /\ p.day = day /\ p.prior = prior /\ p.pc = "linked"
      /\ p.delivered = {s \in Ids : Live(s) /\ story[s].delivered}
  BY <1>1
<1>5. \A s \in Ids : Live(s) => s <= minted
  BY DEF StoryInv, StoriesMinted, Live
<1>6. PriorKnown(p)
  <2> SUFFICES ASSUME NEW c \in Clusters PROVE prior[c] <= minted
    BY <1>4 DEF PriorKnown
  <2>1. prior[c] \in {s \in Ids : Live(s)} \cup {NoStory}
    OBVIOUS
  <2>2. CASE prior[c] = NoStory
    BY <1>0, <2>2 DEF NoStory
  <2> QED
    BY <1>5, <2>1, <2>2
<1>7. Minted(p) \in Nat
  BY <1>6, ClaimsSound
<1>8. minted <= minted' /\ minted' \in 0 .. MaxStories
  BY <1>0, <1>1, <1>7, StoryAssumption
<1>9. TypeOK'
  <2>1. stale' \in SUBSET {v \in Workers : pass'[v].pc = "linked"}
    BY <1>3 DEF StoryInv, TypeOK
  <2> QED
    BY <1>3, <1>8, <2>1 DEF StoryInv, TypeOK
<1>10. StoriesMinted'
  <2> SUFFICES ASSUME NEW s \in Ids
               PROVE  /\ story[s].born \/ story[s].into # NoStory => s <= minted'
                      /\ story[s].into # NoStory => story[s].into < s /\ story[story[s].into].born
    BY <1>3 DEF StoriesMinted
  <2> QED
    BY <1>0, <1>8 DEF StoryInv, StoriesMinted
<1>11. ASSUME NEW v \in Workers, pass'[v].pc = "linked"
       PROVE  Linked(pass[v])' /\ (v \notin stale' => Agrees(pass[v])')
  <2>1. CASE v = w
    <3>1. Linked(p)'
      BY <1>1, <1>4, <1>6 DEF Linked, PriorKnown
    <3>2. Agrees(p)
      <4>1. p.day.candidates \subseteq Clusters
        BY DaysSound
      <4>2. \A s \in Ids : s > p.base => ~ story[s].born /\ story[s].into = NoStory
        <5> SUFFICES ASSUME NEW s \in Ids, s > minted PROVE ~ (story[s].born \/ story[s].into # NoStory)
          BY <1>4
        <5>1. ~ (s <= minted)
          BY <1>0
        <5> QED
          BY <5>1 DEF StoryInv, StoriesMinted
      <4> QED
        BY <1>1, <1>4, <4>1, <4>2 DEF Agrees
    <3>3. Agrees(p)'
      BY <1>3, <3>2 DEF Agrees, PriorOf, Live
    <3> QED
      BY <1>3, <2>1, <3>1, <3>3
  <2>2. CASE v # w
    <3>1. PICK q \in Pass : q = pass[v]
      BY <1>0
    <3>2. pass'[v] = q /\ q.pc = "linked" /\ stale' = stale
      BY <1>3, <1>11, <2>2, <3>1
    <3>3. Linked(q) /\ (v \notin stale => Agrees(q))
      BY <3>1, <3>2 DEF StoryInv, PassesLinked
    <3>4. Minted(q) \in Nat /\ q.base \in Nat
      BY <3>3, ClaimsSound, StoryAssumption DEF Linked, Pass
    <3>5. Linked(q)'
      BY <1>0, <1>8, <3>3, <3>4 DEF Linked, PriorKnown
    <3>6. v \notin stale => Agrees(q)'
      BY <1>3, <3>3 DEF Agrees, PriorOf, Live
    <3> QED
      BY <3>2, <3>5, <3>6
  <2> QED
    BY <2>1, <2>2
<1>12. PassesLinked'
  BY <1>11 DEF PassesLinked
<1> QED
  BY <1>9, <1>10, <1>12 DEF StoryInv

(* The rows of a pass that is linked: the ids it takes are minted, and     *)
(* what it writes is forwarded to an older story.                          *)
LEMMA ClaimsMinted ==
    ASSUME StoryInv, NEW p \in Pass, Linked(p)
    PROVE  Range(Claims(p)) \subseteq Ids /\ \A u \in Range(Claims(p)) : u <= minted
<1>0. minted \in Nat /\ minted <= MaxStories
  BY TypeFacts DEF StoryInv
<1>1. p.base \in Nat /\ Minted(p) \in Nat /\ Range(Claims(p)) \subseteq 1 .. p.base + Minted(p)
  BY ClaimsSound, StoryAssumption DEF Pass, Linked
<1> QED
  BY <1>0, <1>1, StoryAssumption DEF Ids, Linked

(* A persisted assignment has the types, and every tombstone has no        *)
(* members.                                                                *)
LEMMA PersistedType ==
    ASSUME StoryInv, NEW p \in Pass, Linked(p), NEW s \in Ids
    PROVE  /\ Persisted(p)[s] \in StoryRow
           /\ Persisted(p)[s].into # NoStory => Persisted(p)[s].clusters = {}
           /\ Persisted(p)[s].born \/ Persisted(p)[s].into # NoStory => s <= minted
           /\ story[s].born => Persisted(p)[s].born
           /\ s \in Range(Claims(p)) => Persisted(p)[s].born
           /\ Persisted(p)[s].delivered = story[s].delivered
           /\ Persisted(p)[s].into # NoStory =>
                 /\ Persisted(p)[s].into < s
                 /\ Persisted(p)[s].into \in Range(Claims(p)) \/ Persisted(p)[s].into = story[s].into
<1>0. /\ story \in [Ids -> StoryRow] /\ minted \in Nat /\ minted <= MaxStories
      /\ Ids \subseteq Nat /\ NoStory \notin Ids
  BY TypeFacts DEF StoryInv
<1>1. PriorKnown(p) /\ p.base + Minted(p) <= minted
  BY DEF Linked
<1>3. Range(Claims(p)) \subseteq Ids /\ \A u \in Range(Claims(p)) : u <= minted
  BY ClaimsMinted
<1>4. \A b \in DOMAIN Claims(p) : b \in SUBSET Clusters /\ Claims(p)[b] \in Range(Claims(p))
  BY <1>1, ClaimsSound, DaysSound DEF Partition, Range
<1>5. story[s] \in StoryRow /\ s \in Nat
  BY <1>0
<1>6. CASE \E b : Upserted(p, s, b)
  <2>1. PICK b : Upserted(p, s, b)
    BY <1>6
  <2>2. b \in SUBSET Clusters /\ s \in Range(Claims(p)) /\ s <= minted
    BY <1>3, <1>4, <2>1 DEF Upserted
  <2>3. /\ Persisted(p)[s] \in StoryRow /\ Persisted(p)[s].into = NoStory /\ Persisted(p)[s].born
        /\ Persisted(p)[s].delivered = story[s].delivered
    BY <1>5, <2>1, <2>2 DEF Upserted, StoryRow
  <2> QED
    BY <1>3, <2>2, <2>3
<1>7. CASE \E b : Absorbed(p, s, b)
  <2>1. PICK b : Absorbed(p, s, b)
    BY <1>7
  <2>2. PICK u : u = Claims(p)[b]
    OBVIOUS
  <2>3. u \in Range(Claims(p)) /\ u < s /\ s \notin Range(Claims(p))
    BY <1>1, <1>4, <2>1, <2>2, ClaimsSound DEF Absorbed, Losers
  <2>4. Persisted(p)[s] = [story[s] EXCEPT !.into = u, !.clusters = {}]
    BY <2>1, <2>2 DEF Absorbed
  <2>5. /\ Persisted(p)[s] \in StoryRow /\ Persisted(p)[s].into = u /\ Persisted(p)[s].clusters = {}
        /\ Persisted(p)[s].born = story[s].born /\ Persisted(p)[s].delivered = story[s].delivered
    BY <1>3, <1>5, <2>3, <2>4 DEF StoryRow
  <2>6. s <= minted
    <3>1. s \in PriorIds(p, b) /\ b \in SUBSET Clusters
      BY <1>4, <2>1 DEF Absorbed, Losers
    <3>2. s <= p.base /\ p.base \in Nat /\ Minted(p) \in Nat
      BY <1>1, <3>1, FreeSurvives, ClaimsSound
    <3> QED
      BY <1>0, <1>1, <3>2
  <2> QED
    BY <1>3, <2>3, <2>5, <2>6 DEF StoryInv, StoriesMinted
<1>8. CASE LeftAlone(p, s)
  BY <1>3, <1>5, <1>8 DEF LeftAlone, StoryInv, StoriesMinted, TypeOK
<1> QED
  BY <1>1, <1>6, <1>7, <1>8, PersistedRow

(* An assignment that is persisted keeps the inductive invariant; the      *)
(* other linked passes become stale.                                       *)
LEMMA PersistInv ==
    ASSUME StoryInv, NEW w \in Workers, Persist(w)
    PROVE  StoryInv'
<1>0. /\ story \in [Ids -> StoryRow] /\ minted \in Nat /\ pass \in [Workers -> Pass] /\ IdlePass \in Pass
      /\ Ids \subseteq Nat /\ NoStory \notin Ids
  BY TypeFacts DEF StoryInv
<1>1. PICK p \in Pass : p = pass[w]
  BY <1>0
<1>2. PICK q : q = [IdlePass EXCEPT !.pc = "persisted", !.window = p.window, !.stories = Range(Claims(p))]
  OBVIOUS
<1>3. /\ story' = Persisted(p) /\ pass' = [pass EXCEPT ![w] = q] /\ p.pc = "linked"
      /\ stale' = Outdated(w) /\ overlapped' \in BOOLEAN /\ UNCHANGED <<minted, digest>>
  BY <1>1, <1>2 DEF Persist, StoryInv, TypeOK
<1>4. Linked(p)
  BY <1>1, <1>3 DEF StoryInv, PassesLinked
<1>5. Range(Claims(p)) \subseteq Ids
  BY <1>4, ClaimsMinted
<1>6. q \in Pass /\ q.pc = "persisted"
  BY <1>0, <1>2, <1>5 DEF Pass
<1>7. /\ pass'[w] = q /\ pass' \in [Workers -> Pass]
      /\ \A v \in Workers \ {w} : pass'[v] = pass[v]
  BY <1>0, <1>3, <1>6
<1>8. Persisted(p) = [s \in Ids |-> Persisted(p)[s]]
  BY DEF Persisted
<1>9. TypeOK'
  <2>1. story' \in [Ids -> StoryRow] /\ \A s \in Ids : story'[s].into # NoStory => story'[s].clusters = {}
    BY <1>3, <1>4, <1>8, PersistedType
  <2>2. stale' \in SUBSET {v \in Workers : pass'[v].pc = "linked"}
    BY <1>3, <1>7 DEF Outdated, StoryInv, TypeOK
  <2> QED
    BY <1>3, <1>7, <2>1, <2>2 DEF StoryInv, TypeOK
<1>10. StoriesMinted'
  <2> SUFFICES ASSUME NEW s \in Ids
               PROVE  /\ story'[s].born \/ story'[s].into # NoStory => s <= minted
                      /\ story'[s].into # NoStory => story'[s].into < s /\ story'[story'[s].into].born
    BY <1>3 DEF StoriesMinted
  <2>1. story'[s].born \/ story'[s].into # NoStory => s <= minted
    BY <1>3, <1>4, PersistedType
  <2>2. ASSUME story'[s].into # NoStory PROVE story'[s].into < s /\ story'[story'[s].into].born
    <3>1. PICK u : u = story'[s].into
      OBVIOUS
    <3>2. u < s /\ (u \in Range(Claims(p)) \/ (u = story[s].into /\ u \in Ids /\ story[u].born))
      <4>1. u = Persisted(p)[s].into /\ u # NoStory
        BY <1>3, <2>2, <3>1
      <4>2. u < s /\ (u \in Range(Claims(p)) \/ u = story[s].into)
        BY <1>4, <4>1, PersistedType
      <4>3. u = story[s].into => u \in Ids /\ story[u].born
        BY <1>0, <4>1 DEF StoryInv, StoriesMinted, StoryRow
      <4> QED
        BY <4>2, <4>3
    <3>3. u \in Ids /\ Persisted(p)[u].born
      BY <1>4, <1>5, <3>2, PersistedType
    <3> QED
      BY <1>3, <3>1, <3>2, <3>3
  <2> QED
    BY <2>1, <2>2
<1>11. PassesLinked'
  <2> SUFFICES ASSUME NEW v \in Workers, pass'[v].pc = "linked"
               PROVE  Linked(pass[v])' /\ v \in stale'
    BY DEF PassesLinked
  <2>1. v # w
    BY <1>6, <1>7
  <2>2. pass'[v] = pass[v]
    BY <1>7, <2>1
  <2>3. Linked(pass[v])
    BY <2>2 DEF StoryInv, PassesLinked
  <2> QED
    BY <1>3, <2>1, <2>2, <2>3 DEF Linked, Outdated
<1> QED
  BY <1>9, <1>10, <1>11 DEF StoryInv

(* Freezing the items keeps the inductive invariant.                       *)
LEMMA FreezeInv ==
    ASSUME StoryInv, NEW w \in Workers, Freeze(w)
    PROVE  StoryInv'
<1>0. pass \in [Workers -> Pass] /\ IdlePass \in Pass /\ digest \in [1 .. Windows -> DigestRow]
  BY TypeFacts DEF StoryInv, TypeOK
<1>1. PICK p \in Pass : p = pass[w]
  BY <1>0
<1>2. PICK n \in 1 .. Windows : n = p.window
  BY DEF Pass
<1>3. PICK items \in SUBSET p.stories :
         digest' = IF digest[n].frozen THEN digest
                   ELSE [digest EXCEPT ![n] = [digest[n] EXCEPT !.frozen = TRUE, !.items = items]]
  BY <1>1, <1>2 DEF Freeze
<1>4. digest' \in [1 .. Windows -> DigestRow]
  <2>1. items \in SUBSET Ids /\ digest[n] \in DigestRow
    BY <1>0 DEF Pass
  <2>2. [digest[n] EXCEPT !.frozen = TRUE, !.items = items] \in DigestRow
    BY <2>1 DEF DigestRow
  <2> QED
    BY <1>0, <1>3, <2>2
<1>5. /\ UNCHANGED <<story, minted, stale, overlapped>> /\ p.pc = "persisted"
      /\ \A v \in Workers \ {w} : pass'[v] = pass[v]
      /\ pass'[w] = IdlePass \/ pass'[w] = [p EXCEPT !.pc = "frozen", !.stories = {}]
      /\ pass' = [v \in Workers |-> pass'[v]]
  BY <1>0, <1>1 DEF Freeze
<1>6. pass'[w] \in Pass /\ pass'[w].pc \in {"idle", "frozen"}
  <2>1. IdlePass.pc = "idle"
    BY DEF IdlePass
  <2>2. [p EXCEPT !.pc = "frozen", !.stories = {}] \in Pass /\ [p EXCEPT !.pc = "frozen", !.stories = {}].pc = "frozen"
    BY DEF Pass
  <2> QED
    BY <1>0, <1>5, <2>1, <2>2
<1>7. pass' \in [Workers -> Pass]
  BY <1>0, <1>5, <1>6
<1>8. StoriesMinted' /\ PassesLinked'
  BY <1>5, <1>6, PassFrame
<1>9. stale' \in SUBSET {v \in Workers : pass'[v].pc = "linked"}
  BY <1>1, <1>5 DEF StoryInv, TypeOK
<1> QED
  BY <1>4, <1>5, <1>7, <1>8, <1>9 DEF StoryInv, TypeOK

(* A delivery keeps the inductive invariant.                               *)
LEMMA DeliverInv ==
    ASSUME StoryInv, NEW w \in Workers, Deliver(w)
    PROVE  StoryInv'
<1>0. /\ pass \in [Workers -> Pass] /\ IdlePass \in Pass /\ digest \in [1 .. Windows -> DigestRow]
      /\ story \in [Ids -> StoryRow] /\ IdlePass.pc = "idle" /\ Ids \subseteq Nat
  BY TypeFacts DEF StoryInv, TypeOK, IdlePass
<1>1. PICK n \in 1 .. Windows : n = pass[w].window
  BY <1>0 DEF Pass
<1>2. /\ story' = [s \in Ids |-> [story[s] EXCEPT !.delivered = @ \/ s \in digest[n].items]]
      /\ digest' = [digest EXCEPT ![n].delivered = TRUE]
      /\ pass' = [pass EXCEPT ![w] = IdlePass]
      /\ stale' = Outdated(w) /\ UNCHANGED <<minted, overlapped>>
  BY <1>1 DEF Deliver
<1>3. \A s \in Ids : /\ story'[s] \in StoryRow /\ story'[s].born = story[s].born
                     /\ story'[s].into = story[s].into /\ story'[s].clusters = story[s].clusters
  <2> TAKE s \in Ids
  <2>1. story[s] \in StoryRow
    BY <1>0
  <2>2. PICK d \in BOOLEAN : story'[s] = [story[s] EXCEPT !.delivered = d]
    BY <1>2, <2>1 DEF StoryRow
  <2> QED
    BY <2>1, <2>2 DEF StoryRow
<1>4. pass'[w] = IdlePass /\ pass' \in [Workers -> Pass] /\ \A v \in Workers \ {w} : pass'[v] = pass[v]
  BY <1>0, <1>2
<1>5. TypeOK'
  <2>1. digest' \in [1 .. Windows -> DigestRow]
    BY <1>0, <1>2 DEF DigestRow
  <2>2. stale' \in SUBSET {v \in Workers : pass'[v].pc = "linked"}
    BY <1>2, <1>4 DEF Outdated, StoryInv, TypeOK
  <2>3. story' \in [Ids -> StoryRow]
    BY <1>2, <1>3
  <2> QED
    BY <1>2, <1>3, <1>4, <2>1, <2>2, <2>3 DEF StoryInv, TypeOK
<1>6. StoriesMinted'
  <2> SUFFICES ASSUME NEW s \in Ids
               PROVE  /\ story'[s].born \/ story'[s].into # NoStory => s <= minted
                      /\ story'[s].into # NoStory => story'[s].into < s /\ story'[story'[s].into].born
    BY <1>2 DEF StoriesMinted
  <2>1. story[s].into # NoStory => story[s].into \in Ids
    BY <1>0 DEF StoryRow
  <2> QED
    BY <1>3, <2>1 DEF StoryInv, StoriesMinted
<1>7. PassesLinked'
  <2> SUFFICES ASSUME NEW v \in Workers, pass'[v].pc = "linked"
               PROVE  Linked(pass[v])' /\ v \in stale'
    BY DEF PassesLinked
  <2>1. v # w
    BY <1>0, <1>4
  <2>2. pass'[v] = pass[v]
    BY <1>4, <2>1
  <2>3. Linked(pass[v])
    BY <2>2 DEF StoryInv, PassesLinked
  <2> QED
    BY <1>2, <2>1, <2>2, <2>3 DEF Linked, Outdated
<1> QED
  BY <1>5, <1>6, <1>7 DEF StoryInv

(* A pass that fails keeps the inductive invariant.                        *)
LEMMA AbandonInv ==
    ASSUME StoryInv, NEW w \in Workers, Abandon(w)
    PROVE  StoryInv'
<1>0. pass \in [Workers -> Pass] /\ IdlePass \in Pass /\ IdlePass.pc = "idle"
  BY TypeFacts DEF StoryInv, IdlePass
<1>1. /\ UNCHANGED <<story, minted, digest, overlapped>> /\ stale' = stale \ {w}
      /\ pass' \in [Workers -> Pass] /\ pass'[w] = IdlePass
      /\ \A v \in Workers \ {w} : pass'[v] = pass[v]
  BY <1>0 DEF Abandon
<1>2. StoriesMinted' /\ PassesLinked'
  BY <1>0, <1>1, PassFrame
<1>3. stale' \in SUBSET {v \in Workers : pass'[v].pc = "linked"}
  BY <1>1 DEF StoryInv, TypeOK
<1> QED
  BY <1>1, <1>2, <1>3 DEF StoryInv, TypeOK

(* Every step keeps the inductive invariant.                               *)
LEMMA NextStoryInv == StoryInv /\ [Next]_vars => StoryInv'
<1> SUFFICES ASSUME StoryInv, [Next]_vars PROVE StoryInv'
  OBVIOUS
<1>1. CASE UNCHANGED vars
  <2>1. StoriesMinted' /\ PassesLinked' /\ TypeOK'
    BY <1>1 DEF vars, StoryInv, StoriesMinted, PassesLinked, TypeOK, Linked, Agrees, PriorOf, Live
  <2> QED
    BY <2>1 DEF StoryInv
<1>2. CASE Next
  BY <1>2, LinkInv, PersistInv, FreezeInv, DeliverInv, AbandonInv DEF Next
<1> QED
  BY <1>1, <1>2

(* The inductive invariant holds in every reachable state.                 *)
LEMMA StoryInvCorrect == Spec => []StoryInv
BY InitStoryInv, NextStoryInv, PTL DEF Spec

(* Type correctness: the stories, the passes and the digests keep their    *)
(* types whatever partition the edges of a day lead to, and a tombstone    *)
(* has no members.                                                         *)
THEOREM TypeCorrect == Spec => []TypeOK
<1>1. StoryInv => TypeOK
  BY DEF StoryInv
<1> QED
  BY <1>1, StoryInvCorrect, PTL

-----------------------------------------------------------------------------
(* A live story after a recompute: one it claims, with its component, or   *)
(* one it leaves alone.                                                    *)
LEMMA LiveAfter ==
    ASSUME StoryInv, NEW p \in Pass, Linked(p), story' = Persisted(p), NEW s \in Ids, Live(s)'
    PROVE  \/ \E b : Upserted(p, s, b) /\ story'[s].clusters = b
           \/ LeftAlone(p, s) /\ story'[s] = story[s] /\ Live(s)
<1>0. story[s] \in StoryRow /\ Ids \subseteq Nat /\ NoStory \notin Ids
  BY TypeFacts DEF StoryInv
<1>1. ASSUME NEW b, Upserted(p, s, b) PROVE story'[s].clusters = b
  BY <1>0, <1>1 DEF Upserted, StoryRow
<1>2. ASSUME NEW b, Absorbed(p, s, b) PROVE FALSE
  <2>1. Claims(p)[b] \in Range(Claims(p))
    BY <1>2 DEF Absorbed, Range
  <2>2. Claims(p)[b] \in Ids
    BY <2>1, ClaimsMinted
  <2>3. story'[s].into = Claims(p)[b]
    BY <1>0, <1>2 DEF Absorbed, StoryRow
  <2> QED
    BY <1>0, <2>2, <2>3 DEF Live
<1>3. ASSUME LeftAlone(p, s) PROVE story'[s] = story[s] /\ Live(s)
  BY <1>3 DEF LeftAlone, Live
<1> QED
  BY <1>1, <1>2, <1>3, PersistedRow DEF Linked

(* A story that is left alone has none of the candidates.                  *)
LEMMA LeftApart ==
    ASSUME StoryInv, OneLiveStory, ~ overlapped, NEW p \in Pass, Linked(p), Agrees(p),
           NEW s \in Ids, LeftAlone(p, s), Live(s)
    PROVE  story[s].clusters \cap p.day.candidates = {}
<1> SUFFICES ASSUME NEW c \in p.day.candidates, c \in story[s].clusters PROVE FALSE
  OBVIOUS
<1>0. NoStory \notin Ids
  BY TypeFacts DEF StoryInv
<1>1. s \in PriorOf(c)
  BY DEF PriorOf
<1>2. p.prior[c] \in PriorOf(c)
  BY <1>1 DEF Agrees
<1>3. p.prior[c] = s
  BY <1>1, <1>2 DEF PriorOf, OneLiveStory
<1>4. PICK b \in DOMAIN Claims(p) : c \in b
  BY ClaimsSound DEF Partition, Linked
<1>5. s \in PriorIds(p, b)
  BY <1>0, <1>3, <1>4 DEF PriorIds
<1> QED
  BY <1>4, <1>5 DEF LeftAlone, Losers

(* A pass whose table is still the one it read leaves every cluster in one *)
(* live story.                                                             *)
LEMMA PersistKeepsOne ==
    ASSUME StoryInv, OneLiveStory, NEW w \in Workers, Persist(w)
    PROVE  OneLiveStory'
<1> SUFFICES ASSUME ~ overlapped', NEW s \in Ids, NEW t \in Ids, Live(s)', Live(t)', s # t
             PROVE  story'[s].clusters \cap story'[t].clusters = {}
  BY DEF OneLiveStory
<1>1. PICK p \in Pass : p = pass[w]
  BY TypeFacts DEF StoryInv
<1>2. story' = Persisted(p) /\ ~ overlapped /\ Linked(p) /\ Agrees(p)
  BY <1>1 DEF Persist, StoryInv, PassesLinked
<1>3. Partition(DOMAIN Claims(p), p.day.candidates)
  BY <1>2, ClaimsSound DEF Linked
<1>4. ASSUME NEW u \in Ids, NEW v \in Ids, NEW b, Upserted(p, u, b), story'[u].clusters = b,
             LeftAlone(p, v), story'[v] = story[v], Live(v)
      PROVE  story'[u].clusters \cap story'[v].clusters = {}
  <2>1. b \subseteq p.day.candidates
    BY <1>3, <1>4 DEF Upserted, Partition
  <2>2. story[v].clusters \cap p.day.candidates = {}
    BY <1>2, <1>4, LeftApart
  <2> QED
    BY <1>4, <2>1, <2>2
<1>5. CASE (\E b : Upserted(p, s, b) /\ story'[s].clusters = b) /\ (\E d : Upserted(p, t, d) /\ story'[t].clusters = d)
  <2>1. PICK b, d : /\ Upserted(p, s, b) /\ story'[s].clusters = b
                    /\ Upserted(p, t, d) /\ story'[t].clusters = d
    BY <1>5
  <2>2. b # d /\ b \in DOMAIN Claims(p) /\ d \in DOMAIN Claims(p)
    BY <2>1 DEF Upserted
  <2> QED
    BY <1>3, <2>1, <2>2 DEF Partition
<1>6. CASE LeftAlone(p, s) /\ story'[s] = story[s] /\ Live(s) /\ LeftAlone(p, t) /\ story'[t] = story[t] /\ Live(t)
  BY <1>2, <1>6 DEF OneLiveStory
<1>7. CASE (\E b : Upserted(p, s, b) /\ story'[s].clusters = b) /\ LeftAlone(p, t) /\ story'[t] = story[t] /\ Live(t)
  BY <1>4, <1>7
<1>8. CASE (\E b : Upserted(p, t, b) /\ story'[t].clusters = b) /\ LeftAlone(p, s) /\ story'[s] = story[s] /\ Live(s)
  BY <1>4, <1>8
<1>9. /\ \/ \E b : Upserted(p, s, b) /\ story'[s].clusters = b
         \/ LeftAlone(p, s) /\ story'[s] = story[s] /\ Live(s)
      /\ \/ \E b : Upserted(p, t, b) /\ story'[t].clusters = b
         \/ LeftAlone(p, t) /\ story'[t] = story[t] /\ Live(t)
  BY <1>2, LiveAfter
<1> QED
  BY <1>5, <1>6, <1>7, <1>8, <1>9

(* No cluster is a member of two live stories, however the edges and the   *)
(* candidates change from one recompute to the next, unless assignments    *)
(* that were linked from the same table were persisted over each other.    *)
THEOREM OneLiveStoryCorrect == Spec => []OneLiveStory
<1>1. Init => OneLiveStory
  BY DEF Init, OneLiveStory, Live, UnbornStory
<1>2. StoryInv /\ OneLiveStory /\ [Next]_vars => OneLiveStory'
  <2> SUFFICES ASSUME StoryInv, OneLiveStory, [Next]_vars PROVE OneLiveStory'
    OBVIOUS
  <2>1. CASE UNCHANGED <<story, overlapped>>
    BY <2>1 DEF OneLiveStory, Live
  <2>2. ASSUME NEW w \in Workers, Deliver(w) PROVE OneLiveStory'
    <3>1. story \in [Ids -> StoryRow] /\ overlapped' = overlapped
      BY <2>2, TypeFacts DEF StoryInv, Deliver
    <3>2. \A s \in Ids : /\ story'[s].born = story[s].born /\ story'[s].into = story[s].into
                         /\ story'[s].clusters = story[s].clusters
      BY <2>2, <3>1 DEF Deliver, StoryRow
    <3> QED
      BY <3>1, <3>2 DEF OneLiveStory, Live
  <2>3. ASSUME NEW w \in Workers, Link(w) \/ Freeze(w) \/ Abandon(w) PROVE OneLiveStory'
    BY <2>1, <2>3 DEF Link, Freeze, Abandon
  <2> QED
    BY <2>1, <2>2, <2>3, PersistKeepsOne DEF Next, vars
<1> QED
  BY <1>1, <1>2, InitStoryInv, NextStoryInv, PTL DEF Spec

(* A retro-merge keeps the oldest id: a story is forwarded to an older one *)
(* that exists, and stays forwarded unless assignments overlapped.         *)
THEOREM ForwardsToOlderCorrect == Spec => ForwardsToOlder
<1>1. StoryInv /\ [Next]_vars
      => [\A s \in Ids :
             /\ story'[s].into # NoStory => story'[s].into < s /\ story'[story'[s].into].born
             /\ story[s].into # NoStory /\ ~ overlapped' => story'[s].into # NoStory]_vars
  <2> SUFFICES ASSUME StoryInv, Next, NEW s \in Ids
               PROVE  /\ story'[s].into # NoStory => story'[s].into < s /\ story'[story'[s].into].born
                      /\ story[s].into # NoStory /\ ~ overlapped' => story'[s].into # NoStory
    OBVIOUS
  <2>1. story'[s].into # NoStory => story'[s].into < s /\ story'[story'[s].into].born
    BY NextStoryInv DEF StoryInv, StoriesMinted
  <2>2. ASSUME NEW w \in Workers, Persist(w), story[s].into # NoStory, ~ overlapped'
        PROVE  story'[s].into # NoStory
    <3>0. story[s] \in StoryRow /\ NoStory \notin Ids
      BY TypeFacts DEF StoryInv
    <3>1. PICK p \in Pass : p = pass[w]
      BY TypeFacts DEF StoryInv
    <3>2. story' = Persisted(p) /\ Linked(p) /\ Agrees(p)
      BY <2>2, <3>1 DEF Persist, StoryInv, PassesLinked
    <3>3. ASSUME NEW b, Upserted(p, s, b) PROVE FALSE
      <4>1. b \in DOMAIN Claims(p) /\ b \subseteq p.day.candidates /\ Claims(p)[b] = s
        BY <3>2, <3>3, ClaimsSound DEF Upserted, Linked, Partition
      <4>2. ~ (s > p.base)
        BY <2>2, <3>2 DEF Agrees
      <4>3. s \in PriorIds(p, b)
        BY <3>2, <4>1, <4>2, ClaimsSound DEF Linked
      <4>4. PICK c \in b : p.prior[c] = s
        BY <4>3 DEF PriorIds
      <4>5. s \in PriorOf(c)
        BY <3>0, <3>2, <4>1, <4>4 DEF Agrees
      <4> QED
        BY <2>2, <4>5 DEF PriorOf, Live
    <3>4. ASSUME NEW b, Absorbed(p, s, b) PROVE story'[s].into # NoStory
      <4>1. Claims(p)[b] \in Range(Claims(p))
        BY <3>4 DEF Absorbed, Range
      <4>2. Claims(p)[b] \in Ids
        BY <3>2, <4>1, ClaimsMinted
      <4> QED
        BY <3>0, <3>2, <3>4, <4>2 DEF Absorbed, StoryRow
    <3>5. ASSUME LeftAlone(p, s) PROVE story'[s].into # NoStory
      BY <2>2, <3>2, <3>5 DEF LeftAlone
    <3> QED
      BY <3>2, <3>3, <3>4, <3>5, PersistedRow DEF Linked
  <2>3. ASSUME NEW w \in Workers, Deliver(w) PROVE story'[s].into = story[s].into
    <3>1. story \in [Ids -> StoryRow]
      BY TypeFacts DEF StoryInv
    <3> QED
      BY <2>3, <3>1 DEF Deliver, StoryRow
  <2>4. ASSUME NEW w \in Workers, Link(w) \/ Freeze(w) \/ Abandon(w) PROVE story' = story
    BY <2>4 DEF Link, Freeze, Abandon
  <2> QED
    BY <2>1, <2>2, <2>3, <2>4 DEF Next
<1> QED
  BY <1>1, InitStoryInv, NextStoryInv, PTL DEF Spec, ForwardsToOlder

-----------------------------------------------------------------------------
(* Two stories that a recompute merges have clusters in one component.     *)
LEMMA MergedShareBlock ==
    ASSUME StoryInv, NEW p \in Pass, Linked(p), story' = Persisted(p),
           NEW s \in Ids, NEW t \in Ids, s # t, Live(s), Live(t),
           \/ story'[s].into = t \/ story'[t].into = s
           \/ story'[s].into = story'[t].into /\ story'[s].into # NoStory
    PROVE  \E b \in Components(p) : s \in PriorIds(p, b) /\ t \in PriorIds(p, b)
<1>0. story \in [Ids -> StoryRow] /\ NoStory \notin Ids /\ PriorKnown(p) /\ DOMAIN Claims(p) = Components(p)
  BY TypeFacts, ClaimsSound DEF StoryInv, Linked
<1>1. ASSUME NEW u \in Ids, Live(u), story'[u].into # NoStory
      PROVE  \E b \in Components(p) : /\ u \in PriorIds(p, b) /\ Claims(p)[b] = story'[u].into
                                      /\ Claims(p)[b] \in PriorIds(p, b)
  <2>1. \A b : ~ Upserted(p, u, b)
    BY <1>0, <1>1 DEF Upserted, StoryRow
  <2>2. ~ LeftAlone(p, u)
    BY <1>1 DEF LeftAlone, Live
  <2>3. PICK b : Absorbed(p, u, b)
    BY <1>0, <2>1, <2>2, PersistedRow
  <2>4. b \in Components(p) /\ u \in PriorIds(p, b) /\ Claims(p)[b] \in PriorIds(p, b)
    BY <1>0, <2>3, ClaimsSound DEF Absorbed, Losers
  <2>5. story'[u].into = Claims(p)[b]
    BY <1>0, <2>3 DEF Absorbed, StoryRow
  <2> QED
    BY <2>4, <2>5
<1>2. CASE story'[s].into = t
  BY <1>0, <1>1, <1>2
<1>3. CASE story'[t].into = s
  BY <1>0, <1>1, <1>3
<1>4. CASE story'[s].into = story'[t].into /\ story'[s].into # NoStory
  <2>1. PICK b \in Components(p) : s \in PriorIds(p, b) /\ Claims(p)[b] = story'[s].into
    BY <1>1, <1>4
  <2>2. PICK d \in Components(p) : t \in PriorIds(p, d) /\ Claims(p)[d] = story'[t].into
    BY <1>1, <1>4
  <2>3. b = d
    BY <1>0, <1>4, <2>1, <2>2, ClaimsSound
  <2> QED
    BY <2>1, <2>2, <2>3
<1> QED
  BY <1>2, <1>3, <1>4

(* Strong edges, and clusters of one delivered story, lead from a cluster  *)
(* of a component to every other whose story is delivered.                 *)
LEMMA BlockReaches ==
    ASSUME NEW p \in Pass, NEW b \in Components(p), NEW s \in p.delivered, NEW t \in p.delivered,
           s \in PriorIds(p, b), t \in PriorIds(p, b), NEW from, NEW to,
           \A c \in p.day.candidates : (p.prior[c] = s => c \in from) /\ (p.prior[c] = t => c \in to)
    PROVE  Reaches(p, from, to)
<1>1. PICK c \in b, d \in b : p.prior[c] = s /\ p.prior[d] = t
  BY DEF PriorIds
<1>2. b \subseteq p.day.candidates
  BY ComponentsGood DEF GoodParts, Partition
<1>3. c \in b \cap Delivered(p) /\ d \in b \cap Delivered(p) /\ c \in from /\ d \in to
  BY <1>1, <1>2 DEF Delivered
<1>4. ASSUME NEW C \in SUBSET p.day.candidates,
             from \cap p.day.candidates \subseteq C,
             \A e \in Range(p.day.strong) : e[1] \in C <=> e[2] \in C,
             \A i, j \in p.day.candidates :
                 p.prior[i] = p.prior[j] /\ p.prior[i] \in p.delivered => (i \in C <=> j \in C)
      PROVE  C \cap to # {}
  <2>1. C \in Closed(p)
    BY <1>4 DEF Closed
  <2>2. b \cap Delivered(p) \subseteq C \/ b \cap Delivered(p) \cap C = {}
    BY <2>1, ComponentsGood DEF GoodParts
  <2>3. c \in C
    BY <1>2, <1>3, <1>4
  <2>4. d \in C
    BY <1>3, <2>2, <2>3
  <2> QED
    BY <1>3, <2>4
<1> QED
  BY <1>4 DEF Reaches

(* The asymmetric guard: two delivered stories end in one only if strong   *)
(* edges, and clusters that already were of one delivered story, lead from *)
(* one to the other; weak edges alone never merge them.                    *)
THEOREM WeakNeverMergesDeliveredCorrect == Spec => WeakNeverMergesDelivered
<1>1. StoryInv /\ [Next]_vars
      => [\A w \in Workers : \A s, t \in Ids :
             MergedBy(w, s, t) /\ story[s].delivered /\ story[t].delivered /\ ~ overlapped'
             => Reaches(pass[w], story[s].clusters, story[t].clusters)]_vars
  <2> SUFFICES ASSUME StoryInv, Next, NEW w \in Workers, NEW s \in Ids, NEW t \in Ids,
                      MergedBy(w, s, t), story[s].delivered, story[t].delivered, ~ overlapped'
               PROVE  Reaches(pass[w], story[s].clusters, story[t].clusters)
    OBVIOUS
  <2>1. PICK p \in Pass : p = pass[w]
    BY TypeFacts DEF StoryInv
  <2>2. Persist(w)
    <3>1. pass \in [Workers -> Pass] /\ IdlePass.pc = "idle" /\ p.pc = "linked" /\ pass'[w].pc = "persisted"
      BY <2>1, TypeFacts DEF StoryInv, MergedBy, IdlePass
    <3>2. PICK v \in Workers : Link(v) \/ Persist(v) \/ Freeze(v) \/ Deliver(v) \/ Abandon(v)
      BY DEF Next
    <3>3. CASE v # w
      <4>1. pass'[w] = pass[w]
        BY <3>1, <3>2, <3>3 DEF Link, Persist, Freeze, Deliver, Abandon
      <4> QED
        BY <2>1, <3>1, <4>1
    <3>4. CASE v = w
      <4>1. ~ Link(w) /\ ~ Freeze(w) /\ ~ Deliver(w)
        BY <2>1, <3>1 DEF Link, Freeze, Deliver
      <4>2. ~ Abandon(w)
        BY <3>1 DEF Abandon
      <4> QED
        BY <3>2, <3>4, <4>1, <4>2
    <3> QED
      BY <3>3, <3>4
  <2>3. story' = Persisted(p) /\ Linked(p) /\ Agrees(p)
    BY <2>1, <2>2 DEF Persist, StoryInv, PassesLinked
  <2>4. s \in p.delivered /\ t \in p.delivered /\ s # t /\ Live(s) /\ Live(t)
    BY <2>3 DEF MergedBy, Agrees
  <2>5. PICK b \in Components(p) : s \in PriorIds(p, b) /\ t \in PriorIds(p, b)
    BY <2>3, <2>4, MergedShareBlock DEF MergedBy
  <2>6. ASSUME NEW c \in p.day.candidates
        PROVE  /\ p.prior[c] = s => c \in story[s].clusters
               /\ p.prior[c] = t => c \in story[t].clusters
    <3>1. NoStory \notin Ids
      BY TypeFacts DEF StoryInv
    <3> QED
      BY <2>3, <3>1 DEF Agrees, PriorOf
  <2>7. Reaches(p, story[s].clusters, story[t].clusters)
    BY <2>4, <2>5, <2>6, BlockReaches
  <2> QED
    BY <2>1, <2>7
<1> QED
  BY <1>1, InitStoryInv, NextStoryInv, PTL DEF Spec, WeakNeverMergesDelivered

=============================================================================

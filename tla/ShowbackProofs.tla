--------------------------- MODULE ShowbackProofs ---------------------------
(***************************************************************************)
(* What the accrual and the report keep, for any number of jobs, names,    *)
(* tiers and periods: the lines of a month's hash and the bills agree, the *)
(* report adds up, the hash stays within its cap, and a spent quota is     *)
(* refused.                                                                *)
(***************************************************************************)
EXTENDS Showback, FiniteSetTheorems, WellFoundedInduction, TLAPS

-----------------------------------------------------------------------------
(* Sums.  MapThenSumSet is defined by recursion over the set; its value is  *)
(* the size of a heap with f[x] pieces for each x, which needs none.        *)

Heap(f, S) == {c \in S \X Nat : c[2] \in 1 .. f[c[1]]}
Weight(f, S) == Cardinality(Heap(f, S))

Counts(f, S) == IsFiniteSet(S) /\ \A x \in S : f[x] \in Nat

LEMMA HeapFinite ==
  ASSUME NEW f, NEW S, Counts(f, S)
  PROVE  IsFiniteSet(Heap(f, S)) /\ Weight(f, S) \in Nat
<1> DEFINE Pile(x) == {x} \X (1 .. f[x])
           P == {Pile(x) : x \in S}
           pile == [x \in S |-> Pile(x)]
<1>1. \A x \in S : IsFiniteSet(Pile(x))
  <2> SUFFICES ASSUME NEW x \in S PROVE IsFiniteSet(Pile(x))
    OBVIOUS
  <2>1. f[x] \in Int /\ 1 \in Int
    BY DEF Counts
  <2>2. IsFiniteSet({x}) /\ IsFiniteSet(1 .. f[x])
    BY <2>1, FS_Singleton, FS_Interval
  <2> QED
    BY <2>2, FS_Product
<1>2. pile \in Surjection(S, P)
  BY DEF Surjection
<1>3. IsFiniteSet(P)
  BY <1>2, FS_Surjection DEF Counts
<1>4. IsFiniteSet(UNION P)
  BY <1>1, <1>3, FS_UNION
<1>5. Heap(f, S) \subseteq UNION P
  <2> SUFFICES ASSUME NEW c \in Heap(f, S) PROVE c \in UNION P
    OBVIOUS
  <2>1. c \in S \X Nat /\ c[1] \in S /\ c[2] \in 1 .. f[c[1]]
    BY DEF Heap
  <2>2. c \in Pile(c[1])
    BY <2>1
  <2> QED
    BY <2>1, <2>2
<1> HIDE DEF P
<1> QED
  BY <1>4, <1>5, FS_Subset, FS_CardinalityType DEF Weight

LEMMA WeightEmpty ==
  ASSUME NEW f
  PROVE  Weight(f, {}) = 0
<1>1. Heap(f, {}) = {}
  BY DEF Heap
<1> QED
  BY <1>1, FS_EmptySet DEF Weight

LEMMA WeightSame ==
  ASSUME NEW f, NEW g, NEW S, \A x \in S : f[x] = g[x]
  PROVE  Weight(f, S) = Weight(g, S)
<1>1. Heap(f, S) = Heap(g, S)
  BY DEF Heap
<1> QED
  BY <1>1 DEF Weight

LEMMA WeightSplit ==
  ASSUME NEW f, NEW S, Counts(f, S), NEW x \in S
  PROVE  Weight(f, S) = f[x] + Weight(f, S \ {x})
<1> DEFINE Pile == {x} \X (1 .. f[x])
           Rest == Heap(f, S \ {x})
<1>1. f[x] \in Nat /\ Counts(f, S \ {x})
  BY FS_RemoveElement DEF Counts
<1>2. IsFiniteSet(Rest) /\ Cardinality(Rest) \in Nat
  BY <1>1, HeapFinite DEF Weight
<1>3. IsFiniteSet(Pile) /\ Cardinality(Pile) = f[x]
  <2>1. /\ IsFiniteSet({x}) /\ Cardinality({x}) = 1
        /\ IsFiniteSet(1 .. f[x]) /\ Cardinality(1 .. f[x]) = f[x]
    <3>1. f[x] \in Int /\ 1 \in Int
      BY <1>1
    <3>2. IsFiniteSet({x}) /\ Cardinality({x}) = 1
      BY FS_Singleton
    <3>3. /\ IsFiniteSet(1 .. f[x])
          /\ Cardinality(1 .. f[x]) = IF 1 > f[x] THEN 0 ELSE f[x] - 1 + 1
      BY <3>1, FS_Interval
    <3>4. Cardinality(1 .. f[x]) = f[x]
      BY <1>1, <3>3
    <3> QED
      BY <3>2, <3>3, <3>4
  <2>2. IsFiniteSet(Pile) /\ Cardinality(Pile) = 1 * f[x]
    BY <2>1, FS_Product
  <2> QED
    BY <1>1, <2>2
<1>4. Heap(f, S) = Pile \cup Rest
  <2>1. ASSUME NEW c \in Heap(f, S) PROVE c \in Pile \cup Rest
    BY <2>1 DEF Heap
  <2>2. ASSUME NEW c \in Pile PROVE c \in Heap(f, S)
    BY <1>1, <2>2 DEF Heap
  <2>3. ASSUME NEW c \in Rest PROVE c \in Heap(f, S)
    BY <2>3 DEF Heap
  <2> QED
    BY <2>1, <2>2, <2>3
<1>5. Pile \cap Rest = {}
  BY DEF Heap
<1>6. Cardinality(Pile \cap Rest) = 0
  BY <1>5, FS_EmptySet
<1> HIDE DEF Pile, Rest
<1>7. Cardinality(Pile \cup Rest) = Cardinality(Pile) + Cardinality(Rest) - 0
  BY <1>2, <1>3, <1>6, FS_Union
<1>8. Weight(f, S) = f[x] + Cardinality(Rest)
  BY <1>1, <1>2, <1>3, <1>4, <1>7 DEF Weight
<1> QED
  BY <1>8 DEF Weight, Rest

\* The equation of the recursive function inside MapThenSumSet.
Unroll(f, S, g) ==
  [s \in SUBSET S |->
     IF s = {} THEN 0
     ELSE f[CHOOSE x \in s : TRUE] + g[s \ {CHOOSE x \in s : TRUE}]]

LEMMA UnrollHas ==
  ASSUME NEW f, NEW S, Counts(f, S)
  PROVE  \E g : g = Unroll(f, S, g)
<1> DEFINE g == [s \in SUBSET S |-> Weight(f, s)]
<1>1. ASSUME NEW s \in SUBSET S, s # {}
      PROVE  g[s] = f[CHOOSE x \in s : TRUE] + g[s \ {CHOOSE x \in s : TRUE}]
  <2>1. (CHOOSE x \in s : TRUE) \in s
    BY <1>1
  <2>2. Counts(f, s)
    BY FS_Subset DEF Counts
  <2>3. ASSUME NEW y \in s PROVE Weight(f, s) = f[y] + Weight(f, s \ {y})
    BY <2>2, WeightSplit
  <2>4. ASSUME NEW y \in s PROVE s \ {y} \in SUBSET S
    OBVIOUS
  <2> QED
    BY <2>1, <2>3, <2>4
<1>2. ASSUME NEW s \in SUBSET S, s = {} PROVE g[s] = 0
  BY <1>2, WeightEmpty
<1>3. g = Unroll(f, S, g)
  BY <1>1, <1>2 DEF Unroll
<1> QED
  BY <1>3

LEMMA UnrollIs ==
  ASSUME NEW f, NEW S, Counts(f, S), NEW g, g = Unroll(f, S, g)
  PROVE  g[S] = Weight(f, S)
<1> DEFINE Bad == {s \in SUBSET S : g[s] # Weight(f, s)}
<1>1. Bad \subseteq FiniteSubsetsOf(S)
  BY FS_Subset DEF FiniteSubsetsOf, Counts
<1>2. ASSUME Bad # {} PROVE FALSE
  <2>1. PICK s \in Bad : \A t \in Bad : ~ (<<t, s>> \in StrictSubsetOrdering(S))
    BY <1>1, <1>2, FS_StrictSubsetOrderingWellFounded, WFMin
  <2>2. s \in SUBSET S /\ g[s] # Weight(f, s)
    OBVIOUS
  <2>3. s # {}
    <3>1. {} \in SUBSET S
      OBVIOUS
    <3>2. Unroll(f, S, g)[{}] = 0
      BY <3>1 DEF Unroll
    <3> QED
      BY <2>2, <3>2, WeightEmpty
  <2> DEFINE x == CHOOSE y \in s : TRUE
             t == s \ {x}
  <2>4. x \in s /\ t \in SUBSET S
    BY <2>2, <2>3
  <2>5. g[s] = f[x] + g[t]
    <3>1. Unroll(f, S, g)[s] = f[x] + g[t]
      BY <2>2, <2>3 DEF Unroll
    <3> QED
      BY <3>1
  <2>6. <<t, s>> \in StrictSubsetOrdering(S)
    BY <2>2, <2>4 DEF StrictSubsetOrdering
  <2>7. g[t] = Weight(f, t)
    BY <2>1, <2>4, <2>6
  <2>8. Counts(f, s)
    BY <2>2, FS_Subset DEF Counts
  <2>9. Weight(f, s) = f[x] + Weight(f, t)
    <3>1. ASSUME NEW y \in s PROVE Weight(f, s) = f[y] + Weight(f, s \ {y})
      BY <2>8, WeightSplit
    <3>2. x \in s
      BY <2>4
    <3> QED
      BY <3>1, <3>2
  <2> QED
    BY <2>2, <2>5, <2>7, <2>9
<1> QED
  BY <1>2

LEMMA SumIsWeight ==
  ASSUME NEW f, NEW S, Counts(f, S)
  PROVE  (CHOOSE g : g = Unroll(f, S, g))[S] = Weight(f, S)
<1> DEFINE h == CHOOSE g : g = Unroll(f, S, g)
<1>1. h = Unroll(f, S, h)
  BY UnrollHas
<1> HIDE DEF h
<1>2. h[S] = Weight(f, S)
  BY <1>1, UnrollIs
<1> QED
  BY <1>2 DEF h

\* Growing one of the numbers, or adding it, grows the sum by as much.
Bumps(f, g, S, x, s) ==
  /\ \A y \in S : y # x => g[y] = f[y]
  /\ g[x] = (IF x \in S THEN f[x] ELSE 0) + s

LEMMA WeightBump ==
  ASSUME NEW f, NEW g, NEW S, NEW x, NEW s \in Nat, Counts(f, S),
         Bumps(f, g, S, x, s)
  PROVE  Counts(g, S \cup {x}) /\ Weight(g, S \cup {x}) = Weight(f, S) + s
<1> USE DEF Bumps
<1> DEFINE R == S \ {x}
<1>1. Counts(f, R) /\ Counts(g, S \cup {x})
  <2>1. IsFiniteSet(R) /\ IsFiniteSet(S \cup {x})
    BY FS_RemoveElement, FS_AddElement DEF Counts
  <2> QED
    BY <2>1 DEF Counts
<1>2. Weight(g, S \cup {x}) = g[x] + Weight(g, R)
  <2>1. (S \cup {x}) \ {x} = R /\ x \in S \cup {x}
    OBVIOUS
  <2>2. \A y \in S \cup {x} :
          Weight(g, S \cup {x}) = g[y] + Weight(g, (S \cup {x}) \ {y})
    BY <1>1, WeightSplit
  <2> QED
    BY <2>1, <2>2
<1>3. Weight(g, R) = Weight(f, R) /\ Weight(f, R) \in Nat
  BY <1>1, WeightSame, HeapFinite
<1>4. CASE x \in S
  <2>1. Weight(f, S) = f[x] + Weight(f, R) /\ f[x] \in Nat
    BY <1>4, WeightSplit DEF Counts
  <2> HIDE DEF R
  <2> QED
    BY <1>1, <1>2, <1>3, <1>4, <2>1
<1>5. CASE x \notin S
  <2>1. R = S
    BY <1>5
  <2> HIDE DEF R
  <2> QED
    BY <1>1, <1>2, <1>3, <1>5, <2>1
<1> QED
  BY <1>4, <1>5

LEMMA WeightSubset ==
  ASSUME NEW f, NEW S, Counts(f, S), NEW T, T \subseteq S
  PROVE  Counts(f, T) /\ Weight(f, T) <= Weight(f, S)
<1>1. Counts(f, T)
  BY FS_Subset DEF Counts
<1>2. Heap(f, T) \subseteq Heap(f, S)
  BY DEF Heap
<1> QED
  BY <1>1, <1>2, HeapFinite, FS_Subset DEF Weight

-----------------------------------------------------------------------------
(* The sums of the module *)

Seconds == [b \in Bill |-> b.seconds]

LEMMA SecondsCount ==
  ASSUME NEW S, S \subseteq Bill, IsFiniteSet(S)
  PROVE  Counts(Seconds, S)
<1>1. MaxNow \in Nat
  BY NumbersAssumption
<1>2. \A b \in S : b.seconds \in 0 .. MaxNow /\ Seconds[b] = b.seconds
  BY DEF Seconds, Bill
<1> QED
  BY <1>1, <1>2 DEF Counts

LEMMA SumOfIsWeight ==
  ASSUME NEW S, S \subseteq Bill, IsFiniteSet(S)
  PROVE  SumOf(S) = Weight(Seconds, S)
<1> DEFINE U(g) == [s \in SUBSET S |->
                      IF s = {} THEN 0
                      ELSE (CHOOSE x \in s : TRUE).seconds
                             + g[s \ {CHOOSE x \in s : TRUE}]]
           h == CHOOSE g : g = U(g)
<1>1. SumOf(S) = h[S]
  BY Zenon DEF SumOf, MapThenSumSet, MapThenFoldSet
<1>2. ASSUME NEW g PROVE U(g) = Unroll(Seconds, S, g)
  <2>1. ASSUME NEW s \in SUBSET S, s # {}
        PROVE  (CHOOSE x \in s : TRUE).seconds = Seconds[CHOOSE x \in s : TRUE]
    <3>1. (CHOOSE x \in s : TRUE) \in Bill
      BY <2>1
    <3> QED
      BY <3>1 DEF Seconds
  <2> QED
    BY <2>1 DEF Unroll
<1> HIDE DEF U
<1>3. Counts(Seconds, S)
  BY SecondsCount
<1>4. PICK g : g = Unroll(Seconds, S, g)
  BY <1>3, UnrollHas
<1>5. g = U(g)
  BY <1>2, <1>4
<1>6. h = U(h)
  BY <1>5
<1> HIDE DEF h
<1>7. h = Unroll(Seconds, S, h)
  BY <1>2, <1>6
<1> QED
  BY <1>1, <1>3, <1>7, UnrollIs

\* One bill more.
LEMMA SumOfBump ==
  ASSUME NEW S, S \subseteq Bill, IsFiniteSet(S), NEW b \in Bill, b \notin S
  PROVE  /\ SumOf(S) \in Nat
         /\ SumOf(S \cup {b}) = SumOf(S) + b.seconds
<1>1. S \cup {b} \subseteq Bill /\ IsFiniteSet(S \cup {b})
  BY FS_AddElement
<1>2. /\ b.seconds \in Nat /\ Seconds[b] = b.seconds
      /\ Seconds[b] = (IF b \in S THEN Seconds[b] ELSE 0) + b.seconds
  BY NumbersAssumption DEF Bill, Seconds
<1>3. Counts(Seconds, S)
  BY SecondsCount
<1>4. Weight(Seconds, S \cup {b}) = Weight(Seconds, S) + b.seconds
  <2>1. PICK n \in Nat : n = b.seconds
    BY <1>2
  <2>2. Seconds[b] = (IF b \in S THEN Seconds[b] ELSE 0) + n
    BY <1>2, <2>1
  <2>3. Bumps(Seconds, Seconds, S, b, n)
    BY <2>2 DEF Bumps
  <2>4. Weight(Seconds, S \cup {b}) = Weight(Seconds, S) + n
    BY <1>3, <2>3, WeightBump
  <2> QED
    BY <2>1, <2>4
<1> QED
  BY <1>1, <1>3, <1>4, HeapFinite, SumOfIsWeight

LEMMA SumOfSubset ==
  ASSUME NEW S, S \subseteq Bill, IsFiniteSet(S), NEW T, T \subseteq S
  PROVE  SumOf(T) \in Nat /\ SumOf(S) \in Nat /\ SumOf(T) <= SumOf(S)
<1>1. T \subseteq Bill /\ IsFiniteSet(T)
  BY FS_Subset
<1>2. Counts(Seconds, S) /\ Counts(Seconds, T)
  BY <1>1, SecondsCount
<1> QED
  BY <1>1, <1>2, HeapFinite, WeightSubset, SumOfIsWeight

LEMMA SumOfNone == SumOf({}) = 0
BY FS_EmptySet, SumOfIsWeight, WeightEmpty

IsHash(b) ==
  /\ IsFiniteSet(DOMAIN b)
  /\ DOMAIN b \subseteq Fields
  /\ b = [f \in DOMAIN b |-> b[f]]
  /\ \A f \in DOMAIN b : b[f] \in Nat

OfKind(b, kind) == {f \in DOMAIN b : f.kind = kind}

LEMMA KindCounts ==
  ASSUME NEW b, IsHash(b), NEW kind
  PROVE  Counts(b, OfKind(b, kind))
BY FS_Subset DEF IsHash, Counts, OfKind

LEMMA UserSecondsIs ==
  ASSUME NEW p, IsHash(bucket[p])
  PROVE  UserSeconds(p) = Weight(bucket[p], OfKind(bucket[p], "user"))
<1> DEFINE U == OfKind(bucket[p], "user")
<1>1. UserSeconds(p) = (CHOOSE g : g = Unroll(bucket[p], U, g))[U]
  BY Zenon DEF UserSeconds, MapThenSumSet, MapThenFoldSet, Unroll, OfKind
<1> HIDE DEF U
<1>2. UserSeconds(p) = Weight(bucket[p], U)
  BY <1>1, KindCounts, SumIsWeight DEF U
<1> QED
  BY <1>2 DEF U

LEMMA UserSecondsNext ==
  ASSUME NEW p, IsHash(bucket'[p])
  PROVE  UserSeconds(p)' = Weight(bucket'[p], OfKind(bucket'[p], "user"))
<1> DEFINE U == OfKind(bucket'[p], "user")
<1>1. UserSeconds(p)' = (CHOOSE g : g = Unroll(bucket'[p], U, g))[U]
  BY Zenon DEF UserSeconds, MapThenSumSet, MapThenFoldSet, Unroll, OfKind
<1> HIDE DEF U
<1>2. UserSeconds(p)' = Weight(bucket'[p], U)
  BY <1>1, KindCounts, SumIsWeight DEF U
<1> QED
  BY <1>2 DEF U

LEMMA TierSecondsIs ==
  ASSUME NEW p, IsHash(bucket[p])
  PROVE  TierSeconds(p) = Weight(bucket[p], OfKind(bucket[p], "tier"))
<1> DEFINE U == OfKind(bucket[p], "tier")
<1>1. TierSeconds(p) = (CHOOSE g : g = Unroll(bucket[p], U, g))[U]
  BY Zenon DEF TierSeconds, MapThenSumSet, MapThenFoldSet, Unroll, OfKind
<1> HIDE DEF U
<1>2. TierSeconds(p) = Weight(bucket[p], U)
  BY <1>1, KindCounts, SumIsWeight DEF U
<1> QED
  BY <1>2 DEF U

LEMMA TierSecondsNext ==
  ASSUME NEW p, IsHash(bucket'[p])
  PROVE  TierSeconds(p)' = Weight(bucket'[p], OfKind(bucket'[p], "tier"))
<1> DEFINE U == OfKind(bucket'[p], "tier")
<1>1. TierSeconds(p)' = (CHOOSE g : g = Unroll(bucket'[p], U, g))[U]
  BY Zenon DEF TierSeconds, MapThenSumSet, MapThenFoldSet, Unroll, OfKind
<1> HIDE DEF U
<1>2. TierSeconds(p)' = Weight(bucket'[p], U)
  BY <1>1, KindCounts, SumIsWeight DEF U
<1> QED
  BY <1>2 DEF U

-----------------------------------------------------------------------------
(* The script *)

Held(b, f) == IF f \in DOMAIN b THEN b[f] ELSE 0

\* Where a bill's seconds go, besides their slice by tier.
Money == {UserField(n) : n \in Names}
           \cup {ANONYMOUS_FIELD, EXCLUDED_FIELD, OTHER_FIELD}

LEMMA MoneyKinds ==
  /\ Money \subseteq Fields /\ JOBS_FIELD \in Fields
  /\ \A f \in Money : f.kind \in {"user", "anonymous", "excluded", "other"}
  /\ ANONYMOUS_FIELD.kind = "anonymous" /\ EXCLUDED_FIELD.kind = "excluded"
  /\ OTHER_FIELD.kind = "other" /\ JOBS_FIELD.kind = "jobs"
  /\ \A n : UserField(n).kind = "user" /\ UserField(n).name = n
  /\ \A t : TierField(t).kind = "tier" /\ TierField(t).name = t
BY DEF Money, Fields, Field, UserField, TierField, ANONYMOUS_FIELD,
       EXCLUDED_FIELD, OTHER_FIELD, JOBS_FIELD

LEMMA KindIsMoney ==
  ASSUME NEW f \in Fields
  PROVE  /\ f.kind \in {"user", "anonymous", "excluded", "other", "tier", "jobs"}
         /\ f.kind = "user" => f \in {UserField(n) : n \in Names}
         /\ f.kind = "tier" => f \in {TierField(t) : t \in Tiers}
BY DEF Money, Fields, Field, UserField, TierField, ANONYMOUS_FIELD,
       EXCLUDED_FIELD, OTHER_FIELD, JOBS_FIELD

LEMMA HeldIsNat ==
  ASSUME NEW b, IsHash(b), NEW f
  PROVE  Held(b, f) \in Nat
BY DEF IsHash, Held

\* HINCRBYFLOAT adds to one field and to the sum of the fields of its kind.
IncrDone(b, x, n, c) ==
  /\ IsHash(c)
  /\ DOMAIN c = DOMAIN b \cup {x}
  /\ \A f : f # x => Held(c, f) = Held(b, f)
  /\ Held(c, x) = Held(b, x) + n
  /\ \A k : OfKind(c, k) = OfKind(b, k) \cup (IF x.kind = k THEN {x} ELSE {})

LEMMA IncrDoes ==
  ASSUME NEW b, IsHash(b), NEW x \in Fields, NEW n \in Nat,
         NEW c, c = Incr(b, x, n)
  PROVE  IncrDone(b, x, n, c)
<1>1. /\ c = [f \in DOMAIN b \cup {x} |->
                (IF f \in DOMAIN b THEN b[f] ELSE 0) + (IF f = x THEN n ELSE 0)]
      /\ DOMAIN c = DOMAIN b \cup {x}
  BY DEF Incr
<1>2. \A f \in DOMAIN c : c[f] \in Nat
  BY <1>1 DEF IsHash
<1>3. \A f \in DOMAIN b : f # x => c[f] = b[f]
  BY <1>1 DEF IsHash
<1>4. c[x] = Held(b, x) + n
  BY <1>1 DEF Held
<1>5. c = [f \in DOMAIN c |-> c[f]]
  BY <1>1
<1>6. IsFiniteSet(DOMAIN c) /\ DOMAIN c \subseteq Fields
  BY <1>1, FS_AddElement DEF IsHash
<1>7. IsHash(c)
  BY <1>2, <1>5, <1>6 DEF IsHash
<1>8. /\ \A f : f # x => Held(c, f) = Held(b, f)
      /\ Held(c, x) = Held(b, x) + n
  BY <1>1, <1>3, <1>4 DEF Held
<1>9. \A k : OfKind(c, k) = OfKind(b, k) \cup (IF x.kind = k THEN {x} ELSE {})
  BY <1>1 DEF OfKind
<1> QED
  BY <1>1, <1>7, <1>8, <1>9 DEF IncrDone

LEMMA IncrWeighs ==
  ASSUME NEW b, IsHash(b), NEW x \in Fields, NEW n \in Nat, NEW k,
         NEW c, c = Incr(b, x, n)
  PROVE  /\ Weight(b, OfKind(b, k)) \in Nat
         /\ Weight(c, OfKind(c, k))
              = Weight(b, OfKind(b, k)) + (IF x.kind = k THEN n ELSE 0)
<1>1. /\ IsHash(c)
      /\ DOMAIN c = DOMAIN b \cup {x}
      /\ \A f : f # x => Held(c, f) = Held(b, f)
      /\ Held(c, x) = Held(b, x) + n
      /\ OfKind(c, k) = OfKind(b, k) \cup (IF x.kind = k THEN {x} ELSE {})
  <2>1. IncrDone(b, x, n, c)
    BY IncrDoes
  <2> QED
    BY <2>1 DEF IncrDone
<1>2. Counts(b, OfKind(b, k)) /\ Weight(b, OfKind(b, k)) \in Nat
  BY KindCounts, HeapFinite
<1>3. \A f \in OfKind(b, k) : f # x => c[f] = b[f]
  BY <1>1 DEF OfKind, Held
<1>4. CASE x.kind = k
  <2>1. c[x] = (IF x \in OfKind(b, k) THEN b[x] ELSE 0) + n
    BY <1>1, <1>4 DEF OfKind, Held
  <2> DEFINE S == OfKind(b, k)
  <2> HIDE DEF S
  <2>2. Weight(c, S \cup {x}) = Weight(b, S) + n
    <3>1. Counts(b, S) /\ Bumps(b, c, S, x, n)
      BY <1>2, <1>3, <2>1 DEF S, Bumps
    <3> QED
      BY <3>1, WeightBump
  <2> QED
    BY <1>1, <1>2, <1>4, <2>2 DEF S
<1>5. CASE x.kind # k
  <2>1. OfKind(c, k) = OfKind(b, k) /\ x \notin OfKind(b, k)
    BY <1>1, <1>5 DEF OfKind
  <2>2. Weight(c, OfKind(b, k)) = Weight(b, OfKind(b, k))
    BY <1>3, <2>1, WeightSame
  <2> QED
    BY <1>2, <1>5, <2>1, <2>2
<1> QED
  BY <1>4, <1>5

\* What one booking does to a period's hash.
BookDone(b, c, line, s, jobs) ==
  /\ IsHash(c)
  /\ \A f \in Money : Held(c, f) = Held(b, f) + (IF f = line THEN s ELSE 0)
  /\ Held(c, JOBS_FIELD) = Held(b, JOBS_FIELD) + jobs
  /\ Weight(c, OfKind(c, "user"))
       = Weight(b, OfKind(b, "user")) + (IF line.kind = "user" THEN s ELSE 0)
  /\ Weight(c, OfKind(c, "tier")) <= Weight(b, OfKind(b, "tier")) + s
  /\ OfKind(c, "user")
       = OfKind(b, "user") \cup (IF line.kind = "user" THEN {line} ELSE {})

LEMMA BookDoes ==
  ASSUME NEW b, IsHash(b), NEW j, NEW destination, NEW s \in Nat,
         Line(j, destination, b) \in Money, tier[j] \in Tiers \cup {NoName}
  PROVE  BookDone(b, Book(b, j, destination, s), Line(j, destination, b), s,
                  IF destination = "submitter" THEN 1 ELSE 0)
<1> DEFINE line == Line(j, destination, b)
           c1 == Incr(b, line, s)
           c2 == IF destination = "submitter" THEN Incr(c1, JOBS_FIELD, 1) ELSE c1
           c3 == IF tier[j] # NoName THEN Incr(c2, TierField(tier[j]), s) ELSE c2
           jobs == IF destination = "submitter" THEN 1 ELSE 0
<1>1. Book(b, j, destination, s) = c3
  BY DEF Book
<1>2. line \in Money /\ line \in Fields /\ line.kind \notin {"tier", "jobs"}
  BY MoneyKinds
<1> HIDE DEF line
<1>n. /\ \A f : Held(b, f) \in Nat
      /\ Weight(b, OfKind(b, "user")) \in Nat
      /\ Weight(b, OfKind(b, "tier")) \in Nat
  BY <1>2, HeldIsNat, IncrWeighs
<1>i. c1 = Incr(b, line, s)
  OBVIOUS
<1> HIDE DEF c1
<1>3. /\ IsHash(c1)
      /\ \A f \in Money : Held(c1, f) = Held(b, f) + (IF f = line THEN s ELSE 0)
      /\ Held(c1, JOBS_FIELD) = Held(b, JOBS_FIELD)
      /\ Weight(c1, OfKind(c1, "user"))
           = Weight(b, OfKind(b, "user")) + (IF line.kind = "user" THEN s ELSE 0)
      /\ Weight(c1, OfKind(c1, "tier")) = Weight(b, OfKind(b, "tier"))
      /\ OfKind(c1, "user")
           = OfKind(b, "user") \cup (IF line.kind = "user" THEN {line} ELSE {})
  <2>1. /\ IsHash(c1)
        /\ \A f : f # line => Held(c1, f) = Held(b, f)
        /\ Held(c1, line) = Held(b, line) + s
        /\ OfKind(c1, "user")
             = OfKind(b, "user") \cup (IF line.kind = "user" THEN {line} ELSE {})
    <3>1. IncrDone(b, line, s, c1)
      BY <1>2, <1>i, IncrDoes
    <3> QED
      BY <3>1 DEF IncrDone
  <2>2. /\ Weight(c1, OfKind(c1, "user"))
             = Weight(b, OfKind(b, "user")) + (IF line.kind = "user" THEN s ELSE 0)
        /\ Weight(c1, OfKind(c1, "tier")) = Weight(b, OfKind(b, "tier"))
    <3>1. Weight(c1, OfKind(c1, "tier"))
             = Weight(b, OfKind(b, "tier")) + (IF line.kind = "tier" THEN s ELSE 0)
      BY <1>2, <1>i, IncrWeighs
    <3>2. Weight(c1, OfKind(c1, "user"))
             = Weight(b, OfKind(b, "user")) + (IF line.kind = "user" THEN s ELSE 0)
      BY <1>2, <1>i, IncrWeighs
    <3> QED
      BY <1>2, <1>n, <3>1, <3>2
  <2>3. JOBS_FIELD # line
    BY <1>2, MoneyKinds
  <2> QED
    BY <2>1, <2>2, <2>3, <1>n
<1>m. /\ \A f : Held(c1, f) \in Nat
      /\ Weight(c1, OfKind(c1, "user")) \in Nat
      /\ Weight(c1, OfKind(c1, "tier")) \in Nat
  BY <1>2, <1>3, HeldIsNat, IncrWeighs
<1>4. /\ IsHash(c2)
      /\ \A f \in Money : Held(c2, f) = Held(c1, f)
      /\ Held(c2, JOBS_FIELD) = Held(c1, JOBS_FIELD) + jobs
      /\ Weight(c2, OfKind(c2, "user")) = Weight(c1, OfKind(c1, "user"))
      /\ Weight(c2, OfKind(c2, "tier")) = Weight(c1, OfKind(c1, "tier"))
      /\ OfKind(c2, "user") = OfKind(c1, "user")
  <2>1. CASE destination = "submitter"
    <3> DEFINE d == Incr(c1, JOBS_FIELD, 1)
    <3>1. c2 = d /\ jobs = 1
      BY <2>1
    <3>d. d = Incr(c1, JOBS_FIELD, 1)
      OBVIOUS
    <3> HIDE DEF d
    <3>2. /\ IsHash(d)
          /\ \A f : f # JOBS_FIELD => Held(d, f) = Held(c1, f)
          /\ Held(d, JOBS_FIELD) = Held(c1, JOBS_FIELD) + 1
          /\ \A k : OfKind(d, k)
               = OfKind(c1, k) \cup (IF JOBS_FIELD.kind = k THEN {JOBS_FIELD} ELSE {})
      <4>1. IncrDone(c1, JOBS_FIELD, 1, d)
        BY <1>3, <3>d, MoneyKinds, IncrDoes
      <4> QED
        BY <4>1 DEF IncrDone
    <3>3. \A k : Weight(d, OfKind(d, k))
              = Weight(c1, OfKind(c1, k)) + (IF JOBS_FIELD.kind = k THEN 1 ELSE 0)
      BY <1>3, <3>d, MoneyKinds, IncrWeighs
    <3>4. JOBS_FIELD \notin Money /\ JOBS_FIELD.kind = "jobs"
      BY MoneyKinds
    <3> HIDE DEF c2, jobs
    <3>5. /\ Weight(d, OfKind(d, "user")) = Weight(c1, OfKind(c1, "user")) + 0
          /\ Weight(d, OfKind(d, "tier")) = Weight(c1, OfKind(c1, "tier")) + 0
      BY <3>3, <3>4
    <3>6. OfKind(d, "user") = OfKind(c1, "user")
      BY <3>2, <3>4
    <3> QED
      BY <1>m, <3>1, <3>2, <3>4, <3>5, <3>6
  <2>2. CASE destination # "submitter"
    BY <1>3, <1>m, <2>2
  <2> QED
    BY <2>1, <2>2
<1> HIDE DEF c2, jobs
<1>5. /\ IsHash(c3)
      /\ \A f \in Money \cup {JOBS_FIELD} : Held(c3, f) = Held(c2, f)
      /\ Weight(c3, OfKind(c3, "user")) = Weight(c2, OfKind(c2, "user"))
      /\ Weight(c3, OfKind(c3, "tier")) <= Weight(c2, OfKind(c2, "tier")) + s
      /\ OfKind(c3, "user") = OfKind(c2, "user")
  <2>1. CASE tier[j] # NoName
    <3> DEFINE x == TierField(tier[j])
               d == Incr(c2, x, s)
    <3>1. c3 = d
      BY <2>1
    <3>2. x \in Fields /\ x.kind = "tier" /\ x \notin Money \cup {JOBS_FIELD}
      BY <2>1, MoneyKinds DEF Fields
    <3> HIDE DEF x
    <3>d. d = Incr(c2, x, s)
      OBVIOUS
    <3> HIDE DEF d
    <3>3. /\ IsHash(d)
          /\ \A f : f # x => Held(d, f) = Held(c2, f)
          /\ \A k : OfKind(d, k) = OfKind(c2, k) \cup (IF x.kind = k THEN {x} ELSE {})
      <4>1. IncrDone(c2, x, s, d)
        BY <1>4, <3>2, <3>d, IncrDoes
      <4> QED
        BY <4>1 DEF IncrDone
    <3>4. \A k : /\ Weight(c2, OfKind(c2, k)) \in Nat
                 /\ Weight(d, OfKind(d, k))
                      = Weight(c2, OfKind(c2, k)) + (IF x.kind = k THEN s ELSE 0)
      BY <1>4, <3>2, <3>d, IncrWeighs
    <3> HIDE DEF c3
    <3>5. /\ Weight(d, OfKind(d, "user")) = Weight(c2, OfKind(c2, "user"))
          /\ Weight(d, OfKind(d, "tier")) <= Weight(c2, OfKind(c2, "tier")) + s
      <4>1. Weight(d, OfKind(d, "user")) = Weight(c2, OfKind(c2, "user")) + 0
            /\ Weight(c2, OfKind(c2, "user")) \in Nat
        BY <3>2, <3>4
      <4>2. Weight(d, OfKind(d, "tier")) = Weight(c2, OfKind(c2, "tier")) + s
            /\ Weight(c2, OfKind(c2, "tier")) \in Nat
        BY <3>2, <3>4
      <4> QED
        BY <4>1, <4>2
    <3>6. OfKind(d, "user") = OfKind(c2, "user")
      BY <3>2, <3>3
    <3> QED
      BY <3>1, <3>2, <3>3, <3>5, <3>6
  <2>2. CASE tier[j] = NoName
    <3>1. c3 = c2
      BY <2>2
    <3>2. Weight(c2, OfKind(c2, "tier")) \in Nat
      BY <1>4, <1>m
    <3> HIDE DEF c3
    <3> QED
      BY <1>4, <3>1, <3>2
  <2> QED
    BY <2>1, <2>2
<1> HIDE DEF c3
<1>6. BookDone(b, c3, line, s, jobs)
  <2>1. \A f \in Money : Held(c3, f) = Held(b, f) + (IF f = line THEN s ELSE 0)
    BY <1>3, <1>4, <1>5
  <2>2. Held(c3, JOBS_FIELD) = Held(b, JOBS_FIELD) + jobs
    BY <1>3, <1>4, <1>5
  <2> QED
    BY <1>3, <1>4, <1>5, <2>1, <2>2 DEF BookDone
<1> QED
  BY <1>1, <1>6 DEF line, jobs

-----------------------------------------------------------------------------
(* The inductive invariant *)

\* The money and the bills of one period agree, line by line and in total.
PeriodOK(p) ==
  /\ IsHash(bucket[p])
  /\ \A f \in Money : Total(p, f) = SumOf({b \in Billed(p) : b.to = f})
  /\ UserSeconds(p) + Total(p, ANONYMOUS_FIELD) + Total(p, EXCLUDED_FIELD)
       + Total(p, OTHER_FIELD) = SumOf(Billed(p))
  /\ TierSeconds(p) <= SumOf(Billed(p))
  /\ BilledJobs(p) = Cardinality({b \in Billed(p) : b.to # EXCLUDED_FIELD})
  /\ Cardinality(OfKind(bucket[p], "user")) <= MaxUsers

BooksOK ==
  /\ bucket = [p \in Periods |-> bucket[p]]
  /\ IsFiniteSet(bills)
  /\ \A p \in Periods : PeriodOK(p)

\* A job is billed as it ends, and so once.
BilledOver == \A b \in bills : place[b.job] = "over"

\* The hash names nobody but the submitter, and nobody before the enqueue.
NamedOK ==
  \A j \in Jobs :
    /\ user[j] \in {NoName, Clamp(by[j])}
    /\ place[j] \in {"none", "admitted"} => user[j] = NoName /\ j \notin unseeded

\* A bill goes to its submitter's line, to one of the two that stand in for it,
\* or to the excluded one.
LineOK(b) ==
  /\ b.to \in {UserField(Clamp(by[b.job])), ANONYMOUS_FIELD, OTHER_FIELD,
               EXCLUDED_FIELD}
  /\ by[b.job] = NoName => b.to \in {ANONYMOUS_FIELD, EXCLUDED_FIELD}

BillLinesOK == \A b \in bills : LineOK(b)

SInv == TypeOK /\ BooksOK /\ BilledOver /\ NamedOK /\ BillLinesOK

LEMMA PeriodIsPeriod ==
  ASSUME NEW t \in 0 .. MaxNow
  PROVE  Period(t) \in Periods
BY NumbersAssumption DEF Period, Periods

LEMMA EmptyHash ==
  ASSUME NEW b, b = [f \in {} |-> 0]
  PROVE  /\ IsHash(b) /\ DOMAIN b = {}
         /\ \A k : OfKind(b, k) = {} /\ Weight(b, OfKind(b, k)) = 0
<1>1. DOMAIN b = {} /\ \A k : OfKind(b, k) = {}
  BY DEF OfKind
<1>2. IsHash(b)
  BY <1>1, FS_EmptySet DEF IsHash
<1> QED
  BY <1>1, <1>2, WeightEmpty

LEMMA InitSInv == Init => SInv
<1> SUFFICES ASSUME Init PROVE SInv
  OBVIOUS
<1> USE DEF Init
<1>1. TypeOK
  <2>1. \A p \in Periods : DOMAIN bucket[p] = {}
    BY EmptyHash
  <2>2. now \in 0 .. MaxNow /\ unchecked \in 0 .. MaxUnchecked
    BY NumbersAssumption
  <2> QED
    BY <2>1, <2>2 DEF TypeOK
<1>2. BilledOver /\ NamedOK /\ BillLinesOK
  BY DEF BilledOver, NamedOK, BillLinesOK
<1>3. ASSUME NEW p \in Periods PROVE PeriodOK(p)
  <2>1. /\ IsHash(bucket[p]) /\ DOMAIN bucket[p] = {}
        /\ \A k : /\ OfKind(bucket[p], k) = {}
                  /\ Weight(bucket[p], OfKind(bucket[p], k)) = 0
    BY EmptyHash
  <2>2. UserSeconds(p) = 0 /\ TierSeconds(p) = 0
    BY <2>1, UserSecondsIs, TierSecondsIs
  <2>3. \A f : Total(p, f) = 0
    BY <2>1 DEF Total
  <2>4. Billed(p) = {} /\ \A f : {b \in Billed(p) : b.to = f} = {}
        /\ {b \in Billed(p) : b.to # EXCLUDED_FIELD} = {}
    BY DEF Billed
  <2>5. Cardinality({}) = 0 /\ 0 <= MaxUsers
    BY NumbersAssumption, FS_EmptySet
  <2>6. SumOf(Billed(p)) = 0 /\ \A f : SumOf({b \in Billed(p) : b.to = f}) = 0
    BY <2>4, SumOfNone
  <2>7. \A f \in Money : Total(p, f) = SumOf({b \in Billed(p) : b.to = f})
    BY <2>3, <2>6
  <2>8. UserSeconds(p) + Total(p, ANONYMOUS_FIELD) + Total(p, EXCLUDED_FIELD)
          + Total(p, OTHER_FIELD) = SumOf(Billed(p))
    BY <2>2, <2>3, <2>6
  <2>9. BilledJobs(p) = Cardinality({b \in Billed(p) : b.to # EXCLUDED_FIELD})
    BY <2>3, <2>4, <2>5 DEF BilledJobs
  <2>10. TierSeconds(p) <= SumOf(Billed(p))
    BY <2>2, <2>6
  <2>11. Cardinality(OfKind(bucket[p], "user")) <= MaxUsers
    BY <2>1, <2>5
  <2> QED
    BY <2>1, <2>7, <2>8, <2>9, <2>10, <2>11 DEF PeriodOK
<1>4. BooksOK
  BY <1>3, FS_EmptySet DEF BooksOK
<1> QED
  BY <1>1, <1>2, <1>4 DEF SInv

-----------------------------------------------------------------------------
(* The steps that bill nothing *)

LEMMA SamePeriod ==
  ASSUME NEW p, PeriodOK(p), bucket'[p] = bucket[p], Billed(p)' = Billed(p)
  PROVE  PeriodOK(p)'
<1>1. UserSeconds(p)' = UserSeconds(p) /\ TierSeconds(p)' = TierSeconds(p)
  <2>1. IsHash(bucket[p]) /\ IsHash(bucket'[p])
    BY DEF PeriodOK
  <2> QED
    BY <2>1, UserSecondsIs, UserSecondsNext, TierSecondsIs, TierSecondsNext
<1>2. \A f : Total(p, f)' = Total(p, f)
  BY DEF Total
<1>3. BilledJobs(p)' = BilledJobs(p)
  BY <1>2 DEF BilledJobs
<1> QED
  BY <1>1, <1>2, <1>3 DEF PeriodOK

LEMMA BooksStill ==
  ASSUME BooksOK, UNCHANGED <<bucket, bills>>
  PROVE  BooksOK'
<1>1. ASSUME NEW p \in Periods PROVE PeriodOK(p)'
  <2>1. PeriodOK(p) /\ Billed(p)' = Billed(p) /\ bucket'[p] = bucket[p]
    BY DEF BooksOK, Billed
  <2> QED
    BY <2>1, SamePeriod
<1> QED
  BY <1>1 DEF BooksOK

LEMMA ClampIsName ==
  ASSUME NEW h \in Headers \cup {NoName}
  PROVE  /\ Clamp(h) \in Names \cup {NoName}
         /\ Clamp(h) = NoName <=> h = NoName
         /\ h \notin Long => Clamp(h) = h
BY NamesAssumption DEF Clamp, Names

LEMMA SubmitKeeps ==
  ASSUME SInv, NEW j \in Jobs, NEW h \in Headers \cup {NoName},
         NEW t \in Tiers \cup {NoName}, Submit(j, h, t)
  PROVE  SInv'
<1> USE DEF SInv, Submit, hash
<1>1. place' \in [Jobs -> {"none", "refused", "admitted", "queued", "running",
                           "over"}]
      /\ place'[j] \in {"admitted", "refused"}
      /\ \A i \in Jobs : i # j => place'[i] = place[i]
  BY DEF TypeOK
<1>2. TypeOK'
  <2>1. unchecked' \in 0 .. MaxUnchecked
    BY NumbersAssumption DEF TypeOK
  <2> QED
    BY <1>1, <2>1 DEF TypeOK
<1>3. BooksOK'
  BY BooksStill
<1>4. \A b \in bills : b.job \in Jobs /\ b.job # j
  BY DEF TypeOK, Bill, BilledOver
<1>5. \A i \in Jobs : i # j => by'[i] = by[i]
  BY DEF TypeOK
<1>6. BilledOver' /\ BillLinesOK'
  BY <1>1, <1>4, <1>5 DEF BilledOver, BillLinesOK, LineOK
<1>7. NamedOK'
  <2>1. user[j] = NoName /\ j \notin unseeded
    BY DEF NamedOK
  <2> QED
    BY <1>1, <1>5, <2>1 DEF NamedOK
<1> QED
  BY <1>2, <1>3, <1>6, <1>7

\* The other steps of a job that bill nothing.
LEMMA MoveKeeps ==
  ASSUME SInv, NEW j \in Jobs,
         Enqueue(j) \/ Seed(j) \/ HashExpires(j) \/ Start(j) \/ Requeue(j)
  PROVE  SInv'
<1> USE DEF SInv, hash
<1>1. UNCHANGED <<now, bucket, by, tier_asked, unchecked, bills>>
  BY DEF Enqueue, Seed, HashExpires, Start, Requeue
<1>2. /\ place' \in [Jobs -> {"none", "refused", "admitted", "queued", "running",
                              "over"}]
      /\ place[j] # "over"
           => place'[j] \in {place[j], "refused", "queued", "running"}
      /\ place[j] = "over" => place' = place
      /\ \A i \in Jobs : i # j => place'[i] = place[i]
  BY DEF TypeOK, Enqueue, Seed, HashExpires, Start, Requeue
<1>3. /\ user' \in [Jobs -> Names \cup {NoName}]
      /\ \A i \in Jobs : user'[i] \in {user[i], NoName, Clamp(by[i])}
      /\ tier' \in [Jobs -> Tiers \cup {NoName}]
      /\ started_at' \in [Jobs -> 0 .. MaxNow \cup {NoName}]
  <2>1. Clamp(by[j]) \in Names \cup {NoName}
    BY ClampIsName DEF TypeOK
  <2>2. CASE Seed(j)
    BY <2>1, <2>2 DEF Seed, TypeOK
  <2>3. CASE HashExpires(j)
    BY <2>3 DEF HashExpires, TypeOK
  <2>4. CASE Start(j)
    BY <2>4 DEF Start, TypeOK
  <2>5. CASE Enqueue(j) \/ Requeue(j)
    BY <2>5 DEF Enqueue, Requeue, TypeOK
  <2> QED
    BY <2>2, <2>3, <2>4, <2>5
<1>4. unseeded' \subseteq Jobs /\ unseeded' \subseteq unseeded \cup {j}
  BY DEF TypeOK, Enqueue, Seed, HashExpires, Start, Requeue
<1>5. TypeOK'
  BY <1>1, <1>2, <1>3, <1>4 DEF TypeOK
<1>6. BooksOK'
  BY <1>1, BooksStill
<1>7. \A b \in bills : b.job \in Jobs
  BY DEF TypeOK, Bill
<1>8. BilledOver' /\ BillLinesOK'
  BY <1>1, <1>2, <1>7 DEF BilledOver, BillLinesOK, LineOK
<1>9. NamedOK'
  <2> SUFFICES ASSUME NEW i \in Jobs, place'[i] \in {"none", "admitted"}
               PROVE  user'[i] = NoName /\ i \notin unseeded'
    BY <1>1, <1>3 DEF NamedOK
  <2>1. CASE i # j
    <3>1. user'[i] = user[i] /\ (i \in unseeded' => i \in unseeded)
      BY <2>1, <1>4 DEF TypeOK, Enqueue, Seed, HashExpires, Start, Requeue
    <3> QED
      BY <1>2, <2>1, <3>1 DEF NamedOK
  <2>2. CASE i = j
    <3>1. place[j] \in {"none", "admitted"}
      BY <1>2, <2>2 DEF TypeOK
    <3>2. j \notin unseeded /\ place[j] # "queued" /\ place[j] # "running"
      BY <3>1 DEF NamedOK
    <3>3. Enqueue(j)
      BY <3>2 DEF Seed, HashExpires, Start, Requeue
    <3> QED
      BY <2>2, <3>3 DEF Enqueue, TypeOK
  <2> QED
    BY <2>1, <2>2
<1> QED
  BY <1>5, <1>6, <1>8, <1>9

LEMMA TickKeeps ==
  ASSUME SInv, Tick \/ UNCHANGED vars
  PROVE  SInv'
<1> USE DEF SInv, hash, vars
<1>1. /\ UNCHANGED <<bucket, place, by, tier_asked, user, tier, started_at,
                     unseeded, unchecked, bills>>
      /\ now' \in 0 .. MaxNow
  BY NumbersAssumption DEF Tick, TypeOK
<1>2. TypeOK'
  BY <1>1 DEF TypeOK
<1>3. BooksOK'
  BY <1>1, BooksStill
<1>4. BilledOver' /\ NamedOK' /\ BillLinesOK'
  BY <1>1 DEF BilledOver, NamedOK, BillLinesOK, LineOK
<1> QED
  BY <1>2, <1>3, <1>4

-----------------------------------------------------------------------------
(* The accrual *)

LEMMA LineFacts ==
  ASSUME SInv, NEW j \in Jobs, NEW destination \in {"submitter", "excluded"},
         NEW b, NEW line, line = Line(j, destination, b)
  PROVE  /\ line \in Money
         /\ line \in {UserField(Clamp(by[j])), ANONYMOUS_FIELD, OTHER_FIELD,
                      EXCLUDED_FIELD}
         /\ by[j] = NoName => line \in {ANONYMOUS_FIELD, EXCLUDED_FIELD}
         /\ line = EXCLUDED_FIELD <=> destination = "excluded"
         /\ line.kind = "user"
              => line \in DOMAIN b \/ ~ (Cardinality(DOMAIN b) >= MaxUsers)
<1>1. /\ user[j] \in {NoName, Clamp(by[j])} /\ by[j] \in Headers \cup {NoName}
      /\ user[j] \in Names \cup {NoName}
      /\ by[j] = NoName => Clamp(by[j]) = NoName
  BY ClampIsName DEF SInv, NamedOK, TypeOK
<1> DEFINE field == IF destination = "excluded" THEN EXCLUDED_FIELD
                    ELSE IF user[j] = NoName THEN ANONYMOUS_FIELD
                    ELSE UserField(user[j])
<1>2. /\ field \in Money /\ field # OTHER_FIELD
      /\ field \in {UserField(Clamp(by[j])), ANONYMOUS_FIELD, EXCLUDED_FIELD}
      /\ by[j] = NoName => field \in {ANONYMOUS_FIELD, EXCLUDED_FIELD}
      /\ field = EXCLUDED_FIELD <=> destination = "excluded"
      /\ field.kind = "user"
           => by[j] # NoName /\ destination # "excluded"
  BY <1>1, MoneyKinds DEF Money
<1>3. line = IF NoRoom(b, field) THEN OTHER_FIELD ELSE field
  BY DEF Line
<1>4. NoRoom(b, field)
        <=> /\ field.kind = "user" /\ field \notin DOMAIN b
            /\ Cardinality(DOMAIN b) >= MaxUsers
  BY DEF NoRoom
<1> HIDE DEF field
<1>5. OTHER_FIELD \in Money /\ OTHER_FIELD.kind = "other"
      /\ OTHER_FIELD # EXCLUDED_FIELD
  BY MoneyKinds DEF Money
<1> QED
  BY <1>2, <1>3, <1>4, <1>5

\* One more user only while there was room for it.
LEMMA UsersBounded ==
  ASSUME NEW b, NEW c, NEW line, NEW s, NEW jobs, IsHash(b),
         BookDone(b, c, line, s, jobs),
         Cardinality(OfKind(b, "user")) <= MaxUsers,
         line.kind = "user"
           => line \in DOMAIN b \/ ~ (Cardinality(DOMAIN b) >= MaxUsers)
  PROVE  Cardinality(OfKind(c, "user")) <= MaxUsers
<1>1. /\ IsFiniteSet(OfKind(b, "user")) /\ OfKind(b, "user") \subseteq DOMAIN b
      /\ IsFiniteSet(DOMAIN b)
  BY KindCounts DEF Counts, OfKind, IsHash
<1>2. /\ Cardinality(OfKind(b, "user")) \in Nat /\ Cardinality(DOMAIN b) \in Nat
      /\ Cardinality(OfKind(b, "user")) <= Cardinality(DOMAIN b)
  BY <1>1, FS_CardinalityType, FS_Subset
<1>3. MaxUsers \in Nat
  BY NumbersAssumption
<1>4. OfKind(c, "user")
        = OfKind(b, "user") \cup (IF line.kind = "user" THEN {line} ELSE {})
  BY DEF BookDone
<1>5. CASE line.kind = "user" /\ line \notin DOMAIN b
  <2>1. /\ Cardinality(OfKind(b, "user") \cup {line})
             = Cardinality(OfKind(b, "user")) + 1
    BY <1>1, <1>5, FS_AddElement
  <2>2. Cardinality(DOMAIN b) < MaxUsers
    BY <1>2, <1>3, <1>5
  <2> QED
    BY <1>2, <1>3, <1>4, <1>5, <2>1, <2>2
<1>6. CASE ~ (line.kind = "user" /\ line \notin DOMAIN b)
  <2>1. OfKind(c, "user") = OfKind(b, "user")
    BY <1>4, <1>6 DEF OfKind
  <2> QED
    BY <2>1
<1> QED
  BY <1>5, <1>6

\* A bill of a period, booked on that period's hash.
LEMMA BilledPeriod ==
  ASSUME NEW p, PeriodOK(p), IsFiniteSet(bills), bills \subseteq Bill,
         NEW b \in Bill, b \notin bills, b.period = p, b.to \in Money,
         bills' = bills \cup {b},
         NEW jobs \in {0, 1}, jobs = 0 <=> b.to = EXCLUDED_FIELD,
         BookDone(bucket[p], bucket'[p], b.to, b.seconds, jobs),
         b.to.kind = "user" => \/ b.to \in DOMAIN bucket[p]
                               \/ ~ (Cardinality(DOMAIN bucket[p]) >= MaxUsers)
  PROVE  PeriodOK(p)'
<1>1. /\ Billed(p) \subseteq Bill /\ IsFiniteSet(Billed(p)) /\ b \notin Billed(p)
      /\ Billed(p)' = Billed(p) \cup {b}
  BY FS_Subset DEF Billed
<1>2. PICK s \in Nat : s = b.seconds
  BY NumbersAssumption DEF Bill
<1>3. /\ IsHash(bucket[p]) /\ IsHash(bucket'[p])
      /\ UserSeconds(p) = Weight(bucket[p], OfKind(bucket[p], "user"))
      /\ UserSeconds(p)' = Weight(bucket'[p], OfKind(bucket'[p], "user"))
      /\ TierSeconds(p) = Weight(bucket[p], OfKind(bucket[p], "tier"))
      /\ TierSeconds(p)' = Weight(bucket'[p], OfKind(bucket'[p], "tier"))
  BY UserSecondsIs, UserSecondsNext, TierSecondsIs, TierSecondsNext
     DEF PeriodOK, BookDone
<1>4. /\ UserSeconds(p) \in Nat /\ TierSeconds(p) \in Nat
      /\ \A f : Total(p, f) \in Nat
  BY <1>3, KindCounts, HeapFinite, HeldIsNat DEF Total, Held
<1>5. /\ \A f \in Money :
           Total(p, f)' = Total(p, f) + (IF f = b.to THEN s ELSE 0)
      /\ BilledJobs(p)' = BilledJobs(p) + jobs
      /\ UserSeconds(p)' = UserSeconds(p) + (IF b.to.kind = "user" THEN s ELSE 0)
      /\ TierSeconds(p)' <= TierSeconds(p) + s
  BY <1>2, <1>3 DEF BookDone, Total, Held, BilledJobs
<1>6. /\ SumOf(Billed(p)) \in Nat
      /\ SumOf(Billed(p)') = SumOf(Billed(p)) + s
  BY <1>1, <1>2, SumOfBump
<1>7. ASSUME NEW f \in Money
      PROVE  Total(p, f)' = SumOf({c \in Billed(p)' : c.to = f})
  <2> DEFINE On == {c \in Billed(p) : c.to = f}
  <2>1. /\ On \subseteq Bill /\ IsFiniteSet(On) /\ b \notin On
        /\ Total(p, f) = SumOf(On)
        /\ {c \in Billed(p)' : c.to = f} = IF b.to = f THEN On \cup {b} ELSE On
    BY <1>1, FS_Subset DEF PeriodOK
  <2>2. SumOf(On) \in Nat /\ SumOf(On \cup {b}) = SumOf(On) + s
    BY <1>2, <2>1, SumOfBump
  <2>3. CASE b.to = f
    <3>1. {c \in Billed(p)' : c.to = f} = On \cup {b}
      BY <2>1, <2>3
    <3>2. SumOf({c \in Billed(p)' : c.to = f}) = SumOf(On) + s
      BY ONLY <2>2, <3>1
    <3>3. Total(p, f)' = Total(p, f) + s
      BY <1>5, <2>3
    <3> QED
      BY <2>1, <3>2, <3>3
  <2>4. CASE b.to # f
    <3>1. {c \in Billed(p)' : c.to = f} = On
      BY <2>1, <2>4
    <3>2. SumOf({c \in Billed(p)' : c.to = f}) = SumOf(On)
      BY ONLY <3>1
    <3>3. Total(p, f)' = Total(p, f)
      BY <1>4, <1>5, <2>4
    <3> QED
      BY <2>1, <3>2, <3>3
  <2> QED
    BY <2>3, <2>4
<1>8. UserSeconds(p)' + Total(p, ANONYMOUS_FIELD)' + Total(p, EXCLUDED_FIELD)'
        + Total(p, OTHER_FIELD)' = SumOf(Billed(p)')
  <2>1. /\ ANONYMOUS_FIELD \in Money /\ EXCLUDED_FIELD \in Money
        /\ OTHER_FIELD \in Money
        /\ ANONYMOUS_FIELD # EXCLUDED_FIELD /\ ANONYMOUS_FIELD # OTHER_FIELD
        /\ EXCLUDED_FIELD # OTHER_FIELD
        /\ ANONYMOUS_FIELD.kind # "user" /\ EXCLUDED_FIELD.kind # "user"
        /\ OTHER_FIELD.kind # "user"
        /\ b.to.kind = "user" \/ b.to \in {ANONYMOUS_FIELD, EXCLUDED_FIELD, OTHER_FIELD}
    BY MoneyKinds DEF Money
  <2>2. UserSeconds(p) + Total(p, ANONYMOUS_FIELD) + Total(p, EXCLUDED_FIELD)
          + Total(p, OTHER_FIELD) = SumOf(Billed(p))
    BY DEF PeriodOK
  <2>3. CASE b.to.kind = "user"
    <3>1. /\ UserSeconds(p)' = UserSeconds(p) + s
          /\ Total(p, ANONYMOUS_FIELD)' = Total(p, ANONYMOUS_FIELD)
          /\ Total(p, EXCLUDED_FIELD)' = Total(p, EXCLUDED_FIELD)
          /\ Total(p, OTHER_FIELD)' = Total(p, OTHER_FIELD)
      BY <1>4, <1>5, <2>1, <2>3
    <3> QED
      BY <1>4, <1>6, <2>2, <3>1
  <2>4. CASE b.to = ANONYMOUS_FIELD
    <3>1. /\ UserSeconds(p)' = UserSeconds(p)
          /\ Total(p, ANONYMOUS_FIELD)' = Total(p, ANONYMOUS_FIELD) + s
          /\ Total(p, EXCLUDED_FIELD)' = Total(p, EXCLUDED_FIELD)
          /\ Total(p, OTHER_FIELD)' = Total(p, OTHER_FIELD)
      BY <1>4, <1>5, <2>1, <2>4
    <3> QED
      BY <1>4, <1>6, <2>2, <3>1
  <2>5. CASE b.to = EXCLUDED_FIELD
    <3>1. /\ UserSeconds(p)' = UserSeconds(p)
          /\ Total(p, ANONYMOUS_FIELD)' = Total(p, ANONYMOUS_FIELD)
          /\ Total(p, EXCLUDED_FIELD)' = Total(p, EXCLUDED_FIELD) + s
          /\ Total(p, OTHER_FIELD)' = Total(p, OTHER_FIELD)
      BY <1>4, <1>5, <2>1, <2>5
    <3> QED
      BY <1>4, <1>6, <2>2, <3>1
  <2>6. CASE b.to = OTHER_FIELD
    <3>1. /\ UserSeconds(p)' = UserSeconds(p)
          /\ Total(p, ANONYMOUS_FIELD)' = Total(p, ANONYMOUS_FIELD)
          /\ Total(p, EXCLUDED_FIELD)' = Total(p, EXCLUDED_FIELD)
          /\ Total(p, OTHER_FIELD)' = Total(p, OTHER_FIELD) + s
      BY <1>4, <1>5, <2>1, <2>6
    <3> QED
      BY <1>4, <1>6, <2>2, <3>1
  <2> QED
    BY <2>1, <2>3, <2>4, <2>5, <2>6
<1>9. TierSeconds(p)' <= SumOf(Billed(p)')
  <2>1. TierSeconds(p) <= SumOf(Billed(p))
    BY DEF PeriodOK
  <2>2. TierSeconds(p)' \in Nat
    BY <1>3, KindCounts, HeapFinite
  <2> QED
    BY <1>4, <1>5, <1>6, <2>1, <2>2
<1>10. BilledJobs(p)' = Cardinality({c \in Billed(p)' : c.to # EXCLUDED_FIELD})
  <2> DEFINE N == {c \in Billed(p) : c.to # EXCLUDED_FIELD}
  <2>1. /\ IsFiniteSet(N) /\ b \notin N /\ BilledJobs(p) = Cardinality(N)
        /\ {c \in Billed(p)' : c.to # EXCLUDED_FIELD}
             = IF b.to = EXCLUDED_FIELD THEN N ELSE N \cup {b}
    BY <1>1, FS_Subset DEF PeriodOK
  <2>2. Cardinality(N) \in Nat /\ Cardinality(N \cup {b}) = Cardinality(N) + 1
    BY <2>1, FS_AddElement, FS_CardinalityType
  <2>3. CASE b.to = EXCLUDED_FIELD
    <3>1. {c \in Billed(p)' : c.to # EXCLUDED_FIELD} = N
      BY <2>1, <2>3
    <3>2. Cardinality({c \in Billed(p)' : c.to # EXCLUDED_FIELD}) = Cardinality(N)
      BY ONLY <3>1
    <3>3. BilledJobs(p)' = BilledJobs(p)
      BY <1>4, <1>5, <2>3 DEF BilledJobs
    <3> QED
      BY <2>1, <3>2, <3>3
  <2>4. CASE b.to # EXCLUDED_FIELD
    <3>1. {c \in Billed(p)' : c.to # EXCLUDED_FIELD} = N \cup {b}
      BY <2>1, <2>4
    <3>2. Cardinality({c \in Billed(p)' : c.to # EXCLUDED_FIELD})
            = Cardinality(N) + 1
      BY ONLY <2>2, <3>1
    <3>3. BilledJobs(p)' = BilledJobs(p) + 1
      BY <1>5, <2>4
    <3> QED
      BY <2>1, <3>2, <3>3
  <2> QED
    BY <2>3, <2>4
<1>11. Cardinality(OfKind(bucket'[p], "user")) <= MaxUsers
  BY <1>3, UsersBounded DEF PeriodOK
<1> QED
  BY <1>3, <1>7, <1>8, <1>9, <1>10, <1>11 DEF PeriodOK

LEMMA AccrueKeeps ==
  ASSUME SInv, NEW j \in Jobs, place[j] = "running",
         place' = [place EXCEPT ![j] = "over"],
         NEW destination \in {"submitter", "excluded"}, NEW at \in 0 .. MaxNow,
         Accrue(j, destination, at),
         UNCHANGED <<now, by, tier_asked, user, tier, unseeded, unchecked>>
  PROVE  SInv'
<1> USE DEF SInv
<1>1. /\ place' \in [Jobs -> {"none", "refused", "admitted", "queued", "running",
                              "over"}]
      /\ place'[j] = "over" /\ \A i \in Jobs : i # j => place'[i] = place[i]
  BY DEF TypeOK
<1>2. NamedOK'
  BY <1>1 DEF NamedOK
<1>3. \A b \in bills : b.job \in Jobs /\ b.job # j
  BY DEF TypeOK, Bill, BilledOver
<1>4. CASE started_at[j] = NoName
  <2>1. UNCHANGED <<bucket, started_at, bills>>
    BY <1>4 DEF Accrue
  <2>2. TypeOK' /\ BooksOK'
    BY <1>1, <2>1, BooksStill DEF TypeOK
  <2>3. BilledOver' /\ BillLinesOK'
    BY <1>1, <1>3, <2>1 DEF BilledOver, BillLinesOK, LineOK
  <2> QED
    BY <1>2, <2>2, <2>3
<1>5. CASE started_at[j] # NoName
  <2> DEFINE p == Period(at)
             s == Elapsed(j, at)
             line == Line(j, destination, bucket[p])
             bill == [job |-> j, period |-> p, seconds |-> s, to |-> line]
             jobs == IF destination = "submitter" THEN 1 ELSE 0
  <2>1. /\ bucket' = [bucket EXCEPT ![p] = Book(bucket[p], j, destination, s)]
        /\ bills' = bills \cup {bill}
        /\ started_at' = [started_at EXCEPT ![j] = NoName]
    BY <1>5 DEF Accrue, Claim
  <2>2. p \in Periods
    BY PeriodIsPeriod
  <2>3. s \in 0 .. MaxNow /\ s \in Nat
    <3>1. started_at[j] \in 0 .. MaxNow /\ MaxNow \in Nat
      BY <1>5, NumbersAssumption DEF TypeOK
    <3> QED
      BY <3>1 DEF Elapsed
  <2>l. line = Line(j, destination, bucket[p])
    OBVIOUS
  <2>h. IsHash(bucket[p]) /\ PeriodOK(p) /\ IsFiniteSet(bills)
    BY <2>2 DEF BooksOK, PeriodOK
  <2>b. /\ bucket'[p] = Book(bucket[p], j, destination, s)
        /\ \A q \in Periods : q # p => bucket'[q] = bucket[q]
        /\ bucket' = [q \in Periods |-> bucket'[q]]
    BY <2>1, <2>2 DEF BooksOK
  <2> HIDE DEF p, s, line
  <2>4. /\ line \in Money
        /\ line \in {UserField(Clamp(by[j])), ANONYMOUS_FIELD, OTHER_FIELD,
                     EXCLUDED_FIELD}
        /\ by[j] = NoName => line \in {ANONYMOUS_FIELD, EXCLUDED_FIELD}
        /\ line = EXCLUDED_FIELD <=> destination = "excluded"
        /\ line.kind = "user"
             => \/ line \in DOMAIN bucket[p]
                \/ ~ (Cardinality(DOMAIN bucket[p]) >= MaxUsers)
    BY <2>l, LineFacts
  <2>5. /\ bill \in Bill /\ bill \notin bills /\ bill.period = p
        /\ bill.to = line /\ bill.seconds = s /\ bill.job = j
    BY <1>3, <2>2, <2>3, <2>4, MoneyKinds DEF Bill
  <2> HIDE DEF bill
  <2>6. BookDone(bucket[p], bucket'[p], line, s, jobs)
    <3>1. tier[j] \in Tiers \cup {NoName}
      BY DEF TypeOK
    <3> QED
      BY <2>3, <2>4, <2>l, <2>h, <2>b, <3>1, BookDoes
  <2>7. jobs \in {0, 1} /\ (jobs = 0 <=> line = EXCLUDED_FIELD)
    BY <2>4
  <2> HIDE DEF jobs
  <2>8. PeriodOK(p)'
    <3>1. bills \subseteq Bill
      BY DEF TypeOK
    <3>2. BookDone(bucket[p], bucket'[p], bill.to, bill.seconds, jobs)
      BY <2>5, <2>6
    <3>3. /\ bill.to \in Money /\ (jobs = 0 <=> bill.to = EXCLUDED_FIELD)
          /\ bill.to.kind = "user"
               => \/ bill.to \in DOMAIN bucket[p]
                  \/ ~ (Cardinality(DOMAIN bucket[p]) >= MaxUsers)
      BY <2>4, <2>5, <2>7
    <3> QED
      BY <2>1, <2>5, <2>7, <2>h, <3>1, <3>2, <3>3, BilledPeriod
  <2>9. ASSUME NEW q \in Periods, q # p PROVE PeriodOK(q)'
    <3>1. PeriodOK(q) /\ bucket'[q] = bucket[q]
      BY <2>9, <2>b DEF BooksOK
    <3>2. Billed(q)' = Billed(q)
      BY <2>1, <2>5, <2>9 DEF Billed
    <3> QED
      BY <3>1, <3>2, SamePeriod
  <2>10. BooksOK'
    <3>1. IsFiniteSet(bills')
      BY <2>1, <2>h, FS_AddElement
    <3>2. \A q \in Periods : PeriodOK(q)'
      BY <2>8, <2>9
    <3> QED
      BY <2>b, <3>1, <3>2 DEF BooksOK
  <2>11. TypeOK'
    <3>1. \A q \in Periods : IsHash(bucket'[q])
      BY <2>10 DEF BooksOK, PeriodOK
    <3>2. \A q \in Periods :
            /\ DOMAIN bucket'[q] \subseteq Fields
            /\ \A f \in DOMAIN bucket'[q] : bucket'[q][f] \in Nat
      BY <3>1 DEF IsHash
    <3> QED
      BY <1>1, <2>1, <2>5, <3>2 DEF TypeOK
  <2>12. BilledOver' /\ BillLinesOK'
    <3>1. \A b \in bills : b.job \in Jobs /\ b.job # j
      BY <1>3
    <3>2. BilledOver'
      BY <1>1, <2>1, <2>5, <3>1 DEF BilledOver
    <3>3. ASSUME NEW b \in bills' PROVE LineOK(b)'
      <4>1. CASE b \in bills
        BY <4>1 DEF BillLinesOK, LineOK
      <4>2. CASE b = bill
        BY <2>4, <2>5, <4>2 DEF LineOK
      <4> QED
        BY <2>1, <4>1, <4>2
    <3> QED
      BY <3>2, <3>3 DEF BillLinesOK
  <2> QED
    BY <1>2, <2>10, <2>11, <2>12
<1> QED
  BY <1>4, <1>5

-----------------------------------------------------------------------------
(* Together *)

LEMMA NextSInv == SInv /\ [Next]_vars => SInv'
<1> SUFFICES ASSUME SInv, [Next]_vars PROVE SInv'
  OBVIOUS
<1>1. now \in 0 .. MaxNow /\ MaxNow \in Nat
  BY NumbersAssumption DEF SInv, TypeOK
<1>2. CASE Tick \/ UNCHANGED vars
  BY <1>2, TickKeeps
<1>3. ASSUME NEW j \in Jobs, NEW h \in Headers \cup {NoName},
             NEW t \in Tiers \cup {NoName}, Submit(j, h, t)
      PROVE  SInv'
  BY <1>3, SubmitKeeps
<1>4. ASSUME NEW j \in Jobs,
             Enqueue(j) \/ Seed(j) \/ HashExpires(j) \/ Start(j) \/ Requeue(j)
      PROVE  SInv'
  BY <1>4, MoveKeeps
<1>5. ASSUME NEW j \in Jobs, Finish(j) PROVE SInv'
  <2>1. /\ place[j] = "running" /\ place' = [place EXCEPT ![j] = "over"]
        /\ Accrue(j, "submitter", now)
        /\ UNCHANGED <<now, by, tier_asked, user, tier, unseeded, unchecked>>
    BY <1>5 DEF Finish
  <2> QED
    BY <1>1, <2>1, AccrueKeeps
<1>6. ASSUME NEW j \in Jobs, ReapEnd(j) PROVE SInv'
  <2>1. PICK at \in {now, now - 1} \cap Nat : Accrue(j, "excluded", at)
    BY <1>6 DEF ReapEnd
  <2>2. at \in 0 .. MaxNow
    BY <1>1
  <2>3. /\ place[j] = "running" /\ place' = [place EXCEPT ![j] = "over"]
        /\ UNCHANGED <<now, by, tier_asked, user, tier, unseeded, unchecked>>
    BY <1>6 DEF ReapEnd
  <2> QED
    BY <2>1, <2>2, <2>3, AccrueKeeps
<1> QED
  BY <1>2, <1>3, <1>4, <1>5, <1>6 DEF Next

LEMMA SInvAlways == Spec => []SInv
BY InitSInv, NextSInv, PTL DEF Spec

\* Every figure a period's hash holds is a natural number under a field the
\* script names, and every bill is for a time since the clock's start.
THEOREM TypeCorrect == Spec => []TypeOK
<1>1. SInv => TypeOK
  BY DEF SInv
<1> QED
  BY <1>1, SInvAlways, PTL

\* showback_report() adds up to the seconds the accruals claimed, each on one
\* line, and its count of jobs to the bills that name a submitter's line.
THEOREM ReportIsComplete == Spec => []ReportAddsUp
<1>1. SInv => ReportAddsUp
  BY DEF SInv, BooksOK, PeriodOK, ReportAddsUp
<1> QED
  BY <1>1, SInvAlways, PTL

LEMMA OneMore ==
  ASSUME NEW S, NEW x, IsFiniteSet(S)
  PROVE  /\ IsFiniteSet(S \cup {x})
         /\ Cardinality(S) \in Nat /\ Cardinality(S \cup {x}) \in Nat
         /\ Cardinality(S \cup {x}) <= Cardinality(S) + 1
<1>1. Cardinality(S) \in Nat
  BY FS_CardinalityType
<1>2. /\ IsFiniteSet(S \cup {x})
      /\ \/ Cardinality(S \cup {x}) = Cardinality(S)
         \/ Cardinality(S \cup {x}) = Cardinality(S) + 1
  BY FS_AddElement
<1> QED
  BY <1>1, <1>2

\* The names of the hash that are neither a submitter's nor a tier's.
LEMMA FourFields ==
  LET F == {ANONYMOUS_FIELD, EXCLUDED_FIELD, OTHER_FIELD, JOBS_FIELD} IN
  IsFiniteSet(F) /\ Cardinality(F) <= 4
<1> DEFINE A == {ANONYMOUS_FIELD}
           B == A \cup {EXCLUDED_FIELD}
           C == B \cup {OTHER_FIELD}
           D == C \cup {JOBS_FIELD}
<1>1. IsFiniteSet(A) /\ Cardinality(A) <= 1
  <2>1. IsFiniteSet(A) /\ Cardinality(A) = 1
    BY FS_Singleton
  <2> QED
    BY <2>1
<1>2. {ANONYMOUS_FIELD, EXCLUDED_FIELD, OTHER_FIELD, JOBS_FIELD} = D
  OBVIOUS
<1> HIDE DEF A
<1>3. IsFiniteSet(B) /\ Cardinality(B) <= 2
  <2>1. /\ IsFiniteSet(B) /\ Cardinality(B) <= Cardinality(A) + 1
        /\ Cardinality(A) \in Nat /\ Cardinality(B) \in Nat
    BY <1>1, OneMore
  <2> QED
    BY <1>1, <2>1
<1> HIDE DEF B
<1>4. IsFiniteSet(C) /\ Cardinality(C) <= 3
  <2>1. /\ IsFiniteSet(C) /\ Cardinality(C) <= Cardinality(B) + 1
        /\ Cardinality(B) \in Nat /\ Cardinality(C) \in Nat
    BY <1>3, OneMore
  <2> QED
    BY <1>3, <2>1
<1> HIDE DEF C
<1>5. IsFiniteSet(D) /\ Cardinality(D) <= 4
  <2>1. /\ IsFiniteSet(D) /\ Cardinality(D) <= Cardinality(C) + 1
        /\ Cardinality(C) \in Nat /\ Cardinality(D) \in Nat
    BY <1>4, OneMore
  <2> QED
    BY <1>4, <2>1
<1> QED
  BY <1>2, <1>5

\* SHOWBACK_MAX_USERS bounds the names of a period's hash, and with the tiers
\* and four fixed fields its length, though the script compares the cap with
\* that length.
THEOREM HashStaysBounded == Spec => []HashBounded
<1>1. SInv => HashBounded
  <2> SUFFICES ASSUME SInv, NEW p \in Periods
               PROVE  /\ Cardinality(OfKind(bucket[p], "user")) <= MaxUsers
                      /\ Cardinality(DOMAIN bucket[p])
                           <= MaxUsers + Cardinality(Tiers) + 4
    BY DEF HashBounded, OfKind
  <2> DEFINE b == bucket[p]
             U == OfKind(b, "user")
             T == {TierField(t) : t \in Tiers}
             F == {ANONYMOUS_FIELD, EXCLUDED_FIELD, OTHER_FIELD, JOBS_FIELD}
  <2>1. IsHash(b) /\ Cardinality(U) <= MaxUsers
    BY DEF SInv, BooksOK, PeriodOK
  <2>2. IsFiniteSet(U) /\ Cardinality(U) \in Nat
    BY <2>1, KindCounts, FS_CardinalityType DEF Counts
  <2>3. IsFiniteSet(T) /\ Cardinality(T) = Cardinality(Tiers)
        /\ Cardinality(T) \in Nat
    <3> DEFINE f == [t \in Tiers |-> TierField(t)]
    <3>1. f \in Surjection(Tiers, T)
      BY DEF Surjection
    <3>2. f \in Injection(Tiers, T)
      BY MoneyKinds DEF Injection, IsInjective
    <3> QED
      BY <3>1, <3>2, TiersAssumption, FS_Surjection, FS_CardinalityType
  <2>4. IsFiniteSet(F) /\ Cardinality(F) \in Nat /\ Cardinality(F) <= 4
    BY FourFields, FS_CardinalityType
  <2>5. DOMAIN b \subseteq (U \cup T) \cup F
    <3>1. \A x \in DOMAIN b : x.kind = "user" => x \in U
      BY DEF OfKind
    <3>2. DOMAIN b \subseteq {UserField(n) : n \in Names} \cup T \cup F
      BY <2>1 DEF IsHash, Fields
    <3>3. \A x \in {UserField(n) : n \in Names} : x.kind = "user"
      BY MoneyKinds
    <3> QED
      BY <3>1, <3>2, <3>3
  <2> HIDE DEF b, U, T, F
  <2>6. /\ IsFiniteSet(U \cup T) /\ Cardinality(U \cup T) \in Nat
        /\ Cardinality(U \cup T) <= Cardinality(U) + Cardinality(T)
    <3>1. IsFiniteSet(U \cap T) /\ Cardinality(U \cap T) \in Nat
      BY <2>2, FS_Intersection, FS_CardinalityType
    <3>2. /\ IsFiniteSet(U \cup T)
          /\ Cardinality(U \cup T)
               = Cardinality(U) + Cardinality(T) - Cardinality(U \cap T)
      BY <2>2, <2>3, FS_Union
    <3> QED
      BY <2>2, <2>3, <3>1, <3>2, FS_CardinalityType
  <2>7. /\ IsFiniteSet((U \cup T) \cup F)
        /\ Cardinality((U \cup T) \cup F) \in Nat
        /\ Cardinality((U \cup T) \cup F) <= Cardinality(U \cup T) + 4
    <3> DEFINE V == U \cup T
    <3>1. IsFiniteSet(V) /\ Cardinality(V) \in Nat
      BY <2>6
    <3> HIDE DEF V
    <3>2. IsFiniteSet(V \cap F) /\ Cardinality(V \cap F) \in Nat
      BY <3>1, FS_Intersection, FS_CardinalityType
    <3>3. /\ IsFiniteSet(V \cup F)
          /\ Cardinality(V \cup F)
               = Cardinality(V) + Cardinality(F) - Cardinality(V \cap F)
      BY <2>4, <3>1, FS_Union
    <3>4. Cardinality(V \cup F) \in Nat /\ Cardinality(V \cup F) <= Cardinality(V) + 4
      BY <2>4, <3>1, <3>2, <3>3, FS_CardinalityType
    <3> QED
      BY <3>3, <3>4 DEF V
  <2>8. Cardinality(DOMAIN b) <= Cardinality((U \cup T) \cup F)
        /\ Cardinality(DOMAIN b) \in Nat
    BY <2>5, <2>7, FS_Subset, FS_CardinalityType
  <2>9. Cardinality(DOMAIN b) <= MaxUsers + Cardinality(Tiers) + 4
    BY <2>1, <2>2, <2>3, <2>6, <2>7, <2>8, NumbersAssumption
  <2> QED
    BY <2>1, <2>9 DEF b, U
<1> QED
  BY <1>1, SInvAlways, PTL

\* A submitter who spent the quota of the period is refused by the look-up in
\* generate(), unless that look-up failed, the header is longer than a name on
\* the hash may be, or some of the seconds went to another line.
THEOREM SpentIsRefused == Spec => QuotaHolds
<1> DEFINE Refused ==
      \A j \in Jobs :
        Admitted(j) /\ Spent(by'[j], Period(now)) >= Quota =>
          \/ unchecked' # unchecked
          \/ by'[j] \in Long
          \/ \E b \in Billed(Period(now)) : by[b.job] = by'[j] /\ Astray(b)
<1>1. SInv /\ [Next]_vars => [Refused]_vars
  <2> SUFFICES ASSUME SInv, Next, NEW j \in Jobs, Admitted(j),
                      Spent(by'[j], Period(now)) >= Quota,
                      unchecked' = unchecked, by'[j] \notin Long,
                      ~ \E b \in Billed(Period(now)) :
                          by[b.job] = by'[j] /\ Astray(b)
               PROVE  FALSE
    OBVIOUS
  <2>1. place[j] = "none" /\ place'[j] = "admitted"
    BY DEF Admitted
  <2>2. PICK h \in Headers \cup {NoName}, t \in Tiers \cup {NoName} : Submit(j, h, t)
    <3>1. \A i \in Jobs : ~ (Enqueue(i) \/ Seed(i) \/ HashExpires(i) \/ Start(i)
                             \/ Requeue(i) \/ Finish(i) \/ ReapEnd(i))
      BY <2>1 DEF Enqueue, Seed, HashExpires, Start, Requeue, Finish, ReapEnd,
                  SInv, TypeOK
    <3>2. ~ Tick
      BY <2>1 DEF Tick
    <3>3. \A i \in Jobs, h \in Headers \cup {NoName}, t \in Tiers \cup {NoName} :
            Submit(i, h, t) => i = j
      BY <2>1 DEF Submit, SInv, TypeOK
    <3> QED
      BY <3>1, <3>2, <3>3 DEF Next
  <2> DEFINE p == Period(now)
             On == {b \in Billed(p) : b.to = QuotaField(h)}
             Mine == {b \in Billed(p) : b.to # EXCLUDED_FIELD /\ by[b.job] = h}
  <2>3. by'[j] = h /\ h \notin Long
    BY <2>2 DEF Submit, SInv, TypeOK
  <2>4. WithinQuota(h)
    BY <2>1, <2>2, NumbersAssumption DEF Submit, SInv, TypeOK
  <2>5. p \in Periods
    BY PeriodIsPeriod DEF SInv, TypeOK
  <2>6. QuotaField(h) \in Money
    <3>1. h # NoName => h \in Names
      BY DEF Names
    <3> QED
      BY <3>1 DEF QuotaField, Money
  <2>7. Mine \subseteq On
    <3> SUFFICES ASSUME NEW b \in Billed(p), b.to # EXCLUDED_FIELD, by[b.job] = h
                 PROVE  b.to = QuotaField(h)
      OBVIOUS
    <3>1. LineOK(b)
      BY DEF SInv, BillLinesOK, Billed
    <3>2. h # NoName => b.to \notin {ANONYMOUS_FIELD, OTHER_FIELD}
      BY <2>3 DEF Astray
    <3>3. Clamp(h) = h
      BY <2>3, ClampIsName
    <3> QED
      BY <3>1, <3>2, <3>3 DEF LineOK, QuotaField
  <2>8. Total(p, QuotaField(h)) = SumOf(On)
    BY <2>5, <2>6 DEF SInv, BooksOK, PeriodOK
  <2>9. Spent(h, p) = SumOf(Mine)
    BY DEF Spent
  <2>10. On \subseteq Bill /\ IsFiniteSet(On)
    BY FS_Subset DEF SInv, BooksOK, TypeOK, Billed
  <2> HIDE DEF On, Mine
  <2>11. SumOf(Mine) <= SumOf(On) /\ SumOf(Mine) \in Nat /\ SumOf(On) \in Nat
    BY <2>7, <2>10, SumOfSubset
  <2>12. SumOf(Mine) >= Quota /\ SumOf(On) < Quota
    BY <2>3, <2>4, <2>8, <2>9 DEF WithinQuota
  <2> QED
    BY <2>11, <2>12, NumbersAssumption
<1> QED
  BY <1>1, SInvAlways, PTL DEF Spec, QuotaHolds
=============================================================================

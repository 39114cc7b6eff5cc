-------------------------- MODULE GapSearchProofs --------------------------
(***************************************************************************)
(* The searches for missing blocks find what they promise, for every table *)
(* and every range: the ranges are exact and maximal, and the search in    *)
(* chunks of any size is the search of the whole range.  Min, Max, ORDER   *)
(* BY and the recursion are choices; what is chosen has to exist first,    *)
(* and be unique where it matters.                                         *)
(***************************************************************************)
EXTENDS GapSearch, FiniteSetTheorems, SequenceTheorems, WellFoundedInduction, TLAPS

(* Min and Max of the community modules, on the sets the commands use.     *)
LEMMA MinOfTwo ==
  ASSUME NEW a \in Int, NEW b \in Int
  PROVE  /\ Min({a, b}) \in Int
         /\ Min({a, b}) = IF a <= b THEN a ELSE b
<1>1. PICK m \in {a, b} : \A y \in {a, b} : m <= y
  OBVIOUS
<1>2. /\ Min({a, b}) \in {a, b}
      /\ \A y \in {a, b} : Min({a, b}) <= y
  BY <1>1 DEF Min
<1> QED
  BY <1>2

LEMMA LeastNumber ==
  ASSUME NEW S, S \subseteq Nat, S # {}
  PROVE  \E x \in S : \A y \in S : x <= y
<1> DEFINE less == OpToRel(<, Nat)
<1>1. IsWellFoundedOn(less, Nat)
  BY NatLessThanWellFounded
<1>2. \A x, y \in Nat : x < y => <<x, y>> \in less
  BY DEF OpToRel
<1> HIDE DEF less
<1>3. PICK x \in S : \A y \in S : ~(<<y, x>> \in less)
  BY <1>1, WFMin
<1>4. ASSUME NEW y \in S PROVE x <= y
  <2>1. x \in Nat /\ y \in Nat
    OBVIOUS
  <2>2. ~(y < x)
    BY <1>2, <1>3, <2>1
  <2> QED
    BY <2>1, <2>2
<1> QED
  BY <1>4

LEMMA MinOfBounded ==
  ASSUME NEW S, S \subseteq Int, S # {}, NEW low \in Int, \A x \in S : low <= x
  PROVE  Min(S) \in S /\ \A y \in S : Min(S) <= y
<1> DEFINE T == {x - low : x \in S}
<1>1. T \subseteq Nat /\ T # {}
  <2>1. ASSUME NEW x \in S PROVE x - low \in Nat /\ x - low \in T
    <3>1. x \in Int
      OBVIOUS
    <3> QED
      BY <3>1
  <2> QED
    BY <2>1
<1>2. PICK t \in T : \A u \in T : t <= u
  BY <1>1, LeastNumber
<1>3. PICK m \in S : t = m - low
  OBVIOUS
<1>4. \A y \in S : m <= y
  <2> SUFFICES ASSUME NEW y \in S PROVE m <= y
    OBVIOUS
  <2>1. y - low \in T
    OBVIOUS
  <2>2. m - low <= y - low
    BY <1>2, <1>3, <2>1
  <2> QED
    BY <2>2
<1> QED
  BY <1>4 DEF Min

LEMMA MaxOfBounded ==
  ASSUME NEW S, S \subseteq Int, S # {}, NEW high \in Int, \A x \in S : x <= high
  PROVE  Max(S) \in S /\ \A y \in S : y <= Max(S)
<1> DEFINE T == {high - x : x \in S}
<1>1. T \subseteq Nat /\ T # {}
  <2>1. ASSUME NEW x \in S PROVE high - x \in Nat /\ high - x \in T
    <3>1. x \in Int
      OBVIOUS
    <3> QED
      BY <3>1
  <2> QED
    BY <2>1
<1>2. PICK t \in T : \A u \in T : t <= u
  BY <1>1, LeastNumber
<1>3. PICK m \in S : t = high - m
  OBVIOUS
<1>4. \A y \in S : m >= y
  <2> SUFFICES ASSUME NEW y \in S PROVE m >= y
    OBVIOUS
  <2>1. high - y \in T
    OBVIOUS
  <2>2. high - m <= high - y
    BY <1>2, <1>3, <2>1
  <2> QED
    BY <2>2
<1>5. Max(S) \in S /\ \A y \in S : Max(S) >= y
  BY <1>4 DEF Max
<1> QED
  BY <1>5

-----------------------------------------------------------------------------
(* ORDER BY.  The place of a number is how many numbers of the set it is   *)
(* not below.                                                              *)
place(S, n) == Cardinality({m \in S : m <= n})

Increasing(s, n) == \A i, j \in 1 .. n : i < j => s[i] < s[j]

LEMMA PlaceType ==
  ASSUME NEW S, IsFiniteSet(S), NEW n
  PROVE  IsFiniteSet({m \in S : m <= n}) /\ place(S, n) \in 0 .. Cardinality(S)
<1>1. {m \in S : m <= n} \subseteq S
  OBVIOUS
<1>2. /\ IsFiniteSet({m \in S : m <= n})
      /\ Cardinality({m \in S : m <= n}) <= Cardinality(S)
  BY <1>1, FS_Subset
<1>3. Cardinality({m \in S : m <= n}) \in Nat /\ Cardinality(S) \in Nat
  BY <1>2, FS_CardinalityType
<1> QED
  BY <1>2, <1>3 DEF place

LEMMA PlaceGrows ==
  ASSUME NEW S, S \subseteq Int, IsFiniteSet(S), NEW m \in Int, NEW n \in S, m < n
  PROVE  place(S, m) < place(S, n)
<1> DEFINE upTo(k) == {x \in S : x <= k}
<1>1. upTo(m) \subseteq upTo(n) /\ n \in upTo(n) /\ n \notin upTo(m)
  <2>1. n \in Int
    OBVIOUS
  <2>2. ASSUME NEW x \in upTo(m) PROVE x \in upTo(n)
    <3>1. x \in Int /\ x \in S /\ x <= m
      OBVIOUS
    <3> QED
      BY <2>1, <3>1
  <2>3. n <= n /\ ~(n <= m)
    BY <2>1
  <2> QED
    BY <2>2, <2>3
<1>2. IsFiniteSet(upTo(n)) /\ IsFiniteSet(upTo(m))
  BY PlaceType
<1>3. Cardinality(upTo(m)) <= Cardinality(upTo(n)) /\ Cardinality(upTo(m)) # Cardinality(upTo(n))
  BY <1>1, <1>2, FS_Subset
<1>4. Cardinality(upTo(m)) \in Nat /\ Cardinality(upTo(n)) \in Nat
  BY <1>2, FS_CardinalityType
<1> QED
  BY <1>3, <1>4 DEF place

LEMMA PlaceOfMember ==
  ASSUME NEW S, S \subseteq Int, IsFiniteSet(S), NEW n \in S
  PROVE  place(S, n) \in 1 .. Cardinality(S)
<1>1. place(S, n - 1) < place(S, n)
  <2>1. n - 1 \in Int /\ n - 1 < n
    OBVIOUS
  <2> QED
    BY <2>1, PlaceGrows
<1>2. place(S, n - 1) \in 0 .. Cardinality(S) /\ place(S, n) \in 0 .. Cardinality(S)
  BY PlaceType
<1>3. Cardinality(S) \in Nat
  BY FS_CardinalityType
<1> QED
  BY <1>1, <1>2, <1>3

(* Different numbers have different places, and every place is taken.      *)
LEMMA PlaceUnique ==
  ASSUME NEW S, S \subseteq Int, IsFiniteSet(S), NEW m \in S, NEW n \in S,
         place(S, m) = place(S, n)
  PROVE  m = n
<1>1. /\ m \in Int /\ n \in Int
      /\ place(S, m) \in 0 .. Cardinality(S) /\ place(S, n) \in 0 .. Cardinality(S)
  BY PlaceType
<1>2. ~(m < n)
  <2> SUFFICES ASSUME m < n PROVE FALSE
    OBVIOUS
  <2>1. place(S, m) < place(S, n)
    BY <1>1, PlaceGrows
  <2> QED
    BY <1>1, <2>1
<1>3. ~(n < m)
  <2> SUFFICES ASSUME n < m PROVE FALSE
    OBVIOUS
  <2>1. place(S, n) < place(S, m)
    BY <1>1, PlaceGrows
  <2> QED
    BY <1>1, <2>1
<1> QED
  BY <1>1, <1>2, <1>3

LEMMA PlaceTaken ==
  ASSUME NEW S, S \subseteq Int, IsFiniteSet(S), NEW i \in 1 .. Cardinality(S)
  PROVE  \E n \in S : place(S, n) = i
<1> DEFINE p == [n \in S |-> place(S, n)]
           T == 1 .. Cardinality(S)
<1>1. p \in Injection(S, T)
  <2>1. p \in [S -> T]
    BY PlaceOfMember
  <2>2. \A m, n \in S : p[m] = p[n] => m = n
    BY PlaceUnique
  <2> QED
    BY <2>1, <2>2 DEF Injection, IsInjective
<1>2. Cardinality(S) \in Nat
  BY FS_CardinalityType
<1>3. IsFiniteSet(T) /\ Cardinality(T) = Cardinality(S)
  BY <1>2, FS_Interval
<1>4. p \in Surjection(S, T)
  <2> HIDE DEF p, T
  <2> QED
    BY <1>1, <1>3, FS_Injection
<1>5. \E n \in S : p[n] = i
  BY <1>4 DEF Surjection
<1> QED
  BY <1>5

(* So there is an ascending sequence of the members of a finite set ...    *)
LEMMA AscendingExists ==
  ASSUME NEW S, S \subseteq Int, IsFiniteSet(S)
  PROVE  \E s \in [1 .. Cardinality(S) -> S] : Increasing(s, Cardinality(S))
<1> DEFINE N == Cardinality(S)
           s == [i \in 1 .. N |-> CHOOSE n \in S : place(S, n) = i]
<1>1. N \in Nat
  BY FS_CardinalityType
<1>2. \A i \in 1 .. N : s[i] \in S /\ place(S, s[i]) = i
  BY PlaceTaken
<1>3. s \in [1 .. N -> S]
  BY <1>2
<1> HIDE DEF s, N
<1>4. ASSUME NEW i \in 1 .. N, NEW j \in 1 .. N, i < j PROVE s[i] < s[j]
  <2>1. s[i] \in S /\ s[j] \in S /\ s[i] \in Int /\ s[j] \in Int
    BY <1>2
  <2>2. place(S, s[i]) = i /\ place(S, s[j]) = j
    BY <1>2
  <2>3. CASE s[j] < s[i]
    <3>1. place(S, s[j]) < place(S, s[i])
      BY <2>1, <2>3, PlaceGrows
    <3> QED
      BY <1>1, <1>4, <2>2, <3>1
  <2>4. CASE s[j] = s[i]
    BY <1>1, <1>4, <2>2, <2>4
  <2> QED
    BY <2>1, <2>3, <2>4
<1>5. Increasing(s, N)
  BY <1>4 DEF Increasing
<1> QED
  BY <1>3, <1>5 DEF N

(* ... in which every member stands at its place, so there is only one.    *)
LEMMA IncreasingPlaces ==
  ASSUME NEW S, S \subseteq Int, IsFiniteSet(S), NEW s \in [1 .. Cardinality(S) -> S],
         Increasing(s, Cardinality(S)), NEW i \in 1 .. Cardinality(S)
  PROVE  place(S, s[i]) = i
<1> DEFINE N == Cardinality(S)
           upTo == {m \in S : m <= s[i]}
           f == [j \in 1 .. i |-> s[j]]
<1>1. N \in Nat /\ i \in 1 .. N /\ \A j \in 1 .. N : s[j] \in S /\ s[j] \in Int
  <2>1. N \in Nat
    BY FS_CardinalityType
  <2> QED
    BY <2>1
<1>2. \A j, k \in 1 .. N : s[j] <= s[k] <=> j <= k
  <2> SUFFICES ASSUME NEW j \in 1 .. N, NEW k \in 1 .. N PROVE s[j] <= s[k] <=> j <= k
    OBVIOUS
  <2>1. j \in Int /\ k \in Int /\ s[j] \in Int /\ s[k] \in Int
    BY <1>1
  <2>2. /\ j < k => s[j] < s[k]
        /\ k < j => s[k] < s[j]
        /\ j = k => s[j] = s[k]
    BY DEF Increasing
  <2> QED
    BY <2>1, <2>2
<1>3. \A n \in S : \E j \in 1 .. N : s[j] = n
  <2>1. s \in Injection(1 .. N, S)
    <3>1. ASSUME NEW j \in 1 .. N, NEW k \in 1 .. N, s[j] = s[k] PROVE j = k
      <4>1. j \in Int /\ k \in Int /\ s[j] \in Int /\ s[k] \in Int
        BY <1>1
      <4>2. j <= k /\ k <= j
        BY <1>2, <3>1, <4>1
      <4> QED
        BY <4>1, <4>2
    <3> QED
      BY <3>1 DEF Injection, IsInjective
  <2>2. IsFiniteSet(1 .. N) /\ Cardinality(1 .. N) = N
    BY <1>1, FS_Interval
  <2>3. s \in Surjection(1 .. N, S)
    BY <2>1, <2>2, FS_Injection
  <2> QED
    BY <2>3 DEF Surjection
<1>4. f \in Bijection(1 .. i, upTo)
  <2>1. 1 .. i \subseteq 1 .. N
    BY <1>1
  <2>2. f \in [1 .. i -> upTo]
    <3>1. ASSUME NEW j \in 1 .. i PROVE s[j] \in upTo
      BY <1>1, <1>2, <2>1
    <3> QED
      BY <3>1
  <2>3. \A j, k \in 1 .. i : f[j] = f[k] => j = k
    <3> SUFFICES ASSUME NEW j \in 1 .. i, NEW k \in 1 .. i, s[j] = s[k] PROVE j = k
      OBVIOUS
    <3>1. j \in 1 .. N /\ k \in 1 .. N /\ s[j] \in Int /\ s[k] \in Int
      BY <1>1, <2>1
    <3>2. j <= k /\ k <= j
      BY <1>2, <3>1
    <3> QED
      BY <3>1, <3>2
  <2>4. ASSUME NEW n \in upTo PROVE \E j \in 1 .. i : f[j] = n
    <3>1. PICK j \in 1 .. N : s[j] = n
      BY <1>3
    <3>2. j <= i
      BY <1>2, <3>1
    <3> QED
      BY <1>1, <3>1, <3>2
  <2> HIDE DEF f, upTo
  <2> QED
    BY <2>2, <2>3, <2>4 DEF Bijection, Injection, Surjection, IsInjective
<1>5. Cardinality(upTo) = i
  <2>1. ExistsBijection(1 .. i, upTo)
    BY <1>4 DEF ExistsBijection
  <2> QED
    BY <1>1, <2>1, FS_CountingElements
<1> QED
  BY <1>5 DEF place

LEMMA AscendingIs ==
  ASSUME NEW S, S \subseteq Int, IsFiniteSet(S)
  PROVE  /\ ascending(S) \in [1 .. Cardinality(S) -> S]
         /\ Increasing(ascending(S), Cardinality(S))
         /\ \A i \in 1 .. Cardinality(S) : place(S, ascending(S)[i]) = i
         /\ \A n \in S : ascending(S)[place(S, n)] = n
<1> DEFINE N == Cardinality(S)
           s == ascending(S)
<1>1. s \in [1 .. N -> S] /\ Increasing(s, N)
  BY AscendingExists DEF ascending, Increasing
<1>2. \A i \in 1 .. N : place(S, s[i]) = i
  BY <1>1, IncreasingPlaces
<1>3. ASSUME NEW n \in S PROVE s[place(S, n)] = n
  <2>1. place(S, n) \in 1 .. N
    BY PlaceOfMember
  <2>2. s[place(S, n)] \in S /\ place(S, s[place(S, n)]) = place(S, n)
    BY <1>1, <1>2, <2>1
  <2> QED
    BY <2>2, PlaceUnique
<1> QED
  BY <1>1, <1>2, <1>3

LEMMA AscendingUnique ==
  ASSUME NEW S, S \subseteq Int, IsFiniteSet(S), NEW s \in [1 .. Cardinality(S) -> S],
         Increasing(s, Cardinality(S))
  PROVE  ascending(S) = s
<1>1. ASSUME NEW i \in 1 .. Cardinality(S) PROVE ascending(S)[i] = s[i]
  <2>1. place(S, s[i]) = i /\ place(S, ascending(S)[i]) = i
    BY IncreasingPlaces, AscendingIs
  <2>2. s[i] \in S /\ ascending(S)[i] \in S
    BY AscendingIs
  <2> QED
    BY <2>1, <2>2, PlaceUnique
<1>2. ascending(S) \in [1 .. Cardinality(S) -> S]
  BY AscendingIs
<1> DEFINE N == Cardinality(S)
           t == ascending(S)
<1>3. t \in [1 .. N -> S] /\ s \in [1 .. N -> S] /\ \A i \in 1 .. N : t[i] = s[i]
  BY <1>1, <1>2
<1> HIDE DEF N, t
<1>4. t = s
  <2>1. t = [i \in 1 .. N |-> t[i]] /\ s = [i \in 1 .. N |-> s[i]]
    BY <1>3
  <2>2. [i \in 1 .. N |-> t[i]] = [i \in 1 .. N |-> s[i]]
    BY <1>3
  <2> QED
    BY <2>1, <2>2
<1> QED
  BY <1>4 DEF t

(* A function on 1 .. n is a sequence of length n.                         *)
LEMMA FunctionIsSeq ==
  ASSUME NEW n \in Nat, NEW S, NEW s \in [1 .. n -> S]
  PROVE  s \in Seq(S) /\ Len(s) = n
<1>1. s \in Seq(S)
  BY SeqDef
<1>2. DOMAIN s = 1 .. Len(s) /\ Len(s) \in Nat /\ DOMAIN s = 1 .. n
  BY <1>1, LenProperties
<1>3. Len(s) = n
  <2>1. n # 0 => n \in 1 .. Len(s)
    BY <1>2
  <2>2. Len(s) # 0 => Len(s) \in 1 .. n
    BY <1>2
  <2> QED
    BY <1>2, <2>1, <2>2
<1> QED
  BY <1>1, <1>3

LEMMA SameCells ==
  ASSUME NEW n \in Nat, NEW S, NEW T, NEW s \in [1 .. n -> S], NEW t \in [1 .. n -> T],
         \A i \in 1 .. n : s[i] = t[i]
  PROVE  s = t
<1>1. s = [i \in 1 .. n |-> s[i]] /\ t = [i \in 1 .. n |-> t[i]]
  OBVIOUS
<1>2. [i \in 1 .. n |-> s[i]] = [i \in 1 .. n |-> t[i]]
  OBVIOUS
<1> QED
  BY <1>1, <1>2

LEMMA AscendingEmpty == ascending({}) = <<>>
<1>1. IsFiniteSet({}) /\ Cardinality({}) = 0
  BY FS_EmptySet
<1>2. ascending({}) \in [1 .. 0 -> {}]
  BY <1>1, AscendingIs
<1>3. ascending({}) \in Seq({}) /\ Len(ascending({})) = 0
  BY <1>2, FunctionIsSeq
<1> HIDE DEF ascending
<1> QED
  BY <1>3, EmptySeq

(* Sorting two sets one of which lies below the other is sorting each.     *)
LEMMA AscendingUnion ==
  ASSUME NEW S, S \subseteq Int, IsFiniteSet(S), NEW T, T \subseteq Int, IsFiniteSet(T),
         \A x \in S : \A y \in T : x < y
  PROVE  ascending(S \cup T) = ascending(S) \o ascending(T)
<1> DEFINE m == Cardinality(S)
           n == Cardinality(T)
           s == ascending(S)
           t == ascending(T)
           c == s \o t
<1>1. /\ m \in Nat /\ s \in [1 .. m -> S] /\ Increasing(s, m)
      /\ n \in Nat /\ t \in [1 .. n -> T] /\ Increasing(t, n)
  BY AscendingIs, FS_CardinalityType
<1>2. IsFiniteSet(S \cup T) /\ Cardinality(S \cup T) = m + n
  <2>1. S \cap T = {}
    OBVIOUS
  <2>2. Cardinality(S \cap T) = 0
    BY <2>1, FS_EmptySet
  <2>3. /\ IsFiniteSet(S \cup T)
        /\ Cardinality(S \cup T) = m + n - Cardinality(S \cap T)
    BY FS_Union
  <2> QED
    BY <1>1, <2>2, <2>3
<1>3. S \cup T \subseteq Int
  OBVIOUS
<1> HIDE DEF m, n, s, t
<1>4. s \in Seq(Int) /\ Len(s) = m /\ t \in Seq(Int) /\ Len(t) = n
  <2>1. s \in [1 .. m -> Int] /\ t \in [1 .. n -> Int]
    BY <1>1
  <2> QED
    BY <1>1, <2>1, FunctionIsSeq
<1>5. /\ c \in Seq(Int) /\ Len(c) = m + n
      /\ \A i \in 1 .. m + n : c[i] = IF i <= m THEN s[i] ELSE t[i - m]
  BY <1>4, ConcatProperties
<1> HIDE DEF c
<1>6. c \in [1 .. m + n -> S \cup T]
  <2>1. c \in [1 .. m + n -> Int]
    BY <1>5, LenProperties
  <2>2. ASSUME NEW i \in 1 .. m + n PROVE c[i] \in S \cup T
    <3>1. CASE i <= m
      BY <1>1, <1>5, <3>1
    <3>2. CASE ~(i <= m)
      <4>1. i - m \in 1 .. n
        BY <1>1, <3>2
      <4> QED
        BY <1>1, <1>5, <3>2, <4>1
    <3> QED
      BY <3>1, <3>2
  <2> QED
    BY <2>1, <2>2
<1>7. Increasing(c, m + n)
  <2> SUFFICES ASSUME NEW i \in 1 .. m + n, NEW j \in 1 .. m + n, i < j PROVE c[i] < c[j]
    BY DEF Increasing
  <2>1. CASE j <= m
    <3>1. i \in 1 .. m /\ j \in 1 .. m /\ i <= m
      BY <1>1, <2>1
    <3> QED
      BY <1>1, <1>5, <2>1, <3>1 DEF Increasing
  <2>2. CASE i <= m /\ ~(j <= m)
    <3>1. i \in 1 .. m /\ j - m \in 1 .. n
      BY <1>1, <2>2
    <3>2. s[i] \in S /\ t[j - m] \in T /\ c[i] = s[i] /\ c[j] = t[j - m]
      BY <1>1, <1>5, <2>2, <3>1
    <3> QED
      BY <3>2
  <2>3. CASE ~(i <= m)
    <3>1. i - m \in 1 .. n /\ j - m \in 1 .. n /\ i - m < j - m /\ ~(j <= m)
      BY <1>1, <2>3
    <3>2. c[i] = t[i - m] /\ c[j] = t[j - m]
      BY <1>5, <2>3, <3>1
    <3> QED
      BY <1>1, <3>1, <3>2 DEF Increasing
  <2> QED
    BY <2>1, <2>2, <2>3
<1>8. ascending(S \cup T) = c
  BY <1>2, <1>3, <1>6, <1>7, AscendingUnique
<1> QED
  BY <1>8 DEF c, s, t

-----------------------------------------------------------------------------
(* The search in chunks.                                                   *)
LEMMA RangeFinite ==
  ASSUME NEW start \in Int, NEW end \in Int, NEW S, S \subseteq start .. end
  PROVE  S \subseteq Int /\ IsFiniteSet(S)
<1>1. S \subseteq Int
  OBVIOUS
<1>2. IsFiniteSet(start .. end)
  BY FS_Interval
<1> QED
  BY <1>1, <1>2, FS_Subset

(* A chunk and what follows it make the range.                             *)
LEMMA ChunkAndRest ==
  ASSUME NEW stored, NEW n \in Int, NEW m \in Int, NEW end \in Int, n <= m, m <= end
  PROVE  find_missing_blocks_in_range(stored, n, m)
           \o find_missing_blocks_in_range(stored, m + 1, end)
           = find_missing_blocks_in_range(stored, n, end)
<1> DEFINE S == (n .. m) \ stored
           T == ((m + 1) .. end) \ stored
<1>1. S \cup T = (n .. end) \ stored
  OBVIOUS
<1>2. S \subseteq Int /\ IsFiniteSet(S) /\ T \subseteq Int /\ IsFiniteSet(T)
  <2>1. S \subseteq n .. m /\ T \subseteq (m + 1) .. end /\ m + 1 \in Int
    OBVIOUS
  <2> QED
    BY <2>1, RangeFinite
<1>3. \A x \in S : \A y \in T : x < y
  OBVIOUS
<1> HIDE DEF S, T
<1>4. ascending(S \cup T) = ascending(S) \o ascending(T)
  BY <1>2, <1>3, AscendingUnion
<1> QED
  BY <1>1, <1>4 DEF find_missing_blocks_in_range, S, T

LEMMA ChunkedIsRange ==
  ASSUME NEW stored, NEW start \in Int, NEW end \in Int, start <= end,
         NEW size \in Nat \ {0}
  PROVE  find_missing_blocks_chunked(stored, start, end, size)
           = find_missing_blocks_in_range(stored, start, end)
<1> DEFINE current_end(n) == Min({n + size - 1, end})
           D == start .. end + 1
           found(n) == find_missing_blocks_in_range(stored, n, end)
           whole == [n \in D |-> found(n)]
           Solves(f) ==
             f = [n \in D |->
                    IF n > end THEN <<>>
                    ELSE find_missing_blocks_in_range(stored, n, current_end(n))
                           \o f[next_chunk(current_end(n))]]
           missing_from == CHOOSE f : Solves(f)
<1>1. find_missing_blocks_chunked(stored, start, end, size) = missing_from[start]
  BY DEF find_missing_blocks_chunked
<1>2. ASSUME NEW n \in D, ~(n > end)
      PROVE  /\ current_end(n) \in Int /\ n <= current_end(n) /\ current_end(n) <= end
             /\ next_chunk(current_end(n)) = current_end(n) + 1
             /\ next_chunk(current_end(n)) \in D /\ n < next_chunk(current_end(n))
  <2>1. n \in Int /\ n + size - 1 \in Int /\ n <= n + size - 1 /\ n <= end
    BY <1>2
  <2>2. current_end(n) = IF n + size - 1 <= end THEN n + size - 1 ELSE end
    BY <2>1, MinOfTwo
  <2> HIDE DEF current_end
  <2> QED
    BY <2>1, <2>2 DEF next_chunk
<1> HIDE DEF current_end
<1>3. found(end + 1) = <<>>
  <2>1. ((end + 1) .. end) \ stored = {}
    OBVIOUS
  <2> QED
    BY <2>1, AscendingEmpty DEF find_missing_blocks_in_range
<1>4. ASSUME NEW n \in D, n > end PROVE n = end + 1
  BY <1>4
<1>5. ASSUME NEW n \in D, ~(n > end)
      PROVE  find_missing_blocks_in_range(stored, n, current_end(n))
               \o found(next_chunk(current_end(n))) = found(n)
  <2> HIDE DEF missing_from, whole, Solves
  <2>1. /\ n \in Int /\ current_end(n) \in Int /\ n <= current_end(n)
        /\ current_end(n) <= end /\ next_chunk(current_end(n)) = current_end(n) + 1
    BY <1>2, <1>5
  <2> HIDE DEF D
  <2>2. find_missing_blocks_in_range(stored, n, current_end(n))
          \o find_missing_blocks_in_range(stored, current_end(n) + 1, end)
          = find_missing_blocks_in_range(stored, n, end)
    BY <2>1, ChunkAndRest
  <2> QED
    BY <2>1, <2>2
<1> HIDE DEF found
<1>6. Solves(whole)
  <2>1. ASSUME NEW n \in D
        PROVE  found(n) = IF n > end THEN <<>>
                          ELSE find_missing_blocks_in_range(stored, n, current_end(n))
                                 \o whole[next_chunk(current_end(n))]
    <3>1. CASE n > end
      BY <1>3, <1>4, <3>1
    <3>2. CASE ~(n > end)
      <4>1. whole[next_chunk(current_end(n))] = found(next_chunk(current_end(n)))
        BY <1>2, <3>2
      <4> QED
        BY <1>5, <3>2, <4>1
    <3> QED
      BY <3>1, <3>2
  <2> QED
    BY <2>1
<1>7. Solves(missing_from)
  BY <1>6
<1> HIDE DEF whole, missing_from
<1>8. ASSUME NEW n \in D
      PROVE  /\ n > end => missing_from[n] = <<>>
             /\ ~(n > end) =>
                  missing_from[n] =
                    find_missing_blocks_in_range(stored, n, current_end(n))
                      \o missing_from[next_chunk(current_end(n))]
  BY <1>7
<1> HIDE DEF Solves
<1> DEFINE bad == {k \in Nat : \E n \in D : k = (end + 1) - n /\ missing_from[n] # found(n)}
<1>9. bad = {}
  <2> SUFFICES ASSUME bad # {} PROVE FALSE
    OBVIOUS
  <2>1. PICK k \in bad : \A j \in bad : k <= j
    <3>1. bad \subseteq Nat
      OBVIOUS
    <3> HIDE DEF bad
    <3> QED
      BY <3>1, LeastNumber
  <2>2. PICK n \in D : k = (end + 1) - n /\ missing_from[n] # found(n)
    OBVIOUS
  <2>3. CASE n > end
    BY <1>3, <1>4, <1>8, <2>2, <2>3
  <2>4. CASE ~(n > end)
    <3> DEFINE next == next_chunk(current_end(n))
    <3>1. next \in D /\ n < next
      BY <1>2, <2>4
    <3> HIDE DEF next
    <3>2. (end + 1) - next \in Nat /\ (end + 1) - next < k
      BY <2>2, <3>1
    <3>3. (end + 1) - next \notin bad
      <4> HIDE DEF bad
      <4>1. k \in Int
        BY <2>2
      <4> QED
        BY <2>1, <3>2, <4>1
    <3>4. missing_from[next] = found(next)
      BY <3>1, <3>2, <3>3
    <3>5. missing_from[n] = found(n)
      BY <1>5, <1>8, <2>4, <3>4 DEF next
    <3> QED
      BY <2>2, <3>5
  <2> QED
    BY <2>3, <2>4
<1>10. start \in D /\ (end + 1) - start \in Nat
  OBVIOUS
<1>11. missing_from[start] = found(start)
  BY <1>9, <1>10
<1> QED
  BY <1>1, <1>11 DEF found

(* The first missing number heads the list of them.                        *)
LEMMA FirstGapIsHead ==
  ASSUME NEW stored, NEW start \in Int, NEW end \in Int, start <= end, NEW none
  PROVE  find_first_gap(stored, start, end, none)
           = IF find_missing_blocks_in_range(stored, start, end) = <<>> THEN none
             ELSE find_missing_blocks_in_range(stored, start, end)[1]
<1> DEFINE M == (start .. end) \ stored
           s == ascending(M)
           N == Cardinality(M)
<1>1. missing_numbers(stored, start, end) = M
  BY DEF missing_numbers, number_series
<1>2. /\ find_missing_blocks_in_range(stored, start, end) = s
      /\ find_first_gap(stored, start, end, none) = IF M = {} THEN none ELSE Min(M)
  BY <1>1 DEF find_missing_blocks_in_range, find_first_gap
<1>3. M \subseteq Int /\ IsFiniteSet(M)
  <2>1. M \subseteq start .. end
    OBVIOUS
  <2> QED
    BY <2>1, RangeFinite
<1>4. /\ s \in [1 .. N -> M] /\ Increasing(s, N) /\ N \in Nat
      /\ \A n \in M : place(M, n) \in 1 .. N /\ s[place(M, n)] = n
  BY <1>3, AscendingIs, FS_CardinalityType, PlaceOfMember
<1>5. \A x \in M : start <= x
  OBVIOUS
<1>6. CASE M = {}
  BY <1>2, <1>6, AscendingEmpty
<1>7. CASE M # {}
  <2>1. Min(M) \in M /\ \A y \in M : Min(M) <= y
    BY <1>3, <1>5, <1>7, MinOfBounded
  <2> HIDE DEF M, s, N
  <2>2. 1 \in 1 .. N
    BY <1>4, <1>7
  <2>3. s[1] \in M /\ s[1] \in Int /\ Min(M) \in Int
    BY <1>3, <1>4, <2>1, <2>2
  <2>4. s[1] <= Min(M)
    <3> DEFINE i == place(M, Min(M))
    <3>1. i \in 1 .. N /\ s[i] = Min(M)
      BY <1>4, <2>1
    <3> HIDE DEF i
    <3>2. CASE i = 1
      BY <2>3, <3>1, <3>2
    <3>3. CASE i # 1
      <4>1. 1 < i
        BY <3>1, <3>3
      <4>2. s[1] < s[i]
        BY <1>4, <2>2, <3>1, <4>1 DEF Increasing
      <4> QED
        BY <2>3, <3>1, <4>2
    <3> QED
      BY <3>2, <3>3
  <2>5. s[1] = Min(M)
    BY <2>1, <2>3, <2>4
  <2>6. s # <<>>
    <3>1. s \in Seq(M) /\ Len(s) = N
      BY <1>4, FunctionIsSeq
    <3>2. Len(<<>>) = 0
      BY EmptySeq
    <3> QED
      BY <1>4, <2>2, <3>1, <3>2
  <2> QED
    BY <1>2, <1>7, <2>5, <2>6
<1> QED
  BY <1>6, <1>7

-----------------------------------------------------------------------------
(* The groups.  Two missing numbers have the same difference to their row  *)
(* number exactly when everything between them is missing.                 *)
LEMMA PlaceStep ==
  ASSUME NEW M, M \subseteq Int, IsFiniteSet(M), NEW a \in Int, NEW b \in Int, a <= b
  PROVE  /\ place(M, b) - place(M, a) \in 0 .. b - a
         /\ place(M, b) - place(M, a) = b - a <=> a + 1 .. b \subseteq M
<1> DEFINE upTo(k) == {m \in M : m <= k}
           between == M \cap (a + 1 .. b)
<1>1. /\ IsFiniteSet(upTo(a)) /\ Cardinality(upTo(a)) \in Nat
      /\ IsFiniteSet(upTo(b)) /\ Cardinality(upTo(b)) \in Nat
  <2>1. IsFiniteSet(upTo(a)) /\ IsFiniteSet(upTo(b))
    BY PlaceType
  <2> QED
    BY <2>1, FS_CardinalityType
<1>2. IsFiniteSet(a + 1 .. b) /\ Cardinality(a + 1 .. b) = b - a
  <2>1. a + 1 \in Int /\ (b - (a + 1)) + 1 = b - a /\ (a + 1 > b => b - a = 0)
    OBVIOUS
  <2> QED
    BY <2>1, FS_Interval
<1>3. /\ IsFiniteSet(between) /\ Cardinality(between) \in Nat
      /\ Cardinality(between) <= b - a
      /\ Cardinality(between) = b - a => between = a + 1 .. b
  <2>1. between \subseteq a + 1 .. b
    OBVIOUS
  <2> HIDE DEF between
  <2> QED
    BY <1>2, <2>1, FS_Subset, FS_CardinalityType
<1>4. upTo(b) = upTo(a) \cup between /\ upTo(a) \cap between = {}
  <2>1. ASSUME NEW m \in M
        PROVE  /\ m <= b <=> m <= a \/ m \in a + 1 .. b
               /\ ~(m <= a /\ m \in a + 1 .. b)
    <3>1. m \in Int
      OBVIOUS
    <3> QED
      BY <3>1
  <2> QED
    BY <2>1
<1>5. Cardinality(upTo(b)) = Cardinality(upTo(a)) + Cardinality(between)
  <2> HIDE DEF between, upTo
  <2>1. Cardinality(upTo(a) \cup between) =
          Cardinality(upTo(a)) + Cardinality(between) - Cardinality(upTo(a) \cap between)
    BY <1>1, <1>3, FS_Union
  <2>2. Cardinality(upTo(a) \cap between) = 0
    BY <1>4, FS_EmptySet
  <2> QED
    BY <1>1, <1>3, <1>4, <2>1, <2>2
<1>6. place(M, b) - place(M, a) = Cardinality(between)
  <2>1. place(M, b) = Cardinality(upTo(b)) /\ place(M, a) = Cardinality(upTo(a))
    BY DEF place
  <2> HIDE DEF between, upTo
  <2> QED
    BY <1>1, <1>3, <1>5, <2>1
<1>7. between = a + 1 .. b <=> a + 1 .. b \subseteq M
  OBVIOUS
<1> HIDE DEF between
<1> QED
  BY <1>2, <1>3, <1>6, <1>7

LEMMA SameGroup ==
  ASSUME NEW M, M \subseteq Int, IsFiniteSet(M), NEW stored,
         NEW a \in M, NEW b \in M, a <= b
  PROVE  gap_group(M, stored, a) = gap_group(M, stored, b) <=> a .. b \subseteq M
<1>1. a \in Int /\ b \in Int
  OBVIOUS
<1>2. place(M, a) \in Int /\ place(M, b) \in Int
  <2>1. place(M, a) \in 0 .. Cardinality(M) /\ place(M, b) \in 0 .. Cardinality(M)
    BY PlaceType
  <2> QED
    BY <2>1
<1>3. gap_group(M, stored, a) = a - place(M, a) /\ gap_group(M, stored, b) = b - place(M, b)
  BY DEF gap_group, place
<1>4. a .. b = {a} \cup (a + 1 .. b)
  BY <1>1
<1>5. place(M, b) - place(M, a) = b - a <=> a + 1 .. b \subseteq M
  BY <1>1, PlaceStep
<1> QED
  BY <1>1, <1>2, <1>3, <1>4, <1>5

(* The group of a missing number is the run of missing numbers around it.  *)
Group(M, stored, n) ==
  {m \in M : gap_group(M, stored, m) = gap_group(M, stored, n)}

LEMMA GroupIsRun ==
  ASSUME NEW start \in Int, NEW end \in Int, NEW M, M \subseteq start .. end,
         NEW stored, NEW n \in M
  PROVE  LET G == Group(M, stored, n)
         IN  /\ Min(G) \in G /\ Max(G) \in G /\ n \in G
             /\ Min(G) \in Int /\ Max(G) \in Int /\ n \in Int
             /\ Min(G) <= n /\ n <= Max(G)
             /\ Min(G) .. Max(G) \subseteq M
             /\ \A g \in G : Min(G) <= g /\ g <= Max(G)
<1> DEFINE G == Group(M, stored, n)
<1>1. M \subseteq Int /\ IsFiniteSet(M)
  BY RangeFinite
<1>2. /\ n \in G /\ G \subseteq M /\ G \subseteq Int
      /\ \A g \in G : /\ start <= g /\ g <= end
                      /\ gap_group(M, stored, g) = gap_group(M, stored, n)
  <2>1. n \in G
    BY DEF Group
  <2>2. ASSUME NEW g \in G
        PROVE  g \in M /\ gap_group(M, stored, g) = gap_group(M, stored, n)
    BY DEF Group
  <2> HIDE DEF G
  <2>3. ASSUME NEW g \in G PROVE g \in Int /\ start <= g /\ g <= end
    <3>1. g \in start .. end
      BY <2>2
    <3> QED
      BY <3>1
  <2> QED
    BY <2>1, <2>2, <2>3
<1> HIDE DEF G
<1>3. Min(G) \in G /\ \A g \in G : Min(G) <= g
  BY <1>2, MinOfBounded
<1>4. Max(G) \in G /\ \A g \in G : g <= Max(G)
  BY <1>2, MaxOfBounded
<1>5. Min(G) \in M /\ Max(G) \in M /\ Min(G) <= Max(G)
      /\ gap_group(M, stored, Min(G)) = gap_group(M, stored, Max(G))
  BY <1>2, <1>3, <1>4
<1>6. Min(G) .. Max(G) \subseteq M
  BY <1>1, <1>5, SameGroup
<1>7. n \in Int /\ Min(G) \in Int /\ Max(G) \in Int
  BY <1>2, <1>3, <1>4
<1> QED
  BY <1>2, <1>3, <1>4, <1>6, <1>7 DEF G

(* The first number of a group is the first of its own group.              *)
LEMMA GroupOfFirst ==
  ASSUME NEW start \in Int, NEW end \in Int, NEW M, M \subseteq start .. end,
         NEW stored, NEW n \in M
  PROVE  /\ Min(Group(M, stored, n)) \in M
         /\ Group(M, stored, Min(Group(M, stored, n))) = Group(M, stored, n)
<1> DEFINE p == Min(Group(M, stored, n))
<1>1. p \in Group(M, stored, n)
  BY GroupIsRun
<1> HIDE DEF p
<1>2. p \in M /\ gap_group(M, stored, p) = gap_group(M, stored, n)
  BY <1>1 DEF Group
<1>3. Group(M, stored, p) = Group(M, stored, n)
  BY <1>2 DEF Group
<1> QED
  BY <1>2, <1>3 DEF p

LEMMA RangesAreExact ==
  ASSUME NEW stored, NEW start \in Int, NEW end \in Int, start <= end
  PROVE  RangesExact(stored, start, end)
<1> SUFFICES ASSUME NEW M, M = (start .. end) \ stored
             PROVE  RangesExact(stored, start, end)
  OBVIOUS
<1> DEFINE G(n) == Group(M, stored, n)
           Firsts == {Min(G(n)) : n \in M}
           N == Cardinality(Firsts)
           first == ascending(Firsts)
           ranges == [i \in 1 .. N |-> <<first[i], Max(G(first[i]))>>]
<1>1. missing_numbers(stored, start, end) = M
  BY DEF missing_numbers, number_series
<1>2. M \subseteq start .. end /\ M \subseteq Int /\ IsFiniteSet(M)
  <2>1. M \subseteq start .. end
    OBVIOUS
  <2> QED
    BY <2>1, RangeFinite
<1>3. ASSUME NEW n \in M PROVE Min(G(n)) \in M /\ G(Min(G(n))) = G(n)
  <2> HIDE DEF Firsts, N, first, ranges
  <2> QED
    BY <1>2, GroupOfFirst
<1>4. Firsts \subseteq M
  BY <1>3
<1>5. Firsts \subseteq Int /\ IsFiniteSet(Firsts)
  <2> HIDE DEF Firsts
  <2> QED
    BY <1>2, <1>4, FS_Subset
<1>6. /\ N \in Nat /\ first \in [1 .. N -> Firsts] /\ Increasing(first, N)
      /\ \A p \in Firsts : place(Firsts, p) \in 1 .. N /\ first[place(Firsts, p)] = p
  <2> HIDE DEF Firsts
  <2> QED
    BY <1>5, AscendingIs, FS_CardinalityType, PlaceOfMember
<1>7. find_missing_block_ranges(stored, start, end) = ranges
  <2>1. find_missing_block_ranges(stored, start, end)
          = [i \in DOMAIN first |-> <<first[i], Max(G(first[i]))>>]
    BY <1>1 DEF find_missing_block_ranges, Group
  <2>2. DOMAIN first = 1 .. N
    BY <1>6
  <2> QED
    BY <2>1, <2>2
<1>8. \A p \in Firsts : p \in M /\ Min(G(p)) = p
  BY <1>3
<1>9. ASSUME NEW p \in Firsts
      PROVE  /\ p \in Int /\ Max(G(p)) \in Int /\ p <= Max(G(p))
             /\ p .. Max(G(p)) \subseteq M
             /\ Max(G(p)) \in G(p)
  <2>1. p \in M /\ Min(G(p)) = p
    BY <1>8
  <2> HIDE DEF Firsts
  <2> QED
    BY <1>2, <2>1, GroupIsRun
(* A hole lies in the range of its group.                                  *)
<1>10. ASSUME NEW n \in M PROVE \E p \in Firsts : n \in p .. Max(G(p))
  <2>1. Min(G(n)) \in Firsts /\ G(Min(G(n))) = G(n)
    BY <1>3
  <2>2. /\ Min(G(n)) <= n /\ n <= Max(G(n)) /\ n \in Int
        /\ Min(G(n)) \in Int /\ Max(G(n)) \in Int
    BY <1>2, GroupIsRun
  <2> HIDE DEF Firsts
  <2> QED
    BY <2>1, <2>2
(* Ranges neither overlap nor touch: they would be one group.              *)
<1>11. ASSUME NEW p \in Firsts, NEW q \in Firsts, p < q
       PROVE  Max(G(p)) + 1 < q
  <2>1. /\ p \in M /\ q \in M /\ p \in Int /\ q \in Int /\ Max(G(p)) \in Int
        /\ p .. Max(G(p)) \subseteq M
        /\ Min(G(p)) = p /\ Min(G(q)) = q
    BY <1>8, <1>9
  <2> HIDE DEF Firsts
  <2> SUFFICES ASSUME q <= Max(G(p)) + 1 PROVE FALSE
    BY <2>1
  <2>2. p .. q \subseteq M
    <3>1. p .. q \subseteq (p .. Max(G(p))) \cup {q}
      BY <2>1
    <3> QED
      BY <2>1, <3>1
  <2>3. gap_group(M, stored, p) = gap_group(M, stored, q)
    <3> HIDE DEF G, N, first, ranges
    <3>1. p <= q
      BY <1>11, <2>1
    <3> QED
      BY <1>2, <2>1, <2>2, <3>1, SameGroup
  <2>4. G(p) = G(q)
    BY <2>3 DEF Group
  <2> QED
    BY <1>11, <2>1, <2>4
<1> HIDE DEF Firsts, N, first, G
<1>12. ranges = [i \in 1 .. N |-> <<first[i], Max(G(first[i]))>>]
  OBVIOUS
<1> HIDE DEF ranges
<1>13. /\ DOMAIN ranges = 1 .. N
       /\ \A i \in 1 .. N : ranges[i][1] = first[i] /\ ranges[i][2] = Max(G(first[i]))
                            /\ first[i] \in Firsts
  BY <1>6, <1>12
<1>14. UNION {ranges[i][1] .. ranges[i][2] : i \in DOMAIN ranges} = M
  <2>1. ASSUME NEW i \in 1 .. N PROVE ranges[i][1] .. ranges[i][2] \subseteq M
    BY <1>9, <1>13
  <2>2. ASSUME NEW n \in M PROVE \E i \in 1 .. N : n \in ranges[i][1] .. ranges[i][2]
    <3>1. PICK p \in Firsts : n \in p .. Max(G(p))
      BY <1>10
    <3>2. place(Firsts, p) \in 1 .. N /\ first[place(Firsts, p)] = p
      BY <1>6
    <3> QED
      BY <1>13, <3>1, <3>2
  <2> QED
    BY <1>13, <2>1, <2>2
<1>15. \A i \in DOMAIN ranges : ranges[i][1] <= ranges[i][2]
  BY <1>9, <1>13
<1>16. Len(ranges) = N
  <2>1. ranges \in [1 .. N -> {ranges[i] : i \in 1 .. N}]
    BY <1>12
  <2> QED
    BY <1>6, <2>1, FunctionIsSeq
<1>17. ASSUME NEW i \in 1 .. Len(ranges) - 1
       PROVE  ranges[i][2] + 1 < ranges[i + 1][1]
  <2>1. i \in 1 .. N /\ i + 1 \in 1 .. N /\ i < i + 1
    BY <1>6, <1>16
  <2>2. first[i] < first[i + 1] /\ first[i] \in Firsts /\ first[i + 1] \in Firsts
    BY <1>6, <2>1 DEF Increasing
  <2>3. Max(G(first[i])) + 1 < first[i + 1]
    BY <1>11, <2>2
  <2> QED
    BY <1>13, <2>1, <2>3
<1> QED
  BY <1>7, <1>14, <1>15, <1>17 DEF RangesExact

-----------------------------------------------------------------------------
(* For every table and range: find_missing_block_ranges returns the missing*)
(* numbers, in ranges that are as long as they can be and in order; the    *)
(* search in chunks of any size finds what one search finds; and what it   *)
(* finds first is what find_first_gap finds.                               *)
THEOREM SearchesAgree ==
  ASSUME NEW stored, NEW start \in Int, NEW end \in Int, start <= end, NEW none
  PROVE  RangesExact(stored, start, end) /\ ChunksAgree(stored, start, end, none)
<1>1. ASSUME NEW size \in 1 .. end - start + 2
      PROVE  find_missing_blocks_chunked(stored, start, end, size)
               = find_missing_blocks_in_range(stored, start, end)
  <2>1. size \in Nat \ {0}
    OBVIOUS
  <2> QED
    BY <2>1, ChunkedIsRange
<1> QED
  BY <1>1, FirstGapIsHead, RangesAreExact DEF ChunksAgree
=============================================================================

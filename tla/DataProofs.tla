----------------------------- MODULE DataProofs -----------------------------
(***************************************************************************)
(* Facts about data that the proofs of several components rest on: the     *)
(* bytes of sets of chunks, least numbers, induction along an interval,    *)
(* remainders and multiples.                                               *)
(***************************************************************************)
EXTENDS Integers, FiniteSets, Functions, FiniteSetTheorems, WellFoundedInduction, TLAPS

-----------------------------------------------------------------------------
(* Bytes of sets of chunks.  L gives each chunk its length; the k-th byte of  *)
(* a chunk is <<c, k>>.                                                       *)

BytesIn(L, S) == UNION {{c} \X (1..L[c]) : c \in S}
ByteCount(L, S) == Cardinality(BytesIn(L, S))

\* A chunk has as many bytes as its length says.
LEMMA OneChunkBytes ==
  ASSUME NEW D, IsFiniteSet(D), NEW L \in [D -> Nat],
         NEW c \in D
  PROVE  /\ IsFiniteSet({c} \X (1..L[c]))
         /\ Cardinality({c} \X (1..L[c])) = L[c]
<1> DEFINE n == L[c]
           K == 1..n
<1>1. n \in Nat /\ n \in Int /\ 1 \in Int
  OBVIOUS
<1> HIDE DEF n
<1>2. IsFiniteSet(K) /\ Cardinality(K) = IF 1 > n THEN 0 ELSE n - 1 + 1
  BY <1>1, FS_Interval, Zenon
<1>3. Cardinality(K) = n
  BY <1>1, <1>2
<1>4. IsFiniteSet({c}) /\ Cardinality({c}) = 1
  BY FS_Singleton
<1> HIDE DEF K
<1>5. IsFiniteSet({c} \X K) /\ Cardinality({c} \X K) = Cardinality({c}) * Cardinality(K)
  BY <1>2, <1>4, FS_Product, Zenon
<1>6. Cardinality({c} \X K) = n
  BY <1>1, <1>3, <1>4, <1>5
<1> QED
  BY <1>5, <1>6 DEF K, n

LEMMA ByteCountFinite ==
  ASSUME NEW D, IsFiniteSet(D), NEW L \in [D -> Nat],
         NEW S \in SUBSET D
  PROVE  /\ IsFiniteSet(BytesIn(L, S))
         /\ ByteCount(L, S) = Cardinality(BytesIn(L, S))
         /\ ByteCount(L, S) \in Nat
<1> DEFINE F == {{c} \X (1..L[c]) : c \in S}
<1>1. IsFiniteSet(S)
  BY FS_Subset
<1>2. IsFiniteSet(F)
  <2> DEFINE f == [c \in S |-> {c} \X (1..L[c])]
  <2>1. f \in Surjection(S, F)
    BY DEF Surjection
  <2> QED
    BY <1>1, <2>1, FS_Surjection
<1>3. \A T \in F : IsFiniteSet(T)
  BY OneChunkBytes
<1> HIDE DEF F
<1>4. IsFiniteSet(UNION F)
  BY <1>2, <1>3, FS_UNION
<1>5. IsFiniteSet(BytesIn(L, S))
  BY <1>4 DEF BytesIn, F
<1> QED
  BY <1>5, FS_CardinalityType DEF ByteCount

\* More chunks, more bytes.
LEMMA ByteCountMonotone ==
  ASSUME NEW D, IsFiniteSet(D), NEW L \in [D -> Nat],
         NEW T \in SUBSET D, NEW S \in SUBSET T
  PROVE  ByteCount(L, S) <= ByteCount(L, T)
<1>1. BytesIn(L, S) \subseteq BytesIn(L, T)
  BY DEF BytesIn
<1>2. /\ IsFiniteSet(BytesIn(L, T))
      /\ ByteCount(L, S) = Cardinality(BytesIn(L, S)) /\ ByteCount(L, T) = Cardinality(BytesIn(L, T))
  BY ByteCountFinite
<1> QED
  BY <1>1, <1>2, FS_Subset

\* The bytes of two sets of chunks are at most those of both.
LEMMA ByteCountUnion ==
  ASSUME NEW D, IsFiniteSet(D), NEW L \in [D -> Nat],
         NEW S \in SUBSET D, NEW T \in SUBSET D
  PROVE  ByteCount(L, S \cup T) <= ByteCount(L, S) + ByteCount(L, T)
<1> DEFINE A == BytesIn(L, S)
           B == BytesIn(L, T)
<1>1. BytesIn(L, S \cup T) = A \cup B
  BY DEF BytesIn
<1>2. /\ IsFiniteSet(A) /\ ByteCount(L, S) = Cardinality(A)
      /\ IsFiniteSet(B) /\ ByteCount(L, T) = Cardinality(B)
      /\ ByteCount(L, S \cup T) = Cardinality(BytesIn(L, S \cup T))
  BY ByteCountFinite
<1> HIDE DEF A, B
<1>3. Cardinality(A \cup B) = Cardinality(A) + Cardinality(B) - Cardinality(A \cap B)
  BY <1>2, FS_Union
<1>4. Cardinality(A) \in Nat /\ Cardinality(B) \in Nat /\ Cardinality(A \cap B) \in Nat
  BY <1>2, FS_Intersection, FS_CardinalityType
<1>5. ByteCount(L, S \cup T) = Cardinality(A \cup B)
  BY <1>1, <1>2, Zenon
<1>6. Cardinality(A \cup B) <= Cardinality(A) + Cardinality(B)
  BY <1>3, <1>4
<1> QED
  BY <1>2, <1>5, <1>6, Zenon

\* The bytes of two disjoint sets of chunks.
LEMMA ByteCountDisjoint ==
  ASSUME NEW D, IsFiniteSet(D), NEW L \in [D -> Nat],
         NEW S \in SUBSET D, NEW T \in SUBSET D, S \cap T = {}
  PROVE  ByteCount(L, S \cup T) = ByteCount(L, S) + ByteCount(L, T)
<1> DEFINE A == BytesIn(L, S)
           B == BytesIn(L, T)
<1>1. BytesIn(L, S \cup T) = A \cup B /\ A \cap B = {}
  BY DEF BytesIn
<1>2. /\ IsFiniteSet(A) /\ ByteCount(L, S) = Cardinality(A)
      /\ IsFiniteSet(B) /\ ByteCount(L, T) = Cardinality(B)
      /\ ByteCount(L, S \cup T) = Cardinality(BytesIn(L, S \cup T))
  BY ByteCountFinite
<1> HIDE DEF A, B
<1>3. Cardinality(A \cup B) = Cardinality(A) + Cardinality(B) - Cardinality(A \cap B)
  BY <1>2, FS_Union
<1>4. Cardinality(A \cap B) = 0 /\ Cardinality(A) \in Nat /\ Cardinality(B) \in Nat
  BY <1>1, <1>2, FS_EmptySet, FS_CardinalityType
<1>5. Cardinality(A \cup B) = Cardinality(A) + Cardinality(B)
  BY <1>3, <1>4
<1> QED
  BY <1>1, <1>2, <1>5, Zenon

\* One chunk more.
LEMMA ByteCountAdd ==
  ASSUME NEW D, IsFiniteSet(D), NEW L \in [D -> Nat],
         NEW S \in SUBSET D, NEW c \in D, c \notin S
  PROVE  ByteCount(L, S \cup {c}) = ByteCount(L, S) + L[c]
<1> DEFINE A == BytesIn(L, S)
           B == {c} \X (1..L[c])
<1>1. BytesIn(L, S \cup {c}) = A \cup B
  BY DEF BytesIn
<1>2. A \cap B = {}
  BY DEF BytesIn
<1>3. /\ IsFiniteSet(A) /\ ByteCount(L, S) = Cardinality(A)
      /\ ByteCount(L, S \cup {c}) = Cardinality(BytesIn(L, S \cup {c}))
  BY ByteCountFinite
<1>4. IsFiniteSet(B) /\ Cardinality(B) = L[c]
  BY OneChunkBytes
<1> HIDE DEF A, B
<1>5. Cardinality(A \cup B) = Cardinality(A) + Cardinality(B) - Cardinality(A \cap B)
  BY <1>3, <1>4, FS_Union
<1>6. Cardinality(A \cap B) = 0
  BY <1>2, FS_EmptySet
<1>7. Cardinality(A) \in Nat /\ Cardinality(B) \in Nat
  BY <1>3, <1>4, FS_CardinalityType
<1>8. ByteCount(L, S \cup {c}) = Cardinality(A \cup B)
  BY <1>1, <1>3, Zenon
<1>9. Cardinality(A \cup B) = Cardinality(A) + Cardinality(B)
  BY <1>5, <1>6, <1>7
<1> QED
  BY <1>3, <1>4, <1>8, <1>9, Zenon

\* One chunk less.
LEMMA ByteCountRemove ==
  ASSUME NEW D, IsFiniteSet(D), NEW L \in [D -> Nat],
         NEW S \in SUBSET D, NEW c \in S
  PROVE  ByteCount(L, S \ {c}) = ByteCount(L, S) - L[c]
<1> DEFINE T == S \ {c}
<1>1. T \in SUBSET D /\ c \in D /\ c \notin T /\ T \cup {c} = S
  OBVIOUS
<1> HIDE DEF T
<1>2. ByteCount(L, S) = ByteCount(L, T) + L[c]
  BY <1>1, ByteCountAdd
<1>3. ByteCount(L, S) \in Nat /\ ByteCount(L, T) \in Nat /\ L[c] \in Nat
  BY <1>1, ByteCountFinite
<1>4. ByteCount(L, T) = ByteCount(L, S) - L[c]
  BY <1>2, <1>3
<1> QED
  BY <1>4 DEF T

LEMMA ByteCountOne ==
  ASSUME NEW D, IsFiniteSet(D), NEW L \in [D -> Nat], NEW c \in D
  PROVE  ByteCount(L, {c}) = L[c]
<1>1. BytesIn(L, {c}) = {c} \X (1..L[c])
  BY DEF BytesIn
<1>2. Cardinality({c} \X (1..L[c])) = L[c]
  BY OneChunkBytes
<1>3. ByteCount(L, {c}) = Cardinality(BytesIn(L, {c}))
  BY ByteCountFinite
<1> QED
  BY <1>1, <1>2, <1>3

LEMMA ByteCountEmpty ==
  ASSUME NEW L
  PROVE  ByteCount(L, {}) = 0
<1>1. BytesIn(L, {}) = {}
  BY DEF BytesIn
<1> QED
  BY <1>1, FS_EmptySet DEF ByteCount

-----------------------------------------------------------------------------
(* Least numbers, and induction. *)

LEMMA LeastExists ==
  ASSUME NEW T \in SUBSET Nat, T # {}
  PROVE  \E m \in T : \A k \in T : m <= k
<1> DEFINE R == OpToRel(<, Nat)
<1>1. IsWellFoundedOn(R, Nat)
  BY NatLessThanWellFounded
<1>2. \A x, y \in Nat : <<x, y>> \in R <=> x < y
  BY DEF OpToRel
<1> HIDE DEF R
<1>3. PICK m \in T : \A k \in T : ~ (<<k, m>> \in R)
  BY <1>1, WFMin
<1>4. ASSUME NEW k \in T PROVE m <= k
  <2>1. m \in Nat /\ k \in Nat
    OBVIOUS
  <2>2. ~ (k < m)
    BY <1>2, <1>3, <2>1
  <2> QED
    BY <2>1, <2>2
<1> QED
  BY <1>4

\* A set that holds the start of an interval, and with each number of it the
\* next, holds the interval.
LEMMA IntervalInduction ==
  ASSUME NEW n \in Nat, NEW S, 0 \in S, \A i \in 0..(n - 1) : i \in S => i + 1 \in S
  PROVE  0..n \subseteq S
<1> DEFINE T == (0..n) \ S
<1> SUFFICES ASSUME T # {} PROVE FALSE
  OBVIOUS
<1>1. T \in SUBSET Nat
  OBVIOUS
<1>2. PICK m \in T : \A k \in T : m <= k
  <2> HIDE DEF T
  <2> QED
    BY <1>1, LeastExists
<1>3. m \in 1..n /\ m - 1 \in 0..(n - 1) /\ (m - 1) + 1 = m
  OBVIOUS
<1>4. m - 1 \notin T
  BY <1>1, <1>2, <1>3
<1>5. m - 1 \in S
  BY <1>3, <1>4
<1> QED
  BY <1>3, <1>5

\* A sum over a set of chunks, taken in whatever order, counts their bytes.
LEMMA SumIsByteCount ==
  ASSUME NEW D, IsFiniteSet(D), NEW L \in [D -> Nat],
         NEW S \in SUBSET D
  PROVE  SumFunctionOnSet(L, S) = ByteCount(L, S)
<1> DEFINE one(s) == CHOOSE x \in s : TRUE
           IsSum(f) == f = [s \in SUBSET S |-> IF s = {} THEN 0 ELSE L[one(s)] + f[s \ {one(s)}]]
           sum == CHOOSE f : IsSum(f)
           g == [s \in SUBSET S |-> ByteCount(L, s)]
<1>1. SumFunctionOnSet(L, S) = sum[S]
  BY DEF SumFunctionOnSet, FoldFunctionOnSet, MapThenFoldSet
<1>2. \A s \in SUBSET S : s # {} => one(s) \in s
  OBVIOUS
<1>3. \A s \in SUBSET S : \A x \in s :
        /\ ByteCount(L, s) = L[x] + ByteCount(L, s \ {x})
        /\ ByteCount(L, s) \in Nat
  <2> TAKE s \in SUBSET S
  <2> TAKE x \in s
  <2>1. s \in SUBSET D /\ s \ {x} \in SUBSET D /\ x \in D
    OBVIOUS
  <2>2. ByteCount(L, s \ {x}) = ByteCount(L, s) - L[x]
    BY <2>1, ByteCountRemove
  <2>3. ByteCount(L, s) \in Nat /\ ByteCount(L, s \ {x}) \in Nat /\ L[x] \in Nat
    BY <2>1, ByteCountFinite
  <2> QED
    BY <2>2, <2>3
<1> HIDE DEF one
<1>4. IsSum(g)
  <2>1. ASSUME NEW s \in SUBSET S
        PROVE  ByteCount(L, s) = IF s = {} THEN 0 ELSE L[one(s)] + g[s \ {one(s)}]
    <3>1. CASE s = {}
      BY <3>1, ByteCountEmpty
    <3>2. CASE s # {}
      <4>1. one(s) \in s /\ s \ {one(s)} \in SUBSET S
        BY <1>2, <3>2
      <4>2. ByteCount(L, s) = L[one(s)] + ByteCount(L, s \ {one(s)})
        BY <1>3, <4>1
      <4> QED
        BY <3>2, <4>1, <4>2
    <3> QED
      BY <3>1, <3>2
  <2> QED
    BY <2>1
<1> HIDE DEF g
<1>5. IsSum(sum)
  BY <1>4
<1> HIDE DEF sum
<1>6. \A s \in SUBSET S : sum[s] = IF s = {} THEN 0 ELSE L[one(s)] + sum[s \ {one(s)}]
  BY <1>5, Zenon
<1> HIDE DEF IsSum
<1> DEFINE Wrong == {s \in SUBSET S : sum[s] # ByteCount(L, s)}
           sizes == {Cardinality(s) : s \in Wrong}
<1>7. \A s \in SUBSET S : IsFiniteSet(s) /\ Cardinality(s) \in Nat
  BY FS_Subset, FS_CardinalityType
<1>8. Wrong = {}
  <2> SUFFICES ASSUME Wrong # {} PROVE FALSE
    OBVIOUS
  <2>1. sizes \in SUBSET Nat /\ sizes # {}
    BY <1>7
  <2>2. PICK m \in sizes : \A k \in sizes : m <= k
    BY <2>1, LeastExists
  <2>3. PICK s \in Wrong : m = Cardinality(s)
    OBVIOUS
  <2>4. s # {}
    BY <1>6, ByteCountEmpty
  <2>5. one(s) \in s /\ s \ {one(s)} \in SUBSET S
    BY <1>2, <2>4
  <2>6. Cardinality(s \ {one(s)}) = Cardinality(s) - 1
    BY <1>7, <2>5, FS_RemoveElement
  <2>7. s \ {one(s)} \notin Wrong
    <3> SUFFICES ASSUME s \ {one(s)} \in Wrong PROVE FALSE
      OBVIOUS
    <3>1. m <= Cardinality(s \ {one(s)}) /\ m \in Nat
      BY <2>1, <2>2
    <3> QED
      BY <2>3, <2>6, <3>1
  <2>8. sum[s \ {one(s)}] = ByteCount(L, s \ {one(s)})
    BY <2>5, <2>7
  <2>9. sum[s] = ByteCount(L, s)
    BY <1>3, <1>6, <2>4, <2>5, <2>8
  <2> QED
    BY <2>9
<1>9. S \in SUBSET S
  OBVIOUS
<1> QED
  BY <1>1, <1>8, <1>9

-----------------------------------------------------------------------------
(* Remainders *)

LEMMA DivMod ==
  ASSUME NEW a \in Nat, NEW n \in Nat \ {0}
  PROVE  /\ a \div n \in Nat
         /\ a % n \in 0..(n - 1)
         /\ a = n * (a \div n) + (a % n)
OBVIOUS

LEMMA ModUnique ==
  ASSUME NEW q \in Int, NEW n \in Nat \ {0}, NEW r \in 0..(n - 1)
  PROVE  (n * q + r) % n = r
OBVIOUS

LEMMA ModAdd ==
  ASSUME NEW a \in Nat, NEW d \in Nat, NEW n \in Nat \ {0}
  PROVE  ((a % n) + d) % n = (a + d) % n
<1> DEFINE q == a \div n
           r == a % n
<1>1. q \in Nat /\ r \in Nat /\ a = n * q + r
  BY DivMod
<1> HIDE DEF q, r
<1> DEFINE p == (r + d) \div n
           t == (r + d) % n
<1>2. p \in Nat /\ t \in 0..(n - 1) /\ r + d = n * p + t
  <2>1. r + d \in Nat
    BY <1>1
  <2> QED
    BY <2>1, DivMod
<1> HIDE DEF p, t
<1>3. n * (q + p) = n * q + n * p
  BY <1>1, <1>2
<1>4. a + d = n * (q + p) + t
  <2>1. n * q \in Nat /\ n * p \in Nat /\ n * (q + p) \in Nat
    BY <1>1, <1>2
  <2> HIDE DEF q
  <2> QED
    BY <1>1, <1>2, <1>3, <2>1
<1>5. (a + d) % n = t
  <2>1. q + p \in Int
    BY <1>1, <1>2
  <2>2. (n * (q + p) + t) % n = t
    BY <1>2, <2>1, ModUnique
  <2> QED
    BY <1>4, <2>2
<1> QED
  BY <1>5 DEF t, r

LEMMA ModAddWhole ==
  ASSUME NEW a \in Nat, NEW n \in Nat \ {0}
  PROVE  (a + n) % n = a % n
<1>1. n * ((a \div n) + 1) = n * (a \div n) + n
  BY DivMod
<1> DEFINE q == (a \div n) + 1
           r == a % n
<1>2. q \in Int /\ r \in 0..(n - 1) /\ a + n = n * q + r
  BY <1>1, DivMod
<1> HIDE DEF q, r
<1>3. (n * q + r) % n = r
  BY <1>2, ModUnique
<1> QED
  BY <1>2, <1>3 DEF r

LEMMA ModSmall ==
  ASSUME NEW n \in Nat \ {0}, NEW a \in 0..(n - 1)
  PROVE  a % n = a
OBVIOUS

-----------------------------------------------------------------------------
(* Multiples *)

LEMMA Product ==
  ASSUME NEW a \in Nat, NEW b \in Nat, NEW n \in Nat, a <= b
  PROVE  /\ n * a \in Nat /\ n * b \in Nat
         /\ n * a <= n * b
         /\ n * (a + 1) = n * a + n
OBVIOUS

\* A quotient, by the multiples on both sides.
LEMMA Quotient ==
  ASSUME NEW a \in Nat, NEW n \in Nat \ {0}
  PROVE  LET q == a \div n IN q \in Nat /\ n * q <= a /\ a < n * q + n
<1>1. a \div n \in Nat /\ a % n \in 0..(n - 1) /\ a = n * (a \div n) + (a % n)
  BY DivMod
<1> DEFINE q == a \div n
           r == a % n
           p == n * q
<1>2. p \in Nat
  BY <1>1
<1>3. p <= a /\ a < p + n
  <2>1. r \in 0..(n - 1) /\ a = p + r
    BY <1>1
  <2> HIDE DEF r, p
  <2> QED
    BY <1>2, <2>1
<1> QED
  BY <1>1, <1>3

\* The quotient is the only number between them.
LEMMA QuotientIs ==
  ASSUME NEW a \in Nat, NEW n \in Nat \ {0}, NEW q \in Nat, n * q <= a, a < n * q + n
  PROVE  a \div n = q
<1>1. q * n = n * q /\ n * q \in Nat
  OBVIOUS
<1>2. a - n * q \in 0..(n - 1) /\ a = n * q + (a - n * q)
  BY <1>1
<1> QED
  BY <1>2

LEMMA Multiple ==
  ASSUME NEW v \in Nat, NEW n \in Nat \ {0}, v % n = 0
  PROVE  \E k \in Nat : v = n * k
<1>1. v \div n \in Nat /\ v = n * (v \div n) + (v % n)
  BY DivMod
<1>2. n * (v \div n) \in Nat
  BY <1>1
<1> QED
  BY <1>1, <1>2

LEMMA MultipleIs ==
  ASSUME NEW k \in Nat, NEW n \in Nat \ {0}
  PROVE  (n * k) % n = 0
<1>1. (n * k + 0) % n = 0
  BY ModUnique
<1> QED
  BY <1>1

\* Sums and differences of whole pages are whole pages.
LEMMA MultipleSum ==
  ASSUME NEW u \in Nat, NEW v \in Nat, NEW n \in Nat \ {0}, u % n = 0, v % n = 0
  PROVE  /\ (u + v) % n = 0
         /\ u <= v => (v - u) % n = 0
<1>1. PICK j \in Nat : u = n * j
  BY Multiple
<1>2. PICK k \in Nat : v = n * k
  BY Multiple
<1>3. (u + v) % n = 0
  <2>1. n * (j + k) = n * j + n * k /\ j + k \in Nat
    OBVIOUS
  <2>2. (n * (j + k)) % n = 0
    BY <2>1, MultipleIs
  <2> QED
    BY <1>1, <1>2, <2>1, <2>2
<1>4. ASSUME u <= v PROVE (v - u) % n = 0
  <2>1. j <= k
    <3>1. SUFFICES ASSUME k + 1 <= j PROVE FALSE
      OBVIOUS
    <3>2. n * (k + 1) <= n * j /\ n * (k + 1) = n * k + n
      BY <3>1, Product
    <3>3. n * k \in Nat /\ n * j \in Nat
      OBVIOUS
    <3> HIDE <3>1
    <3> QED
      BY <1>1, <1>2, <1>4, <3>2, <3>3
  <2>2. k - j \in Nat
    BY <2>1
  <2>3. n * (k - j) = n * k - n * j
    OBVIOUS
  <2>4. (n * (k - j)) % n = 0
    BY <2>2, MultipleIs
  <2> QED
    BY <1>1, <1>2, <2>3, <2>4
<1> QED
  BY <1>3, <1>4

\* A number rounded down to a multiple.
LEMMA RoundDown ==
  ASSUME NEW v \in Nat, NEW n \in Nat \ {0}
  PROVE  LET u == v - (v % n) IN
         u \in Nat /\ u <= v /\ v < u + n /\ u % n = 0 /\ (v % n = 0 => u = v)
<1> DEFINE q == v \div n
           r == v % n
<1>1. q \in Nat /\ r \in 0..(n - 1) /\ v = n * q + r
  BY DivMod
<1>2. v % n = 0 => v - (v % n) = v
  OBVIOUS
<1> HIDE DEF q
<1>3. n * q \in Nat
  BY <1>1
<1>4. (n * q) % n = 0
  BY <1>1, MultipleIs
<1>5. v - r = n * q
  <2> HIDE DEF r
  <2> QED
    BY <1>1, <1>3
<1>6. v - r \in Nat /\ v - r <= v /\ v < (v - r) + n
  <2> HIDE DEF r
  <2> QED
    BY <1>1, <1>3
<1> QED
  BY <1>2, <1>4, <1>5, <1>6

\* No multiple lies between the rounded number and the number.
LEMMA WholeBelow ==
  ASSUME NEW d \in Nat, NEW e \in Nat, NEW n \in Nat \ {0}, e <= d, e % n = 0
  PROVE  e <= d - (d % n)
<1> DEFINE u == d - (d % n)
<1>1. u \in Nat /\ d < u + n /\ u % n = 0
  BY RoundDown
<1> HIDE DEF u
<1>2. PICK j \in Nat : u = n * j
  BY <1>1, Multiple
<1>3. PICK k \in Nat : e = n * k
  BY Multiple
<1>4. k <= j
  <2>1. SUFFICES ASSUME j + 1 <= k PROVE FALSE
    OBVIOUS
  <2>2. n * (j + 1) <= n * k /\ n * (j + 1) = n * j + n /\ n * j \in Nat /\ n * k \in Nat
    BY <2>1, Product
  <2> HIDE <2>1
  <2> QED
    BY <1>1, <1>2, <1>3, <2>2
<1>5. n * k <= n * j
  BY <1>4, Product
<1> QED
  BY <1>2, <1>3, <1>5 DEF u

=============================================================================

---------------------------- MODULE PolicyProofs ----------------------------
(***************************************************************************)
(* What the eviction policies return, in any state, for any table: proofs  *)
(* about the operators of Policies.                                        *)
(***************************************************************************)
EXTENDS Policies, DataProofs

-----------------------------------------------------------------------------
(* Minima and maxima *)

LEMMA MinOf ==
  ASSUME NEW T \in SUBSET Nat, T # {}
  PROVE  /\ Min(T) \in T
         /\ \A k \in T : Min(T) <= k
BY LeastExists DEF Min

LEMMA MaxWithZero ==
  ASSUME NEW p \in Int
  PROVE  Max({p, 0}) = IF p > 0 THEN p ELSE 0
BY DEF Max

\* A set of integers with an upper bound has a greatest element.
LEMMA GreatestExists ==
  ASSUME NEW T \in SUBSET Int, T # {}, NEW B \in Int, \A k \in T : k <= B
  PROVE  \E m \in T : \A k \in T : k <= m
<1> DEFINE U == {B - k : k \in T}
<1>1. U \in SUBSET Nat /\ U # {}
  <2>1. ASSUME NEW k \in T PROVE B - k \in Nat
    <3>1. k \in Int /\ k <= B
      OBVIOUS
    <3> QED
      BY <3>1
  <2> QED
    BY <2>1
<1>2. PICK u \in U : \A v \in U : u <= v
  <2> HIDE DEF U
  <2> QED
    BY <1>1, LeastExists
<1>3. PICK m \in T : u = B - m
  BY <1>2
<1>4. ASSUME NEW k \in T PROVE k <= m
  <2>1. B - m <= B - k
    BY <1>2, <1>3
  <2>2. k \in Int /\ m \in Int
    OBVIOUS
  <2> QED
    BY <2>1, <2>2
<1> QED
  BY <1>4

LEMMA MaxOf ==
  ASSUME NEW T \in SUBSET Int, T # {}, NEW B \in Int, \A k \in T : k <= B
  PROVE  /\ Max(T) \in T
         /\ \A k \in T : k <= Max(T)
<1>1. \E m \in T : \A k \in T : m >= k
  BY GreatestExists
<1> QED
  BY <1>1 DEF Max

LEMMA MaxIs ==
  ASSUME NEW T \in SUBSET Int, NEW m \in T, \A k \in T : k <= m
  PROVE  Max(T) = m
<1>1. Max(T) \in T /\ \A k \in T : k <= Max(T)
  BY MaxOf
<1>2. Max(T) \in Int /\ m \in Int /\ Max(T) <= m /\ m <= Max(T)
  BY <1>1
<1> QED
  BY <1>2

-----------------------------------------------------------------------------
(* The walk along the successors *)

Distances == {Unknown} \cup 0..n_chunks
WalkState == [node : Chunks \cup {NoChunk}, dist : [Chunks -> Distances]]

WalkStart == [node |-> last_fetched, dist |-> [c \in Chunks |-> Unknown]]
WalkOn(w, h) ==
  LET next == IF w.node = NoChunk THEN NoChunk ELSE successor[w.node] IN
  IF next = NoChunk \/ w.dist[next] # Unknown THEN [w EXCEPT !.node = NoChunk]
  ELSE [node |-> next, dist |-> [w.dist EXCEPT ![next] = h]]

\* f is the walk up to the n-th hop.
IsWalk(f, n) ==
  /\ f \in [0..n -> WalkState]
  /\ f[0] = WalkStart
  /\ \A h \in 1..n : f[h] = WalkOn(f[h - 1], h)

LEMMA WalkOnType ==
  ASSUME PolicyTypeOK, NEW w \in WalkState, NEW h \in 1..n_chunks
  PROVE  WalkOn(w, h) \in WalkState
<1> DEFINE next == IF w.node = NoChunk THEN NoChunk ELSE successor[w.node]
<1>1. /\ w.node \in Chunks \cup {NoChunk}
      /\ w.dist \in [Chunks -> Distances]
      /\ w = [node |-> w.node, dist |-> w.dist]
  BY DEF WalkState
<1>2. next \in Chunks \cup {NoChunk}
  BY <1>1 DEF PolicyTypeOK
<1>3. CASE next = NoChunk \/ w.dist[next] # Unknown
  <2>1. WalkOn(w, h) = [node |-> NoChunk, dist |-> w.dist]
    BY <1>1, <1>3 DEF WalkOn
  <2> QED
    BY <1>1, <2>1 DEF WalkState
<1>4. CASE ~ (next = NoChunk \/ w.dist[next] # Unknown)
  <2>1. WalkOn(w, h) = [node |-> next, dist |-> [w.dist EXCEPT ![next] = h]]
    BY <1>4 DEF WalkOn
  <2>2. next \in Chunks /\ h \in Distances
    BY <1>2, <1>4 DEF Distances
  <2> HIDE DEF next
  <2>3. [w.dist EXCEPT ![next] = h] \in [Chunks -> Distances]
    BY <1>1, <2>2
  <2> QED
    BY <2>1, <2>2, <2>3 DEF WalkState
<1> QED
  BY <1>3, <1>4

\* The recursive definition of Walk has a solution.
LEMMA WalkExists ==
  ASSUME PolicyTypeOK
  PROVE  \E f : IsWalk(f, n_chunks)
<1> DEFINE S == {n \in 0..n_chunks : \E f : IsWalk(f, n)}
<1>n. n_chunks \in Nat \ {0}
  BY PolicyAssumption
<1>1. 0 \in S
  <2> DEFINE f == [h \in 0..0 |-> WalkStart]
  <2>1. WalkStart \in WalkState
    BY DEF WalkStart, WalkState, Distances, PolicyTypeOK
  <2>2. IsWalk(f, 0)
    BY <2>1 DEF IsWalk
  <2> QED
    BY <1>n, <2>2
<1>2. ASSUME NEW n \in 0..(n_chunks - 1), n \in S
      PROVE  n + 1 \in S
  <2>1. PICK f : IsWalk(f, n)
    BY <1>2
  <2> DEFINE s == WalkOn(f[n], n + 1)
             g == [h \in 0..(n + 1) |-> IF h = n + 1 THEN s ELSE f[h]]
  <2>2. n \in Nat /\ n + 1 \in 1..n_chunks
    BY <1>n
  <2>3. s \in WalkState
    BY <2>1, <2>2, WalkOnType DEF IsWalk
  <2>4. f \in [0..n -> WalkState] /\ f[0] = WalkStart
    BY <2>1 DEF IsWalk
  <2> HIDE DEF s
  <2>5. g \in [0..(n + 1) -> WalkState]
    BY <2>2, <2>3, <2>4
  <2>6. g[0] = WalkStart
    BY <2>2, <2>4
  <2>7. ASSUME NEW h \in 1..(n + 1) PROVE g[h] = WalkOn(g[h - 1], h)
    <3>1. CASE h = n + 1
      <4>1. g[h] = s /\ g[h - 1] = f[n]
        BY <2>2, <3>1
      <4> QED
        BY <3>1, <4>1 DEF s
    <3>2. CASE h # n + 1
      <4>1. h \in 1..n /\ h - 1 \in 0..n
        BY <2>2, <3>2
      <4>2. g[h] = f[h] /\ g[h - 1] = f[h - 1]
        BY <2>2, <4>1
      <4> QED
        BY <2>1, <4>1, <4>2 DEF IsWalk
    <3> QED
      BY <3>1, <3>2
  <2>8. IsWalk(g, n + 1)
    <3> HIDE DEF g
    <3> QED
      BY <2>5, <2>6, <2>7 DEF IsWalk
  <2> QED
    BY <2>2, <2>8
<1> HIDE DEF S
<1>3. 0..n_chunks \subseteq S
  BY <1>n, <1>1, <1>2, IntervalInduction
<1>4. n_chunks \in S
  BY <1>n, <1>3
<1> QED
  BY <1>4 DEF S

LEMMA WalkIsWalk ==
  ASSUME PolicyTypeOK
  PROVE  IsWalk(Walk, n_chunks)
<1> DEFINE E(f) == [h \in 0..n_chunks |-> IF h = 0 THEN WalkStart ELSE WalkOn(f[h - 1], h)]
<1>n. n_chunks \in Nat \ {0}
  BY PolicyAssumption
<1>1. Walk = CHOOSE f : f = E(f)
  BY Zenon DEF Walk, WalkStart, WalkOn
<1>2. PICK f : IsWalk(f, n_chunks)
  BY WalkExists
<1>3. f = E(f)
  <2>1. f \in [0..n_chunks -> WalkState]
    BY <1>2 DEF IsWalk
  <2>2. ASSUME NEW h \in 0..n_chunks PROVE f[h] = IF h = 0 THEN WalkStart ELSE WalkOn(f[h - 1], h)
    BY <1>n, <1>2 DEF IsWalk
  <2> QED
    BY <2>1, <2>2
<1>4. Walk = E(Walk)
  <2> HIDE DEF E
  <2> QED
    BY <1>1, <1>3, Zenon
<1> DEFINE S == {h \in 0..n_chunks : Walk[h] \in WalkState}
<1>5. 0 \in S
  BY <1>n, <1>4 DEF WalkStart, WalkState, Distances, PolicyTypeOK
<1>6. ASSUME NEW h \in 0..(n_chunks - 1), h \in S PROVE h + 1 \in S
  <2>1. h + 1 \in 1..n_chunks /\ h + 1 \in 0..n_chunks /\ h + 1 # 0 /\ (h + 1) - 1 = h
    BY <1>n
  <2>2. Walk[h + 1] = WalkOn(Walk[h], h + 1)
    BY <1>4, <2>1
  <2> QED
    BY <1>6, <2>1, <2>2, WalkOnType
<1> HIDE DEF S
<1>7. 0..n_chunks \subseteq S
  BY <1>n, <1>5, <1>6, IntervalInduction
<1>8. \A h \in 0..n_chunks : Walk[h] \in WalkState
  BY <1>7 DEF S
<1>9. Walk \in [0..n_chunks -> WalkState]
  BY <1>4, <1>8
<1>10. Walk[0] = WalkStart
  BY <1>n, <1>4
<1>11. \A h \in 1..n_chunks : Walk[h] = WalkOn(Walk[h - 1], h)
  BY <1>n, <1>4
<1> QED
  BY <1>9, <1>10, <1>11 DEF IsWalk

-----------------------------------------------------------------------------
(* Ranks and victims *)

Farthest == INT64_MAX + n_chunks + Len(seq) + 1

LEMMA DeclaredDistance ==
  ASSUME PolicyTypeOK, NEW x
  PROVE  declared_dist(x) \in {0, INT64_MAX} \cup 0..(Len(seq) + 1)
<1> DEFINE base == Max({pos, 0})
           uses == {d \in Origin..(Origin + Len(seq) - 1) : At(base + d) = x}
<1>1. Len(seq) \in Nat
  BY DEF PolicyTypeOK
<1>2. Origin \in {0, 1}
  BY DEF Origin
<1>3. uses \in SUBSET (0..(Len(seq) + 1)) /\ uses \in SUBSET Nat
  <2> HIDE DEF base
  <2> QED
    BY <1>1, <1>2
<1>4. declared_dist(x) =
        IF uses = {} THEN INT64_MAX ELSE IF x \in Protected THEN 0 ELSE Min(uses)
  BY DEF declared_dist
<1> HIDE DEF uses
<1>5. uses # {} => Min(uses) \in uses
  BY <1>3, MinOf
<1> QED
  BY <1>3, <1>4, <1>5

LEMMA LearnedDistance ==
  ASSUME PolicyTypeOK, NEW x \in Chunks
  PROVE  learned_dist[x] \in Distances
<1>1. Walk[n_chunks] \in WalkState
  BY WalkIsWalk, PolicyAssumption DEF IsWalk
<1> QED
  BY <1>1 DEF learned_dist, WalkState

LEMMA DistanceBounded ==
  ASSUME PolicyTypeOK, NEW x \in Chunks
  PROVE  NextUseDistance(x) \in Int /\ NextUseDistance(x) <= Farthest
<1>1. Len(seq) \in Nat /\ n_chunks \in Nat /\ INT64_MAX \in Nat
  BY PolicyAssumption DEF PolicyTypeOK, INT64_MAX
<1>2. /\ learned_dist[x] \in {INT64_MAX} \cup 0..n_chunks
      /\ declared_dist(x) \in {0, INT64_MAX} \cup 0..(Len(seq) + 1)
  BY LearnedDistance, DeclaredDistance DEF Distances, Unknown
<1>3. NextUseDistance(x) \in {learned_dist[x], declared_dist(x), INT64_MAX}
  BY DEF NextUseDistance
<1> HIDE DEF INT64_MAX
<1> QED
  BY <1>1, <1>2, <1>3 DEF Farthest

LEMMA RankBounded ==
  ASSUME PolicyTypeOK, NEW x \in Chunks
  PROVE  Rank(x) \in Int /\ Rank(x) <= Farthest
<1>1. Len(seq) \in Nat /\ n_chunks \in Nat /\ INT64_MAX \in Nat
  BY PolicyAssumption DEF PolicyTypeOK, INT64_MAX
<1>2. last_fault_seq[x] \in Nat
  BY DEF PolicyTypeOK
<1>3. Rank(x) \in {- last_fault_seq[x], 0, NextUseDistance(x)}
  BY DEF Rank, Age
<1> HIDE DEF INT64_MAX
<1>4. - last_fault_seq[x] \in Int /\ - last_fault_seq[x] <= Farthest /\ 0 <= Farthest
  BY <1>1, <1>2 DEF Farthest
<1> QED
  BY <1>3, <1>4, DistanceBounded

\* Whatever the policy, the options and what was learned or declared, the victim
\* is one of the candidates, ranks as far as any of them, and is CHUNK_NONE only
\* if there is no candidate (policy.c, every select_victim).
THEOREM VictimIsCandidate ==
  ASSUME PolicyTypeOK, NEW C \in SUBSET Chunks
  PROVE  /\ C = {} => SelectVictim(C) = NoChunk
         /\ C # {} => /\ SelectVictim(C) \in C
                      /\ \A x \in C : Rank(x) <= Rank(SelectVictim(C))
<1>1. CASE C = {}
  BY <1>1 DEF SelectVictim
<1>2. CASE C # {}
  <2> DEFINE T == {Rank(x) : x \in C}
  <2>1. T \in SUBSET Int /\ T # {} /\ (\A k \in T : k <= Farthest) /\ Farthest \in Int
    BY <1>2, RankBounded, PolicyAssumption DEF Farthest, PolicyTypeOK, INT64_MAX
  <2>2. PICK m \in T : \A k \in T : k <= m
    <3> HIDE DEF T
    <3> QED
      BY <2>1, GreatestExists
  <2>3. PICK x \in C : m = Rank(x)
    BY <2>2
  <2>4. x \in Furthest(C)
    BY <2>2, <2>3 DEF Furthest
  <2>5. Furthest(C) \in SUBSET Nat /\ Furthest(C) # {}
    BY <2>4, PolicyAssumption DEF Furthest, Chunks
  <2>6. Min(Furthest(C)) \in Furthest(C)
    BY <2>5, MinOf
  <2>7. SelectVictim(C) \in Furthest(C)
    BY <1>2, <2>6 DEF SelectVictim
  <2> QED
    BY <1>2, <2>7 DEF Furthest
<1> QED
  BY <1>1, <1>2

-----------------------------------------------------------------------------
(* What a policy is told leaves its state well formed. *)

LEMMA OnFaultType ==
  ASSUME PolicyTypeOK, NEW c \in Chunks, OnFault(c), UNCHANGED <<opt, seq, pos>>,
         last_fault_seq' \in [Chunks -> Nat]
  PROVE  PolicyTypeOK'
<1>1. last_fetched' \in Chunks \cup {NoChunk}
  BY DEF PolicyTypeOK, OnFault
<1>2. successor' \in [Chunks -> Chunks \cup {NoChunk}]
  BY DEF PolicyTypeOK, OnFault, Link
<1> QED
  BY <1>1, <1>2 DEF PolicyTypeOK

LEMMA OnAccessType ==
  ASSUME PolicyTypeOK, NEW c, OnAccess(c),
         UNCHANGED <<opt, last_fault_seq, last_fetched, successor, seq>>
  PROVE  PolicyTypeOK'
<1> DEFINE hops == {k \in 0..(Len(seq) - 1) : At(ScanFrom + k) = c}
           n == Len(seq)
<1>1. n \in Nat /\ pos \in -1..(n - 1) /\ ScanFrom \in Nat
  BY DEF PolicyTypeOK, ScanFrom
<1>2. pos' = IF hops = {} THEN pos ELSE (ScanFrom + Min(hops)) % n
  BY DEF OnAccess
<1>3. hops \in SUBSET (0..(n - 1)) /\ hops \in SUBSET Nat
  OBVIOUS
<1> HIDE DEF hops, n
<1>4. CASE hops = {}
  BY <1>1, <1>2, <1>4 DEF PolicyTypeOK, n
<1>5. CASE hops # {}
  <2>1. Min(hops) \in hops
    BY <1>3, <1>5, MinOf
  <2>2. Min(hops) \in 0..(n - 1)
    BY <1>3, <2>1, Zenon
  <2>3. (ScanFrom + Min(hops)) % n \in 0..(n - 1)
    <3>1. ScanFrom + Min(hops) \in Nat /\ n > 0
      BY <1>1, <2>2
    <3> QED
      BY <1>1, <3>1
  <2> QED
    BY <1>1, <1>2, <1>5, <2>3 DEF PolicyTypeOK, n
<1> QED
  BY <1>4, <1>5

LEMMA DeclareType ==
  ASSUME PolicyTypeOK, NEW sequence \in Seq(Chunks), DeclareSequence(sequence),
         UNCHANGED <<opt, last_fault_seq, last_fetched, successor>>
  PROVE  PolicyTypeOK'
BY DEF PolicyTypeOK, DeclareSequence

=============================================================================

------------------------- MODULE ChunkTableProofs --------------------------
(***************************************************************************)
(* What start-up accepts and what a fault then finds and fetches, for any  *)
(* region, chunk size, explicit table and file, any page and any width of  *)
(* the arithmetic; and what the two programs of Arms read of the chunks    *)
(* that build_chunk_table makes, for any arguments and page cache.         *)
(***************************************************************************)
EXTENDS ChunkTable, Arms, DataProofs

-----------------------------------------------------------------------------
(* Pages *)

LEMMA AlignDown ==
  ASSUME NEW v \in Nat
  PROVE  /\ align_down(v) \in Nat
         /\ align_down(v) <= v /\ v < align_down(v) + RESIDCTL_ALIGN
         /\ align_down(v) % RESIDCTL_ALIGN = 0
         /\ v % RESIDCTL_ALIGN = 0 => align_down(v) = v
BY WidthAssumption, RoundDown DEF align_down

\* The pages of two bytes differ when one starts between them.
LEMMA OtherPage ==
  ASSUME NEW b \in Nat, NEW d \in Nat, NEW e \in Nat, b < e, e <= d, e % RESIDCTL_ALIGN = 0
  PROVE  align_down(b) # align_down(d)
<1>1. e <= align_down(d)
  BY WidthAssumption, WholeBelow DEF align_down
<1>2. align_down(b) <= b /\ align_down(b) \in Nat /\ align_down(d) \in Nat
  BY AlignDown
<1> QED
  BY <1>1, <1>2

\* Rounding up, for a chunk size that fits.
LEMMA AlignUp ==
  ASSUME NEW v \in Nat
  PROVE  /\ align_up(v) \in Nat
         /\ v <= align_up(v) /\ align_up(v) < v + RESIDCTL_ALIGN
         /\ align_up(v) % RESIDCTL_ALIGN = 0
         /\ v % RESIDCTL_ALIGN = 0 => align_up(v) = v
         /\ v % RESIDCTL_ALIGN # 0 => align_up(v) = (v \div RESIDCTL_ALIGN + 1) * RESIDCTL_ALIGN
<1> DEFINE A == RESIDCTL_ALIGN
           w == v + A - 1
           u == align_down(w)
<1>1. A \in Nat \ {0} /\ w \in Nat
  BY WidthAssumption
<1>2. align_up(v) = u
  BY DEF align_up
<1>3. u \in Nat /\ u <= w /\ w < u + A /\ u % A = 0
  BY <1>1, AlignDown
<1> HIDE DEF u, A
<1>4. PICK j \in Nat : u = A * j
  BY <1>1, <1>3, Multiple
<1> DEFINE q == v \div A
           r == v % A
<1>5. q \in Nat /\ r \in 0..(A - 1) /\ v = A * q + r
  BY <1>1, DivMod
<1> HIDE DEF q, r
<1>6. /\ A * q \in Nat /\ A * (q + 1) = A * q + A
      /\ A * j \in Nat /\ A * (j + 1) = A * j + A
  BY <1>1, <1>5
<1>7. CASE r = 0
  <2>1. j = q
    <3>1. j <= q
      <4>1. SUFFICES ASSUME q + 1 <= j PROVE FALSE
        BY <1>5
      <4>2. A * (q + 1) <= A * j
        BY <1>1, <1>5, <4>1, Product
      <4> HIDE <4>1
      <4> QED
        BY <1>1, <1>3, <1>4, <1>5, <1>6, <1>7, <4>2
    <3>2. q <= j
      <4>1. SUFFICES ASSUME j + 1 <= q PROVE FALSE
        BY <1>5
      <4>2. A * (j + 1) <= A * q
        BY <1>1, <1>5, <4>1, Product
      <4> HIDE <4>1
      <4> QED
        BY <1>1, <1>3, <1>4, <1>5, <1>6, <1>7, <4>2
    <3> QED
      BY <1>5, <3>1, <3>2
  <2>2. u = v
    BY <1>4, <1>5, <1>6, <1>7, <2>1
  <2> QED
    BY <1>1, <1>2, <1>3, <1>7, <2>2 DEF A, r
<1>8. CASE r # 0
  <2>1. j = q + 1
    <3>1. j <= q + 1
      <4>1. SUFFICES ASSUME (q + 1) + 1 <= j PROVE FALSE
        BY <1>5
      <4>2. A * ((q + 1) + 1) <= A * j /\ A * ((q + 1) + 1) = A * (q + 1) + A
        BY <1>1, <1>5, <4>1, Product
      <4> HIDE <4>1
      <4> QED
        BY <1>1, <1>3, <1>4, <1>5, <1>6, <1>8, <4>2
    <3>2. q + 1 <= j
      <4>1. SUFFICES ASSUME j <= q PROVE FALSE
        BY <1>5
      <4>2. A * j <= A * q
        BY <1>1, <1>5, <4>1, Product
      <4> HIDE <4>1
      <4> QED
        BY <1>1, <1>3, <1>4, <1>5, <1>6, <1>8, <4>2
    <3> QED
      BY <1>5, <3>1, <3>2
  <2>2. u = A * q + A /\ u = (q + 1) * A
    BY <1>1, <1>4, <1>5, <1>6, <2>1
  <2>3. v <= u /\ u < v + A
    BY <1>1, <1>5, <1>6, <1>8, <2>2
  <2> QED
    BY <1>1, <1>2, <1>3, <1>8, <2>2, <2>3 DEF A, r, q
<1> QED
  BY <1>7, <1>8

-----------------------------------------------------------------------------
(* Pieces in a row.  off and len give the place and size of each of n pieces. *)

Chain(n, off, len) ==
  /\ off[1] = 0
  /\ \A i \in 1..(n - 1) : off[i + 1] = off[i] + len[i]

Piece(off, len, i) == off[i]..(off[i] + len[i] - 1)

\* A later piece starts where the earlier ends, or after.
LEMMA ChainOrdered ==
  ASSUME NEW n \in Nat \ {0}, NEW off \in [1..n -> Nat], NEW len \in [1..n -> Nat \ {0}],
         Chain(n, off, len)
  PROVE  \A i, j \in 1..n : i < j => off[i] + len[i] <= off[j]
<1> SUFFICES ASSUME NEW i \in 1..n PROVE \A j \in 1..n : i < j => off[i] + len[i] <= off[j]
  OBVIOUS
<1> DEFINE S == {k \in Nat : i + 1 + k \in 1..n => off[i] + len[i] <= off[i + 1 + k]}
<1>1. 0 \in S
  BY DEF Chain
<1>2. ASSUME NEW k \in 0..(n - 1), k \in S PROVE k + 1 \in S
  <2>1. k \in Nat /\ k + 1 \in Nat
    OBVIOUS
  <2> SUFFICES ASSUME i + 1 + (k + 1) \in 1..n
               PROVE  off[i] + len[i] <= off[i + 1 + (k + 1)]
    BY <2>1
  <2>2. i + 1 + k \in 1..(n - 1) /\ i + 1 + (k + 1) = (i + 1 + k) + 1
    BY <2>1
  <2>3. off[i] + len[i] <= off[i + 1 + k]
    BY <1>2, <2>2
  <2>4. off[i + 1 + (k + 1)] = off[i + 1 + k] + len[i + 1 + k]
    BY <2>2 DEF Chain
  <2>5. off[i] \in Nat /\ len[i] \in Nat /\ off[i + 1 + k] \in Nat /\ len[i + 1 + k] \in Nat
    BY <2>2
  <2> QED
    BY <2>3, <2>4, <2>5
<1> HIDE DEF S
<1>3. 0..n \subseteq S
  BY <1>1, <1>2, IntervalInduction
<1> QED
  <2> SUFFICES ASSUME NEW j \in 1..n, i < j PROVE off[i] + len[i] <= off[j]
    OBVIOUS
  <2>1. j - i - 1 \in 0..n /\ i + 1 + (j - i - 1) = j
    OBVIOUS
  <2> QED
    BY <1>3, <2>1 DEF S

\* Every byte before the end is in a piece, and in one only.
LEMMA ChainCovers ==
  ASSUME NEW n \in Nat \ {0}, NEW off \in [1..n -> Nat], NEW len \in [1..n -> Nat \ {0}],
         Chain(n, off, len)
  PROVE  /\ \A b \in 0..(off[n] + len[n] - 1) : \E i \in 1..n : b \in Piece(off, len, i)
         /\ \A i \in 1..n : off[i] + len[i] <= off[n] + len[n]
         /\ \A i, j \in 1..n : Piece(off, len, i) \cap Piece(off, len, j) # {} => i = j
<1>1. \A i, j \in 1..n : i < j => off[i] + len[i] <= off[j]
  BY ChainOrdered
<1>2. \A i \in 1..n : off[i] \in Nat /\ len[i] \in Nat \ {0}
  OBVIOUS
<1>3. \A i \in 1..n : off[i] + len[i] <= off[n] + len[n]
  <2> SUFFICES ASSUME NEW i \in 1..n, i < n PROVE off[i] + len[i] <= off[n] + len[n]
    OBVIOUS
  <2> QED
    BY <1>1, <1>2
<1>4. ASSUME NEW i \in 1..n, NEW j \in 1..n, Piece(off, len, i) \cap Piece(off, len, j) # {}
      PROVE  i = j
  <2>1. PICK b \in Piece(off, len, i) : b \in Piece(off, len, j)
    BY <1>4
  <2>2. /\ off[i] <= b /\ b < off[i] + len[i]
        /\ off[j] <= b /\ b < off[j] + len[j] /\ b \in Int
    BY <1>2, <2>1 DEF Piece
  <2>3. ~ (i < j) /\ ~ (j < i)
    BY <1>1, <1>2, <2>2
  <2> QED
    BY <2>3
<1>5. ASSUME NEW b \in 0..(off[n] + len[n] - 1) PROVE \E i \in 1..n : b \in Piece(off, len, i)
  <2> DEFINE In(k) == k + 1 \in 1..n => (off[k + 1] + len[k + 1] <= b \/ \E i \in 1..n : b \in Piece(off, len, i))
             S == {k \in Nat : In(k)}
  <2>1. 0 \in S
    <3>1. 1 \in 1..n /\ off[1] = 0 /\ len[1] \in Nat \ {0}
      BY <1>2 DEF Chain
    <3>2. ~ (off[1] + len[1] <= b) => b \in Piece(off, len, 1)
      BY <3>1 DEF Piece
    <3> QED
      BY <3>1, <3>2
  <2>2. ASSUME NEW k \in 0..(n - 1), k \in S PROVE k + 1 \in S
    <3>1. k + 1 \in Nat /\ k \in Nat /\ (k + 1) + 1 = k + 2
      OBVIOUS
    <3> SUFFICES ASSUME k + 2 \in 1..n, ~ (off[k + 2] + len[k + 2] <= b)
                 PROVE  \E i \in 1..n : b \in Piece(off, len, i)
      BY <3>1
    <3>2. k + 1 \in 1..(n - 1)
      OBVIOUS
    <3>3. CASE off[k + 1] + len[k + 1] <= b
      <4>1. off[k + 2] = off[k + 1] + len[k + 1]
        BY <3>1, <3>2 DEF Chain
      <4>2. b \in Int /\ off[k + 2] \in Nat /\ len[k + 2] \in Nat
        BY <1>2
      <4>3. off[k + 2] <= b /\ b < off[k + 2] + len[k + 2]
        BY <3>3, <4>1, <4>2
      <4>4. b \in Piece(off, len, k + 2)
        BY <4>2, <4>3 DEF Piece
      <4> QED
        BY <4>4
    <3> QED
      BY <2>2, <3>2, <3>3
  <2> HIDE DEF S
  <2>3. 0..n \subseteq S
    BY <2>1, <2>2, IntervalInduction
  <2>4. n - 1 \in S /\ (n - 1) + 1 = n
    BY <2>3
  <2>5. ~ (off[n] + len[n] <= b)
    BY <1>2
  <2> QED
    BY <2>4, <2>5 DEF S
<1> QED
  BY <1>3, <1>4, <1>5

-----------------------------------------------------------------------------
(* The inductive invariant: what each check has established, and that the    *)
(* table is a chain that ends with the region.                               *)

LEMMA Assumed ==
  /\ cfg \in Configs => cfg \in ConfigType
  /\ RESIDCTL_ALIGN \in Nat \ {0} /\ UINT64 \in Nat \ {0} /\ UINT32_MAX \in Nat
  /\ UINT64 % RESIDCTL_ALIGN = 0
BY WidthAssumption, ConfigsAssumption

Offs == [i \in 1..NChunks |-> table[i].off]
Lens == [i \in 1..NChunks |-> table[i].len]

Tiled ==
  /\ Chain(NChunks, Offs, Lens)
  /\ Offs[NChunks] + Lens[NChunks] = cfg.region_len
  /\ \A i \in 1..NChunks : Offs[i] % RESIDCTL_ALIGN = 0

Checking == {"checks", "register", "model", "table"}
Serving  == {"up", "lookup", "found"}

Checked ==
  /\ step \notin {"checks", "failed"} => cfg.region_len # 0 /\ cfg.swap_max = "0"
  /\ step \notin {"checks", "register", "failed"} => cfg.region_len % RESIDCTL_ALIGN = 0
  /\ step \notin {"checks", "register", "model", "failed"} => cfg.opens # "neither"
  /\ step \in Serving => cfg.budget_bytes # 0
  /\ step \in {"lookup", "found"} => ~ Wraps
  /\ step = "found" => lo < hi

Built ==
  /\ step \in Checking => table = <<>>
  /\ step \in {"budget"} \cup Serving => table # <<>> /\ (Usable \/ Wraps)
  /\ table # <<>> /\ ~ Wraps => Tiled
  /\ step \notin Serving => memory = [b \in Bytes |-> "hole"]

StartupInv == TypeOK /\ Checked /\ Built /\ (step = "failed" => ~ (Sound /\ Usable))

-----------------------------------------------------------------------------
(* The table *)

LEMMA TableType ==
  ASSUME TypeOK, table # <<>>
  PROVE  /\ NChunks \in Nat \ {0} /\ DOMAIN table = 1..NChunks
         /\ Offs \in [1..NChunks -> Nat] /\ Lens \in [1..NChunks -> Nat \ {0}]
         /\ \A i \in 1..NChunks : /\ table[i].off = Offs[i] /\ table[i].len = Lens[i]
                                  /\ ChunkBytes(i) = Piece(Offs, Lens, i)
<1> DEFINE T == [off : Word, len : Word \ {0}]
<1>1. table \in Seq(T)
  BY DEF TypeOK
<1> HIDE DEF T
<1>2. NChunks \in Nat /\ DOMAIN table = 1..NChunks
  BY <1>1 DEF NChunks
<1>3. NChunks # 0
  BY <1>1 DEF NChunks
<1>4. \A i \in 1..NChunks : table[i].off \in Nat /\ table[i].len \in Nat \ {0}
  <2> SUFFICES ASSUME NEW i \in 1..NChunks PROVE table[i].off \in Nat /\ table[i].len \in Nat \ {0}
    OBVIOUS
  <2>1. table[i] \in T
    BY <1>1 DEF NChunks
  <2>2. Word \subseteq Nat
    BY Assumed DEF Word
  <2> QED
    BY <2>1, <2>2 DEF T
<1> QED
  BY <1>2, <1>3, <1>4 DEF Offs, Lens, ChunkBytes, Piece

\* A chain of pages tiles the region.
LEMMA TiledTiles ==
  ASSUME TypeOK, table # <<>> /\ ~ Wraps => Tiled
  PROVE  TableTilesRegion
<1> SUFFICES ASSUME table # <<>>, Tiled
             PROVE  /\ UNION {ChunkBytes(i) : i \in DOMAIN table} = Bytes
                    /\ \A i, j \in DOMAIN table : \A b \in ChunkBytes(i), d \in ChunkBytes(j) :
                         i < j => b < d /\ align_down(b) # align_down(d)
  BY DEF TableTilesRegion
<1> DEFINE n == NChunks
<1>1. /\ n \in Nat \ {0} /\ DOMAIN table = 1..n
      /\ Offs \in [1..n -> Nat] /\ Lens \in [1..n -> Nat \ {0}]
      /\ \A i \in 1..n : ChunkBytes(i) = Piece(Offs, Lens, i)
  BY TableType
<1> HIDE DEF n
<1>2. Chain(n, Offs, Lens) /\ Offs[n] + Lens[n] = cfg.region_len
  BY DEF Tiled, n
<1>3. /\ \A b \in 0..(Offs[n] + Lens[n] - 1) : \E i \in 1..n : b \in Piece(Offs, Lens, i)
      /\ \A i \in 1..n : Offs[i] + Lens[i] <= Offs[n] + Lens[n]
  BY <1>1, <1>2, ChainCovers
<1>4. \A i, j \in 1..n : i < j => Offs[i] + Lens[i] <= Offs[j]
  BY <1>1, <1>2, ChainOrdered
<1>5. \A i \in 1..n : Piece(Offs, Lens, i) \subseteq Bytes
  <2> SUFFICES ASSUME NEW i \in 1..n, NEW b \in Piece(Offs, Lens, i) PROVE b \in Bytes
    OBVIOUS
  <2>1. Offs[i] \in Nat /\ Lens[i] \in Nat /\ Offs[i] + Lens[i] <= cfg.region_len
    BY <1>1, <1>2, <1>3
  <2>2. cfg.region_len \in Int
    BY <1>1, <1>2
  <2> QED
    BY <2>1, <2>2 DEF Piece, Bytes
<1>6. UNION {ChunkBytes(i) : i \in DOMAIN table} = Bytes
  <2>1. \A b \in Bytes : \E i \in 1..n : b \in Piece(Offs, Lens, i)
    <3> SUFFICES ASSUME NEW b \in Bytes PROVE \E i \in 1..n : b \in Piece(Offs, Lens, i)
      OBVIOUS
    <3>1. cfg.region_len = Offs[n] + Lens[n] /\ Offs[n] \in Nat /\ Lens[n] \in Nat
      BY <1>1, <1>2
    <3>2. b \in 0..(Offs[n] + Lens[n] - 1)
      BY <3>1 DEF Bytes
    <3> QED
      BY <1>3, <3>2
  <2>2. \A b \in Bytes : \E i \in DOMAIN table : b \in ChunkBytes(i)
    BY <1>1, <2>1, Zenon
  <2>3. \A i \in DOMAIN table : ChunkBytes(i) \subseteq Bytes
    BY <1>1, <1>5, Zenon
  <2> QED
    BY <2>2, <2>3
<1>7. ASSUME NEW i \in 1..n, NEW j \in 1..n, NEW b \in Piece(Offs, Lens, i), NEW d \in Piece(Offs, Lens, j), i < j
      PROVE  b < d /\ align_down(b) # align_down(d)
  <2>1. Offs[i] + Lens[i] <= Offs[j] /\ Offs[i] \in Nat /\ Lens[i] \in Nat /\ Offs[j] \in Nat /\ Lens[j] \in Nat
    BY <1>1, <1>4, <1>7
  <2>2. b \in Nat /\ d \in Nat /\ b < Offs[j] /\ Offs[j] <= d
    BY <2>1 DEF Piece
  <2>3. Offs[j] % RESIDCTL_ALIGN = 0
    BY DEF Tiled, n
  <2> QED
    BY <2>1, <2>2, <2>3, OtherPage
<1> QED
  BY <1>1, <1>6, <1>7

-----------------------------------------------------------------------------
(* A table cut by size *)

\* Rounding yields the next whole page, or 0 if that is the end of the numbers.
LEMMA Rounded ==
  ASSUME cfg \in ConfigType
  PROVE  LET u == align_up(cfg.chunk_size) IN
         /\ u \in Nat /\ u % RESIDCTL_ALIGN = 0 /\ u <= UINT64
         /\ rounded_chunk_size(cfg.chunk_size) = IF u < UINT64 THEN u ELSE 0
         /\ u = 0 <=> cfg.chunk_size = 0
<1> DEFINE A == RESIDCTL_ALIGN
           v == cfg.chunk_size
           u == align_up(v)
<1>1. A \in Nat \ {0} /\ UINT64 \in Nat \ {0} /\ UINT64 % A = 0
  BY Assumed
<1>2. v \in Nat /\ v < UINT64
  BY <1>1 DEF ConfigType, Word
<1> HIDE DEF v
<1>3. /\ u \in Nat /\ v <= u /\ u < v + A /\ u % A = 0
      /\ v % A = 0 => u = v
      /\ v % A # 0 => u = (v \div A + 1) * A
  BY <1>2, AlignUp
<1> HIDE DEF u
<1>4. v % A = 0 => rounded_chunk_size(v) = v
  BY DEF rounded_chunk_size, A
<1>5. v % A # 0 => rounded_chunk_size(v) = u % UINT64
  BY <1>3 DEF rounded_chunk_size, A
<1> HIDE DEF A
<1>6. u <= UINT64
  <2>1. PICK j \in Nat : u = A * j
    BY <1>1, <1>3, Multiple
  <2>2. PICK m \in Nat : UINT64 = A * m
    BY <1>1, Multiple
  <2>3. j <= m
    <3>1. SUFFICES ASSUME m + 1 <= j PROVE FALSE
      OBVIOUS
    <3>2. A * (m + 1) <= A * j /\ A * (m + 1) = A * m + A /\ A * m \in Nat /\ A * j \in Nat
      BY <1>1, <3>1, Product
    <3> HIDE <3>1
    <3> QED
      BY <1>1, <1>2, <1>3, <2>1, <2>2, <3>2
  <2> QED
    BY <1>1, <2>1, <2>2, <2>3, Product
<1>7. u < UINT64 => u % UINT64 = u
  BY <1>1, <1>3, ModSmall
<1>8. UINT64 % UINT64 = 0
  <2>1. (UINT64 * 1) % UINT64 = 0 /\ UINT64 * 1 = UINT64
    BY <1>1, MultipleIs
  <2> QED
    BY <2>1
<1>9. rounded_chunk_size(v) = IF u < UINT64 THEN u ELSE 0
  <2>1. CASE v % A = 0
    BY <1>2, <1>3, <1>4, <2>1
  <2>2. CASE v % A # 0
    <3>1. u = UINT64 \/ u < UINT64
      BY <1>1, <1>3, <1>6
    <3> QED
      BY <1>1, <1>5, <1>7, <1>8, <2>2, <3>1
  <2> QED
    BY <2>1, <2>2
<1>10. u = 0 <=> v = 0
  <2>1. 0 % A = 0
    <3>1. (A * 0) % A = 0 /\ A * 0 = 0
      BY <1>1, MultipleIs
    <3> QED
      BY <3>1
  <2> QED
    BY <1>2, <1>3, <2>1
<1> QED
  BY <1>3, <1>6, <1>9, <1>10 DEF u, v, A

\* The number of pieces of a size that cover a length: none if the sum wraps.
LEMMA PieceCount ==
  ASSUME NEW L \in Nat \ {0}, L < UINT64, NEW s \in Nat \ {0}, s < UINT64
  PROVE  LET n == ((L + s - 1) % UINT64) \div s IN
         /\ n \in Nat
         /\ n # 0 <=> L + s <= UINT64
         /\ n # 0 => /\ s * (n - 1) < L /\ L <= s * n
                     /\ \A M \in Nat : n <= M <=> L <= M * s
<1> DEFINE w == L + s - 1
           n == (w % UINT64) \div s
<1>1. UINT64 \in Nat \ {0} /\ w \in Nat
  BY Assumed
<1>2. CASE L + s <= UINT64
  <2>1. w % UINT64 = w
    BY <1>1, <1>2, ModSmall
  <2>2. n = w \div s
    BY <2>1
  <2>3. n \in Nat /\ s * n <= w /\ w < s * n + s
    <3>1. LET q == w \div s IN q \in Nat /\ s * q <= w /\ w < s * q + s
      BY <1>1, Quotient
    <3> QED
      BY <2>2, <3>1
  <2> HIDE DEF n
  <2>4. s * n \in Nat
    BY <2>3
  <2>5. L <= s * n
    BY <2>3, <2>4
  <2>6. n # 0
    <3>1. s * 0 = 0
      OBVIOUS
    <3> QED
      BY <2>5, <3>1
  <2>7. s * (n - 1) < L
    <3>1. s * (n - 1) = s * n - s
      BY <2>3
    <3>2. s * n - s < L
      BY <2>3, <2>4
    <3> QED
      BY <3>1, <3>2
  <2>8. ASSUME NEW M \in Nat PROVE n <= M <=> L <= M * s
    <3>1. M * s = s * M /\ s * M \in Nat
      OBVIOUS
    <3>2. ASSUME n <= M PROVE L <= s * M
      <4>1. s * n <= s * M
        BY <2>3, <3>2, Product
      <4> QED
        BY <2>4, <2>5, <3>1, <4>1
    <3>3. ASSUME M + 1 <= n PROVE ~ (L <= s * M)
      <4>1. s * (M + 1) <= s * n /\ s * (M + 1) = s * M + s
        BY <2>3, <3>3, Product
      <4> QED
        BY <2>3, <2>4, <3>1, <4>1
    <3>4. n <= M \/ M + 1 <= n
      BY <2>3
    <3> QED
      BY <3>1, <3>2, <3>3, <3>4
  <2> QED
    BY <1>2, <2>3, <2>5, <2>6, <2>7, <2>8 DEF n
<1>3. CASE ~ (L + s <= UINT64)
  <2> DEFINE r == w - UINT64
  <2>1. r \in 0..(UINT64 - 1) /\ r < s /\ w = UINT64 * 1 + r
    BY <1>1, <1>3
  <2> HIDE DEF r
  <2>2. (UINT64 * 1 + r) % UINT64 = r
    BY <1>1, <2>1, ModUnique
  <2>3. w % UINT64 = r
    BY <2>1, <2>2
  <2>4. s * 0 = 0
    OBVIOUS
  <2>5. r \div s = 0
    BY <2>1, <2>4, QuotientIs
  <2> QED
    BY <1>3, <2>3, <2>5
<1> QED
  BY <1>2, <1>3

LEMMA CutIs ==
  ASSUME NEW off \in Int, NEW s \in Int, cfg.region_len \in Int
  PROVE  CutLength(off, s) = IF s <= cfg.region_len - off THEN s ELSE cfg.region_len - off
<1> DEFINE p == cfg.region_len - off
<1>1. p \in Int
  OBVIOUS
<1> HIDE DEF p
<1>2. Min({s, p}) = IF s <= p THEN s ELSE p
  BY <1>1 DEF Min
<1> QED
  BY <1>2 DEF CutLength, p

CutOffs(n, s) == [i \in 1..n |-> (i - 1) * s]
CutLens(n, s) == [i \in 1..n |-> CutLength((i - 1) * s, s)]

\* The pieces of a cut are a chain of whole pages that ends with the region.
LEMMA CutTiles ==
  ASSUME NEW L \in Nat \ {0}, cfg.region_len = L, L < UINT64,
         NEW s \in Nat \ {0}, s < UINT64, s % RESIDCTL_ALIGN = 0,
         NEW n \in Nat \ {0}, s * (n - 1) < L, L <= s * n
  PROVE  LET off == CutOffs(n, s)
             len == CutLens(n, s)
         IN  /\ off \in [1..n -> Word] /\ len \in [1..n -> Word \ {0}]
             /\ Chain(n, off, len)
             /\ off[n] + len[n] = L
             /\ \A i \in 1..n : off[i] % RESIDCTL_ALIGN = 0
<1> DEFINE off == CutOffs(n, s)
           len == CutLens(n, s)
<1>0. /\ \A i \in 1..n : off[i] = (i - 1) * s /\ len[i] = CutLength((i - 1) * s, s)
      /\ off = [i \in 1..n |-> off[i]] /\ len = [i \in 1..n |-> len[i]]
  BY DEF CutOffs, CutLens
<1> HIDE DEF off, len
<1>1. ASSUME NEW i \in 1..n
      PROVE  /\ off[i] = s * (i - 1) /\ off[i] \in Nat /\ off[i] < L
             /\ i < n => len[i] = s
             /\ i = n => len[i] = L - off[i] /\ L - off[i] <= s
             /\ off[i] % RESIDCTL_ALIGN = 0
  <2>1. i - 1 \in Nat /\ n - 1 \in Nat /\ i - 1 <= n - 1
    OBVIOUS
  <2>2. /\ s * (i - 1) \in Nat /\ s * (i - 1) <= s * (n - 1)
        /\ s * (n - 1) \in Nat /\ s * ((i - 1) + 1) = s * (i - 1) + s
    BY <2>1, Product
  <2>3. (i - 1) * s = s * (i - 1)
    OBVIOUS
  <2> DEFINE o == s * (i - 1)
             p == s * (n - 1)
  <2>4. o \in Nat /\ off[i] = o /\ o < L /\ p \in Nat /\ p < L
    <3>1. off[i] = (i - 1) * s
      BY <1>0
    <3>2. off[i] = o
      BY <2>3, <3>1
    <3>3. o \in Nat /\ o <= p /\ p \in Nat /\ p < L
      BY <2>2
    <3> HIDE DEF o, p
    <3> QED
      BY <3>2, <3>3
  <2>5. len[i] = IF s <= L - o THEN s ELSE L - o
    <3>1. len[i] = CutLength(o, s)
      BY <1>0, <2>3
    <3> HIDE DEF o
    <3> QED
      BY <2>4, <3>1, CutIs
  <2>6. i < n => s <= L - o
    <3> SUFFICES ASSUME i < n PROVE s <= L - o
      OBVIOUS
    <3>1. i <= n - 1 /\ i \in Nat /\ (i - 1) + 1 = i
      OBVIOUS
    <3>2. s * i <= p
      BY <2>1, <3>1, Product
    <3>3. s * i = o + s
      BY <2>2, <3>1
    <3> HIDE DEF o, p
    <3>4. o + s <= p
      BY <3>2, <3>3
    <3> QED
      BY <2>4, <3>4
  <2>7. i = n => L - o <= s
    <3> SUFFICES ASSUME i = n PROVE L - o <= s
      OBVIOUS
    <3>1. s * n = o + s
      BY <2>2
    <3> HIDE DEF o
    <3> QED
      BY <2>4, <3>1
  <2>8. o % RESIDCTL_ALIGN = 0
    <3>1. PICK k \in Nat : s = RESIDCTL_ALIGN * k
      BY Assumed, Multiple
    <3>2. o = RESIDCTL_ALIGN * (k * (i - 1)) /\ k * (i - 1) \in Nat
      BY <2>1, <3>1, Assumed
    <3> HIDE DEF o
    <3> QED
      BY <3>2, Assumed, MultipleIs
  <2> HIDE DEF o, p
  <2>9. i < n => len[i] = s
    BY <2>5, <2>6
  <2>10. i = n => len[i] = L - o
    BY <2>4, <2>5, <2>7
  <2>11. off[i] = s * (i - 1)
    BY <2>4 DEF o
  <2> QED
    BY <2>4, <2>7, <2>8, <2>9, <2>10, <2>11
<1>2. \A i \in 1..n : i < n \/ i = n
  OBVIOUS
<1>3. UINT64 \in Nat
  BY Assumed
<1>4. \A i \in 1..n : off[i] \in Word /\ len[i] \in Word \ {0}
  BY <1>1, <1>2, <1>3 DEF Word
<1>5. off \in [1..n -> Word] /\ len \in [1..n -> Word \ {0}]
  BY <1>0, <1>4
<1>6. Chain(n, off, len)
  <2>1. off[1] = 0
    <3>1. off[1] = s * (1 - 1) /\ s * (1 - 1) = 0
      BY <1>1
    <3> QED
      BY <3>1
  <2>2. ASSUME NEW i \in 1..(n - 1) PROVE off[i + 1] = off[i] + len[i]
    <3>1. i \in 1..n /\ i + 1 \in 1..n /\ i < n /\ (i + 1) - 1 = (i - 1) + 1 /\ i - 1 \in Nat
      OBVIOUS
    <3>2. off[i] = s * (i - 1) /\ len[i] = s
      BY <1>1, <3>1
    <3>3. off[i + 1] = s * ((i - 1) + 1)
      BY <1>1, <3>1
    <3>4. s * ((i - 1) + 1) = s * (i - 1) + s
      BY <3>1, Product
    <3> QED
      BY <3>2, <3>3, <3>4
  <2> QED
    BY <2>1, <2>2 DEF Chain
<1>7. off[n] + len[n] = L
  <2>1. off[n] \in Nat /\ len[n] = L - off[n]
    BY <1>1
  <2> QED
    BY <2>1
<1> QED
  BY <1>1, <1>5, <1>7, <1>6 DEF off, len

-----------------------------------------------------------------------------
(* Explicit tables *)

SpecOffs == [i \in 1..Len(cfg.specs) |-> cfg.specs[i].off]
SpecLens == [i \in 1..Len(cfg.specs) |-> cfg.specs[i].len]

LEMMA SpecsType ==
  ASSUME cfg \in ConfigType, cfg.specs # <<>>
  PROVE  /\ Len(cfg.specs) \in Nat \ {0} /\ DOMAIN cfg.specs = 1..Len(cfg.specs)
         /\ \A i \in 1..Len(cfg.specs) : /\ cfg.specs[i].off \in Word
                                         /\ cfg.specs[i].len \in Word
                                         /\ SpecBytes(i) = Piece(SpecOffs, SpecLens, i)
         /\ SpecOffs \in [1..Len(cfg.specs) -> Nat]
         /\ Word \subseteq Nat /\ cfg.region_len \in Nat /\ cfg.region_len < UINT64 /\ UINT64 \in Nat \ {0}
<1> DEFINE n == Len(cfg.specs)
<1>1. cfg.specs \in Seq(SpecType) /\ cfg.region_len \in Word
  BY DEF ConfigType
<1>2. n \in Nat \ {0} /\ DOMAIN cfg.specs = 1..n /\ \A i \in 1..n : cfg.specs[i] \in SpecType
  BY <1>1
<1>3. Word \subseteq Nat /\ UINT64 \in Nat \ {0} /\ \A v \in Word : v < UINT64
  BY Assumed DEF Word
<1>4. \A i \in 1..n : cfg.specs[i].off \in Word /\ cfg.specs[i].len \in Word
  BY <1>2 DEF SpecType
<1> QED
  BY <1>1, <1>2, <1>3, <1>4 DEF SpecOffs, SpecLens, SpecBytes, Piece

\* What is accepted, if no end wraps, is a chain of whole pages.
LEMMA AcceptedChain ==
  ASSUME cfg \in ConfigType, cfg.specs # <<>>, Accept(cfg.specs), ~ Wraps
  PROVE  LET n == Len(cfg.specs) IN
         /\ SpecLens \in [1..n -> Nat \ {0}]
         /\ Chain(n, SpecOffs, SpecLens)
         /\ SpecOffs[n] + SpecLens[n] = cfg.region_len
         /\ \A i \in 1..n : cfg.specs[i].off % RESIDCTL_ALIGN = 0 /\ cfg.specs[i].file_off = cfg.specs[i].off
<1> DEFINE n == Len(cfg.specs)
           sp == cfg.specs
<1>1. /\ n \in Nat \ {0} /\ DOMAIN sp = 1..n
      /\ \A i \in 1..n : sp[i].off \in Nat /\ sp[i].len \in Nat
      /\ UINT64 \in Nat \ {0}
  BY SpecsType
<1>2. /\ \A i \in 1..n : /\ sp[i].off = expect_off(sp, i) /\ sp[i].file_off = sp[i].off
                         /\ sp[i].len # 0 /\ sp[i].off % RESIDCTL_ALIGN = 0
      /\ expect_off(sp, n + 1) = cfg.region_len
  BY <1>1 DEF Accept
<1>0. \A i \in DOMAIN sp : ~ (sp[i].off + sp[i].len >= UINT64)
  BY DEF Wraps
<1> HIDE DEF n, sp
<1>3. ASSUME NEW i \in 1..n PROVE sp[i].off + sp[i].len < UINT64
  <2>1. sp[i].off \in Nat /\ sp[i].len \in Nat /\ i \in DOMAIN sp
    BY <1>1
  <2>2. ~ (sp[i].off + sp[i].len >= UINT64)
    BY <1>0, <2>1
  <2> QED
    BY <1>1, <2>1, <2>2
<1>4. ASSUME NEW i \in 1..n PROVE expect_off(sp, i + 1) = sp[i].off + sp[i].len
  <2> DEFINE e == sp[i].off + sp[i].len
  <2>1. e \in 0..(UINT64 - 1)
    BY <1>1, <1>3
  <2>2. i + 1 # 1 /\ (i + 1) - 1 = i
    BY <1>1
  <2> HIDE DEF e
  <2>3. e % UINT64 = e
    BY <1>1, <2>1, ModSmall
  <2>4. expect_off(sp, i + 1) = e % UINT64
    BY <2>2 DEF expect_off, e
  <2> QED
    BY <2>3, <2>4 DEF e
<1>5. SpecLens \in [1..n -> Nat \ {0}]
  BY <1>1, <1>2 DEF SpecLens, n, sp
<1>6. Chain(n, SpecOffs, SpecLens)
  <2>1. sp[1].off = 0
    BY <1>1, <1>2 DEF expect_off
  <2>2. ASSUME NEW i \in 1..(n - 1) PROVE sp[i + 1].off = sp[i].off + sp[i].len
    <3>1. i \in 1..n /\ i + 1 \in 1..n
      BY <1>1
    <3> QED
      BY <1>2, <1>4, <3>1
  <2>3. \A i \in 1..n : SpecOffs[i] = sp[i].off /\ SpecLens[i] = sp[i].len
    BY DEF SpecOffs, SpecLens, n, sp
  <2>4. 1 \in 1..n /\ \A i \in 1..(n - 1) : i \in 1..n /\ i + 1 \in 1..n
    BY <1>1
  <2> QED
    BY <2>1, <2>2, <2>3, <2>4 DEF Chain
<1>7. SpecOffs[n] + SpecLens[n] = cfg.region_len
  <2>1. n \in 1..n
    BY <1>1
  <2>2. SpecOffs[n] = sp[n].off /\ SpecLens[n] = sp[n].len
    BY <2>1 DEF SpecOffs, SpecLens, n, sp
  <2> QED
    BY <1>2, <1>4, <2>1, <2>2
<1> QED
  BY <1>2, <1>5, <1>6, <1>7 DEF n, sp

LEMMA AcceptedTiles ==
  ASSUME cfg \in ConfigType, cfg.specs # <<>>, Accept(cfg.specs), ~ Wraps
  PROVE  Tiling
<1> DEFINE n == Len(cfg.specs)
<1>1. /\ n \in Nat \ {0} /\ DOMAIN cfg.specs = 1..n
      /\ SpecOffs \in [1..n -> Nat]
      /\ \A i \in 1..n : SpecBytes(i) = Piece(SpecOffs, SpecLens, i)
      /\ cfg.region_len \in Nat
  BY SpecsType
<1>2. /\ SpecLens \in [1..n -> Nat \ {0}]
      /\ Chain(n, SpecOffs, SpecLens)
      /\ SpecOffs[n] + SpecLens[n] = cfg.region_len
      /\ \A i \in 1..n : cfg.specs[i].off % RESIDCTL_ALIGN = 0 /\ cfg.specs[i].file_off = cfg.specs[i].off
  BY AcceptedChain
<1>3. \A i \in 1..n : SpecOffs[i] = cfg.specs[i].off
  BY DEF SpecOffs
<1> HIDE DEF n
<1>4. /\ \A b \in 0..(SpecOffs[n] + SpecLens[n] - 1) : \E i \in 1..n : b \in Piece(SpecOffs, SpecLens, i)
      /\ \A i \in 1..n : SpecOffs[i] + SpecLens[i] <= SpecOffs[n] + SpecLens[n]
      /\ \A i, j \in 1..n : Piece(SpecOffs, SpecLens, i) \cap Piece(SpecOffs, SpecLens, j) # {} => i = j
  BY <1>1, <1>2, ChainCovers
<1>5. ASSUME NEW i \in 1..n PROVE SpecBytes(i) # {} /\ SpecBytes(i) \subseteq Bytes
  <2>1. SpecOffs[i] \in Nat /\ SpecLens[i] \in Nat \ {0} /\ SpecOffs[i] + SpecLens[i] <= cfg.region_len
    BY <1>1, <1>2, <1>4
  <2>2. SpecBytes(i) = SpecOffs[i]..(SpecOffs[i] + SpecLens[i] - 1)
    BY <1>1 DEF Piece
  <2>3. SpecOffs[i] \in SpecBytes(i)
    BY <2>1, <2>2
  <2>4. SpecBytes(i) \subseteq Bytes
    BY <1>1, <2>1, <2>2 DEF Bytes
  <2> QED
    BY <2>3, <2>4
<1>6. ASSUME NEW b \in Bytes PROVE Cardinality({i \in 1..n : b \in SpecBytes(i)}) = 1
  <2>1. b \in 0..(SpecOffs[n] + SpecLens[n] - 1)
    BY <1>1, <1>2 DEF Bytes
  <2>2. PICK i \in 1..n : b \in Piece(SpecOffs, SpecLens, i)
    BY <1>4, <2>1
  <2>3. \A j \in 1..n : b \in SpecBytes(j) <=> j = i
    BY <1>1, <1>4, <2>2
  <2>4. {j \in 1..n : b \in SpecBytes(j)} = {i}
    BY <2>3
  <2> QED
    BY <2>4, FS_Singleton
<1>7. ASSUME NEW i \in 1..n, NEW j \in 1..n, i < j PROVE cfg.specs[i].off < cfg.specs[j].off
  <2>1. SpecOffs[i] + SpecLens[i] <= SpecOffs[j]
    BY <1>1, <1>2, <1>7, ChainOrdered
  <2>2. SpecOffs[i] \in Nat /\ SpecLens[i] \in Nat \ {0} /\ SpecOffs[j] \in Nat
    BY <1>1, <1>2
  <2> QED
    BY <1>3, <2>1, <2>2
<1> QED
  BY <1>1, <1>2, <1>5, <1>6, <1>7 DEF Tiling

\* Whatever tiles the region is accepted.
LEMMA TilesAccepted ==
  ASSUME cfg \in ConfigType, cfg.specs # <<>>, Tiling,
         cfg.region_len # 0, cfg.region_len % RESIDCTL_ALIGN = 0
  PROVE  Accept(cfg.specs)
<1> DEFINE n == Len(cfg.specs)
           L == cfg.region_len
           off(i) == cfg.specs[i].off
           len(i) == cfg.specs[i].len
<1>1. /\ n \in Nat \ {0} /\ DOMAIN cfg.specs = 1..n
      /\ \A i \in 1..n : off(i) \in Nat /\ len(i) \in Nat
      /\ L \in Nat \ {0} /\ L < UINT64 /\ UINT64 \in Nat \ {0}
  BY SpecsType
<1>2. /\ \A i \in 1..n : /\ SpecBytes(i) # {} /\ SpecBytes(i) \subseteq Bytes
                         /\ cfg.specs[i].file_off = off(i)
                         /\ off(i) % RESIDCTL_ALIGN = 0
      /\ \A b \in Bytes : Cardinality({i \in 1..n : b \in SpecBytes(i)}) = 1
      /\ \A i, j \in 1..n : i < j => off(i) < off(j)
  BY <1>1 DEF Tiling
<1>3. \A i \in 1..n : SpecBytes(i) = off(i)..(off(i) + len(i) - 1)
  BY DEF SpecBytes
<1> HIDE DEF n, off, len
<1>4. ASSUME NEW i \in 1..n, NEW b \in SpecBytes(i)
       PROVE  b \in Int /\ off(i) <= b /\ b < off(i) + len(i)
  <2>1. off(i) \in Nat /\ len(i) \in Nat
    BY <1>1
  <2>2. b \in off(i)..(off(i) + len(i) - 1)
    BY <1>3
  <2> QED
    BY <2>1, <2>2
<1>5. ASSUME NEW i \in 1..n PROVE len(i) # 0 /\ off(i) + len(i) <= L
  <2>1. off(i) \in Nat /\ len(i) \in Nat
    BY <1>1
  <2>2. len(i) # 0
    BY <1>2, <1>3, <2>1
  <2>3. off(i) + len(i) - 1 \in SpecBytes(i)
    BY <1>3, <2>1, <2>2
  <2>4. off(i) + len(i) - 1 \in Bytes
    BY <1>2, <2>3
  <2> QED
    BY <1>1, <2>1, <2>2, <2>4 DEF Bytes
<1>6. ASSUME NEW b \in Bytes
      PROVE  \E i \in 1..n : b \in SpecBytes(i) /\ \A j \in 1..n : b \in SpecBytes(j) => j = i
  <2> DEFINE T == {i \in 1..n : b \in SpecBytes(i)}
  <2>1. IsFiniteSet(T) /\ Cardinality(T) = 1
    <3>1. IsFiniteSet(1..n)
      BY <1>1, FS_Interval
    <3>2. T \in SUBSET (1..n)
      OBVIOUS
    <3> QED
      BY <1>2, <3>1, <3>2, FS_Subset
  <2> HIDE DEF T
  <2>2. PICK i : T = {i}
    BY <2>1, FS_Singleton
  <2>3. i \in 1..n /\ b \in SpecBytes(i)
    BY <2>2 DEF T
  <2>4. \A j \in 1..n : b \in SpecBytes(j) => j = i
    BY <2>2 DEF T
  <2> QED
    BY <2>3, <2>4
<1>7. off(1) = 0
  <2>1. 0 \in Bytes
    BY <1>1 DEF Bytes
  <2>2. PICK i \in 1..n : 0 \in SpecBytes(i)
    BY <1>6, <2>1
  <2>3. off(i) = 0
    BY <1>1, <1>3, <2>2
  <2>4. i = 1
    <3>1. SUFFICES ASSUME 1 < i PROVE FALSE
      OBVIOUS
    <3>2. 1 \in 1..n /\ off(1) \in Nat /\ off(1) < off(i)
      BY <1>1, <1>2, <3>1
    <3> QED
      BY <2>3, <3>2
  <2> QED
    BY <2>3, <2>4
\* The byte after a piece is not in the piece, nor in an earlier one; so it is in
\* a later one, which cannot start before.
<1>8. ASSUME NEW i \in 1..n, NEW j \in 1..n, off(i) + len(i) \in SpecBytes(j)
      PROVE  i < j
  <2>1. /\ off(i) \in Nat /\ len(i) \in Nat \ {0} /\ off(j) \in Nat /\ len(j) \in Nat
        /\ off(j) <= off(i) + len(i) /\ off(i) + len(i) < off(j) + len(j)
    BY <1>1, <1>5, <1>8, <1>4
  <2>2. i # j
    BY <2>1
  <2>3. SUFFICES ASSUME j < i PROVE FALSE
    BY <2>2
  <2>4. off(j) < off(i)
    BY <1>2, <2>3
  <2>5. off(i) \in SpecBytes(j) /\ off(i) \in SpecBytes(i)
    BY <1>3, <2>1, <2>4
  <2>6. off(i) \in Bytes
    BY <1>2, <2>5
  <2> QED
    BY <1>6, <2>3, <2>5, <2>6
<1>9. ASSUME NEW i \in 1..(n - 1) PROVE off(i + 1) = off(i) + len(i)
  <2>1. i \in 1..n /\ i + 1 \in 1..n /\ i < i + 1
    BY <1>1
  <2>2. /\ off(i) \in Nat /\ len(i) \in Nat \ {0} /\ off(i + 1) \in Nat /\ len(i + 1) \in Nat \ {0}
        /\ off(i + 1) + len(i + 1) <= L /\ off(i) < off(i + 1)
    BY <1>1, <1>2, <1>5, <2>1
  <2>3. ~ (off(i + 1) < off(i) + len(i))
    <3>1. SUFFICES ASSUME off(i + 1) < off(i) + len(i) PROVE FALSE
      OBVIOUS
    <3>2. off(i + 1) \in SpecBytes(i) /\ off(i + 1) \in SpecBytes(i + 1)
      BY <1>3, <2>1, <2>2, <3>1
    <3>3. off(i + 1) \in Bytes
      BY <1>2, <2>1, <3>2
    <3>4. i = i + 1
      BY <1>6, <2>1, <3>2, <3>3
    <3> QED
      BY <2>1, <3>4
  <2>4. ~ (off(i) + len(i) < off(i + 1))
    <3>1. SUFFICES ASSUME off(i) + len(i) < off(i + 1) PROVE FALSE
      OBVIOUS
    <3>2. off(i) + len(i) \in Bytes
      BY <1>1, <2>2, <3>1 DEF Bytes
    <3>3. PICK j \in 1..n : off(i) + len(i) \in SpecBytes(j)
      BY <1>6, <3>2
    <3>4. i < j
      BY <1>8, <2>1, <3>3
    <3>5. off(j) <= off(i) + len(i) /\ off(j) \in Nat
      BY <1>1, <1>4, <3>3
    <3>6. i + 1 = j \/ off(i + 1) < off(j)
      BY <1>2, <2>1, <3>4
    <3> QED
      BY <2>2, <3>1, <3>5, <3>6
  <2> QED
    BY <2>2, <2>3, <2>4
<1>10. off(n) + len(n) = L
  <2>1. n \in 1..n
    BY <1>1
  <2>2. off(n) \in Nat /\ len(n) \in Nat \ {0} /\ off(n) + len(n) <= L
    BY <1>1, <1>5, <2>1
  <2>3. SUFFICES ASSUME off(n) + len(n) < L PROVE FALSE
    BY <1>1, <2>2
  <2>4. off(n) + len(n) \in Bytes
    BY <1>1, <2>2, <2>3 DEF Bytes
  <2>5. PICK j \in 1..n : off(n) + len(n) \in SpecBytes(j)
    BY <1>6, <2>4
  <2>6. n < j
    BY <1>8, <2>1, <2>5
  <2> QED
    BY <1>1, <2>6
<1>11. ASSUME NEW i \in 1..n PROVE expect_off(cfg.specs, i + 1) = off(i) + len(i)
  <2> DEFINE e == off(i) + len(i)
  <2>1. e \in 0..(UINT64 - 1)
    BY <1>1, <1>5
  <2>2. i + 1 # 1 /\ (i + 1) - 1 = i
    BY <1>1
  <2> HIDE DEF e
  <2>3. e % UINT64 = e
    BY <1>1, <2>1, ModSmall
  <2>4. expect_off(cfg.specs, i + 1) = e % UINT64
    BY <2>2 DEF expect_off, e, off, len
  <2> QED
    BY <2>3, <2>4 DEF e
<1>12. ASSUME NEW i \in 1..n PROVE off(i) = expect_off(cfg.specs, i)
  <2>1. CASE i = 1
    BY <1>7, <2>1 DEF expect_off
  <2>2. CASE i # 1
    <3>1. i - 1 \in 1..(n - 1) /\ i - 1 \in 1..n /\ (i - 1) + 1 = i
      BY <1>1, <2>2
    <3> QED
      BY <1>9, <1>11, <3>1
  <2> QED
    BY <2>1, <2>2
<1>13. ASSUME NEW i \in 1..n, i < n PROVE len(i) % RESIDCTL_ALIGN = 0
  <2>1. i \in 1..(n - 1) /\ i + 1 \in 1..n
    BY <1>1, <1>13
  <2>2. off(i) % RESIDCTL_ALIGN = 0 /\ off(i + 1) % RESIDCTL_ALIGN = 0
    BY <1>2, <2>1
  <2>3. off(i) \in Nat /\ off(i + 1) \in Nat /\ len(i) \in Nat
    BY <1>1, <2>1
  <2>4. off(i + 1) = off(i) + len(i)
    BY <1>9, <2>1
  <2>5. len(i) = off(i + 1) - off(i) /\ off(i) <= off(i + 1)
    BY <2>3, <2>4
  <2>6. (off(i + 1) - off(i)) % RESIDCTL_ALIGN = 0
    BY <2>2, <2>3, <2>5, Assumed, MultipleSum
  <2> QED
    BY <2>5, <2>6
<1>14. expect_off(cfg.specs, n + 1) = cfg.region_len
  BY <1>1, <1>10, <1>11
<1> QED
  BY <1>1, <1>2, <1>5, <1>12, <1>13, <1>14 DEF Accept, n, off, len

-----------------------------------------------------------------------------
(* Start-up and lookup keep the invariant *)

LEMMA ConfigStays ==
  ASSUME cfg' = cfg
  PROVE  /\ Bytes' = Bytes /\ Wraps' = Wraps
         /\ Tiling' = Tiling /\ Cuttable' = Cuttable
         /\ Usable' = Usable /\ Sound' = Sound
<1>1. Bytes' = Bytes /\ Wraps' = Wraps
  BY DEF Bytes, Wraps
<1>2. Tiling' = Tiling
  BY <1>1 DEF Tiling, SpecBytes
<1>3. Cuttable' = Cuttable
  BY DEF Cuttable
<1>4. Sound' = Sound
  BY DEF Sound
<1> QED
  BY <1>1, <1>2, <1>3, <1>4 DEF Usable

LEMMA TableStays ==
  ASSUME cfg' = cfg, table' = table
  PROVE  NChunks' = NChunks /\ Offs' = Offs /\ Lens' = Lens /\ Tiled' = Tiled
<1>1. NChunks' = NChunks
  BY DEF NChunks
<1>2. Offs' = Offs /\ Lens' = Lens
  BY <1>1 DEF Offs, Lens
<1> QED
  BY <1>1, <1>2 DEF Tiled

LEMMA InitStartup ==
  ASSUME Init
  PROVE  StartupInv
<1>1. NChunks = 0
  BY DEF Init, NChunks
<1>2. TypeOK
  BY <1>1 DEF Init, TypeOK
<1> QED
  BY <1>2 DEF Init, StartupInv, Checked, Built, Checking, Serving

\* A check that leaves everything else alone.
LEMMA ChecksKeep ==
  ASSUME StartupInv, CheckConfig \/ RegisterMappingA \/ OpenModelFile \/ ComputeBudget
  PROVE  StartupInv'
<1>1. UNCHANGED <<cfg, table, memory, addr, lo, hi>>
  BY DEF CheckConfig, RegisterMappingA, OpenModelFile, ComputeBudget, lookupVars
<1>2. /\ Bytes' = Bytes /\ Wraps' = Wraps /\ Usable' = Usable /\ Sound' = Sound
      /\ NChunks' = NChunks /\ Tiled' = Tiled
  BY <1>1, ConfigStays, TableStays
<1>3. cfg \in ConfigType /\ cfg.opens \in {"direct", "buffered", "neither"}
  BY Assumed DEF StartupInv, TypeOK, ConfigType
<1>4. TypeOK'
  <2>1. step' \in {"register", "model", "table", "up", "failed"}
    BY DEF CheckConfig, RegisterMappingA, OpenModelFile, ComputeBudget, Goes
  <2> QED
    BY <1>1, <1>2, <2>1 DEF StartupInv, TypeOK
<1>5. CASE CheckConfig
  BY <1>1, <1>2, <1>4, <1>5
  DEF StartupInv, Checked, Built, Checking, Serving, CheckConfig, Goes, Sound
<1>6. CASE RegisterMappingA
  BY <1>1, <1>2, <1>4, <1>6
  DEF StartupInv, Checked, Built, Checking, Serving, RegisterMappingA, Goes, Sound
<1>7. CASE OpenModelFile
  BY <1>1, <1>2, <1>3, <1>4, <1>7
  DEF StartupInv, Checked, Built, Checking, Serving, OpenModelFile, Goes, Sound
<1>8. CASE ComputeBudget
  BY <1>1, <1>2, <1>4, <1>8
  DEF StartupInv, Checked, Built, Checking, Serving, ComputeBudget, Goes, Sound
<1> QED
  BY <1>5, <1>6, <1>7, <1>8

\* What a step that builds the table, or refuses to, must establish.
LEMMA TableStep ==
  ASSUME StartupInv, step = "table", UNCHANGED <<cfg, memory, lookupVars>>,
         \/ /\ step' = "budget" /\ table' # <<>> /\ table' \in Seq([off : Word, len : Word \ {0}])
            /\ Usable \/ Wraps
            /\ ~ Wraps => Tiled'
         \/ step' = "failed" /\ table' = table /\ ~ Usable
  PROVE  StartupInv'
<1>1. UNCHANGED <<cfg, memory, addr, lo, hi>> /\ table = <<>> /\ memory = [b \in Bytes |-> "hole"]
  BY DEF lookupVars, StartupInv, Built, Checking, Serving
<1>2. Bytes' = Bytes /\ Wraps' = Wraps /\ Usable' = Usable /\ Sound' = Sound
  BY <1>1, ConfigStays
<1>3. TypeOK'
  <2>1. lo = 0 /\ hi = 0
    BY <1>1 DEF StartupInv, TypeOK, NChunks
  <2>2. table' \in Seq([off : Word, len : Word \ {0}])
    BY DEF StartupInv, TypeOK
  <2> DEFINE T == [off : Word, len : Word \ {0}]
  <2> HIDE DEF T
  <2>3. table' \in Seq(T) => Len(table') \in Nat
    OBVIOUS
  <2>4. NChunks' \in Nat
    BY <2>2, <2>3 DEF T, NChunks
  <2> QED
    BY <1>1, <1>2, <2>1, <2>2, <2>4 DEF StartupInv, TypeOK
<1> QED
  BY <1>1, <1>2, <1>3 DEF StartupInv, Checked, Built, Checking, Serving

LEMMA BuildKeeps ==
  ASSUME StartupInv, BuildChunkTable
  PROVE  StartupInv'
<1> DEFINE L == cfg.region_len
           s == rounded_chunk_size(cfg.chunk_size)
           u == align_up(cfg.chunk_size)
           n == ((L + s - 1) % UINT64) \div s
           t == [i \in 1..n |-> [off |-> (i - 1) * s, len |-> CutLength((i - 1) * s, s)]]
<1>1. cfg \in ConfigType /\ UINT64 \in Nat \ {0} /\ UINT32_MAX \in Nat
  BY Assumed DEF StartupInv, TypeOK
<1>2. step = "table" /\ cfg.specs = <<>> /\ UNCHANGED <<cfg, memory, lookupVars>>
  BY DEF BuildChunkTable
<1>3. \/ s # 0 /\ n \in 1..UINT32_MAX /\ table' = t /\ step' = "budget"
      \/ ~ (s # 0 /\ n \in 1..UINT32_MAX) /\ step' = "failed" /\ table' = table
  BY DEF BuildChunkTable, Goes
<1>4. L \in Nat \ {0} /\ L < UINT64
  BY <1>1, <1>2 DEF ConfigType, Word, StartupInv, Checked
<1>5. /\ u \in Nat /\ u % RESIDCTL_ALIGN = 0 /\ u <= UINT64
      /\ s = IF u < UINT64 THEN u ELSE 0
      /\ u = 0 <=> cfg.chunk_size = 0
  BY <1>1, Rounded
<1>6. Usable <=> cfg.chunk_size # 0 /\ L + u <= UINT64 /\ L <= UINT32_MAX * u
  BY <1>2 DEF Usable, Cuttable
<1> HIDE DEF L, s, u
<1>7. CASE s = 0
  <2>1. u = 0 \/ u = UINT64
    BY <1>1, <1>5, <1>7
  <2>2. ~ Usable
    BY <1>1, <1>4, <1>5, <1>6, <2>1
  <2> QED
    BY <1>2, <1>3, <1>7, <2>2, TableStep
<1>8. CASE s # 0
  <2>1. s = u /\ s \in Nat \ {0} /\ s < UINT64 /\ s % RESIDCTL_ALIGN = 0 /\ cfg.chunk_size # 0
    BY <1>1, <1>5, <1>8
  <2>2. /\ n \in Nat
        /\ n # 0 <=> L + s <= UINT64
        /\ n # 0 => /\ s * (n - 1) < L /\ L <= s * n
                    /\ \A M \in Nat : n <= M <=> L <= M * s
    BY <1>4, <2>1, PieceCount
  <2> HIDE DEF n
  <2>3. Usable <=> n \in 1..UINT32_MAX
    <3>1. n # 0 => (n <= UINT32_MAX <=> L <= UINT32_MAX * s)
      BY <1>1, <2>2
    <3>2. n \in 1..UINT32_MAX <=> n # 0 /\ n <= UINT32_MAX
      BY <1>1, <2>2
    <3> QED
      BY <1>6, <2>1, <2>2, <3>1, <3>2
  <2>4. CASE n \in 1..UINT32_MAX
    <3>1. step' = "budget" /\ table' = t
      BY <1>3, <1>8, <2>4
    <3>2. n \in Nat \ {0} /\ s * (n - 1) < L /\ L <= s * n
      BY <1>1, <2>2, <2>4
    <3> DEFINE off == CutOffs(n, s)
               len == CutLens(n, s)
    <3>5. \A i \in 1..n : t[i].off = off[i] /\ t[i].len = len[i] /\ t[i] = [off |-> off[i], len |-> len[i]]
      BY DEF CutOffs, CutLens
    <3>6. /\ off \in [1..n -> Word] /\ len \in [1..n -> Word \ {0}]
          /\ Chain(n, off, len)
          /\ off[n] + len[n] = L
          /\ \A i \in 1..n : off[i] % RESIDCTL_ALIGN = 0
      <4>1. cfg.region_len = L
        BY DEF L
      <4> HIDE DEF off, len
      <4> QED
        BY <1>4, <2>1, <3>2, <4>1, CutTiles DEF off, len
    <3>7. t \in Seq([off : Word, len : Word \ {0}]) /\ Len(t) = n /\ t # <<>> /\ DOMAIN t = 1..n
      <4>2. \A i \in 1..n : t[i] \in [off : Word, len : Word \ {0}]
        <5> HIDE DEF off, len, t
        <5>1. \A i \in 1..n : off[i] \in Word /\ len[i] \in Word \ {0}
          BY <3>6
        <5> DEFINE W == Word \ {0}
        <5> HIDE DEF W
        <5>2. \A i \in 1..n : off[i] \in Word /\ len[i] \in W
          BY <5>1 DEF W
        <5>3. ASSUME NEW i \in 1..n PROVE t[i] \in [off : Word, len : W]
          <6>1. t[i] = [off |-> off[i], len |-> len[i]]
            BY <3>5
          <6>2. off[i] \in Word /\ len[i] \in W
            BY <5>2
          <6> QED
            BY <6>1, <6>2
        <5> QED
          BY <5>3 DEF W
      <4> DEFINE T == [off : Word, len : Word \ {0}]
      <4>3. DOMAIN t = 1..n /\ t = [i \in 1..n |-> t[i]]
        OBVIOUS
      <4> HIDE DEF off, len, t, T
      <4>4. \A i \in 1..n : t[i] \in T
        BY <4>2 DEF T
      <4>5. t \in Seq(T) /\ Len(t) = n
        BY <3>2, <4>3, <4>4
      <4>6. t # <<>>
        BY <3>2, <4>5
      <4> QED
        BY <4>3, <4>5, <4>6 DEF T
    <3>8. NChunks' = n /\ Offs' = off /\ Lens' = len
      <4>1. NChunks' = n
        BY <3>1, <3>7 DEF NChunks
      <4>2. \A i \in 1..n : table'[i].off = off[i] /\ table'[i].len = len[i]
        BY <3>1, <3>5
      <4>3. off = [i \in 1..n |-> off[i]] /\ len = [i \in 1..n |-> len[i]]
        BY DEF CutOffs, CutLens
      <4> HIDE DEF off, len, t
      <4> QED
        BY <4>1, <4>2, <4>3 DEF Offs, Lens
    <3> HIDE DEF off, len, t
    <3>9. Tiled'
      <4>1. cfg'.region_len = L
        BY <1>2 DEF L
      <4> QED
        BY <3>6, <3>8, <4>1 DEF Tiled
    <3> QED
      BY <1>2, <2>3, <2>4, <3>1, <3>7, <3>9, TableStep
  <2>5. CASE n \notin 1..UINT32_MAX
    BY <1>2, <1>3, <2>3, <2>5, TableStep
  <2> QED
    BY <2>4, <2>5
<1> QED
  BY <1>7, <1>8

LEMMA BuildExplicitKeeps ==
  ASSUME StartupInv, BuildChunkTableExplicit
  PROVE  StartupInv'
<1> DEFINE sp == cfg.specs
           n == Len(sp)
           t == [i \in DOMAIN sp |-> [off |-> sp[i].off, len |-> sp[i].len]]
<1>1. cfg \in ConfigType
  BY Assumed DEF StartupInv, TypeOK
<1>2. step = "table" /\ sp # <<>> /\ UNCHANGED <<cfg, memory, lookupVars>>
  BY DEF BuildChunkTableExplicit
<1>3. Usable <=> Tiling
  BY <1>2 DEF Usable
<1>4. CASE ~ Accept(sp)
  <2>1. step' = "failed" /\ table' = table
    BY <1>4 DEF BuildChunkTableExplicit, Goes
  <2>2. cfg.region_len # 0 /\ cfg.region_len % RESIDCTL_ALIGN = 0
    BY <1>2 DEF StartupInv, Checked
  <2>3. ~ Usable
    BY <1>1, <1>2, <1>3, <1>4, <2>2, TilesAccepted
  <2> QED
    BY <1>2, <2>1, <2>3, TableStep
<1>5. CASE Accept(sp)
  <2>1. step' = "budget" /\ table' = t
    BY <1>5 DEF BuildChunkTableExplicit, Goes
  <2>2. /\ n \in Nat \ {0} /\ DOMAIN sp = 1..n
        /\ \A i \in 1..n : sp[i].off \in Word /\ sp[i].len \in Word
    BY <1>1, <1>2, SpecsType
  <2>3. \A i \in 1..n : sp[i].len # 0
    BY <1>5, <2>2 DEF Accept
  <2>4. Usable \/ Wraps
    BY <1>1, <1>2, <1>3, <1>5, AcceptedTiles
  <2> HIDE DEF sp, n
  <2>5. DOMAIN t = 1..n /\ \A i \in 1..n : t[i].off = sp[i].off /\ t[i].len = sp[i].len
    BY <2>2
  <2>6. \A i \in 1..n : t[i] \in [off : Word, len : Word \ {0}]
    BY <2>2, <2>3
  <2>7. t \in Seq([off : Word, len : Word \ {0}]) /\ Len(t) = n /\ t # <<>>
    <3> DEFINE T == [off : Word, len : Word \ {0}]
    <3>1. t = [i \in 1..n |-> t[i]]
      BY <2>2
    <3>2. \A i \in 1..n : t[i] \in T
      BY <2>6
    <3> HIDE DEF t, T
    <3>3. t \in Seq(T) /\ Len(t) = n
      BY <2>2, <2>5, <3>1, <3>2
    <3>4. t # <<>>
      BY <2>2, <3>3
    <3> QED
      BY <3>3, <3>4 DEF T
  <2> HIDE DEF t
  <2>8. ASSUME ~ Wraps PROVE Tiled'
    <3>1. /\ Chain(n, SpecOffs, SpecLens)
          /\ SpecOffs[n] + SpecLens[n] = cfg.region_len
          /\ \A i \in 1..n : sp[i].off % RESIDCTL_ALIGN = 0
      BY <1>1, <1>2, <1>5, <2>8, AcceptedChain DEF n, sp
    <3>2. NChunks' = n
      BY <2>1, <2>7 DEF NChunks
    <3>3. Offs' = SpecOffs /\ Lens' = SpecLens
      <4>1. SpecOffs = [i \in 1..n |-> sp[i].off] /\ SpecLens = [i \in 1..n |-> sp[i].len]
        BY DEF SpecOffs, SpecLens, n, sp
      <4>2. Offs' = [i \in 1..n |-> t[i].off] /\ Lens' = [i \in 1..n |-> t[i].len]
        BY <2>1, <3>2 DEF Offs, Lens
      <4> QED
        BY <2>5, <4>1, <4>2
    <3>4. \A i \in 1..n : SpecOffs[i] % RESIDCTL_ALIGN = 0
      BY <3>1 DEF SpecOffs, n, sp
    <3>5. cfg'.region_len = cfg.region_len
      BY <1>2
    <3> QED
      BY <3>1, <3>2, <3>3, <3>4, <3>5 DEF Tiled
  <2> QED
    BY <1>2, <2>1, <2>4, <2>7, <2>8, TableStep
<1> QED
  BY <1>4, <1>5

-----------------------------------------------------------------------------
(* The lookup and the fetch keep the invariant *)

LEMMA Midway ==
  ASSUME TypeOK, lo < hi
  PROVE  mid \in lo..(hi - 1) /\ mid + 1 \in 1..NChunks /\ lo \in Nat /\ hi \in Nat /\ NChunks \in Nat
<1>1. NChunks \in Nat
  <2> DEFINE T == [off : Word, len : Word \ {0}]
  <2>1. table \in Seq(T)
    BY DEF TypeOK
  <2> HIDE DEF T
  <2> QED
    BY <2>1 DEF NChunks
<1>2. lo \in Nat /\ hi \in Nat /\ hi <= NChunks
  BY <1>1 DEF TypeOK
<1> QED
  BY <1>1, <1>2 DEF mid

\* What the table is when it is in use.
LEMMA InUse ==
  ASSUME StartupInv, step \in {"budget"} \cup Serving
  PROVE  /\ NChunks \in Nat \ {0} /\ DOMAIN table = 1..NChunks
         /\ Offs \in [1..NChunks -> Nat] /\ Lens \in [1..NChunks -> Nat \ {0}]
         /\ \A i \in 1..NChunks : /\ table[i].off = Offs[i] /\ table[i].len = Lens[i]
                                  /\ ChunkBytes(i) = Piece(Offs, Lens, i)
         /\ ~ Wraps => Tiled
BY TableType DEF StartupInv, Built

\* The zeros and the file's bytes are those of the chunk, since it is whole pages.
LEMMA FillIs ==
  ASSUME StartupInv, step = "found", NEW i \in 1..NChunks
  PROVE  LET end == Offs[i] + Lens[i] IN
         Fill(table[i]) = [b \in Bytes |-> IF cfg.file_size < end /\ b \in cfg.file_size..(end - 1) THEN "zero"
                                           ELSE IF b \in ChunkBytes(i) THEN "file"
                                           ELSE memory[b]]
<1> DEFINE n == NChunks
           c == table[i]
           o == Offs[i]
           end == o + Lens[i]
<1>1. /\ n \in Nat \ {0} /\ o \in Nat /\ Lens[i] \in Nat /\ end \in Nat
      /\ c.off = o /\ c.len = Lens[i] /\ ChunkBytes(i) = o..(end - 1)
  BY InUse DEF Serving, Piece
<1>2. Tiled
  BY InUse DEF StartupInv, Checked, Serving
<1>3. o % RESIDCTL_ALIGN = 0
  BY <1>2 DEF Tiled
<1>4. end % RESIDCTL_ALIGN = 0
  <2>1. CASE i = n
    <3>1. end = cfg.region_len
      BY <1>2, <2>1 DEF Tiled
    <3>2. cfg.region_len % RESIDCTL_ALIGN = 0
      BY DEF StartupInv, Checked
    <3> QED
      BY <3>1, <3>2
  <2>2. CASE i # n
    <3>1. i \in 1..(n - 1) /\ i + 1 \in 1..n
      BY <1>1, <2>2
    <3>2. Offs[i + 1] = end
      BY <1>2, <3>1 DEF Tiled, Chain
    <3>3. Offs[i + 1] % RESIDCTL_ALIGN = 0
      BY <1>2, <3>1 DEF Tiled
    <3> QED
      BY <3>2, <3>3
  <2> QED
    BY <2>1, <2>2
<1>5. align_down(c.off) = o
  BY <1>1, <1>3, AlignDown
<1>6. align_up(c.off + c.len) = end
  <2>1. c.off + c.len = end
    BY <1>1
  <2> HIDE DEF end
  <2> QED
    BY <1>1, <1>4, <2>1, AlignUp
<1> HIDE DEF o, c, n
<1> QED
  BY <1>1, <1>5, <1>6 DEF Fill, c, o

LEMMA FaultKeeps ==
  ASSUME StartupInv, NEW a \in Bytes, Fault(a)
  PROVE  StartupInv'
<1>1. UNCHANGED <<cfg, table, memory>> /\ addr' = a /\ lo' = 0 /\ hi' = NChunks /\ step' = "lookup"
  BY DEF Fault, Goes
<1>2. /\ Bytes' = Bytes /\ Wraps' = Wraps /\ Usable' = Usable /\ Sound' = Sound
      /\ NChunks' = NChunks /\ Tiled' = Tiled
  BY <1>1, ConfigStays, TableStays
<1>3. step = "up" /\ ~ Wraps
  BY DEF Fault
<1>4. NChunks \in Nat /\ a \in Nat
  <2>1. NChunks \in Nat
    BY <1>3, InUse DEF Serving
  <2>2. cfg \in ConfigType /\ UINT64 \in Nat
    BY Assumed DEF StartupInv, TypeOK
  <2>3. cfg.region_len \in Nat
    BY <2>2 DEF ConfigType, Word
  <2> QED
    BY <2>1, <2>3 DEF Bytes
<1>5. TypeOK'
  BY <1>1, <1>2, <1>4 DEF StartupInv, TypeOK
<1> QED
  BY <1>1, <1>2, <1>3, <1>5 DEF StartupInv, Checked, Built, Checking, Serving

LEMMA BisectKeeps ==
  ASSUME StartupInv, Bisect
  PROVE  StartupInv'
<1>1. UNCHANGED <<cfg, table, memory, addr>> /\ step = "lookup" /\ lo < hi
  BY DEF Bisect
<1>2. /\ Bytes' = Bytes /\ Wraps' = Wraps /\ Usable' = Usable /\ Sound' = Sound
      /\ NChunks' = NChunks /\ Tiled' = Tiled
  BY <1>1, ConfigStays, TableStays
<1>3. \/ hi' = mid /\ lo' = lo /\ step' = "lookup"
      \/ hi' = hi /\ lo' = mid + 1 /\ step' = "lookup"
      \/ hi' = hi /\ lo' = lo /\ step' = "found"
  BY <1>1 DEF Bisect, Above, Goes
<1>4. mid \in lo..(hi - 1) /\ lo \in Nat /\ hi \in Nat /\ NChunks \in Nat /\ hi <= NChunks
  BY <1>1, Midway DEF StartupInv, TypeOK
<1>5. lo' \in 0..hi' /\ hi' \in 0..NChunks
  BY <1>3, <1>4
<1>6. TypeOK'
  BY <1>1, <1>2, <1>3, <1>5 DEF StartupInv, TypeOK
<1> QED
  BY <1>1, <1>2, <1>3, <1>6 DEF StartupInv, Checked, Built, Checking, Serving

LEMMA FetchKeeps ==
  ASSUME StartupInv, FetchRead
  PROVE  StartupInv'
<1>1. UNCHANGED <<cfg, table, addr, lo, hi>> /\ step = "found" /\ step' = "up" /\ memory' = Fill(Chunk(mid))
  BY DEF FetchRead, Goes, lookupVars
<1>2. /\ Bytes' = Bytes /\ Wraps' = Wraps /\ Usable' = Usable /\ Sound' = Sound
      /\ NChunks' = NChunks /\ Tiled' = Tiled
  BY <1>1, ConfigStays, TableStays
<1>3. memory \in [Bytes -> {"hole", "file", "zero"}]
  BY DEF StartupInv, TypeOK
<1>4. memory' \in [Bytes -> {"hole", "file", "zero"}]
  BY <1>1, <1>3 DEF Fill
<1>5. TypeOK'
  BY <1>1, <1>2, <1>4 DEF StartupInv, TypeOK
<1> QED
  BY <1>1, <1>2, <1>5 DEF StartupInv, Checked, Built, Checking, Serving

LEMMA NextKeeps ==
  ASSUME StartupInv, [Next]_vars
  PROVE  StartupInv'
<1>1. CASE CheckConfig \/ RegisterMappingA \/ OpenModelFile \/ ComputeBudget
  BY <1>1, ChecksKeep
<1>2. CASE BuildChunkTable
  BY <1>2, BuildKeeps
<1>3. CASE BuildChunkTableExplicit
  BY <1>3, BuildExplicitKeeps
<1>4. ASSUME NEW a \in Bytes, Fault(a) PROVE StartupInv'
  BY <1>4, FaultKeeps
<1>5. CASE Bisect
  BY <1>5, BisectKeeps
<1>6. CASE FetchRead
  BY <1>6, FetchKeeps
<1>7. CASE UNCHANGED vars
  <2>1. UNCHANGED <<cfg, step, table, memory, addr, lo, hi>>
    BY <1>7 DEF vars, lookupVars
  <2>2. /\ Bytes' = Bytes /\ Wraps' = Wraps /\ Usable' = Usable /\ Sound' = Sound
        /\ NChunks' = NChunks /\ Tiled' = Tiled
    BY <2>1, ConfigStays, TableStays
  <2>3. TypeOK'
    BY <2>1, <2>2 DEF StartupInv, TypeOK
  <2> QED
    BY <2>1, <2>2, <2>3 DEF StartupInv, Checked, Built, Checking, Serving
<1> QED
  BY <1>1, <1>2, <1>3, <1>4, <1>5, <1>6, <1>7 DEF Next, Startup, Handle

\* The checks, the table and the reasons of a refusal agree in every state
\* (region.c:190-278, :330-384).
THEOREM StartupInvariance == Spec => []StartupInv
<1>1. Init => StartupInv
  BY InitStartup
<1>2. StartupInv /\ [Next]_vars => StartupInv'
  BY NextKeeps
<1> QED
  BY <1>1, <1>2, PTL DEF Spec

LEMMA StartupInvSound ==
  ASSUME StartupInv
  PROVE  StartupSound
<1>1. TypeOK /\ TableTilesRegion
  BY TiledTiles DEF StartupInv, Built
<1>2. StartupFailsForCause
  BY DEF StartupInv, Checked, Built, Serving, Sound, StartupFailsForCause
<1> QED
  BY <1>1, <1>2 DEF StartupSound

\* Whatever the region, the chunk size and the table the user asks for, start-up
\* accepts what tiles the region, refuses everything else, and the table it builds
\* tiles the region page by page; a sum that wraps is the only exception
\* (region.c:190-278).
THEOREM StartupIsSound == Spec => []StartupSound
<1>1. StartupInv => StartupSound
  BY StartupInvSound
<1> QED
  BY <1>1, StartupInvariance, PTL

-----------------------------------------------------------------------------
(* What a fault finds and fetches *)

\* The table in use: its pieces are the region's bytes, in order.
LEMMA Pieces ==
  ASSUME StartupInv, step \in {"budget"} \cup Serving, ~ Wraps
  PROVE  /\ \A b \in Bytes : \E i \in 1..NChunks : b \in ChunkBytes(i)
         /\ \A i \in 1..NChunks : ChunkBytes(i) \subseteq Bytes
         /\ \A i, j \in 1..NChunks : ChunkBytes(i) \cap ChunkBytes(j) # {} => i = j
         /\ \A i, j \in 1..NChunks : i < j => table[i].off + table[i].len <= table[j].off
<1>1. /\ NChunks \in Nat \ {0} /\ DOMAIN table = 1..NChunks
      /\ Offs \in [1..NChunks -> Nat] /\ Lens \in [1..NChunks -> Nat \ {0}]
      /\ \A i \in 1..NChunks : /\ table[i].off = Offs[i] /\ table[i].len = Lens[i]
                               /\ ChunkBytes(i) = Piece(Offs, Lens, i)
      /\ Tiled
  BY InUse
<1>2. Chain(NChunks, Offs, Lens)
  BY <1>1 DEF Tiled
<1>3. \A i, j \in 1..NChunks : Piece(Offs, Lens, i) \cap Piece(Offs, Lens, j) # {} => i = j
  BY <1>1, <1>2, ChainCovers
<1>4. \A i, j \in 1..NChunks : i < j => Offs[i] + Lens[i] <= Offs[j]
  BY <1>1, <1>2, ChainOrdered
<1>5. UNION {ChunkBytes(i) : i \in DOMAIN table} = Bytes
  <2>1. table # <<>>
    BY DEF StartupInv, Built
  <2>2. TableTilesRegion
    BY <1>1, TiledTiles DEF StartupInv
  <2> QED
    BY <2>1, <2>2 DEF TableTilesRegion
<1> QED
  BY <1>1, <1>3, <1>4, <1>5

LEMMA InChunk ==
  ASSUME StartupInv, step \in {"budget"} \cup Serving, NEW i \in 1..NChunks, NEW b
  PROVE  /\ table[i].off \in Nat /\ table[i].len \in Nat \ {0}
         /\ b \in ChunkBytes(i) <=> b \in Int /\ table[i].off <= b /\ b < table[i].off + table[i].len
<1>1. table[i].off \in Nat /\ table[i].len \in Nat \ {0}
  BY InUse
<1> QED
  BY <1>1 DEF ChunkBytes

\* The bytes of the chunks stay the same, and so does what is asked of them.
LEMMA BytesStay ==
  ASSUME cfg' = cfg, table' = table
  PROVE  \A i : ChunkBytes(i)' = ChunkBytes(i)
BY DEF ChunkBytes

\* The bisection drops the half where the address is not.
LEMMA BisectCovers ==
  ASSUME StartupInv, LookupCovers, Bisect
  PROVE  LookupCovers'
<1> DEFINE m == mid + 1
<1>1. UNCHANGED <<cfg, table, memory, addr>> /\ step = "lookup" /\ lo < hi
  BY DEF Bisect
<1>2. /\ mid \in lo..(hi - 1) /\ m \in 1..NChunks /\ lo \in Nat /\ hi \in Nat
      /\ NChunks \in Nat /\ hi <= NChunks
  BY <1>1, Midway DEF StartupInv, TypeOK
<1>3. PICK i \in lo..(hi - 1) : addr \in ChunkBytes(i + 1)
  BY <1>1 DEF LookupCovers
<1>4. i + 1 \in 1..NChunks
  BY <1>2
<1>5. ~ Wraps
  BY <1>1 DEF StartupInv, Checked
<1>6. /\ i + 1 < m => table[i + 1].off + table[i + 1].len <= table[m].off
      /\ m < i + 1 => table[m].off + table[m].len <= table[i + 1].off
  BY <1>1, <1>2, <1>4, <1>5, Pieces DEF Serving
<1>7. /\ table[i + 1].off \in Nat /\ table[i + 1].len \in Nat
      /\ table[m].off \in Nat /\ table[m].len \in Nat
      /\ addr \in Int /\ table[i + 1].off <= addr /\ addr < table[i + 1].off + table[i + 1].len
      /\ addr \in ChunkBytes(m) <=> table[m].off <= addr /\ addr < table[m].off + table[m].len
  BY <1>1, <1>2, <1>3, <1>4, InChunk DEF Serving
<1>8. Chunk(mid) = table[m]
  BY DEF Chunk
<1>9. \A j : ChunkBytes(j)' = ChunkBytes(j)
  BY <1>1, BytesStay
<1> HIDE DEF m
<1>10. CASE addr < table[m].off /\ hi' = mid /\ lo' = lo /\ step' = "lookup"
  <2>1. ~ (m <= i + 1)
    <3>1. m = i + 1 => FALSE
      BY <1>7, <1>10
    <3>2. m < i + 1 => FALSE
      BY <1>6, <1>7, <1>10
    <3> QED
      BY <1>2, <3>1, <3>2 DEF m
  <2>2. i \in lo'..(hi' - 1)
    BY <1>2, <1>10, <2>1 DEF m
  <2>3. addr' \in ChunkBytes(i + 1)'
    BY <1>1, <1>3, <1>9
  <2> QED
    BY <1>10, <2>2, <2>3 DEF LookupCovers
<1>11. CASE addr >= table[m].off + table[m].len /\ hi' = hi /\ lo' = mid + 1 /\ step' = "lookup"
  <2>1. ~ (i + 1 <= m)
    <3>1. m = i + 1 => FALSE
      BY <1>7, <1>11
    <3>2. i + 1 < m => FALSE
      BY <1>6, <1>7, <1>11
    <3> QED
      BY <1>2, <3>1, <3>2 DEF m
  <2>2. i \in lo'..(hi' - 1)
    BY <1>2, <1>11, <2>1 DEF m
  <2>3. addr' \in ChunkBytes(i + 1)'
    BY <1>1, <1>3, <1>9
  <2> QED
    BY <1>11, <2>2, <2>3 DEF LookupCovers
<1>12. CASE addr \in table[m].off..(table[m].off + table[m].len - 1) /\ hi' = hi /\ lo' = lo /\ step' = "found"
  <2>1. addr \in ChunkBytes(mid + 1)
    BY <1>12 DEF ChunkBytes, m
  <2>2. mid' = mid
    BY <1>12 DEF mid
  <2>3. addr' \in ChunkBytes(mid + 1)'
    BY <1>1, <1>9, <2>1, <2>2 DEF ChunkBytes
  <2> QED
    BY <1>12, <2>3 DEF LookupCovers
<1> QED
  BY <1>1, <1>8, <1>10, <1>11, <1>12 DEF Bisect, Above, Goes

\* A fetch keeps what is said of the bytes: it fills one chunk.
LEMMA FetchFillsWhole ==
  ASSUME StartupInv, FetchedBytesAreTheFile, ChunksFilledWhole, FetchRead
  PROVE  FetchedBytesAreTheFile' /\ ChunksFilledWhole'
<1> DEFINE i == mid + 1
           end == table[i].off + table[i].len
           fs == cfg.file_size
           zeros == {b \in Bytes : fs < end /\ fs <= b /\ b < end}
<1>1. UNCHANGED <<cfg, table>> /\ step = "found" /\ memory' = Fill(table[i])
  BY DEF FetchRead, lookupVars, Chunk
<1>2. ~ Wraps /\ i \in 1..NChunks
  BY <1>1, Midway DEF StartupInv, Checked
<1> HIDE DEF i
<1>3. /\ \A j \in 1..NChunks : ChunkBytes(j) \subseteq Bytes
      /\ \A j, k \in 1..NChunks : ChunkBytes(j) \cap ChunkBytes(k) # {} => j = k
      /\ DOMAIN table = 1..NChunks
  BY <1>1, <1>2, Pieces, InUse DEF Serving
<1>4. table[i].off \in Nat /\ end \in Nat /\ \A b : b \in ChunkBytes(i) <=> b \in Int /\ table[i].off <= b /\ b < end
  BY <1>1, <1>2, InChunk DEF Serving
<1>5. fs \in Nat /\ Bytes \subseteq Int
  <2>1. cfg \in ConfigType /\ UINT64 \in Nat
    BY Assumed DEF StartupInv, TypeOK
  <2>2. cfg.file_size \in Nat
    BY <2>1 DEF ConfigType, Word
  <2> QED
    BY <2>2 DEF Bytes
<1>6. /\ \A j : ChunkBytes(j)' = ChunkBytes(j)
      /\ Bytes' = Bytes /\ Wraps' = Wraps
  BY <1>1, BytesStay, ConfigStays
<1>7. \A b \in Bytes : memory'[b] = IF b \in zeros THEN "zero" ELSE IF b \in ChunkBytes(i) THEN "file" ELSE memory[b]
  <2>1. end = Offs[i] + Lens[i]
    BY <1>1, <1>2, InUse DEF Serving
  <2> HIDE DEF end
  <2>2. memory' = [b \in Bytes |-> IF fs < end /\ b \in fs..(end - 1) THEN "zero"
                                   ELSE IF b \in ChunkBytes(i) THEN "file"
                                   ELSE memory[b]]
    BY <1>1, <1>2, <2>1, FillIs
  <2>3. \A b \in Bytes : fs < end /\ b \in fs..(end - 1) <=> b \in zeros
    BY <1>4, <1>5
  <2> HIDE DEF zeros, fs
  <2> QED
    BY <2>2, <2>3
<1>8. \A b \in zeros : fs <= b
  OBVIOUS
<1>9. \A b \in ChunkBytes(i) : b < fs \/ b \in zeros
  BY <1>2, <1>3, <1>4, <1>5
<1>10. FetchedBytesAreTheFile'
  <2> SUFFICES ASSUME NEW b \in Bytes, memory'[b] # "hole"
               PROVE  memory'[b] = "file" <=> b < fs
    BY <1>1, <1>6 DEF FetchedBytesAreTheFile
  <2>1. CASE b \in zeros
    <3>1. memory'[b] = "zero"
      BY <1>7, <2>1
    <3>2. ~ (b < fs)
      BY <1>5, <2>1
    <3> QED
      BY <3>1, <3>2
  <2>2. CASE b \notin zeros /\ b \in ChunkBytes(i)
    <3>1. memory'[b] = "file"
      BY <1>7, <2>2
    <3> QED
      BY <1>9, <2>2, <3>1
  <2>3. CASE b \notin zeros /\ b \notin ChunkBytes(i)
    <3>1. memory'[b] = memory[b]
      BY <1>7, <2>3
    <3> QED
      BY <3>1 DEF FetchedBytesAreTheFile
  <2> QED
    BY <2>1, <2>2, <2>3
<1> HIDE DEF zeros
<1>11. ChunksFilledWhole'
  <2> SUFFICES ASSUME \A j \in DOMAIN table : table[j].off < fs,
                      NEW j \in 1..NChunks, NEW b \in ChunkBytes(j), NEW d \in ChunkBytes(j), memory'[b] = "hole"
               PROVE  memory'[d] = "hole"
    BY <1>1, <1>3, <1>6 DEF ChunksFilledWhole
  <2>1. ASSUME NEW e \in zeros PROVE e \in ChunkBytes(i)
    <3>1. table[i].off < fs
      BY <1>2, <1>3
    <3>2. e \in Int /\ fs <= e /\ e < end
      BY <1>5 DEF zeros
    <3>3. table[i].off <= e
      BY <1>4, <1>5, <3>1, <3>2
    <3> QED
      BY <1>4, <3>2, <3>3
  <2>2. b \in Bytes /\ d \in Bytes
    BY <1>3
  <2>3. b \notin zeros /\ b \notin ChunkBytes(i) /\ memory[b] = "hole"
    <3>1. memory'[b] = IF b \in zeros THEN "zero" ELSE IF b \in ChunkBytes(i) THEN "file" ELSE memory[b]
      BY <1>7, <2>2
    <3> QED
      BY <3>1
  <2>4. d \notin ChunkBytes(i)
    <3>1. SUFFICES ASSUME d \in ChunkBytes(i) PROVE FALSE
      OBVIOUS
    <3>2. j = i
      BY <1>2, <1>3, <3>1
    <3> QED
      BY <2>3, <3>2
  <2>5. memory'[d] = memory[d]
    BY <1>7, <2>1, <2>2, <2>4
  <2>6. memory[d] = "hole"
    BY <1>2, <1>3, <2>3 DEF ChunksFilledWhole
  <2> QED
    BY <2>5, <2>6
<1> QED
  BY <1>10, <1>11

LEMMA NextFetches ==
  ASSUME StartupInv, StartupInv', TableTilesRegion', FetchesWhole, [Next]_vars
  PROVE  FetchesWhole'
<1>1. CASE Startup
  <2>1. step \in {"checks", "register", "model", "table", "budget"} /\ step' \notin {"lookup", "found"}
    BY <1>1 DEF Startup, CheckConfig, RegisterMappingA, OpenModelFile, BuildChunkTable,
                BuildChunkTableExplicit, ComputeBudget, Goes
  <2>2. memory' = memory /\ cfg' = cfg
    BY <1>1 DEF Startup, CheckConfig, RegisterMappingA, OpenModelFile, BuildChunkTable,
                BuildChunkTableExplicit, ComputeBudget
  <2>3. \A b \in Bytes' : memory'[b] = "hole"
    <3>1. memory = [b \in Bytes |-> "hole"] /\ Bytes' = Bytes
      BY <2>1, <2>2, ConfigStays DEF StartupInv, Built, Serving
    <3> QED
      BY <2>2, <3>1
  <2>4. FetchedBytesAreTheFile'
    BY <2>3 DEF FetchedBytesAreTheFile
  <2>5. ChunksFilledWhole'
    <3> SUFFICES ASSUME ~ Wraps', NEW i \in DOMAIN table', NEW d \in ChunkBytes(i)'
                 PROVE  memory'[d] = "hole"
      BY DEF ChunksFilledWhole
    <3>1. table' # <<>>
      OBVIOUS
    <3>2. d \in Bytes'
      BY <3>1 DEF TableTilesRegion
    <3> QED
      BY <2>3, <3>2
  <2> QED
    BY <2>1, <2>4, <2>5 DEF FetchesWhole, LookupCovers
<1>2. ASSUME NEW a \in Bytes, Fault(a) PROVE FetchesWhole'
  <2>1. /\ UNCHANGED <<cfg, table, memory>> /\ step = "up" /\ ~ Wraps
        /\ addr' = a /\ lo' = 0 /\ hi' = NChunks /\ step' = "lookup"
    BY <1>2 DEF Fault, Goes
  <2>2. \A j : ChunkBytes(j)' = ChunkBytes(j)
    BY <2>1, BytesStay
  <2>3. PICK i \in 1..NChunks : a \in ChunkBytes(i)
    BY <2>1, Pieces DEF Serving
  <2>4. NChunks \in Nat
    BY <2>1, InUse DEF Serving
  <2>5. i - 1 \in lo'..(hi' - 1) /\ (i - 1) + 1 = i
    BY <2>1, <2>4
  <2>6. LookupCovers'
    BY <2>1, <2>2, <2>3, <2>5 DEF LookupCovers
  <2>7. FetchedBytesAreTheFile' /\ ChunksFilledWhole'
    BY <2>1, <2>2, ConfigStays DEF FetchesWhole, FetchedBytesAreTheFile, ChunksFilledWhole
  <2> QED
    BY <2>6, <2>7 DEF FetchesWhole
<1>3. CASE Bisect
  <2>1. UNCHANGED <<cfg, table, memory>>
    BY <1>3 DEF Bisect
  <2>2. \A j : ChunkBytes(j)' = ChunkBytes(j)
    BY <2>1, BytesStay
  <2>3. FetchedBytesAreTheFile' /\ ChunksFilledWhole'
    BY <2>1, <2>2, ConfigStays DEF FetchesWhole, FetchedBytesAreTheFile, ChunksFilledWhole
  <2> QED
    BY <1>3, <2>3, BisectCovers DEF FetchesWhole
<1>4. CASE FetchRead
  <2>1. step' = "up"
    BY <1>4 DEF FetchRead, Goes
  <2> QED
    BY <1>4, <2>1, FetchFillsWhole DEF FetchesWhole, LookupCovers
<1>5. CASE UNCHANGED vars
  <2>1. UNCHANGED <<cfg, step, table, memory, addr, lo, hi>>
    BY <1>5 DEF vars, lookupVars
  <2>2. (\A j : ChunkBytes(j)' = ChunkBytes(j)) /\ mid' = mid
    BY <2>1, BytesStay DEF mid
  <2>3. FetchedBytesAreTheFile' /\ ChunksFilledWhole'
    BY <2>1, <2>2, ConfigStays DEF FetchesWhole, FetchedBytesAreTheFile, ChunksFilledWhole
  <2>4. LookupCovers'
    BY <2>1, <2>2 DEF FetchesWhole, LookupCovers, ChunkBytes
  <2> QED
    BY <2>3, <2>4 DEF FetchesWhole
<1> QED
  BY <1>1, <1>2, <1>3, <1>4, <1>5 DEF Next, Handle

\* Every fault finds its chunk, and the fetch makes all bytes of that chunk those
\* of the file, with zeros past its end only (pager.c:22-37, fetch.c:51-67).
THEOREM FetchIsWhole == Spec => []FetchesWhole
<1>1. Init => FetchesWhole
  BY DEF Init, FetchesWhole, LookupCovers, FetchedBytesAreTheFile, ChunksFilledWhole
<1>2. StartupInv /\ StartupInv' /\ TableTilesRegion' /\ FetchesWhole /\ [Next]_vars => FetchesWhole'
  BY NextFetches
<1>3. StartupInv => TableTilesRegion
  BY StartupInvSound DEF StartupSound
<1> QED
  BY <1>1, <1>2, <1>3, StartupInvariance, PTL DEF Spec

-----------------------------------------------------------------------------
(* Arms: the chunks of the two programs *)

\* A size rounded up, in units of n.
LEMMA RoundedUpIs ==
  ASSUME NEW a \in Nat \ {0}, NEW n \in Nat \ {0}
  PROVE  LET q == RoundedUp(a, n) IN q \in Nat \ {0} /\ n * (q - 1) < a /\ a <= n * q
<1> DEFINE q == (a + n - 1) \div n
<1>1. a + n - 1 \in Nat
  OBVIOUS
<1>2. q \in Nat /\ n * q <= a + n - 1 /\ a + n - 1 < n * q + n
  BY <1>1, Quotient
<1> HIDE DEF q
<1>3. q # 0
  BY <1>2
<1>4. n * ((q - 1) + 1) = n * (q - 1) + n /\ n * (q - 1) \in Nat /\ (q - 1) + 1 = q
  <2>1. q - 1 \in Nat
    BY <1>2, <1>3
  <2> QED
    BY <2>1, Product, <1>2
<1> DEFINE u == n * q
           v == n * (q - 1)
<1>5. u = v + n /\ v \in Nat
  BY <1>4
<1>6. u <= a + n - 1 /\ a + n - 1 < u + n
  BY <1>2
<1> HIDE DEF u, v
<1>7. v < a /\ a <= u
  BY <1>5, <1>6
<1>8. RoundedUp(a, n) = q
  BY DEF RoundedUp, q
<1> QED
  BY <1>2, <1>3, <1>7, <1>8 DEF u, v

\* What the arguments of a run are.
LEMMA ArgumentFacts ==
  ASSUME arg \in Arguments
  PROVE  /\ arg.region_len \in Nat \ {0} /\ arg.chunk_size \in Nat \ {0}
         /\ arg.n_passes \in 0..(UINT32 - 1) /\ arg.n_passes \in Nat /\ arg.threads \in Nat \ {0}
         /\ arg.hints \in BOOLEAN /\ arg.stale \in BOOLEAN /\ arg.file_len \in Nat
         /\ PageSize \in Nat \ {0} /\ UINT32 \in Nat \ {0}
<1>1. arg \in ArgumentType /\ PageSize \in Nat \ {0} /\ UINT32 \in Nat \ {0}
  BY ArmsAssumption
<1> QED
  BY <1>1 DEF ArgumentType

\* The pages of an interval of bytes: those that hold some byte of it.
LEMMA PageOf ==
  ASSUME NEW first \in Nat, NEW end \in Nat, PageSize \in Nat \ {0}, first < end, NEW p \in Nat
  PROVE  p \in PagesOf(first, end) <=> first < PageSize * p + PageSize /\ PageSize * p < end
<1> DEFINE f == first \div PageSize
           l == (end - 1) \div PageSize
           u == PageSize * p
<1>1. f \in Nat /\ PageSize * f <= first /\ first < PageSize * f + PageSize
  BY Quotient
<1>2. end - 1 \in Nat /\ l \in Nat /\ PageSize * l <= end - 1 /\ end - 1 < PageSize * l + PageSize
  <2>1. end - 1 \in Nat
    OBVIOUS
  <2> QED
    BY <2>1, Quotient
<1>3. f <= p <=> first < u + PageSize
  <2>1. CASE f <= p
    <3>1. PageSize * f <= u
      BY <2>1, <1>1, Product
    <3>2. u \in Nat /\ PageSize * f \in Nat
      BY <1>1
    <3> QED
      BY <2>1, <3>1, <3>2, <1>1
  <2>2. CASE ~ (f <= p)
    <3>1. p + 1 \in Nat /\ p + 1 <= f
      BY <1>1, <2>2
    <3>2. PageSize * (p + 1) <= PageSize * f /\ PageSize * (p + 1) = u + PageSize
      BY <1>1, <3>1, Product
    <3>3. u \in Nat /\ PageSize * f \in Nat
      BY <1>1
    <3> QED
      BY <2>2, <3>2, <3>3, <1>1
  <2> QED
    BY <2>1, <2>2
<1>4. p <= l <=> u < end
  <2>1. CASE p <= l
    <3>1. u <= PageSize * l
      BY <2>1, <1>2, Product
    <3>2. u \in Nat /\ PageSize * l \in Nat
      BY <1>2
    <3> QED
      BY <2>1, <3>1, <3>2, <1>2
  <2>2. CASE ~ (p <= l)
    <3>1. l + 1 \in Nat /\ l + 1 <= p
      BY <1>2, <2>2
    <3>2. PageSize * (l + 1) <= u /\ PageSize * (l + 1) = PageSize * l + PageSize
      BY <1>2, <3>1, Product
    <3>3. u \in Nat /\ PageSize * l \in Nat
      BY <1>2
    <3> QED
      BY <2>2, <3>2, <3>3, <1>2
  <2> QED
    BY <2>1, <2>2
<1>5. p \in PagesOf(first, end) <=> f <= p /\ p <= l
  BY <1>1, <1>2 DEF PagesOf
<1> QED
  BY <1>3, <1>4, <1>5

LEMMA PagesAreNumbers ==
  ASSUME NEW first \in Nat, NEW end \in Nat, PageSize \in Nat \ {0}, first < end
  PROVE  /\ PagesOf(first, end) \subseteq Nat
         /\ IsFiniteSet(PagesOf(first, end))
<1> DEFINE f == first \div PageSize
           l == (end - 1) \div PageSize
<1>1. f \in Nat
  BY Quotient
<1>2. l \in Nat
  <2>1. end - 1 \in Nat
    OBVIOUS
  <2> QED
    BY <2>1, Quotient
<1> HIDE DEF f, l
<1>3. IsFiniteSet(f..l) /\ f..l \subseteq Nat
  BY <1>1, <1>2, FS_Interval
<1> QED
  BY <1>3 DEF PagesOf, f, l

LEMMA LesserIs ==
  ASSUME NEW a \in Int, NEW b \in Int
  PROVE  Min({a, b}) = IF a <= b THEN a ELSE b
<1>1. \A x : x \in {a, b} <=> x = a \/ x = b
  OBVIOUS
<1> QED
  BY <1>1 DEF Min

\* The chunks of a replay follow one another to the end of the region, and each
\* starts with a page.
LEMMA ReplayChunk ==
  ASSUME arg \in Arguments, NEW k \in 0..(Length - 1)
  PROVE  /\ Length \in Nat \ {0} /\ RoundedSize \in Nat \ {0}
         /\ Start(k) \in Nat /\ LenOf(k) \in Nat \ {0}
         /\ Start(k) + LenOf(k) = IF k + 1 = Length THEN arg.region_len ELSE Start(k + 1)
         /\ Start(k) + LenOf(k) <= arg.region_len
         /\ \E q \in Nat : Start(k) = PageSize * q /\ Start(k) \div PageSize = q
<1> DEFINE m == RoundedUp(arg.chunk_size, PageSize)
           size == RoundedSize
           n == Length
           r == arg.region_len
<1>1. r \in Nat \ {0} /\ PageSize \in Nat \ {0} /\ m \in Nat \ {0} /\ size = PageSize * m
  BY ArgumentFacts, RoundedUpIs DEF RoundedSize
<1>2. size \in Nat \ {0}
  <2> HIDE DEF m
  <2>1. 1 <= m /\ PageSize * 1 <= PageSize * m /\ PageSize * m \in Nat
    BY <1>1, Product
  <2> QED
    BY <1>1, <2>1
<1>3. n \in Nat \ {0} /\ size * (n - 1) < r /\ r <= size * n
  <2> HIDE DEF size
  <2>1. n = RoundedUp(r, size)
    BY DEF Length, size
  <2> HIDE DEF n, r
  <2> QED
    BY <1>1, <1>2, <2>1, RoundedUpIs
<1> HIDE DEF m, n
<1>4. k \in Nat /\ k <= n - 1 /\ n - 1 \in Nat
  BY <1>3 DEF n
<1> DEFINE u == size * k
<1>5. u \in Nat /\ u <= size * (n - 1) /\ size * (k + 1) = u + size
  <2> HIDE DEF size
  <2> QED
    BY <1>2, <1>4, Product
<1>6. Start(k) = u /\ Start(k + 1) = u + size
  <2>1. k * size = size * k /\ (k + 1) * size = size * (k + 1)
    <3> HIDE DEF size
    <3> QED
      BY <1>2, <1>4
  <2> QED
    BY <1>5, <2>1 DEF Start
<1>7. u < r
  <2>1. size * (n - 1) \in Int
    <3> HIDE DEF size
    <3> QED
      BY <1>2, <1>4
  <2> QED
    BY <1>1, <1>3, <1>5, <2>1
<1>8. k + 1 = n => r <= u + size
  BY <1>3, <1>5
<1>9. k + 1 # n => u + size < r
  <2> SUFFICES ASSUME k + 1 # n PROVE u + size < r
    OBVIOUS
  <2>1. k + 1 \in Nat /\ k + 1 <= n - 1
    BY <1>3, <1>4
  <2>2. size * (k + 1) <= size * (n - 1) /\ size * (n - 1) \in Nat /\ size * (k + 1) \in Nat
    <3> HIDE DEF size
    <3> QED
      BY <1>2, <1>4, <2>1, Product
  <2> QED
    BY <1>1, <1>3, <1>5, <2>2
<1>10. LenOf(k) = IF size <= r - u THEN size ELSE r - u
  <2>1. r - u \in Int /\ size \in Int
    BY <1>1, <1>2, <1>5
  <2>2. LenOf(k) = Min({size, r - u})
    BY <1>6 DEF LenOf
  <2> HIDE DEF size, u, r
  <2> QED
    BY <2>1, <2>2, LesserIs
<1>11. \E q \in Nat : u = PageSize * q /\ u \div PageSize = q
  <2> DEFINE q == m * k
  <2>1. q \in Nat
    BY <1>1, <1>4
  <2>2. u = PageSize * q
    BY <1>1, <1>4
  <2> HIDE DEF q, u
  <2>3. PageSize * q <= u /\ u < PageSize * q + PageSize
    BY <1>1, <1>5, <2>2
  <2>4. u \div PageSize = q
    BY <1>1, <1>5, <2>1, <2>3, QuotientIs
  <2> QED
    BY <2>1, <2>2, <2>4
<1> HIDE DEF u, size
<1>12. LenOf(k) \in Nat \ {0} /\ u + LenOf(k) <= r
  BY <1>1, <1>2, <1>5, <1>7, <1>10
<1>13. u + LenOf(k) = IF k + 1 = n THEN r ELSE u + size
  <2>1. r \in Nat /\ u \in Nat /\ size \in Nat
    BY <1>1, <1>2, <1>5
  <2>2. CASE k + 1 = n
    BY <2>1, <2>2, <1>7, <1>8, <1>10
  <2>3. CASE k + 1 # n
    BY <2>1, <2>3, <1>7, <1>9, <1>10
  <2> QED
    BY <2>2, <2>3
<1> QED
  BY <1>2, <1>3, <1>5, <1>6, <1>11, <1>12, <1>13 DEF size, n

\* How many bytes of a chunk its pages hold: those of its bytes on each page, and
\* together all of them.
BytesOn(first, len) ==
  [p \in PagesOf(first, first + len) |-> Min({PageSize, (first + len) - p * PageSize})]

LEMMA PagesHoldAll ==
  ASSUME NEW first \in Nat, NEW len \in Nat \ {0}, PageSize \in Nat \ {0},
         NEW q \in Nat, first = PageSize * q, first \div PageSize = q
  PROVE  LET D == PagesOf(first, first + len) IN
         /\ IsFiniteSet(D) /\ D \subseteq Nat
         /\ BytesOn(first, len) \in [D -> Nat]
         /\ ByteCount(BytesOn(first, len), D) = len
<1> DEFINE end == first + len
           D == PagesOf(first, end)
           L == [p \in D |-> Min({PageSize, end - p * PageSize})]
           l == (end - 1) \div PageSize
<1>1. end \in Nat /\ first < end /\ end - 1 \in Nat
  OBVIOUS
<1>2. D \subseteq Nat /\ IsFiniteSet(D)
  <2> HIDE DEF end
  <2> QED
    BY <1>1, PagesAreNumbers
<1>3. \A p \in Nat : p \in D <=> first < PageSize * p + PageSize /\ PageSize * p < end
  <2> HIDE DEF end
  <2> QED
    BY <1>1, PageOf
<1>4. \A p \in Nat : p * PageSize = PageSize * p /\ PageSize * p \in Nat
  OBVIOUS
<1> HIDE DEF D
<1>5. \A p \in D : L[p] = (IF PageSize <= end - PageSize * p THEN PageSize ELSE end - PageSize * p)
  <2> TAKE p \in D
  <2>1. p \in Nat /\ PageSize * p \in Nat /\ p * PageSize = PageSize * p
    BY <1>2, <1>4
  <2>2. end - PageSize * p \in Int /\ PageSize \in Int
    BY <1>1, <2>1
  <2>3. L[p] = Min({PageSize, end - PageSize * p})
    BY <2>1
  <2> DEFINE v == end - PageSize * p
  <2> HIDE DEF v, L
  <2> QED
    BY <2>2, <2>3, LesserIs DEF v
<1>6. L \in [D -> Nat]
  <2>1. ASSUME NEW p \in D PROVE L[p] \in Nat
    <3>1. p \in Nat /\ PageSize * p \in Nat /\ PageSize * p < end
      BY <1>2, <1>3, <1>4
    <3> DEFINE u == PageSize * p
    <3>2. L[p] = IF PageSize <= end - u THEN PageSize ELSE end - u
      BY <1>5
    <3> HIDE DEF L, u, end
    <3> QED
      BY <1>1, <3>1, <3>2 DEF u
  <2> QED
    BY <2>1
<1> HIDE DEF L
<1>7. \A T \in SUBSET D : \A c \in D : c \notin T => ByteCount(L, T \cup {c}) = ByteCount(L, T) + L[c]
  BY <1>2, <1>6, ByteCountAdd
<1>8. \A c \in D : ByteCount(L, {c}) = L[c]
  BY <1>2, <1>6, ByteCountOne
<1>9. l \in Nat /\ PageSize * l <= end - 1 /\ end - 1 < PageSize * l + PageSize
  BY <1>1, Quotient
<1> HIDE DEF l
<1>10. D = q..l
  BY DEF D, PagesOf, l
<1>11. q <= l
  <2> SUFFICES ASSUME l + 1 <= q PROVE FALSE
    BY <1>9
  <2>1. PageSize * (l + 1) <= PageSize * q /\ PageSize * (l + 1) = PageSize * l + PageSize /\ PageSize * q \in Nat
    BY <1>9, Product
  <2>2. PageSize * l \in Nat
    BY <1>9
  <2> QED
    BY <1>1, <1>9, <2>1, <2>2
<1> DEFINE n == l - q
           S == {j \in 0..n : ByteCount(L, q..(q + j)) = (IF j = n THEN len ELSE PageSize * (j + 1))}
<1>12. n \in Nat
  BY <1>9, <1>11
<1>13. \A j \in 0..n : /\ q + j \in D /\ q..(q + j) \in SUBSET D
                       /\ L[q + j] = IF j = n THEN len - PageSize * j ELSE PageSize
  <2> TAKE j \in 0..n
  <2>1. q + j \in D /\ q..(q + j) \in SUBSET D /\ q + j \in Nat /\ q + j <= l /\ (q + j = l <=> j = n)
    BY <1>9, <1>10, <1>11
  <2> DEFINE u == PageSize * (q + j)
             w == PageSize * j
  <2>2. u \in Nat /\ w \in Nat /\ u = first + w
    OBVIOUS
  <2>3. L[q + j] = IF PageSize <= end - u THEN PageSize ELSE end - u
    BY <1>5, <2>1
  <2>4. CASE j = n
    <3>1. u = PageSize * l
      BY <2>1, <2>4
    <3>2. end <= u + PageSize /\ u < end
      BY <3>1, <1>1, <1>9, <2>2
    <3>3. end - u = len - w
      <4> HIDE DEF u, w
      <4> QED
        BY <2>2
    <3>4. L[q + j] = end - u
      <4> HIDE DEF u, end
      <4> QED
        BY <2>2, <2>3, <3>2, <1>1
    <3> QED
      BY <2>1, <2>4, <3>3, <3>4
  <2>5. CASE j # n
    <3>1. q + j + 1 <= l /\ q + j + 1 \in Nat
      BY <1>9, <2>1, <2>5
    <3>2. PageSize * ((q + j) + 1) <= PageSize * l /\ PageSize * ((q + j) + 1) = u + PageSize /\ PageSize * l \in Nat
      BY <1>9, <2>1, <3>1, Product
    <3>3. PageSize <= end - u
      <4> HIDE DEF u, end
      <4> QED
        BY <1>1, <1>9, <2>2, <3>2
    <3> QED
      BY <2>1, <2>3, <2>5, <3>3
  <2> QED
    BY <2>4, <2>5
<1>14. 0 \in S
  <2>1. q..(q + 0) = {q} /\ q + 0 = q /\ 0 \in 0..n
    BY <1>12
  <2>2. ByteCount(L, {q}) = L[q]
    BY <1>8, <1>13, <2>1
  <2>3. PageSize * (0 + 1) = PageSize /\ len - PageSize * 0 = len
    OBVIOUS
  <2> QED
    BY <1>13, <2>1, <2>2, <2>3
<1>15. \A j \in 0..(n - 1) : j \in S => j + 1 \in S
  <2> TAKE j \in 0..(n - 1)
  <2> HAVE j \in S
  <2>1. j \in 0..n /\ j + 1 \in 0..n /\ j # n /\ j \in Nat
    BY <1>12
  <2>2. q..(q + (j + 1)) = (q..(q + j)) \cup {q + (j + 1)} /\ q + (j + 1) \notin q..(q + j)
    BY <2>1
  <2>3. ByteCount(L, q..(q + (j + 1))) = ByteCount(L, q..(q + j)) + L[q + (j + 1)]
    <3>1. q..(q + j) \in SUBSET D /\ q + (j + 1) \in D
      BY <1>13, <2>1
    <3> DEFINE T == q..(q + j)
               c == q + (j + 1)
    <3>2. T \in SUBSET D /\ c \in D /\ c \notin T /\ q..c = T \cup {c}
      BY <2>2, <3>1
    <3> HIDE DEF T, c
    <3>3. ByteCount(L, T \cup {c}) = ByteCount(L, T) + L[c]
      BY <1>7, <3>2
    <3> QED
      BY <3>2, <3>3 DEF T, c
  <2>4. ByteCount(L, q..(q + j)) = PageSize * (j + 1)
    BY <2>1
  <2>5. L[q + (j + 1)] = IF j + 1 = n THEN len - PageSize * (j + 1) ELSE PageSize
    BY <1>13, <2>1
  <2> DEFINE w == PageSize * (j + 1)
  <2>6. w \in Nat /\ PageSize * ((j + 1) + 1) = w + PageSize
    BY <2>1
  <2>7. w + (len - w) = len
    <3> HIDE DEF w
    <3> QED
      BY <2>6
  <2>8. ByteCount(L, q..(q + (j + 1))) = IF j + 1 = n THEN len ELSE PageSize * ((j + 1) + 1)
    BY <2>3, <2>4, <2>5, <2>6, <2>7
  <2> QED
    BY <2>1, <2>8
<1> HIDE DEF S
<1>16. 0..n \subseteq S
  BY <1>12, <1>14, <1>15, IntervalInduction
<1>17. n \in S /\ q + n = l
  BY <1>9, <1>12, <1>16
<1>18. ByteCount(L, D) = len
  BY <1>10, <1>17 DEF S
<1> HIDE DEF end
<1>19. /\ IsFiniteSet(D) /\ D \subseteq Nat
       /\ L \in [D -> Nat]
       /\ ByteCount(L, D) = len
  BY <1>2, <1>6, <1>18
<1> QED
  BY <1>19, Zenon DEF D, L, end, BytesOn

-----------------------------------------------------------------------------
(* The replay *)

\* The pages of the chunk that the threads of the step have read.
Through == {p \in ReplayPages : \E tid \in replay_threads \ todo : Mine(tid, p - Start(idx) \div PageSize)}

\* What n passes count, and what the passes and chunks up to now do.
AllRead(n) == [bytes_touched |-> n * arg.region_len, reads |-> [p \in Pages |-> n]]
ReplayNow ==
  [bytes_touched |-> (pass * arg.region_len + Start(idx)) + ByteCount(page_bytes, Through),
   reads |-> [p \in Pages |-> pass + (IF p < Start(idx) \div PageSize \/ p \in Through THEN 1 ELSE 0)]]

\* The loops of the replay, and what they have counted.
ReplayInv ==
  /\ at \in {"replay", "done"} => Length < UINT32
  /\ at = "replay" => pass < arg.n_passes /\ pass * Length + idx < Steps /\ replay = ReplayNow
  /\ at = "done" /\ EveryStep => replay = AllRead(arg.n_passes)
  /\ at \notin {"replay", "done"} => replay = Counters

\* A page lies in the chunks up to the k-th, or behind the next one's start.
LEMMA UpToChunk ==
  ASSUME arg \in Arguments, NEW k \in 0..(Length - 1), NEW p \in Pages
  PROVE  (p < Start(k) \div PageSize \/ p \in PagesOf(Start(k), Start(k) + LenOf(k)))
           <=> (k + 1 = Length \/ p < Start(k + 1) \div PageSize)
<1>1. PageSize \in Nat \ {0} /\ arg.region_len \in Nat \ {0}
  BY ArgumentFacts
<1>2. p \in Nat /\ PageSize * p < arg.region_len /\ PageSize * p \in Nat
  <2>1. 0 \in Nat /\ 0 < arg.region_len
    BY <1>1
  <2>2. p \in Nat
    BY <1>1, <2>1, PagesAreNumbers DEF Pages
  <2>3. PageSize * p < arg.region_len
    BY <1>1, <2>1, <2>2, PageOf DEF Pages
  <2> QED
    BY <1>1, <2>2, <2>3
<1> DEFINE u == PageSize * p
           s == Start(k)
           e == Start(k) + LenOf(k)
<1>3. /\ Length \in Nat \ {0}
      /\ s \in Nat /\ LenOf(k) \in Nat \ {0}
      /\ e = IF k + 1 = Length THEN arg.region_len ELSE Start(k + 1)
      /\ \E q \in Nat : s = PageSize * q /\ s \div PageSize = q
  BY ReplayChunk
<1>4. e \in Nat /\ s < e
  BY <1>3
<1>5. \A q \in Nat : u + PageSize <= PageSize * q <=> p < q
  <2> TAKE q \in Nat
  <2>1. CASE p < q
    <3>1. p + 1 \in Nat /\ p + 1 <= q
      BY <1>2, <2>1
    <3> QED
      BY <1>1, <1>2, <2>1, <3>1, Product
  <2>2. CASE q <= p
    <3>1. PageSize * q <= u /\ PageSize * q \in Nat
      BY <1>1, <1>2, <2>2, Product
    <3> QED
      BY <1>1, <1>2, <2>2, <3>1
  <2> QED
    BY <1>2, <2>1, <2>2
<1>6. p < s \div PageSize <=> u + PageSize <= s
  BY <1>3, <1>5
<1> HIDE DEF s
<1>7. p \in PagesOf(s, e) <=> s < u + PageSize /\ u < e
  BY <1>1, <1>2, <1>3, <1>4, PageOf
<1> HIDE DEF e
<1>8. CASE k + 1 = Length
  <2>1. p < s \div PageSize \/ p \in PagesOf(s, e)
    <3>1. u \in Nat /\ u < e /\ PageSize \in Nat
      BY <1>1, <1>2, <1>3, <1>8
    <3> HIDE DEF u
    <3> QED
      BY <1>3, <1>4, <1>6, <1>7, <3>1
  <2> QED
    BY <1>8, <2>1 DEF s, e
<1>9. CASE k + 1 # Length
  <2>1. k + 1 \in 0..(Length - 1) /\ e = Start(k + 1)
    BY <1>3, <1>9
  <2>2. \E q \in Nat : e = PageSize * q /\ e \div PageSize = q
    BY <2>1, ReplayChunk
  <2>3. p < e \div PageSize <=> u + PageSize <= e
    BY <1>5, <2>2
  <2>4. u < e <=> u + PageSize <= e
    <3>1. PICK q \in Nat : e = PageSize * q
      BY <2>2
    <3>2. p < q <=> u < e
      <4>1. CASE p < q
        <5>1. u + PageSize <= e
          BY <1>5, <3>1, <4>1
        <5> QED
          BY <1>1, <1>2, <1>4, <4>1, <5>1
      <4>2. CASE q <= p
        <5>1. PageSize * q <= u
          BY <1>1, <1>2, <4>2, Product
        <5> QED
          BY <1>2, <1>4, <3>1, <4>2, <5>1
      <4> QED
        BY <1>2, <4>1, <4>2
    <3> QED
      BY <1>5, <3>1, <3>2
  <2>5. s < e /\ s \in Nat /\ e \in Nat /\ u \in Nat
    BY <1>2, <1>3, <1>4
  <2> HIDE DEF u
  <2>6. (p < s \div PageSize \/ p \in PagesOf(s, e)) <=> p < e \div PageSize
    BY <1>1, <1>6, <1>7, <2>3, <2>4, <2>5
  <2> QED
    BY <1>9, <2>1, <2>6 DEF s, e
<1> QED
  BY <1>8, <1>9

\* Each page of a chunk belongs to one thread.
LEMMA ThreadOfPage ==
  ASSUME arg \in Arguments, idx \in 0..(Length - 1), NEW p \in ReplayPages
  PROVE  \E tid \in replay_threads : \A t \in replay_threads : Mine(t, p - Start(idx) \div PageSize) <=> t = tid
<1>1. PageSize \in Nat \ {0} /\ arg.threads \in Nat \ {0}
  BY ArgumentFacts
<1>2. /\ Start(idx) \in Nat /\ LenOf(idx) \in Nat \ {0}
      /\ \E q \in Nat : Start(idx) = PageSize * q /\ Start(idx) \div PageSize = q
  BY ReplayChunk
<1> DEFINE e == Start(idx) + LenOf(idx)
           q == Start(idx) \div PageSize
<1>3. e \in Nat /\ Start(idx) < e /\ q \in Nat
  BY <1>2
<1>4. p \in Nat /\ q <= p
  <2>1. p \in Nat
    BY <1>1, <1>2, <1>3, PagesAreNumbers DEF ReplayPages
  <2> DEFINE l == (e - 1) \div PageSize
  <2>2. l \in Nat
    <3>1. e - 1 \in Nat
      BY <1>2, <1>3
    <3> HIDE DEF e
    <3> QED
      BY <1>1, <3>1, Quotient
  <2>3. p \in q..l
    BY DEF ReplayPages, PagesOf
  <2> HIDE DEF q, l
  <2> QED
    BY <1>3, <2>1, <2>2, <2>3
<1> HIDE DEF q
<1>5. p - q \in Nat
  BY <1>3, <1>4
<1> DEFINE tid == (p - q) % arg.threads
<1>6. tid \in replay_threads
  BY <1>1, <1>5, DivMod DEF replay_threads
<1>7. \A t \in replay_threads : Mine(t, p - q) <=> t = tid
  BY DEF Mine
<1> QED
  BY <1>6, <1>7 DEF q

\* What the threads have read grows by the stride of one that reads.
LEMMA ThroughGrows ==
  ASSUME arg \in Arguments, idx \in 0..(Length - 1), todo \subseteq replay_threads
  PROVE  /\ todo = replay_threads => Through = {}
         /\ todo = {} => Through = ReplayPages
         /\ \A tid \in todo :
              /\ Through \cap Stride(tid) = {}
              /\ {p \in ReplayPages : \E t \in replay_threads \ (todo \ {tid}) :
                     Mine(t, p - Start(idx) \div PageSize)} = Through \cup Stride(tid)
<1> DEFINE Of(t, p) == Mine(t, p - Start(idx) \div PageSize)
<1>1. \A p \in ReplayPages : \E tid \in replay_threads : \A t \in replay_threads : Of(t, p) <=> t = tid
  BY ThreadOfPage
<1>2. /\ Through = {p \in ReplayPages : \E t \in replay_threads \ todo : Of(t, p)}
      /\ \A tid : Stride(tid) = {p \in ReplayPages : Of(tid, p)}
  BY DEF Through, Stride
<1> HIDE DEF Of
<1>3. todo = replay_threads => Through = {}
  BY <1>2
<1>4. todo = {} => Through = ReplayPages
  BY <1>1, <1>2
<1>5. ASSUME NEW tid \in todo
      PROVE  /\ Through \cap Stride(tid) = {}
             /\ {p \in ReplayPages : \E t \in replay_threads \ (todo \ {tid}) : Of(t, p)} = Through \cup Stride(tid)
  BY <1>1, <1>2
<1> QED
  BY <1>3, <1>4, <1>5 DEF Of

\* The chunk as PagesHoldAll has it.
LEMMA ReplayBytes ==
  ASSUME arg \in Arguments, idx \in 0..(Length - 1)
  PROVE  /\ IsFiniteSet(ReplayPages) /\ ReplayPages \subseteq Nat
         /\ page_bytes \in [ReplayPages -> Nat]
         /\ ByteCount(page_bytes, ReplayPages) = LenOf(idx)
         /\ \A tid \in replay_threads : my_bytes(tid) = ByteCount(page_bytes, Stride(tid))
<1>1. PageSize \in Nat \ {0}
  BY ArgumentFacts
<1>2. /\ Start(idx) \in Nat /\ LenOf(idx) \in Nat \ {0}
      /\ \E q \in Nat : Start(idx) = PageSize * q /\ Start(idx) \div PageSize = q
  BY ReplayChunk
<1>3. /\ IsFiniteSet(ReplayPages) /\ ReplayPages \subseteq Nat
      /\ page_bytes \in [ReplayPages -> Nat]
      /\ ByteCount(page_bytes, ReplayPages) = LenOf(idx)
  <2> DEFINE a == Start(idx)
             n == LenOf(idx)
  <2>1. PICK q \in Nat : a = PageSize * q /\ a \div PageSize = q
    BY <1>2
  <2>2. a \in Nat /\ n \in Nat \ {0}
    BY <1>2
  <2>3. ReplayPages = PagesOf(a, a + n) /\ page_bytes = BytesOn(a, n)
    BY DEF ReplayPages, page_bytes, BytesOn
  <2> HIDE DEF a, n
  <2>4. LET D == PagesOf(a, a + n) IN
        /\ IsFiniteSet(D) /\ D \subseteq Nat
        /\ BytesOn(a, n) \in [D -> Nat]
        /\ ByteCount(BytesOn(a, n), D) = n
    BY <1>1, <2>1, <2>2, PagesHoldAll
  <2> QED
    BY <2>3, <2>4 DEF n
<1>4. ASSUME NEW tid \in replay_threads PROVE my_bytes(tid) = ByteCount(page_bytes, Stride(tid))
  <2>1. Stride(tid) \in SUBSET ReplayPages
    BY DEF Stride
  <2>2. my_bytes(tid) = SumFunctionOnSet(page_bytes, Stride(tid))
    BY DEF my_bytes
  <2> QED
    BY <1>3, <2>1, <2>2, SumIsByteCount
<1> QED
  BY <1>3, <1>4

\* What the replay has counted when the threads are through with a step.
LEMMA StepCounted ==
  ASSUME arg \in Arguments, idx \in 0..(Length - 1), todo = {}, replay = ReplayNow
  PROVE  replay = [bytes_touched |-> (pass * arg.region_len + Start(idx)) + LenOf(idx),
                   reads |-> [p \in Pages |-> pass + (IF idx + 1 = Length \/ p < Start(idx + 1) \div PageSize
                                                      THEN 1 ELSE 0)]]
<1>1. Through = ReplayPages
  <2>1. todo \subseteq replay_threads
    OBVIOUS
  <2> QED
    BY <2>1, ThroughGrows
<1>2. ByteCount(page_bytes, Through) = LenOf(idx)
  BY <1>1, ReplayBytes
<1>3. \A p \in Pages : (p < Start(idx) \div PageSize \/ p \in Through)
                          <=> (idx + 1 = Length \/ p < Start(idx + 1) \div PageSize)
  BY <1>1, UpToChunk DEF ReplayPages
<1>4. [p \in Pages |-> pass + (IF p < Start(idx) \div PageSize \/ p \in Through THEN 1 ELSE 0)]
        = [p \in Pages |-> pass + (IF idx + 1 = Length \/ p < Start(idx + 1) \div PageSize THEN 1 ELSE 0)]
  BY <1>3, Zenon
<1>5. replay = [bytes_touched |-> (pass * arg.region_len + Start(idx)) + ByteCount(page_bytes, Through),
                reads |-> [p \in Pages |-> pass + (IF p < Start(idx) \div PageSize \/ p \in Through THEN 1 ELSE 0)]]
  BY DEF ReplayNow
<1> QED
  BY <1>2, <1>4, <1>5, Zenon

\* What holds of the types, the loops and the counter of read_bytes.
ArmsTyped ==
  /\ arg \in Arguments
  /\ io \in Nat /\ io_before \in Nat
  /\ ArmsTypeOK
  /\ at = "touch" => pass < arg.n_passes

\* The arguments stay, and all that follows from them.
LEMMA ArgumentsStay ==
  ASSUME arg \in Arguments, [ArmsNext]_armsVars
  PROVE  /\ arg' = arg
         /\ Pages' = Pages /\ Length' = Length /\ Steps' = Steps /\ AllSteps' = AllSteps
         /\ RoundedSize' = RoundedSize /\ n_chunks' = n_chunks /\ replay_threads' = replay_threads
<1>1. arg' = arg
  BY DEF ArmsNext, armsVars, Open, Advise, Before, BaselineTouch, After, Reclaim, StartReplay, ReadStride, EndStep
<1> QED
  BY <1>1 DEF Pages, PagesOf, Length, RoundedUp, RoundedSize, Steps, AllSteps, n_chunks, replay_threads

\* How many steps the replay has.
LEMMA StepsFacts ==
  ASSUME arg \in Arguments
  PROVE  /\ Length \in Nat \ {0} /\ AllSteps \in Nat /\ Steps \in Nat /\ Steps <= AllSteps
         /\ AllSteps = arg.n_passes * Length
<1>1. arg.n_passes \in Nat /\ UINT32 \in Nat \ {0}
  BY ArgumentFacts
<1>2. Length \in Nat \ {0}
  <2> DEFINE m == RoundedUp(arg.chunk_size, PageSize)
             size == RoundedSize
  <2>1. arg.region_len \in Nat \ {0} /\ PageSize \in Nat \ {0} /\ m \in Nat \ {0} /\ size = PageSize * m
    BY ArgumentFacts, RoundedUpIs DEF RoundedSize
  <2>2. size \in Nat \ {0}
    <3> HIDE DEF m
    <3>1. 1 <= m /\ PageSize * 1 <= PageSize * m /\ PageSize * m \in Nat
      BY <2>1, Product
    <3> QED
      BY <2>1, <3>1
  <2> HIDE DEF size
  <2> QED
    BY <2>1, <2>2, RoundedUpIs DEF Length, size
<1>3. AllSteps \in Nat /\ AllSteps = arg.n_passes * Length
  BY <1>1, <1>2 DEF AllSteps
<1>4. AllSteps % UINT32 \in Nat /\ AllSteps % UINT32 <= AllSteps
  <2> DEFINE a == AllSteps
             r == a % UINT32
             q == a \div UINT32
  <2>1. q \in Nat /\ r \in 0..(UINT32 - 1) /\ a = UINT32 * q + r
    BY <1>1, <1>3, DivMod
  <2>2. UINT32 * q \in Nat
    BY <1>1, <2>1
  <2> HIDE DEF r, q, a
  <2>3. r \in Nat /\ r <= a
    BY <1>1, <2>1, <2>2
  <2> QED
    BY <2>3 DEF r, a
<1> QED
  BY <1>2, <1>3, <1>4 DEF Steps

\* What stands in the counters of the replay when a step begins.
LEMMA StepBegins ==
  ASSUME arg \in Arguments, [ArmsNext]_armsVars, idx' \in 0..(Length - 1), pass' \in Nat,
         todo' = replay_threads
  PROVE  ReplayNow' = [bytes_touched |-> pass' * arg.region_len + Start(idx'),
                       reads |-> [p \in Pages |-> pass' + (IF p < Start(idx') \div PageSize THEN 1 ELSE 0)]]
<1>1. /\ arg' = arg /\ Pages' = Pages /\ RoundedSize' = RoundedSize /\ replay_threads' = replay_threads
  BY ArgumentsStay
<1>2. Through' = {}
  BY <1>1 DEF Through
<1>3. ByteCount(page_bytes', Through') = 0
  BY <1>2, ByteCountEmpty
<1>4. Start(idx)' = Start(idx')
  BY <1>1 DEF Start
<1> DEFINE b == pass' * arg.region_len + Start(idx')
<1>5. b \in Nat
  <2>1. Start(idx') \in Nat
    BY ReplayChunk
  <2>2. arg.region_len \in Nat
    BY ArgumentFacts
  <2>3. pass' * arg.region_len \in Nat
    BY <2>2
  <2> QED
    BY <2>1, <2>3
<1>6. ReplayNow' = [bytes_touched |-> b + 0,
                    reads |-> [p \in Pages |-> pass' + (IF p < Start(idx') \div PageSize \/ p \in {} THEN 1 ELSE 0)]]
  BY <1>1, <1>2, <1>3, <1>4 DEF ReplayNow
<1>7. b + 0 = b
  <2> HIDE DEF b
  <2> QED
    BY <1>5
<1> QED
  BY <1>6, <1>7

LEMMA StartReplayKeeps ==
  ASSUME ArmsTyped, ReplayInv, StartReplay
  PROVE  ReplayInv' /\ (at' = "replay" => idx' \in 0..(Length - 1) /\ pass' \in 0..arg.n_passes)
<1>1. arg \in Arguments /\ [ArmsNext]_armsVars
  BY DEF ArmsTyped, ArmsNext
<1>2. arg' = arg /\ Pages' = Pages /\ Length' = Length /\ Steps' = Steps /\ AllSteps' = AllSteps
  BY <1>1, ArgumentsStay
<1>3. /\ Length \in Nat \ {0} /\ AllSteps \in Nat /\ Steps \in Nat /\ Steps <= AllSteps
      /\ AllSteps = arg.n_passes * Length
  BY <1>1, StepsFacts
<1>4. arg.n_passes \in Nat /\ arg.region_len \in Nat /\ UINT32 \in Nat \ {0}
  BY <1>1, ArgumentFacts
<1>5. pass' = 0 /\ idx' = 0 /\ todo' = replay_threads /\ replay' = replay /\ replay = Counters
  BY DEF StartReplay, Rewind, ReplayInv
<1>6. at' = IF Length >= UINT32 THEN "aborted" ELSE IF Steps = 0 THEN "done" ELSE "replay"
  BY DEF StartReplay, Label
<1>7. CASE at' = "aborted"
  BY <1>2, <1>5, <1>7 DEF ReplayInv, Counters
<1>8. CASE at' = "done"
  <2>1. Length < UINT32 /\ Steps = 0
    BY <1>3, <1>4, <1>6, <1>8
  <2>2. EveryStep => arg.n_passes = 0
    BY <1>3, <1>4, <2>1 DEF EveryStep
  <2>3. Counters = AllRead(0)
    BY <1>4 DEF Counters, AllRead
  <2>4. EveryStep' = EveryStep
    BY <1>2 DEF EveryStep
  <2>5. \A n : AllRead(n)' = AllRead(n)
    BY <1>2 DEF AllRead
  <2> QED
    BY <1>2, <1>5, <1>8, <2>1, <2>2, <2>3, <2>4, <2>5 DEF ReplayInv
<1>9. CASE at' = "replay"
  <2>1. Length < UINT32 /\ Steps # 0
    BY <1>3, <1>4, <1>6, <1>9
  <2>2. 0 < Steps /\ 0 < arg.n_passes
    BY <1>3, <1>4, <2>1
  <2>3. idx' \in 0..(Length - 1) /\ pass' \in Nat /\ pass' * Length + idx' = 0 /\ pass' * arg.region_len = 0
    BY <1>3, <1>4, <1>5
  <2>4. Start(0) = 0 /\ 0 \div PageSize = 0
    <3>1. RoundedSize \in Nat /\ PageSize \in Nat \ {0} /\ 0 \in 0..(Length - 1)
      BY <1>1, <1>3, ReplayChunk, ArgumentFacts
    <3> QED
      BY <3>1 DEF Start
  <2>5. Pages \subseteq Nat
    <3>1. PageSize \in Nat \ {0} /\ 0 \in Nat /\ arg.region_len \in Nat /\ 0 < arg.region_len
      BY <1>1, ArgumentFacts
    <3> QED
      BY <3>1, PagesAreNumbers DEF Pages
  <2>6. ReplayNow' = [bytes_touched |-> pass' * arg.region_len + Start(idx'),
                      reads |-> [p \in Pages |-> pass' + (IF p < Start(idx') \div PageSize THEN 1 ELSE 0)]]
    BY <1>1, <1>5, <2>3, StepBegins
  <2>7. ReplayNow' = [bytes_touched |-> 0 + 0, reads |-> [p \in Pages |-> 0 + (IF p < 0 THEN 1 ELSE 0)]]
    BY <1>5, <2>3, <2>4, <2>6
  <2>8. \A p \in Pages : ~ (p < 0)
    BY <2>5
  <2>9. ReplayNow' = Counters
    BY <2>7, <2>8 DEF Counters
  <2>10. pass' < arg.n_passes /\ pass' * Length + idx' < Steps
    BY <1>5, <2>2, <2>3
  <2>11. pass' \in 0..arg.n_passes
    BY <1>4, <1>5
  <2> QED
    BY <1>2, <1>5, <1>9, <2>1, <2>3, <2>9, <2>10, <2>11 DEF ReplayInv
<1> QED
  BY <1>6, <1>7, <1>8, <1>9

LEMMA ReadStrideKeeps ==
  ASSUME ArmsTyped, ReplayInv, NEW tid \in replay_threads, ReadStride(tid)
  PROVE  ReplayInv'
<1>1. arg \in Arguments /\ [ArmsNext]_armsVars /\ at = "replay" /\ at' = at /\ pass' = pass /\ idx' = idx
  BY DEF ArmsTyped, ArmsNext, ReadStride, loopVars
<1>2. /\ arg' = arg /\ Pages' = Pages /\ Length' = Length /\ Steps' = Steps
      /\ RoundedSize' = RoundedSize /\ replay_threads' = replay_threads
  BY <1>1, ArgumentsStay
<1>3. idx \in 0..(Length - 1) /\ todo \subseteq replay_threads /\ tid \in todo /\ todo' = todo \ {tid}
  <2>1. Length \in Nat
    BY <1>1, StepsFacts
  <2> QED
    BY <1>1, <2>1 DEF ArmsTyped, ArmsTypeOK, ReadStride
<1>4. Start(idx)' = Start(idx) /\ LenOf(idx)' = LenOf(idx)
  BY <1>1, <1>2 DEF Start, LenOf
<1>5. ReplayPages' = ReplayPages /\ page_bytes' = page_bytes
  BY <1>4 DEF ReplayPages, PagesOf, page_bytes
<1>6. Through' = Through \cup Stride(tid) /\ Through \cap Stride(tid) = {}
  <2>1. Through' = {p \in ReplayPages : \E t \in replay_threads \ (todo \ {tid}) :
                       Mine(t, p - Start(idx) \div PageSize)}
    BY <1>2, <1>3, <1>4, <1>5 DEF Through, Mine
  <2> QED
    BY <1>1, <1>3, <2>1, ThroughGrows
<1>7. Through \in SUBSET ReplayPages /\ Stride(tid) \in SUBSET ReplayPages
  BY DEF Through, Stride
<1>8. /\ IsFiniteSet(ReplayPages) /\ page_bytes \in [ReplayPages -> Nat]
      /\ my_bytes(tid) = ByteCount(page_bytes, Stride(tid))
  BY <1>1, <1>3, ReplayBytes
<1>9. ByteCount(page_bytes, Through') = ByteCount(page_bytes, Through) + my_bytes(tid)
  BY <1>6, <1>7, <1>8, ByteCountDisjoint
<1>10. ByteCount(page_bytes, Through) \in Nat /\ my_bytes(tid) \in Nat
  BY <1>7, <1>8, ByteCountFinite
<1> DEFINE b == pass * arg.region_len + Start(idx)
           old(p) == p < Start(idx) \div PageSize
<1>11. b \in Nat /\ pass \in Nat
  <2>1. Start(idx) \in Nat /\ arg.region_len \in Nat /\ arg.n_passes \in Nat
    BY <1>1, <1>3, ReplayChunk, ArgumentFacts
  <2>2. pass \in Nat
    BY <2>1 DEF ArmsTyped, ArmsTypeOK
  <2>3. pass * arg.region_len \in Nat
    BY <2>1, <2>2
  <2> QED
    BY <2>1, <2>2, <2>3
<1>12. replay = [bytes_touched |-> b + ByteCount(page_bytes, Through),
                 reads |-> [p \in Pages |-> pass + (IF old(p) \/ p \in Through THEN 1 ELSE 0)]]
  BY <1>1 DEF ReplayInv, ReplayNow
<1>13. ReplayNow' = [bytes_touched |-> b + ByteCount(page_bytes, Through'),
                     reads |-> [p \in Pages |-> pass + (IF old(p) \/ p \in Through' THEN 1 ELSE 0)]]
  BY <1>1, <1>2, <1>4, <1>5 DEF ReplayNow
<1>14. replay' = [bytes_touched |-> replay.bytes_touched + my_bytes(tid),
                  reads |-> [p \in Pages |-> replay.reads[p] + (IF p \in Stride(tid) THEN 1 ELSE 0)]]
  BY DEF ReadStride, Read
<1>15. \A p \in Stride(tid) : ~ old(p)
  <2> TAKE p \in Stride(tid)
  <2>1. p \in ReplayPages
    BY <1>7
  <2>2. Start(idx) \in Nat /\ PageSize \in Nat \ {0}
    BY <1>1, <1>3, ReplayChunk, ArgumentFacts
  <2> DEFINE q == Start(idx) \div PageSize
             l == ((Start(idx) + LenOf(idx)) - 1) \div PageSize
  <2>3. q \in Nat
    BY <2>2, Quotient
  <2>4. p \in q..l /\ p \in Nat
    BY <1>1, <1>3, <2>1, ReplayBytes DEF ReplayPages, PagesOf
  <2> HIDE DEF q, l
  <2>5. ~ (p < q)
    BY <2>3, <2>4
  <2> QED
    BY <2>5 DEF q
<1> HIDE DEF b, old
<1>16. replay'.bytes_touched = ReplayNow'.bytes_touched
  BY <1>9, <1>10, <1>11, <1>12, <1>13, <1>14
<1>17. \A p \in Pages : replay'.reads[p] = ReplayNow'.reads[p]
  <2> TAKE p \in Pages
  <2>1. replay'.reads[p] = (pass + (IF old(p) \/ p \in Through THEN 1 ELSE 0)) + (IF p \in Stride(tid) THEN 1 ELSE 0)
    BY <1>12, <1>14
  <2>2. ReplayNow'.reads[p] = pass + (IF old(p) \/ p \in Through' THEN 1 ELSE 0)
    BY <1>13
  <2>3. CASE p \in Stride(tid)
    BY <1>6, <1>11, <1>15, <2>1, <2>2, <2>3
  <2>4. CASE p \notin Stride(tid)
    BY <1>6, <1>11, <2>1, <2>2, <2>4
  <2> QED
    BY <2>3, <2>4
<1>18. replay' = ReplayNow'
  <2>1. replay'.reads = ReplayNow'.reads
    BY <1>13, <1>14, <1>17
  <2> QED
    BY <1>13, <1>14, <1>16, <2>1
<1> QED
  BY <1>1, <1>2, <1>18 DEF ReplayInv

LEMMA EndStepKeeps ==
  ASSUME ArmsTyped, ReplayInv, EndStep
  PROVE  ReplayInv' /\ (at' = "replay" => idx' \in 0..(Length - 1)) /\ pass' \in 0..arg.n_passes /\ idx' \in Nat
<1>1. arg \in Arguments /\ [ArmsNext]_armsVars /\ at = "replay" /\ replay' = replay
  BY DEF ArmsTyped, ArmsNext, EndStep
<1>2. /\ arg' = arg /\ Pages' = Pages /\ Length' = Length /\ Steps' = Steps /\ AllSteps' = AllSteps
      /\ RoundedSize' = RoundedSize
  BY <1>1, ArgumentsStay
<1>3. /\ Length \in Nat \ {0} /\ AllSteps \in Nat /\ Steps \in Nat /\ Steps <= AllSteps
      /\ AllSteps = arg.n_passes * Length
  BY <1>1, StepsFacts
<1>4. /\ arg.n_passes \in Nat /\ arg.region_len \in Nat /\ PageSize \in Nat \ {0}
      /\ pass \in Nat /\ pass < arg.n_passes
  <2>1. arg.n_passes \in Nat /\ arg.region_len \in Nat /\ PageSize \in Nat \ {0}
    BY <1>1, ArgumentFacts
  <2> QED
    BY <1>1, <2>1 DEF ArmsTyped, ArmsTypeOK, ReplayInv
<1>5. idx \in 0..(Length - 1) /\ idx \in Nat
  BY <1>1, <1>3 DEF ArmsTyped, ArmsTypeOK
<1>6. todo = {} /\ todo' = replay_threads /\ idx' = (idx + 1) % Length
      /\ pass' = IF idx + 1 = Length THEN pass + 1 ELSE pass
  BY DEF EndStep, Advance
<1> DEFINE done == pass * Length + idx + 1 = Steps
           u == pass * Length
<1>7. at' = IF done THEN "done" ELSE "replay"
  BY DEF EndStep, Label
<1>8. u \in Nat /\ (pass + 1) * Length = u + Length /\ (pass + 1) * Length <= AllSteps
  <2>1. Length * (pass + 1) = Length * pass + Length /\ Length * pass \in Nat
    BY <1>3, <1>4, Product
  <2>2. pass + 1 \in Nat /\ pass + 1 <= arg.n_passes
    BY <1>4
  <2>3. Length * (pass + 1) <= Length * arg.n_passes
    BY <1>3, <1>4, <2>2, Product
  <2>4. Length * pass = u /\ Length * (pass + 1) = (pass + 1) * Length /\ Length * arg.n_passes = AllSteps
    BY <1>3, <1>4
  <2> QED
    BY <2>1, <2>3, <2>4
<1>9. u + idx < Steps /\ replay = ReplayNow /\ Length < UINT32
  BY <1>1 DEF ReplayInv
<1>10. replay = [bytes_touched |-> (pass * arg.region_len + Start(idx)) + LenOf(idx),
                 reads |-> [p \in Pages |-> pass + (IF idx + 1 = Length \/ p < Start(idx + 1) \div PageSize
                                                    THEN 1 ELSE 0)]]
  BY <1>1, <1>5, <1>6, <1>9, StepCounted
<1>11. /\ Start(idx) \in Nat /\ LenOf(idx) \in Nat
       /\ Start(idx) + LenOf(idx) = IF idx + 1 = Length THEN arg.region_len ELSE Start(idx + 1)
  BY <1>1, <1>5, ReplayChunk
<1>12. pass * arg.region_len \in Nat /\ (pass + 1) * arg.region_len = pass * arg.region_len + arg.region_len
  <2>1. arg.region_len * (pass + 1) = arg.region_len * pass + arg.region_len /\ arg.region_len * pass \in Nat
    BY <1>4, Product
  <2>2. arg.region_len * pass = pass * arg.region_len /\ arg.region_len * (pass + 1) = (pass + 1) * arg.region_len
    BY <1>4
  <2> QED
    BY <2>1, <2>2
<1> HIDE DEF u
<1>13. CASE idx + 1 = Length
  <2>1. idx' = 0 /\ pass' = pass + 1 /\ pass' \in 0..arg.n_passes
    <3>1. Length % Length = 0
      <4>1. Length = Length * 1 + 0 /\ 0 \in 0..(Length - 1) /\ 1 \in Int
        BY <1>3
      <4>2. (Length * 1 + 0) % Length = 0
        BY <1>3, <4>1, ModUnique
      <4> QED
        BY <4>1, <4>2
    <3> QED
      BY <1>4, <1>6, <1>13, <3>1
  <2>2. replay = AllRead(pass + 1)
    <3>1. (pass * arg.region_len + Start(idx)) + LenOf(idx) = (pass + 1) * arg.region_len
      <4> DEFINE v == pass * arg.region_len
                 w == (pass + 1) * arg.region_len
      <4>1. v \in Nat /\ w = v + arg.region_len
        BY <1>12
      <4>2. Start(idx) + LenOf(idx) = arg.region_len
        BY <1>11, <1>13
      <4> HIDE DEF v, w
      <4>3. (v + Start(idx)) + LenOf(idx) = w
        BY <1>4, <1>11, <4>1, <4>2
      <4> QED
        BY <4>3 DEF v, w
    <3> QED
      BY <1>10, <1>13, <3>1 DEF AllRead
  <2>3. CASE done
    <3>1. EveryStep' => pass + 1 = arg.n_passes
      <4>1. SUFFICES ASSUME Steps = AllSteps, pass + 1 # arg.n_passes PROVE FALSE
        BY <1>2 DEF EveryStep
      <4>2. pass + 2 \in Nat /\ pass + 2 <= arg.n_passes /\ (pass + 1) + 1 = pass + 2 /\ pass + 1 \in Nat
        BY <1>4, <4>1
      <4>3. Length * (pass + 2) <= Length * arg.n_passes /\ Length * (pass + 2) = Length * (pass + 1) + Length
        BY <1>3, <1>4, <4>2, Product
      <4>4. Length * (pass + 1) = (pass + 1) * Length /\ Length * arg.n_passes = AllSteps
        BY <1>3, <1>4
      <4>5. (u + Length) + Length <= AllSteps
        BY <1>8, <4>3, <4>4
      <4>6. u + idx + 1 = Steps
        BY <2>3 DEF u
      <4> QED
        BY <1>3, <1>5, <1>8, <1>13, <4>1, <4>5, <4>6
    <3>2. \A n : AllRead(n)' = AllRead(n)
      BY <1>2 DEF AllRead
    <3>3. EveryStep' => replay' = AllRead(arg.n_passes)'
      BY <1>1, <1>2, <2>2, <3>1, <3>2
    <3>4. at' = "done"
      BY <1>7, <2>3
    <3> QED
      BY <1>2, <1>9, <2>1, <3>3, <3>4 DEF ReplayInv
  <2>4. CASE ~ done
    <3>1. u + idx + 1 < Steps
      <4>1. u + idx + 1 # Steps
        BY <2>4 DEF u
      <4> QED
        BY <1>3, <1>5, <1>8, <1>9, <4>1
    <3>2. pass' * Length + idx' < Steps
      <4>1. pass' * Length + idx' = (pass + 1) * Length + 0
        BY <2>1
      <4> DEFINE w == (pass + 1) * Length
      <4>2. w = u + Length
        BY <1>8
      <4> HIDE DEF w
      <4>3. w + 0 < Steps
        BY <1>3, <1>5, <1>8, <1>13, <3>1, <4>2
      <4> QED
        BY <4>1, <4>3 DEF w
    <3>3. pass' < arg.n_passes
      <4>1. SUFFICES ASSUME pass + 1 = arg.n_passes PROVE FALSE
        BY <1>4, <2>1
      <4>2. AllSteps = u + Length
        BY <1>3, <1>8, <4>1
      <4> QED
        BY <1>3, <1>5, <1>8, <1>13, <3>1, <4>2
    <3>4. idx' \in 0..(Length - 1) /\ pass' \in Nat
      BY <1>3, <1>4, <2>1
    <3>5. ReplayNow' = [bytes_touched |-> pass' * arg.region_len + Start(idx'),
                        reads |-> [p \in Pages |-> pass' + (IF p < Start(idx') \div PageSize THEN 1 ELSE 0)]]
      BY <1>1, <1>6, <3>4, StepBegins
    <3>6. Start(0) = 0 /\ 0 \div PageSize = 0
      <4>1. RoundedSize \in Nat /\ 0 \in 0..(Length - 1)
        BY <1>1, <1>3, ReplayChunk
      <4> QED
        BY <1>4, <4>1 DEF Start
    <3>7. \A p \in Pages : ~ (p < 0) /\ (pass + 1) + 0 = pass + 1
      <4>1. 0 \in Nat /\ arg.region_len \in Nat /\ 0 < arg.region_len
        BY <1>1, ArgumentFacts
      <4>2. Pages \subseteq Nat
        BY <1>4, <4>1, PagesAreNumbers DEF Pages
      <4> QED
        BY <1>4, <4>2
    <3>8. (pass + 1) * arg.region_len + 0 = (pass + 1) * arg.region_len
      <4>1. (pass + 1) * arg.region_len \in Nat
        BY <1>4
      <4> QED
        BY <4>1
    <3>9. [p \in Pages |-> (pass + 1) + (IF p < 0 THEN 1 ELSE 0)] = [p \in Pages |-> pass + 1]
      BY <3>7
    <3>10. ReplayNow' = AllRead(pass + 1)
      BY <2>1, <3>5, <3>6, <3>8, <3>9 DEF AllRead
    <3>11. at' = "replay"
      BY <1>7, <2>4
    <3> QED
      BY <1>1, <1>2, <1>4, <1>9, <2>1, <2>2, <3>2, <3>3, <3>4, <3>10, <3>11 DEF ReplayInv
  <2> QED
    BY <2>3, <2>4
<1>14. CASE idx + 1 # Length
  <2>1. idx' = idx + 1 /\ pass' = pass /\ idx + 1 \in 0..(Length - 1) /\ idx' \in Nat /\ pass' \in 0..arg.n_passes
    <3>1. idx + 1 \in 0..(Length - 1) /\ idx + 1 \in Nat
      BY <1>3, <1>5, <1>14
    <3> QED
      BY <1>3, <1>4, <1>6, <1>14, <3>1, ModSmall
  <2>2. replay = [bytes_touched |-> pass * arg.region_len + Start(idx + 1),
                  reads |-> [p \in Pages |-> pass + (IF p < Start(idx + 1) \div PageSize THEN 1 ELSE 0)]]
    <3>1. (pass * arg.region_len + Start(idx)) + LenOf(idx) = pass * arg.region_len + Start(idx + 1)
      <4> DEFINE v == pass * arg.region_len
      <4>1. v \in Nat
        BY <1>12
      <4>2. Start(idx) + LenOf(idx) = Start(idx + 1)
        BY <1>11, <1>14
      <4> HIDE DEF v
      <4>3. (v + Start(idx)) + LenOf(idx) = v + Start(idx + 1)
        BY <1>11, <4>1, <4>2
      <4> QED
        BY <4>3 DEF v
    <3> QED
      BY <1>10, <1>14, <3>1
  <2>3. CASE done
    <3>1. ~ EveryStep'
      <4>1. SUFFICES ASSUME Steps = AllSteps PROVE FALSE
        BY <1>2 DEF EveryStep
      <4>2. u + idx + 1 = Steps
        BY <2>3 DEF u
      <4>3. u + Length <= AllSteps
        BY <1>8
      <4> QED
        BY <1>3, <1>5, <1>8, <1>14, <2>1, <4>1, <4>2, <4>3
    <3>2. at' = "done"
      BY <1>7, <2>3
    <3> QED
      BY <1>2, <1>9, <2>1, <3>1, <3>2 DEF ReplayInv
  <2>4. CASE ~ done
    <3>1. u + idx + 1 < Steps
      <4>1. u + idx + 1 # Steps
        BY <2>4 DEF u
      <4> QED
        BY <1>3, <1>5, <1>8, <1>9, <4>1
    <3>2. pass' * Length + idx' < Steps
      <4>1. u + (idx + 1) < Steps
        BY <1>3, <1>5, <1>8, <3>1
      <4> QED
        BY <2>1, <4>1 DEF u
    <3>3. ReplayNow' = [bytes_touched |-> pass' * arg.region_len + Start(idx'),
                        reads |-> [p \in Pages |-> pass' + (IF p < Start(idx') \div PageSize THEN 1 ELSE 0)]]
      BY <1>1, <1>4, <1>6, <2>1, StepBegins
    <3>4. at' = "replay"
      BY <1>7, <2>4
    <3> QED
      BY <1>1, <1>2, <1>4, <1>9, <2>1, <2>2, <3>2, <3>3, <3>4 DEF ReplayInv
  <2> QED
    BY <2>3, <2>4
<1> QED
  BY <1>13, <1>14

-----------------------------------------------------------------------------
(* The baseline *)

\* What the loops of the baseline have counted, if its chunks are whole and as
\* many as n_chunks says.
Fits == arg.region_len \div arg.chunk_size < UINT32

BaselineNow ==
  [bytes_touched |-> pass * arg.region_len + idx * arg.chunk_size,
   reads |-> [p \in Pages |-> pass + (IF PageSize * p < idx * arg.chunk_size THEN 1 ELSE 0)]]

BaselineInv ==
  /\ at \in {"open", "advise", "before"} => baseline = Counters /\ pass = 0 /\ idx = 0
  /\ WholeChunks /\ Fits =>
       /\ at = "touch" => baseline = BaselineNow
       /\ at \in {"after", "reported", "aborted", "replay", "done"} => baseline = AllRead(arg.n_passes)

\* A baseline without hints, on a cache that was dropped, reads its first pages
\* from storage.
Cold == ~ arg.hints /\ ~ arg.stale
ColdInv ==
  /\ Cold /\ at \in {"open", "advise", "before"} => cached = {}
  /\ Cold /\ at = "touch" => (cached = {} /\ baseline.bytes_touched = 0) \/ io > io_before
  /\ Cold /\ at = "after" => baseline.bytes_touched = 0 \/ io > io_before
  /\ Cold /\ at = "refused" => arg.file_len < arg.region_len

\* A chunk of the baseline ends in the region.
LEMMA BaselineChunk ==
  ASSUME arg \in Arguments, NEW k \in Nat, k < n_chunks
  PROVE  /\ k * arg.chunk_size \in Nat
         /\ (k + 1) * arg.chunk_size = k * arg.chunk_size + arg.chunk_size
         /\ k * arg.chunk_size + arg.chunk_size <= arg.region_len
         /\ n_chunks \in Nat
<1> DEFINE c == arg.chunk_size
           r == arg.region_len
           n == r \div c
<1>1. c \in Nat \ {0} /\ r \in Nat \ {0} /\ UINT32 \in Nat \ {0}
  BY ArgumentFacts
<1>2. n \in Nat /\ c * n <= r
  BY <1>1, Quotient
<1>3. n_chunks \in Nat /\ n_chunks <= n
  <2>1. n_chunks = n % UINT32
    BY DEF n_chunks
  <2> DEFINE q == n \div UINT32
             m == n % UINT32
  <2> HIDE DEF n
  <2>2. q \in Nat /\ m \in 0..(UINT32 - 1) /\ n = UINT32 * q + m
    BY <1>1, <1>2, DivMod
  <2>3. UINT32 * q \in Nat
    BY <1>1, <2>2
  <2> HIDE DEF q, m
  <2>4. m \in Nat /\ m <= n
    BY <1>1, <2>2, <2>3
  <2> QED
    BY <2>1, <2>4 DEF m
<1> HIDE DEF n
<1>4. k + 1 \in Nat /\ k + 1 <= n
  BY <1>2, <1>3
<1>5. c * (k + 1) <= c * n /\ c * (k + 1) = c * k + c /\ c * k \in Nat /\ c * n \in Nat
  <2> HIDE DEF c
  <2>1. c * (k + 1) <= c * n /\ c * n \in Nat
    BY <1>1, <1>2, <1>4, Product
  <2>2. k <= k /\ c * k \in Nat /\ c * (k + 1) = c * k + c
    BY <1>1, Product
  <2> QED
    BY <2>1, <2>2
<1>6. c * k = k * c /\ c * (k + 1) = (k + 1) * c
  BY <1>1
<1>7. k * c + c <= r
  BY <1>1, <1>2, <1>5, <1>6
<1> QED
  BY <1>3, <1>5, <1>6, <1>7

\* A page of the baseline's loop over a chunk lies in the region.
LEMMA TouchedFacts ==
  ASSUME arg \in Arguments, NEW k \in Nat, k < n_chunks
  PROVE  /\ Touched(k) \subseteq Pages /\ Touched(k) # {} /\ IsFiniteSet(Touched(k))
         /\ WholeChunks => \A p \in Pages :
              p \in Touched(k) <=> k * arg.chunk_size <= PageSize * p
                                   /\ PageSize * p < (k + 1) * arg.chunk_size
<1> DEFINE c == arg.chunk_size
           r == arg.region_len
           u == k * c
           Reads == {o \in 0..(c - 1) : o % PageSize = 0}
<1>1. c \in Nat \ {0} /\ r \in Nat \ {0} /\ PageSize \in Nat \ {0}
  BY ArgumentFacts
<1>2. u \in Nat /\ u + c <= r /\ (k + 1) * c = u + c
  BY BaselineChunk
<1>3. Touched(k) = {(u + off) \div PageSize : off \in Reads}
  BY DEF Touched
<1> HIDE DEF u, Reads
<1>4. \A off \in Reads : off \in Nat /\ off < c /\ off % PageSize = 0 /\ u + off \in Nat /\ u + off < r
  BY <1>1, <1>2 DEF Reads
<1>5. \A x \in Nat : x < r => x \div PageSize \in Pages
  <2> TAKE x \in Nat
  <2> HAVE x < r
  <2>1. 0 \in Nat /\ 0 < r /\ x + 1 \in Nat /\ x < x + 1
    BY <1>1
  <2> DEFINE p == x \div PageSize
  <2>2. p \in Nat /\ PageSize * p <= x /\ x < PageSize * p + PageSize
    BY <1>1, Quotient
  <2> HIDE DEF p
  <2>3. 0 < PageSize * p + PageSize /\ PageSize * p < r
    <3>1. PageSize * p \in Nat
      BY <1>1, <2>2
    <3> QED
      BY <1>1, <2>2, <3>1
  <2> QED
    BY <1>1, <2>1, <2>2, <2>3, PageOf DEF Pages, p
<1>6. Touched(k) \subseteq Pages
  BY <1>3, <1>4, <1>5
<1>7. Touched(k) # {}
  <2>1. 0 \in Reads
    BY <1>1 DEF Reads
  <2> QED
    BY <1>3, <2>1
<1>8. IsFiniteSet(Touched(k))
  <2>1. 0 \in Nat /\ 0 < r
    BY <1>1
  <2>2. IsFiniteSet(Pages)
    BY <1>1, <2>1, PagesAreNumbers DEF Pages
  <2> QED
    BY <1>6, <2>2, FS_Subset
<1>9. ASSUME WholeChunks, NEW p \in Pages
      PROVE  p \in Touched(k) <=> u <= PageSize * p /\ PageSize * p < u + c
  <2>1. c % PageSize = 0
    BY <1>9 DEF WholeChunks
  <2>2. u % PageSize = 0
    <3>1. PICK q \in Nat : c = PageSize * q
      BY <1>1, <2>1, Multiple
    <3> DEFINE m == k * q
    <3>2. m \in Nat /\ u = PageSize * m
      <4>1. k * (PageSize * q) = PageSize * (k * q)
        BY <1>1
      <4> QED
        BY <3>1, <4>1 DEF u
    <3> HIDE DEF m
    <3> QED
      BY <1>1, <3>2, MultipleIs
  <2>3. p \in Nat /\ PageSize * p \in Nat
    <3>1. 0 \in Nat /\ 0 < r
      BY <1>1
    <3>2. p \in Nat
      BY <1>1, <3>1, PagesAreNumbers DEF Pages
    <3> QED
      BY <1>1, <3>2
  <2>4. ASSUME p \in Touched(k) PROVE u <= PageSize * p /\ PageSize * p < u + c
    <3>1. PICK off \in Reads : p = (u + off) \div PageSize
      BY <1>3, <2>4
    <3>2. off \in Nat /\ off < c /\ off % PageSize = 0
      BY <1>4
    <3>3. (u + off) % PageSize = 0 /\ u + off \in Nat
      <4>1. u \in Nat
        BY <1>2
      <4> HIDE DEF c, r
      <4>2. (u + off) % PageSize = 0
        BY <1>1, <2>2, <3>2, <4>1, MultipleSum
      <4> QED
        BY <3>2, <4>1, <4>2
    <3>4. PICK j \in Nat : u + off = PageSize * j
      BY <1>1, <3>3, Multiple
    <3> DEFINE x == u + off
    <3>5. x \div PageSize = j
      <4>1. PageSize * j <= x /\ x < PageSize * j + PageSize /\ x \in Nat
        BY <1>1, <3>3, <3>4
      <4> HIDE DEF x
      <4> QED
        BY <1>1, <4>1, QuotientIs
    <3>6. PageSize * p = u + off
      BY <3>1, <3>4, <3>5
    <3> QED
      BY <1>1, <1>2, <3>2, <3>6
  <2>5. ASSUME u <= PageSize * p, PageSize * p < u + c PROVE p \in Touched(k)
    <3> DEFINE x == PageSize * p
               off == x - u
    <3>1. x \in Nat /\ off \in 0..(c - 1) /\ u + off = x
      <4>1. x \in Nat /\ u <= x /\ x < u + c
        BY <2>3, <2>5
      <4> HIDE DEF x
      <4> QED
        BY <1>1, <1>2, <4>1
    <3>2. x % PageSize = 0
      BY <1>1, <2>3, MultipleIs
    <3>3. off % PageSize = 0
      <4>1. u <= x
        BY <2>5
      <4> HIDE DEF x
      <4> QED
        BY <1>1, <1>2, <2>2, <3>1, <3>2, <4>1, MultipleSum
    <3>4. x \div PageSize = p
      <4>1. PageSize * p <= x /\ x < PageSize * p + PageSize
        BY <1>1, <2>3
      <4> HIDE DEF x
      <4> QED
        BY <1>1, <2>3, <3>1, <4>1, QuotientIs
    <3>5. off \in Reads
      BY <3>1, <3>3 DEF Reads
    <3> QED
      BY <1>3, <3>1, <3>4, <3>5
  <2> QED
    BY <2>4, <2>5
<1> QED
  BY <1>2, <1>6, <1>7, <1>8, <1>9 DEF u

\* The pages of the region.
LEMMA PagesFacts ==
  ASSUME arg \in Arguments
  PROVE  /\ IsFiniteSet(Pages)
         /\ \A p \in Pages : p \in Nat /\ PageSize * p \in Nat /\ PageSize * p < arg.region_len
<1>1. PageSize \in Nat \ {0} /\ 0 \in Nat /\ arg.region_len \in Nat /\ 0 < arg.region_len
  BY ArgumentFacts
<1>2. Pages \subseteq Nat /\ IsFiniteSet(Pages)
  BY <1>1, PagesAreNumbers DEF Pages
<1>3. \A p \in Nat : p \in Pages => PageSize * p < arg.region_len
  BY <1>1, PageOf DEF Pages
<1>4. \A p \in Nat : PageSize * p \in Nat
  BY <1>1
<1> QED
  BY <1>2, <1>3, <1>4

\* Whole chunks fill the region.
LEMMA WholeFacts ==
  ASSUME arg \in Arguments, WholeChunks
  PROVE  LET n == arg.region_len \div arg.chunk_size IN
         /\ n \in Nat \ {0} /\ n * arg.chunk_size = arg.region_len
         /\ Length = n
         /\ Fits => n_chunks = n
<1> DEFINE c == arg.chunk_size
           r == arg.region_len
           n == r \div c
<1>1. c \in Nat \ {0} /\ r \in Nat \ {0} /\ UINT32 \in Nat \ {0} /\ PageSize \in Nat \ {0}
  BY ArgumentFacts
<1>2. c % PageSize = 0 /\ r % c = 0
  BY DEF WholeChunks
<1>3. \A a, b \in Nat \ {0} : a % b = 0 =>
        a \div b \in Nat \ {0} /\ b * (a \div b) = a /\ RoundedUp(a, b) = a \div b
  <2> TAKE a, b \in Nat \ {0}
  <2> HAVE a % b = 0
  <2>1. PICK m \in Nat : a = b * m
    BY Multiple
  <2>2. b * m <= a /\ a < b * m + b /\ b * m <= a + b - 1 /\ a + b - 1 < b * m + b /\ a + b - 1 \in Nat
    <3> DEFINE v == b * m
    <3>1. a = v
      BY <2>1
    <3> HIDE DEF v
    <3>2. v <= a /\ a < v + b /\ v <= a + b - 1 /\ a + b - 1 < v + b /\ a + b - 1 \in Nat
      BY <3>1
    <3> QED
      BY <3>2 DEF v
  <2>3. a \div b = m
    BY <2>2, QuotientIs
  <2>4. (a + b - 1) \div b = m
    BY <2>2, QuotientIs
  <2>5. m # 0
    BY <2>1
  <2> QED
    BY <2>1, <2>3, <2>4, <2>5 DEF RoundedUp
<1> HIDE DEF c, r
<1>4. n \in Nat \ {0} /\ c * n = r /\ RoundedUp(r, c) = n
  BY <1>1, <1>2, <1>3
<1>5. PageSize * RoundedUp(c, PageSize) = c
  BY <1>1, <1>2, <1>3
<1>6. Length = n
  <2>1. RoundedSize = c
    BY <1>5 DEF RoundedSize, c
  <2> QED
    BY <1>4, <2>1 DEF Length, r
<1> HIDE DEF n
<1>7. n * c = r
  BY <1>1, <1>4
<1>8. n < UINT32 => n % UINT32 = n
  <2> SUFFICES ASSUME n < UINT32 PROVE n % UINT32 = n
    OBVIOUS
  <2>1. n \in 0..(UINT32 - 1)
    BY <1>1, <1>4
  <2> QED
    BY <1>1, <2>1, ModSmall
<1> QED
  BY <1>4, <1>6, <1>7, <1>8 DEF n, r, c, Fits, n_chunks

\* The loops of the baseline.
LEMMA TouchLoops ==
  ASSUME ArmsTyped, BaselineTouch
  PROVE  /\ idx \in Nat /\ pass \in Nat /\ idx < n_chunks /\ pass < arg.n_passes /\ n_chunks \in Nat \ {0}
         /\ IF idx + 1 = n_chunks THEN idx' = 0 /\ pass' = pass + 1 ELSE idx' = idx + 1 /\ pass' = pass
         /\ at' = (IF pass' = arg.n_passes THEN "after" ELSE "touch")
         /\ idx' \in Nat /\ idx' < n_chunks /\ pass' \in 0..arg.n_passes
<1>1. arg \in Arguments /\ at = "touch"
  BY DEF ArmsTyped, BaselineTouch
<1>2. idx \in Nat /\ pass \in Nat /\ idx < n_chunks /\ pass < arg.n_passes /\ arg.n_passes \in Nat
  BY <1>1, ArgumentFacts DEF ArmsTyped, ArmsTypeOK
<1>3. n_chunks \in Nat \ {0}
  <2>1. n_chunks \in Nat
    BY <1>1, <1>2, BaselineChunk
  <2> QED
    BY <1>2, <2>1
<1>4. idx' = (idx + 1) % n_chunks /\ pass' = (IF idx + 1 = n_chunks THEN pass + 1 ELSE pass)
      /\ at' = (IF pass' = arg.n_passes THEN "after" ELSE "touch")
  BY DEF BaselineTouch, Advance, Label
<1> DEFINE n == n_chunks
<1>5. n \in Nat \ {0} /\ idx < n /\ idx' = (idx + 1) % n /\ pass' = (IF idx + 1 = n THEN pass + 1 ELSE pass)
  BY <1>2, <1>3, <1>4
<1> HIDE DEF n
<1>6. CASE idx + 1 = n
  <2>1. n % n = 0
    <3>1. n = n * 1 + 0 /\ 0 \in 0..(n - 1) /\ 1 \in Int
      BY <1>5
    <3>2. (n * 1 + 0) % n = 0
      BY <1>5, <3>1, ModUnique
    <3> QED
      BY <3>1, <3>2
  <2>2. idx' = 0 /\ pass' = pass + 1 /\ idx' < n /\ pass' \in 0..arg.n_passes
    BY <1>2, <1>5, <1>6, <2>1
  <2> QED
    BY <1>2, <1>4, <1>5, <1>6, <2>2 DEF n
<1>7. CASE idx + 1 # n
  <2>1. idx + 1 \in 0..(n - 1)
    BY <1>2, <1>5, <1>7
  <2>2. idx' = idx + 1 /\ pass' = pass /\ idx' < n /\ pass' \in 0..arg.n_passes
    <3>1. (idx + 1) % n = idx + 1
      BY <1>5, <2>1, ModSmall
    <3> QED
      BY <1>2, <1>5, <1>7, <2>1, <3>1
  <2> QED
    BY <1>2, <1>4, <1>5, <1>7, <2>2 DEF n
<1> QED
  BY <1>6, <1>7

\* What the baseline has counted goes on as its loops do.
LEMMA TouchCounts ==
  ASSUME ArmsTyped, WholeChunks, Fits, BaselineTouch, baseline = BaselineNow
  PROVE  /\ at' = "touch" => baseline' = BaselineNow'
         /\ at' = "after" => baseline' = AllRead(arg.n_passes)
<1>1. arg \in Arguments /\ [ArmsNext]_armsVars
  BY DEF ArmsTyped, ArmsNext
<1>2. arg' = arg /\ Pages' = Pages
  BY <1>1, ArgumentsStay
<1> DEFINE c == arg.chunk_size
           r == arg.region_len
           u == idx * c
           v == pass * r
           w == (pass + 1) * r
<1>3. c \in Nat \ {0} /\ r \in Nat \ {0} /\ PageSize \in Nat \ {0} /\ arg.n_passes \in Nat
  BY <1>1, ArgumentFacts
<1>4. /\ idx \in Nat /\ pass \in Nat /\ idx < n_chunks /\ pass < arg.n_passes /\ n_chunks \in Nat \ {0}
      /\ IF idx + 1 = n_chunks THEN idx' = 0 /\ pass' = pass + 1 ELSE idx' = idx + 1 /\ pass' = pass
      /\ at' = (IF pass' = arg.n_passes THEN "after" ELSE "touch")
  BY TouchLoops
<1>5. u \in Nat /\ (idx + 1) * c = u + c
  BY <1>1, <1>4, BaselineChunk
<1>6. v \in Nat /\ w = v + r
  <2>1. r * (pass + 1) = r * pass + r /\ r * pass \in Nat
    <3>1. r \in Nat /\ pass \in Nat /\ pass <= pass
      BY <1>3, <1>4
    <3> HIDE DEF r
    <3> QED
      BY <3>1, Product
  <2>2. r * pass = v /\ r * (pass + 1) = w
    BY <1>3, <1>4
  <2> QED
    BY <2>1, <2>2
<1>7. n_chunks * c = r
  BY <1>1, WholeFacts
<1>8. baseline = [bytes_touched |-> v + u,
                  reads |-> [p \in Pages |-> pass + (IF PageSize * p < u THEN 1 ELSE 0)]]
  BY DEF BaselineNow
<1>9. baseline' = [bytes_touched |-> baseline.bytes_touched + c,
                   reads |-> [p \in Pages |-> baseline.reads[p] + (IF p \in Touched(idx) THEN 1 ELSE 0)]]
  BY DEF BaselineTouch, Read
<1>10. \A p \in Pages : p \in Touched(idx) <=> u <= PageSize * p /\ PageSize * p < u + c
  <2>1. \A p \in Pages : p \in Touched(idx) <=> idx * c <= PageSize * p /\ PageSize * p < (idx + 1) * c
    BY <1>1, <1>4, TouchedFacts
  <2> QED
    BY <1>5, <2>1
<1>11. \A p \in Pages : p \in Nat /\ PageSize * p \in Nat /\ PageSize * p < r
  BY <1>1, PagesFacts
<1> HIDE DEF u, v, w, c, r
<1>12. baseline'.bytes_touched = (v + u) + c
  BY <1>8, <1>9
<1>13. \A p \in Pages : baseline'.reads[p] = pass + (IF PageSize * p < u + c THEN 1 ELSE 0)
  <2> TAKE p \in Pages
  <2> DEFINE x == PageSize * p
  <2>1. x \in Nat
    BY <1>11
  <2>2. baseline'.reads[p] = (pass + (IF x < u THEN 1 ELSE 0)) + (IF p \in Touched(idx) THEN 1 ELSE 0)
    BY <1>8, <1>9
  <2>3. p \in Touched(idx) <=> u <= x /\ x < u + c
    BY <1>10
  <2> HIDE DEF x
  <2>4. CASE x < u
    BY <1>3, <1>4, <1>5, <2>1, <2>2, <2>3, <2>4 DEF x
  <2>5. CASE u <= x
    BY <1>3, <1>4, <1>5, <2>1, <2>2, <2>3, <2>5 DEF x
  <2> QED
    BY <1>5, <2>1, <2>4, <2>5
<1>14. baseline' = [bytes_touched |-> (v + u) + c,
                    reads |-> [p \in Pages |-> pass + (IF PageSize * p < u + c THEN 1 ELSE 0)]]
  <2>1. baseline'.reads = [p \in Pages |-> pass + (IF PageSize * p < u + c THEN 1 ELSE 0)]
    BY <1>9, <1>13
  <2> QED
    BY <1>9, <1>12, <2>1
<1>15. BaselineNow' = [bytes_touched |-> pass' * r + idx' * c,
                       reads |-> [p \in Pages |-> pass' + (IF PageSize * p < idx' * c THEN 1 ELSE 0)]]
  BY <1>2 DEF BaselineNow, r, c
<1>16. CASE idx + 1 = n_chunks
  <2>1. u + c = r
    BY <1>5, <1>7, <1>16
  <2>2. (v + u) + c = w
    BY <1>3, <1>5, <1>6, <2>1
  <2>3. \A p \in Pages : PageSize * p < u + c
    BY <1>11, <2>1
  <2>4. [p \in Pages |-> pass + (IF PageSize * p < u + c THEN 1 ELSE 0)] = [p \in Pages |-> pass + 1]
    BY <2>3
  <2>5. baseline' = AllRead(pass + 1)
    BY <1>14, <2>2, <2>4 DEF AllRead, w, r
  <2>6. pass' * r + idx' * c = w
    <3>1. pass' * r = w /\ idx' * c = 0
      BY <1>3, <1>4, <1>16 DEF w
    <3>2. w \in Nat
      BY <1>3, <1>6
    <3> QED
      BY <3>1, <3>2
  <2>7. \A p \in Pages : ~ (PageSize * p < idx' * c)
    <3>1. idx' * c = 0
      BY <1>3, <1>4, <1>16
    <3> QED
      BY <1>11, <3>1
  <2>8. [p \in Pages |-> pass' + (IF PageSize * p < idx' * c THEN 1 ELSE 0)] = [p \in Pages |-> pass + 1]
    <3>1. \A p \in Pages : pass' + (IF PageSize * p < idx' * c THEN 1 ELSE 0) = pass + 1
      BY <1>4, <1>16, <2>7
    <3> QED
      BY <3>1
  <2>9. BaselineNow' = AllRead(pass + 1)
    BY <1>15, <2>6, <2>8 DEF AllRead, w, r
  <2> QED
    BY <1>4, <1>16, <2>5, <2>9
<1>17. CASE idx + 1 # n_chunks
  <2>1. idx' * c = u + c /\ pass' = pass
    BY <1>4, <1>5, <1>17
  <2>2. v + (u + c) = (v + u) + c
    BY <1>3, <1>5, <1>6
  <2>3. pass' * r + idx' * c = (v + u) + c
    BY <2>1, <2>2 DEF v
  <2>4. BaselineNow' = baseline'
    BY <1>14, <1>15, <2>1, <2>3
  <2>5. at' # "after"
    BY <1>3, <1>4, <2>1
  <2> QED
    BY <2>4, <2>5
<1> QED
  BY <1>16, <1>17

-----------------------------------------------------------------------------
(* The two programs *)

ArmsInv == ArmsTyped /\ ReplayInv /\ BaselineInv /\ ColdInv

\* A step of neither the loops nor the counters.
LEMMA CountersStay ==
  ASSUME ArmsInv, [ArmsNext]_armsVars, UNCHANGED <<baseline, replay>>, pass' = pass, idx' = idx,
         \/ at' = at /\ at \notin {"replay", "done"}
         \/ at = "open" /\ at' \in {"refused", "advise"}
         \/ at = "advise" /\ at' = "before"
         \/ at = "after" /\ at' \in {"refused", "reported"}
  PROVE  ReplayInv' /\ BaselineInv'
<1>1. arg \in Arguments
  BY DEF ArmsInv, ArmsTyped
<1>2. arg' = arg /\ Pages' = Pages /\ Length' = Length
  BY <1>1, ArgumentsStay
<1>3. Counters' = Counters /\ BaselineNow' = BaselineNow /\ (\A n : AllRead(n)' = AllRead(n))
  BY <1>2 DEF Counters, BaselineNow, AllRead
<1>4. WholeChunks' = WholeChunks /\ Fits' = Fits
  BY <1>2 DEF WholeChunks, Fits
<1>5. at' \notin {"replay", "done"} /\ at \notin {"replay", "done"}
  OBVIOUS
<1>6. ReplayInv'
  BY <1>2, <1>3, <1>5 DEF ReplayInv, ArmsInv
<1>7. at' \in {"open", "advise", "before"} => at \in {"open", "advise", "before"}
  OBVIOUS
<1>8. at' = "touch" => at = "touch"
  OBVIOUS
<1>9. at' \in {"after", "reported", "aborted", "replay", "done"} => at \in {"after", "reported", "aborted", "replay", "done"}
  OBVIOUS
<1>10. BaselineInv'
  BY <1>2, <1>3, <1>4, <1>7, <1>8, <1>9 DEF BaselineInv, ArmsInv
<1> QED
  BY <1>6, <1>10

LEMMA OpenKeeps ==
  ASSUME ArmsInv, Open
  PROVE  ArmsInv'
<1>1. [ArmsNext]_armsVars /\ arg \in Arguments
  BY DEF ArmsNext, ArmsInv, ArmsTyped
<1>2. /\ arg' = arg /\ Pages' = Pages /\ replay_threads' = replay_threads
      /\ at = "open" /\ at' = (IF arg.file_len < arg.region_len THEN "refused" ELSE "advise")
      /\ UNCHANGED <<pass, idx, cached, io, io_before, baseline, replay, todo>>
  BY <1>1, ArgumentsStay DEF Open, Label, loopVars, ioVars
<1>3. ArmsTyped'
  BY <1>2 DEF ArmsInv, ArmsTyped, ArmsTypeOK
<1>4. ColdInv'
  BY <1>2 DEF ArmsInv, ColdInv, Cold
<1>5. ReplayInv' /\ BaselineInv'
  BY <1>1, <1>2, CountersStay
<1> QED
  BY <1>3, <1>4, <1>5 DEF ArmsInv

LEMMA AdviseKeeps ==
  ASSUME ArmsInv, Advise
  PROVE  ArmsInv'
<1>1. [ArmsNext]_armsVars /\ arg \in Arguments
  BY DEF ArmsNext, ArmsInv, ArmsTyped
<1>2. /\ arg' = arg /\ Pages' = Pages /\ replay_threads' = replay_threads
      /\ at = "advise" /\ at' = "before"
      /\ UNCHANGED <<pass, idx, io_before, baseline, replay, todo>>
  BY <1>1, ArgumentsStay DEF Advise, Label, loopVars
<1>3. PICK last \in Pages \cup {-1} :
        LET ahead == {p \in Pages : p <= last} \ cached IN
        /\ last # -1 => arg.hints
        /\ cached' = cached \cup ahead
        /\ io' = io + PageSize * Cardinality(ahead)
  BY DEF Advise
<1> DEFINE ahead == {p \in Pages : p <= last} \ cached
           n == Cardinality(ahead)
<1>4. IsFiniteSet(Pages) /\ (\A p \in Pages : p \in Nat) /\ PageSize \in Nat
  BY <1>1, PagesFacts, ArgumentFacts
<1>5. n \in Nat /\ ahead \subseteq Pages
  <2>1. ahead \subseteq Pages
    OBVIOUS
  <2>2. IsFiniteSet(ahead)
    <3> HIDE DEF ahead
    <3> QED
      BY <1>4, <2>1, FS_Subset
  <2> HIDE DEF ahead
  <2> QED
    BY <2>1, <2>2, FS_CardinalityType
<1>6. ~ arg.hints => ahead = {}
  BY <1>3, <1>4
<1>7. cached' = cached \cup ahead /\ io' = io + PageSize * n
  BY <1>3
<1> HIDE DEF ahead, n
<1>8. io \in Nat /\ io_before \in Nat /\ io_before <= io /\ cached \subseteq Pages
  BY DEF ArmsInv, ArmsTyped, ArmsTypeOK
<1>9. io' \in Nat /\ io_before <= io' /\ cached' \subseteq Pages
  <2>1. PageSize * n \in Nat
    BY <1>4, <1>5
  <2> QED
    BY <1>5, <1>7, <1>8, <2>1
<1>10. ArmsTyped'
  BY <1>2, <1>8, <1>9 DEF ArmsInv, ArmsTyped, ArmsTypeOK
<1>11. ColdInv'
  BY <1>2, <1>6, <1>7 DEF ArmsInv, ColdInv, Cold
<1>12. ReplayInv' /\ BaselineInv'
  BY <1>1, <1>2, CountersStay
<1> QED
  BY <1>10, <1>11, <1>12 DEF ArmsInv

LEMMA ReclaimKeeps ==
  ASSUME ArmsInv, NEW p \in Pages, Reclaim(p)
  PROVE  ArmsInv'
<1>1. [ArmsNext]_armsVars /\ arg \in Arguments
  BY DEF ArmsNext, ArmsInv, ArmsTyped
<1>2. /\ arg' = arg /\ Pages' = Pages /\ replay_threads' = replay_threads /\ n_chunks' = n_chunks
      /\ at \in {"before", "touch"} /\ at' = at /\ p \in cached /\ cached' = cached \ {p}
      /\ UNCHANGED <<pass, idx, io, io_before, baseline, replay, todo>>
  BY <1>1, ArgumentsStay DEF Reclaim, loopVars
<1>3. ArmsTyped'
  BY <1>2 DEF ArmsInv, ArmsTyped, ArmsTypeOK
<1>4. ColdInv'
  BY <1>2 DEF ArmsInv, ColdInv, Cold
<1>5. ReplayInv' /\ BaselineInv'
  BY <1>1, <1>2, CountersStay
<1> QED
  BY <1>3, <1>4, <1>5 DEF ArmsInv

LEMMA AfterKeeps ==
  ASSUME ArmsInv, After
  PROVE  ArmsInv'
<1>1. [ArmsNext]_armsVars /\ arg \in Arguments
  BY DEF ArmsNext, ArmsInv, ArmsTyped
<1>2. /\ arg' = arg /\ Pages' = Pages /\ replay_threads' = replay_threads
      /\ at = "after" /\ at' = (IF arg.proc_io /\ NothingRead THEN "refused" ELSE "reported")
      /\ UNCHANGED <<pass, idx, cached, io, io_before, baseline, replay, todo>>
  BY <1>1, ArgumentsStay DEF After, Label, loopVars, ioVars
<1>3. ArmsTyped'
  BY <1>2 DEF ArmsInv, ArmsTyped, ArmsTypeOK
<1>4. NothingRead => ~ Cold
  <2> SUFFICES ASSUME NothingRead, Cold PROVE FALSE
    OBVIOUS
  <2>1. io - io_before = 0 /\ baseline.bytes_touched > 0 /\ io \in Nat /\ io_before \in Nat
    BY DEF NothingRead, ArmsInv, ArmsTyped
  <2>2. baseline.bytes_touched = 0 \/ io > io_before
    BY <1>2 DEF ArmsInv, ColdInv
  <2>3. CASE baseline.bytes_touched = 0
    <3>1. 0 > 0
      BY <2>1, <2>3
    <3> QED
      BY <3>1
  <2>4. CASE io > io_before
    BY <2>1, <2>4
  <2> QED
    BY <2>2, <2>3, <2>4
<1>5. ColdInv'
  BY <1>2, <1>4 DEF ArmsInv, ColdInv, Cold
<1>6. ReplayInv' /\ BaselineInv'
  BY <1>1, <1>2, CountersStay
<1> QED
  BY <1>3, <1>5, <1>6 DEF ArmsInv

LEMMA BeforeKeeps ==
  ASSUME ArmsInv, Before
  PROVE  ArmsInv'
<1>1. [ArmsNext]_armsVars /\ arg \in Arguments
  BY DEF ArmsNext, ArmsInv, ArmsTyped
<1>2. /\ arg' = arg /\ Pages' = Pages /\ replay_threads' = replay_threads /\ n_chunks' = n_chunks /\ Length' = Length
      /\ at = "before" /\ at' = (IF n_chunks = 0 \/ arg.n_passes = 0 THEN "after" ELSE "touch")
      /\ io_before' = io
      /\ UNCHANGED <<pass, idx, cached, io, baseline, replay, todo>>
  BY <1>1, ArgumentsStay DEF Before, Label, loopVars
<1>3. /\ pass = 0 /\ idx = 0 /\ baseline = Counters /\ replay = Counters
      /\ io \in Nat /\ cached \subseteq Pages /\ todo \subseteq replay_threads
  BY <1>2 DEF ArmsInv, BaselineInv, ReplayInv, ArmsTyped, ArmsTypeOK
<1>4. arg.n_passes \in Nat /\ arg.region_len \in Nat \ {0} /\ arg.chunk_size \in Nat \ {0} /\ UINT32 \in Nat \ {0}
  BY <1>1, ArgumentFacts
<1>5. n_chunks \in Nat
  <2> DEFINE n == arg.region_len \div arg.chunk_size
  <2>1. n \in Nat
    BY <1>4, Quotient
  <2> HIDE DEF n
  <2>2. n % UINT32 \in Nat
    BY <1>4, <2>1, DivMod
  <2> QED
    BY <2>2 DEF n_chunks, n
<1>6. ArmsTyped'
  <2>1. at' = "touch" => idx' < n_chunks' /\ pass' < arg'.n_passes
    BY <1>2, <1>3, <1>4, <1>5
  <2>2. pass' \in 0..arg'.n_passes /\ idx' \in Nat /\ 0 <= io_before' /\ io_before' <= io'
    BY <1>2, <1>3, <1>4
  <2>3. at' \in {"after", "touch"}
    BY <1>2
  <2> QED
    BY <1>1, <1>2, <1>3, <2>1, <2>2, <2>3 DEF ArmsTyped, ArmsTypeOK
<1>7. ColdInv'
  <2>1. baseline'.bytes_touched = 0
    BY <1>2, <1>3 DEF Counters
  <2> QED
    BY <1>2, <2>1 DEF ArmsInv, ColdInv, Cold
<1>8. ReplayInv'
  BY <1>2, <1>3 DEF ReplayInv, Counters
<1>9. ASSUME WholeChunks', Fits'
      PROVE  /\ at' = "touch" => baseline' = BaselineNow'
             /\ at' = "after" => baseline' = AllRead(arg.n_passes)'
  <2>1. WholeChunks /\ Fits
    BY <1>2, <1>9 DEF WholeChunks, Fits
  <2>2. n_chunks # 0
    <3> DEFINE n == arg.region_len \div arg.chunk_size
    <3>1. n \in Nat \ {0} /\ n_chunks = n
      BY <1>1, <2>1, WholeFacts
    <3> QED
      BY <3>1
  <2>3. \A p \in Pages : p \in Nat /\ PageSize * p \in Nat
    BY <1>1, PagesFacts
  <2>4. at' = "touch" => baseline' = BaselineNow'
    <3>1. BaselineNow' = [bytes_touched |-> 0 * arg.region_len + 0 * arg.chunk_size,
                          reads |-> [p \in Pages |-> 0 + (IF PageSize * p < 0 * arg.chunk_size THEN 1 ELSE 0)]]
      BY <1>2, <1>3 DEF BaselineNow
    <3>2. 0 * arg.region_len + 0 * arg.chunk_size = 0 /\ 0 * arg.chunk_size = 0
      BY <1>4
    <3>3. \A p \in Pages : 0 + (IF PageSize * p < 0 * arg.chunk_size THEN 1 ELSE 0) = 0
      BY <2>3, <3>2
    <3>4. [p \in Pages |-> 0 + (IF PageSize * p < 0 * arg.chunk_size THEN 1 ELSE 0)] = [p \in Pages |-> 0]
      BY <3>3
    <3>5. BaselineNow' = Counters
      BY <3>1, <3>2, <3>4 DEF Counters
    <3> QED
      BY <1>2, <1>3, <3>5
  <2>5. at' = "after" => baseline' = AllRead(arg.n_passes)'
    <3>1. at' = "after" => arg.n_passes = 0
      BY <1>2, <2>2
    <3>2. AllRead(0) = Counters
      BY <1>4 DEF AllRead, Counters
    <3>3. \A n : AllRead(n)' = AllRead(n)
      BY <1>2 DEF AllRead
    <3> QED
      BY <1>2, <1>3, <3>1, <3>2, <3>3
  <2> QED
    BY <2>4, <2>5
<1>10. BaselineInv'
  <2>1. at' \in {"after", "touch"}
    BY <1>2
  <2> QED
    BY <1>9, <2>1 DEF BaselineInv
<1> QED
  BY <1>6, <1>7, <1>8, <1>10 DEF ArmsInv

LEMMA BaselineTouchKeeps ==
  ASSUME ArmsInv, BaselineTouch
  PROVE  ArmsInv'
<1>1. [ArmsNext]_armsVars /\ arg \in Arguments /\ ArmsTyped /\ at = "touch"
  BY DEF ArmsNext, ArmsInv, ArmsTyped, BaselineTouch
<1>2. /\ arg' = arg /\ Pages' = Pages /\ replay_threads' = replay_threads /\ n_chunks' = n_chunks /\ Length' = Length
      /\ UNCHANGED <<io_before, replay, todo>>
      /\ io' = io + PageSize * Cardinality(Touched(idx) \ cached)
      /\ cached' = (cached \cup Touched(idx)) \ PagedOut
  BY <1>1, ArgumentsStay DEF BaselineTouch
<1>3. /\ idx \in Nat /\ pass \in Nat /\ idx < n_chunks /\ pass < arg.n_passes /\ n_chunks \in Nat \ {0}
      /\ IF idx + 1 = n_chunks THEN idx' = 0 /\ pass' = pass + 1 ELSE idx' = idx + 1 /\ pass' = pass
      /\ at' = (IF pass' = arg.n_passes THEN "after" ELSE "touch")
      /\ idx' \in Nat /\ idx' < n_chunks /\ pass' \in 0..arg.n_passes
  BY <1>1, TouchLoops
<1>4. /\ io \in Nat /\ io_before \in Nat /\ io_before <= io /\ cached \subseteq Pages /\ todo \subseteq replay_threads
      /\ arg.n_passes \in Nat /\ PageSize \in Nat \ {0}
  BY <1>1, ArgumentFacts DEF ArmsTyped, ArmsTypeOK
<1>5. Touched(idx) \subseteq Pages /\ Touched(idx) # {} /\ IsFiniteSet(Touched(idx))
  BY <1>1, <1>3, TouchedFacts
<1> DEFINE new == Touched(idx) \ cached
           n == Cardinality(new)
<1>6. n \in Nat /\ (cached = {} => n # 0)
  <2>1. IsFiniteSet(new)
    BY <1>5, FS_Subset
  <2>2. cached = {} => new # {}
    BY <1>5
  <2> HIDE DEF new
  <2> QED
    BY <2>1, <2>2, FS_CardinalityType, FS_EmptySet
<1> HIDE DEF n
<1>7. PageSize * n \in Nat /\ (cached = {} => PageSize * n > 0)
  <2>1. PageSize * n \in Nat
    BY <1>4, <1>6
  <2>2. n # 0 => PageSize * n > 0
    BY <1>4, <1>6
  <2> QED
    BY <1>6, <2>1, <2>2
<1>8. io' \in Nat /\ io <= io' /\ (cached = {} => io < io')
  <2>1. io' = io + PageSize * n
    BY <1>2 DEF n
  <2> DEFINE d == PageSize * n
  <2>2. d \in Nat /\ io' = io + d /\ (cached = {} => d > 0)
    BY <1>7, <2>1
  <2> HIDE DEF d
  <2> QED
    BY <1>4, <2>2
<1>9. at' \in {"after", "touch"} /\ (at' = "touch" => pass' < arg.n_passes)
  BY <1>3, <1>4
<1>10. ArmsTyped'
  <2>1. cached' \subseteq Pages
    BY <1>2, <1>4, <1>5
  <2>2. 0 <= io_before' /\ io_before' <= io' /\ io_before' \in Nat
    BY <1>2, <1>4, <1>8
  <2> QED
    BY <1>1, <1>2, <1>3, <1>4, <1>8, <1>9, <2>1, <2>2 DEF ArmsTyped, ArmsTypeOK
<1>11. ColdInv'
  <2>1. Cold' = Cold
    BY <1>2 DEF Cold
  <2>2. Cold => (cached = {} \/ io > io_before)
    BY <1>1 DEF ArmsInv, ColdInv
  <2>3. Cold => io' > io_before'
    BY <1>2, <1>4, <1>8, <2>2
  <2> QED
    BY <1>9, <2>1, <2>3 DEF ColdInv
<1>12. ReplayInv'
  <2>1. replay = Counters /\ Counters' = Counters
    BY <1>1, <1>2 DEF ArmsInv, ReplayInv, Counters
  <2> QED
    BY <1>2, <1>9, <2>1 DEF ReplayInv
<1>13. BaselineInv'
  <2>1. ASSUME WholeChunks', Fits'
        PROVE  /\ at' = "touch" => baseline' = BaselineNow'
               /\ at' = "after" => baseline' = AllRead(arg.n_passes)'
    <3>1. WholeChunks /\ Fits
      BY <1>2, <2>1 DEF WholeChunks, Fits
    <3>2. baseline = BaselineNow
      BY <1>1, <3>1 DEF ArmsInv, BaselineInv
    <3>3. /\ at' = "touch" => baseline' = BaselineNow'
          /\ at' = "after" => baseline' = AllRead(arg.n_passes)
      BY <1>1, <3>1, <3>2, TouchCounts
    <3>4. \A m : AllRead(m)' = AllRead(m)
      BY <1>2 DEF AllRead
    <3> QED
      BY <1>2, <3>3, <3>4
  <2> QED
    BY <1>9, <2>1 DEF BaselineInv
<1> QED
  BY <1>10, <1>11, <1>12, <1>13 DEF ArmsInv

\* The counters of the baseline stay while the replay runs.
LEMMA BaselineStays ==
  ASSUME ArmsInv, [ArmsNext]_armsVars, baseline' = baseline,
         at \in {"reported", "replay"}, at' \in {"aborted", "replay", "done"}
  PROVE  BaselineInv' /\ ColdInv'
<1>1. arg \in Arguments
  BY DEF ArmsInv, ArmsTyped
<1>2. arg' = arg /\ Pages' = Pages
  BY <1>1, ArgumentsStay
<1>3. WholeChunks' = WholeChunks /\ Fits' = Fits /\ (\A n : AllRead(n)' = AllRead(n))
  BY <1>2 DEF WholeChunks, Fits, AllRead
<1> QED
  BY <1>2, <1>3 DEF ArmsInv, BaselineInv, ColdInv

LEMMA ReplayStepsKeep ==
  ASSUME ArmsInv, \/ StartReplay \/ (\E tid \in replay_threads : ReadStride(tid)) \/ EndStep
  PROVE  ArmsInv'
<1>1. [ArmsNext]_armsVars /\ arg \in Arguments /\ ArmsTyped /\ ReplayInv
  BY DEF ArmsNext, ArmsInv, ArmsTyped
<1>2. arg' = arg /\ Pages' = Pages /\ replay_threads' = replay_threads /\ Length' = Length /\ RoundedSize' = RoundedSize
  BY <1>1, ArgumentsStay
<1>3. arg.n_passes \in Nat /\ Length \in Nat \ {0}
  BY <1>1, ArgumentFacts, StepsFacts
<1>4. UNCHANGED <<baseline, cached, io, io_before>> /\ at \in {"reported", "replay"}
  BY DEF StartReplay, ReadStride, EndStep, ioVars
<1>5. at' \in {"aborted", "replay", "done"} /\ todo' \subseteq replay_threads
  <2>1. CASE StartReplay
    BY <2>1 DEF StartReplay, Label
  <2>2. CASE \E tid \in replay_threads : ReadStride(tid)
    BY <1>1, <2>2 DEF ReadStride, ArmsTyped, ArmsTypeOK
  <2>3. CASE EndStep
    BY <2>3 DEF EndStep, Label
  <2> QED
    BY <2>1, <2>2, <2>3
<1>6. ReplayInv' /\ (at' = "replay" => idx' \in 0..(Length - 1)) /\ pass' \in 0..arg.n_passes /\ idx' \in Nat
  <2>1. CASE StartReplay
    <3>1. pass' = 0 /\ idx' = 0
      BY <2>1 DEF StartReplay, Rewind
    <3> QED
      BY <1>1, <1>3, <2>1, <3>1, StartReplayKeeps
  <2>2. CASE \E tid \in replay_threads : ReadStride(tid)
    <3>1. ReplayInv'
      BY <1>1, <2>2, ReadStrideKeeps
    <3>2. at = "replay" /\ idx' = idx /\ pass' = pass
      BY <2>2 DEF ReadStride, loopVars
    <3> QED
      BY <1>1, <1>3, <3>1, <3>2 DEF ArmsTyped, ArmsTypeOK
  <2>3. CASE EndStep
    BY <1>1, <2>3, EndStepKeeps
  <2> QED
    BY <2>1, <2>2, <2>3
<1>7. at' = "replay" => idx' < Length' /\ LenOf(idx)' > 0
  <2> SUFFICES ASSUME at' = "replay" PROVE idx' < Length' /\ LenOf(idx)' > 0
    OBVIOUS
  <2>1. idx' \in 0..(Length - 1)
    BY <1>6
  <2>2. LenOf(idx') \in Nat \ {0}
    BY <1>1, <2>1, ReplayChunk
  <2>3. LenOf(idx)' = LenOf(idx')
    BY <1>2 DEF LenOf, Start
  <2> QED
    BY <1>2, <1>3, <2>1, <2>2, <2>3
<1>8. ArmsTyped'
  <2>1. /\ io \in Nat /\ io_before \in Nat /\ cached \subseteq Pages
        /\ 0 <= io_before /\ io_before <= io
    BY <1>1 DEF ArmsTyped, ArmsTypeOK
  <2> QED
    BY <1>1, <1>2, <1>4, <1>5, <1>6, <1>7, <2>1 DEF ArmsTyped, ArmsTypeOK
<1>9. BaselineInv' /\ ColdInv'
  BY <1>1, <1>4, <1>5, BaselineStays
<1> QED
  BY <1>6, <1>8, <1>9 DEF ArmsInv

\* Each step of the two programs keeps their invariant.
LEMMA ArmsNextKeeps ==
  ASSUME ArmsInv, [ArmsNext]_armsVars
  PROVE  ArmsInv'
<1>1. CASE UNCHANGED armsVars
  <2>1. /\ arg' = arg /\ at' = at /\ pass' = pass /\ idx' = idx /\ cached' = cached /\ io' = io
        /\ io_before' = io_before /\ baseline' = baseline /\ replay' = replay /\ todo' = todo
    BY <1>1 DEF armsVars, loopVars, ioVars
  <2>2. Pages' = Pages /\ RoundedSize' = RoundedSize /\ Length' = Length /\ Steps' = Steps /\ AllSteps' = AllSteps
        /\ n_chunks' = n_chunks /\ replay_threads' = replay_threads
    BY <2>1 DEF Pages, PagesOf, Length, RoundedUp, RoundedSize, Steps, AllSteps, n_chunks, replay_threads
  <2>3. Start(idx)' = Start(idx) /\ LenOf(idx)' = LenOf(idx)
    BY <2>1, <2>2 DEF Start, LenOf
  <2>4. ReplayPages' = ReplayPages /\ page_bytes' = page_bytes /\ Through' = Through
    <3>1. ReplayPages' = ReplayPages
      BY <2>3 DEF ReplayPages, PagesOf
    <3> QED
      BY <2>1, <2>2, <2>3, <3>1 DEF page_bytes, Through, Mine
  <2>5. Counters' = Counters /\ BaselineNow' = BaselineNow /\ ReplayNow' = ReplayNow
    BY <2>1, <2>2, <2>3, <2>4 DEF Counters, BaselineNow, ReplayNow
  <2>6. \A n : AllRead(n)' = AllRead(n)
    BY <2>1, <2>2 DEF AllRead
  <2>7. WholeChunks' = WholeChunks /\ Fits' = Fits /\ EveryStep' = EveryStep /\ Cold' = Cold
    BY <2>1, <2>2 DEF WholeChunks, Fits, EveryStep, Cold
  <2>8. ArmsTyped'
    BY <2>1, <2>2, <2>3 DEF ArmsInv, ArmsTyped, ArmsTypeOK
  <2>9. ReplayInv'
    BY <2>1, <2>2, <2>5, <2>6, <2>7 DEF ArmsInv, ReplayInv
  <2>10. BaselineInv' /\ ColdInv'
    BY <2>1, <2>5, <2>6, <2>7 DEF ArmsInv, BaselineInv, ColdInv
  <2> QED
    BY <2>8, <2>9, <2>10 DEF ArmsInv
<1>2. CASE Open
  BY <1>2, OpenKeeps
<1>3. CASE Advise
  BY <1>3, AdviseKeeps
<1>4. CASE Before
  BY <1>4, BeforeKeeps
<1>5. CASE BaselineTouch
  BY <1>5, BaselineTouchKeeps
<1>6. CASE After
  BY <1>6, AfterKeeps
<1>7. CASE \E p \in Pages : Reclaim(p)
  BY <1>7, ReclaimKeeps
<1>8. CASE StartReplay \/ (\E tid \in replay_threads : ReadStride(tid)) \/ EndStep
  BY <1>8, ReplayStepsKeep
<1> QED
  BY <1>1, <1>2, <1>3, <1>4, <1>5, <1>6, <1>7, <1>8 DEF ArmsNext

LEMMA ArmsInitKeeps ==
  ASSUME ArmsInit
  PROVE  ArmsInv
<1>1. arg \in Arguments /\ arg.n_passes \in Nat
  BY ArgumentFacts DEF ArmsInit
<1>2. ArmsTyped
  BY <1>1 DEF ArmsInit, ArmsTyped, ArmsTypeOK
<1>3. ReplayInv /\ BaselineInv
  BY DEF ArmsInit, ReplayInv, BaselineInv
<1>4. ColdInv
  BY DEF ArmsInit, ColdInv, Cold
<1> QED
  BY <1>2, <1>3, <1>4 DEF ArmsInv

\* Both programs keep their loops, their counters and the page cache in step.
THEOREM ArmsInvariance == ArmsSpec => []ArmsInv
BY ArmsInitKeeps, ArmsNextKeeps, PTL DEF ArmsSpec

LEMMA ReadsFollow ==
  ASSUME ArmsInv
  PROVE  ReplayReadsAllOnce
<1>1. arg \in Arguments /\ ArmsTypeOK /\ ReplayInv
  BY DEF ArmsInv, ArmsTyped
<1>2. ASSUME at = "replay", todo = replay_threads
      PROVE  /\ \A p \in Pages : replay.reads[p] = pass + (IF p < Start(idx) \div PageSize THEN 1 ELSE 0)
             /\ replay.bytes_touched = pass * arg.region_len + Start(idx)
  <2>1. Length \in Nat /\ arg.region_len \in Nat /\ arg.n_passes \in Nat
    BY <1>1, StepsFacts, ArgumentFacts
  <2>2. idx \in 0..(Length - 1) /\ pass \in Nat
    BY <1>1, <1>2, <2>1 DEF ArmsTypeOK
  <2>3. Through = {}
    BY <1>1, <1>2, <2>2, ThroughGrows DEF ArmsTypeOK
  <2>4. replay = ReplayNow /\ ByteCount(page_bytes, Through) = 0
    BY <1>1, <1>2, <2>3, ByteCountEmpty DEF ReplayInv
  <2>5. (pass * arg.region_len + Start(idx)) + 0 = pass * arg.region_len + Start(idx)
    <3>1. Start(idx) \in Nat
      BY <1>1, <2>2, ReplayChunk
    <3> DEFINE v == pass * arg.region_len
    <3>2. v \in Nat
      BY <2>1, <2>2
    <3> HIDE DEF v
    <3>3. (v + Start(idx)) + 0 = v + Start(idx)
      BY <3>1, <3>2
    <3> QED
      BY <3>3 DEF v
  <2> QED
    BY <2>3, <2>4, <2>5 DEF ReplayNow
<1>3. ASSUME at = "done", EveryStep
      PROVE  /\ \A p \in Pages : replay.reads[p] = arg.n_passes
             /\ replay.bytes_touched = arg.n_passes * arg.region_len
  BY <1>1, <1>3 DEF ReplayInv, AllRead
<1> QED
  BY <1>1, <1>2, <1>3 DEF ReplayReadsAllOnce

\* However many threads share the pages of a chunk, whatever the length of the
\* chunks, and in whatever order the threads read: every page is read once a pass,
\* and the bytes computed over are those of the chunks (replay.c:302).
THEOREM ReplayIsExact == ArmsSpec => []ReplayReadsAllOnce
BY ArmsInvariance, ReadsFollow, PTL

LEMMA ComparableFollows ==
  ASSUME ArmsInv
  PROVE  ArmsComparable
<1>1. arg \in Arguments /\ ReplayInv /\ BaselineInv /\ ColdInv
  BY DEF ArmsInv, ArmsTyped
<1>2. ASSUME at = "done", WholeChunks, EveryStep PROVE baseline = replay
  <2>1. Length < UINT32 /\ replay = AllRead(arg.n_passes)
    BY <1>1, <1>2 DEF ReplayInv
  <2>2. Fits
    BY <1>1, <1>2, <2>1, WholeFacts DEF Fits
  <2> QED
    BY <1>1, <1>2, <2>1, <2>2 DEF BaselineInv
<1>3. ASSUME at = "refused", arg.file_len >= arg.region_len, ~ arg.hints PROVE arg.stale
  <2>1. arg.file_len \in Nat /\ arg.region_len \in Nat
    BY <1>1, ArgumentFacts
  <2> QED
    BY <1>1, <1>3, <2>1 DEF ColdInv, Cold
<1> QED
  BY <1>2, <1>3 DEF ArmsComparable

\* The arms of an experiment do comparable work on whole chunks, and a baseline
\* without hints refuses to report only on a page cache that nobody had dropped.
THEOREM ArmsAreComparable == ArmsSpec => []ArmsComparable
BY ArmsInvariance, ComparableFollows, PTL

=============================================================================

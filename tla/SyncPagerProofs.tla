-------------------------- MODULE SyncPagerProofs ---------------------------
(***************************************************************************)
(* Proofs that the single-threaded handler of SyncPager leaks nothing, can *)
(* always make room, keeps the promise of Residency, and by prefetching    *)
(* displaces nothing it need not: for any number of chunks of any length,  *)
(* any budget, any passes and every policy.                                *)
(***************************************************************************)
EXTENDS SyncPagerInvariant, PolicyProofs

USE DEF vars, fixedVars, declVars, learnVars, chunkVars, budgetVars, HandlerAt,
        HandlerGoes, DriverGoes

-----------------------------------------------------------------------------
(* Types *)

\* TypeOK, without what follows from the other parts of the invariant.
Shape ==
  /\ PolicyTypeOK /\ setup \in Setups
  /\ state \in [Chunks -> {"ABSENT", "FETCHING", "RESIDENT"}]
  /\ pin \in [Chunks -> Int]
  /\ message \in Chunks \cup {NoChunk}
  /\ fault_seq \in Nat
  /\ driver.touch <= n_touches

Parts ==
  /\ Shape /\ LocalsSet /\ StagesMatch /\ MappedExact /\ RetentionSound
  /\ PinsOwned /\ AccountsInv /\ MessageHonest

LEMMA Table ==
  /\ n_chunks \in Nat \ {0} /\ Chunks \subseteq Nat /\ NoChunk \notin Chunks
  /\ NoChunk \in Int /\ IsFiniteSet(Chunks)
<1>1. n_chunks \in Nat \ {0}
  BY PolicyAssumption
<1>2. 0 \in Int /\ n_chunks - 1 \in Int
  BY <1>1
<1>3. IsFiniteSet(Chunks)
  BY <1>2, FS_Interval DEF Chunks
<1> QED
  BY <1>1, <1>3 DEF Chunks, NoChunk

LEMMA Region ==
  ASSUME setup \in Setups
  PROVE  /\ ChunkLen \in [Chunks -> Nat] /\ budget_bytes \in Nat /\ n_passes \in Nat
         /\ prefetch_enabled \in BOOLEAN /\ prefetch_retention_pinned \in BOOLEAN
         /\ \A c \in Chunks : ChunkLen[c] > 0
BY SetupsAssumption DEF SetupType, ChunkLen, budget_bytes, n_passes, prefetch_enabled,
                        prefetch_retention_pinned

LEMMA TouchedInTable ==
  ASSUME driver.touch \in Nat
  PROVE  touched \in Chunks
<1>1. n_chunks \in Nat \ {0}
  BY Table
<1> QED
  BY <1>1 DEF touched, Chunks

\* The retention queue is empty or holds one chunk.
LEMMA OneRetained ==
  ASSUME RetentionSound
  PROVE  \/ retained = <<>> /\ Range(retained) = {} /\ Len(retained) = 0
         \/ \E c \in Held \ {handler.chunk} :
              retained = <<c>> /\ Range(retained) = {c} /\ Len(retained) = 1 /\ Head(retained) = c
BY DEF RetentionSound, Range

-----------------------------------------------------------------------------
(* Bytes *)

LEMMA Counted == \A S : BytesOf(S) = ByteCount(ChunkLen, S)
BY DEF BytesOf, ByteCount, BytesIn

LEMMA CountedNext == \A S : (BytesOf(S))' = ByteCount(ChunkLen', S')
BY DEF BytesOf, ByteCount, BytesIn

-----------------------------------------------------------------------------
(* What the steps do *)

LEMMA WakeEffect ==
  ASSUME NEW c, Wake(c)
  PROVE  \/ /\ Faulting /\ touched = c
            /\ driver' = [driver EXCEPT !.at = "read"] /\ message' = NoChunk
         \/ ~ (Faulting /\ touched = c) /\ UNCHANGED <<driver, message>>
BY DEF Wake, Faulting

LEMMA ReleaseEffect ==
  ASSUME RetentionSound, NEW c, Release(c)
  PROVE  \/ /\ retained = <<c>> /\ c \in Held \ {handler.chunk} /\ Range(retained) = {c}
            /\ retained' = <<>> /\ Range(retained') = {}
            /\ pin' = [pin EXCEPT ![c] = @ - 1]
         \/ c \notin Range(retained) /\ UNCHANGED <<retained, pin>>
<1>1. CASE IsRetained(c)
  <2>1. retained # <<>>
    BY <1>1 DEF IsRetained
  <2>2. PICK d \in Held \ {handler.chunk} : retained = <<d>> /\ Range(retained) = {d}
    BY <2>1, OneRetained
  <2>3. d = c
    BY <1>1, <2>2 DEF IsRetained
  <2>4. Without(retained, c) = <<>>
    BY <2>2, <2>3 DEF Without
  <2>5. retained' = <<>> /\ pin' = [pin EXCEPT ![c] = @ - 1]
    BY <1>1, <2>4 DEF Release, DropPin
  <2> QED
    BY <2>2, <2>3, <2>5 DEF Range
<1>2. CASE ~ IsRetained(c)
  BY <1>2 DEF IsRetained, Release, Range
<1> QED
  BY <1>1, <1>2

LEMMA VictimFacts ==
  ASSUME Shape
  PROVE  /\ Evictable \subseteq Held
         /\ SelectVictim(Evictable) \in Evictable \cup {NoChunk}
         /\ Evictable # {} => SelectVictim(Evictable) # NoChunk
<1>1. Evictable \in SUBSET Chunks
  BY DEF Evictable
<1> QED
  BY <1>1, VictimIsCandidate, Table DEF Shape, Evictable, Held

LEMMA BreakFacts ==
  ASSUME Shape, RetentionSound
  PROVE  /\ BreakVictim # NoChunk =>
              retained = <<BreakVictim>> /\ BreakVictim \in Held \ {handler.chunk}
         /\ retained # <<>> => BreakVictim # NoChunk
<1> DEFINE resident == {i \in DOMAIN retained : state[retained[i]] = "RESIDENT"}
           farthest == {i \in resident : \A j \in resident :
                          NextUseDistance(retained[j]) <= NextUseDistance(retained[i])}
<1>1. BreakVictim =
        IF prefetch_retention_pinned /\ resident # {} THEN retained[Min(farthest)] ELSE NoChunk
  BY DEF BreakVictim
<1>2. CASE retained = <<>>
  BY <1>1, <1>2
<1>3. ASSUME retained # <<>>
      PROVE  /\ retained = <<BreakVictim>> /\ BreakVictim \in Held \ {handler.chunk}
             /\ BreakVictim # NoChunk
  <2>1. PICK c \in Held \ {handler.chunk} : retained = <<c>>
    BY <1>3 DEF RetentionSound
  <2>2. c \in Chunks /\ state[c] = "RESIDENT" /\ prefetch_retention_pinned
    BY <1>3, <2>1 DEF Held, RetentionSound
  <2>3. resident = {1}
    BY <2>1, <2>2
  <2>4. NextUseDistance(c) \in Int
    BY <2>2, DistanceBounded DEF Shape
  <2>5. farthest = {1}
    BY <2>1, <2>3, <2>4
  <2> HIDE DEF resident, farthest
  <2>6. Min(farthest) = 1
    BY <2>5, MinOf
  <2>7. BreakVictim = c
    BY <1>1, <2>1, <2>2, <2>3, <2>6
  <2> QED
    BY <2>1, <2>2, <2>7, Table
<1> QED
  BY <1>2, <1>3

LEMMA SameTouches ==
  ASSUME setup \in Setups, setup' = setup
  PROVE  n_touches \in Nat /\ n_touches' = n_touches
<1>1. n_passes \in Nat /\ n_passes' = n_passes /\ n_chunks \in Nat
  BY Region, Table DEF n_passes
<1> QED
  BY <1>1 DEF n_touches

\* The pins that the handler holds on c.
HandlerPins(c) ==
  One(InPrefetch /\ c = handler.target)
    + One(c = handler.chunk /\ handler.at \notin {"room", "fetch", "commit"})
    + One(c = handler.chunk /\ handler.at \in {"claimed", "proom"})

LEMMA PinsSplit ==
  ASSUME PinsOwned, NEW c \in Chunks
  PROVE  /\ pin[c] = One(c \in Range(retained)) + HandlerPins(c)
         /\ HandlerPins(c) \in 0..3
<1> DEFINE i == One(c \in Range(retained))
           j == One(InPrefetch /\ c = handler.target)
           k == One(c = handler.chunk /\ handler.at \notin {"room", "fetch", "commit"})
           l == One(c = handler.chunk /\ handler.at \in {"claimed", "proom"})
<1>1. i \in 0..1 /\ j \in 0..1 /\ k \in 0..1 /\ l \in 0..1
  BY DEF One
<1>2. pin[c] = i + j + k + l /\ HandlerPins(c) = j + k + l
  BY DEF PinsOwned, HandlerPins
<1> HIDE DEF i, j, k, l
<1>3. pin[c] = i + HandlerPins(c) /\ HandlerPins(c) \in 0..3
  BY <1>1, <1>2
<1> QED
  BY <1>3 DEF i

LEMMA PinsNext ==
  ASSUME \A c \in Chunks : pin'[c] = One(c \in Range(retained')) + HandlerPins(c)'
  PROVE  PinsOwned'
<1> SUFFICES ASSUME NEW c \in Chunks
             PROVE  (pin[c] = One(c \in Range(retained))
                       + One(InPrefetch /\ c = handler.target)
                       + One(c = handler.chunk /\ handler.at \notin {"room", "fetch", "commit"})
                       + One(c = handler.chunk /\ handler.at \in {"claimed", "proom"}))'
  BY DEF PinsOwned
<1> DEFINE i == One(c \in Range(retained))
           j == One(InPrefetch /\ c = handler.target)
           k == One(c = handler.chunk /\ handler.at \notin {"room", "fetch", "commit"})
           l == One(c = handler.chunk /\ handler.at \in {"claimed", "proom"})
<1>1. i' \in 0..1 /\ j' \in 0..1 /\ k' \in 0..1 /\ l' \in 0..1
  BY DEF One
<1>2. pin'[c] = i' + HandlerPins(c)' /\ HandlerPins(c)' = j' + k' + l'
  BY DEF HandlerPins
<1> HIDE DEF i, j, k, l
<1>3. pin'[c] = i' + j' + k' + l'
  BY <1>1, <1>2
<1> QED
  BY <1>3 DEF i, j, k, l

LEMMA AccountsFrame ==
  ASSUME AccountsInv, UNCHANGED <<setup, resident_bytes, reserved_bytes>>,
         Held' = Held, Claimed' = Claimed
  PROVE  AccountsInv'
<1>1. ChunkLen' = ChunkLen /\ budget_bytes' = budget_bytes
  BY DEF ChunkLen, budget_bytes
<1> QED
  BY <1>1 DEF AccountsInv, BytesOf

LEMMA PolicyFrame == PolicyTypeOK /\ UNCHANGED policyVars => PolicyTypeOK'
BY DEF PolicyTypeOK, policyVars

LEMMA WakeSound ==
  ASSUME LocalsSet, NEW c, Wake(c)
  PROVE  /\ driver'.touch = driver.touch /\ touched' = touched
         /\ driver' \in [at : {"declare", "notify", "release", "read", "missed", "queued", "blocked"},
                         touch : Nat]
         /\ \/ /\ Faulting /\ touched = c /\ driver'.at = "read" /\ message' = NoChunk
            \/ ~ (Faulting /\ touched = c) /\ UNCHANGED <<driver, message>>
<1>1. \/ /\ Faulting /\ touched = c
         /\ driver' = [driver EXCEPT !.at = "read"] /\ message' = NoChunk
      \/ ~ (Faulting /\ touched = c) /\ UNCHANGED <<driver, message>>
  BY WakeEffect
<1> QED
  BY <1>1 DEF LocalsSet, touched

LEMMA AccountsNext ==
  ASSUME setup' = setup,
         resident_bytes' = ByteCount(ChunkLen, Held'),
         reserved_bytes' = ByteCount(ChunkLen, Claimed'),
         resident_bytes' + reserved_bytes' <= budget_bytes
  PROVE  AccountsInv'
<1>1. ChunkLen' = ChunkLen /\ budget_bytes' = budget_bytes
  BY DEF ChunkLen, budget_bytes
<1>2. (BytesOf(Held))' = ByteCount(ChunkLen', Held')
  BY CountedNext
<1>3. (BytesOf(Claimed))' = ByteCount(ChunkLen', Claimed')
  BY CountedNext
<1> QED
  BY <1>1, <1>2, <1>3 DEF AccountsInv

LEMMA AccountsNow ==
  ASSUME Shape, LocalsSet, AccountsInv
  PROVE  /\ ChunkLen \in [Chunks -> Nat] /\ budget_bytes \in Nat /\ IsFiniteSet(Chunks)
         /\ Held \subseteq Chunks /\ Claimed \subseteq Chunks
         /\ resident_bytes = ByteCount(ChunkLen, Held) /\ resident_bytes \in Nat
         /\ reserved_bytes = ByteCount(ChunkLen, Claimed) /\ reserved_bytes \in Nat
         /\ resident_bytes + reserved_bytes <= budget_bytes
<1>1. ChunkLen \in [Chunks -> Nat] /\ budget_bytes \in Nat /\ IsFiniteSet(Chunks)
  BY Region, Table DEF Shape
<1>2. Held \subseteq Chunks
  BY DEF Held
<1>3. Claimed \subseteq Chunks
  BY DEF Claimed, LocalsSet, InFault, InPrefetch
<1>4. resident_bytes = ByteCount(ChunkLen, Held) /\ reserved_bytes = ByteCount(ChunkLen, Claimed)
  BY Counted DEF AccountsInv
<1>5. ByteCount(ChunkLen, Held) \in Nat /\ ByteCount(ChunkLen, Claimed) \in Nat
  BY <1>1, <1>2, <1>3, ByteCountFinite
<1> QED
  BY <1>1, <1>2, <1>3, <1>4, <1>5 DEF AccountsInv

LEMMA EvictSound ==
  ASSUME Shape, LocalsSet, StagesMatch, MappedExact, AccountsInv,
         NEW v \in Held, Evict(v), UNCHANGED <<setup, handler, reserved_bytes>>
  PROVE  /\ state' = [state EXCEPT ![v] = "ABSENT"] /\ state[v] = "RESIDENT"
         /\ mapped' = mapped \ {v} /\ v \in mapped
         /\ Held' = Held \ {v} /\ Claimed' = Claimed /\ v \notin Claimed
         /\ AccountsInv'
<1>1. /\ state' = [state EXCEPT ![v] = "ABSENT"] /\ state[v] = "RESIDENT" /\ v \in Chunks
      /\ mapped' = mapped \ {v} /\ resident_bytes' = resident_bytes - ChunkLen[v]
  BY DEF Evict, Held
<1>2. Held' = Held \ {v} /\ Claimed' = Claimed
  BY <1>1 DEF Held, Claimed, Shape
<1>3. v \notin Claimed /\ v \in mapped
  BY <1>1 DEF StagesMatch, MappedExact, Claimed, InFault, InPrefetch
<1>4. /\ ChunkLen \in [Chunks -> Nat] /\ budget_bytes \in Nat /\ IsFiniteSet(Chunks)
      /\ Held \in SUBSET Chunks
      /\ resident_bytes = ByteCount(ChunkLen, Held) /\ resident_bytes \in Nat
      /\ reserved_bytes = ByteCount(ChunkLen, Claimed) /\ reserved_bytes \in Nat
      /\ resident_bytes + reserved_bytes <= budget_bytes
  BY AccountsNow
<1>5. ByteCount(ChunkLen, Held \ {v}) = ByteCount(ChunkLen, Held) - ChunkLen[v]
  BY <1>4, ByteCountRemove
<1>6. /\ resident_bytes' = ByteCount(ChunkLen, Held')
      /\ reserved_bytes' = ByteCount(ChunkLen, Claimed')
      /\ resident_bytes' + reserved_bytes' <= budget_bytes
  BY <1>1, <1>2, <1>4, <1>5
<1>7. AccountsInv'
  BY <1>6, AccountsNext
<1> QED
  BY <1>1, <1>2, <1>3, <1>7

LEMMA ReserveAccounts ==
  ASSUME Shape, LocalsSet, AccountsInv, NEW c \in Chunks, Fits(c), Reserve(c), Claimed = {},
         UNCHANGED <<setup, resident_bytes>>, Held' = Held, Claimed' = {c}
  PROVE  AccountsInv'
<1>1. /\ ChunkLen \in [Chunks -> Nat] /\ budget_bytes \in Nat /\ IsFiniteSet(Chunks)
      /\ resident_bytes = ByteCount(ChunkLen, Held) /\ resident_bytes \in Nat
      /\ reserved_bytes = ByteCount(ChunkLen, Claimed)
  BY AccountsNow
<1>2. ByteCount(ChunkLen, {c}) = ChunkLen[c]
  BY <1>1, ByteCountOne
<1>3. ByteCount(ChunkLen, {}) = 0
  BY ByteCountEmpty
<1>4. reserved_bytes = 0 /\ reserved_bytes' = ChunkLen[c] /\ ChunkLen[c] \in Nat
  BY <1>1, <1>3 DEF Reserve
<1>5. /\ resident_bytes' = ByteCount(ChunkLen, Held')
      /\ reserved_bytes' = ByteCount(ChunkLen, Claimed')
      /\ resident_bytes' + reserved_bytes' <= budget_bytes
  BY <1>1, <1>2, <1>3, <1>4 DEF Fits
<1> QED
  BY <1>5, AccountsNext

LEMMA CommitAccounts ==
  ASSUME Shape, LocalsSet, AccountsInv, NEW c \in Chunks \ Held, CommitBytes(c), Claimed = {c},
         setup' = setup, Held' = Held \cup {c}, Claimed' = {}
  PROVE  AccountsInv'
<1>1. /\ ChunkLen \in [Chunks -> Nat] /\ budget_bytes \in Nat /\ IsFiniteSet(Chunks)
      /\ Held \in SUBSET Chunks
      /\ resident_bytes = ByteCount(ChunkLen, Held) /\ resident_bytes \in Nat
      /\ reserved_bytes = ByteCount(ChunkLen, {c}) /\ reserved_bytes \in Nat
      /\ resident_bytes + reserved_bytes <= budget_bytes
  BY AccountsNow
<1>2. ByteCount(ChunkLen, {c}) = ChunkLen[c]
  BY <1>1, ByteCountOne
<1>3. ByteCount(ChunkLen, {}) = 0
  BY ByteCountEmpty
<1>4. ByteCount(ChunkLen, Held \cup {c}) = ByteCount(ChunkLen, Held) + ChunkLen[c]
  BY <1>1, ByteCountAdd
<1>5. /\ resident_bytes' = resident_bytes + ChunkLen[c]
      /\ reserved_bytes' = reserved_bytes - ChunkLen[c] /\ ChunkLen[c] \in Nat
  BY <1>1 DEF CommitBytes
<1>6. /\ resident_bytes' = ByteCount(ChunkLen, Held')
      /\ reserved_bytes' = ByteCount(ChunkLen, Claimed')
      /\ resident_bytes' + reserved_bytes' <= budget_bytes
  BY <1>1, <1>2, <1>3, <1>4, <1>5
<1> QED
  BY <1>6, AccountsNext

\* A retained chunk is pinned, and so no victim.
LEMMA RetainedIsPinned ==
  ASSUME Shape, RetentionSound, PinsOwned, NEW v \in Evictable
  PROVE  v \notin Range(retained) /\ HandlerPins(v) = 0
<1>1. v \in Chunks /\ pin[v] = 0
  BY DEF Evictable
<1>2. pin[v] = One(v \in Range(retained)) + HandlerPins(v) /\ HandlerPins(v) \in 0..3
  BY <1>1, PinsSplit
<1>3. One(v \in Range(retained)) \in 0..1
  BY DEF One
<1> QED
  BY <1>1, <1>2, <1>3 DEF One

-----------------------------------------------------------------------------
(* The steps of Residency *)

\* What the driver waits for.
Waiting == IF Faulting /\ touched \notin mapped THEN touched ELSE NoChunk

LEMMA PromiseStutters ==
  ASSUME UNCHANGED <<setup, Held, Claimed, mapped, Waiting>>
  PROVE  [Promise!Next]_(Promise!vars)
<1>1. ChunkLen' = ChunkLen /\ budget_bytes' = budget_bytes
  BY DEF ChunkLen, budget_bytes
<1>2. WaitsFor' = WaitsFor
  BY DEF WaitsFor, Waiting
<1> QED
  BY <1>1, <1>2 DEF Promise!vars, Promise!region

LEMMA PromiseWaits ==
  /\ WaitsFor = [t \in {"driver"} |-> Waiting]
  /\ WaitsFor' = [t \in {"driver"} |-> Waiting']
BY DEF WaitsFor, Waiting

LEMMA PromiseBlocks ==
  ASSUME UNCHANGED <<setup, Held, Claimed, mapped>>, Waiting = NoChunk,
         NEW c \in Chunks \ mapped, Waiting' = c
  PROVE  [Promise!Next]_(Promise!vars)
<1>1. ChunkLen' = ChunkLen /\ budget_bytes' = budget_bytes
  BY DEF ChunkLen, budget_bytes
<1>2. WaitsFor["driver"] = NoChunk /\ WaitsFor' = [WaitsFor EXCEPT !["driver"] = c]
  BY PromiseWaits
<1>3. Promise!Block("driver", c)
  BY <1>2 DEF Promise!Block
<1> QED
  BY <1>1, <1>3 DEF Promise!Next, Promise!region

LEMMA PromiseGivesUp ==
  ASSUME UNCHANGED <<setup, Held, Claimed, mapped>>, NEW c \in Chunks,
         Waiting' = IF Waiting = c THEN NoChunk ELSE Waiting
  PROVE  [Promise!Next]_(Promise!vars)
<1>1. ChunkLen' = ChunkLen /\ budget_bytes' = budget_bytes
  BY DEF ChunkLen, budget_bytes
<1>2. WaitsFor' = [t \in {"driver"} |-> IF WaitsFor[t] = c THEN NoChunk ELSE WaitsFor[t]]
  BY PromiseWaits
<1>3. Promise!GiveUp(c)
  BY <1>2 DEF Promise!GiveUp
<1> QED
  BY <1>1, <1>3 DEF Promise!Next, Promise!region

LEMMA PromiseFills ==
  ASSUME UNCHANGED <<setup, Held, Claimed>>, NEW c \in Chunks, c \in Claimed,
         mapped' = mapped \cup {c}, Waiting' = IF Waiting = c THEN NoChunk ELSE Waiting
  PROVE  [Promise!Next]_(Promise!vars)
<1>1. ChunkLen' = ChunkLen /\ budget_bytes' = budget_bytes
  BY DEF ChunkLen, budget_bytes
<1>2. WaitsFor' = [t \in {"driver"} |-> IF WaitsFor[t] = c THEN NoChunk ELSE WaitsFor[t]]
  BY PromiseWaits
<1>3. Promise!Fill(c)
  BY <1>2 DEF Promise!Fill
<1> QED
  BY <1>1, <1>3 DEF Promise!Next, Promise!region

LEMMA PromiseKeeps ==
  ASSUME UNCHANGED <<setup, mapped, Waiting>>, NEW c \in Chunks, c \in mapped,
         Claimed = {c}, Claimed' = {}, Held' = Held \cup {c}
  PROVE  [Promise!Next]_(Promise!vars)
<1>1. ChunkLen' = ChunkLen /\ budget_bytes' = budget_bytes
  BY DEF ChunkLen, budget_bytes
<1>2. WaitsFor' = WaitsFor
  BY PromiseWaits
<1>3. Promise!Keep(c)
  BY <1>2 DEF Promise!Keep
<1> QED
  BY <1>1, <1>3 DEF Promise!Next, Promise!region

LEMMA PromiseDrops ==
  ASSUME UNCHANGED <<setup, Claimed, Waiting>>, NEW c \in Held,
         mapped' = mapped \ {c}, Held' = Held \ {c}
  PROVE  [Promise!Next]_(Promise!vars)
<1>1. ChunkLen' = ChunkLen /\ budget_bytes' = budget_bytes
  BY DEF ChunkLen, budget_bytes
<1>2. WaitsFor' = WaitsFor
  BY PromiseWaits
<1>3. Promise!Drop(c) /\ c \in Chunks
  BY <1>2 DEF Promise!Drop, Held
<1> QED
  BY <1>1, <1>3 DEF Promise!Next, Promise!region

LEMMA PromiseClaims ==
  ASSUME Shape, LocalsSet, AccountsInv, UNCHANGED <<setup, Held, mapped, Waiting>>,
         NEW c \in Chunks \ Held, Fits(c), Claimed = {}, Claimed' = {c}
  PROVE  [Promise!Next]_(Promise!vars)
<1>1. ChunkLen' = ChunkLen /\ budget_bytes' = budget_bytes
  BY DEF ChunkLen, budget_bytes
<1>2. /\ ChunkLen \in [Chunks -> Nat] /\ IsFiniteSet(Chunks) /\ Held \in SUBSET Chunks
      /\ resident_bytes = ByteCount(ChunkLen, Held) /\ resident_bytes \in Nat
      /\ reserved_bytes \in Nat /\ budget_bytes \in Nat
  BY AccountsNow
<1>3. ByteCount(ChunkLen, Held \cup {c}) = resident_bytes + ChunkLen[c]
  BY <1>2, ByteCountAdd
<1>4. ChunkLen[c] \in Nat
  BY <1>2
<1>5. BytesOf(Held \cup {c}) <= budget_bytes
  BY <1>2, <1>3, <1>4, Counted DEF Fits
<1>6. Promise!Bytes(Held \cup {c}) = BytesOf(Held \cup {c})
  BY Zenon DEF Promise!Bytes, BytesOf, Promise!Cardinality, Cardinality
<1>7. WaitsFor' = WaitsFor
  BY PromiseWaits
<1>8. Claimed \cup Held \cup {c} = Held \cup {c} /\ Claimed \cup Held = Held
  OBVIOUS
<1>9. Promise!Claim(c)
  <2>1. Promise!Bytes(Claimed \cup Held \cup {c}) <= budget_bytes
    BY <1>5, <1>6, <1>8
  <2> QED
    BY <1>7, <1>8, <2>1 DEF Promise!Claim
<1> QED
  BY <1>1, <1>9 DEF Promise!Next, Promise!region

-----------------------------------------------------------------------------
(* Each step keeps the invariant, and is a step of Residency *)

LEMMA DeclareOrderKeeps ==
  ASSUME Parts, DeclareOrder
  PROVE  Parts' /\ [Promise!Next]_(Promise!vars)
<1>h. /\ Shape /\ LocalsSet /\ StagesMatch /\ MappedExact
      /\ RetentionSound /\ PinsOwned /\ AccountsInv /\ MessageHonest
  BY DEF Parts
<1>e. /\ driver.at = "declare" /\ driver' = [driver EXCEPT !.at = "notify"]
      /\ DeclareSequence([i \in 1..n_chunks |-> i - 1])
      /\ UNCHANGED <<opt, last_fault_seq, last_fetched, successor, fault_seq>>
      /\ UNCHANGED <<setup, state, mapped, resident_bytes, reserved_bytes, handler>>
      /\ UNCHANGED <<pin, retained, message>>
  BY DEF DeclareOrder
<1>n. n_touches \in Nat /\ n_touches' = n_touches
  BY <1>h, <1>e, SameTouches DEF Shape
<1>d. driver'.touch = driver.touch /\ touched' = touched /\ driver'.at = "notify"
  BY <1>h, <1>e DEF LocalsSet, touched
<1>m. /\ Held' = Held
      /\ Claimed' = Claimed
  BY <1>h, <1>e DEF Held, Claimed, LocalsSet, InPrefetch, InFault, Shape
<1>1. Shape'
  <2>1. [i \in 1..n_chunks |-> i - 1] \in Seq(Chunks)
    BY Table DEF Chunks
  <2>2. PolicyTypeOK'
    BY <1>h, <1>e, <2>1, DeclareType DEF Shape
  <2> QED
    BY <1>h, <1>e, <1>d, <1>n, <2>2 DEF Shape, LocalsSet
<1>2. LocalsSet'
  BY <1>h, <1>e, <1>m, <1>n, <1>d DEF LocalsSet, InFault, InPrefetch
<1>3. StagesMatch'
  BY <1>h, <1>e, <1>m DEF StagesMatch, InFault, InPrefetch, Held
<1>4. MappedExact'
  BY <1>h, <1>e, <1>m DEF MappedExact
<1>5. RetentionSound'
  BY <1>h, <1>e, <1>m DEF RetentionSound, prefetch_retention_pinned
<1>6. PinsOwned'
  BY <1>h, <1>e, <1>m DEF PinsOwned, InPrefetch, One
<1>7. AccountsInv'
  BY <1>h, <1>e, <1>m, AccountsFrame 
<1>8. MessageHonest'
  BY <1>h, <1>e, <1>m, <1>d DEF MessageHonest, Faulting
<1>9. [Promise!Next]_(Promise!vars)
  <2>1. Waiting' = Waiting
    BY <1>h, <1>e, <1>m, <1>d, Table DEF Waiting, Faulting
  <2> QED
    BY <1>h, <1>e, <1>m, <2>1, PromiseStutters
<1> QED
  BY <1>1, <1>2, <1>3, <1>4, <1>5, <1>6, <1>7, <1>8, <1>9 DEF Parts

LEMMA NotifyPolicyKeeps ==
  ASSUME Parts, NotifyPolicy
  PROVE  Parts' /\ [Promise!Next]_(Promise!vars)
<1>h. /\ Shape /\ LocalsSet /\ StagesMatch /\ MappedExact
      /\ RetentionSound /\ PinsOwned /\ AccountsInv /\ MessageHonest
  BY DEF Parts
<1>e. /\ driver.at = "notify" /\ driver.touch < n_touches
      /\ driver' = [driver EXCEPT !.at = "release"] \/ driver' = [driver EXCEPT !.at = "read"]
      /\ OnAccess(touched)
      /\ UNCHANGED <<opt, seq, last_fault_seq, last_fetched, successor, fault_seq>>
      /\ UNCHANGED <<setup, state, mapped, resident_bytes, reserved_bytes, handler>>
      /\ UNCHANGED <<pin, retained, message>>
  BY DEF NotifyPolicy
<1>n. n_touches \in Nat /\ n_touches' = n_touches
  BY <1>h, <1>e, SameTouches DEF Shape
<1>d. driver'.touch = driver.touch /\ touched' = touched /\ driver'.at \in {"release", "read"}
  BY <1>h, <1>e DEF LocalsSet, touched
<1>m. /\ Held' = Held
      /\ Claimed' = Claimed
  BY <1>h, <1>e DEF Held, Claimed, LocalsSet, InPrefetch, InFault, Shape
<1>1. Shape'
  <2>1. PolicyTypeOK'
    BY <1>h, <1>e, OnAccessType DEF Shape
  <2> QED
    BY <1>h, <1>e, <1>d, <1>n, <2>1 DEF Shape, LocalsSet
<1>2. LocalsSet'
  BY <1>h, <1>e, <1>m, <1>n, <1>d DEF LocalsSet, InFault, InPrefetch
<1>3. StagesMatch'
  BY <1>h, <1>e, <1>m DEF StagesMatch, InFault, InPrefetch, Held
<1>4. MappedExact'
  BY <1>h, <1>e, <1>m DEF MappedExact
<1>5. RetentionSound'
  BY <1>h, <1>e, <1>m DEF RetentionSound, prefetch_retention_pinned
<1>6. PinsOwned'
  BY <1>h, <1>e, <1>m DEF PinsOwned, InPrefetch, One
<1>7. AccountsInv'
  BY <1>h, <1>e, <1>m, AccountsFrame 
<1>8. MessageHonest'
  BY <1>h, <1>e, <1>m, <1>d DEF MessageHonest, Faulting
<1>9. [Promise!Next]_(Promise!vars)
  <2>1. Waiting' = Waiting
    BY <1>h, <1>e, <1>m, <1>d, Table DEF Waiting, Faulting
  <2> QED
    BY <1>h, <1>e, <1>m, <2>1, PromiseStutters
<1> QED
  BY <1>1, <1>2, <1>3, <1>4, <1>5, <1>6, <1>7, <1>8, <1>9 DEF Parts

LEMMA NotifyRetentionKeeps ==
  ASSUME Parts, NotifyRetention
  PROVE  Parts' /\ [Promise!Next]_(Promise!vars)
<1>h. /\ Shape /\ LocalsSet /\ StagesMatch /\ MappedExact
      /\ RetentionSound /\ PinsOwned /\ AccountsInv /\ MessageHonest
  BY DEF Parts
<1>e. /\ driver.at = "release" /\ driver' = [driver EXCEPT !.at = "read"]
      /\ Release(touched)
      /\ UNCHANGED <<policyVars, fault_seq>>
      /\ UNCHANGED <<setup, state, mapped, resident_bytes, reserved_bytes, handler>>
      /\ UNCHANGED message
  BY DEF NotifyRetention, policyVars
<1>r. \/ /\ retained = <<touched>> /\ touched \in Held \ {handler.chunk} /\ Range(retained) = {touched}
         /\ retained' = <<>> /\ Range(retained') = {}
         /\ pin' = [pin EXCEPT ![touched] = @ - 1]
      \/ touched \notin Range(retained) /\ UNCHANGED <<retained, pin>>
  BY <1>h, <1>e, ReleaseEffect
<1>n. n_touches \in Nat /\ n_touches' = n_touches
  BY <1>h, <1>e, SameTouches DEF Shape
<1>d. driver'.touch = driver.touch /\ touched' = touched /\ driver'.at = "read"
  BY <1>h, <1>e DEF LocalsSet, touched
<1>m. /\ Held' = Held
      /\ Claimed' = Claimed
  BY <1>h, <1>e DEF Held, Claimed, LocalsSet, InPrefetch, InFault, Shape
<1>1. Shape'
  BY <1>h, <1>e, <1>m, <1>n, <1>d, <1>r, PolicyFrame DEF Shape, LocalsSet
<1>2. LocalsSet'
  BY <1>h, <1>e, <1>m, <1>n, <1>d DEF LocalsSet, InFault, InPrefetch
<1>3. StagesMatch'
  BY <1>h, <1>e, <1>m DEF StagesMatch, InFault, InPrefetch, Held
<1>4. MappedExact'
  BY <1>h, <1>e, <1>m DEF MappedExact
<1>5. RetentionSound'
  BY <1>h, <1>e, <1>m, <1>r DEF RetentionSound, prefetch_retention_pinned
<1>6. PinsOwned'
  <2>1. ASSUME NEW c \in Chunks
        PROVE  pin'[c] = One(c \in Range(retained')) + HandlerPins(c)
    <3>1. /\ pin[c] = One(c \in Range(retained)) + HandlerPins(c)
          /\ HandlerPins(c) \in 0..3 /\ pin \in [Chunks -> Int]
      BY <1>h, PinsSplit DEF Shape
    <3> QED
      BY <1>r, <3>1 DEF One
  <2>2. \A c \in Chunks : HandlerPins(c)' = HandlerPins(c)
    BY <1>e DEF HandlerPins, InPrefetch
  <2> QED
    BY <2>1, <2>2, PinsNext
<1>7. AccountsInv'
  BY <1>h, <1>e, <1>m, AccountsFrame 
<1>8. MessageHonest'
  BY <1>h, <1>e, <1>m, <1>d DEF MessageHonest, Faulting
<1>9. [Promise!Next]_(Promise!vars)
  <2>1. Waiting' = Waiting
    BY <1>h, <1>e, <1>m, <1>d, Table DEF Waiting, Faulting
  <2> QED
    BY <1>h, <1>e, <1>m, <2>1, PromiseStutters
<1> QED
  BY <1>1, <1>2, <1>3, <1>4, <1>5, <1>6, <1>7, <1>8, <1>9 DEF Parts

LEMMA ReadKeeps ==
  ASSUME Parts, Read
  PROVE  Parts' /\ [Promise!Next]_(Promise!vars)
<1>h. /\ Shape /\ LocalsSet /\ StagesMatch /\ MappedExact
      /\ RetentionSound /\ PinsOwned /\ AccountsInv /\ MessageHonest
  BY DEF Parts
<1>e. /\ driver.at = "read"
      /\ \/ driver' = [at |-> "notify", touch |-> driver.touch + 1]
         \/ touched \notin mapped /\ driver' = [driver EXCEPT !.at = "missed"]
      /\ UNCHANGED <<policyVars, fault_seq>>
      /\ UNCHANGED <<setup, state, mapped, resident_bytes, reserved_bytes, handler>>
      /\ UNCHANGED <<pin, retained, message>>
  BY DEF Read, policyVars
<1>n. n_touches \in Nat /\ n_touches' = n_touches
  BY <1>h, <1>e, SameTouches DEF Shape
<1>d. \/ driver'.at = "notify"
      \/ driver'.at = "missed" /\ touched \notin mapped /\ touched' = touched
  BY <1>h, <1>e DEF LocalsSet, touched
<1>m. /\ Held' = Held
      /\ Claimed' = Claimed
  BY <1>h, <1>e DEF Held, Claimed, LocalsSet, InPrefetch, InFault, Shape
<1>1. Shape'
  BY <1>h, <1>e, <1>m, <1>n, <1>d, PolicyFrame DEF Shape, LocalsSet
<1>2. LocalsSet'
  BY <1>h, <1>e, <1>m, <1>n, <1>d DEF LocalsSet, InFault, InPrefetch
<1>3. StagesMatch'
  BY <1>h, <1>e, <1>m DEF StagesMatch, InFault, InPrefetch, Held
<1>4. MappedExact'
  BY <1>h, <1>e, <1>m DEF MappedExact
<1>5. RetentionSound'
  BY <1>h, <1>e, <1>m DEF RetentionSound, prefetch_retention_pinned
<1>6. PinsOwned'
  BY <1>h, <1>e, <1>m DEF PinsOwned, InPrefetch, One
<1>7. AccountsInv'
  BY <1>h, <1>e, <1>m, AccountsFrame 
<1>8. MessageHonest'
  BY <1>h, <1>e, <1>m, <1>d DEF MessageHonest, Faulting
<1>9. [Promise!Next]_(Promise!vars)
  <2>1. Waiting' = Waiting
    BY <1>h, <1>e, <1>m, <1>d, Table DEF Waiting, Faulting
  <2> QED
    BY <1>h, <1>e, <1>m, <2>1, PromiseStutters
<1> QED
  BY <1>1, <1>2, <1>3, <1>4, <1>5, <1>6, <1>7, <1>8, <1>9 DEF Parts

LEMMA FaultKeeps ==
  ASSUME Parts, Fault
  PROVE  Parts' /\ [Promise!Next]_(Promise!vars)
<1>h. /\ Shape /\ LocalsSet /\ StagesMatch /\ MappedExact
      /\ RetentionSound /\ PinsOwned /\ AccountsInv /\ MessageHonest
  BY DEF Parts
<1>e. /\ driver.at = "missed" /\ driver' = [driver EXCEPT !.at = "queued"]
      /\ message' = touched
      /\ UNCHANGED <<policyVars, fault_seq>>
      /\ UNCHANGED <<setup, state, mapped, resident_bytes, reserved_bytes, handler>>
      /\ UNCHANGED <<pin, retained>>
  BY DEF Fault, policyVars
<1>n. n_touches \in Nat /\ n_touches' = n_touches
  BY <1>h, <1>e, SameTouches DEF Shape
<1>d. driver'.touch = driver.touch /\ touched' = touched /\ driver'.at = "queued"
  BY <1>h, <1>e DEF LocalsSet, touched
<1>m. /\ Held' = Held
      /\ Claimed' = Claimed
  BY <1>h, <1>e DEF Held, Claimed, LocalsSet, InPrefetch, InFault, Shape
<1>1. Shape'
  BY <1>h, <1>e, <1>m, <1>n, <1>d, PolicyFrame, TouchedInTable DEF Shape, LocalsSet
<1>2. LocalsSet'
  BY <1>h, <1>e, <1>m, <1>n, <1>d DEF LocalsSet, InFault, InPrefetch
<1>3. StagesMatch'
  BY <1>h, <1>e, <1>m DEF StagesMatch, InFault, InPrefetch, Held
<1>4. MappedExact'
  BY <1>h, <1>e, <1>m DEF MappedExact
<1>5. RetentionSound'
  BY <1>h, <1>e, <1>m DEF RetentionSound, prefetch_retention_pinned
<1>6. PinsOwned'
  BY <1>h, <1>e, <1>m DEF PinsOwned, InPrefetch, One
<1>7. AccountsInv'
  BY <1>h, <1>e, <1>m, AccountsFrame 
<1>8. MessageHonest'
  BY <1>h, <1>e, <1>m, <1>d DEF MessageHonest, Faulting
<1>9. [Promise!Next]_(Promise!vars)
  <2>1. \/ Waiting = NoChunk /\ touched \in Chunks \ mapped /\ Waiting' = touched
        \/ Waiting' = Waiting
    BY <1>h, <1>e, <1>m, <1>d, TouchedInTable, Table DEF Waiting, Faulting, LocalsSet
  <2> QED
    BY <1>h, <1>e, <1>m, <2>1, PromiseStutters, PromiseBlocks
<1> QED
  BY <1>1, <1>2, <1>3, <1>4, <1>5, <1>6, <1>7, <1>8, <1>9 DEF Parts

LEMMA MustWaitKeeps ==
  ASSUME Parts, MustWait
  PROVE  Parts' /\ [Promise!Next]_(Promise!vars)
<1>h. /\ Shape /\ LocalsSet /\ StagesMatch /\ MappedExact
      /\ RetentionSound /\ PinsOwned /\ AccountsInv /\ MessageHonest
  BY DEF Parts
<1>e. /\ driver.at = "queued"
      /\ \/ /\ touched \in mapped /\ message' = NoChunk
            /\ driver' = [driver EXCEPT !.at = "read"]
         \/ driver' = [driver EXCEPT !.at = "blocked"] /\ UNCHANGED message
      /\ UNCHANGED <<policyVars, fault_seq>>
      /\ UNCHANGED <<setup, state, mapped, resident_bytes, reserved_bytes, handler>>
      /\ UNCHANGED <<pin, retained>>
  BY DEF MustWait, policyVars
<1>q. handler.at \in {"room", "fetch"} => handler.chunk \notin mapped
  BY <1>h DEF MappedExact, StagesMatch, InFault, Held
<1>n. n_touches \in Nat /\ n_touches' = n_touches
  BY <1>h, <1>e, SameTouches DEF Shape
<1>d. /\ driver'.touch = driver.touch /\ touched' = touched
      /\ \/ driver'.at = "read" /\ touched \in mapped /\ message' = NoChunk
         \/ driver'.at = "blocked" /\ UNCHANGED message
  BY <1>h, <1>e DEF LocalsSet, touched
<1>m. /\ Held' = Held
      /\ Claimed' = Claimed
  BY <1>h, <1>e DEF Held, Claimed, LocalsSet, InPrefetch, InFault, Shape
<1>1. Shape'
  BY <1>h, <1>e, <1>m, <1>n, <1>d, PolicyFrame DEF Shape, LocalsSet
<1>2. LocalsSet'
  BY <1>h, <1>e, <1>m, <1>n, <1>d DEF LocalsSet, InFault, InPrefetch
<1>3. StagesMatch'
  BY <1>h, <1>e, <1>m DEF StagesMatch, InFault, InPrefetch, Held
<1>4. MappedExact'
  BY <1>h, <1>e, <1>m DEF MappedExact
<1>5. RetentionSound'
  BY <1>h, <1>e, <1>m DEF RetentionSound, prefetch_retention_pinned
<1>6. PinsOwned'
  BY <1>h, <1>e, <1>m DEF PinsOwned, InPrefetch, One
<1>7. AccountsInv'
  BY <1>h, <1>e, <1>m, AccountsFrame 
<1>8. MessageHonest'
  BY <1>h, <1>e, <1>m, <1>d, <1>q DEF MessageHonest, Faulting
<1>9. [Promise!Next]_(Promise!vars)
  <2>1. Waiting' = Waiting
    BY <1>h, <1>e, <1>m, <1>d, Table DEF Waiting, Faulting
  <2> QED
    BY <1>h, <1>e, <1>m, <2>1, PromiseStutters
<1> QED
  BY <1>1, <1>2, <1>3, <1>4, <1>5, <1>6, <1>7, <1>8, <1>9 DEF Parts

\* A fault on a chunk that is RESIDENT; it is never FETCHING here.
LEMMA HandleResidentKeeps ==
  ASSUME Parts, HandleFault, state[message] # "ABSENT"
  PROVE  Parts' /\ [Promise!Next]_(Promise!vars)
<1>h. /\ Shape /\ LocalsSet /\ StagesMatch /\ MappedExact
      /\ RetentionSound /\ PinsOwned /\ AccountsInv /\ MessageHonest
  BY DEF Parts
<1>e. /\ handler.at = "idle" /\ message \in Held
      /\ Wake(message)
      /\ UNCHANGED <<policyVars, fault_seq>>
      /\ UNCHANGED <<setup, state, mapped, pin, resident_bytes, reserved_bytes, retained, handler>>
  <2>1. message \in Chunks /\ state[message] \in {"FETCHING", "RESIDENT"}
    BY <1>h DEF HandleFault, Shape
  <2>2. state[message] = "RESIDENT"
    BY <1>h, <2>1 DEF HandleFault, StagesMatch, InFault, InPrefetch
  <2> QED
    BY <2>1, <2>2 DEF HandleFault, policyVars, Held
<1>n. n_touches \in Nat /\ n_touches' = n_touches
  BY <1>h, <1>e, SameTouches DEF Shape
<1>d. /\ driver'.touch = driver.touch /\ touched' = touched
      /\ driver' \in [at : {"declare", "notify", "release", "read", "missed", "queued", "blocked"}, touch : Nat]
      /\ \/ Faulting /\ touched = message /\ driver'.at = "read" /\ message' = NoChunk
         \/ ~ (Faulting /\ touched = message) /\ UNCHANGED <<driver, message>>
  BY <1>h, <1>e, WakeSound
<1>m. /\ Held' = Held
      /\ Claimed' = Claimed
  BY <1>h, <1>e DEF Held, Claimed, LocalsSet, InPrefetch, InFault, Shape
<1>1. Shape'
  <2>1. PolicyTypeOK'
    BY <1>h, <1>e, PolicyFrame DEF Shape
  <2>2. message' \in Chunks \cup {NoChunk}
    BY <1>h, <1>d DEF Shape
  <2> QED
    BY <1>h, <1>e, <1>d, <1>n, <2>1, <2>2 DEF Shape, LocalsSet
<1>2. LocalsSet'
  BY <1>h, <1>e, <1>d, <1>n DEF LocalsSet, InFault, InPrefetch, Faulting
<1>3. StagesMatch'
  BY <1>h, <1>e, <1>m DEF StagesMatch, InFault, InPrefetch, Held
<1>4. MappedExact'
  BY <1>h, <1>e, <1>m DEF MappedExact
<1>5. RetentionSound'
  BY <1>h, <1>e, <1>m DEF RetentionSound, prefetch_retention_pinned
<1>6. PinsOwned'
  BY <1>h, <1>e, <1>m DEF PinsOwned, InPrefetch, One
<1>7. AccountsInv'
  BY <1>h, <1>e, <1>m, AccountsFrame 
<1>8. MessageHonest'
  BY <1>h, <1>e, <1>m, <1>d DEF MessageHonest, Faulting
<1>9. [Promise!Next]_(Promise!vars)
  <2>1. Waiting' = Waiting
    BY <1>h, <1>e, <1>m, <1>d, Table DEF Waiting, Faulting, MappedExact
  <2> QED
    BY <1>h, <1>e, <1>m, <2>1, PromiseStutters
<1> QED
  BY <1>1, <1>2, <1>3, <1>4, <1>5, <1>6, <1>7, <1>8, <1>9 DEF Parts

\* A fault on a chunk that is ABSENT.
LEMMA HandleAbsentKeeps ==
  ASSUME Parts, HandleFault, state[message] = "ABSENT"
  PROVE  Parts' /\ [Promise!Next]_(Promise!vars)
<1>h. /\ Shape /\ LocalsSet /\ StagesMatch /\ MappedExact
      /\ RetentionSound /\ PinsOwned /\ AccountsInv /\ MessageHonest
  BY DEF Parts
<1>e. /\ handler.at = "idle" /\ message \in Chunks /\ message # NoChunk /\ state[message] = "ABSENT"
      /\ handler' = [at |-> "room", chunk |-> message, target |-> NoChunk]
      /\ state' = [state EXCEPT ![message] = "FETCHING"] /\ message' = NoChunk
      /\ fault_seq' = fault_seq + 1 /\ last_fault_seq' = [last_fault_seq EXCEPT ![message] = fault_seq + 1]
      /\ OnFault(message) /\ UNCHANGED <<opt, seq, pos>>
      /\ UNCHANGED <<setup, mapped, pin, resident_bytes, reserved_bytes, retained, driver>>
  <2>1. message \in Chunks /\ message # NoChunk
    BY <1>h DEF HandleFault, Shape
  <2> QED
    BY <2>1 DEF HandleFault, Stamp
<1>n. n_touches \in Nat /\ n_touches' = n_touches
  BY <1>h, <1>e, SameTouches DEF Shape
<1>d. /\ driver' = driver /\ touched' = touched
      /\ message = touched /\ Faulting /\ message \notin Held
  BY <1>h, <1>e DEF touched, MessageHonest, Held
<1>m. /\ Held' = Held
      /\ Claimed' = Claimed
  BY <1>h, <1>e DEF Held, Claimed, LocalsSet, InPrefetch, InFault, Shape, StagesMatch
<1>1. Shape'
  <2>1. last_fault_seq' \in [Chunks -> Nat] /\ fault_seq' \in Nat
    BY <1>h, <1>e DEF Shape, PolicyTypeOK
  <2>2. PolicyTypeOK'
    BY <1>h, <1>e, <2>1, OnFaultType DEF Shape
  <2>3. state' \in [Chunks -> {"ABSENT", "FETCHING", "RESIDENT"}]
    BY <1>h, <1>e DEF Shape
  <2> QED
    BY <1>h, <1>e, <1>d, <1>n, <2>1, <2>2, <2>3 DEF Shape
<1>2. LocalsSet'
  BY <1>h, <1>e, <1>d, <1>n, Table DEF LocalsSet, InFault, InPrefetch
<1>3. StagesMatch'
  BY <1>h, <1>e, <1>m DEF StagesMatch, InFault, InPrefetch, Held, Shape
<1>4. MappedExact'
  BY <1>h, <1>e, <1>m DEF MappedExact
<1>5. RetentionSound'
  BY <1>h, <1>e, <1>d, <1>m DEF RetentionSound, prefetch_retention_pinned
<1>6. PinsOwned'
  <2>1. ASSUME NEW c \in Chunks
        PROVE  pin'[c] = One(c \in Range(retained')) + HandlerPins(c)'
    <3>1. /\ pin[c] = One(c \in Range(retained)) + HandlerPins(c)
          /\ HandlerPins(c) \in 0..3 /\ pin \in [Chunks -> Int]
      BY <1>h, PinsSplit DEF Shape
    <3>2. HandlerPins(c)' = HandlerPins(c)
      BY <1>h, <1>e, Table DEF HandlerPins, InPrefetch, One, LocalsSet
    <3>3. pin'[c] = pin[c]
      BY <1>h, <1>e, <3>1 DEF One, LocalsSet
    <3>4. One(c \in Range(retained)) \in 0..1 /\ retained' = retained
      BY <1>e DEF One
    <3> QED
      BY <3>1, <3>2, <3>3, <3>4
  <2> QED
    BY <2>1, PinsNext
<1>7. AccountsInv'
  BY <1>h, <1>e, <1>m, AccountsFrame 
<1>8. MessageHonest'
  BY <1>h, <1>e, <1>m, <1>d DEF MessageHonest, Faulting
<1>9. [Promise!Next]_(Promise!vars)
  <2>1. Waiting' = Waiting
    BY <1>h, <1>e, <1>m, <1>d, Table DEF Waiting, Faulting
  <2> QED
    BY <1>h, <1>e, <1>m, <2>1, PromiseStutters
<1> QED
  BY <1>1, <1>2, <1>3, <1>4, <1>5, <1>6, <1>7, <1>8, <1>9 DEF Parts

\* ensure_budget: the chunk fits.
LEMMA MakeRoomReserveKeeps ==
  ASSUME Parts, MakeRoom, Fits(handler.chunk)
  PROVE  Parts' /\ [Promise!Next]_(Promise!vars)
<1>h. /\ Shape /\ LocalsSet /\ StagesMatch /\ MappedExact
      /\ RetentionSound /\ PinsOwned /\ AccountsInv /\ MessageHonest
  BY DEF Parts
<1>e. /\ handler.at = "room" /\ handler.chunk \in Chunks
      /\ handler' = [handler EXCEPT !.at = "fetch"]
      /\ Fits(handler.chunk) /\ Reserve(handler.chunk)
      /\ UNCHANGED <<policyVars, fault_seq, setup, driver, message>>
      /\ UNCHANGED <<state, pin, mapped, resident_bytes, retained>>
  BY <1>h DEF MakeRoom, LocalsSet, policyVars
<1>n. n_touches \in Nat /\ n_touches' = n_touches
  BY <1>h, <1>e, SameTouches DEF Shape
<1>d. driver' = driver /\ touched' = touched
  BY <1>e DEF touched
<1>m. /\ Held' = Held
      /\ Claimed' = {handler.chunk} /\ Claimed = {}
  BY <1>h, <1>e DEF Held, Claimed, LocalsSet, InPrefetch, InFault, Shape, StagesMatch
<1>1. Shape'
  BY <1>h, <1>e, <1>m, <1>n, <1>d, PolicyFrame DEF Shape, LocalsSet
<1>2. LocalsSet'
  BY <1>h, <1>e, <1>m, <1>n, <1>d DEF LocalsSet, InFault, InPrefetch
<1>3. StagesMatch'
  BY <1>h, <1>e, <1>m DEF StagesMatch, InFault, InPrefetch, Held
<1>4. MappedExact'
  BY <1>h, <1>e, <1>m DEF MappedExact
<1>5. RetentionSound'
  BY <1>h, <1>e, <1>m DEF RetentionSound, prefetch_retention_pinned
<1>6. PinsOwned'
  <2>1. ASSUME NEW c \in Chunks
        PROVE  pin'[c] = One(c \in Range(retained')) + HandlerPins(c)'
    <3>1. /\ pin[c] = One(c \in Range(retained)) + HandlerPins(c)
          /\ HandlerPins(c) \in 0..3 /\ pin \in [Chunks -> Int]
      BY <1>h, PinsSplit DEF Shape
    <3>2. HandlerPins(c)' = HandlerPins(c)
      BY <1>h, <1>e, Table DEF HandlerPins, InPrefetch, One, LocalsSet
    <3>3. pin'[c] = pin[c]
      BY <1>h, <1>e, <3>1 DEF One, LocalsSet
    <3>4. One(c \in Range(retained)) \in 0..1 /\ retained' = retained
      BY <1>e DEF One
    <3> QED
      BY <3>1, <3>2, <3>3, <3>4
  <2> QED
    BY <2>1, PinsNext
<1>7. AccountsInv'
  BY <1>h, <1>e, <1>m, ReserveAccounts
<1>8. MessageHonest'
  BY <1>h, <1>e, <1>m, <1>d DEF MessageHonest, Faulting
<1>9. [Promise!Next]_(Promise!vars)
  <2>1. Waiting' = Waiting /\ handler.chunk \notin Held
    BY <1>h, <1>e, <1>m, <1>d, Table DEF Waiting, Faulting, StagesMatch, InFault, Held
  <2> QED
    BY <1>h, <1>e, <1>m, <2>1, PromiseClaims
<1> QED
  BY <1>1, <1>2, <1>3, <1>4, <1>5, <1>6, <1>7, <1>8, <1>9 DEF Parts

\* ensure_budget: the victim of the policy is evicted.
LEMMA MakeRoomEvictKeeps ==
  ASSUME Parts, MakeRoom, ~ Fits(handler.chunk), SelectVictim(Evictable) # NoChunk
  PROVE  Parts' /\ [Promise!Next]_(Promise!vars)
<1>h. /\ Shape /\ LocalsSet /\ StagesMatch /\ MappedExact
      /\ RetentionSound /\ PinsOwned /\ AccountsInv /\ MessageHonest
  BY DEF Parts
<1> DEFINE v == SelectVictim(Evictable)
<1>e. /\ handler.at = "room" /\ v \in Evictable /\ v \in Held
      /\ Evict(v)
      /\ UNCHANGED <<policyVars, fault_seq, setup, driver, message>>
      /\ UNCHANGED <<handler, pin, retained, reserved_bytes>>
  <2>1. v # NoChunk => v \in Evictable /\ v \in Held
    BY <1>h, VictimFacts
  <2> QED
    BY <2>1 DEF MakeRoom, policyVars
<1>v. /\ state' = [state EXCEPT ![v] = "ABSENT"] /\ state[v] = "RESIDENT"
      /\ mapped' = mapped \ {v} /\ v \in mapped
      /\ Held' = Held \ {v} /\ Claimed' = Claimed /\ v \notin Claimed
      /\ AccountsInv'
  BY <1>h, <1>e, EvictSound
<1>p. v \notin Range(retained) /\ HandlerPins(v) = 0
  BY <1>h, <1>e, RetainedIsPinned
<1> HIDE DEF v
<1>n. n_touches \in Nat /\ n_touches' = n_touches
  BY <1>h, <1>e, SameTouches DEF Shape
<1>d. driver' = driver /\ touched' = touched
  BY <1>e DEF touched
<1>m. /\ Held' = Held \ {v}
      /\ Claimed' = Claimed
  BY <1>v
<1>1. Shape'
  <2>1. state' \in [Chunks -> {"ABSENT", "FETCHING", "RESIDENT"}]
    BY <1>h, <1>v DEF Shape
  <2> QED
    BY <1>h, <1>e, <1>d, <1>n, <2>1, PolicyFrame DEF Shape
<1>2. LocalsSet'
  BY <1>h, <1>e, <1>d, <1>n DEF LocalsSet, InFault, InPrefetch
<1>3. StagesMatch'
  <2>1. v # handler.chunk
    BY <1>h, <1>e, <1>v, <1>p DEF HandlerPins, One, InPrefetch, StagesMatch, LocalsSet, Held, InFault
  <2> QED
    BY <1>h, <1>e, <1>v, <2>1 DEF StagesMatch, InFault, InPrefetch, Held, Shape
<1>4. MappedExact'
  BY <1>h, <1>e, <1>v DEF MappedExact
<1>5. RetentionSound'
  BY <1>h, <1>e, <1>v, <1>p DEF RetentionSound, prefetch_retention_pinned, Range
<1>6. PinsOwned'
  <2>1. ASSUME NEW c \in Chunks
        PROVE  pin'[c] = One(c \in Range(retained')) + HandlerPins(c)'
    <3>1. /\ pin[c] = One(c \in Range(retained)) + HandlerPins(c)
          /\ HandlerPins(c) \in 0..3 /\ pin \in [Chunks -> Int]
      BY <1>h, PinsSplit DEF Shape
    <3>2. HandlerPins(c)' = HandlerPins(c)
      BY <1>h, <1>e, Table DEF HandlerPins, InPrefetch, One, LocalsSet
    <3>3. pin'[c] = pin[c]
      BY <1>h, <1>e, <3>1 DEF One, LocalsSet
    <3>4. One(c \in Range(retained)) \in 0..1 /\ retained' = retained
      BY <1>e DEF One
    <3> QED
      BY <3>1, <3>2, <3>3, <3>4
  <2> QED
    BY <2>1, PinsNext
<1>7. AccountsInv'
  BY <1>v
<1>8. MessageHonest'
  BY <1>h, <1>e, <1>v, <1>d DEF MessageHonest, Faulting
<1>9. [Promise!Next]_(Promise!vars)
  <2>1. Waiting' = Waiting
    BY <1>h, <1>e, <1>m, <1>d, <1>v, Table DEF Waiting, Faulting, MessageHonest, StagesMatch, MappedExact, InFault, Held
  <2> QED
    BY <1>h, <1>e, <1>m, <2>1, <1>v, PromiseDrops
<1> QED
  BY <1>1, <1>2, <1>3, <1>4, <1>5, <1>6, <1>7, <1>8, <1>9 DEF Parts

\* ensure_budget_prefetch: the victim is admitted and evicted.
LEMMA MakePrefetchRoomEvictKeeps ==
  ASSUME Parts, MakePrefetchRoom, ~ Fits(handler.target)
  PROVE  Parts' /\ [Promise!Next]_(Promise!vars)
<1>h. /\ Shape /\ LocalsSet /\ StagesMatch /\ MappedExact
      /\ RetentionSound /\ PinsOwned /\ AccountsInv /\ MessageHonest
  BY DEF Parts
<1> DEFINE v == SelectVictim(Evictable)
<1>e. /\ handler.at = "proom" /\ v \in Evictable /\ v \in Held
      /\ Evict(v)
      /\ UNCHANGED <<policyVars, fault_seq, setup, driver, message>>
      /\ UNCHANGED <<handler, pin, retained, reserved_bytes>>
  <2>1. v # NoChunk => v \in Evictable /\ v \in Held
    BY <1>h, VictimFacts
  <2> QED
    BY <2>1 DEF MakePrefetchRoom, policyVars
<1>v. /\ state' = [state EXCEPT ![v] = "ABSENT"] /\ state[v] = "RESIDENT"
      /\ mapped' = mapped \ {v} /\ v \in mapped
      /\ Held' = Held \ {v} /\ Claimed' = Claimed /\ v \notin Claimed
      /\ AccountsInv'
  BY <1>h, <1>e, EvictSound
<1>p. v \notin Range(retained) /\ HandlerPins(v) = 0
  BY <1>h, <1>e, RetainedIsPinned
<1> HIDE DEF v
<1>n. n_touches \in Nat /\ n_touches' = n_touches
  BY <1>h, <1>e, SameTouches DEF Shape
<1>d. driver' = driver /\ touched' = touched
  BY <1>e DEF touched
<1>m. /\ Held' = Held \ {v}
      /\ Claimed' = Claimed
  BY <1>v
<1>1. Shape'
  <2>1. state' \in [Chunks -> {"ABSENT", "FETCHING", "RESIDENT"}]
    BY <1>h, <1>v DEF Shape
  <2> QED
    BY <1>h, <1>e, <1>d, <1>n, <2>1, PolicyFrame DEF Shape
<1>2. LocalsSet'
  BY <1>h, <1>e, <1>d, <1>n DEF LocalsSet, InFault, InPrefetch
<1>3. StagesMatch'
  <2>1. v # handler.chunk
    BY <1>h, <1>e, <1>v, <1>p DEF HandlerPins, One, InPrefetch, StagesMatch, LocalsSet, Held, InFault
  <2> QED
    BY <1>h, <1>e, <1>v, <2>1 DEF StagesMatch, InFault, InPrefetch, Held, Shape
<1>4. MappedExact'
  BY <1>h, <1>e, <1>v DEF MappedExact
<1>5. RetentionSound'
  BY <1>h, <1>e, <1>v, <1>p DEF RetentionSound, prefetch_retention_pinned, Range
<1>6. PinsOwned'
  <2>1. ASSUME NEW c \in Chunks
        PROVE  pin'[c] = One(c \in Range(retained')) + HandlerPins(c)'
    <3>1. /\ pin[c] = One(c \in Range(retained)) + HandlerPins(c)
          /\ HandlerPins(c) \in 0..3 /\ pin \in [Chunks -> Int]
      BY <1>h, PinsSplit DEF Shape
    <3>2. HandlerPins(c)' = HandlerPins(c)
      BY <1>h, <1>e, Table DEF HandlerPins, InPrefetch, One, LocalsSet
    <3>3. pin'[c] = pin[c]
      BY <1>h, <1>e, <3>1 DEF One, LocalsSet
    <3>4. One(c \in Range(retained)) \in 0..1 /\ retained' = retained
      BY <1>e DEF One
    <3> QED
      BY <3>1, <3>2, <3>3, <3>4
  <2> QED
    BY <2>1, PinsNext
<1>7. AccountsInv'
  BY <1>v
<1>8. MessageHonest'
  BY <1>h, <1>e, <1>v, <1>d DEF MessageHonest, Faulting
<1>9. [Promise!Next]_(Promise!vars)
  <2>1. Waiting' = Waiting
    BY <1>h, <1>e, <1>m, <1>d, <1>v, Table DEF Waiting, Faulting, MessageHonest
  <2> QED
    BY <1>h, <1>e, <1>m, <2>1, <1>v, PromiseDrops
<1> QED
  BY <1>1, <1>2, <1>3, <1>4, <1>5, <1>6, <1>7, <1>8, <1>9 DEF Parts

\* ensure_budget: the pin of a retained chunk is broken.
LEMMA MakeRoomBreakKeeps ==
  ASSUME Parts, MakeRoom, ~ Fits(handler.chunk), SelectVictim(Evictable) = NoChunk
  PROVE  Parts' /\ [Promise!Next]_(Promise!vars)
<1>h. /\ Shape /\ LocalsSet /\ StagesMatch /\ MappedExact
      /\ RetentionSound /\ PinsOwned /\ AccountsInv /\ MessageHonest
  BY DEF Parts
<1> DEFINE v == BreakVictim
<1>e. /\ handler.at = "room" /\ v # NoChunk /\ Release(v)
      /\ Evict(v)
      /\ UNCHANGED <<policyVars, fault_seq, setup, driver, message>>
      /\ UNCHANGED <<handler, reserved_bytes>>
  BY DEF MakeRoom, policyVars
<1>b. retained = <<v>> /\ v \in Held \ {handler.chunk} /\ Range(retained) = {v}
  BY <1>h, <1>e, BreakFacts DEF Range
<1>v. /\ state' = [state EXCEPT ![v] = "ABSENT"] /\ state[v] = "RESIDENT"
      /\ mapped' = mapped \ {v} /\ v \in mapped
      /\ Held' = Held \ {v} /\ Claimed' = Claimed /\ v \notin Claimed
      /\ AccountsInv'
  BY <1>h, <1>e, <1>b, EvictSound
<1>r. retained' = <<>> /\ Range(retained') = {} /\ pin' = [pin EXCEPT ![v] = @ - 1]
  BY <1>h, <1>e, <1>b, ReleaseEffect
<1> HIDE DEF v
<1>n. n_touches \in Nat /\ n_touches' = n_touches
  BY <1>h, <1>e, SameTouches DEF Shape
<1>d. driver' = driver /\ touched' = touched
  BY <1>e DEF touched
<1>m. /\ Held' = Held \ {v}
      /\ Claimed' = Claimed
  BY <1>v
<1>1. Shape'
  <2>1. state' \in [Chunks -> {"ABSENT", "FETCHING", "RESIDENT"}]
    BY <1>h, <1>v DEF Shape
  <2>2. PolicyTypeOK'
    BY <1>h, <1>e, PolicyFrame DEF Shape
  <2>3. pin' \in [Chunks -> Int]
    BY <1>h, <1>r, <1>b DEF Shape, Held
  <2> QED
    BY <1>h, <1>e, <1>d, <1>n, <2>1, <2>2, <2>3 DEF Shape
<1>2. LocalsSet'
  BY <1>h, <1>e, <1>d, <1>n DEF LocalsSet, InFault, InPrefetch
<1>3. StagesMatch'
  BY <1>h, <1>e, <1>v, <1>b DEF StagesMatch, InFault, InPrefetch, Held, Shape
<1>4. MappedExact'
  BY <1>h, <1>e, <1>v DEF MappedExact
<1>5. RetentionSound'
  BY <1>r DEF RetentionSound
<1>6. PinsOwned'
  <2>1. ASSUME NEW c \in Chunks
        PROVE  pin'[c] = One(c \in Range(retained')) + HandlerPins(c)
    <3>1. /\ pin[c] = One(c \in Range(retained)) + HandlerPins(c)
          /\ HandlerPins(c) \in 0..3 /\ pin \in [Chunks -> Int]
      BY <1>h, PinsSplit DEF Shape
    <3> QED
      BY <1>r, <1>b, <3>1 DEF One
  <2>2. \A c \in Chunks : HandlerPins(c)' = HandlerPins(c)
    BY <1>e DEF HandlerPins, InPrefetch
  <2> QED
    BY <2>1, <2>2, PinsNext
<1>7. AccountsInv'
  BY <1>v
<1>8. MessageHonest'
  BY <1>h, <1>e, <1>v, <1>d DEF MessageHonest, Faulting
<1>9. [Promise!Next]_(Promise!vars)
  <2>1. Waiting' = Waiting
    BY <1>h, <1>e, <1>m, <1>d, <1>v, Table DEF Waiting, Faulting, MessageHonest, StagesMatch, MappedExact, InFault, Held
  <2> QED
    BY <1>h, <1>e, <1>m, <2>1, <1>b, <1>v, PromiseDrops
<1> QED
  BY <1>1, <1>2, <1>3, <1>4, <1>5, <1>6, <1>7, <1>8, <1>9 DEF Parts

\* The fault is given up.
LEMMA AbandonKeeps ==
  ASSUME Parts, Abandon
  PROVE  Parts' /\ [Promise!Next]_(Promise!vars)
<1>h. /\ Shape /\ LocalsSet /\ StagesMatch /\ MappedExact
      /\ RetentionSound /\ PinsOwned /\ AccountsInv /\ MessageHonest
  BY DEF Parts
<1>e. /\ handler.at = "room" /\ handler.chunk \in Chunks
      /\ handler' = [handler EXCEPT !.at = "idle", !.chunk = NoChunk]
      /\ state' = [state EXCEPT ![handler.chunk] = "ABSENT"] /\ Wake(handler.chunk)
      /\ UNCHANGED <<policyVars, fault_seq, setup>>
      /\ UNCHANGED <<mapped, pin, resident_bytes, reserved_bytes, retained>>
  BY <1>h DEF Abandon, LocalsSet, policyVars
<1>n. n_touches \in Nat /\ n_touches' = n_touches
  BY <1>h, <1>e, SameTouches DEF Shape
<1>d. /\ driver'.touch = driver.touch /\ touched' = touched
      /\ driver' \in [at : {"declare", "notify", "release", "read", "missed", "queued", "blocked"}, touch : Nat]
      /\ \/ Faulting /\ touched = handler.chunk /\ driver'.at = "read" /\ message' = NoChunk
         \/ ~ (Faulting /\ touched = handler.chunk) /\ UNCHANGED <<driver, message>>
  BY <1>h, <1>e, WakeSound
<1>m. /\ Held' = Held
      /\ Claimed' = Claimed
  BY <1>h, <1>e DEF Held, Claimed, LocalsSet, InPrefetch, InFault, Shape, StagesMatch
<1>1. Shape'
  <2>1. PolicyTypeOK' /\ fault_seq' \in Nat
    BY <1>h, <1>e, PolicyFrame DEF Shape
  <2>2. state' \in [Chunks -> {"ABSENT", "FETCHING", "RESIDENT"}]
    BY <1>h, <1>e DEF Shape
  <2>3. pin' \in [Chunks -> Int]
    BY <1>h, <1>e DEF Shape
  <2>4. message' \in Chunks \cup {NoChunk}
    BY <1>h, <1>e, <1>d DEF Shape
  <2> QED
    BY <1>h, <1>e, <1>d, <1>n, <2>1, <2>2, <2>3, <2>4 DEF Shape, LocalsSet
<1>2. LocalsSet'
  BY <1>h, <1>e, <1>d, <1>n, Table DEF LocalsSet, InFault, InPrefetch, Faulting
<1>3. StagesMatch'
  BY <1>h, <1>e, <1>m DEF StagesMatch, InFault, InPrefetch, Held, Shape
<1>4. MappedExact'
  BY <1>h, <1>e, <1>m DEF MappedExact
<1>5. RetentionSound'
  BY <1>h, <1>e, <1>m, Table DEF RetentionSound, prefetch_retention_pinned, Held
<1>6. PinsOwned'
  <2>1. ASSUME NEW c \in Chunks
        PROVE  pin'[c] = One(c \in Range(retained')) + HandlerPins(c)'
    <3>1. /\ pin[c] = One(c \in Range(retained)) + HandlerPins(c)
          /\ HandlerPins(c) \in 0..3 /\ pin \in [Chunks -> Int]
      BY <1>h, PinsSplit DEF Shape
    <3>2. HandlerPins(c)' = HandlerPins(c)
      BY <1>h, <1>e, Table DEF HandlerPins, InPrefetch, One, LocalsSet
    <3>3. pin'[c] = pin[c]
      BY <1>h, <1>e, <3>1 DEF One, LocalsSet
    <3>4. One(c \in Range(retained)) \in 0..1 /\ retained' = retained
      BY <1>e DEF One
    <3> QED
      BY <3>1, <3>2, <3>3, <3>4
  <2> QED
    BY <2>1, PinsNext
<1>7. AccountsInv'
  BY <1>h, <1>e, <1>m, AccountsFrame 
<1>8. MessageHonest'
  BY <1>h, <1>e, <1>m, <1>d DEF MessageHonest, Faulting
<1>9. [Promise!Next]_(Promise!vars)
  <2>1. Waiting' = IF Waiting = handler.chunk THEN NoChunk ELSE Waiting
    BY <1>h, <1>e, <1>m, <1>d, Table DEF Waiting, Faulting
  <2> QED
    BY <1>h, <1>e, <1>m, <2>1, PromiseGivesUp
<1> QED
  BY <1>1, <1>2, <1>3, <1>4, <1>5, <1>6, <1>7, <1>8, <1>9 DEF Parts

\* The bytes of the chunk of the fault arrive, and whoever waits for it is woken.
LEMMA FetchKeeps ==
  ASSUME Parts, Fetch("fetch", "commit", handler.chunk)
  PROVE  Parts' /\ [Promise!Next]_(Promise!vars)
<1>h. /\ Shape /\ LocalsSet /\ StagesMatch /\ MappedExact
      /\ RetentionSound /\ PinsOwned /\ AccountsInv /\ MessageHonest
  BY DEF Parts
<1>e. /\ handler.at = "fetch" /\ handler.chunk \in Chunks
      /\ handler' = [handler EXCEPT !.at = "commit"]
      /\ mapped' = mapped \cup {handler.chunk} /\ Wake(handler.chunk)
      /\ UNCHANGED <<policyVars, fault_seq, setup>>
      /\ UNCHANGED <<state, pin, resident_bytes, reserved_bytes, retained>>
  BY <1>h, Table DEF Fetch, Resolve, LocalsSet, InPrefetch, policyVars
<1>n. n_touches \in Nat /\ n_touches' = n_touches
  BY <1>h, <1>e, SameTouches DEF Shape
<1>d. /\ driver'.touch = driver.touch /\ touched' = touched
      /\ driver' \in [at : {"declare", "notify", "release", "read", "missed", "queued", "blocked"}, touch : Nat]
      /\ \/ Faulting /\ touched = handler.chunk /\ driver'.at = "read" /\ message' = NoChunk
         \/ ~ (Faulting /\ touched = handler.chunk) /\ UNCHANGED <<driver, message>>
  BY <1>h, <1>e, WakeSound
<1>m. /\ Held' = Held
      /\ Claimed' = Claimed /\ Claimed = {handler.chunk}
  BY <1>h, <1>e DEF Held, Claimed, LocalsSet, InPrefetch, InFault, Shape, StagesMatch
<1>1. Shape'
  <2>1. PolicyTypeOK' /\ fault_seq' \in Nat
    BY <1>h, <1>e, PolicyFrame DEF Shape
  <2>2. state' \in [Chunks -> {"ABSENT", "FETCHING", "RESIDENT"}]
    BY <1>h, <1>e DEF Shape
  <2>3. pin' \in [Chunks -> Int]
    BY <1>h, <1>e DEF Shape
  <2>4. message' \in Chunks \cup {NoChunk}
    BY <1>h, <1>e, <1>d DEF Shape
  <2> QED
    BY <1>h, <1>e, <1>d, <1>n, <2>1, <2>2, <2>3, <2>4 DEF Shape, LocalsSet
<1>2. LocalsSet'
  BY <1>h, <1>e, <1>d, <1>n DEF LocalsSet, InFault, InPrefetch, Faulting
<1>3. StagesMatch'
  BY <1>h, <1>e, <1>m DEF StagesMatch, InFault, InPrefetch, Held, Shape
<1>4. MappedExact'
  BY <1>h, <1>e, <1>m DEF MappedExact
<1>5. RetentionSound'
  BY <1>h, <1>e, <1>m DEF RetentionSound, prefetch_retention_pinned
<1>6. PinsOwned'
  <2>1. ASSUME NEW c \in Chunks
        PROVE  pin'[c] = One(c \in Range(retained')) + HandlerPins(c)'
    <3>1. /\ pin[c] = One(c \in Range(retained)) + HandlerPins(c)
          /\ HandlerPins(c) \in 0..3 /\ pin \in [Chunks -> Int]
      BY <1>h, PinsSplit DEF Shape
    <3>2. HandlerPins(c)' = HandlerPins(c)
      BY <1>h, <1>e, Table DEF HandlerPins, InPrefetch, One, LocalsSet
    <3>3. pin'[c] = pin[c]
      BY <1>h, <1>e, <3>1 DEF One, LocalsSet
    <3>4. One(c \in Range(retained)) \in 0..1 /\ retained' = retained
      BY <1>e DEF One
    <3> QED
      BY <3>1, <3>2, <3>3, <3>4
  <2> QED
    BY <2>1, PinsNext
<1>7. AccountsInv'
  BY <1>h, <1>e, <1>m, AccountsFrame
<1>8. MessageHonest'
  BY <1>h, <1>e, <1>m, <1>d DEF MessageHonest, Faulting
<1>9. [Promise!Next]_(Promise!vars)
  <2>1. Waiting' = IF Waiting = handler.chunk THEN NoChunk ELSE Waiting
    BY <1>h, <1>e, <1>m, <1>d, Table DEF Waiting, Faulting
  <2> QED
    BY <1>h, <1>e, <1>m, <2>1, PromiseFills
<1> QED
  BY <1>1, <1>2, <1>3, <1>4, <1>5, <1>6, <1>7, <1>8, <1>9 DEF Parts

\* The bytes of the target arrive, and whoever waits for it is woken.
LEMMA PrefetchKeeps ==
  ASSUME Parts, Fetch("pfetch", "pcommit", handler.target)
  PROVE  Parts' /\ [Promise!Next]_(Promise!vars)
<1>h. /\ Shape /\ LocalsSet /\ StagesMatch /\ MappedExact
      /\ RetentionSound /\ PinsOwned /\ AccountsInv /\ MessageHonest
  BY DEF Parts
<1>e. /\ handler.at = "pfetch" /\ handler.target \in Chunks
      /\ handler' = [handler EXCEPT !.at = "pcommit"]
      /\ mapped' = mapped \cup {handler.target} /\ Wake(handler.target)
      /\ UNCHANGED <<policyVars, fault_seq, setup>>
      /\ UNCHANGED <<state, pin, resident_bytes, reserved_bytes, retained>>
  BY <1>h, Table DEF Fetch, Resolve, LocalsSet, InPrefetch, policyVars
<1>n. n_touches \in Nat /\ n_touches' = n_touches
  BY <1>h, <1>e, SameTouches DEF Shape
<1>d. /\ driver'.touch = driver.touch /\ touched' = touched
      /\ driver' \in [at : {"declare", "notify", "release", "read", "missed", "queued", "blocked"}, touch : Nat]
      /\ \/ Faulting /\ touched = handler.target /\ driver'.at = "read" /\ message' = NoChunk
         \/ ~ (Faulting /\ touched = handler.target) /\ UNCHANGED <<driver, message>>
  BY <1>h, <1>e, WakeSound
<1>m. /\ Held' = Held
      /\ Claimed' = Claimed /\ Claimed = {handler.target}
  BY <1>h, <1>e DEF Held, Claimed, LocalsSet, InPrefetch, InFault, Shape, StagesMatch
<1>1. Shape'
  <2>1. PolicyTypeOK' /\ fault_seq' \in Nat
    BY <1>h, <1>e, PolicyFrame DEF Shape
  <2>2. state' \in [Chunks -> {"ABSENT", "FETCHING", "RESIDENT"}]
    BY <1>h, <1>e DEF Shape
  <2>3. pin' \in [Chunks -> Int]
    BY <1>h, <1>e DEF Shape
  <2>4. message' \in Chunks \cup {NoChunk}
    BY <1>h, <1>e, <1>d DEF Shape
  <2> QED
    BY <1>h, <1>e, <1>d, <1>n, <2>1, <2>2, <2>3, <2>4 DEF Shape, LocalsSet
<1>2. LocalsSet'
  BY <1>h, <1>e, <1>d, <1>n DEF LocalsSet, InFault, InPrefetch, Faulting
<1>3. StagesMatch'
  BY <1>h, <1>e, <1>m DEF StagesMatch, InFault, InPrefetch, Held, Shape
<1>4. MappedExact'
  BY <1>h, <1>e, <1>m DEF MappedExact
<1>5. RetentionSound'
  BY <1>h, <1>e, <1>m DEF RetentionSound, prefetch_retention_pinned
<1>6. PinsOwned'
  <2>1. ASSUME NEW c \in Chunks
        PROVE  pin'[c] = One(c \in Range(retained')) + HandlerPins(c)'
    <3>1. /\ pin[c] = One(c \in Range(retained)) + HandlerPins(c)
          /\ HandlerPins(c) \in 0..3 /\ pin \in [Chunks -> Int]
      BY <1>h, PinsSplit DEF Shape
    <3>2. HandlerPins(c)' = HandlerPins(c)
      BY <1>h, <1>e, Table DEF HandlerPins, InPrefetch, One, LocalsSet
    <3>3. pin'[c] = pin[c]
      BY <1>h, <1>e, <3>1 DEF One, LocalsSet
    <3>4. One(c \in Range(retained)) \in 0..1 /\ retained' = retained
      BY <1>e DEF One
    <3> QED
      BY <3>1, <3>2, <3>3, <3>4
  <2> QED
    BY <2>1, PinsNext
<1>7. AccountsInv'
  BY <1>h, <1>e, <1>m, AccountsFrame
<1>8. MessageHonest'
  BY <1>h, <1>e, <1>m, <1>d DEF MessageHonest, Faulting
<1>9. [Promise!Next]_(Promise!vars)
  <2>1. Waiting' = IF Waiting = handler.target THEN NoChunk ELSE Waiting
    BY <1>h, <1>e, <1>m, <1>d, Table DEF Waiting, Faulting
  <2> QED
    BY <1>h, <1>e, <1>m, <2>1, PromiseFills
<1> QED
  BY <1>1, <1>2, <1>3, <1>4, <1>5, <1>6, <1>7, <1>8, <1>9 DEF Parts

\* The chunk of the fault is RESIDENT and pinned.
LEMMA CommitKeeps ==
  ASSUME Parts, Commit
  PROVE  Parts' /\ [Promise!Next]_(Promise!vars)
<1>h. /\ Shape /\ LocalsSet /\ StagesMatch /\ MappedExact
      /\ RetentionSound /\ PinsOwned /\ AccountsInv /\ MessageHonest
  BY DEF Parts
<1>e. /\ handler.at = "commit" /\ handler.chunk \in Chunks
      /\ handler'.at \in {"predict", "unpin"} /\ handler'.chunk = handler.chunk /\ handler'.target = handler.target
      /\ handler' \in [at : {"predict", "unpin"}, chunk : Chunks, target : Chunks \cup {NoChunk}]
      /\ CommitBytes(handler.chunk)
      /\ state' = [state EXCEPT ![handler.chunk] = "RESIDENT"]
      /\ pin' = [pin EXCEPT ![handler.chunk] = @ + 1]
      /\ UNCHANGED <<policyVars, fault_seq, setup, driver, message>>
      /\ UNCHANGED <<mapped, retained>>
  BY <1>h DEF Commit, CommitBytes, Pinned, LocalsSet, policyVars
<1>n. n_touches \in Nat /\ n_touches' = n_touches
  BY <1>h, <1>e, SameTouches DEF Shape
<1>d. driver' = driver /\ touched' = touched
  BY <1>e DEF touched
<1>m. /\ Held' = Held \cup {handler.chunk}
      /\ Claimed' = {} /\ Claimed = {handler.chunk} /\ handler.chunk \notin Held
  BY <1>h, <1>e DEF Held, Claimed, LocalsSet, InPrefetch, InFault, Shape, StagesMatch
<1>1. Shape'
  <2>1. PolicyTypeOK' /\ fault_seq' \in Nat
    BY <1>h, <1>e, PolicyFrame DEF Shape
  <2>2. state' \in [Chunks -> {"ABSENT", "FETCHING", "RESIDENT"}]
    BY <1>h, <1>e DEF Shape
  <2>3. pin' \in [Chunks -> Int]
    BY <1>h, <1>e DEF Shape
  <2>4. message' \in Chunks \cup {NoChunk}
    BY <1>h, <1>e, <1>d DEF Shape
  <2> QED
    BY <1>h, <1>e, <1>d, <1>n, <2>1, <2>2, <2>3, <2>4 DEF Shape, LocalsSet
<1>2. LocalsSet'
  BY <1>h, <1>e, <1>m, <1>n, <1>d DEF LocalsSet, InFault, InPrefetch
<1>3. StagesMatch'
  BY <1>h, <1>e, <1>m DEF StagesMatch, InFault, InPrefetch, Held, Shape
<1>4. MappedExact'
  BY <1>h, <1>e, <1>m DEF MappedExact
<1>5. RetentionSound'
  BY <1>h, <1>e, <1>m DEF RetentionSound, prefetch_retention_pinned
<1>6. PinsOwned'
  <2>1. ASSUME NEW c \in Chunks
        PROVE  pin'[c] = One(c \in Range(retained')) + HandlerPins(c)'
    <3>1. /\ pin[c] = One(c \in Range(retained)) + HandlerPins(c)
          /\ HandlerPins(c) \in 0..3 /\ pin \in [Chunks -> Int]
      BY <1>h, PinsSplit DEF Shape
    <3>2. HandlerPins(c)' = HandlerPins(c) + One(c = handler.chunk)
      BY <1>h, <1>e, Table DEF HandlerPins, InPrefetch, One, LocalsSet
    <3>3. pin'[c] = pin[c] + One(c = handler.chunk)
      BY <1>h, <1>e, <3>1 DEF One, LocalsSet
    <3>4. One(c \in Range(retained)) \in 0..1 /\ retained' = retained
          /\ One(c = handler.chunk) \in 0..1
      BY <1>e DEF One
    <3> QED
      BY <3>1, <3>2, <3>3, <3>4
  <2> QED
    BY <2>1, PinsNext
<1>7. AccountsInv'
  BY <1>h, <1>e, <1>m, CommitAccounts
<1>8. MessageHonest'
  BY <1>h, <1>e, <1>d, <1>m DEF MessageHonest, Faulting
<1>9. [Promise!Next]_(Promise!vars)
  <2>1. Waiting' = Waiting /\ handler.chunk \in mapped
    BY <1>h, <1>e, <1>m, <1>d, Table DEF Waiting, Faulting, MappedExact
  <2> QED
    BY <1>h, <1>e, <1>m, <2>1, PromiseKeeps
<1> QED
  BY <1>1, <1>2, <1>3, <1>4, <1>5, <1>6, <1>7, <1>8, <1>9 DEF Parts

LEMMA UnpinKeeps ==
  ASSUME Parts, Unpin
  PROVE  Parts' /\ [Promise!Next]_(Promise!vars)
<1>h. /\ Shape /\ LocalsSet /\ StagesMatch /\ MappedExact
      /\ RetentionSound /\ PinsOwned /\ AccountsInv /\ MessageHonest
  BY DEF Parts
<1>e. /\ handler.at = "unpin" /\ handler.chunk \in Chunks
      /\ handler' = [at |-> "idle", chunk |-> NoChunk, target |-> NoChunk]
      /\ pin' = [pin EXCEPT ![handler.chunk] = @ - 1]
      /\ UNCHANGED <<policyVars, fault_seq, setup, driver, message>>
      /\ UNCHANGED <<state, mapped, resident_bytes, reserved_bytes, retained>>
  BY <1>h DEF Unpin, Unpinned, LocalsSet, policyVars
<1>n. n_touches \in Nat /\ n_touches' = n_touches
  BY <1>h, <1>e, SameTouches DEF Shape
<1>d. driver' = driver /\ touched' = touched
  BY <1>e DEF touched
<1>m. /\ Held' = Held
      /\ Claimed' = Claimed
  BY <1>h, <1>e DEF Held, Claimed, LocalsSet, InPrefetch, InFault, Shape, StagesMatch
<1>1. Shape'
  <2>1. PolicyTypeOK' /\ fault_seq' \in Nat
    BY <1>h, <1>e, PolicyFrame DEF Shape
  <2>2. state' \in [Chunks -> {"ABSENT", "FETCHING", "RESIDENT"}]
    BY <1>h, <1>e DEF Shape
  <2>3. pin' \in [Chunks -> Int]
    BY <1>h, <1>e DEF Shape
  <2>4. message' \in Chunks \cup {NoChunk}
    BY <1>h, <1>e, <1>d DEF Shape
  <2> QED
    BY <1>h, <1>e, <1>d, <1>n, <2>1, <2>2, <2>3, <2>4 DEF Shape, LocalsSet
<1>2. LocalsSet'
  BY <1>h, <1>e, <1>d, <1>n, Table DEF LocalsSet, InFault, InPrefetch
<1>3. StagesMatch'
  BY <1>h, <1>e, <1>m DEF StagesMatch, InFault, InPrefetch, Held, Shape
<1>4. MappedExact'
  BY <1>h, <1>e, <1>m DEF MappedExact
<1>5. RetentionSound'
  BY <1>h, <1>e, <1>m, Table DEF RetentionSound, prefetch_retention_pinned, Held
<1>6. PinsOwned'
  <2>1. ASSUME NEW c \in Chunks
        PROVE  pin'[c] = One(c \in Range(retained')) + HandlerPins(c)'
    <3>1. /\ pin[c] = One(c \in Range(retained)) + HandlerPins(c)
          /\ HandlerPins(c) \in 0..3 /\ pin \in [Chunks -> Int]
      BY <1>h, PinsSplit DEF Shape
    <3>2. HandlerPins(c)' = HandlerPins(c) - One(c = handler.chunk)
      BY <1>h, <1>e, Table DEF HandlerPins, InPrefetch, One, LocalsSet
    <3>3. pin'[c] = pin[c] - One(c = handler.chunk)
      BY <1>h, <1>e, <3>1 DEF One, LocalsSet
    <3>4. One(c \in Range(retained)) \in 0..1 /\ retained' = retained
          /\ One(c = handler.chunk) \in 0..1
      BY <1>e DEF One
    <3> QED
      BY <3>1, <3>2, <3>3, <3>4
  <2> QED
    BY <2>1, PinsNext
<1>7. AccountsInv'
  BY <1>h, <1>e, <1>m, AccountsFrame 
<1>8. MessageHonest'
  BY <1>h, <1>e, <1>m, <1>d DEF MessageHonest, Faulting
<1>9. [Promise!Next]_(Promise!vars)
  <2>1. Waiting' = Waiting
    BY <1>h, <1>e, <1>m, <1>d, Table DEF Waiting, Faulting
  <2> QED
    BY <1>h, <1>e, <1>m, <2>1, PromiseStutters
<1> QED
  BY <1>1, <1>2, <1>3, <1>4, <1>5, <1>6, <1>7, <1>8, <1>9 DEF Parts

\* maybe_prefetch: there is nothing to fetch ahead.
LEMMA PredictNothingKeeps ==
  ASSUME Parts, Predict, PredictNext(handler.chunk) = handler.chunk \/
         PredictNext(handler.chunk) \notin {x \in Chunks : state[x] = "ABSENT"}
  PROVE  Parts' /\ [Promise!Next]_(Promise!vars)
<1>h. /\ Shape /\ LocalsSet /\ StagesMatch /\ MappedExact
      /\ RetentionSound /\ PinsOwned /\ AccountsInv /\ MessageHonest
  BY DEF Parts
<1>e. /\ handler.at = "predict" /\ handler' = [handler EXCEPT !.at = "unpin"]
      /\ UNCHANGED <<policyVars, fault_seq, setup, driver, message>>
      /\ UNCHANGED <<state, mapped, pin, resident_bytes, reserved_bytes, retained>>
  BY DEF Predict, policyVars
<1>n. n_touches \in Nat /\ n_touches' = n_touches
  BY <1>h, <1>e, SameTouches DEF Shape
<1>d. driver' = driver /\ touched' = touched
  BY <1>e DEF touched
<1>m. /\ Held' = Held
      /\ Claimed' = Claimed
  BY <1>h, <1>e DEF Held, Claimed, LocalsSet, InPrefetch, InFault, Shape, StagesMatch
<1>1. Shape'
  <2>1. PolicyTypeOK' /\ fault_seq' \in Nat
    BY <1>h, <1>e, PolicyFrame DEF Shape
  <2>2. state' \in [Chunks -> {"ABSENT", "FETCHING", "RESIDENT"}]
    BY <1>h, <1>e DEF Shape
  <2>3. pin' \in [Chunks -> Int]
    BY <1>h, <1>e DEF Shape
  <2>4. message' \in Chunks \cup {NoChunk}
    BY <1>h, <1>e, <1>d DEF Shape
  <2> QED
    BY <1>h, <1>e, <1>d, <1>n, <2>1, <2>2, <2>3, <2>4 DEF Shape, LocalsSet
<1>2. LocalsSet'
  BY <1>h, <1>e, <1>m, <1>n, <1>d DEF LocalsSet, InFault, InPrefetch
<1>3. StagesMatch'
  BY <1>h, <1>e, <1>m DEF StagesMatch, InFault, InPrefetch, Held
<1>4. MappedExact'
  BY <1>h, <1>e, <1>m DEF MappedExact
<1>5. RetentionSound'
  BY <1>h, <1>e, <1>m DEF RetentionSound, prefetch_retention_pinned
<1>6. PinsOwned'
  <2>1. ASSUME NEW c \in Chunks
        PROVE  pin'[c] = One(c \in Range(retained')) + HandlerPins(c)'
    <3>1. /\ pin[c] = One(c \in Range(retained)) + HandlerPins(c)
          /\ HandlerPins(c) \in 0..3 /\ pin \in [Chunks -> Int]
      BY <1>h, PinsSplit DEF Shape
    <3>2. HandlerPins(c)' = HandlerPins(c)
      BY <1>h, <1>e, Table DEF HandlerPins, InPrefetch, One, LocalsSet
    <3>3. pin'[c] = pin[c]
      BY <1>h, <1>e, <3>1 DEF One, LocalsSet
    <3>4. One(c \in Range(retained)) \in 0..1 /\ retained' = retained
      BY <1>e DEF One
    <3> QED
      BY <3>1, <3>2, <3>3, <3>4
  <2> QED
    BY <2>1, PinsNext
<1>7. AccountsInv'
  BY <1>h, <1>e, <1>m, AccountsFrame 
<1>8. MessageHonest'
  BY <1>h, <1>e, <1>m, <1>d DEF MessageHonest, Faulting
<1>9. [Promise!Next]_(Promise!vars)
  <2>1. Waiting' = Waiting
    BY <1>h, <1>e, <1>m, <1>d, Table DEF Waiting, Faulting
  <2> QED
    BY <1>h, <1>e, <1>m, <2>1, PromiseStutters
<1> QED
  BY <1>1, <1>2, <1>3, <1>4, <1>5, <1>6, <1>7, <1>8, <1>9 DEF Parts

\* maybe_prefetch: the target is claimed, and both chunks are pinned.
LEMMA PredictTargetKeeps ==
  ASSUME Parts, Predict, PredictNext(handler.chunk) # handler.chunk,
         PredictNext(handler.chunk) \in {x \in Chunks : state[x] = "ABSENT"}
  PROVE  Parts' /\ [Promise!Next]_(Promise!vars)
<1>h. /\ Shape /\ LocalsSet /\ StagesMatch /\ MappedExact
      /\ RetentionSound /\ PinsOwned /\ AccountsInv /\ MessageHonest
  BY DEF Parts
<1> DEFINE t == PredictNext(handler.chunk)
<1>e. /\ handler.at = "predict" /\ handler.chunk \in Chunks
      /\ t \in Chunks /\ t # handler.chunk /\ state[t] = "ABSENT"
      /\ handler' = [handler EXCEPT !.at = "claimed", !.target = t]
      /\ state' = [state EXCEPT ![t] = "FETCHING"]
      /\ fault_seq' = fault_seq + 1 /\ last_fault_seq' = [last_fault_seq EXCEPT ![t] = fault_seq + 1]
      /\ pin' = [[pin EXCEPT ![t] = @ + 1] EXCEPT ![handler.chunk] = @ + 1]
      /\ UNCHANGED <<opt, last_fetched, successor, seq, pos, setup, driver, message>>
      /\ UNCHANGED <<mapped, resident_bytes, reserved_bytes, retained>>
  BY <1>h DEF Predict, PinBoth, Pinned, Stamp, LocalsSet
<1> HIDE DEF t
<1>n. n_touches \in Nat /\ n_touches' = n_touches
  BY <1>h, <1>e, SameTouches DEF Shape
<1>d. driver' = driver /\ touched' = touched
  BY <1>e DEF touched
<1>m. /\ Held' = Held
      /\ Claimed' = Claimed
  BY <1>h, <1>e DEF Held, Claimed, LocalsSet, InPrefetch, InFault, Shape, StagesMatch
<1>1. Shape'
  <2>1. PolicyTypeOK' /\ fault_seq' \in Nat
    <3>1. last_fault_seq \in [Chunks -> Nat] /\ fault_seq \in Nat
      BY <1>h DEF Shape, PolicyTypeOK
    <3>2. last_fault_seq' \in [Chunks -> Nat] /\ fault_seq' \in Nat
      BY <1>e, <3>1
    <3> QED
      BY <1>h, <1>e, <3>2 DEF Shape, PolicyTypeOK
  <2>2. state' \in [Chunks -> {"ABSENT", "FETCHING", "RESIDENT"}]
    BY <1>h, <1>e DEF Shape
  <2>3. pin' \in [Chunks -> Int]
    BY <1>h, <1>e DEF Shape
  <2>4. message' \in Chunks \cup {NoChunk}
    BY <1>h, <1>e, <1>d DEF Shape
  <2> QED
    BY <1>h, <1>e, <1>d, <1>n, <2>1, <2>2, <2>3, <2>4 DEF Shape, LocalsSet
<1>2. LocalsSet'
  BY <1>h, <1>e, <1>m, <1>n, <1>d DEF LocalsSet, InFault, InPrefetch
<1>3. StagesMatch'
  BY <1>h, <1>e, <1>m DEF StagesMatch, InFault, InPrefetch, Held, Shape
<1>4. MappedExact'
  BY <1>h, <1>e, <1>m DEF MappedExact
<1>5. RetentionSound'
  BY <1>h, <1>e, <1>m DEF RetentionSound, prefetch_retention_pinned
<1>6. PinsOwned'
  <2>1. ASSUME NEW c \in Chunks
        PROVE  pin'[c] = One(c \in Range(retained')) + HandlerPins(c)'
    <3>1. /\ pin[c] = One(c \in Range(retained)) + HandlerPins(c)
          /\ HandlerPins(c) \in 0..3 /\ pin \in [Chunks -> Int]
      BY <1>h, PinsSplit DEF Shape
    <3>2. HandlerPins(c)' = HandlerPins(c) + One(c = t) + One(c = handler.chunk)
      BY <1>h, <1>e, Table DEF HandlerPins, InPrefetch, One, LocalsSet
    <3>3. pin'[c] = pin[c] + One(c = t) + One(c = handler.chunk)
      BY <1>h, <1>e, <3>1 DEF One, LocalsSet
    <3>4. One(c \in Range(retained)) \in 0..1 /\ retained' = retained
          /\ One(c = t) \in 0..1
          /\ One(c = handler.chunk) \in 0..1
      BY <1>e DEF One
    <3> QED
      BY <3>1, <3>2, <3>3, <3>4
  <2> QED
    BY <2>1, PinsNext
<1>7. AccountsInv'
  BY <1>h, <1>e, <1>m, AccountsFrame 
<1>8. MessageHonest'
  BY <1>h, <1>e, <1>m, <1>d DEF MessageHonest, Faulting
<1>9. [Promise!Next]_(Promise!vars)
  <2>1. Waiting' = Waiting
    BY <1>h, <1>e, <1>m, <1>d, Table DEF Waiting, Faulting
  <2> QED
    BY <1>h, <1>e, <1>m, <2>1, PromiseStutters
<1> QED
  BY <1>1, <1>2, <1>3, <1>4, <1>5, <1>6, <1>7, <1>8, <1>9 DEF Parts

LEMMA LockBudgetKeeps ==
  ASSUME Parts, LockBudget
  PROVE  Parts' /\ [Promise!Next]_(Promise!vars)
<1>h. /\ Shape /\ LocalsSet /\ StagesMatch /\ MappedExact
      /\ RetentionSound /\ PinsOwned /\ AccountsInv /\ MessageHonest
  BY DEF Parts
<1>e. /\ handler.at = "claimed" /\ handler' = [handler EXCEPT !.at = "proom"]
      /\ UNCHANGED <<policyVars, fault_seq, setup, driver, message>>
      /\ UNCHANGED <<state, mapped, pin, resident_bytes, reserved_bytes, retained>>
  BY DEF LockBudget, policyVars
<1>n. n_touches \in Nat /\ n_touches' = n_touches
  BY <1>h, <1>e, SameTouches DEF Shape
<1>d. driver' = driver /\ touched' = touched
  BY <1>e DEF touched
<1>m. /\ Held' = Held
      /\ Claimed' = Claimed
  BY <1>h, <1>e DEF Held, Claimed, LocalsSet, InPrefetch, InFault, Shape, StagesMatch
<1>1. Shape'
  <2>1. PolicyTypeOK' /\ fault_seq' \in Nat
    BY <1>h, <1>e, PolicyFrame DEF Shape
  <2>2. state' \in [Chunks -> {"ABSENT", "FETCHING", "RESIDENT"}]
    BY <1>h, <1>e DEF Shape
  <2>3. pin' \in [Chunks -> Int]
    BY <1>h, <1>e DEF Shape
  <2>4. message' \in Chunks \cup {NoChunk}
    BY <1>h, <1>e, <1>d DEF Shape
  <2> QED
    BY <1>h, <1>e, <1>d, <1>n, <2>1, <2>2, <2>3, <2>4 DEF Shape, LocalsSet
<1>2. LocalsSet'
  BY <1>h, <1>e, <1>m, <1>n, <1>d DEF LocalsSet, InFault, InPrefetch
<1>3. StagesMatch'
  BY <1>h, <1>e, <1>m DEF StagesMatch, InFault, InPrefetch, Held
<1>4. MappedExact'
  BY <1>h, <1>e, <1>m DEF MappedExact
<1>5. RetentionSound'
  BY <1>h, <1>e, <1>m DEF RetentionSound, prefetch_retention_pinned
<1>6. PinsOwned'
  <2>1. ASSUME NEW c \in Chunks
        PROVE  pin'[c] = One(c \in Range(retained')) + HandlerPins(c)'
    <3>1. /\ pin[c] = One(c \in Range(retained)) + HandlerPins(c)
          /\ HandlerPins(c) \in 0..3 /\ pin \in [Chunks -> Int]
      BY <1>h, PinsSplit DEF Shape
    <3>2. HandlerPins(c)' = HandlerPins(c)
      BY <1>h, <1>e, Table DEF HandlerPins, InPrefetch, One, LocalsSet
    <3>3. pin'[c] = pin[c]
      BY <1>h, <1>e, <3>1 DEF One, LocalsSet
    <3>4. One(c \in Range(retained)) \in 0..1 /\ retained' = retained
      BY <1>e DEF One
    <3> QED
      BY <3>1, <3>2, <3>3, <3>4
  <2> QED
    BY <2>1, PinsNext
<1>7. AccountsInv'
  BY <1>h, <1>e, <1>m, AccountsFrame 
<1>8. MessageHonest'
  BY <1>h, <1>e, <1>m, <1>d DEF MessageHonest, Faulting
<1>9. [Promise!Next]_(Promise!vars)
  <2>1. Waiting' = Waiting
    BY <1>h, <1>e, <1>m, <1>d, Table DEF Waiting, Faulting
  <2> QED
    BY <1>h, <1>e, <1>m, <2>1, PromiseStutters
<1> QED
  BY <1>1, <1>2, <1>3, <1>4, <1>5, <1>6, <1>7, <1>8, <1>9 DEF Parts

\* ensure_budget_prefetch: the target fits.
LEMMA PrefetchReserveKeeps ==
  ASSUME Parts, MakePrefetchRoom, Fits(handler.target)
  PROVE  Parts' /\ [Promise!Next]_(Promise!vars)
<1>h. /\ Shape /\ LocalsSet /\ StagesMatch /\ MappedExact
      /\ RetentionSound /\ PinsOwned /\ AccountsInv /\ MessageHonest
  BY DEF Parts
<1>e. /\ handler.at = "proom" /\ handler.chunk \in Chunks /\ handler.target \in Chunks
      /\ handler' = [handler EXCEPT !.at = "pfetch"]
      /\ Fits(handler.target) /\ Reserve(handler.target)
      /\ pin' = [pin EXCEPT ![handler.chunk] = @ - 1]
      /\ UNCHANGED <<policyVars, fault_seq, setup, driver, message>>
      /\ UNCHANGED <<state, mapped, resident_bytes, retained>>
  BY <1>h, Table DEF MakePrefetchRoom, Unpinned, LocalsSet, InPrefetch, policyVars
<1>n. n_touches \in Nat /\ n_touches' = n_touches
  BY <1>h, <1>e, SameTouches DEF Shape
<1>d. driver' = driver /\ touched' = touched
  BY <1>e DEF touched
<1>m. /\ Held' = Held
      /\ Claimed' = {handler.target} /\ Claimed = {}
  BY <1>h, <1>e DEF Held, Claimed, LocalsSet, InPrefetch, InFault, Shape, StagesMatch
<1>1. Shape'
  <2>1. PolicyTypeOK' /\ fault_seq' \in Nat
    BY <1>h, <1>e, PolicyFrame DEF Shape
  <2>2. state' \in [Chunks -> {"ABSENT", "FETCHING", "RESIDENT"}]
    BY <1>h, <1>e DEF Shape
  <2>3. pin' \in [Chunks -> Int]
    BY <1>h, <1>e DEF Shape
  <2>4. message' \in Chunks \cup {NoChunk}
    BY <1>h, <1>e, <1>d DEF Shape
  <2> QED
    BY <1>h, <1>e, <1>d, <1>n, <2>1, <2>2, <2>3, <2>4 DEF Shape, LocalsSet
<1>2. LocalsSet'
  BY <1>h, <1>e, <1>m, <1>n, <1>d DEF LocalsSet, InFault, InPrefetch
<1>3. StagesMatch'
  BY <1>h, <1>e, <1>m DEF StagesMatch, InFault, InPrefetch, Held
<1>4. MappedExact'
  BY <1>h, <1>e, <1>m DEF MappedExact
<1>5. RetentionSound'
  BY <1>h, <1>e, <1>m DEF RetentionSound, prefetch_retention_pinned
<1>6. PinsOwned'
  <2>1. ASSUME NEW c \in Chunks
        PROVE  pin'[c] = One(c \in Range(retained')) + HandlerPins(c)'
    <3>1. /\ pin[c] = One(c \in Range(retained)) + HandlerPins(c)
          /\ HandlerPins(c) \in 0..3 /\ pin \in [Chunks -> Int]
      BY <1>h, PinsSplit DEF Shape
    <3>2. HandlerPins(c)' = HandlerPins(c) - One(c = handler.chunk)
      BY <1>h, <1>e, Table DEF HandlerPins, InPrefetch, One, LocalsSet
    <3>3. pin'[c] = pin[c] - One(c = handler.chunk)
      BY <1>h, <1>e, <3>1 DEF One, LocalsSet
    <3>4. One(c \in Range(retained)) \in 0..1 /\ retained' = retained
          /\ One(c = handler.chunk) \in 0..1
      BY <1>e DEF One
    <3> QED
      BY <3>1, <3>2, <3>3, <3>4
  <2> QED
    BY <2>1, PinsNext
<1>7. AccountsInv'
  BY <1>h, <1>e, <1>m, ReserveAccounts
<1>8. MessageHonest'
  BY <1>h, <1>e, <1>m, <1>d DEF MessageHonest, Faulting
<1>9. [Promise!Next]_(Promise!vars)
  <2>1. Waiting' = Waiting /\ handler.target \notin Held
    BY <1>h, <1>e, <1>m, <1>d, Table DEF Waiting, Faulting, StagesMatch, InPrefetch, Held
  <2> QED
    BY <1>h, <1>e, <1>m, <2>1, PromiseClaims
<1> QED
  BY <1>1, <1>2, <1>3, <1>4, <1>5, <1>6, <1>7, <1>8, <1>9 DEF Parts

\* ensure_budget_prefetch: no room is made, and everything is undone.
LEMMA PrefetchGivesUpKeeps ==
  ASSUME Parts, PrefetchGivesUp
  PROVE  Parts' /\ [Promise!Next]_(Promise!vars)
<1>h. /\ Shape /\ LocalsSet /\ StagesMatch /\ MappedExact
      /\ RetentionSound /\ PinsOwned /\ AccountsInv /\ MessageHonest
  BY DEF Parts
<1>e. /\ handler.at = "proom" /\ handler.chunk \in Chunks /\ handler.target \in Chunks \ {handler.chunk}
      /\ handler' = [handler EXCEPT !.at = "unpin"]
      /\ state' = [state EXCEPT ![handler.target] = "ABSENT"] /\ Wake(handler.target)
      /\ pin' = [[pin EXCEPT ![handler.chunk] = @ - 1] EXCEPT ![handler.target] = @ - 1]
      /\ UNCHANGED <<policyVars, fault_seq, setup>>
      /\ UNCHANGED <<mapped, resident_bytes, reserved_bytes, retained>>
  BY <1>h, Table DEF PrefetchGivesUp, Unpinned, LocalsSet, InPrefetch, policyVars
<1>n. n_touches \in Nat /\ n_touches' = n_touches
  BY <1>h, <1>e, SameTouches DEF Shape
<1>d. /\ driver'.touch = driver.touch /\ touched' = touched
      /\ driver' \in [at : {"declare", "notify", "release", "read", "missed", "queued", "blocked"}, touch : Nat]
      /\ \/ Faulting /\ touched = handler.target /\ driver'.at = "read" /\ message' = NoChunk
         \/ ~ (Faulting /\ touched = handler.target) /\ UNCHANGED <<driver, message>>
  BY <1>h, <1>e, WakeSound
<1>m. /\ Held' = Held
      /\ Claimed' = Claimed
  BY <1>h, <1>e DEF Held, Claimed, LocalsSet, InPrefetch, InFault, Shape, StagesMatch
<1>1. Shape'
  <2>1. PolicyTypeOK' /\ fault_seq' \in Nat
    BY <1>h, <1>e, PolicyFrame DEF Shape
  <2>2. state' \in [Chunks -> {"ABSENT", "FETCHING", "RESIDENT"}]
    BY <1>h, <1>e DEF Shape
  <2>3. pin' \in [Chunks -> Int]
    BY <1>h, <1>e DEF Shape
  <2>4. message' \in Chunks \cup {NoChunk}
    BY <1>h, <1>e, <1>d DEF Shape
  <2> QED
    BY <1>h, <1>e, <1>d, <1>n, <2>1, <2>2, <2>3, <2>4 DEF Shape, LocalsSet
<1>2. LocalsSet'
  BY <1>h, <1>e, <1>d, <1>n DEF LocalsSet, InFault, InPrefetch, Faulting
<1>3. StagesMatch'
  BY <1>h, <1>e, <1>m DEF StagesMatch, InFault, InPrefetch, Held, Shape
<1>4. MappedExact'
  BY <1>h, <1>e, <1>m DEF MappedExact
<1>5. RetentionSound'
  BY <1>h, <1>e, <1>m DEF RetentionSound, prefetch_retention_pinned
<1>6. PinsOwned'
  <2>1. ASSUME NEW c \in Chunks
        PROVE  pin'[c] = One(c \in Range(retained')) + HandlerPins(c)'
    <3>1. /\ pin[c] = One(c \in Range(retained)) + HandlerPins(c)
          /\ HandlerPins(c) \in 0..3 /\ pin \in [Chunks -> Int]
      BY <1>h, PinsSplit DEF Shape
    <3>2. HandlerPins(c)' = HandlerPins(c) - One(c = handler.target) - One(c = handler.chunk)
      BY <1>h, <1>e, Table DEF HandlerPins, InPrefetch, One, LocalsSet
    <3>3. pin'[c] = pin[c] - One(c = handler.target) - One(c = handler.chunk)
      BY <1>h, <1>e, <3>1 DEF One, LocalsSet
    <3>4. One(c \in Range(retained)) \in 0..1 /\ retained' = retained
          /\ One(c = handler.target) \in 0..1
          /\ One(c = handler.chunk) \in 0..1
      BY <1>e DEF One
    <3> QED
      BY <3>1, <3>2, <3>3, <3>4
  <2> QED
    BY <2>1, PinsNext
<1>7. AccountsInv'
  BY <1>h, <1>e, <1>m, AccountsFrame 
<1>8. MessageHonest'
  BY <1>h, <1>e, <1>m, <1>d DEF MessageHonest, Faulting
<1>9. [Promise!Next]_(Promise!vars)
  <2>1. Waiting' = IF Waiting = handler.target THEN NoChunk ELSE Waiting
    BY <1>h, <1>e, <1>m, <1>d, Table DEF Waiting, Faulting
  <2> QED
    BY <1>h, <1>e, <1>m, <2>1, PromiseGivesUp
<1> QED
  BY <1>1, <1>2, <1>3, <1>4, <1>5, <1>6, <1>7, <1>8, <1>9 DEF Parts

\* The target is RESIDENT, and its pin is kept or dropped.
LEMMA RetainKeeps ==
  ASSUME Parts, Retain
  PROVE  Parts' /\ [Promise!Next]_(Promise!vars)
<1>h. /\ Shape /\ LocalsSet /\ StagesMatch /\ MappedExact
      /\ RetentionSound /\ PinsOwned /\ AccountsInv /\ MessageHonest
  BY DEF Parts
<1>e. /\ handler.at = "pcommit" /\ handler.chunk \in Chunks /\ handler.target \in Chunks \ {handler.chunk}
      /\ handler' = [handler EXCEPT !.at = "unpin", !.target = NoChunk]
      /\ CommitBytes(handler.target)
      /\ state' = [state EXCEPT ![handler.target] = "RESIDENT"]
      /\ \/ /\ prefetch_retention_pinned /\ DropOldest /\ retained' = <<handler.target>>
            /\ Range(retained') = {handler.target}
         \/ pin' = [pin EXCEPT ![handler.target] = @ - 1] /\ UNCHANGED retained
      /\ UNCHANGED <<policyVars, fault_seq, setup, driver, message>>
      /\ mapped' = mapped
  <2>1. \/ /\ prefetch_retention_pinned /\ DropOldest /\ retained' = <<handler.target>>
        \/ pin' = [pin EXCEPT ![handler.target] = @ - 1] /\ UNCHANGED retained
    BY DEF Retain, Unpinned
  <2>2. retained' = <<handler.target>> => Range(retained') = {handler.target}
    BY DEF Range
  <2> QED
    BY <1>h, <2>1, <2>2, Table DEF Retain, CommitBytes, LocalsSet, InPrefetch, policyVars
<1>r. \/ retained = <<>> /\ Range(retained) = {}
      \/ \E d \in Held \ {handler.chunk} :
           retained = <<d>> /\ Range(retained) = {d} /\ Head(retained) = d
  BY <1>h, OneRetained
<1>p. \/ /\ retained' = <<handler.target>> /\ Range(retained') = {handler.target}
         /\ prefetch_retention_pinned
         /\ \/ retained = <<>> /\ Range(retained) = {} /\ pin' = pin
            \/ \E d \in Held \ {handler.chunk} : Range(retained) = {d} /\ pin' = [pin EXCEPT ![d] = @ - 1]
      \/ pin' = [pin EXCEPT ![handler.target] = @ - 1] /\ retained' = retained
  BY <1>e, <1>r DEF DropOldest, Unpinned
<1>n. n_touches \in Nat /\ n_touches' = n_touches
  BY <1>h, <1>e, SameTouches DEF Shape
<1>d. driver' = driver /\ touched' = touched
  BY <1>e DEF touched
<1>m. /\ Held' = Held \cup {handler.target}
      /\ Claimed' = {} /\ Claimed = {handler.target} /\ handler.target \notin Held
  BY <1>h, <1>e DEF Held, Claimed, LocalsSet, InPrefetch, InFault, Shape, StagesMatch
<1>1. Shape'
  <2>1. PolicyTypeOK' /\ fault_seq' \in Nat
    BY <1>h, <1>e, PolicyFrame DEF Shape
  <2>2. state' \in [Chunks -> {"ABSENT", "FETCHING", "RESIDENT"}]
    BY <1>h, <1>e DEF Shape
  <2>3. pin' \in [Chunks -> Int]
    BY <1>h, <1>e, <1>p DEF Shape, Held
  <2>4. message' \in Chunks \cup {NoChunk}
    BY <1>h, <1>e, <1>d DEF Shape
  <2> QED
    BY <1>h, <1>e, <1>d, <1>n, <2>1, <2>2, <2>3, <2>4 DEF Shape, LocalsSet
<1>2. LocalsSet'
  BY <1>h, <1>e, <1>d, <1>n, Table DEF LocalsSet, InFault, InPrefetch
<1>3. StagesMatch'
  BY <1>h, <1>e, <1>m DEF StagesMatch, InFault, InPrefetch, Held, Shape
<1>4. MappedExact'
  BY <1>h, <1>e, <1>m DEF MappedExact
<1>5. RetentionSound'
  <2>1. CASE retained' = <<handler.target>> /\ prefetch_retention_pinned
    BY <1>e, <1>m, <2>1 DEF RetentionSound, prefetch_retention_pinned
  <2>2. CASE retained' = retained
    BY <1>h, <1>e, <1>m, <2>2 DEF RetentionSound, prefetch_retention_pinned
  <2> QED
    BY <1>p, <2>1, <2>2
<1>6. PinsOwned'
  <2>1. ASSUME NEW c \in Chunks
        PROVE  pin'[c] = One(c \in Range(retained')) + HandlerPins(c)'
    <3>1. /\ pin[c] = One(c \in Range(retained)) + HandlerPins(c)
          /\ HandlerPins(c) \in 0..3 /\ pin \in [Chunks -> Int]
      BY <1>h, PinsSplit DEF Shape
    <3>2. HandlerPins(c)' = HandlerPins(c) - One(c = handler.target)
      BY <1>h, <1>e, Table DEF HandlerPins, InPrefetch, One, LocalsSet
    <3>3. CASE pin' = [pin EXCEPT ![handler.target] = @ - 1] /\ retained' = retained
      <4>1. pin'[c] = pin[c] - One(c = handler.target)
        BY <1>e, <3>1, <3>3 DEF One
      <4>2. One(c = handler.target) \in 0..1 /\ One(c \in Range(retained)) \in 0..1
        BY DEF One
      <4> QED
        BY <3>1, <3>2, <3>3, <4>1, <4>2
    <3>4. CASE \/ retained = <<>> /\ Range(retained) = {} /\ pin' = pin
               \/ \E d \in Held \ {handler.chunk} : Range(retained) = {d} /\ pin' = [pin EXCEPT ![d] = @ - 1]
      <4>1. pin'[c] = pin[c] - One(c \in Range(retained))
        BY <3>1, <3>4 DEF One
      <4>2. One(c = handler.target) \in 0..1 /\ One(c \in Range(retained)) \in 0..1
        BY DEF One
      <4>3. CASE Range(retained') = {handler.target}
        <5>1. One(c \in Range(retained')) = One(c = handler.target)
          BY <4>3 DEF One
        <5> QED
          BY <3>1, <3>2, <4>1, <4>2, <5>1
      <4> QED
        BY <1>p, <3>3, <4>3
    <3> QED
      BY <1>p, <3>3, <3>4
  <2> QED
    BY <2>1, PinsNext
<1>7. AccountsInv'
  BY <1>h, <1>e, <1>m, CommitAccounts
<1>8. MessageHonest'
  BY <1>h, <1>e, <1>m, <1>d DEF MessageHonest, Faulting
<1>9. [Promise!Next]_(Promise!vars)
  <2>1. Waiting' = Waiting /\ handler.target \in mapped
    BY <1>h, <1>e, <1>m, <1>d, Table DEF Waiting, Faulting, MappedExact
  <2> QED
    BY <1>h, <1>e, <1>m, <2>1, PromiseKeeps
<1> QED
  BY <1>1, <1>2, <1>3, <1>4, <1>5, <1>6, <1>7, <1>8, <1>9 DEF Parts

-----------------------------------------------------------------------------
(* The invariant *)

LEMMA StartsInParts ==
  ASSUME Init
  PROVE  /\ Parts /\ Claimed = {} /\ Held = {} /\ mapped = {}
         /\ WaitsFor = [t \in {"driver"} |-> NoChunk]
<1>1. /\ handler = [at |-> "idle", chunk |-> NoChunk, target |-> NoChunk]
      /\ driver = [at |-> "declare", touch |-> 0]
      /\ state = [c \in Chunks |-> "ABSENT"] /\ pin = [c \in Chunks |-> 0]
      /\ resident_bytes = 0 /\ reserved_bytes = 0 /\ retained = <<>> /\ mapped = {}
      /\ message = NoChunk /\ fault_seq = 0 /\ setup \in Setups
  BY DEF Init
<1>2. Held = {} /\ Claimed = {}
  BY <1>1 DEF Held, Claimed
<1>3. PolicyTypeOK
  BY DEF Init, PolicyInit, PolicyTypeOK
<1>4. n_touches \in Nat /\ budget_bytes \in Nat
  <2>1. n_passes \in Nat /\ budget_bytes \in Nat /\ n_chunks \in Nat
    BY <1>1, Region, Table
  <2> QED
    BY <2>1 DEF n_touches
<1>5. Shape
  BY <1>1, <1>3, <1>4 DEF Shape
<1>6. LocalsSet
  BY <1>1, Table DEF LocalsSet, InFault, InPrefetch
<1>7. StagesMatch /\ MappedExact /\ RetentionSound
  BY <1>1, <1>2 DEF StagesMatch, MappedExact, RetentionSound, InFault, InPrefetch
<1>8. PinsOwned
  BY <1>1, Table DEF PinsOwned, One, InPrefetch, Range
<1>9. AccountsInv
  <2>1. BytesOf({}) = 0
    BY Counted, ByteCountEmpty
  <2> QED
    BY <1>1, <1>2, <1>4, <2>1 DEF AccountsInv
<1>10. MessageHonest
  BY <1>1 DEF MessageHonest, Faulting
<1>11. WaitsFor = [t \in {"driver"} |-> NoChunk]
  BY <1>1 DEF WaitsFor, Faulting
<1> QED
  BY <1>1, <1>2, <1>5, <1>6, <1>7, <1>8, <1>9, <1>10, <1>11 DEF Parts

LEMMA StutterKeeps ==
  ASSUME Parts, UNCHANGED vars
  PROVE  Parts' /\ [Promise!Next]_(Promise!vars)
<1>1. UNCHANGED <<Held, Claimed, Waiting, touched, n_touches, Faulting>>
  BY DEF Held, Claimed, Waiting, touched, n_touches, n_passes, Faulting
<1>2. [Promise!Next]_(Promise!vars)
  BY <1>1, PromiseStutters
<1>3. /\ Shape' /\ LocalsSet' /\ StagesMatch' /\ MappedExact' /\ RetentionSound'
      /\ PinsOwned' /\ MessageHonest'
  <2>1. PolicyTypeOK'
    BY PolicyFrame DEF Parts, Shape, policyVars
  <2> QED
    BY <1>1, <2>1 DEF Parts, Shape, LocalsSet, StagesMatch, MappedExact, RetentionSound,
                     PinsOwned, MessageHonest, InFault, InPrefetch, prefetch_retention_pinned
<1>4. AccountsInv'
  BY <1>1, AccountsFrame DEF Parts
<1> QED
  BY <1>2, <1>3, <1>4 DEF Parts

LEMMA StepKeeps ==
  ASSUME Parts, [Next]_vars
  PROVE  Parts' /\ [Promise!Next]_(Promise!vars)
<1>1. CASE Driver
  BY <1>1, DeclareOrderKeeps, NotifyPolicyKeeps, NotifyRetentionKeeps, ReadKeeps, FaultKeeps,
     MustWaitKeeps DEF Driver
<1>2. CASE HandleFault
  BY <1>2, HandleResidentKeeps, HandleAbsentKeeps
<1>3. CASE MakeRoom
  BY <1>3, MakeRoomReserveKeeps, MakeRoomEvictKeeps, MakeRoomBreakKeeps
<1>4. CASE Predict
  BY <1>4, PredictNothingKeeps, PredictTargetKeeps
<1>5. CASE MakePrefetchRoom
  BY <1>5, PrefetchReserveKeeps, MakePrefetchRoomEvictKeeps
<1>6. CASE Fetch("fetch", "commit", handler.chunk)
  BY <1>6, FetchKeeps
<1>7. CASE Fetch("pfetch", "pcommit", handler.target)
  BY <1>7, PrefetchKeeps
<1>8. CASE Abandon \/ Commit \/ Unpin \/ LockBudget \/ PrefetchGivesUp \/ Retain
  BY <1>8, AbandonKeeps, CommitKeeps, UnpinKeeps, LockBudgetKeeps, PrefetchGivesUpKeeps,
     RetainKeeps
<1>9. CASE UNCHANGED vars
  BY <1>9, StutterKeeps
<1> QED
  BY <1>1, <1>2, <1>3, <1>4, <1>5, <1>6, <1>7, <1>8, <1>9 DEF Next, Handler

LEMMA Invariance == Spec => []Parts
<1>1. Init => Parts
  BY StartsInParts
<1>2. Parts /\ [Next]_vars => Parts'
  BY StepKeeps
<1> QED
  BY <1>1, <1>2, PTL DEF Spec

-----------------------------------------------------------------------------
(* What follows from it *)

\* Whatever way a fetch or a prefetch ends, its early returns included, every
\* pin has one owner, no reservation or claim is left behind, and no pin that
\* maybe_prefetch changes without budget_lock is one that pager_notify_access
\* may change (pager.c, prefetch.c, budget.c).
THEOREM HandlerLeaksNothing == Spec => []NothingLeaked
<1>1. ASSUME Parts PROVE NothingLeaked
  <2>h. /\ Shape /\ LocalsSet /\ StagesMatch /\ MappedExact
        /\ RetentionSound /\ PinsOwned /\ AccountsInv
    BY <1>1 DEF Parts
  <2>1. UnlockedPinsArePrivate
    <3>1. ASSUME InPrefetch, NEW c \in Range(retained)
          PROVE  c \in Held /\ c # handler.chunk
      BY <2>h, <3>1, OneRetained
    <3> QED
      BY <2>h, <3>1 DEF UnlockedPinsArePrivate, StagesMatch, Held
  <2>2. /\ ChunkLen \in [Chunks -> Nat] /\ budget_bytes \in Nat
        /\ resident_bytes \in Nat /\ reserved_bytes = ByteCount(ChunkLen, Claimed)
        /\ reserved_bytes \in Nat /\ resident_bytes + reserved_bytes <= budget_bytes
    BY <2>h, AccountsNow
  <2>3. NothingLeftInFlight
    <3>1. ASSUME HandlerAt("idle") PROVE Claimed = {} /\ ~ InFault /\ ~ InPrefetch
      BY <3>1 DEF Claimed, InFault, InPrefetch
    <3>2. ByteCount(ChunkLen, {}) = 0
      BY ByteCountEmpty
    <3> QED
      BY <2>h, <2>2, <3>1, <3>2 DEF NothingLeftInFlight, StagesMatch, MappedExact, Held
  <2>4. pin \in [Chunks -> 0..3]
    <3>1. ASSUME NEW c \in Chunks PROVE pin[c] \in 0..3
      <4>1. pin[c] = One(c \in Range(retained)) + HandlerPins(c) /\ HandlerPins(c) \in 0..3
        BY <2>h, PinsSplit
      <4>2. c \in Range(retained) => HandlerPins(c) = 0
        <5>1. ASSUME c \in Range(retained) PROVE c \in Held /\ c # handler.chunk
          BY <2>h, <5>1, OneRetained
        <5> QED
          BY <2>h, <5>1 DEF HandlerPins, One, StagesMatch, Held
      <4> QED
        BY <4>1, <4>2 DEF One
    <3> QED
      BY <2>h, <3>1 DEF Shape
  <2>5. Len(retained) <= 1 /\ Range(retained) \subseteq Chunks
    <3>1. Len(retained) = 0 \/ Len(retained) = 1
      BY <2>h, OneRetained
    <3>2. Range(retained) \subseteq Held
      BY <2>h, OneRetained
    <3>3. Len(retained) <= 1
      <4> DEFINE n == Len(retained)
      <4>1. n = 0 \/ n = 1
        BY <3>1
      <4> HIDE DEF n
      <4>2. n <= 1
        BY <4>1
      <4> QED
        BY <4>2 DEF n
    <3>4. Range(retained) \subseteq Chunks
      BY <3>2 DEF Held
    <3> QED
      BY <3>3, <3>4
  <2>6. mapped \subseteq Chunks
    BY <2>h, Table DEF MappedExact, Held, Claimed, LocalsSet, InPrefetch
  <2>7. driver.touch \in 0..n_touches
    <3>1. n_touches \in Nat
      <4>1. n_passes \in Nat /\ n_chunks \in Nat
        BY <2>h, Region, Table DEF Shape
      <4> QED
        BY <4>1 DEF n_touches
    <3> QED
      BY <2>h, <3>1 DEF Shape, LocalsSet
  <2>8. TypeOK
    BY <2>h, <2>2, <2>4, <2>5, <2>6, <2>7 DEF TypeOK, Shape
  <2> QED
    BY <2>h, <2>1, <2>3, <2>8 DEF NothingLeaked
<1> QED
  BY <1>1, Invariance, PTL

\* The fault being handled always finds room if its chunk fits the budget at all,
\* and neither victim is a chunk that the handler has locked (pager.c:87,
\* prefetch.c:54-59, budget.c:85-86).
THEOREM HandlerFindsRoom == Spec => []RoomCanBeMade
<1>1. ASSUME Parts PROVE RoomCanBeMade
  <2>h. /\ Shape /\ LocalsSet /\ StagesMatch /\ MappedExact
        /\ RetentionSound /\ PinsOwned /\ AccountsInv
    BY <1>1 DEF Parts
  <2>1. /\ Evictable \subseteq Held
        /\ SelectVictim(Evictable) \in Evictable \cup {NoChunk}
    BY <2>h, VictimFacts
  <2>2. /\ BreakVictim # NoChunk => BreakVictim \in Held \ {handler.chunk}
        /\ retained # <<>> => BreakVictim # NoChunk
    BY <2>h, BreakFacts
  <2>3. NoSelfLock
    <3>1. ASSUME budget_locked, NEW v \in Evictable PROVE v # handler.chunk
      <4>1. HandlerPins(v) = 0
        BY <2>h, RetainedIsPinned
      <4>2. HandlerAt("proom") => v # handler.chunk
        BY <4>1 DEF HandlerPins, One
      <4>3. HandlerAt("room") => handler.chunk \notin Held
        BY <2>h DEF StagesMatch, InFault, Held
      <4> QED
        BY <2>1, <3>1, <4>2, <4>3 DEF budget_locked
    <3>2. budget_locked => handler.target \notin Held \/ handler.target = NoChunk
      BY <2>h DEF budget_locked, LocalsSet, StagesMatch, InFault, InPrefetch, Held
    <3> QED
      BY <2>1, <2>2, <3>1, <3>2 DEF NoSelfLock
  <2>4. DemandNeverInfeasible
    <3> SUFFICES ASSUME HandlerAt("room"), ChunkLen[handler.chunk] <= budget_bytes,
                        Evictable = {}, BreakVictim = NoChunk
                 PROVE  Fits(handler.chunk)
      BY DEF DemandNeverInfeasible
    <3>1. retained = <<>> /\ Range(retained) = {}
      BY <2>2 DEF Range
    <3>2. Held = {}
      <4> SUFFICES ASSUME NEW c \in Held PROVE FALSE
        OBVIOUS
      <4>1. c \in Chunks /\ state[c] = "RESIDENT"
        BY DEF Held
      <4>2. pin[c] = One(c \in Range(retained)) + HandlerPins(c)
        BY <2>h, <4>1, PinsSplit
      <4>3. c # handler.chunk /\ ~ InPrefetch
        BY <2>h, <4>1 DEF StagesMatch, InFault, InPrefetch
      <4>4. HandlerPins(c) = 0 /\ One(c \in Range(retained)) = 0
        BY <3>1, <4>3 DEF HandlerPins, One
      <4> QED
        BY <4>1, <4>2, <4>4 DEF Evictable
    <3>3. Claimed = {}
      BY DEF Claimed
    <3>4. /\ resident_bytes = ByteCount(ChunkLen, {}) /\ reserved_bytes = ByteCount(ChunkLen, {})
          /\ ChunkLen \in [Chunks -> Nat]
      BY <2>h, <3>2, <3>3, AccountsNow
    <3>5. ByteCount(ChunkLen, {}) = 0
      BY ByteCountEmpty
    <3>6. ChunkLen[handler.chunk] \in Nat
      BY <2>h, <3>4 DEF LocalsSet, InFault
    <3> QED
      BY <3>4, <3>5, <3>6 DEF Fits
  <2> QED
    BY <2>3, <2>4 DEF RoomCanBeMade
<1> QED
  BY <1>1, Invariance, PTL

\* The single-threaded handler implements Residency: it claims within the
\* budget before it fetches, a chunk is readable only when filled, and the
\* reader waits only for what is not readable (region.h, budget.h).
THEOREM HandlerKeepsPromise == Spec => KeepsPromise
<1>1. Init => Promise!Init
  BY StartsInParts DEF Promise!Init
<1>2. Parts /\ [Next]_vars => [Promise!Next]_(Promise!vars)
  BY StepKeeps
<1> QED
  BY <1>1, <1>2, Invariance, PTL DEF Spec, KeepsPromise, Promise!Spec

-----------------------------------------------------------------------------
(* The order of the replay, and what prefetching along it displaces *)

NextOf(c) == (c + 1) % n_chunks

\* While the handler prefetches the chunk that follows the fault's, the driver
\* has come no further than that.
OrderInv ==
  /\ driver.at = "declare" => HandlerAt("idle")
  /\ opt.policy = "declared" =>
       /\ driver.at # "declare" => seq = [i \in 1..n_chunks |-> i - 1]
       /\ InPrefetch => handler.target = NextOf(handler.chunk)
       /\ handler.at \in {"commit", "predict", "claimed", "proom", "pfetch"}
            /\ NextOf(handler.chunk) \notin mapped
          => touched \in {handler.chunk, NextOf(handler.chunk)}

LEMMA NextTouched ==
  ASSUME driver.touch \in Nat
  PROVE  (driver.touch + 1) % n_chunks = NextOf(touched)
<1>1. n_chunks \in Nat \ {0}
  BY Table
<1>2. ((driver.touch % n_chunks) + 1) % n_chunks = (driver.touch + 1) % n_chunks
  BY <1>1, ModAdd
<1> QED
  BY <1>2 DEF NextOf, touched

LEMMA OrderPredicts ==
  ASSUME opt.policy = "declared", seq = [i \in 1..n_chunks |-> i - 1], NEW c \in Chunks
  PROVE  PredictNext(c) = NextOf(c)
<1> DEFINE n == n_chunks
<1>1. n \in Nat \ {0} /\ Chunks = 0..(n - 1)
  BY Table DEF Chunks
<1>2. Len(seq) = n
  BY <1>1
<1>3. \A k \in 1..n : seq[k] = k - 1
  OBVIOUS
<1> HIDE DEF n
<1>4. c \in 0..(n - 1) /\ c + 1 \in 1..n /\ (c + 1) - 1 = c
  BY <1>1
<1>5. Occurrences(c) = {c + 1}
  <2>1. Occurrences(c) = {k \in 1..n : seq[k] = c}
    BY <1>2 DEF Occurrences
  <2>2. \A k \in 1..n : seq[k] = c <=> k = c + 1
    BY <1>1, <1>3, <1>4
  <2> QED
    BY <1>4, <2>1, <2>2
<1>6. Max({c + 1}) = c + 1
  <2> DEFINE T == {c + 1}
  <2>1. T \in SUBSET Int /\ c + 1 \in T /\ \A k \in T : k <= c + 1
    BY <1>4
  <2> HIDE DEF T
  <2>2. Max(T) = c + 1
    BY <2>1, MaxIs
  <2> QED
    BY <2>2 DEF T
<1>7. At(c + 1) = (c + 1) % n
  <2> DEFINE r == (c + 1) % n
  <2>1. r \in 0..(n - 1)
    BY <1>1, <1>4, DivMod
  <2>2. At(c + 1) = seq[r + 1]
    BY <1>2 DEF At
  <2> HIDE DEF r
  <2>3. r + 1 \in 1..n /\ (r + 1) - 1 = r
    BY <1>1, <2>1
  <2>4. seq[r + 1] = r
    BY <1>3, <2>3
  <2> QED
    BY <2>2, <2>4 DEF r
<1>8. PredictNext(c) = At(c + 1)
  BY <1>5, <1>6 DEF PredictNext, NextInSeq
<1> QED
  BY <1>7, <1>8 DEF NextOf, n

LEMMA OrderInit == Init => OrderInv
BY DEF Init, OrderInv, InPrefetch

\* A step that moves neither the driver's touch nor the handler on.
LEMMA OrderFrame ==
  ASSUME OrderInv, UNCHANGED <<opt, seq, handler, mapped, touched>>,
         driver' = driver \/ (driver.at # "declare" /\ driver'.at # "declare")
  PROVE  OrderInv'
BY DEF OrderInv, InPrefetch, NextOf

LEMMA DriverKeepsOrder ==
  ASSUME Parts, OrderInv, Driver
  PROVE  OrderInv'
<1>h. LocalsSet /\ Shape /\ MappedExact /\ StagesMatch
  BY DEF Parts
<1>d. driver = [at |-> driver.at, touch |-> driver.touch] /\ driver.touch \in Nat
  BY <1>h DEF LocalsSet
<1>1. CASE DeclareOrder
  <2>1. /\ driver.at = "declare" /\ driver'.at # "declare"
        /\ UNCHANGED <<opt, handler, mapped>>
        /\ opt.policy = "declared" => seq' = [i \in 1..n_chunks |-> i - 1]
    BY <1>1, <1>d DEF DeclareOrder, DeclareSequence
  <2>2. HandlerAt("idle")
    BY <2>1 DEF OrderInv
  <2> QED
    BY <2>1, <2>2 DEF OrderInv, InPrefetch
<1>2. CASE NotifyPolicy \/ NotifyRetention \/ Fault \/ MustWait
  <2>1. /\ UNCHANGED <<opt, seq, handler, mapped>>
        /\ driver.at # "declare" /\ driver'.at # "declare" /\ driver'.touch = driver.touch
    BY <1>2, <1>d DEF NotifyPolicy, NotifyRetention, Fault, MustWait
  <2>2. touched' = touched
    BY <2>1 DEF touched
  <2> QED
    BY <2>1, <2>2, OrderFrame
<1>3. CASE Read
  <2>1. /\ UNCHANGED <<opt, seq, handler, mapped>>
        /\ driver.at = "read" /\ driver'.at # "declare"
        /\ driver'.touch = IF touched \in mapped THEN driver.touch + 1 ELSE driver.touch
    BY <1>3, <1>d DEF Read
  <2>2. CASE touched \notin mapped
    <3>1. touched' = touched
      BY <2>1, <2>2 DEF touched
    <3> QED
      BY <2>1, <3>1, OrderFrame
  <2>3. CASE touched \in mapped
    <3>1. touched' = NextOf(touched)
      BY <1>d, <2>1, <2>3, NextTouched DEF touched
    <3>2. touched \in {handler.chunk, NextOf(handler.chunk)} /\ NextOf(handler.chunk) \notin mapped
          => touched' = NextOf(handler.chunk)
      BY <2>3, <3>1
    <3>3. NextOf(handler.chunk)' = NextOf(handler.chunk)
      BY <2>1 DEF NextOf
    <3> QED
      BY <2>1, <3>2, <3>3 DEF OrderInv, InPrefetch
  <2> QED
    BY <2>2, <2>3
<1> QED
  BY <1>1, <1>2, <1>3 DEF Driver

LEMMA HandleFaultEffect ==
  ASSUME Shape, HandleFault
  PROVE  /\ message # NoChunk /\ UNCHANGED <<opt, seq, mapped>>
         /\ handler' = handler \/ handler'.at = "room"
         /\ driver' = driver \/ Wake(message)
<1>1. /\ HandlerAt("idle") /\ message # NoChunk /\ UNCHANGED <<opt, seq, mapped>>
      /\ CASE state[message] = "RESIDENT" ->
                Wake(message) /\ UNCHANGED <<handler, state, learnVars>>
           [] state[message] = "FETCHING" ->
                message' = NoChunk /\ UNCHANGED <<driver, handler, state, learnVars>>
           [] state[message] = "ABSENT" ->
                /\ Stamp(message)
                /\ OnFault(message)
                /\ handler' = [at |-> "room", chunk |-> message, target |-> NoChunk]
                /\ message' = NoChunk
                /\ UNCHANGED driver
  BY DEF HandleFault
<1>2. state[message] \in {"ABSENT", "FETCHING", "RESIDENT"}
  BY <1>1 DEF Shape
<1>3. CASE state[message] = "RESIDENT"
  BY <1>1, <1>3
<1>4. CASE state[message] = "FETCHING"
  BY <1>1, <1>4
<1>5. CASE state[message] = "ABSENT"
  BY <1>1, <1>5
<1> QED
  BY <1>1, <1>2, <1>3, <1>4, <1>5

\* What the handler does to the driver is to wake it.
LEMMA HandlerWakes ==
  ASSUME Parts, Handler
  PROVE  /\ UNCHANGED <<opt, seq, touched>>
         /\ driver' = driver \/ (driver.at # "declare" /\ driver'.at # "declare")
<1>d. driver = [at |-> driver.at, touch |-> driver.touch]
  BY DEF Parts, LocalsSet
<1>1. ASSUME NEW c, Wake(c)
      PROVE  /\ driver'.touch = driver.touch
             /\ driver' = driver \/ (driver.at # "declare" /\ driver'.at # "declare")
  <2>1. CASE driver' = driver
    BY <2>1
  <2>2. CASE Faulting /\ driver' = [driver EXCEPT !.at = "read"]
    <3>1. driver'.at = "read" /\ driver'.touch = driver.touch
      BY <1>d, <2>2
    <3>2. driver.at # "declare"
      BY <2>2 DEF Faulting
    <3> QED
      BY <3>1, <3>2
  <2> QED
    BY <1>1, <2>1, <2>2, WakeEffect
<1>2. /\ UNCHANGED <<opt, seq>>
      /\ driver' = driver \/ \E c : Wake(c)
  <2>1. CASE HandleFault
    BY <2>1, HandleFaultEffect DEF Parts
  <2>2. CASE MakeRoom \/ Commit \/ Unpin \/ Predict \/ LockBudget \/ MakePrefetchRoom \/ Retain
    BY <2>2 DEF MakeRoom, Commit, Unpin, Predict, LockBudget, MakePrefetchRoom, Retain
  <2>3. CASE Abandon \/ PrefetchGivesUp
    BY <2>3 DEF Abandon, PrefetchGivesUp
  <2>4. CASE \/ Fetch("fetch", "commit", handler.chunk)
             \/ Fetch("pfetch", "pcommit", handler.target)
    BY <2>4 DEF Fetch
  <2> QED
    BY <2>1, <2>2, <2>3, <2>4 DEF Handler
<1>3. driver'.touch = driver.touch
  BY <1>1, <1>2
<1>4. touched' = touched
  BY <1>3 DEF touched
<1> QED
  BY <1>1, <1>2, <1>4

LEMMA HandlerKeepsOrder ==
  ASSUME Parts, OrderInv, Handler
  PROVE  OrderInv'
<1>h. LocalsSet /\ Shape /\ MappedExact /\ StagesMatch /\ MessageHonest
  BY DEF Parts
<1>0. /\ UNCHANGED <<opt, seq, touched>>
      /\ driver' = driver \/ (driver.at # "declare" /\ driver'.at # "declare")
  BY HandlerWakes
<1>d. handler = [at |-> handler.at, chunk |-> handler.chunk, target |-> handler.target]
  BY <1>h DEF LocalsSet
<1>1. CASE HandleFault
  <2>1. driver.at # "declare" /\ mapped' = mapped
    BY <1>1, <1>h, HandleFaultEffect DEF MessageHonest, Faulting
  <2>2. handler' = handler \/ handler'.at = "room"
    BY <1>1, <1>h, HandleFaultEffect
  <2> QED
    BY <1>0, <2>1, <2>2 DEF OrderInv, InPrefetch, NextOf
<1>2. CASE ~ HandlerAt("idle") /\ handler'.at \in {"idle", "room", "fetch", "unpin"}
  BY <1>0, <1>2 DEF OrderInv, InPrefetch
<1>3. CASE Fetch("fetch", "commit", handler.chunk)
  <2>1. HandlerAt("fetch") /\ handler'.at = "commit" /\ handler'.chunk = handler.chunk
    BY <1>3, <1>d DEF Fetch
  <2>2. touched = handler.chunk
    BY <1>h, <2>1 DEF MessageHonest
  <2> QED
    BY <1>0, <2>1, <2>2 DEF OrderInv, InPrefetch
<1>4. CASE Commit \/ LockBudget
  <2>1. /\ UNCHANGED mapped /\ handler'.chunk = handler.chunk /\ handler'.target = handler.target
        /\ \/ HandlerAt("commit") /\ handler'.at \in {"predict", "unpin"}
           \/ HandlerAt("claimed") /\ handler'.at = "proom"
    BY <1>4, <1>d DEF Commit, LockBudget
  <2> QED
    BY <1>0, <2>1 DEF OrderInv, InPrefetch, NextOf
<1>5. CASE Predict
  <2>1. CASE handler'.at = "unpin"
    BY <1>0, <1>2, <1>5, <2>1 DEF Predict
  <2>2. CASE handler'.at # "unpin"
    <3>1. /\ HandlerAt("predict") /\ handler'.at = "claimed" /\ handler'.chunk = handler.chunk
          /\ handler'.target = PredictNext(handler.chunk) /\ UNCHANGED mapped
      BY <1>5, <1>d, <2>2 DEF Predict
    <3>2. handler.chunk \in Chunks /\ driver.at # "declare"
      BY <1>h, <3>1 DEF LocalsSet, OrderInv
    <3>3. opt.policy = "declared" => PredictNext(handler.chunk) = NextOf(handler.chunk)
      BY <3>2, OrderPredicts DEF OrderInv
    <3> QED
      BY <1>0, <3>1, <3>3 DEF OrderInv, InPrefetch, NextOf
  <2> QED
    BY <2>1, <2>2
<1>6. CASE MakePrefetchRoom
  <2>1. /\ HandlerAt("proom") /\ handler'.at \in {"proom", "pfetch"}
        /\ handler'.chunk = handler.chunk /\ handler'.target = handler.target
    BY <1>6, <1>d DEF MakePrefetchRoom
  <2>2. opt.policy = "declared" => handler.target = NextOf(handler.chunk)
    BY <2>1 DEF OrderInv, InPrefetch
  <2>3. handler.target \notin mapped
    BY <1>h, <2>1 DEF MappedExact, StagesMatch, InPrefetch, Held
  <2> QED
    BY <1>0, <2>1, <2>2, <2>3 DEF OrderInv, InPrefetch, NextOf
<1>7. CASE Fetch("pfetch", "pcommit", handler.target)
  <2>1. /\ HandlerAt("pfetch") /\ handler'.at = "pcommit"
        /\ handler'.chunk = handler.chunk /\ handler'.target = handler.target
    BY <1>7, <1>d DEF Fetch
  <2> QED
    BY <1>0, <2>1 DEF OrderInv, InPrefetch, NextOf
<1>8. CASE MakeRoom \/ Abandon \/ Unpin \/ PrefetchGivesUp \/ Retain
  <2>1. CASE MakeRoom
    BY <1>d, <1>2, <2>1 DEF MakeRoom
  <2>2. CASE Abandon
    BY <1>d, <1>2, <2>2 DEF Abandon
  <2>3. CASE Unpin
    BY <1>d, <1>2, <2>3 DEF Unpin
  <2>4. CASE PrefetchGivesUp \/ Retain
    BY <1>d, <1>2, <2>4 DEF PrefetchGivesUp, Retain
  <2> QED
    BY <1>8, <2>1, <2>2, <2>3, <2>4
<1> QED
  BY <1>1, <1>3, <1>4, <1>5, <1>6, <1>7, <1>8 DEF Handler

LEMMA OrderInvariance == Spec => []OrderInv
<1>1. Parts /\ OrderInv /\ [Next]_vars => OrderInv'
  <2> SUFFICES ASSUME Parts, OrderInv, [Next]_vars PROVE OrderInv'
    OBVIOUS
  <2>1. CASE UNCHANGED vars
    BY <2>1, OrderFrame DEF touched
  <2> QED
    BY <2>1, DriverKeepsOrder, HandlerKeepsOrder DEF Next
<1> QED
  BY <1>1, OrderInit, Invariance, PTL DEF Spec

\* Chunks are unmapped by evictions only.
LEMMA WhatUnmaps ==
  ASSUME [Next]_vars
  PROVE  \/ mapped \subseteq mapped'
         \/ \E v \in {SelectVictim(Evictable), BreakVictim} :
              /\ v # NoChunk /\ mapped' = mapped \ {v}
              /\ \/ HandlerAt("proom") /\ v = SelectVictim(Evictable)
                 \/ /\ HandlerAt("room")
                    /\ ~ Fits(handler.chunk)
                    /\ (v = SelectVictim(Evictable) \/ SelectVictim(Evictable) = NoChunk)
<1>1. CASE Driver \/ UNCHANGED vars
  <2>1. mapped' = mapped
    BY <1>1 DEF Driver, DeclareOrder, NotifyPolicy, NotifyRetention, Read, Fault, MustWait
  <2> QED
    BY <2>1
<1>2. CASE MakeRoom
  <2>1. CASE mapped' = mapped
    BY <2>1
  <2>2. CASE mapped' # mapped
    BY <1>2, <2>2 DEF MakeRoom, Evict
  <2> QED
    BY <2>1, <2>2
<1>3. CASE MakePrefetchRoom
  BY <1>3 DEF MakePrefetchRoom, Evict
<1>4. CASE \/ Fetch("fetch", "commit", handler.chunk)
           \/ Fetch("pfetch", "pcommit", handler.target)
  BY <1>4 DEF Fetch, Resolve
<1>5. CASE HandleFault \/ Abandon \/ Commit \/ Unpin \/ Predict \/ LockBudget \/ PrefetchGivesUp \/ Retain
  <2>1. mapped' = mapped
    BY <1>5 DEF HandleFault, Abandon, Commit, Unpin, Predict, LockBudget, PrefetchGivesUp, Retain
  <2> QED
    BY <2>1
<1> QED
  BY <1>1, <1>2, <1>3, <1>4, <1>5 DEF Next, Handler

\* If a fault finds nothing to evict, all that is resident is retained.
LEMMA OnlyRetainedLeft ==
  ASSUME Shape, StagesMatch, PinsOwned, HandlerAt("room"), SelectVictim(Evictable) = NoChunk
  PROVE  Held \subseteq Range(retained)
<1> SUFFICES ASSUME NEW c \in Held, c \notin Range(retained) PROVE FALSE
  OBVIOUS
<1>1. c \in Chunks /\ state[c] = "RESIDENT"
  BY DEF Held
<1>2. pin[c] = One(c \in Range(retained)) + HandlerPins(c)
  BY <1>1, PinsSplit
<1>3. c # handler.chunk /\ ~ InPrefetch
  BY <1>1 DEF StagesMatch, InFault, InPrefetch
<1>4. HandlerPins(c) = 0 /\ One(c \in Range(retained)) = 0
  BY <1>3 DEF HandlerPins, One
<1>5. c \in Evictable
  BY <1>1, <1>2, <1>4 DEF Evictable
<1> QED
  BY <1>5, VictimFacts

\* A chunk and one retained fit the budget together, so no fault breaks a pin.
LEMMA NoPinIsBroken ==
  ASSUME Parts, TwoChunksFit, HandlerAt("room"), SelectVictim(Evictable) = NoChunk,
         ~ Fits(handler.chunk)
  PROVE  BreakVictim = NoChunk
<1>h. /\ Shape /\ LocalsSet /\ StagesMatch /\ RetentionSound /\ PinsOwned /\ AccountsInv
  BY DEF Parts
<1> SUFFICES ASSUME BreakVictim # NoChunk PROVE FALSE
  OBVIOUS
<1> DEFINE r == BreakVictim
           c == handler.chunk
<1>1. retained = <<r>> /\ r \in Held /\ r # c
  BY <1>h, BreakFacts
<1>2. Range(retained) = {r}
  BY <1>1 DEF Range
<1>3. Held = {r}
  BY <1>h, <1>1, <1>2, OnlyRetainedLeft
<1>4. Claimed = {}
  BY DEF Claimed
<1>5. r \in Chunks /\ c \in Chunks
  BY <1>h, <1>1 DEF Held, LocalsSet
<1>6. /\ resident_bytes = ByteCount(ChunkLen, {r}) /\ reserved_bytes = ByteCount(ChunkLen, {})
      /\ ChunkLen \in [Chunks -> Nat] /\ budget_bytes \in Nat
  BY <1>h, <1>3, <1>4, AccountsNow, Region DEF Shape
<1> HIDE DEF r, c
<1>7. resident_bytes = ChunkLen[r] /\ reserved_bytes = 0
  <2>1. IsFiniteSet(Chunks)
    BY Table
  <2> QED
    BY <1>5, <1>6, <2>1, ByteCountOne, ByteCountEmpty
<1>8. ChunkLen[r] + ChunkLen[c] <= budget_bytes
  BY <1>1, <1>5 DEF TwoChunksFit, r, c
<1>9. ChunkLen[r] \in Nat /\ ChunkLen[c] \in Nat
  BY <1>5, <1>6
<1>10. Fits(c)
  BY <1>7, <1>8, <1>9 DEF Fits
<1> QED
  BY <1>10 DEF c

\* With the declared order, room for a prefetch or a fault is made by evicting
\* neither the chunk about to be read nor a retained one, if any two chunks fit
\* the budget: for every signal mode, with and without retention, protection and
\* admission (budget.c:183-186, region.h:181-188, pager.c:137-143).
THEOREM PrefetchesDisplaceNothing == Spec => PrefetchDisplacesNothing
<1> DEFINE Kept == opt.policy = "declared" /\ TwoChunksFit =>
                     /\ driver.at = "read" /\ touched \in mapped => touched \in mapped'
                     /\ Range(retained) \subseteq mapped'
<1>1. Parts /\ OrderInv /\ [Next]_vars => [Kept]_vars
  <2> SUFFICES ASSUME Parts, OrderInv, [Next]_vars, opt.policy = "declared", TwoChunksFit
               PROVE  /\ driver.at = "read" /\ touched \in mapped => touched \in mapped'
                      /\ Range(retained) \subseteq mapped'
    OBVIOUS
  <2>h. /\ Shape /\ LocalsSet /\ StagesMatch /\ MappedExact /\ RetentionSound /\ PinsOwned
        /\ MessageHonest
    BY DEF Parts
  <2>1. Range(retained) \subseteq mapped
    BY <2>h, OneRetained DEF MappedExact
  <2>2. CASE mapped \subseteq mapped'
    BY <2>1, <2>2
  <2>3. CASE ~ (mapped \subseteq mapped')
    <3>1. PICK v \in {SelectVictim(Evictable), BreakVictim} :
              /\ v # NoChunk /\ mapped' = mapped \ {v}
              /\ \/ HandlerAt("proom") /\ v = SelectVictim(Evictable)
                 \/ /\ HandlerAt("room")
                    /\ ~ Fits(handler.chunk)
                    /\ (v = SelectVictim(Evictable) \/ SelectVictim(Evictable) = NoChunk)
      BY <2>3, WhatUnmaps
    <3>2. v = SelectVictim(Evictable)
      BY <3>1, NoPinIsBroken
    <3>3. v \in Evictable
      BY <2>h, <3>1, <3>2, VictimFacts
    <3>4. v \notin Range(retained) /\ HandlerPins(v) = 0
      BY <2>h, <3>3, RetainedIsPinned
    <3>5. driver.at = "read" /\ touched \in mapped => touched # v
      <4> SUFFICES ASSUME driver.at = "read", touched \in mapped, touched = v PROVE FALSE
        OBVIOUS
      <4>1. CASE HandlerAt("room")
        BY <2>h, <4>1 DEF MessageHonest, Faulting
      <4>2. CASE HandlerAt("proom")
        <5>1. NextOf(handler.chunk) = handler.target /\ handler.target \notin mapped
          BY <2>h, <4>2 DEF OrderInv, InPrefetch, MappedExact, StagesMatch, Held
        <5>2. touched = handler.chunk
          BY <4>2, <5>1 DEF OrderInv
        <5> QED
          BY <3>4, <4>2, <5>2 DEF HandlerPins, One, InPrefetch
      <4> QED
        BY <3>1, <4>1, <4>2
    <3> QED
      BY <2>1, <3>1, <3>4, <3>5
  <2> QED
    BY <2>2, <2>3
<1> QED
  BY <1>1, Invariance, OrderInvariance, PTL DEF Spec, PrefetchDisplacesNothing

=============================================================================

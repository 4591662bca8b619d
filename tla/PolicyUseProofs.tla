-------------------------- MODULE PolicyUseProofs ---------------------------
(***************************************************************************)
(* The policies in use.  Driven freely (PolicyUse): what a policy          *)
(* remembers agrees with the history of the run, for any number of chunks, *)
(* any faults and any declared sequences; so that its victims and          *)
(* predictions are what that history says they should be.  Driven by       *)
(* llama.cpp (Llama, from "Sorting" on): any tensors make a table that     *)
(* start-up takes, and a sequence that the declared policy can follow; what *)
(* a token reads is where the signals have taken the policy's cursor; and  *)
(* the audit stops exactly the runs in which a chunk is never signalled.   *)
(***************************************************************************)
EXTENDS PolicyUse, Llama, PolicyProofs, SequenceTheorems

\* The inductive invariant: the stamps, the last fault and the successors sum
\* up the faults; the cursor sums up the consumption.
LastOfFaults == IF faults = <<>> THEN NoChunk ELSE faults[Len(faults)]

StampsExact == \A c \in Chunks : last_fault_seq[c] = LastFault(c)

Successor(c) == IF Followed(c) = {} THEN NoChunk ELSE faults[Max(Followed(c)) + 1]

SuccessorsExact ==
  opt.policy = "learned" =>
    /\ last_fetched = LastOfFaults
    /\ \A c \in Chunks : successor[c] = Successor(c)

Cursor == IF consumed = 0 THEN -1 ELSE (consumed - 1) % Len(seq)

CursorExact == (consumed > 0 => seq # <<>>) /\ pos = Cursor

HistoryInv ==
  /\ PolicyTypeOK
  /\ faults \in Seq(Chunks)
  /\ consumed \in Nat
  /\ StampsExact
  /\ SuccessorsExact
  /\ CursorExact

-----------------------------------------------------------------------------
(* The faults of the run *)

LEMMA FaultsOfType ==
  ASSUME faults \in Seq(Chunks), NEW c
  PROVE  /\ Len(faults) \in Nat
         /\ DOMAIN faults = 1..Len(faults)
         /\ FaultsOf(c) \in SUBSET (1..Len(faults))
         /\ FaultsOf(c) \in SUBSET Int
         /\ Followed(c) \in SUBSET (1..(Len(faults) - 1))
         /\ Followed(c) \in SUBSET Int
<1>1. Len(faults) \in Nat /\ DOMAIN faults = 1..Len(faults)
  OBVIOUS
<1> QED
  BY <1>1 DEF FaultsOf, Followed

LEMMA LastFaultType ==
  ASSUME faults \in Seq(Chunks), NEW c
  PROVE  LastFault(c) \in 0..Len(faults)
<1> DEFINE T == FaultsOf(c) \cup {0}
<1>1. Len(faults) \in Nat /\ T \in SUBSET (0..Len(faults)) /\ T \in SUBSET Int /\ T # {}
  BY FaultsOfType
<1> HIDE DEF T
<1>2. Max(T) \in T
  <2>1. Len(faults) \in Int /\ \A k \in T : k <= Len(faults)
    BY <1>1
  <2> QED
    BY <1>1, <2>1, MaxOf, Zenon
<1> QED
  BY <1>1, <1>2 DEF LastFault, T

\* The latest fault on a chunk that another fault followed.
LEMMA LatestFollowed ==
  ASSUME faults \in Seq(Chunks), NEW c, Followed(c) # {}
  PROVE  /\ Max(Followed(c)) \in 1..(Len(faults) - 1)
         /\ faults[Max(Followed(c))] = c
<1> DEFINE T == Followed(c)
<1>1. Len(faults) \in Nat /\ T \in SUBSET (1..(Len(faults) - 1)) /\ T \in SUBSET Int
  BY FaultsOfType
<1>2. Max(T) \in T
  <2>1. T # {}
    OBVIOUS
  <2> HIDE DEF T
  <2>2. Len(faults) \in Int /\ \A k \in T : k <= Len(faults)
    BY <1>1
  <2> QED
    BY <1>1, <2>1, <2>2, MaxOf, Zenon
<1> QED
  BY <1>1, <1>2 DEF Followed, FaultsOf

-----------------------------------------------------------------------------
(* A fault *)

LEMMA FaultAppends ==
  ASSUME faults \in Seq(Chunks), NEW c \in Chunks, faults' = Append(faults, c), NEW x
  PROVE  /\ Len(faults) \in Nat
         /\ Len(faults') = Len(faults) + 1
         /\ faults'[Len(faults) + 1] = c
         /\ \A i \in 1..Len(faults) : faults'[i] = faults[i]
         /\ FaultsOf(x)' = FaultsOf(x) \cup (IF x = c THEN {Len(faults) + 1} ELSE {})
         /\ Followed(x)' = FaultsOf(x)
<1> DEFINE L == Len(faults)
<1>1. L \in Nat /\ DOMAIN faults = 1..L
  BY FaultsOfType
<1>2. /\ Len(faults') = L + 1
      /\ faults'[L + 1] = c
      /\ \A i \in 1..L : faults'[i] = faults[i]
  BY <1>1
<1>3. DOMAIN faults' = 1..(L + 1)
  <2>1. faults' \in Seq(Chunks)
    OBVIOUS
  <2> QED
    BY <1>2, <2>1
<1>4. FaultsOf(x)' = {i \in 1..(L + 1) : faults'[i] = x}
  BY <1>3 DEF FaultsOf
<1>5. FaultsOf(x) = {i \in 1..L : faults[i] = x}
  BY <1>1 DEF FaultsOf
<1> HIDE DEF L
<1>6. 1..(L + 1) = (1..L) \cup {L + 1} /\ L + 1 \notin 1..L
  BY <1>1
<1>7. FaultsOf(x)' = FaultsOf(x) \cup (IF x = c THEN {L + 1} ELSE {})
  BY <1>2, <1>4, <1>5, <1>6
<1>8. Followed(x)' = FaultsOf(x)' \ {L + 1}
  BY <1>2 DEF Followed
<1>9. Followed(x)' = FaultsOf(x)
  BY <1>5, <1>6, <1>7, <1>8
<1> QED
  BY <1>1, <1>2, <1>7, <1>9 DEF L

LEMMA FaultKeepsStamps ==
  ASSUME faults \in Seq(Chunks), PolicyTypeOK, StampsExact, NEW c \in Chunks,
         faults' = Append(faults, c),
         last_fault_seq' = [last_fault_seq EXCEPT ![c] = Len(faults) + 1]
  PROVE  StampsExact'
<1> SUFFICES ASSUME NEW x \in Chunks
             PROVE  last_fault_seq'[x] = LastFault(x)'
  BY DEF StampsExact
<1> DEFINE L == Len(faults)
           T == FaultsOf(x)' \cup {0}
<1>0. LastFault(x)' = Max(T)
  BY DEF LastFault
<1>1. last_fault_seq'[x] = IF x = c THEN L + 1 ELSE last_fault_seq[x]
  BY DEF PolicyTypeOK
<1>2. L \in Nat /\ FaultsOf(x) \in SUBSET (1..L)
  BY FaultsOfType
<1>3. FaultsOf(x)' = FaultsOf(x) \cup (IF x = c THEN {L + 1} ELSE {})
  BY FaultAppends
<1>4. CASE x = c
  <2>1. T = FaultsOf(x) \cup {L + 1} \cup {0}
    BY <1>3, <1>4
  <2> HIDE DEF T, L
  <2>2. T \in SUBSET Int /\ L + 1 \in T /\ \A k \in T : k <= L + 1
    BY <1>2, <2>1
  <2>3. Max(T) = L + 1
    BY <2>2, MaxIs
  <2> QED
    BY <1>0, <1>1, <1>4, <2>3
<1>5. CASE x # c
  <2>1. T = FaultsOf(x) \cup {0}
    BY <1>3, <1>5
  <2> QED
    BY <1>0, <1>1, <1>5, <2>1 DEF StampsExact, LastFault
<1> QED
  BY <1>4, <1>5

LEMMA FaultKeepsSuccessors ==
  ASSUME faults \in Seq(Chunks), PolicyTypeOK, SuccessorsExact, NEW c \in Chunks,
         faults' = Append(faults, c), OnFault(c), opt' = opt
  PROVE  SuccessorsExact'
<1> SUFFICES ASSUME opt.policy = "learned"
             PROVE  /\ last_fetched' = LastOfFaults'
                    /\ \A x \in Chunks : successor'[x] = Successor(x)'
  BY DEF SuccessorsExact
<1> DEFINE L == Len(faults)
<1>1. /\ L \in Nat
      /\ Len(faults') = L + 1 /\ faults'[L + 1] = c
      /\ \A i \in 1..L : faults'[i] = faults[i]
  BY FaultAppends
<1>2. successor' = Link(c) /\ last_fetched' = c
  BY DEF OnFault
<1>3. last_fetched = LastOfFaults /\ \A x \in Chunks : successor[x] = Successor(x)
  BY DEF SuccessorsExact
<1>4. last_fetched' = LastOfFaults'
  <2>1. faults' # <<>>
    BY <1>1
  <2> QED
    BY <1>1, <1>2, <2>1 DEF LastOfFaults
<1>5. ASSUME NEW x \in Chunks PROVE successor'[x] = Successor(x)'
  <2>1. Followed(x)' = FaultsOf(x)
    BY FaultAppends
  <2>2. Successor(x)' = IF FaultsOf(x) = {} THEN NoChunk ELSE faults'[Max(FaultsOf(x)) + 1]
    BY <2>1 DEF Successor
  <2>3. DOMAIN faults = 1..L /\ FaultsOf(x) \in SUBSET (1..L) /\ FaultsOf(x) \in SUBSET Int
    BY FaultsOfType
  <2>4. CASE L # 0 /\ faults[L] = x
    <3>1. L \in FaultsOf(x)
      BY <1>1, <2>3, <2>4 DEF FaultsOf
    <3>2. \A k \in FaultsOf(x) : k <= L
      BY <1>1, <2>3
    <3> HIDE DEF L
    <3>3. Max(FaultsOf(x)) = L
      BY <2>3, <3>1, <3>2, MaxIs
    <3>4. Successor(x)' = c
      BY <1>1, <2>2, <3>1, <3>3
    <3>5. last_fetched = x
      BY <1>1, <1>3, <2>4 DEF LastOfFaults, L
    <3>6. x # NoChunk
      BY PolicyAssumption DEF Chunks, NoChunk
    <3> QED
      BY <1>2, <3>4, <3>5, <3>6 DEF Link, PolicyTypeOK
  <2>5. CASE ~ (L # 0 /\ faults[L] = x)
    <3>1. L \notin FaultsOf(x)
      BY <1>1, <2>3, <2>5 DEF FaultsOf
    <3>2. Followed(x) = FaultsOf(x)
      BY <3>1 DEF Followed
    <3>3. successor[x] = IF FaultsOf(x) = {} THEN NoChunk ELSE faults[Max(FaultsOf(x)) + 1]
      BY <1>3, <3>2 DEF Successor
    <3>4. Successor(x)' = successor[x]
      <4>1. CASE FaultsOf(x) = {}
        BY <2>2, <3>3, <4>1
      <4>2. CASE FaultsOf(x) # {}
        <5>1. Max(FaultsOf(x)) \in 1..(L - 1)
          BY <3>2, <4>2, LatestFollowed
        <5> HIDE DEF L
        <5>2. Max(FaultsOf(x)) + 1 \in 1..L
          BY <1>1, <5>1
        <5> QED
          BY <1>1, <2>2, <3>3, <4>2, <5>2
      <4> QED
        BY <4>1, <4>2
    <3>5. last_fetched # x
      <4>1. CASE faults = <<>>
        <5>1. last_fetched = NoChunk
          BY <1>3, <4>1 DEF LastOfFaults
        <5> QED
          BY <5>1, PolicyAssumption DEF Chunks, NoChunk
      <4>2. CASE faults # <<>>
        <5>1. L # 0 /\ last_fetched = faults[L]
          BY <1>3, <4>2 DEF LastOfFaults
        <5> QED
          BY <2>5, <5>1
      <4> QED
        BY <4>1, <4>2
    <3>6. successor'[x] = successor[x]
      BY <1>2, <3>5 DEF Link, PolicyTypeOK
    <3> QED
      BY <3>4, <3>6
  <2> QED
    BY <2>4, <2>5
<1> QED
  BY <1>4, <1>5

-----------------------------------------------------------------------------
(* The cursor *)

\* The position that the policy keeps stands for the reference consumed last.
LEMMA CursorFollows ==
  ASSUME PolicyTypeOK, consumed \in Nat, CursorExact, seq # <<>>
  PROVE  /\ Len(seq) \in Nat \ {0}
         /\ ScanFrom \in Nat
         /\ \A k \in Nat : (ScanFrom + k) % Len(seq) = (consumed + k) % Len(seq)
         /\ Now \in Nat
         /\ Max({pos, 0}) = Now % Len(seq)
         /\ Now = IF consumed = 0 THEN 0 ELSE consumed - 1
<1> DEFINE n == Len(seq)
<1>1. n \in Nat \ {0}
  BY DEF PolicyTypeOK
<1>2. Now = IF consumed = 0 THEN 0 ELSE consumed - 1
  <2>1. consumed - 1 \in Int
    OBVIOUS
  <2>2. Now = IF consumed - 1 > 0 THEN consumed - 1 ELSE 0
    BY <2>1, MaxWithZero DEF Now
  <2> QED
    BY <2>2
<1>3. pos = IF consumed = 0 THEN -1 ELSE (consumed - 1) % n
  BY DEF CursorExact, Cursor
<1> HIDE DEF n
<1>4. CASE consumed = 0
  <2>1. pos = -1 /\ Now = 0
    BY <1>2, <1>3, <1>4
  <2>2. ScanFrom = 0
    BY <2>1 DEF ScanFrom
  <2>3. Max({pos, 0}) = 0
    BY <2>1, MaxWithZero
  <2>4. 0 % n = 0
    BY <1>1, ModSmall
  <2> QED
    BY <1>1, <1>2, <1>4, <2>1, <2>2, <2>3, <2>4 DEF n
<1>5. CASE consumed # 0
  <2> DEFINE m == consumed - 1
  <2>1. m \in Nat /\ m + 1 = consumed
    BY <1>5
  <2>2. m % n \in 0..(n - 1)
    BY <1>1, <2>1, DivMod
  <2>3. pos = m % n /\ Now = m
    BY <1>2, <1>3, <1>5
  <2> HIDE DEF m
  <2>4. ScanFrom = (m % n) + 1 /\ ScanFrom \in Nat
    BY <1>1, <2>2, <2>3 DEF ScanFrom
  <2>5. ASSUME NEW k \in Nat PROVE (ScanFrom + k) % n = (consumed + k) % n
    <3> DEFINE d == k + 1
    <3>1. d \in Nat /\ ScanFrom + k = (m % n) + d /\ consumed + k = m + d
      BY <1>1, <2>1, <2>2, <2>4
    <3> HIDE DEF d
    <3>2. ((m % n) + d) % n = (m + d) % n
      BY <1>1, <2>1, <3>1, ModAdd
    <3> QED
      BY <3>1, <3>2
  <2>6. Max({pos, 0}) = pos
    <3>1. pos \in Int /\ pos >= 0
      BY <1>1, <2>2, <2>3
    <3> QED
      BY <3>1, MaxWithZero
  <2> QED
    BY <1>1, <1>2, <2>1, <2>3, <2>4, <2>5, <2>6 DEF n
<1> QED
  BY <1>4, <1>5

LEMMA ConsumeMoves ==
  ASSUME PolicyTypeOK, consumed \in Nat, CursorExact, seq # <<>>,
         NEW skipped \in Nat, skipped > 0 => NoRepeats,
         OnAccess(At(consumed + skipped)), consumed' = consumed + skipped + 1, seq' = seq
  PROVE  CursorExact'
<1> DEFINE n == Len(seq)
           hops == {k \in 0..(n - 1) : At(ScanFrom + k) = At(consumed + skipped)}
<1>1. /\ n \in Nat \ {0} /\ ScanFrom \in Nat
      /\ \A k \in Nat : (ScanFrom + k) % n = (consumed + k) % n
  BY CursorFollows
<1>2. pos' = IF hops = {} THEN pos ELSE (ScanFrom + Min(hops)) % n
  BY DEF OnAccess
<1>3. \A i, j \in Nat : i % n = j % n => At(i) = At(j)
  BY DEF At
<1>4. hops \in SUBSET (0..(n - 1)) /\ hops \in SUBSET Nat
  OBVIOUS
<1> HIDE DEF n
<1>5. hops # {}
  <2> DEFINE k == skipped % n
  <2>1. k \in 0..(n - 1) /\ k \in Nat
    BY <1>1, DivMod
  <2>2. (k + consumed) % n = (skipped + consumed) % n
    BY <1>1, ModAdd
  <2> HIDE DEF k
  <2>3. (ScanFrom + k) % n = (consumed + k) % n
    BY <1>1, <2>1
  <2>4. consumed + k = k + consumed /\ consumed + skipped = skipped + consumed
    BY <2>1
  <2>5. At(ScanFrom + k) = At(consumed + skipped)
    <3>1. ScanFrom + k \in Nat /\ consumed + skipped \in Nat
      BY <1>1, <2>1
    <3>2. (ScanFrom + k) % n = (consumed + skipped) % n
      BY <2>2, <2>3, <2>4
    <3> QED
      BY <1>3, <3>1, <3>2
  <2> QED
    BY <2>1, <2>5
<1>6. Min(hops) \in hops /\ \A k \in hops : Min(hops) <= k
  <2> HIDE DEF hops
  <2> QED
    BY <1>4, <1>5, MinOf
<1> DEFINE m == Min(hops)
<1>7. m \in 0..(n - 1) /\ m \in Nat /\ At(ScanFrom + m) = At(consumed + skipped)
  BY <1>4, <1>6
<1>8. pos' = (ScanFrom + m) % n
  BY <1>2, <1>5
<1>9. skipped = 0 => m = 0
  <2> SUFFICES ASSUME skipped = 0 PROVE m = 0
    OBVIOUS
  <2>1. At(ScanFrom + 0) = At(consumed + skipped)
    <3>1. (ScanFrom + 0) % n = (consumed + 0) % n
      BY <1>1
    <3>2. ScanFrom + 0 \in Nat /\ consumed + 0 \in Nat /\ consumed + skipped = consumed + 0
      BY <1>1
    <3> QED
      BY <1>3, <3>1, <3>2
  <2>2. 0 \in 0..(n - 1)
    BY <1>1
  <2>3. 0 \in hops
    BY <2>1, <2>2
  <2>4. m <= 0
    BY <1>6, <2>3
  <2> QED
    BY <1>7, <2>4
<1> HIDE DEF hops, m
<1>10. (ScanFrom + m) % n = (consumed + skipped) % n
  <2>1. (ScanFrom + m) % n = (consumed + m) % n
    BY <1>1, <1>7
  <2>2. CASE skipped = 0
    BY <1>9, <2>1, <2>2
  <2>3. CASE skipped # 0
    <3> DEFINE i == (ScanFrom + m) % n
               j == (consumed + skipped) % n
    <3>1. i \in 0..(n - 1) /\ j \in 0..(n - 1)
      <4>1. ScanFrom + m \in Nat /\ consumed + skipped \in Nat
        BY <1>1, <1>7
      <4> QED
        BY <1>1, <4>1, DivMod
    <3>2. seq[i + 1] = seq[j + 1]
      BY <1>7 DEF At, n
    <3> HIDE DEF i, j
    <3>3. i + 1 \in 1..n /\ j + 1 \in 1..n /\ DOMAIN seq = 1..n
      BY <1>1, <3>1 DEF PolicyTypeOK, n
    <3>4. i + 1 = j + 1
      BY <2>3, <3>2, <3>3 DEF NoRepeats
    <3> QED
      BY <1>1, <3>1, <3>4 DEF i, j
  <2> QED
    BY <2>2, <2>3
<1>11. consumed' # 0 /\ consumed' - 1 = consumed + skipped
  OBVIOUS
<1>12. pos' = (consumed' - 1) % n
  BY <1>8, <1>10, <1>11
<1> QED
  BY <1>11, <1>12 DEF CursorExact, Cursor, n

-----------------------------------------------------------------------------
(* The invariant holds *)

LEMMA HistoryInit == Init => HistoryInv
<1> SUFFICES ASSUME Init PROVE HistoryInv
  OBVIOUS
<1>1. PolicyTypeOK
  BY DEF Init, PolicyInit, PolicyTypeOK
<1>2. faults = <<>> /\ faults \in Seq(Chunks) /\ consumed = 0 /\ consumed \in Nat
  BY DEF Init
<1>3. \A c : FaultsOf(c) = {} /\ Followed(c) = {}
  BY <1>2 DEF FaultsOf, Followed
<1>4. StampsExact
  <2>1. Max({} \cup {0}) = 0
    BY DEF Max
  <2>2. \A c \in Chunks : LastFault(c) = 0
    BY <1>3, <2>1 DEF LastFault
  <2> QED
    BY <2>2 DEF StampsExact, Init, PolicyInit
<1>5. SuccessorsExact
  BY <1>2, <1>3 DEF SuccessorsExact, LastOfFaults, Successor, Init, PolicyInit
<1>6. CursorExact
  BY <1>2 DEF CursorExact, Cursor, Init, PolicyInit
<1> QED
  BY <1>1, <1>2, <1>4, <1>5, <1>6 DEF HistoryInv

LEMMA HistoryStep == HistoryInv /\ [Next]_vars => HistoryInv'
<1> SUFFICES ASSUME HistoryInv, [Next]_vars
             PROVE  HistoryInv'
  OBVIOUS
<1>0. /\ PolicyTypeOK /\ faults \in Seq(Chunks) /\ consumed \in Nat
      /\ StampsExact /\ SuccessorsExact /\ CursorExact
  BY DEF HistoryInv
<1>1. ASSUME NEW c \in Chunks, Fault(c) PROVE HistoryInv'
  <2>1. /\ faults' = Append(faults, c) /\ OnFault(c)
        /\ last_fault_seq' = [last_fault_seq EXCEPT ![c] = Len(faults) + 1]
        /\ UNCHANGED <<opt, seq, pos, consumed>>
    BY <1>1 DEF Fault
  <2>2. last_fault_seq' \in [Chunks -> Nat]
    <3>1. Len(faults) + 1 \in Nat
      BY <1>0
    <3> QED
      BY <1>0, <2>1, <3>1 DEF PolicyTypeOK
  <2>3. PolicyTypeOK'
    BY <1>0, <2>1, <2>2, OnFaultType
  <2>4. faults' \in Seq(Chunks) /\ consumed' \in Nat
    BY <1>0, <2>1
  <2>5. StampsExact'
    BY <1>0, <2>1, FaultKeepsStamps
  <2>6. SuccessorsExact'
    BY <1>0, <2>1, FaultKeepsSuccessors
  <2>7. CursorExact'
    BY <1>0, <2>1 DEF CursorExact, Cursor
  <2> QED
    BY <2>3, <2>4, <2>5, <2>6, <2>7 DEF HistoryInv
<1>2. ASSUME UNCHANGED <<opt, last_fault_seq, last_fetched, successor, faults>>
      PROVE  StampsExact' /\ SuccessorsExact'
  <2>1. LastOfFaults' = LastOfFaults
    BY <1>2 DEF LastOfFaults
  <2>2. ASSUME NEW c \in Chunks
        PROVE  LastFault(c)' = LastFault(c) /\ Successor(c)' = Successor(c)
    BY <1>2 DEF LastFault, Successor, Followed, FaultsOf
  <2>3. StampsExact'
    BY <1>0, <1>2, <2>2 DEF StampsExact
  <2>4. SuccessorsExact'
    BY <1>0, <1>2, <2>1, <2>2 DEF SuccessorsExact
  <2> QED
    BY <2>3, <2>4
<1>3. ASSUME NEW s \in Sequences, opt.policy = "declared", Declare(s) PROVE HistoryInv'
  <2>1. DeclareSequence(s) /\ consumed' = 0 /\ UNCHANGED <<opt, last_fault_seq, last_fetched, successor, faults>>
    BY <1>3 DEF Declare
  <2>2. s \in Seq(Chunks)
    BY SequencesAssumption
  <2>3. PolicyTypeOK'
    BY <1>0, <2>1, <2>2, DeclareType
  <2>4. pos' = -1
    BY <1>3, <2>1 DEF DeclareSequence
  <2>5. CursorExact'
    BY <2>1, <2>4 DEF CursorExact, Cursor
  <2> QED
    BY <1>0, <1>2, <2>1, <2>3, <2>5 DEF HistoryInv
<1>4. ASSUME NEW skipped \in 0..1, Consume(skipped) PROVE HistoryInv'
  <2>1. /\ seq # <<>> /\ (skipped > 0 => NoRepeats)
        /\ OnAccess(At(consumed + skipped)) /\ consumed' = consumed + skipped + 1
        /\ UNCHANGED <<opt, last_fault_seq, last_fetched, successor, seq, faults>>
    BY <1>4 DEF Consume
  <2>2. PolicyTypeOK'
    BY <1>0, <2>1, OnAccessType
  <2>3. CursorExact'
    BY <1>0, <2>1, ConsumeMoves
  <2>4. consumed' \in Nat
    BY <1>0, <2>1
  <2> QED
    BY <1>0, <1>2, <2>1, <2>2, <2>3, <2>4 DEF HistoryInv
<1>5. CASE UNCHANGED vars
  <2>1. PolicyTypeOK'
    BY <1>0, <1>5 DEF PolicyTypeOK, vars, policyVars, history
  <2>2. CursorExact' /\ faults' = faults /\ consumed' = consumed
    BY <1>0, <1>5 DEF CursorExact, Cursor, vars, policyVars, history
  <2> QED
    BY <1>0, <1>2, <1>5, <2>1, <2>2 DEF HistoryInv, vars, policyVars, history
<1> QED
  BY <1>1, <1>3, <1>4, <1>5 DEF Next

\* Through any mix of faults, declarations and signals, what the policies keep
\* sums up the history: the stamps the last faults, the successor table the
\* faults that followed, the cursor the references consumed (policy.c
\* lo_learned_on_fault, lo_declared_on_access).
THEOREM HistoryInvariance == Spec => []HistoryInv
<1>1. Init => HistoryInv
  BY HistoryInit
<1>2. HistoryInv /\ [Next]_vars => HistoryInv'
  BY HistoryStep
<1> QED
  BY <1>1, <1>2, PTL DEF Spec

-----------------------------------------------------------------------------
(* lru *)

LEMMA CandidatesAreChunks ==
  ASSUME PolicyTypeOK, NEW C \in Candidates
  PROVE  /\ C \in SUBSET Chunks
         /\ SelectVictim(C) \in C
         /\ \A x \in C : Rank(x) <= Rank(SelectVictim(C))
<1>1. C \in SUBSET Chunks /\ C # {}
  BY DEF Candidates
<1> QED
  BY <1>1, VictimIsCandidate

LEMMA LruGivesUpOldest == HistoryInv => LruVictimIsOldest
<1> SUFFICES ASSUME HistoryInv, opt.policy = "lru", NEW C \in Candidates, NEW c \in C
             PROVE  LastFault(SelectVictim(C)) <= LastFault(c)
  BY DEF LruVictimIsOldest
<1> DEFINE v == SelectVictim(C)
<1>1. c \in Chunks /\ v \in Chunks /\ Rank(c) <= Rank(v)
  BY CandidatesAreChunks DEF HistoryInv
<1> HIDE DEF v
<1>2. Rank(c) = - last_fault_seq[c] /\ Rank(v) = - last_fault_seq[v]
  BY DEF Rank, Age
<1>3. last_fault_seq[c] \in Nat /\ last_fault_seq[v] \in Nat
  BY <1>1 DEF HistoryInv, PolicyTypeOK
<1>4. last_fault_seq[v] <= last_fault_seq[c]
  BY <1>1, <1>2, <1>3
<1> QED
  BY <1>1, <1>4 DEF HistoryInv, StampsExact, v

-----------------------------------------------------------------------------
(* A learned scan *)

LEMMA ChunksCounted == IsFiniteSet(Chunks) /\ Cardinality(Chunks) = n_chunks
<1>1. 0 \in Int /\ n_chunks - 1 \in Int /\ n_chunks \in Nat \ {0}
  BY PolicyAssumption
<1>2. /\ IsFiniteSet(0..(n_chunks - 1))
      /\ Cardinality(0..(n_chunks - 1)) = IF 0 > n_chunks - 1 THEN 0 ELSE (n_chunks - 1) - 0 + 1
  BY <1>1, FS_Interval, Zenon
<1> QED
  BY <1>1, <1>2 DEF Chunks

LEMMA StepsCounted == IsFiniteSet(1..n_chunks) /\ Cardinality(1..n_chunks) = n_chunks
<1>1. 1 \in Int /\ n_chunks \in Int /\ n_chunks \in Nat \ {0}
  BY PolicyAssumption
<1>2. /\ IsFiniteSet(1..n_chunks)
      /\ Cardinality(1..n_chunks) = IF 1 > n_chunks THEN 0 ELSE n_chunks - 1 + 1
  BY <1>1, FS_Interval, Zenon
<1> QED
  BY <1>1, <1>2

\* A scan of n_chunks faults that touches every chunk touches each once.
LEMMA ScanTouchesOnce ==
  ASSUME Scanning
  PROVE  /\ \A k \in 1..n_chunks : Scan(k) \in Chunks
         /\ \A c \in Chunks : \E k \in 1..n_chunks : Scan(k) = c
         /\ \A j, k \in 1..n_chunks : Scan(j) = Scan(k) => j = k
         /\ \A k \in 1..n_chunks : StepsTo(Scan(k)) = k
<1> DEFINE f == [k \in 1..n_chunks |-> Scan(k)]
<1>1. {Scan(k) : k \in 1..n_chunks} = Chunks
  BY DEF Scanning
<1>2. f \in Surjection(1..n_chunks, Chunks)
  BY <1>1 DEF Surjection
<1>3. f \in Injection(1..n_chunks, Chunks)
  <2> HIDE DEF f
  <2>1. IsFiniteSet(1..n_chunks) /\ Cardinality(1..n_chunks) = Cardinality(Chunks)
    BY ChunksCounted, StepsCounted
  <2> QED
    BY <1>2, <2>1, FS_SurjSameCardinalityImpliesInj
<1>4. \A j, k \in 1..n_chunks : Scan(j) = Scan(k) => j = k
  BY <1>3 DEF Injection, IsInjective
<1>5. ASSUME NEW k \in 1..n_chunks PROVE StepsTo(Scan(k)) = k
  <2>1. StepsTo(Scan(k)) \in 1..n_chunks /\ Scan(StepsTo(Scan(k))) = Scan(k)
    BY DEF StepsTo
  <2> QED
    BY <1>4, <2>1
<1> QED
  BY <1>1, <1>4, <1>5

\* While it scans, the table links each chunk to the next of the scan.
LEMMA ScanIsLearned ==
  ASSUME HistoryInv, opt.policy = "learned", Scanning
  PROVE  /\ last_fetched = Scan(0)
         /\ \A k \in 0..(n_chunks - 1) : Scan(k) \in Chunks /\ successor[Scan(k)] = Scan(k + 1)
<1> DEFINE L == Len(faults)
           n == n_chunks
<1>1. /\ n \in Nat \ {0} /\ L \in Nat /\ L > n
      /\ faults \in Seq(Chunks) /\ DOMAIN faults = 1..L
      /\ Scan(0) = Scan(n)
      /\ \A k \in 0..n : Scan(k) = faults[L - n + k]
  BY PolicyAssumption, FaultsOfType DEF HistoryInv, Scanning, Scan
<1>2. /\ last_fetched = LastOfFaults
      /\ \A c \in Chunks : successor[c] = Successor(c)
  BY DEF HistoryInv, SuccessorsExact
<1> HIDE DEF L, n
<1>3. last_fetched = Scan(0)
  <2>1. faults # <<>>
    BY <1>1 DEF L
  <2>2. LastOfFaults = faults[L]
    BY <2>1 DEF LastOfFaults, L
  <2>3. n \in 0..n /\ L - n + n = L
    BY <1>1
  <2>4. Scan(n) = faults[L]
    BY <1>1, <2>3
  <2> QED
    BY <1>1, <1>2, <2>2, <2>4
<1>4. ASSUME NEW k \in 0..(n - 1)
      PROVE  Scan(k) \in Chunks /\ successor[Scan(k)] = Scan(k + 1)
  <2> DEFINE c == Scan(k)
             i == L - n + k
  <2>1. i \in 1..(L - 1) /\ i \in 1..L /\ i # L /\ k \in 0..n /\ k + 1 \in 0..n /\ L - n + (k + 1) = i + 1
    BY <1>1
  <2>2. c = faults[i] /\ Scan(k + 1) = faults[i + 1]
    BY <1>1, <2>1
  <2>3. c \in Chunks
    BY <1>1, <2>1, <2>2
  <2> HIDE DEF i
  <2>4. i \in Followed(c)
    BY <1>1, <2>1, <2>2 DEF Followed, FaultsOf, L
  <2>5. ASSUME NEW j \in Followed(c) PROVE j <= i
    <3>1. j \in 1..L /\ faults[j] = c /\ j # L
      BY <1>1 DEF Followed, FaultsOf, L
    <3> SUFFICES ASSUME j > i PROVE FALSE
      BY <1>1, <2>1, <3>1
    <3> DEFINE h == j - (L - n)
               m == IF k = 0 THEN n ELSE k
    <3>2. h \in 1..n /\ h \in 0..n /\ L - n + h = j /\ h # n /\ h # k
      BY <1>1, <3>1 DEF i
    <3>3. m \in 1..n /\ Scan(m) = c /\ h # m
      BY <1>1, <3>2
    <3> HIDE DEF h, m
    <3>4. Scan(h) = c
      BY <1>1, <3>1, <3>2
    <3>5. h = m
      BY <3>2, <3>3, <3>4, ScanTouchesOnce DEF n
    <3> QED
      BY <3>3, <3>5
  <2>6. Max(Followed(c)) = i
    <3>1. Followed(c) \in SUBSET Int
      BY <1>1, FaultsOfType
    <3> QED
      BY <2>4, <2>5, <3>1, MaxIs
  <2> HIDE DEF c
  <2>7. Successor(c) = faults[i + 1]
    BY <2>4, <2>6 DEF Successor
  <2>8. successor[c] = Scan(k + 1)
    BY <1>2, <2>2, <2>3, <2>7
  <2> QED
    BY <2>3, <2>8 DEF c
<1> QED
  BY <1>3, <1>4 DEF n

\* The walk goes along the scan.
LEMMA WalkAlongScan ==
  ASSUME HistoryInv, opt.policy = "learned", Scanning
  PROVE  \A k \in 1..n_chunks : learned_dist[Scan(k)] = k
<1> DEFINE n == n_chunks
           W(h) == /\ Walk[h].node = Scan(h)
                   /\ \A k \in 1..n : Walk[h].dist[Scan(k)] = IF k <= h THEN k ELSE Unknown
           S == {h \in 0..n : W(h)}
<1>1. n \in Nat \ {0}
  BY PolicyAssumption
<1>2. IsWalk(Walk, n)
  BY WalkIsWalk DEF HistoryInv
<1>3. /\ Walk \in [0..n -> WalkState]
      /\ Walk[0] = WalkStart
      /\ \A h \in 1..n : Walk[h] = WalkOn(Walk[h - 1], h)
  BY <1>2 DEF IsWalk
<1>4. /\ \A k \in 1..n : Scan(k) \in Chunks
      /\ \A j, k \in 1..n : Scan(j) = Scan(k) => j = k
  BY ScanTouchesOnce
<1>5. /\ last_fetched = Scan(0)
      /\ \A k \in 0..(n - 1) : Scan(k) \in Chunks /\ successor[Scan(k)] = Scan(k + 1)
  BY ScanIsLearned
<1> HIDE DEF n
<1>6. 0 \in S
  <2>1. Walk[0].node = Scan(0)
    BY <1>3, <1>5 DEF WalkStart
  <2>2. ASSUME NEW k \in 1..n PROVE Walk[0].dist[Scan(k)] = Unknown
    BY <1>3, <1>4 DEF WalkStart
  <2>3. \A k \in 1..n : ~ (k <= 0)
    BY <1>1
  <2> QED
    BY <1>1, <2>1, <2>2, <2>3
<1>7. ASSUME NEW h \in 0..(n - 1), h \in S PROVE h + 1 \in S
  <2> DEFINE w == Walk[h]
             next == Scan(h + 1)
  <2>1. h \in 0..n /\ h + 1 \in 1..n /\ h + 1 \in 0..n /\ (h + 1) - 1 = h
    BY <1>1
  <2>2. /\ w.node = Scan(h)
        /\ \A k \in 1..n : w.dist[Scan(k)] = IF k <= h THEN k ELSE Unknown
    BY <1>7
  <2>3. w \in WalkState
    BY <1>3, <2>1
  <2>4. Walk[h + 1] = WalkOn(w, h + 1)
    BY <1>3, <2>1
  <2>5. w.node # NoChunk /\ successor[w.node] = next /\ next \in Chunks /\ next # NoChunk
    BY <1>4, <1>5, <2>1, <2>2, PolicyAssumption DEF Chunks, NoChunk
  <2>6. w.dist[next] = Unknown
    <3>1. ~ (h + 1 <= h)
      BY <1>1
    <3> QED
      BY <2>1, <2>2, <3>1
  <2> HIDE DEF w
  <2>7. WalkOn(w, h + 1) = [node |-> next, dist |-> [w.dist EXCEPT ![next] = h + 1]]
    BY <2>5, <2>6 DEF WalkOn
  <2>8. Walk[h + 1].node = Scan(h + 1)
    BY <2>4, <2>7
  <2>9. ASSUME NEW k \in 1..n
        PROVE  Walk[h + 1].dist[Scan(k)] = IF k <= h + 1 THEN k ELSE Unknown
    <3>1. w.dist \in [Chunks -> Distances]
      BY <2>3 DEF WalkState
    <3>2. Walk[h + 1].dist[Scan(k)] = IF Scan(k) = next THEN h + 1 ELSE w.dist[Scan(k)]
      BY <1>4, <2>4, <2>7, <3>1
    <3>3. Scan(k) = next <=> k = h + 1
      BY <1>4, <2>1
    <3>4. CASE k = h + 1
      BY <1>1, <3>2, <3>3, <3>4
    <3>5. CASE k # h + 1
      <4>1. k <= h + 1 <=> k <= h
        BY <1>1, <3>5
      <4> QED
        BY <2>2, <3>2, <3>3, <3>5, <4>1
    <3> QED
      BY <3>4, <3>5
  <2> QED
    BY <2>1, <2>8, <2>9
<1> HIDE DEF S
<1>8. 0..n \subseteq S
  BY <1>1, <1>6, <1>7, IntervalInduction
<1>9. n \in S
  BY <1>1, <1>8
<1>10. \A k \in 1..n : Walk[n].dist[Scan(k)] = k
  <2>1. \A k \in 1..n : k <= n
    BY <1>1
  <2> QED
    BY <1>9, <2>1 DEF S
<1> QED
  BY <1>10 DEF n, learned_dist

LEMMA LearnedGivesUpFurthest == HistoryInv => LearnedVictimIsOptimalOnScan
<1> SUFFICES ASSUME HistoryInv, opt.policy = "learned", Scanning, NEW C \in Candidates, NEW c \in C
             PROVE  StepsTo(c) <= StepsTo(SelectVictim(C))
  BY DEF LearnedVictimIsOptimalOnScan
<1> DEFINE v == SelectVictim(C)
<1>1. c \in Chunks /\ v \in Chunks /\ Rank(c) <= Rank(v)
  BY CandidatesAreChunks DEF HistoryInv
<1> HIDE DEF v
<1>2. \A x \in Chunks : Rank(x) = StepsTo(x)
  <2> SUFFICES ASSUME NEW x \in Chunks PROVE Rank(x) = StepsTo(x)
    OBVIOUS
  <2>1. PICK k \in 1..n_chunks : Scan(k) = x
    BY ScanTouchesOnce
  <2>2. learned_dist[x] = k /\ StepsTo(x) = k
    BY <2>1, ScanTouchesOnce, WalkAlongScan
  <2>3. Rank(x) = learned_dist[x]
    BY DEF Rank, NextUseDistance
  <2> QED
    BY <2>2, <2>3
<1> QED
  BY <1>1, <1>2 DEF v

\* Whatever the mix of faults, lru gives up the candidate whose last fault is
\* the oldest, and one pass of a cyclic scan teaches the learned policy to give
\* up the one the scan needs last, for any number of chunks (policy.c
\* lru_select_victim, lo_learned_on_fault, lo_learned_compute_dist).
THEOREM FaultsRank == Spec => []FaultsRankVictims
<1>1. HistoryInv => FaultsRankVictims
  BY LruGivesUpOldest, LearnedGivesUpFurthest DEF FaultsRankVictims, HistoryInv
<1> QED
  BY <1>1, HistoryInvariance, PTL

-----------------------------------------------------------------------------
(* The declared sequence *)

FirstUse == IF opt.pre THEN 0 ELSE 1
UsesAhead(x) == {d \in FirstUse..(FirstUse + Len(seq) - 1) : At(Now + d) = x}

LEMMA AheadOfCursor ==
  ASSUME HistoryInv, seq # <<>>
  PROVE  /\ \A d \in Nat : At(Max({pos, 0}) + d) = At(Now + d)
         /\ At(Now + Len(seq)) = At(Now)
<1> DEFINE n == Len(seq)
<1>1. n \in Nat \ {0} /\ Now \in Nat /\ Max({pos, 0}) = Now % n
  BY CursorFollows DEF HistoryInv
<1>2. \A d \in Nat : ((Now % n) + d) % n = (Now + d) % n
  BY <1>1, ModAdd
<1>3. (Now + n) % n = Now % n
  BY <1>1, ModAddWhole
<1> QED
  BY <1>1, <1>2, <1>3 DEF At

\* Only the references under protection are kept.
LEMMA ProtectedIsKept ==
  ASSUME HistoryInv, seq # <<>>, NEW x \in Protected
  PROVE  opt.protect /\ x \in {At(Now), At(Max({Now - 1, 0}))}
<1> DEFINE n == Len(seq)
           base == Max({pos, 0})
<1>1. n \in Nat \ {0} /\ Now \in Nat /\ base = Now % n
  BY CursorFollows DEF HistoryInv
<1>2. opt.protect /\ x \in {At(base)} \cup (IF base > 0 THEN {At(base - 1)} ELSE {})
  BY DEF Protected
<1>3. base \in 0..(n - 1) /\ Now \div n \in Nat /\ Now = n * (Now \div n) + base
  BY <1>1, DivMod
<1> HIDE DEF base
<1>4. At(base) = At(Now)
  <2>1. At(base + 0) = At(Now + 0)
    BY AheadOfCursor DEF base
  <2>2. base + 0 = base /\ Now + 0 = Now
    BY <1>1, <1>3
  <2> QED
    BY <2>1, <2>2
<1>5. ASSUME base > 0 PROVE At(base - 1) = At(Max({Now - 1, 0}))
  <2> DEFINE q == Now \div n
             r == base - 1
  <2>1. q \in Int /\ r \in 0..(n - 1) /\ n * q \in Nat /\ Now - 1 = n * q + r
    BY <1>1, <1>3, <1>5
  <2> HIDE DEF q, r, n
  <2>2. (n * q + r) % n = r
    BY <1>1, <2>1, ModUnique
  <2>3. r % n = r
    BY <1>1, <2>1, ModSmall
  <2>4. Max({Now - 1, 0}) = Now - 1
    <3>1. Now - 1 \in Int /\ Now - 1 >= 0
      BY <1>1, <2>1
    <3> QED
      BY <3>1, MaxWithZero
  <2> QED
    BY <2>1, <2>2, <2>3, <2>4 DEF At, r, n
<1> QED
  BY <1>2, <1>4, <1>5

\* Away from what is protected, the distance of the policy is the distance of
\* the application; on what is protected, it is no longer.
LEMMA DistanceIsNextUse ==
  ASSUME HistoryInv, seq # <<>>, NEW x
  PROVE  /\ NextUse(x) \in UsesAhead(x) \cup {INT64_MAX}
         /\ NextUse(x) \in Nat
         /\ x \notin Protected => declared_dist(x) = NextUse(x)
         /\ x \in Protected => declared_dist(x) = IF UsesAhead(x) = {} THEN NextUse(x) ELSE 0
<1> DEFINE uses == UsesAhead(x)
           seen == {d \in Origin..(Origin + Len(seq) - 1) : At(Max({pos, 0}) + d) = x}
<1>1. Origin = FirstUse /\ FirstUse \in {0, 1} /\ Len(seq) \in Nat
  BY DEF Origin, FirstUse, HistoryInv, PolicyTypeOK
<1>2. seen = uses
  <2>1. FirstUse..(FirstUse + Len(seq) - 1) \subseteq Nat
    BY <1>1
  <2>2. \A d \in Nat : At(Max({pos, 0}) + d) = At(Now + d)
    BY AheadOfCursor
  <2> QED
    BY <1>1, <2>1, <2>2 DEF UsesAhead
<1>3. uses \in SUBSET Nat
  BY <1>1 DEF UsesAhead
<1>4. declared_dist(x) = IF seen = {} THEN INT64_MAX ELSE IF x \in Protected THEN 0 ELSE Min(seen)
  BY DEF declared_dist
<1>5. NextUse(x) = IF uses = {} THEN INT64_MAX ELSE Min(uses)
  BY DEF NextUse, UsesAhead, FirstUse
<1> HIDE DEF uses, seen
<1>6. uses # {} => Min(uses) \in uses
  BY <1>3, MinOf
<1>7. INT64_MAX \in Nat
  BY DEF INT64_MAX
<1>8. NextUse(x) \in uses \cup {INT64_MAX} /\ NextUse(x) \in Nat
  BY <1>3, <1>5, <1>6, <1>7
<1>9. x \notin Protected => declared_dist(x) = NextUse(x)
  BY <1>2, <1>4, <1>5
<1>10. x \in Protected => declared_dist(x) = IF uses = {} THEN NextUse(x) ELSE 0
  BY <1>2, <1>4, <1>5
<1> QED
  BY <1>8, <1>9, <1>10 DEF uses

\* The reference in use is itself used again within a pass.
LEMMA NowIsUsed ==
  ASSUME HistoryInv, seq # <<>>
  PROVE  UsesAhead(At(Now)) # {}
<1> DEFINE d == IF opt.pre THEN 0 ELSE Len(seq)
<1>1. Len(seq) \in Nat \ {0} /\ Now \in Nat
  BY CursorFollows DEF HistoryInv
<1>2. At(Now + Len(seq)) = At(Now) /\ Now + 0 = Now
  BY <1>1, AheadOfCursor
<1>3. At(Now + d) = At(Now)
  BY <1>2
<1>4. d \in FirstUse..(FirstUse + Len(seq) - 1)
  BY <1>1 DEF FirstUse
<1> HIDE DEF d
<1> QED
  BY <1>3, <1>4 DEF UsesAhead

LEMMA DeclaredGivesUpLast == HistoryInv => DeclaredVictimIsFurthest
<1> SUFFICES ASSUME HistoryInv, Declared, NEW C \in Candidates
             PROVE  LET v    == SelectVictim(C)
                        kept == IF opt.protect THEN {At(Now), At(Max({Now - 1, 0}))} ELSE {} IN
                    /\ \A c \in C \ kept : NextUse(c) <= NextUse(v)
                    /\ opt.protect /\ v = At(Now) => C \subseteq kept
  BY DEF DeclaredVictimIsFurthest
<1> DEFINE v == SelectVictim(C)
           kept == IF opt.protect THEN {At(Now), At(Max({Now - 1, 0}))} ELSE {}
<1>1. seq # <<>> /\ opt.policy = "declared"
  BY DEF Declared
<1>2. \A x : Rank(x) = declared_dist(x)
  BY <1>1 DEF Rank, NextUseDistance
<1>3. v \in C /\ \A c \in C : declared_dist(c) <= declared_dist(v)
  BY <1>2, CandidatesAreChunks DEF HistoryInv
<1>4. \A x \in Protected : x \in kept
  BY <1>1, ProtectedIsKept
<1>5. \A x : /\ NextUse(x) \in Nat
             /\ x \notin kept => declared_dist(x) = NextUse(x)
             /\ declared_dist(x) \in {0, NextUse(x)}
  BY <1>1, <1>4, DistanceIsNextUse
<1> HIDE DEF v, kept
<1>6. ASSUME NEW c \in C \ kept PROVE NextUse(c) <= NextUse(v)
  <2>1. declared_dist(c) = NextUse(c) /\ NextUse(c) <= declared_dist(v)
    BY <1>3, <1>5
  <2>2. NextUse(c) \in Nat /\ NextUse(v) \in Nat /\ declared_dist(v) \in {0, NextUse(v)}
    BY <1>5
  <2> QED
    BY <2>1, <2>2
<1>7. ASSUME opt.protect, v = At(Now), NEW c \in C, c \notin kept PROVE FALSE
  <2>1. v \in Protected
    <3>1. v = At(Max({pos, 0}))
      <4>1. At(Max({pos, 0}) + 0) = At(Now + 0)
        BY <1>1, AheadOfCursor
      <4>2. Now \in Nat /\ Now % Len(seq) \in Nat /\ Max({pos, 0}) = Now % Len(seq)
        <5>1. Len(seq) \in Nat \ {0} /\ Now \in Nat /\ Max({pos, 0}) = Now % Len(seq)
          BY <1>1, CursorFollows DEF HistoryInv
        <5> QED
          BY <5>1, DivMod
      <4>3. Max({pos, 0}) + 0 = Max({pos, 0}) /\ Now + 0 = Now
        BY <4>2
      <4> QED
        BY <1>7, <4>1, <4>3
    <3> QED
      BY <1>7, <3>1 DEF Protected
  <2>2. UsesAhead(v) # {}
    BY <1>1, <1>7, NowIsUsed
  <2>3. declared_dist(v) = 0
    BY <1>1, <2>1, <2>2, DistanceIsNextUse
  <2>4. NextUse(c) <= 0 /\ NextUse(c) \in Nat
    BY <1>3, <1>5, <1>7, <2>3
  <2>5. NextUse(c) = 0
    BY <2>4
  <2>6. 0 \in UsesAhead(c)
    <3>1. NextUse(c) \in UsesAhead(c) \cup {INT64_MAX}
      BY <1>1, DistanceIsNextUse
    <3> QED
      BY <2>5, <3>1 DEF INT64_MAX
  <2>7. At(Now + 0) = c
    BY <2>6 DEF UsesAhead
  <2>8. Now + 0 = Now
    BY <1>1, CursorFollows DEF HistoryInv
  <2>9. c = At(Now)
    BY <2>7, <2>8
  <2> QED
    BY <1>7, <2>9 DEF kept
<1> QED
  BY <1>6, <1>7 DEF v, kept

\* With a signal in step with the reads, the declared policy gives up the
\* candidate that the application needs last, and the one in use only for want
\* of another, for any number of chunks and any sequence, repeats and skips
\* included (policy.c lo_declared_dist, lo_declared_on_access,
\* lo_declared_select_victim).
THEOREM DeclaredGivesUpFurthest == Spec => []DeclaredVictimIsFurthest
BY DeclaredGivesUpLast, HistoryInvariance, PTL

-----------------------------------------------------------------------------
(* Predictions *)

LEMMA LearnedPrediction == HistoryInv => LearnedFollowsLastFault
BY DEF HistoryInv, SuccessorsExact, Successor, LearnedFollowsLastFault, PredictNext

LEMMA DeclaredPrediction == HistoryInv => DeclaredPredictsSuccessor
<1> SUFFICES ASSUME HistoryInv, Declared, NEW i \in 0..(Len(seq) - 1),
                    \A j \in (i + 1)..(Len(seq) - 1) : At(j) # At(i)
             PROVE  PredictNext(At(i)) = At(i + 1)
  BY DEF DeclaredPredictsSuccessor
<1> DEFINE n == Len(seq)
           c == At(i)
<1>1. n \in Nat \ {0} /\ DOMAIN seq = 1..n
  BY DEF Declared, HistoryInv, PolicyTypeOK
<1>2. \A j \in 0..(n - 1) : At(j) = seq[j + 1]
  BY <1>1, ModSmall DEF At
<1> HIDE DEF n
<1>3. Occurrences(c) = {k \in 1..n : seq[k] = c}
  BY DEF Occurrences, n
<1>4. i \in 0..(n - 1) /\ \A j \in (i + 1)..(n - 1) : At(j) # c
  BY DEF n
<1> HIDE DEF c
<1>5. i + 1 \in Occurrences(c)
  BY <1>1, <1>2, <1>3, <1>4 DEF c
<1>6. ASSUME NEW k \in Occurrences(c) PROVE k <= i + 1
  <2>1. k \in 1..n /\ seq[k] = c
    BY <1>3
  <2> SUFFICES ASSUME k > i + 1 PROVE FALSE
    BY <1>4, <2>1
  <2> DEFINE j == k - 1
  <2>2. j \in (i + 1)..(n - 1) /\ j \in 0..(n - 1) /\ j + 1 = k
    BY <1>1, <1>4, <2>1
  <2> HIDE DEF j
  <2> QED
    BY <1>2, <1>4, <2>1, <2>2
<1>7. Occurrences(c) \in SUBSET Int
  BY <1>1, <1>3
<1>8. Max(Occurrences(c)) = i + 1
  BY <1>5, <1>6, <1>7, MaxIs
<1>9. NextInSeq(c) = At(i + 1)
  BY <1>5, <1>8 DEF NextInSeq
<1> QED
  BY <1>9 DEF Declared, PredictNext, c

\* The learned policy predicts what followed the chunk last time, the declared
\* one what follows its last use of the pass, through any mix of faults and for
\* any sequence (policy.c lo_learned_on_fault, lo_declared_predict_next).
THEOREM PredictionsHold == Spec => []PredictionsFollow
<1>1. HistoryInv => PredictionsFollow
  BY LearnedPrediction, DeclaredPrediction DEF PredictionsFollow
<1> QED
  BY <1>1, HistoryInvariance, PTL

-----------------------------------------------------------------------------
(* Sorting *)

\* The elements of s are those of S, in the order of their keys.
Sorted(s, S, key) ==
  /\ s \in [1..Cardinality(S) -> S]
  /\ \A x \in S : \E i \in 1..Cardinality(S) : s[i] = x
  /\ \A i, j \in 1..Cardinality(S) : i < j => key[s[i]] < key[s[j]]

LEMMA SortedIs ==
  ASSUME NEW key, IsFiniteSet(DOMAIN key), key \in [DOMAIN key -> Int],
         \A x, y \in DOMAIN key : key[x] = key[y] => x = y
  PROVE  Sorted(SortedBy(key), DOMAIN key, key)
<1> DEFINE S == DOMAIN key
           n == Cardinality(S)
           Below(x) == {y \in S : key[y] <= key[x]}
           r == [x \in S |-> Cardinality(Below(x))]
           s == SortedBy(key)
<1>1. n \in Nat
  BY FS_CardinalityType
<1>2. ASSUME NEW x \in S
      PROVE  IsFiniteSet(Below(x)) /\ r[x] \in 1..n
  <2>1. Below(x) \in SUBSET S /\ x \in Below(x)
    OBVIOUS
  <2> HIDE DEF Below
  <2>2. IsFiniteSet(Below(x)) /\ Cardinality(Below(x)) <= n
    BY <2>1, FS_Subset
  <2>3. Cardinality(Below(x)) \in Nat /\ Cardinality(Below(x)) # 0
    BY <2>1, <2>2, FS_CardinalityType, FS_EmptySet
  <2> QED
    BY <1>1, <2>2, <2>3
<1>3. ASSUME NEW x \in S, NEW y \in S, key[x] < key[y]
      PROVE  r[x] < r[y]
  <2>1. Below(x) \in SUBSET Below(y) /\ y \in Below(y) /\ y \notin Below(x)
    BY <1>3
  <2>2. IsFiniteSet(Below(y)) /\ IsFiniteSet(Below(x)) /\ r[x] \in 1..n /\ r[y] \in 1..n
    BY <1>2
  <2> HIDE DEF Below
  <2>3. Cardinality(Below(x)) <= Cardinality(Below(y)) /\ Cardinality(Below(x)) # Cardinality(Below(y))
    BY <2>1, <2>2, FS_Subset
  <2> HIDE DEF n
  <2> QED
    BY <1>1, <2>2, <2>3
<1>4. ASSUME NEW x \in S, NEW y \in S, r[x] = r[y]
      PROVE  x = y
  <2>1. key[x] \in Int /\ key[y] \in Int /\ r[x] \in Int /\ r[y] \in Int
    BY <1>2
  <2>2. ~ (key[x] < key[y]) /\ ~ (key[y] < key[x])
    <3> HIDE DEF r
    <3> QED
      BY <1>3, <1>4, <2>1
  <2> QED
    BY <2>1, <2>2
<1>5. r \in [S -> 1..n]
  BY <1>2
<1> HIDE DEF r
<1>6. \A i \in 1..n : \E x \in S : r[x] = i
  <2>1. IsFiniteSet(1..n) /\ Cardinality(1..n) = n
    BY <1>1, FS_Interval
  <2>2. r \in Injection(S, 1..n)
    BY <1>4, <1>5 DEF Injection, IsInjective
  <2>3. r \in Surjection(S, 1..n)
    BY <2>1, <2>2, FS_Injection
  <2> QED
    BY <2>3 DEF Surjection
<1>7. s = [i \in 1..n |-> CHOOSE x \in S : Cardinality(Below(x)) = i]
  BY DEF SortedBy
<1>8. ASSUME NEW i \in 1..n PROVE s[i] \in S /\ r[s[i]] = i
  <2>1. s[i] = CHOOSE x \in S : Cardinality(Below(x)) = i
    BY <1>7
  <2>2. \A x \in S : r[x] = Cardinality(Below(x))
    BY DEF r
  <2> HIDE DEF s, Below
  <2>3. \E x \in S : Cardinality(Below(x)) = i
    BY <1>6, <2>2
  <2>4. s[i] \in S /\ Cardinality(Below(s[i])) = i
    BY <2>1, <2>3
  <2> QED
    BY <2>2, <2>4
<1>9. s \in [1..n -> S]
  <2>1. s = [i \in 1..n |-> s[i]]
    BY <1>7
  <2> HIDE DEF s
  <2> QED
    BY <1>8, <2>1
<1> HIDE DEF s
<1>10. \A x \in S : \E i \in 1..n : s[i] = x
  <2> SUFFICES ASSUME NEW x \in S PROVE \E i \in 1..n : s[i] = x
    OBVIOUS
  <2>1. r[x] \in 1..n
    BY <1>5
  <2>2. s[r[x]] \in S /\ r[s[r[x]]] = r[x]
    BY <1>8, <2>1
  <2> QED
    BY <1>4, <2>1, <2>2
<1>11. ASSUME NEW i \in 1..n, NEW j \in 1..n, i < j PROVE key[s[i]] < key[s[j]]
  <2>1. s[i] \in S /\ s[j] \in S /\ r[s[i]] = i /\ r[s[j]] = j
    BY <1>8
  <2>2. key[s[i]] \in Int /\ key[s[j]] \in Int
    BY <2>1
  <2>3. i \in Int /\ j \in Int
    BY <1>1
  <2>4. ~ (key[s[j]] < key[s[i]])
    BY <1>3, <1>11, <2>1, <2>3
  <2>5. key[s[j]] # key[s[i]]
    BY <1>11, <2>1, <2>3
  <2> QED
    BY <2>2, <2>4, <2>5
<1> QED
  BY <1>9, <1>10, <1>11 DEF Sorted, s

-----------------------------------------------------------------------------
(* The tensors in order, and the boundaries *)

LEMMA FileFacts ==
  ASSUME file \in Files
  PROVE  /\ file.tensors # {} /\ file.tensors \subseteq TensorType
         /\ IsFiniteSet(file.tensors) /\ Cardinality(file.tensors) \in 1..(n_chunks - 1)
         /\ \A s, t \in file.tensors : s = t \/ s.off + s.size <= t.off \/ t.off + t.size <= s.off
         /\ \A t \in file.tensors : t.off + t.size <= file.size
         /\ file.size \in Nat /\ file.size + RC_ALIGN <= UINT64
         /\ file.graph \in Seq(NodeType) /\ file.graph # <<>>
         /\ \A n \in Range(file.graph) : n.role \in Layers => \E t \in file.tensors : t.group = n.role
<1>1. file.tensors # {} /\ IsFiniteSet(file.tensors) /\ Cardinality(file.tensors) < n_chunks
  BY FilesAssumption
<1>2. Cardinality(file.tensors) \in Nat /\ Cardinality(file.tensors) # 0
  BY <1>1, FS_CardinalityType, FS_EmptySet
<1> QED
  BY <1>1, <1>2, FilesAssumption, PolicyAssumption

LEMMA Widths ==
  RC_ALIGN \in Nat \ {0} /\ UINT64 \in Nat /\ MAX_CHUNKS_PER_LAYER \in Nat \ {0} /\ MaxTokens \in Nat
BY FilesAssumption

n_tensors == Cardinality(file.tensors)

LEMMA SrtIs ==
  ASSUME file \in Files
  PROVE  /\ n_tensors \in 1..(n_chunks - 1)
         /\ srt \in [1..n_tensors -> file.tensors] /\ Len(srt) = n_tensors
         /\ \A t \in file.tensors : \E i \in 1..n_tensors : srt[i] = t
         /\ \A i, j \in 1..n_tensors : i < j => srt[i].off + srt[i].size <= srt[j].off
<1> DEFINE T == file.tensors
           key == [t \in T |-> t.off]
<1>1. T \subseteq TensorType /\ IsFiniteSet(T) /\ n_tensors \in 1..(n_chunks - 1)
  BY FileFacts DEF n_tensors
<1>2. \A s, t \in T : s = t \/ s.off + s.size <= t.off \/ t.off + t.size <= s.off
  BY FileFacts
<1>3. \A t \in T : t.off \in Nat /\ t.size \in Nat \ {0}
  BY <1>1 DEF TensorType
<1> HIDE DEF T
<1>4. DOMAIN key = T /\ key \in [T -> Int]
  BY <1>3
<1>5. \A x, y \in T : key[x] = key[y] => x = y
  <2> SUFFICES ASSUME NEW x \in T, NEW y \in T, x.off = y.off PROVE x = y
    OBVIOUS
  <2> QED
    BY <1>2, <1>3
<1>6. Sorted(srt, T, key)
  <2>1. srt = SortedBy(key)
    BY DEF srt, T
  <2> HIDE DEF key
  <2> QED
    BY <1>1, <1>4, <1>5, <2>1, SortedIs
<1>7. srt \in [1..n_tensors -> T] /\ \A t \in T : \E i \in 1..n_tensors : srt[i] = t
  BY <1>6 DEF Sorted, n_tensors, T
<1>8. Len(srt) = n_tensors
  BY <1>1, <1>7
<1>9. ASSUME NEW i \in 1..n_tensors, NEW j \in 1..n_tensors, i < j
      PROVE  srt[i].off + srt[i].size <= srt[j].off
  <2>1. key[srt[i]] < key[srt[j]]
    BY <1>6, <1>9 DEF Sorted, n_tensors, T
  <2>2. srt[i] \in T /\ srt[j] \in T
    BY <1>7
  <2>3. srt[i].off < srt[j].off
    BY <2>1, <2>2
  <2>4. srt[i] # srt[j]
    BY <1>3, <2>2, <2>3
  <2> QED
    BY <1>2, <1>3, <2>2, <2>3, <2>4
<1> QED
  BY <1>1, <1>7, <1>8, <1>9 DEF T

\* f is the scan of the first n tensors.
IsScan(f, n) ==
  f = [i \in 1..n |-> IF i = 1 THEN FirstRun(srt[1]) ELSE NextRun(f[i - 1], srt[i])]

LEMMA ScanExists ==
  ASSUME file \in Files
  PROVE  \E f : IsScan(f, n_tensors)
<1> DEFINE S == {n \in 0..(n_tensors - 1) : \E f : IsScan(f, n + 1)}
<1>n. n_tensors \in Nat \ {0} /\ Len(srt) = n_tensors
  BY SrtIs
<1>1. 0 \in S
  <2> DEFINE f == [i \in 1..1 |-> FirstRun(srt[1])]
  <2>1. IsScan(f, 0 + 1)
    BY DEF IsScan
  <2> QED
    BY <1>n, <2>1
<1>2. ASSUME NEW n \in 0..((n_tensors - 1) - 1), n \in S
      PROVE  n + 1 \in S
  <2>1. PICK f : IsScan(f, n + 1)
    BY <1>2
  <2> DEFINE m == n + 1
             s == NextRun(f[m], srt[m + 1])
             g == [i \in 1..(m + 1) |-> IF i = m + 1 THEN s ELSE f[i]]
  <2>2. m \in 1..(n_tensors - 1) /\ m \in Nat
    BY <1>n
  <2> HIDE DEF s
  <2>3. ASSUME NEW i \in 1..(m + 1)
        PROVE  g[i] = IF i = 1 THEN FirstRun(srt[1]) ELSE NextRun(g[i - 1], srt[i])
    <3>1. CASE i = m + 1
      <4>1. g[i] = s /\ g[i - 1] = f[m] /\ i # 1 /\ m = i - 1
        BY <2>2, <3>1
      <4> QED
        BY <3>1, <4>1 DEF s
    <3>2. CASE i # m + 1
      <4>1. i \in 1..m /\ (i # 1 => i - 1 \in 1..m /\ i - 1 # m + 1 /\ i - 1 \in 1..(m + 1))
        BY <2>2, <3>2
      <4>2. g[i] = f[i] /\ (i # 1 => g[i - 1] = f[i - 1])
        BY <2>2, <3>2, <4>1
      <4>3. f[i] = IF i = 1 THEN FirstRun(srt[1]) ELSE NextRun(f[i - 1], srt[i])
        BY <2>1, <4>1 DEF IsScan
      <4> QED
        BY <4>2, <4>3
    <3> QED
      BY <3>1, <3>2
  <2>4. g = [i \in 1..(m + 1) |-> g[i]]
    OBVIOUS
  <2> HIDE DEF g
  <2>5. IsScan(g, m + 1)
    BY <2>3, <2>4 DEF IsScan
  <2> QED
    BY <1>n, <2>2, <2>5
<1> HIDE DEF S
<1>3. 0..(n_tensors - 1) \subseteq S
  BY <1>n, <1>1, <1>2, IntervalInduction
<1>4. n_tensors - 1 \in S
  BY <1>n, <1>3
<1>5. (n_tensors - 1) + 1 = n_tensors
  BY <1>n
<1> QED
  BY <1>4, <1>5 DEF S

LEMMA ScanIs ==
  ASSUME file \in Files
  PROVE  /\ scan[1] = FirstRun(srt[1])
         /\ \A i \in 2..n_tensors : scan[i] = NextRun(scan[i - 1], srt[i])
<1>n. n_tensors \in Nat \ {0} /\ Len(srt) = n_tensors
  BY SrtIs
<1> DEFINE E(f) == [i \in 1..n_tensors |-> IF i = 1 THEN FirstRun(srt[1]) ELSE NextRun(f[i - 1], srt[i])]
<1>1. scan = CHOOSE f : f = E(f)
  <2>1. scan = CHOOSE f : f = [i \in 1..Len(srt) |-> IF i = 1 THEN FirstRun(srt[1]) ELSE NextRun(f[i - 1], srt[i])]
    BY Zenon DEF scan
  <2> QED
    BY <1>n, <2>1, Zenon
<1>2. \E f : f = E(f)
  BY ScanExists DEF IsScan
<1>3. scan = E(scan)
  <2> HIDE DEF E
  <2> QED
    BY <1>1, <1>2, Zenon
<1> QED
  BY <1>n, <1>3

LEMMA PageStart ==
  ASSUME NEW v \in Nat
  PROVE  /\ align_down(v) \in Nat
         /\ align_down(v) <= v /\ v < align_down(v) + RC_ALIGN
         /\ align_down(v) % RC_ALIGN = 0
         /\ \A e \in Nat : e <= v /\ e % RC_ALIGN = 0 => e <= align_down(v)
BY Widths, RoundDown, WholeBelow DEF align_down

LEMMA PagesInOrder ==
  ASSUME NEW u \in Nat, NEW v \in Nat, u <= v
  PROVE  align_down(u) <= align_down(v)
<1>1. align_down(u) \in Nat /\ align_down(u) <= v /\ align_down(u) % RC_ALIGN = 0
  BY PageStart
<1> QED
  BY <1>1, PageStart

Groups    == {GRP_HEADER, GRP_OTHER} \cup Roles
BoundType == [off : Nat, group : Groups]

LEMMA BoundIs ==
  ASSUME NEW t \in TensorType
  PROVE  /\ Bound(t) \in BoundType /\ Bound(t).off = align_down(t.off) /\ Bound(t).group = t.group
         /\ t.off \in Nat /\ t.size \in Nat \ {0} /\ t.group \in Groups
<1>1. t.off \in Nat /\ t.size \in Nat \ {0} /\ t.group \in Groups
  BY DEF TensorType, Groups
<1> QED
  BY <1>1, PageStart DEF Bound, BoundType

\* Boundaries start at 0 and rise from page to page, no further than the page of
\* the byte last.
BoundsSound(b, last) ==
  /\ b \in Seq(BoundType) /\ Len(b) >= 1
  /\ b[1].off = 0
  /\ \A m \in 1..Len(b) : b[m].off % RC_ALIGN = 0
  /\ \A m \in 2..Len(b) : b[m - 1].off < b[m].off
  /\ b[Len(b)].off <= align_down(last)

LEMMA FirstBounds ==
  ASSUME NEW t \in TensorType
  PROVE  LET b == FirstRun(t).bnd IN BoundsSound(b, t.off) /\ Len(b) <= 2
<1> DEFINE b == FirstRun(t).bnd
           head == [off |-> 0, group |-> GRP_HEADER]
<1>1. /\ Bound(t) \in BoundType /\ Bound(t).off = align_down(t.off) /\ Bound(t).group = t.group
      /\ t.off \in Nat
  BY BoundIs
<1>2. align_down(t.off) \in Nat /\ align_down(t.off) % RC_ALIGN = 0
  BY <1>1, PageStart
<1>3. b = IF align_down(t.off) = 0 THEN <<Bound(t)>> ELSE <<head, Bound(t)>>
  BY DEF FirstRun
<1>4. head \in BoundType /\ head.off = 0 /\ 0 % RC_ALIGN = 0
  BY Widths DEF BoundType, Groups
<1> HIDE DEF head, b
<1>5. CASE align_down(t.off) = 0
  BY <1>1, <1>2, <1>3, <1>5 DEF BoundsSound, b
<1>6. CASE align_down(t.off) # 0
  <2>1. b = <<head, Bound(t)>> /\ Len(b) = 2 /\ b[1] = head /\ b[2] = Bound(t) /\ b \in Seq(BoundType)
    BY <1>1, <1>3, <1>4, <1>6
  <2>2. 0 < align_down(t.off)
    BY <1>2, <1>6
  <2>3. \A m \in 1..Len(b) : b[m].off % RC_ALIGN = 0
    BY <1>1, <1>2, <1>4, <2>1
  <2>4. \A m \in 2..Len(b) : b[m - 1].off < b[m].off
    BY <1>1, <1>4, <2>1, <2>2
  <2>5. b[Len(b)].off <= align_down(t.off) /\ b[1].off = 0
    BY <1>1, <1>2, <1>4, <2>1
  <2> QED
    BY <2>1, <2>3, <2>4, <2>5 DEF BoundsSound, b
<1> QED
  BY <1>5, <1>6

LEMMA NextBounds ==
  ASSUME NEW s, NEW t \in TensorType, NEW last \in Nat, last <= t.off, BoundsSound(s.bnd, last)
  PROVE  LET b == NextRun(s, t).bnd IN BoundsSound(b, t.off) /\ Len(b) <= Len(s.bnd) + 1
<1> DEFINE b == NextRun(s, t).bnd
           a == s.bnd
           n == Len(a)
<1>1. /\ Bound(t) \in BoundType /\ Bound(t).off = align_down(t.off) /\ Bound(t).group = t.group
      /\ t.off \in Nat
  BY BoundIs
<1>2. align_down(t.off) \in Nat /\ align_down(t.off) % RC_ALIGN = 0
  BY <1>1, PageStart
<1>3. align_down(last) \in Nat /\ align_down(last) <= align_down(t.off)
  BY <1>1, PagesInOrder, PageStart
<1>4. /\ a \in Seq(BoundType) /\ n \in Nat /\ n >= 1 /\ a[1].off = 0
      /\ \A m \in 1..n : a[m].off % RC_ALIGN = 0
      /\ \A m \in 2..n : a[m - 1].off < a[m].off
      /\ a[n].off <= align_down(last)
  BY DEF BoundsSound
<1>5. a[n].off \in Nat
  <2>1. a[n] \in BoundType
    BY <1>4
  <2> QED
    BY <2>1 DEF BoundType
<1>6. CASE b = a
  <2> HIDE DEF b, a, n
  <2>1. a[n].off <= align_down(t.off)
    BY <1>2, <1>3, <1>4, <1>5
  <2> QED
    BY <1>4, <1>6, <2>1 DEF BoundsSound, b, a, n
<1>7. CASE b # a
  <2>1. t.group # s.cur /\ ~ SamePage(align_down(t.off), a) /\ b = Append(a, Bound(t))
    BY <1>7 DEF NextRun
  <2>2. a[n].off < align_down(t.off)
    BY <1>2, <1>5, <2>1 DEF SamePage, Last
  <2> HIDE DEF b, a
  <2>3. b \in Seq(BoundType) /\ Len(b) = n + 1 /\ b[n + 1] = Bound(t) /\ \A m \in 1..n : b[m] = a[m]
    BY <1>1, <1>4, <2>1
  <2> HIDE DEF n
  <2>4. ASSUME NEW m \in 1..(n + 1) PROVE b[m].off % RC_ALIGN = 0
    <3>1. CASE m = n + 1
      BY <1>1, <1>2, <2>3, <3>1
    <3>2. CASE m # n + 1
      <4>1. m \in 1..n
        BY <1>4, <3>2
      <4> QED
        BY <1>4, <2>3, <4>1
    <3> QED
      BY <3>1, <3>2
  <2>5. ASSUME NEW m \in 2..(n + 1) PROVE b[m - 1].off < b[m].off
    <3>1. CASE m = n + 1
      <4>1. b[m - 1] = a[n] /\ b[m] = Bound(t)
        BY <1>4, <2>3, <3>1
      <4> QED
        BY <1>1, <2>2, <4>1
    <3>2. CASE m # n + 1
      <4>1. m \in 2..n /\ m - 1 \in 1..n /\ m \in 1..n
        BY <1>4, <3>2
      <4> QED
        BY <1>4, <2>3, <4>1
    <3> QED
      BY <3>1, <3>2
  <2>6. b[1].off = 0 /\ Len(b) >= 1
    BY <1>4, <2>3
  <2>7. b[Len(b)].off <= align_down(t.off)
    BY <1>1, <1>2, <2>3
  <2>8. Len(b) <= n + 1
    BY <1>4, <2>3
  <2> QED
    BY <2>3, <2>4, <2>5, <2>6, <2>7, <2>8 DEF BoundsSound, b, n, a
<1> QED
  BY <1>6, <1>7

LEMMA ScanSound ==
  ASSUME file \in Files, NEW k \in 1..n_tensors
  PROVE  BoundsSound(scan[k].bnd, srt[k].off) /\ Len(scan[k].bnd) <= k + 1
<1> DEFINE P(i) == BoundsSound(scan[i].bnd, srt[i].off) /\ Len(scan[i].bnd) <= i + 1
           S == {i \in 0..(n_tensors - 1) : P(i + 1)}
<1>n. n_tensors \in Nat \ {0}
  BY SrtIs
<1>1. ASSUME NEW i \in 1..n_tensors PROVE srt[i] \in TensorType /\ srt[i].off \in Nat /\ srt[i].size \in Nat
  <2>1. srt[i] \in TensorType
    BY SrtIs, FileFacts
  <2> QED
    BY <2>1 DEF TensorType
<1>2. 0 \in S
  <2>1. scan[1] = FirstRun(srt[1]) /\ srt[1] \in TensorType
    BY <1>n, <1>1, ScanIs
  <2>2. P(0 + 1)
    BY <2>1, FirstBounds
  <2> QED
    BY <1>n, <2>2
<1>3. ASSUME NEW i \in 0..((n_tensors - 1) - 1), i \in S
      PROVE  i + 1 \in S
  <2> DEFINE m == i + 1
  <2>1. m \in 1..n_tensors /\ m + 1 \in 2..n_tensors /\ m + 1 \in 1..n_tensors /\ (m + 1) - 1 = m
    BY <1>n
  <2>2. P(m)
    BY <1>3
  <2> HIDE DEF m
  <2>3. scan[m + 1] = NextRun(scan[m], srt[m + 1])
    BY <2>1, ScanIs
  <2>4. srt[m].off \in Nat /\ srt[m].off <= srt[m + 1].off /\ srt[m + 1] \in TensorType
    <3>1. m < m + 1
      BY <2>1
    <3>2. srt[m].off + srt[m].size <= srt[m + 1].off
      BY <2>1, <3>1, SrtIs
    <3> QED
      BY <1>1, <2>1, <3>2
  <2>5. BoundsSound(scan[m + 1].bnd, srt[m + 1].off) /\ Len(scan[m + 1].bnd) <= Len(scan[m].bnd) + 1
    BY <2>2, <2>3, <2>4, NextBounds
  <2>6. Len(scan[m + 1].bnd) <= (m + 1) + 1
    <3>1. Len(scan[m + 1].bnd) \in Nat /\ Len(scan[m].bnd) \in Nat /\ m \in Nat
      BY <2>1, <2>2, <2>5 DEF BoundsSound
    <3> QED
      BY <2>2, <2>5, <3>1
  <2>7. m \in 0..(n_tensors - 1)
    BY <1>n, <2>1
  <2> QED
    BY <2>5, <2>6, <2>7 DEF m
<1> HIDE DEF S
<1>4. 0..(n_tensors - 1) \subseteq S
  BY <1>n, <1>2, <1>3, IntervalInduction
<1>5. k - 1 \in S /\ (k - 1) + 1 = k
  BY <1>n, <1>4
<1> QED
  BY <1>5 DEF S

-----------------------------------------------------------------------------
(* The table, which start-up accepts *)

LEMMA RegionLen ==
  ASSUME file \in Files
  PROVE  /\ region_len \in Nat /\ region_len < UINT64
         /\ file.size \in Nat /\ file.size <= region_len
<1> DEFINE w == file.size + RC_ALIGN - 1
<1>1. w \in Nat /\ file.size \in Nat /\ w < UINT64 /\ RC_ALIGN \in Nat \ {0} /\ UINT64 \in Nat
  BY FileFacts, Widths
<1>2. region_len = align_down(w)
  BY DEF region_len, align_up
<1>3. align_down(w) \in Nat /\ align_down(w) <= w /\ w < align_down(w) + RC_ALIGN
  BY <1>1, PageStart
<1> QED
  BY <1>1, <1>2, <1>3

ChunkType == [off : Nat, len : Nat \ {0}, group : Groups]

\* Chunks one after the other from 0, on pages.
InARow(t) ==
  /\ t \in Seq(ChunkType) /\ Len(t) >= 1
  /\ t[1].off = 0
  /\ \A c \in 1..Len(t) : t[c].off % RC_ALIGN = 0
  /\ \A c \in 1..(Len(t) - 1) : t[c].off + t[c].len = t[c + 1].off

LEMMA SpecsInARow ==
  ASSUME file \in Files
  PROVE  /\ InARow(Specs) /\ Len(Specs) \in 1..n_chunks
         /\ Specs[Len(Specs)].off + Specs[Len(Specs)].len = region_len
         /\ Len(Specs) = Len(Boundaries)
         /\ \A c \in 1..Len(Specs) : Specs[c].off = Boundaries[c].off /\ Specs[c].group = Boundaries[c].group
<1> DEFINE b == Boundaries
           n == Len(b)
           end(c) == IF c = n THEN region_len ELSE b[c + 1].off
           t == Specs
           top == srt[n_tensors]
<1>1. n_tensors \in 1..(n_chunks - 1) /\ Len(srt) = n_tensors /\ n_chunks \in Nat
  BY SrtIs, PolicyAssumption
<1>2. top \in file.tensors /\ top \in TensorType
  BY <1>1, SrtIs, FileFacts
<1>3. top.off \in Nat /\ top.size \in Nat \ {0} /\ top.off + top.size <= file.size
  BY <1>2, FileFacts DEF TensorType
<1>4. b = scan[n_tensors].bnd
  BY <1>1 DEF Boundaries
<1>5. BoundsSound(b, top.off) /\ n <= n_tensors + 1
  BY <1>1, <1>4, ScanSound
<1> HIDE DEF b, top
<1>6. /\ b \in Seq(BoundType) /\ n \in Nat /\ n >= 1 /\ b[1].off = 0
      /\ \A m \in 1..n : b[m].off % RC_ALIGN = 0
      /\ \A m \in 2..n : b[m - 1].off < b[m].off
      /\ b[n].off <= align_down(top.off)
  BY <1>5 DEF BoundsSound
<1>7. n \in 1..n_chunks
  BY <1>1, <1>5, <1>6
<1>8. ASSUME NEW m \in 1..n PROVE b[m] \in BoundType /\ b[m].off \in Nat /\ b[m].group \in Groups
  <2>1. b[m] \in BoundType
    BY <1>6
  <2> QED
    BY <2>1 DEF BoundType
<1>9. b[n].off < region_len /\ region_len \in Nat
  <2>1. align_down(top.off) \in Nat /\ align_down(top.off) <= top.off
    BY <1>3, PageStart
  <2>2. region_len \in Nat /\ file.size <= region_len /\ file.size \in Nat
    BY RegionLen
  <2>3. b[n].off \in Nat
    BY <1>6, <1>8
  <2> QED
    BY <1>3, <1>6, <2>1, <2>2, <2>3
<1>10. ASSUME NEW c \in 1..n
       PROVE  end(c) \in Nat /\ b[c].off < end(c)
  <2>1. CASE c = n
    BY <1>9, <2>1
  <2>2. CASE c # n
    <3>1. c + 1 \in 2..n /\ c + 1 \in 1..n /\ (c + 1) - 1 = c
      BY <1>6, <2>2
    <3>2. b[c].off < b[c + 1].off /\ b[c + 1].off \in Nat
      BY <1>6, <1>8, <3>1
    <3> QED
      BY <2>2, <3>2
  <2> QED
    BY <2>1, <2>2
<1>11. DOMAIN b = 1..n
  BY <1>6
<1>12. t = [c \in 1..n |-> [off |-> b[c].off, len |-> end(c) - b[c].off, group |-> b[c].group]]
  BY <1>11 DEF Specs, b
<1> HIDE DEF t, n, end
<1>13. ASSUME NEW c \in 1..n
       PROVE  /\ t[c] \in ChunkType
              /\ t[c].off = b[c].off /\ t[c].group = b[c].group
              /\ t[c].off + t[c].len = end(c)
  <2>1. t[c] = [off |-> b[c].off, len |-> end(c) - b[c].off, group |-> b[c].group]
    BY <1>12
  <2>2. b[c].off \in Nat /\ b[c].group \in Groups /\ end(c) \in Nat /\ b[c].off < end(c)
    BY <1>8, <1>10
  <2>3. end(c) - b[c].off \in Nat \ {0} /\ b[c].off + (end(c) - b[c].off) = end(c)
    BY <2>2
  <2> QED
    BY <2>1, <2>2, <2>3 DEF ChunkType
<1>14. t \in [1..n -> ChunkType]
  <2>1. t = [c \in 1..n |-> t[c]]
    BY <1>12
  <2> QED
    BY <1>13, <2>1
<1>15. t \in Seq(ChunkType) /\ Len(t) = n
  BY <1>6, <1>14
<1>16. t[1].off = 0 /\ \A c \in 1..n : t[c].off % RC_ALIGN = 0
  BY <1>6, <1>13
<1>17. ASSUME NEW c \in 1..(n - 1) PROVE t[c].off + t[c].len = t[c + 1].off
  <2>1. c \in 1..n /\ c + 1 \in 1..n /\ c # n
    BY <1>6
  <2>2. end(c) = b[c + 1].off
    BY <2>1 DEF end
  <2> QED
    BY <1>13, <2>1, <2>2
<1>18. t[n].off + t[n].len = region_len
  <2>1. n \in 1..n /\ end(n) = region_len
    BY <1>6 DEF end
  <2> QED
    BY <1>13, <2>1
<1>19. InARow(t)
  BY <1>6, <1>15, <1>16, <1>17 DEF InARow
<1>20. \A c \in 1..n : t[c].off = b[c].off /\ t[c].group = b[c].group
  BY <1>13
<1> QED
  BY <1>7, <1>15, <1>18, <1>19, <1>20 DEF t, b, n

LEMMA SpecsAccepted ==
  ASSUME file \in Files
  PROVE  Accepted(Specs)
<1> DEFINE t == Specs
           n == Len(t)
           x == [c \in DOMAIN t |-> [off |-> t[c].off, len |-> t[c].len, file_off |-> t[c].off]]
<1>1. InARow(t) /\ n \in 1..n_chunks /\ t[n].off + t[n].len = region_len
  BY SpecsInARow
<1>2. region_len \in Nat /\ region_len < UINT64 /\ UINT64 \in Nat
  BY RegionLen, Widths
<1> HIDE DEF t
<1>3. /\ t \in Seq(ChunkType) /\ n \in Nat \ {0} /\ t[1].off = 0 /\ DOMAIN t = 1..n
      /\ \A c \in 1..n : t[c].off % RC_ALIGN = 0
      /\ \A c \in 1..(n - 1) : t[c].off + t[c].len = t[c + 1].off
  BY <1>1 DEF InARow
<1>4. ASSUME NEW c \in 1..n PROVE t[c].off \in Nat /\ t[c].len \in Nat \ {0}
  <2>1. t[c] \in ChunkType
    BY <1>3
  <2> QED
    BY <2>1 DEF ChunkType
<1>5. n \in Nat \ {0} /\ x = [c \in 1..n |-> [off |-> t[c].off, len |-> t[c].len, file_off |-> t[c].off]]
  BY <1>3
<1> HIDE DEF n, x
\* No end wraps: ends are at most the next offset, and these rise to the last end.
<1>6. \A c \in 1..n : t[c].off + t[c].len <= region_len
  <2> DEFINE S == {k \in 0..(n - 1) : t[n - k].off + t[n - k].len <= region_len}
  <2>1. 0 \in S
    BY <1>1, <1>2, <1>4, <1>5 DEF n
  <2>2. ASSUME NEW k \in 0..((n - 1) - 1), k \in S PROVE k + 1 \in S
    <3>1. n - (k + 1) \in 1..(n - 1) /\ n - (k + 1) \in 1..n /\ n - k \in 1..n /\ (n - (k + 1)) + 1 = n - k
      BY <1>5
    <3>2. t[n - (k + 1)].off + t[n - (k + 1)].len = t[n - k].off
      BY <1>3, <3>1 DEF n
    <3>3. t[n - k].off + t[n - k].len <= region_len
      BY <2>2
    <3>4. t[n - (k + 1)].off + t[n - (k + 1)].len <= region_len
      BY <1>2, <1>4, <3>1, <3>2, <3>3
    <3>5. k + 1 \in 0..(n - 1)
      BY <1>5
    <3> QED
      BY <3>4, <3>5
  <2> HIDE DEF S
  <2>n. n - 1 \in Nat
    BY <1>5
  <2>3. 0..(n - 1) \subseteq S
    BY <2>n, <2>1, <2>2, IntervalInduction
  <2>4. ASSUME NEW c \in 1..n PROVE t[c].off + t[c].len <= region_len
    <3>1. n - c \in 0..(n - 1) /\ n - (n - c) = c
      BY <1>5
    <3>2. n - c \in S
      BY <2>3, <3>1
    <3> QED
      BY <3>1, <3>2 DEF S
  <2> QED
    BY <2>4
<1>7. ASSUME NEW c \in 1..n
      PROVE  (x[c].off + x[c].len) % UINT64 = t[c].off + t[c].len
  <2>1. x[c].off = t[c].off /\ x[c].len = t[c].len
    BY <1>5
  <2>2. t[c].off + t[c].len \in 0..(UINT64 - 1)
    BY <1>2, <1>4, <1>6
  <2> QED
    BY <1>2, <2>1, <2>2, ModSmall
<1>8. Len(x) = n /\ DOMAIN x = 1..n
  BY <1>5
<1>9. ASSUME NEW c \in 1..n PROVE x[c].off = Startup!expect_off(x, c)
  <2>1. CASE c = 1
    BY <1>3, <1>5, <2>1 DEF Startup!expect_off
  <2>2. CASE c # 1
    <3>1. c - 1 \in 1..n /\ c - 1 \in 1..(n - 1) /\ (c - 1) + 1 = c
      BY <1>5, <2>2
    <3>2. t[c - 1].off + t[c - 1].len = t[c].off
      BY <1>3, <3>1 DEF n
    <3>3. Startup!expect_off(x, c) = (x[c - 1].off + x[c - 1].len) % UINT64
      BY <2>2 DEF Startup!expect_off
    <3>4. x[c].off = t[c].off
      BY <1>5
    <3> QED
      BY <1>7, <3>1, <3>2, <3>3, <3>4
  <2> QED
    BY <2>1, <2>2
<1>10. ASSUME NEW c \in 1..n
       PROVE  /\ x[c].file_off = x[c].off /\ x[c].len # 0 /\ x[c].off % RC_ALIGN = 0
              /\ c < n => x[c].len % RC_ALIGN = 0
  <2>1. x[c].file_off = t[c].off /\ x[c].off = t[c].off /\ x[c].len = t[c].len
    BY <1>5
  <2>2. t[c].len # 0 /\ t[c].off % RC_ALIGN = 0
    BY <1>3, <1>4 DEF n
  <2>3. ASSUME c < n PROVE t[c].len % RC_ALIGN = 0
    <3>1. c + 1 \in 1..n /\ c \in 1..(n - 1)
      BY <1>5, <2>3
    <3>2. t[c].off + t[c].len = t[c + 1].off
      BY <1>3, <3>1 DEF n
    <3>3. t[c + 1].off % RC_ALIGN = 0 /\ t[c + 1].off \in Nat /\ t[c].off \in Nat /\ t[c].len \in Nat
      BY <1>3, <1>4, <3>1 DEF n
    <3>4. (t[c + 1].off - t[c].off) % RC_ALIGN = 0
      <4> DEFINE u == t[c].off  v == t[c + 1].off
      <4>1. u \in Nat /\ v \in Nat /\ u <= v /\ u % RC_ALIGN = 0 /\ v % RC_ALIGN = 0
        BY <2>2, <3>2, <3>3
      <4> HIDE DEF u, v
      <4>2. (v - u) % RC_ALIGN = 0
        BY <4>1, MultipleSum, Widths
      <4> QED
        BY <4>2 DEF u, v
    <3>5. t[c + 1].off - t[c].off = t[c].len
      BY <3>2, <3>3
    <3> QED
      BY <3>4, <3>5
  <2> QED
    BY <2>1, <2>2, <2>3
<1>11. Startup!expect_off(x, n + 1) = region_len
  <2>1. n + 1 # 1 /\ (n + 1) - 1 = n /\ n \in 1..n
    BY <1>5
  <2>2. Startup!expect_off(x, n + 1) = (x[n].off + x[n].len) % UINT64
    BY <2>1 DEF Startup!expect_off
  <2>3. t[n].off + t[n].len = region_len
    BY <1>1 DEF n
  <2> QED
    BY <1>7, <2>1, <2>2, <2>3
<1>12. Startup!Accept(x)
  BY <1>8, <1>9, <1>10, <1>11 DEF Startup!Accept
<1> QED
  BY <1>12 DEF Accepted, x, t

-----------------------------------------------------------------------------
(* The declared sequence *)

\* A finite set of integers has a greatest element.
LEMMA FiniteMax ==
  ASSUME NEW T \in SUBSET Int, T # {}, IsFiniteSet(T)
  PROVE  Max(T) \in T /\ \A k \in T : k <= Max(T)
<1> DEFINE key == [k \in T |-> k]
           n == Cardinality(T)
           s == SortedBy(key)
<1>1. n \in Nat /\ n # 0
  BY FS_CardinalityType, FS_EmptySet
<1>2. DOMAIN key = T /\ key \in [T -> Int] /\ \A x, y \in T : key[x] = key[y] => x = y
  OBVIOUS
<1>3. \A x \in T : key[x] = x
  OBVIOUS
<1>4. Sorted(s, T, key)
  <2> HIDE DEF key
  <2> QED
    BY <1>2, SortedIs
<1> HIDE DEF key, s
<1>5. /\ s \in [1..n -> T]
      /\ \A x \in T : \E i \in 1..n : s[i] = x
      /\ \A i, j \in 1..n : i < j => key[s[i]] < key[s[j]]
  BY <1>4 DEF Sorted
<1> HIDE DEF n
<1>6. n \in 1..n /\ s[n] \in T
  BY <1>1, <1>5
<1>7. ASSUME NEW k \in T PROVE k <= s[n]
  <2>1. PICK i \in 1..n : s[i] = k
    BY <1>5
  <2>2. CASE i = n
    BY <2>1, <2>2
  <2>3. CASE i # n
    <3>1. i < n
      BY <1>1, <2>3
    <3>2. key[s[i]] < key[s[n]]
      BY <1>5, <1>6, <3>1
    <3>3. k \in Int /\ s[n] \in Int /\ key[k] = k /\ key[s[n]] = s[n]
      BY <1>3, <1>6
    <3>4. key[k] < key[s[n]]
      BY <2>1, <3>2
    <3> QED
      BY <3>3, <3>4
  <2> QED
    BY <2>2, <2>3
<1>8. s[n] \in Int
  BY <1>6
<1> QED
  BY <1>6, <1>7, <1>8, MaxOf

LEMMA LayersAre ==
  ASSUME file \in Files
  PROVE  /\ n_layers \in Nat
         /\ \A t \in file.tensors : t.group \in Int /\ t.group < n_layers
<1> DEFINE T == file.tensors
           f == [t \in T |-> t.group]
           G == {t.group : t \in T}
           H == G \cup {-1}
<1>1. T \subseteq TensorType /\ IsFiniteSet(T)
  BY FileFacts
<1>2. \A t \in T : t.group \in Int
  BY <1>1 DEF TensorType, Roles, Layers, GRP_EMBD, GRP_OUTPUT, GRP_OUTNORM, GRP_OTHER
<1>3. f \in Surjection(T, G)
  BY DEF Surjection
<1>4. IsFiniteSet(G)
  <2> HIDE DEF f, G, T
  <2> QED
    BY <1>1, <1>3, FS_Surjection
<1>5. H \in SUBSET Int /\ -1 \in H
  BY <1>2
<1>6. IsFiniteSet(H)
  BY <1>4, FS_Singleton, FS_Union
<1>7. n_layers = Max(H) + 1
  BY DEF n_layers
<1>8. \A t \in T : t.group \in H
  OBVIOUS
<1> HIDE DEF H, T
<1>9. Max(H) \in H /\ \A k \in H : k <= Max(H)
  BY <1>5, <1>6, FiniteMax
<1>10. Max(H) \in Int /\ -1 <= Max(H)
  BY <1>5, <1>9
<1>11. n_layers \in Nat
  BY <1>7, <1>10
<1>12. ASSUME NEW t \in T PROVE t.group \in Int /\ t.group < n_layers
  BY <1>2, <1>7, <1>8, <1>9, <1>10
<1> QED
  BY <1>11, <1>12 DEF T

Names(t) == 0..(Len(t) - 1)

\* Different chunks of groups of G, layer after layer.
Piece(s, t, G) ==
  /\ s \in Seq(Names(t))
  /\ \A i \in 1..Len(s) : t[s[i] + 1].group \in G
  /\ \A i, j \in 1..Len(s) : i < j =>
       /\ s[i] # s[j]
       /\ t[s[i] + 1].group >= 0 /\ t[s[j] + 1].group >= 0 =>
            t[s[i] + 1].group <= t[s[j] + 1].group

LEMMA PieceEmpty ==
  ASSUME NEW t, NEW G
  PROVE  Piece(<<>>, t, G)
BY DEF Piece

LEMMA PieceMore ==
  ASSUME NEW t, NEW s, NEW G, NEW H, G \subseteq H, Piece(s, t, G)
  PROVE  Piece(s, t, H)
BY DEF Piece

LEMMA PieceConcat ==
  ASSUME NEW t, NEW a, NEW b, NEW G, NEW H, Piece(a, t, G), Piece(b, t, H),
         G \cap H = {}, \A g \in G, h \in H : g >= 0 /\ h >= 0 => g <= h
  PROVE  Piece(a \o b, t, G \cup H)
<1> DEFINE s == a \o b
           m == Len(a)
           n == Len(b)
           N == Names(t)
           gr(c) == t[c + 1].group
<1>1. a \in Seq(N) /\ b \in Seq(N) /\ m \in Nat /\ n \in Nat
  BY DEF Piece
<1>2. s \in Seq(N) /\ Len(s) = m + n
  BY <1>1, ConcatProperties
<1>3. /\ \A i \in 1..(m + n) : s[i] = IF i <= m THEN a[i] ELSE b[i - m]
  BY <1>1, ConcatProperties
<1>4. /\ \A i \in 1..m : gr(a[i]) \in G
      /\ \A i \in 1..n : gr(b[i]) \in H
      /\ \A i, j \in 1..m : i < j => a[i] # a[j] /\ (gr(a[i]) >= 0 /\ gr(a[j]) >= 0 => gr(a[i]) <= gr(a[j]))
      /\ \A i, j \in 1..n : i < j => b[i] # b[j] /\ (gr(b[i]) >= 0 /\ gr(b[j]) >= 0 => gr(b[i]) <= gr(b[j]))
  BY DEF Piece
<1> HIDE DEF s, m, n, gr
<1>5. ASSUME NEW i \in 1..(m + n) PROVE gr(s[i]) \in G \cup H
  <2>1. CASE i <= m
    <3>1. i \in 1..m /\ s[i] = a[i]
      BY <1>1, <1>3, <2>1
    <3> QED
      BY <1>4, <3>1
  <2>2. CASE ~ (i <= m)
    <3>1. i - m \in 1..n /\ s[i] = b[i - m]
      BY <1>1, <1>3, <2>2
    <3> QED
      BY <1>4, <3>1
  <2> QED
    BY <2>1, <2>2
<1>6. ASSUME NEW i \in 1..(m + n), NEW j \in 1..(m + n), i < j
      PROVE  s[i] # s[j] /\ (gr(s[i]) >= 0 /\ gr(s[j]) >= 0 => gr(s[i]) <= gr(s[j]))
  <2>1. CASE j <= m
    <3>1. i \in 1..m /\ j \in 1..m /\ s[i] = a[i] /\ s[j] = a[j]
      BY <1>1, <1>3, <1>6, <2>1
    <3> QED
      BY <1>4, <1>6, <3>1
  <2>2. CASE ~ (i <= m)
    <3>1. i - m \in 1..n /\ j - m \in 1..n /\ i - m < j - m /\ s[i] = b[i - m] /\ s[j] = b[j - m]
      BY <1>1, <1>3, <1>6, <2>2
    <3> QED
      BY <1>4, <3>1
  <2>3. CASE i <= m /\ ~ (j <= m)
    <3>1. i \in 1..m /\ j - m \in 1..n /\ s[i] = a[i] /\ s[j] = b[j - m]
      BY <1>1, <1>3, <2>3
    <3>2. gr(s[i]) \in G /\ gr(s[j]) \in H
      BY <1>4, <3>1
    <3> QED
      BY <3>2
  <2> QED
    BY <2>1, <2>2, <2>3
<1> QED
  BY <1>2, <1>5, <1>6 DEF Piece, s, gr

LEMMA GroupIsPiece ==
  ASSUME NEW t, Len(t) \in Nat, NEW g \in Int
  PROVE  /\ Piece(GroupChunks(t, g), t, {g})
         /\ \A c \in Names(t) : t[c + 1].group = g => \E i \in DOMAIN GroupChunks(t, g) : GroupChunks(t, g)[i] = c
<1> DEFINE S == {d \in Names(t) : t[d + 1].group = g}
           key == [c \in S |-> c]
           s == GroupChunks(t, g)
           n == Cardinality(S)
<1>1. IsFiniteSet(S) /\ n \in Nat
  <2>1. IsFiniteSet(Names(t))
    BY FS_Interval DEF Names
  <2> QED
    BY <2>1, FS_Subset, FS_CardinalityType
<1>2. DOMAIN key = S /\ key \in [S -> Int] /\ \A x, y \in S : key[x] = key[y] => x = y
  BY DEF Names
<1>3. s = SortedBy(key)
  BY DEF GroupChunks, Names
<1>4. \A c \in S : key[c] = c /\ c \in Names(t) /\ c \in Int /\ t[c + 1].group = g
  BY DEF Names
<1>5. \A c \in Names(t) : t[c + 1].group = g => c \in S
  OBVIOUS
<1>6. Sorted(s, S, key)
  <2> HIDE DEF key, s, S
  <2> QED
    BY <1>1, <1>2, <1>3, SortedIs
<1> HIDE DEF key, s, S
<1>7. /\ s \in [1..n -> S]
      /\ \A x \in S : \E i \in 1..n : s[i] = x
      /\ \A i, j \in 1..n : i < j => key[s[i]] < key[s[j]]
  BY <1>6 DEF Sorted
<1> HIDE DEF n
<1>8. s \in Seq(Names(t)) /\ Len(s) = n /\ DOMAIN s = 1..n
  <2>1. s \in [1..n -> Names(t)]
    BY <1>4, <1>7
  <2> QED
    BY <1>1, <2>1
<1>9. \A i \in 1..n : t[s[i] + 1].group = g
  BY <1>4, <1>7
<1>10. ASSUME NEW i \in 1..n, NEW j \in 1..n, i < j
       PROVE  /\ s[i] # s[j]
              /\ t[s[i] + 1].group >= 0 /\ t[s[j] + 1].group >= 0 => t[s[i] + 1].group <= t[s[j] + 1].group
  <2>1. s[i] \in S /\ s[j] \in S
    BY <1>7
  <2>2. s[i] \in Int /\ key[s[i]] = s[i] /\ key[s[j]] = s[j]
    BY <1>4, <2>1
  <2>3. s[i] # s[j]
    BY <1>7, <1>10, <2>2
  <2>4. t[s[i] + 1].group = g /\ t[s[j] + 1].group = g
    BY <1>9
  <2> QED
    BY <2>3, <2>4
<1>11. Piece(s, t, {g})
  BY <1>8, <1>9, <1>10 DEF Piece
<1>12. \A c \in Names(t) : t[c + 1].group = g => \E i \in DOMAIN s : s[i] = c
  BY <1>5, <1>7, <1>8
<1> QED
  BY <1>11, <1>12 DEF s
LEMMA LayerIsPiece ==
  ASSUME NEW t, Len(t) \in Nat, NEW g \in Int
  PROVE  /\ Piece(layer_chunks(t, g), t, {g})
         /\ GroupChunks(t, g) # <<>> => layer_chunks(t, g) # <<>>
<1> DEFINE a == GroupChunks(t, g)
           n == Len(a)
           m == Min({n, MAX_CHUNKS_PER_LAYER})
           s == layer_chunks(t, g)
<1>1. Piece(a, t, {g})
  BY GroupIsPiece
<1> HIDE DEF a
<1>2. /\ a \in Seq(Names(t)) /\ n \in Nat
      /\ \A i \in 1..n : t[a[i] + 1].group \in {g}
      /\ \A i, j \in 1..n : i < j =>
           /\ a[i] # a[j]
           /\ t[a[i] + 1].group >= 0 /\ t[a[j] + 1].group >= 0 => t[a[i] + 1].group <= t[a[j] + 1].group
  BY <1>1 DEF Piece
<1>3. m \in Nat /\ m <= n /\ (n # 0 => m # 0)
  <2>1. {n, MAX_CHUNKS_PER_LAYER} \in SUBSET Nat /\ MAX_CHUNKS_PER_LAYER # 0
    BY <1>2, Widths
  <2>2. m \in {n, MAX_CHUNKS_PER_LAYER} /\ m <= n
    <3> HIDE DEF n
    <3> QED
      BY <2>1, MinOf
  <2> QED
    BY <1>2, <2>1, <2>2
<1>4. s = SubSeq(a, 1, m)
  BY DEF layer_chunks, a
<1> HIDE DEF m, s
<1>5. \A i \in 1..m : i \in 1..n /\ a[i] \in Names(t)
  BY <1>2, <1>3
<1>6. s \in Seq(Names(t)) /\ Len(s) = m /\ \A i \in 1..m : s[i] = a[i]
  <2>1. m \in Int /\ 1 \in Int /\ (m - 1) + 1 = m
    BY <1>3
  <2>2. s \in Seq(Names(t)) /\ Len(s) = IF 1 <= m THEN (m - 1) + 1 ELSE 0
    BY <1>4, <1>5, <2>1, SubSeqProperties
  <2>3. \A i \in 1..((m - 1) + 1) : s[i] = a[(1 + i) - 1]
    BY <1>4, <1>5, <2>1, SubSeqProperties
  <2>4. ASSUME NEW i \in 1..m PROVE s[i] = a[i]
    <3>1. s[i] = a[(1 + i) - 1]
      BY <2>1, <2>3
    <3>2. (1 + i) - 1 = i
      BY <1>3
    <3> QED
      BY <3>1, <3>2
  <2> QED
    BY <1>3, <2>1, <2>2, <2>4
<1>7. Piece(s, t, {g})
  BY <1>2, <1>5, <1>6 DEF Piece
<1>8. ASSUME a # <<>> PROVE s # <<>>
  <2>1. n # 0
    BY <1>2, <1>8
  <2>2. Len(s) # 0
    BY <1>3, <1>6, <2>1
  <2> QED
    BY <2>2
<1> QED
  BY <1>7, <1>8 DEF s, a

\* The sequences of qs one after the other, up to the i-th.
IsFlattened(f, qs, n) ==
  f = [i \in 1..n |-> IF i = 1 THEN qs[1] ELSE f[i - 1] \o qs[i]]

LEMMA FlattenExists ==
  ASSUME NEW n \in Nat \ {0}, NEW qs
  PROVE  \E f : IsFlattened(f, qs, n)
<1> DEFINE S == {k \in 0..(n - 1) : \E f : IsFlattened(f, qs, k + 1)}
<1>n. n - 1 \in Nat
  OBVIOUS
<1>1. 0 \in S
  <2> DEFINE f == [i \in 1..1 |-> qs[1]]
  <2>1. IsFlattened(f, qs, 0 + 1)
    BY DEF IsFlattened
  <2> QED
    BY <2>1
<1>2. ASSUME NEW k \in 0..((n - 1) - 1), k \in S
      PROVE  k + 1 \in S
  <2>1. PICK f : IsFlattened(f, qs, k + 1)
    BY <1>2
  <2> DEFINE m == k + 1
             s == f[m] \o qs[m + 1]
             g == [i \in 1..(m + 1) |-> IF i = m + 1 THEN s ELSE f[i]]
  <2>2. m \in 1..(n - 1) /\ m \in Nat
    OBVIOUS
  <2> HIDE DEF s
  <2>3. ASSUME NEW i \in 1..(m + 1)
        PROVE  g[i] = IF i = 1 THEN qs[1] ELSE g[i - 1] \o qs[i]
    <3>1. CASE i = m + 1
      <4>1. g[i] = s /\ g[i - 1] = f[m] /\ i # 1
        BY <2>2, <3>1
      <4> QED
        BY <3>1, <4>1 DEF s
    <3>2. CASE i # m + 1
      <4>1. i \in 1..m /\ (i # 1 => i - 1 \in 1..m /\ i - 1 # m + 1 /\ i - 1 \in 1..(m + 1))
        BY <2>2, <3>2
      <4>2. g[i] = f[i] /\ (i # 1 => g[i - 1] = f[i - 1])
        BY <2>2, <3>2, <4>1
      <4>3. f[i] = IF i = 1 THEN qs[1] ELSE f[i - 1] \o qs[i]
        BY <2>1, <4>1 DEF IsFlattened
      <4> QED
        BY <4>2, <4>3
    <3> QED
      BY <3>1, <3>2
  <2>4. g = [i \in 1..(m + 1) |-> g[i]]
    OBVIOUS
  <2> HIDE DEF g
  <2>5. IsFlattened(g, qs, m + 1)
    BY <2>3, <2>4 DEF IsFlattened
  <2> QED
    BY <2>2, <2>5
<1> HIDE DEF S
<1>3. 0..(n - 1) \subseteq S
  BY <1>n, <1>1, <1>2, IntervalInduction
<1>4. n - 1 \in S /\ (n - 1) + 1 = n
  BY <1>3
<1> QED
  BY <1>4 DEF S

Flattens(f, qs, n) ==
  /\ FlattenSeq(qs) = f[n]
  /\ f[1] = qs[1]
  /\ \A i \in 2..n : f[i] = f[i - 1] \o qs[i]

LEMMA FlattenIs ==
  ASSUME NEW n \in Nat \ {0}, NEW qs, Len(qs) = n
  PROVE  \E f : Flattens(f, qs, n)
<1> DEFINE E(f) == [i \in 1..n |-> IF i = 1 THEN qs[1] ELSE f[i - 1] \o qs[i]]
           fl == CHOOSE f : f = [i \in 1..Len(qs) |-> IF i = 1 THEN qs[i] ELSE f[i - 1] \o qs[i]]
<1>1. FlattenSeq(qs) = IF Len(qs) = 0 THEN qs ELSE fl[Len(qs)]
  BY Zenon DEF FlattenSeq
<1>2. \A f : [i \in 1..Len(qs) |-> IF i = 1 THEN qs[i] ELSE f[i - 1] \o qs[i]] = E(f)
  OBVIOUS
<1>3. \E f : f = E(f)
  BY FlattenExists DEF IsFlattened
<1>4. fl = E(fl)
  <2>1. \E f : f = [i \in 1..Len(qs) |-> IF i = 1 THEN qs[i] ELSE f[i - 1] \o qs[i]]
    <3> HIDE DEF E
    <3> QED
      BY <1>2, <1>3, Zenon
  <2>2. fl = [i \in 1..Len(qs) |-> IF i = 1 THEN qs[i] ELSE fl[i - 1] \o qs[i]]
    BY <2>1, Zenon
  <2> HIDE DEF E, fl
  <2> QED
    BY <1>2, <2>2, Zenon
<1> HIDE DEF fl
<1>5. FlattenSeq(qs) = fl[n]
  BY <1>1
<1>6. \A i \in 1..n : fl[i] = IF i = 1 THEN qs[1] ELSE fl[i - 1] \o qs[i]
  <2>1. ASSUME NEW i \in 1..n PROVE E(fl)[i] = IF i = 1 THEN qs[1] ELSE fl[i - 1] \o qs[i]
    OBVIOUS
  <2> HIDE DEF E
  <2> QED
    BY <1>4, <2>1, Zenon
<1>7. fl[1] = qs[1]
  BY <1>6
<1>8. ASSUME NEW i \in 2..n PROVE fl[i] = fl[i - 1] \o qs[i]
  <2>1. i \in 1..n /\ i # 1
    OBVIOUS
  <2> QED
    BY <1>6, <2>1, Zenon
<1>9. Flattens(fl, qs, n)
  BY <1>5, <1>7, <1>8 DEF Flattens
<1> QED
  BY <1>9

LEMMA LayersArePiece ==
  ASSUME file \in Files, NEW t, Len(t) \in Nat
  PROVE  Piece(LayersInOrder(t), t, Nat)
<1> DEFINE n == n_layers
           qs == [L \in 1..n |-> layer_chunks(t, L - 1)]
<1>1. n \in Nat
  BY LayersAre
<1>2. LayersInOrder(t) = FlattenSeq(qs)
  BY DEF LayersInOrder
<1> HIDE DEF n
<1>3. Len(qs) = n
  BY <1>1
<1>4. CASE n = 0
  <2>1. qs = <<>>
    BY <1>4
  <2> HIDE DEF qs
  <2>2. FlattenSeq(qs) = qs
    BY <1>3, <1>4 DEF FlattenSeq
  <2> QED
    BY <1>2, <2>1, <2>2, PieceEmpty
<1>5. CASE n # 0
  <2>1. \A i \in 1..n : qs[i] = layer_chunks(t, i - 1)
    OBVIOUS
  <2> HIDE DEF qs
  <2>2. n \in Nat \ {0} /\ n - 1 \in Nat
    BY <1>1, <1>5
  <2>f. PICK f : Flattens(f, qs, n)
    BY <1>3, <2>2, FlattenIs
  <2>3. /\ FlattenSeq(qs) = f[n]
        /\ f[1] = qs[1]
        /\ \A i \in 2..n : f[i] = f[i - 1] \o qs[i]
    BY <2>f DEF Flattens
  <2> DEFINE S == {k \in 0..(n - 1) : Piece(f[k + 1], t, 0..k)}
  <2>4. 0 \in S
    <3>1. Piece(layer_chunks(t, 0), t, {0})
      BY LayerIsPiece
    <3>2. f[0 + 1] = layer_chunks(t, 0) /\ 0..0 = {0}
      BY <2>1, <2>2, <2>3
    <3> QED
      BY <2>2, <3>1, <3>2
  <2>5. ASSUME NEW k \in 0..((n - 1) - 1), k \in S
        PROVE  k + 1 \in S
    <3> DEFINE j == k + 1
    <3>1. Piece(f[j], t, 0..k)
      BY <2>5
    <3>2. j \in Nat /\ j + 1 \in 2..n /\ j + 1 \in 1..n /\ (j + 1) - 1 = j /\ k \in Nat /\ j \in 0..(n - 1)
      BY <2>2
    <3>3. (0..k) \cap {j} = {} /\ (\A g \in 0..k, h \in {j} : g >= 0 /\ h >= 0 => g <= h) /\ (0..k) \cup {j} = 0..j
      BY <3>2
    <3> HIDE DEF j
    <3>4. f[j + 1] = f[j] \o layer_chunks(t, j)
      BY <2>1, <2>3, <3>2
    <3>5. Piece(layer_chunks(t, j), t, {j})
      <4>1. j \in Int
        BY <3>2
      <4> QED
        BY <4>1, LayerIsPiece
    <3>6. Piece(f[j] \o layer_chunks(t, j), t, (0..k) \cup {j})
      BY <3>1, <3>3, <3>5, PieceConcat
    <3>7. Piece(f[j + 1], t, 0..j)
      BY <3>3, <3>4, <3>6
    <3> QED
      BY <3>2, <3>7 DEF j
  <2> HIDE DEF S
  <2>6. 0..(n - 1) \subseteq S
    BY <2>2, <2>4, <2>5, IntervalInduction
  <2>7. n - 1 \in S /\ (n - 1) + 1 = n
    BY <2>2, <2>6
  <2>8. Piece(f[n], t, 0..(n - 1))
    BY <2>7 DEF S
  <2>9. 0..(n - 1) \subseteq Nat
    OBVIOUS
  <2>10. Piece(f[n], t, Nat)
    BY <2>8, <2>9, PieceMore
  <2>11. LayersInOrder(t) = f[n]
    BY <1>2, <2>3
  <2> QED
    BY <2>10, <2>11
<1> QED
  BY <1>4, <1>5

\* The chunk of a role is one of its group, or stands for the default.
LEMMA RoleOfGroup ==
  ASSUME NEW t, Len(t) \in Nat, NEW g \in Int, NEW default
  PROVE  LET c == LastOr(GroupChunks(t, g), default) IN
         c = default \/ (c \in Names(t) /\ t[c + 1].group = g)
<1> DEFINE s == GroupChunks(t, g)
<1>1. Piece(s, t, {g})
  BY GroupIsPiece
<1> HIDE DEF s
<1>2. s \in Seq(Names(t)) /\ \A i \in 1..Len(s) : t[s[i] + 1].group = g
  BY <1>1 DEF Piece
<1>3. CASE s = <<>>
  BY <1>3 DEF LastOr, s
<1>4. CASE s # <<>>
  <2>1. Len(s) \in 1..Len(s)
    BY <1>2, <1>4
  <2>2. s[Len(s)] \in Names(t) /\ t[s[Len(s)] + 1].group = g
    BY <1>2, <2>1
  <2> QED
    BY <1>4, <2>2 DEF LastOr, Last, s
<1> QED
  BY <1>3, <1>4

LEMMA OneIsPiece ==
  ASSUME NEW t, Len(t) \in Nat, NEW c \in Names(t), NEW g, t[c + 1].group = g
  PROVE  Piece(<<c>>, t, {g})
BY DEF Piece

LEMMA DeclaredIsPiece ==
  ASSUME file \in Files, NEW t, Len(t) \in Nat
  PROVE  Piece(DeclaredSeq(t), t, Roles)
<1> DEFINE Once(c, before) == IF c = NoChunk \/ c \in before THEN <<>> ELSE <<c>>
           e == chunk_embd(t)
           n == chunk_outnorm(t)
           o == chunk_output(t)
           E == Once(e, {})
           L == LayersInOrder(t)
           N == Once(n, {e})
           O == Once(o, {e, n})
<1>1. DeclaredSeq(t) = ((E \o L) \o N) \o O
  BY DEF DeclaredSeq
<1>2. e = NoChunk \/ (e \in Names(t) /\ t[e + 1].group = GRP_EMBD)
  BY RoleOfGroup DEF chunk_embd, GRP_EMBD
<1>3. n = e \/ (n \in Names(t) /\ t[n + 1].group = GRP_OUTNORM)
  BY RoleOfGroup DEF chunk_outnorm, GRP_OUTNORM
<1>4. o = e \/ (o \in Names(t) /\ t[o + 1].group = GRP_OUTPUT)
  BY RoleOfGroup DEF chunk_output, GRP_OUTPUT
<1> HIDE DEF e, n, o
<1>5. Piece(E, t, {GRP_EMBD})
  BY <1>2, OneIsPiece, PieceEmpty
<1>6. Piece(N, t, {GRP_OUTNORM})
  BY <1>3, OneIsPiece, PieceEmpty
<1>7. Piece(O, t, {GRP_OUTPUT})
  BY <1>4, OneIsPiece, PieceEmpty
<1>8. Piece(L, t, Nat)
  BY LayersArePiece
<1> HIDE DEF E, L, N, O
<1>9. Piece(E \o L, t, {GRP_EMBD} \cup Nat)
  <2>1. {GRP_EMBD} \cap Nat = {} /\ \A g \in {GRP_EMBD}, h \in Nat : g >= 0 /\ h >= 0 => g <= h
    BY DEF GRP_EMBD
  <2> QED
    BY <1>5, <1>8, <2>1, PieceConcat
<1>10. Piece((E \o L) \o N, t, ({GRP_EMBD} \cup Nat) \cup {GRP_OUTNORM})
  <2> DEFINE G == {GRP_EMBD} \cup Nat
  <2>1. G \cap {GRP_OUTNORM} = {} /\ \A g \in G, h \in {GRP_OUTNORM} : g >= 0 /\ h >= 0 => g <= h
    BY DEF GRP_EMBD, GRP_OUTNORM
  <2> HIDE DEF G
  <2>2. Piece(E \o L, t, G)
    BY <1>9 DEF G
  <2>3. Piece((E \o L) \o N, t, G \cup {GRP_OUTNORM})
    BY <1>6, <2>1, <2>2, PieceConcat
  <2> QED
    BY <2>3 DEF G
<1>11. Piece(((E \o L) \o N) \o O, t, (({GRP_EMBD} \cup Nat) \cup {GRP_OUTNORM}) \cup {GRP_OUTPUT})
  <2> DEFINE G == ({GRP_EMBD} \cup Nat) \cup {GRP_OUTNORM}
  <2>1. G \cap {GRP_OUTPUT} = {} /\ \A g \in G, h \in {GRP_OUTPUT} : g >= 0 /\ h >= 0 => g <= h
    BY DEF GRP_EMBD, GRP_OUTNORM, GRP_OUTPUT
  <2> HIDE DEF G
  <2>2. Piece((E \o L) \o N, t, G)
    BY <1>10 DEF G
  <2>3. Piece(((E \o L) \o N) \o O, t, G \cup {GRP_OUTPUT})
    BY <1>7, <2>1, <2>2, PieceConcat
  <2> QED
    BY <2>3 DEF G
<1>12. (({GRP_EMBD} \cup Nat) \cup {GRP_OUTNORM}) \cup {GRP_OUTPUT} \subseteq Roles
  BY DEF Roles, Layers
<1> QED
  BY <1>1, <1>11, <1>12, PieceMore
-----------------------------------------------------------------------------
(* The invariant: the table and the sequence are those of the file. *)

LayoutInv ==
  /\ TypeOK
  /\ file \in Files
  /\ opt.policy = "declared"
  /\ phase # "refused"
  /\ stage = "signal" => token < MaxTokens
  /\ IF phase = "start" THEN specs = <<>> /\ seq = <<>> /\ pending = <<>>
                        ELSE specs = Specs /\ seq = DeclaredSeq(Specs)

LEMMA NamesAreChunks ==
  ASSUME file \in Files
  PROVE  /\ Len(Specs) \in Nat /\ Names(Specs) \subseteq Chunks
         /\ DeclaredSeq(Specs) \in Seq(Chunks)
<1>1. Len(Specs) \in 1..n_chunks /\ n_chunks \in Nat
  BY SpecsInARow, PolicyAssumption
<1>2. Names(Specs) \subseteq Chunks /\ Len(Specs) \in Nat
  BY <1>1 DEF Names, Chunks
<1>3. DeclaredSeq(Specs) \in Seq(Names(Specs))
  BY <1>2, DeclaredIsPiece DEF Piece
<1> QED
  BY <1>2, <1>3, SeqMonotonic

\* The signals of a node are of chunks of the table.
LEMMA SignalsExist ==
  ASSUME LayoutInv, phase # "start"
  PROVE  Signals \in Seq(Existing)
<1>1. file \in Files /\ specs = Specs /\ Existing = Names(specs) /\ Len(specs) \in Nat
  BY NamesAreChunks DEF LayoutInv, Existing, Names
<1>2. Node \in NodeType
  <2>1. file.graph \in Seq(NodeType) /\ node \in 1..Len(file.graph)
    BY <1>1, FileFacts DEF LayoutInv, TypeOK
  <2> QED
    BY <2>1 DEF Node
<1>3. Node.role \in Roles
  BY <1>2 DEF NodeType
<1>4. chunk_embd(specs) \in Names(specs) \cup {NoChunk}
  BY <1>1, RoleOfGroup DEF chunk_embd, GRP_EMBD
<1>5. /\ chunk_outnorm(specs) \in Names(specs) \cup {NoChunk}
      /\ chunk_output(specs) \in Names(specs) \cup {NoChunk}
  BY <1>1, <1>4, RoleOfGroup DEF chunk_outnorm, chunk_output, GRP_OUTNORM, GRP_OUTPUT
<1>6. CASE Node.role < 0
  <2>1. Node.role \in {GRP_EMBD, GRP_OUTNORM, GRP_OUTPUT}
    BY <1>3, <1>6 DEF Roles, Layers
  <2>2. RoleChunk(Node.role) \in Names(specs) \cup {NoChunk}
    BY <1>4, <1>5, <2>1 DEF RoleChunk, GRP_EMBD, GRP_OUTNORM, GRP_OUTPUT
  <2>3. Existent(RoleChunk(Node.role)) \in Seq(Names(specs))
    BY <2>2 DEF Existent
  <2> QED
    BY <1>1, <1>6, <2>3 DEF Signals
<1>7. CASE ~ (Node.role < 0)
  <2>1. Node.role \in Int
    BY <1>3 DEF Roles, Layers, GRP_EMBD, GRP_OUTNORM, GRP_OUTPUT
  <2>2. layer_chunks(specs, Node.role) \in Seq(Names(specs))
    BY <1>1, <2>1, LayerIsPiece DEF Piece
  <2>3. Signals = <<>> \/ Signals = layer_chunks(specs, Node.role)
    BY <1>7 DEF Signals
  <2>4. Signals \in Seq(Names(specs))
    <3>1. <<>> \in Seq(Names(specs))
      OBVIOUS
    <3> QED
      BY <2>2, <2>3, <3>1, Zenon
  <2> QED
    BY <1>1, <2>4, Zenon
<1> QED
  BY <1>6, <1>7

LEMMA LayoutInit ==
  LlamaInit => LayoutInv
<1> SUFFICES ASSUME LlamaInit PROVE LayoutInv
  OBVIOUS
<1>1. PolicyTypeOK
  BY PolicyAssumption DEF LlamaInit, PolicyInit, PolicyTypeOK
<1>2. file.graph \in Seq(NodeType) /\ file.graph # <<>> /\ n_layers \in Nat /\ MaxTokens \in Nat
  BY FileFacts, LayersAre, Widths DEF LlamaInit
<1>3. 1 \in 1..Len(file.graph) /\ -1 \in -1..(n_layers - 1) /\ 0 \in 0..MaxTokens
  BY <1>2
<1>4. TypeOK
  <2>1. /\ phase = "start" /\ token = 0 /\ node = 1 /\ stage = "ask" /\ last_layer = -1
        /\ pending = <<>> /\ notify_seq = 0 /\ audit_done = FALSE
    BY DEF LlamaInit
  <2>2. count \in [Chunks -> Nat]
    BY DEF LlamaInit
  <2>3. pending \in Seq(Existing)
    BY <2>1
  <2> QED
    BY <1>1, <1>3, <2>1, <2>2, <2>3 DEF TypeOK
<1> QED
  BY <1>4 DEF LlamaInit, PolicyInit, LayoutInv

LEMMA LayoutMmap ==
  ASSUME LayoutInv, Mmap
  PROVE  LayoutInv'
<1>1. phase = "start" /\ file \in Files /\ pending = <<>> /\ opt.policy = "declared" /\ TypeOK
  BY DEF LayoutInv, Mmap
<1>2. Accepted(Specs)
  BY <1>1, SpecsAccepted
<1>3. /\ specs' = Specs /\ phase' = "up" /\ DeclareSequence(DeclaredSeq(Specs))
      /\ UNCHANGED <<file, evalVars, auditVars, unusedPolicyVars>>
  BY <1>2 DEF Mmap
<1>4. Specs' = Specs /\ n_layers' = n_layers
  <2>1. file' = file
    BY <1>3
  <2>2. srt' = srt /\ n_layers' = n_layers /\ region_len' = region_len
    BY <2>1 DEF srt, n_layers, region_len
  <2>3. scan' = scan
    BY <2>2 DEF scan
  <2>4. Boundaries' = Boundaries
    BY <2>2, <2>3 DEF Boundaries
  <2> QED
    BY <2>2, <2>4 DEF Specs
<1>5. seq' = DeclaredSeq(Specs)
  BY <1>1, <1>3 DEF DeclareSequence
<1>6. DeclaredSeq(Specs)' = DeclaredSeq(Specs)
  BY <1>4 DEF DeclaredSeq, LayersInOrder
<1>7. PolicyTypeOK'
  BY <1>1, <1>3, NamesAreChunks, DeclareType DEF TypeOK, unusedPolicyVars
<1>8. TypeOK'
  <2>1. pending' \in Seq(Existing')
    BY <1>1, <1>3 DEF auditVars
  <2> QED
    BY <1>1, <1>3, <1>4, <1>7, <2>1 DEF TypeOK, evalVars, auditVars
<1>9. opt' = opt /\ file' = file /\ stage' = stage /\ token' = token
  BY <1>3 DEF unusedPolicyVars, evalVars
<1>10. (stage = "signal" => token < MaxTokens)'
  BY <1>9 DEF LayoutInv
<1> QED
  BY <1>1, <1>3, <1>4, <1>5, <1>6, <1>8, <1>9, <1>10 DEF LayoutInv

\* A step that leaves the file, the table and the sequence alone.
LEMMA SameLayout ==
  ASSUME UNCHANGED <<file, specs>>
  PROVE  /\ Specs' = Specs /\ DeclaredSeq(Specs)' = DeclaredSeq(Specs)
         /\ n_layers' = n_layers /\ Existing' = Existing
<1>1. srt' = srt /\ n_layers' = n_layers /\ region_len' = region_len /\ Existing' = Existing
  BY DEF srt, n_layers, region_len, Existing
<1>2. scan' = scan
  BY <1>1 DEF scan
<1>3. Boundaries' = Boundaries
  BY <1>1, <1>2 DEF Boundaries
<1>4. Specs' = Specs
  BY <1>1, <1>3 DEF Specs
<1>5. DeclaredSeq(Specs)' = DeclaredSeq(Specs)
  BY <1>1, <1>4 DEF DeclaredSeq, LayersInOrder
<1> QED
  BY <1>1, <1>4, <1>5

LEMMA LayoutAsk ==
  ASSUME LayoutInv, Ask
  PROVE  LayoutInv'
<1>1. TypeOK /\ file \in Files /\ phase = "up" /\ UNCHANGED fileVars /\ UNCHANGED <<pos, unusedPolicyVars>>
  BY DEF LayoutInv, Ask
<1>2. Specs' = Specs /\ DeclaredSeq(Specs)' = DeclaredSeq(Specs) /\ n_layers' = n_layers /\ Existing' = Existing
  BY <1>1, SameLayout DEF fileVars
<1>3. PolicyTypeOK'
  BY <1>1 DEF TypeOK, PolicyTypeOK, fileVars, unusedPolicyVars
<1>4. pending' \in Seq(Existing')
  BY <1>1, <1>2, SignalsExist DEF Ask
<1>5. last_layer' \in -1..(n_layers - 1)
  <2>1. n_layers \in Nat /\ \A t \in file.tensors : t.group \in Int /\ t.group < n_layers
    BY <1>1, LayersAre
  <2>2. Node \in Range(file.graph) /\ Node \in NodeType
    <3>1. file.graph \in Seq(NodeType) /\ node \in 1..Len(file.graph)
      BY <1>1, FileFacts DEF TypeOK
    <3> QED
      BY <3>1 DEF Node, Range
  <2>3. Node.role \in Roles /\ (Node.role \in Layers => \E t \in file.tensors : t.group = Node.role)
    BY <1>1, <2>2, FileFacts DEF NodeType
  <2>4. ASSUME Node.role >= GRP_EMBD PROVE Node.role \in -1..(n_layers - 1)
    <3>1. Node.role = -1 \/ Node.role \in Layers
      BY <2>3, <2>4 DEF Roles, GRP_EMBD, GRP_OUTNORM, GRP_OUTPUT
    <3>2. CASE Node.role = -1
      BY <2>1, <3>2
    <3>3. CASE Node.role \in Layers
      <4>1. Node.role \in Nat /\ Node.role < n_layers
        BY <2>1, <2>3, <3>3 DEF Layers
      <4> QED
        BY <2>1, <4>1
    <3> QED
      BY <3>1, <3>2, <3>3
  <2>5. last_layer' = last_layer \/ (Node.role >= GRP_EMBD /\ last_layer' = Node.role)
    BY DEF Ask
  <2> QED
    BY <1>1, <2>4, <2>5 DEF TypeOK
<1>6. TypeOK'
  BY <1>1, <1>2, <1>3, <1>4, <1>5 DEF TypeOK, Ask, fileVars
<1> QED
  BY <1>1, <1>2, <1>6 DEF LayoutInv, Ask, fileVars, unusedPolicyVars

LEMMA LayoutNotify ==
  ASSUME LayoutInv, NotifyChunk
  PROVE  LayoutInv'
<1> DEFINE c == Head(pending)
<1>1. /\ TypeOK /\ file \in Files /\ phase = "up" /\ pending # <<>> /\ OnAccess(c)
      /\ pending' = Tail(pending) /\ notify_seq' = notify_seq + 1
      /\ count' = [count EXCEPT ![c] = @ + 1]
      /\ UNCHANGED <<fileVars, evalVars, unusedPolicyVars>>
  BY DEF LayoutInv, NotifyChunk
<1>2. phase' \in {"up", "aborted"} /\ audit_done' \in BOOLEAN
  <2>1. phase \in {"up"} /\ audit_done \in BOOLEAN
    BY <1>1 DEF TypeOK
  <2> QED
    BY <2>1 DEF NotifyChunk
<1>3. Specs' = Specs /\ DeclaredSeq(Specs)' = DeclaredSeq(Specs) /\ n_layers' = n_layers /\ Existing' = Existing
  BY <1>1, SameLayout DEF fileVars
<1> HIDE DEF c
<1>4. PolicyTypeOK'
  BY <1>1, OnAccessType DEF TypeOK, fileVars, unusedPolicyVars
<1>5. pending' \in Seq(Existing')
  BY <1>1, <1>3 DEF TypeOK
<1>6. count' \in [Chunks -> Nat] /\ notify_seq' \in Nat
  <2>1. count \in [Chunks -> Nat] /\ notify_seq \in Nat
    BY <1>1 DEF TypeOK
  <2>2. count' = [count EXCEPT ![c] = count[c] + 1] /\ notify_seq' = notify_seq + 1
    BY <1>1
  <2>3. ASSUME NEW x \in Chunks PROVE count'[x] \in Nat
    <3>1. count[x] \in Nat
      BY <2>1
    <3>2. count'[x] = IF x = c THEN count[x] + 1 ELSE count[x]
      BY <2>1, <2>2
    <3> QED
      BY <3>1, <3>2
  <2>4. count' = [x \in Chunks |-> count'[x]]
    BY <2>1, <2>2
  <2>5. count' \in [Chunks -> Nat]
    BY <2>3, <2>4
  <2> QED
    BY <2>1, <2>2, <2>5
<1>7. TypeOK'
  BY <1>1, <1>2, <1>3, <1>4, <1>5, <1>6 DEF TypeOK, fileVars, evalVars
<1>8. opt' = opt /\ file' = file /\ specs' = specs /\ seq' = seq /\ stage' = stage /\ token' = token
  BY <1>1 DEF unusedPolicyVars, evalVars, fileVars
<1>9. (stage = "signal" => token < MaxTokens)'
  BY <1>8 DEF LayoutInv
<1> QED
  BY <1>1, <1>2, <1>3, <1>7, <1>8, <1>9 DEF LayoutInv

LEMMA LayoutCompute ==
  ASSUME LayoutInv, Compute
  PROVE  LayoutInv'
<1>1. /\ TypeOK /\ file \in Files /\ phase = "up" /\ stage' = "ask"
      /\ UNCHANGED <<fileVars, phase, last_layer, pending, count, notify_seq, audit_done, pos, unusedPolicyVars>>
  BY DEF LayoutInv, Compute
<1>2. Specs' = Specs /\ DeclaredSeq(Specs)' = DeclaredSeq(Specs) /\ n_layers' = n_layers /\ Existing' = Existing
  BY <1>1, SameLayout DEF fileVars
<1>3. PolicyTypeOK'
  BY <1>1 DEF TypeOK, PolicyTypeOK, fileVars, unusedPolicyVars
<1>4. node' \in 1..Len(file.graph) /\ token' \in 0..MaxTokens
  <2>1. node \in 1..Len(file.graph) /\ token \in 0..MaxTokens /\ token < MaxTokens /\ MaxTokens \in Nat
    BY <1>1, Widths DEF LayoutInv, TypeOK, Compute
  <2>2. Len(file.graph) \in Nat /\ Len(file.graph) >= 1
    BY <1>1, FileFacts
  <2>3. CASE node < Len(file.graph)
    <3>1. node' = node + 1 /\ token' = token
      BY <2>3 DEF Compute
    <3> QED
      BY <2>1, <2>2, <2>3, <3>1
  <2>4. CASE ~ (node < Len(file.graph))
    <3>1. node' = 1 /\ token' = token + 1
      BY <2>4 DEF Compute
    <3> QED
      BY <2>1, <2>2, <3>1
  <2> QED
    BY <2>3, <2>4
<1> QED
  BY <1>1, <1>2, <1>3, <1>4 DEF LayoutInv, TypeOK, fileVars, unusedPolicyVars

LEMMA LayoutStep ==
  LayoutInv /\ [LlamaNext]_llamaVars => LayoutInv'
<1> SUFFICES ASSUME LayoutInv, [LlamaNext]_llamaVars PROVE LayoutInv'
  OBVIOUS
<1>1. CASE LlamaNext
  BY <1>1, LayoutMmap, LayoutAsk, LayoutNotify, LayoutCompute DEF LlamaNext
<1>2. CASE UNCHANGED llamaVars
  <2>1. UNCHANGED <<fileVars, phase, evalVars, auditVars, pos, unusedPolicyVars>>
    BY <1>2 DEF llamaVars
  <2>2. Specs' = Specs /\ DeclaredSeq(Specs)' = DeclaredSeq(Specs) /\ n_layers' = n_layers /\ Existing' = Existing
    BY <2>1, SameLayout DEF fileVars
  <2>3. PolicyTypeOK'
    BY <2>1 DEF LayoutInv, TypeOK, PolicyTypeOK, fileVars, unusedPolicyVars
  <2> QED
    BY <2>1, <2>2, <2>3 DEF LayoutInv, TypeOK, fileVars, evalVars, auditVars, unusedPolicyVars
<1> QED
  BY <1>1, <1>2

LEMMA LayoutInvSound ==
  LayoutInv => LayoutSound
<1> SUFFICES ASSUME LayoutInv PROVE LayoutSound
  OBVIOUS
<1>1. TypeOK /\ TableAccepted /\ file \in Files
  BY DEF LayoutInv, TableAccepted
<1>2. CASE phase = "start"
  <2>1. seq = <<>>
    BY <1>2 DEF LayoutInv
  <2>2. DeclaredInReadingOrder
    BY <2>1 DEF DeclaredInReadingOrder, IsInjective
  <2> QED
    BY <1>1, <2>2 DEF LayoutSound
<1>3. CASE phase # "start"
  <2>1. specs = Specs /\ seq = DeclaredSeq(specs)
    BY <1>3 DEF LayoutInv
  <2>2. Piece(seq, specs, Roles)
    BY <1>1, <2>1, NamesAreChunks, DeclaredIsPiece
  <2>3. /\ seq \in Seq(Names(specs)) /\ DOMAIN seq = 1..Len(seq) /\ Len(seq) \in Nat
        /\ \A i, j \in 1..Len(seq) : i < j =>
             /\ seq[i] # seq[j]
             /\ specs[seq[i] + 1].group >= 0 /\ specs[seq[j] + 1].group >= 0 =>
                  specs[seq[i] + 1].group <= specs[seq[j] + 1].group
    BY <2>2 DEF Piece
  <2>4. IsInjective(seq)
    <3> SUFFICES ASSUME NEW i \in 1..Len(seq), NEW j \in 1..Len(seq), seq[i] = seq[j] PROVE i = j
      BY <2>3 DEF IsInjective
    <3>1. ~ (i < j) /\ ~ (j < i)
      BY <2>3
    <3> QED
      BY <2>3, <3>1
  <2>5. DeclaredInReadingOrder
    BY <2>3, <2>4 DEF DeclaredInReadingOrder
  <2> QED
    BY <1>1, <2>5 DEF LayoutSound
<1> QED
  BY <1>2, <1>3

\* The invariant of the integration: the table is the one made from the tensors
\* of the file, the sequence declared is the one made from the table, and
\* start-up has taken both (residctl_llama.c:137-262, :356-392).
THEOREM LayoutInvariance == LlamaSpec => []LayoutInv
<1>1. LlamaInit => LayoutInv
  BY LayoutInit
<1>2. LayoutInv /\ [LlamaNext]_llamaVars => LayoutInv'
  BY LayoutStep
<1> QED
  BY <1>1, <1>2, PTL DEF LlamaSpec

\* Tensors of any sizes in any order, of any number of layers, sharing pages or
\* not: region_startup takes the table made from them, and the declared sequence
\* names no chunk twice and follows the order of the layers
\* (residctl_llama.c:137-262, region.c:196-242).
THEOREM LayoutIsSound == LlamaSpec => []LayoutSound
<1>1. LayoutInv => LayoutSound
  BY LayoutInvSound
<1> QED
  BY <1>1, LayoutInvariance, PTL

-----------------------------------------------------------------------------
(* Runs that start in pages of their own: each tensor lies in a chunk of its group,
   but for the end that is in the first page of the next one. *)

\* Every boundary in b but the header's is the page of one of the first k tensors, of
\* its group; and each of these is between a boundary of its group and the end of
\* the first page of the next one.
AtTensors(b, k) ==
  \A m \in 1..Len(b) :
    \/ b[m].group = GRP_HEADER
    \/ \E i \in 1..k : align_down(srt[i].off) = b[m].off /\ srt[i].group = b[m].group

Between(b, i, m) ==
  /\ b[m].group = srt[i].group /\ b[m].off <= srt[i].off
  /\ m < Len(b) => srt[i].off + srt[i].size < b[m + 1].off + RC_ALIGN

Hold(b, k) == \A i \in 1..k : \E m \in 1..Len(b) : Between(b, i, m)

\* After k tensors, the last boundary is the page of a run of the group of the k-th.
LastRun(b, cur, k) ==
  /\ b \in Seq(BoundType) /\ Len(b) >= 1
  /\ cur = srt[k].group
  /\ b[Len(b)].group = srt[k].group /\ b[Len(b)].off <= srt[k].off
  /\ \E j \in 1..k : StartsRun(j) /\ b[Len(b)].off = align_down(srt[j].off)

RunsSound(s, k) == LastRun(s.bnd, s.cur, k) /\ AtTensors(s.bnd, k) /\ Hold(s.bnd, k)

LEMMA TensorFacts ==
  ASSUME file \in Files, NEW i \in 1..n_tensors
  PROVE  /\ srt[i] \in file.tensors /\ srt[i] \in TensorType
         /\ srt[i].off \in Nat /\ srt[i].size \in Nat \ {0}
         /\ srt[i].group \in Roles \cup {GRP_OTHER}
<1>1. srt[i] \in file.tensors /\ srt[i] \in TensorType
  BY SrtIs, FileFacts
<1> QED
  BY <1>1 DEF TensorType

LEMMA PageOfTensor ==
  ASSUME file \in Files, NEW i \in 1..n_tensors
  PROVE  LET p == align_down(srt[i].off) IN
         /\ Bound(srt[i]) \in BoundType
         /\ Bound(srt[i]).off = p /\ Bound(srt[i]).group = srt[i].group
         /\ p \in Nat /\ p <= srt[i].off /\ srt[i].off < p + RC_ALIGN
<1>1. srt[i].off \in Nat /\ srt[i] \in TensorType
  BY TensorFacts
<1> QED
  BY <1>1, BoundIs, PageStart

LEMMA FirstRuns ==
  ASSUME file \in Files
  PROVE  RunsSound(scan[1], 1)
<1> DEFINE t == srt[1]
           p == align_down(t.off)
           s == scan[1]
           b == s.bnd
           head == [off |-> 0, group |-> GRP_HEADER]
<1>1. 1 \in 1..n_tensors
  BY SrtIs
<1>2. /\ Bound(t) \in BoundType /\ Bound(t).off = p /\ Bound(t).group = t.group
      /\ p \in Nat /\ p <= t.off /\ t.off \in Nat
  BY <1>1, PageOfTensor, TensorFacts
<1>3. s = FirstRun(t)
  BY ScanIs
<1>4. s.cur = t.group /\ b = IF p = 0 THEN <<Bound(t)>> ELSE <<head, Bound(t)>>
  BY <1>3 DEF FirstRun
<1>5. head \in BoundType /\ head.group = GRP_HEADER
  BY DEF BoundType, Groups
<1>6. 1 \in 1..1 /\ StartsRun(1)
  BY DEF StartsRun
<1> HIDE DEF p, s, head
<1>7. CASE p = 0
  <2>1. b = <<Bound(t)>> /\ Len(b) = 1 /\ b[1] = Bound(t) /\ b \in Seq(BoundType)
    BY <1>2, <1>4, <1>7
  <2> HIDE DEF b
  <2>2. b[1].off = p /\ b[1].group = t.group /\ s.cur = t.group
    BY <1>2, <1>4, <2>1
  <2> HIDE DEF t
  <2>3. LastRun(b, s.cur, 1)
    BY <1>2, <1>6, <2>1, <2>2 DEF LastRun, t, p
  <2>4. AtTensors(b, 1)
    BY <1>6, <2>1, <2>2 DEF AtTensors, t, p
  <2>5. Hold(b, 1)
    BY <1>2, <2>1, <2>2 DEF Hold, Between, t
  <2> QED
    BY <2>3, <2>4, <2>5 DEF RunsSound, b, s
<1>8. CASE p # 0
  <2>1. b = <<head, Bound(t)>> /\ Len(b) = 2 /\ b[1] = head /\ b[2] = Bound(t) /\ b \in Seq(BoundType)
    BY <1>2, <1>4, <1>5, <1>8
  <2> HIDE DEF b
  <2>2. \A m \in 1..2 : b[m].group = GRP_HEADER \/ (p = b[m].off /\ t.group = b[m].group)
    BY <1>2, <1>5, <2>1
  <2>3. b[2].group = t.group /\ b[2].off <= t.off /\ b[2].off = p /\ s.cur = t.group
    BY <1>2, <1>4, <2>1
  <2> HIDE DEF t
  <2>4. LastRun(b, s.cur, 1)
    BY <1>6, <2>1, <2>3 DEF LastRun, t, p
  <2>5. AtTensors(b, 1)
    BY <1>6, <2>1, <2>2 DEF AtTensors, t, p
  <2>6. Between(b, 1, 2)
    BY <2>1, <2>3 DEF Between, t
  <2>7. Hold(b, 1)
    BY <2>1, <2>6 DEF Hold
  <2> QED
    BY <2>4, <2>5, <2>7 DEF RunsSound, b, s
<1> QED
  BY <1>7, <1>8

LEMMA NextRuns ==
  ASSUME file \in Files, RunsApart, NEW k \in 1..n_tensors, k + 1 \in 1..n_tensors,
         NEW s, RunsSound(s, k)
  PROVE  RunsSound(NextRun(s, srt[k + 1]), k + 1)
<1> DEFINE a == s.bnd
           n == Len(a)
           t == srt[k + 1]
           p == align_down(t.off)
           z == NextRun(s, t)
           b == z.bnd
<1>1. /\ a \in Seq(BoundType) /\ n >= 1 /\ n \in Nat
      /\ s.cur = srt[k].group
      /\ a[n].group = srt[k].group /\ a[n].off <= srt[k].off
      /\ \E j \in 1..k : StartsRun(j) /\ a[n].off = align_down(srt[j].off)
  BY DEF RunsSound, LastRun
<1>0. AtTensors(a, k) /\ Hold(a, k)
  BY DEF RunsSound
<1>2. \A m \in 1..n : a[m].off \in Nat
  <2>1. \A m \in 1..n : a[m] \in BoundType
    BY <1>1
  <2> QED
    BY <2>1 DEF BoundType
<1>3. k \in Nat /\ n_tensors \in Nat /\ \A i \in 1..k : i \in 1..n_tensors /\ i < k + 1
  BY SrtIs
<1>4. \A i \in 1..k : srt[i].off \in Nat /\ srt[i].size \in Nat \ {0} /\ srt[i].off + srt[i].size <= t.off
  BY <1>3, TensorFacts, SrtIs
<1>5. /\ t.off \in Nat /\ Bound(t) \in BoundType /\ Bound(t).off = p /\ Bound(t).group = t.group
      /\ p \in Nat /\ p <= t.off /\ t.off < p + RC_ALIGN /\ RC_ALIGN \in Nat
  BY TensorFacts, PageOfTensor, Widths
<1>6. k \in 1..k /\ n \in 1..n
  BY <1>1, <1>3
<1>7. a[n].off < t.off
  <2> DEFINE hi == a[n].off  lo == srt[k].off  l == srt[k].size  next == t.off
  <2>1. lo \in Nat /\ l \in Nat \ {0} /\ lo + l <= next /\ hi \in Nat
    BY <1>2, <1>4, <1>6
  <2>2. hi <= lo /\ next \in Nat
    BY <1>1, <1>5
  <2> HIDE DEF hi, lo, l, next
  <2>3. hi < next
    BY <2>1, <2>2
  <2> QED
    BY <2>3 DEF hi, next
<1> HIDE DEF a, p
<1>8. CASE t.group = s.cur
  <2>1. z = s
    BY <1>8 DEF NextRun
  <2>2. a[n].group = t.group /\ a[n].off <= t.off /\ s.cur = t.group
    <3>1. a[n].off \in Nat
      BY <1>2, <1>6
    <3> QED
      BY <1>1, <1>5, <1>7, <1>8, <3>1
  <2>3. LastRun(a, s.cur, k + 1)
    <3>1. PICK j \in 1..k : StartsRun(j) /\ a[n].off = align_down(srt[j].off)
      BY <1>1
    <3>2. j \in 1..(k + 1)
      BY <1>3
    <3>3. \E i \in 1..(k + 1) : StartsRun(i) /\ a[n].off = align_down(srt[i].off)
      BY <3>1, <3>2
    <3> QED
      BY <1>1, <2>2, <3>3 DEF LastRun
  <2>4. AtTensors(a, k + 1)
    <3>1. \A i \in 1..k : i \in 1..(k + 1)
      BY <1>3
    <3> QED
      BY <1>0, <3>1 DEF AtTensors
  <2>5. Between(a, k + 1, n)
    BY <1>1, <2>2 DEF Between
  <2>6. Hold(a, k + 1)
    <3> SUFFICES ASSUME NEW i \in 1..(k + 1) PROVE \E m \in 1..n : Between(a, i, m)
      BY DEF Hold
    <3>1. CASE i \in 1..k
      BY <1>0, <3>1 DEF Hold
    <3>2. CASE i \notin 1..k
      <4>1. i = k + 1
        BY <1>3, <3>2
      <4> QED
        BY <1>6, <2>5, <4>1
    <3> QED
      BY <3>1, <3>2
  <2> HIDE DEF z
  <2> QED
    BY <2>1, <2>3, <2>4, <2>6 DEF RunsSound, a, z
<1>9. CASE t.group # s.cur
  <2>0. StartsRun(k + 1)
    <3>1. (k + 1) - 1 = k
      BY <1>3
    <3> QED
      BY <1>1, <1>9, <3>1 DEF StartsRun
  <2>1. ~ SamePage(p, a)
    <3>1. PICK j \in 1..k : StartsRun(j) /\ a[n].off = align_down(srt[j].off)
      BY <1>1
    <3>2. j \in DOMAIN srt /\ k + 1 \in DOMAIN srt /\ j < k + 1
      BY <1>3, SrtIs
    <3>3. a[n].off # p
      BY <2>0, <3>1, <3>2 DEF RunsApart, p
    <3>4. a[n].off <= p
      <4>1. srt[j].off \in Nat /\ srt[j].off <= t.off
        BY <1>3, <1>4, <1>5
      <4> QED
        BY <1>5, <3>1, <4>1, PagesInOrder DEF p
    <3>5. a[n].off < p
      BY <1>2, <1>5, <1>6, <3>3, <3>4
    <3> QED
      BY <1>2, <1>5, <1>6, <3>5 DEF SamePage, Last
  <2>2. z.cur = t.group /\ b = Append(a, Bound(t))
    BY <1>9, <2>1 DEF NextRun, a, p
  <2> HIDE DEF z, b
  <2>3. b \in Seq(BoundType) /\ Len(b) = n + 1 /\ b[n + 1] = Bound(t) /\ \A m \in 1..n : b[m] = a[m]
    BY <1>1, <1>5, <2>2
  <2> HIDE DEF n
  <2>n. n = Len(a)
    BY DEF n
  <2>4. b[n + 1].group = t.group /\ b[n + 1].off = p
    BY <1>5, <2>3
  <2>5. LastRun(b, z.cur, k + 1)
    <3>1. \E j \in 1..(k + 1) : StartsRun(j) /\ b[n + 1].off = align_down(srt[j].off)
      <4>1. k + 1 \in 1..(k + 1)
        BY <1>3
      <4> QED
        BY <2>0, <2>4, <4>1 DEF p
    <3> QED
      BY <1>1, <1>5, <2>2, <2>3, <2>4, <3>1 DEF LastRun
  <2>6. AtTensors(b, k + 1)
    <3> SUFFICES ASSUME NEW m \in 1..(n + 1)
                 PROVE  \/ b[m].group = GRP_HEADER
                        \/ \E i \in 1..(k + 1) : align_down(srt[i].off) = b[m].off /\ srt[i].group = b[m].group
      BY <2>3 DEF AtTensors
    <3>1. CASE m = n + 1
      <4>1. k + 1 \in 1..(k + 1)
        BY <1>3
      <4> QED
        BY <2>4, <3>1, <4>1 DEF p
    <3>2. CASE m # n + 1
      <4>1. m \in 1..n /\ \A i \in 1..k : i \in 1..(k + 1)
        BY <1>1, <1>3, <3>2
      <4>2. b[m] = a[m]
        BY <2>3, <4>1
      <4>3. \/ a[m].group = GRP_HEADER
            \/ \E i \in 1..k : align_down(srt[i].off) = a[m].off /\ srt[i].group = a[m].group
        BY <1>0, <2>n, <4>1 DEF AtTensors
      <4> QED
        BY <4>1, <4>2, <4>3
    <3> QED
      BY <3>1, <3>2
  <2>7. ASSUME NEW i \in 1..(k + 1)
        PROVE  \E m \in 1..(n + 1) : Between(b, i, m)
    <3>1. CASE i \in 1..k
      <4>1. PICK m \in 1..n : Between(a, i, m)
        BY <1>0, <2>n, <3>1 DEF Hold
      <4>2. m \in 1..(n + 1) /\ b[m] = a[m] /\ a[m].group = srt[i].group /\ a[m].off <= srt[i].off
        BY <1>1, <2>3, <4>1 DEF Between
      <4>3. srt[i].off + srt[i].size < b[m + 1].off + RC_ALIGN
        <5>1. CASE m = n
          <6>1. srt[i].off \in Nat /\ srt[i].size \in Nat /\ srt[i].off + srt[i].size <= t.off
            BY <1>4, <3>1
          <6>2. b[m + 1].off = p
            BY <2>4, <5>1
          <6> QED
            BY <1>5, <6>1, <6>2
        <5>2. CASE m # n
          <6>1. m < n /\ m + 1 \in 1..n
            BY <1>1, <5>2
          <6> QED
            BY <2>3, <2>n, <4>1, <6>1 DEF Between
        <5> QED
          BY <5>1, <5>2
      <4>4. Between(b, i, m)
        BY <4>2, <4>3 DEF Between
      <4> QED
        BY <4>2, <4>4
    <3>2. CASE i \notin 1..k
      <4>1. i = k + 1 /\ n + 1 \in 1..(n + 1) /\ ~ (n + 1 < n + 1)
        BY <1>1, <1>3, <3>2
      <4>2. Between(b, k + 1, n + 1)
        BY <1>5, <2>3, <2>4, <4>1 DEF Between
      <4> QED
        BY <4>1, <4>2
    <3> QED
      BY <3>1, <3>2
  <2>8. Hold(b, k + 1)
    BY <2>3, <2>7 DEF Hold
  <2> QED
    BY <2>5, <2>6, <2>8 DEF RunsSound, b, z
<1> QED
  BY <1>8, <1>9

LEMMA RunsAreSound ==
  ASSUME file \in Files, RunsApart
  PROVE  RunsSound(scan[n_tensors], n_tensors)
<1> DEFINE S == {i \in 0..(n_tensors - 1) : RunsSound(scan[i + 1], i + 1)}
<1>n. n_tensors \in Nat \ {0} /\ n_tensors - 1 \in Nat
  BY SrtIs
<1>1. 0 \in S
  BY <1>n, FirstRuns
<1>2. ASSUME NEW i \in 0..((n_tensors - 1) - 1), i \in S
      PROVE  i + 1 \in S
  <2> DEFINE m == i + 1
  <2>1. m \in 1..n_tensors /\ m + 1 \in 1..n_tensors /\ m + 1 \in 2..n_tensors /\ (m + 1) - 1 = m /\ m \in 0..(n_tensors - 1)
    BY <1>n
  <2>2. RunsSound(scan[m], m)
    BY <1>2
  <2> HIDE DEF m
  <2>3. scan[m + 1] = NextRun(scan[m], srt[m + 1])
    BY <2>1, ScanIs
  <2>4. RunsSound(scan[m + 1], m + 1)
    BY <2>1, <2>2, <2>3, NextRuns
  <2> QED
    BY <2>1, <2>4 DEF m
<1> HIDE DEF S
<1>3. 0..(n_tensors - 1) \subseteq S
  BY <1>n, <1>1, <1>2, IntervalInduction
<1>4. n_tensors - 1 \in S /\ (n_tensors - 1) + 1 = n_tensors
  BY <1>n, <1>3
<1> QED
  BY <1>4 DEF S

LEMMA TensorsInTable ==
  ASSUME file \in Files, RunsApart
  PROVE  /\ \A c \in Names(Specs) :
              \/ Specs[c + 1].group = GRP_HEADER
              \/ \E x \in file.tensors :
                   x.group = Specs[c + 1].group /\ align_down(x.off) = Specs[c + 1].off
         /\ \A x \in file.tensors : \E c \in Names(Specs) :
              /\ Specs[c + 1].group = x.group
              /\ Specs[c + 1].off <= x.off
              /\ x.off + x.size < Specs[c + 1].off + Specs[c + 1].len + RC_ALIGN
<1> DEFINE t == Specs
           b == Boundaries
           n == Len(t)
<1>1. /\ InARow(t) /\ n \in Nat \ {0} /\ Len(b) = n
      /\ t[n].off + t[n].len = region_len
      /\ \A c \in 1..n : t[c].off = b[c].off /\ t[c].group = b[c].group
  BY SpecsInARow
<1>2. n_tensors \in Nat \ {0} /\ Len(srt) = n_tensors
  BY SrtIs
<1>3. AtTensors(b, n_tensors) /\ Hold(b, n_tensors)
  BY <1>2, RunsAreSound DEF RunsSound, Boundaries
<1>4. \A c \in 1..(n - 1) : t[c].off + t[c].len = t[c + 1].off
  BY <1>1 DEF InARow
<1>5. \A i \in 1..n_tensors : srt[i] \in file.tensors
  BY TensorFacts
<1> HIDE DEF t, b
<1>6. ASSUME NEW c \in Names(t)
      PROVE  \/ t[c + 1].group = GRP_HEADER
             \/ \E x \in file.tensors : x.group = t[c + 1].group /\ align_down(x.off) = t[c + 1].off
  <2>1. c + 1 \in 1..n
    BY <1>1 DEF Names
  <2>2. b[c + 1].group = t[c + 1].group /\ b[c + 1].off = t[c + 1].off
    BY <1>1, <2>1
  <2>3. \/ b[c + 1].group = GRP_HEADER
        \/ \E i \in 1..n_tensors : align_down(srt[i].off) = b[c + 1].off /\ srt[i].group = b[c + 1].group
    BY <1>1, <1>3, <2>1 DEF AtTensors
  <2> QED
    BY <1>5, <2>2, <2>3
<1>7. ASSUME NEW x \in file.tensors
      PROVE  \E c \in Names(t) : /\ t[c + 1].group = x.group
                                 /\ t[c + 1].off <= x.off
                                 /\ x.off + x.size < t[c + 1].off + t[c + 1].len + RC_ALIGN
  <2>1. PICK i \in 1..n_tensors : srt[i] = x
    BY SrtIs
  <2>2. PICK m \in 1..n : Between(b, i, m)
    BY <1>1, <1>3 DEF Hold
  <2>3. b[m].group = x.group /\ b[m].off <= x.off /\ (m < n => x.off + x.size < b[m + 1].off + RC_ALIGN)
    BY <1>1, <2>1, <2>2 DEF Between
  <2>4. t[m].group = x.group /\ t[m].off <= x.off
    BY <1>1, <2>3
  <2>5. x.off + x.size < t[m].off + t[m].len + RC_ALIGN
    <3>1. CASE m = n
      <4>1. x.off + x.size <= file.size /\ file.size <= region_len
        BY FileFacts, RegionLen
      <4>2. x.off \in Nat /\ x.size \in Nat /\ file.size \in Nat /\ region_len \in Nat
        BY <2>1, TensorFacts, RegionLen
      <4>3. t[m].off + t[m].len = region_len /\ RC_ALIGN \in Nat \ {0}
        BY <1>1, <3>1, Widths
      <4> QED
        BY <4>1, <4>2, <4>3
    <3>2. CASE m # n
      <4>1. m < n /\ m + 1 \in 1..n /\ m \in 1..(n - 1)
        BY <1>1, <3>2
      <4> QED
        BY <1>1, <1>4, <2>3, <4>1
    <3> QED
      BY <3>1, <3>2
  <2>6. m - 1 \in Names(t) /\ (m - 1) + 1 = m
    BY <1>1 DEF Names
  <2> QED
    BY <2>4, <2>5, <2>6
<1> QED
  BY <1>6, <1>7 DEF t

\* Chunks further on in a row lie higher.
LEMMA RowOrdered ==
  ASSUME NEW t, InARow(t), NEW c \in 1..Len(t), NEW d \in 1..Len(t), c < d
  PROVE  t[c].off + t[c].len <= t[d].off
<1> DEFINE n == Len(t)
           S == {k \in 0..(n - c - 1) : t[c].off + t[c].len <= t[c + k + 1].off}
<1>1. n \in Nat /\ c \in Nat /\ d \in Nat /\ n - c - 1 \in Nat
  BY DEF InARow
<1>2. \A i \in 1..n : t[i].off \in Nat /\ t[i].len \in Nat
  <2>1. \A i \in 1..n : t[i] \in ChunkType
    BY DEF InARow
  <2> QED
    BY <2>1 DEF ChunkType
<1>3. \A i \in 1..(n - 1) : t[i].off + t[i].len = t[i + 1].off
  BY DEF InARow
<1> HIDE DEF n
<1>4. 0 \in S
  <2>1. c \in 1..(n - 1) /\ c + 0 + 1 = c + 1 /\ c \in 1..n /\ c + 1 \in 1..n
    BY <1>1
  <2>2. t[c].off + t[c].len = t[c + 1].off /\ t[c + 1].off \in Nat
    BY <1>2, <1>3, <2>1
  <2> QED
    BY <1>1, <2>1, <2>2
<1>5. ASSUME NEW k \in 0..((n - c - 1) - 1), k \in S PROVE k + 1 \in S
  <2> DEFINE i == c + k + 1
  <2>1. i \in 1..(n - 1) /\ i \in 1..n /\ i + 1 \in 1..n /\ c \in 1..n /\ c + (k + 1) + 1 = i + 1 /\ k + 1 \in 0..(n - c - 1)
    BY <1>1
  <2>2. t[c].off + t[c].len <= t[i].off
    BY <1>5
  <2> HIDE DEF i
  <2>3. t[i].off + t[i].len = t[i + 1].off
    BY <1>3, <2>1
  <2>4. t[c].off + t[c].len <= t[i + 1].off
    <3>1. t[c].off \in Nat /\ t[c].len \in Nat /\ t[i].off \in Nat /\ t[i].len \in Nat /\ t[i + 1].off \in Nat
      BY <1>2, <2>1
    <3> DEFINE hi == t[c].off + t[c].len  lo == t[i].off  l == t[i].len  next == t[i + 1].off
    <3>2. hi \in Int /\ lo \in Nat /\ l \in Nat /\ next \in Nat
      BY <3>1
    <3>3. hi <= lo /\ lo + l = next
      BY <2>2, <2>3
    <3> HIDE DEF hi, lo, l, next
    <3>4. hi <= next
      BY <3>2, <3>3
    <3> QED
      BY <3>4 DEF hi, next
  <2> QED
    BY <2>1, <2>4
<1> HIDE DEF S
<1>6. 0..(n - c - 1) \subseteq S
  BY <1>1, <1>4, <1>5, IntervalInduction
<1>7. d - c - 1 \in 0..(n - c - 1) /\ c + (d - c - 1) + 1 = d
  BY <1>1 DEF n
<1>8. d - c - 1 \in S
  BY <1>6, <1>7
<1> QED
  BY <1>7, <1>8 DEF S

\* A chunk is a page long or longer.
LEMMA PageLong ==
  ASSUME NEW t, InARow(t), NEW c \in 1..(Len(t) - 1)
  PROVE  RC_ALIGN <= t[c].len
<1> DEFINE u == t[c].off
           v == t[c + 1].off
           l == t[c].len
<1>1. c \in 1..Len(t) /\ c + 1 \in 1..Len(t)
  BY DEF InARow
<1>2. t[c] \in ChunkType /\ t[c + 1] \in ChunkType
  BY <1>1 DEF InARow
<1>3. u \in Nat /\ v \in Nat /\ l \in Nat \ {0} /\ u + l = v /\ u % RC_ALIGN = 0 /\ v % RC_ALIGN = 0
  BY <1>1, <1>2 DEF InARow, ChunkType
<1>4. RC_ALIGN \in Nat \ {0}
  BY Widths
<1> HIDE DEF u, v, l
<1>5. (v - u) % RC_ALIGN = 0
  <2>1. u <= v
    BY <1>3
  <2> QED
    BY <1>3, <1>4, <2>1, MultipleSum
<1>6. l % RC_ALIGN = 0
  <2>1. v - u = l
    BY <1>3
  <2> QED
    BY <1>5, <2>1
<1>7. ASSUME l < RC_ALIGN PROVE FALSE
  <2>1. l \in 0..(RC_ALIGN - 1)
    BY <1>3, <1>4, <1>7
  <2>2. l % RC_ALIGN = l
    BY <1>4, <2>1, ModSmall
  <2> QED
    BY <1>3, <1>6, <2>2
<1> QED
  BY <1>3, <1>4, <1>7 DEF l

\* What is true of the bytes of every chunk.
LEMMA TableBytes ==
  ASSUME file \in Files, specs = Specs
  PROVE  /\ InARow(specs) /\ Len(specs) \in Nat /\ Existing = Names(specs)
         /\ \A d \in Existing :
              /\ d \in Nat /\ d + 1 \in 1..Len(specs)
              /\ specs[d + 1].off \in Nat /\ specs[d + 1].len \in Nat \ {0}
              /\ Bytes(d) = specs[d + 1].off..(specs[d + 1].off + specs[d + 1].len - 1)
<1>1. InARow(specs) /\ Len(specs) \in Nat /\ Existing = Names(specs)
  BY SpecsInARow DEF Existing, Names
<1>2. ASSUME NEW d \in Existing
      PROVE  d \in Nat /\ d + 1 \in 1..Len(specs) /\ specs[d + 1].off \in Nat /\ specs[d + 1].len \in Nat \ {0}
  <2>1. d \in Nat /\ d + 1 \in 1..Len(specs)
    BY <1>1 DEF Existing
  <2>2. specs[d + 1] \in ChunkType
    BY <1>1, <2>1 DEF InARow
  <2> QED
    BY <2>1, <2>2 DEF ChunkType
<1> QED
  BY <1>1, <1>2 DEF Bytes

\* A chunk numbered with a group holds bytes of it: its run starts in the first page.
LEMMA OwnIsHolding ==
  ASSUME file \in Files, RunsApart, specs = Specs, NEW g \in Roles, NEW c \in Own(g)
  PROVE  c \in Holding(g)
<1> DEFINE lo == specs[c + 1].off
           l  == specs[c + 1].len
<1>1. /\ c \in Existing /\ c \in Names(specs) /\ c + 1 \in 1..Len(specs)
      /\ specs[c + 1].group = g
      /\ lo \in Nat /\ l \in Nat \ {0} /\ Bytes(c) = lo..(lo + l - 1)
  BY TableBytes DEF Own
<1>2. g # GRP_HEADER
  BY DEF Roles, Layers, GRP_HEADER, GRP_EMBD, GRP_OUTNORM, GRP_OUTPUT
<1>3. PICK x \in file.tensors : x.group = g /\ align_down(x.off) = lo
  BY <1>1, <1>2, TensorsInTable
<1>4. x.off \in Nat /\ x.size \in Nat \ {0} /\ x.off + x.size <= file.size
  BY FileFacts DEF TensorType
<1>5. lo <= x.off /\ x.off < lo + RC_ALIGN
  BY <1>3, <1>4, PageStart
<1>6. x.off < lo + l
  <2>1. CASE c + 1 = Len(specs)
    <3>1. lo + l = region_len /\ file.size \in Nat /\ file.size <= region_len /\ region_len \in Nat
      BY <2>1, SpecsInARow, RegionLen
    <3> HIDE DEF lo, l
    <3> QED
      BY <1>4, <3>1
  <2>2. CASE c + 1 # Len(specs)
    <3>1. c + 1 \in 1..(Len(specs) - 1)
      BY <1>1, <2>2, TableBytes
    <3>2. RC_ALIGN <= l /\ RC_ALIGN \in Nat
      BY <3>1, PageLong, TableBytes, Widths
    <3> HIDE DEF lo, l
    <3> QED
      BY <1>1, <1>4, <1>5, <3>2
  <2> QED
    BY <2>1, <2>2
<1>7. x.off \in Bytes(c) /\ x.off \in x.off..(x.off + x.size - 1)
  <2> HIDE DEF lo, l
  <2> QED
    BY <1>1, <1>4, <1>5, <1>6
<1>8. x.off \in GroupBytes(g, c)
  BY <1>3, <1>7 DEF GroupBytes
<1> QED
  BY <1>1, <1>8 DEF Holding

\* Any other chunk with bytes of a group holds the tail of a run of the group.
LEMMA OthersHoldTails ==
  ASSUME file \in Files, RunsApart, specs = Specs, NEW g \in Roles,
         NEW c \in Holding(g), c \notin Own(g)
  PROVE  IsTail(g, c)
<1> DEFINE lo(d) == specs[d + 1].off
           hi(d) == specs[d + 1].off + specs[d + 1].len
<1>1. c \in Existing /\ GroupBytes(g, c) # {}
  BY DEF Holding
<1>2. \A d \in Existing :
        /\ d \in Nat /\ d + 1 \in 1..Len(specs) /\ lo(d) \in Nat /\ hi(d) \in Nat /\ lo(d) < hi(d)
        /\ Bytes(d) = lo(d)..(hi(d) - 1)
  BY TableBytes
<1>3. RC_ALIGN \in Nat \ {0} /\ Len(specs) \in Nat
  BY Widths, TableBytes
<1>4. \A d, e \in Existing : d < e => hi(d) <= lo(e)
  <2> SUFFICES ASSUME NEW d \in Existing, NEW e \in Existing, d < e PROVE hi(d) <= lo(e)
    OBVIOUS
  <2>1. d + 1 \in 1..Len(specs) /\ e + 1 \in 1..Len(specs) /\ d + 1 < e + 1
    BY <1>2
  <2> QED
    BY <2>1, RowOrdered, TableBytes
<1>5. \A d \in Existing : d + 1 \in Existing => lo(d + 1) = hi(d)
  <2> SUFFICES ASSUME NEW d \in Existing, d + 1 \in Existing PROVE lo(d + 1) = hi(d)
    OBVIOUS
  <2>1. d + 1 \in 1..(Len(specs) - 1)
    BY <1>2, <1>3
  <2> QED
    BY <2>1, TableBytes DEF InARow
<1>6. \A d \in Existing : d + 1 \in Existing => lo(d) + RC_ALIGN <= hi(d)
  <2> SUFFICES ASSUME NEW d \in Existing, d + 1 \in Existing PROVE lo(d) + RC_ALIGN <= hi(d)
    OBVIOUS
  <2>1. d + 1 \in 1..(Len(specs) - 1)
    BY <1>2, <1>3
  <2>2. RC_ALIGN <= specs[d + 1].len
    BY <2>1, PageLong, TableBytes
  <2>3. specs[d + 1].off \in Nat /\ specs[d + 1].len \in Nat
    BY TableBytes
  <2> QED
    BY <1>3, <2>2, <2>3
<1> HIDE DEF lo, hi
<1>7. ASSUME NEW y \in GroupBytes(g, c)
      PROVE  c - 1 \in Own(g) /\ y \in lo(c)..(lo(c) + RC_ALIGN - 1)
  <2>1. y \in Bytes(c)
    BY DEF GroupBytes
  <2>2. PICK x \in file.tensors : x.group = g /\ y \in x.off..(x.off + x.size - 1)
    BY DEF GroupBytes
  <2>3. x.off \in Nat /\ x.size \in Nat \ {0}
    BY FileFacts DEF TensorType
  <2>4. PICK d \in Existing : specs[d + 1].group = g /\ lo(d) <= x.off /\ x.off + x.size < hi(d) + RC_ALIGN
    BY <2>2, TensorsInTable, TableBytes DEF lo, hi
  <2>5. d \in Own(g) /\ d # c
    BY <2>4 DEF Own
  <2>6. lo(d) \in Nat /\ hi(d) \in Nat /\ lo(c) \in Nat /\ hi(c) \in Nat /\ d \in Nat /\ c \in Nat
    BY <1>1, <1>2
  <2>7. y \in Nat /\ lo(d) <= y /\ y + 1 < hi(d) + RC_ALIGN /\ lo(c) <= y /\ y < hi(c)
    <3>1. y \in x.off..(x.off + x.size - 1) /\ y \in lo(c)..(hi(c) - 1)
      BY <1>1, <1>2, <2>1, <2>2
    <3> DEFINE u == x.off
               w == x.size
               h == hi(d)
    <3>2. y \in u..(u + w - 1) /\ u \in Nat /\ w \in Nat /\ h \in Nat /\ lo(d) <= u /\ u + w < h + RC_ALIGN
      BY <2>3, <2>4, <2>6, <3>1
    <3> HIDE DEF u, w, h
    <3>3. y \in Nat /\ y + 1 <= u + w /\ u <= y
      BY <3>2
    <3>4. lo(d) <= y /\ y + 1 < h + RC_ALIGN
      BY <1>3, <2>6, <3>2, <3>3
    <3>5. lo(c) <= y /\ y < hi(c)
      BY <2>6, <3>1, <3>3
    <3> QED
      BY <3>3, <3>4, <3>5 DEF h
  <2>8. ~ (c < d)
    <3> SUFFICES ASSUME c < d PROVE FALSE
      OBVIOUS
    <3>1. hi(c) <= lo(d)
      BY <1>1, <1>4
    <3> QED
      BY <2>6, <2>7, <3>1
  <2>9. d + 1 \in Existing /\ d + 1 <= c
    BY <1>1, <1>2, <1>3, <2>5, <2>6, <2>8 DEF Existing
  <2>10. d + 1 = c
    <3> SUFFICES ASSUME d + 1 < c PROVE FALSE
      BY <2>6, <2>9
    <3>1. hi(d + 1) <= lo(c) /\ lo(d + 1) = hi(d)
      BY <1>1, <1>4, <1>5, <2>9
    <3>2. (d + 1) + 1 \in Existing
      BY <1>1, <1>2, <1>3, <2>6 DEF Existing
    <3>3. lo(d + 1) + RC_ALIGN <= hi(d + 1)
      BY <1>6, <2>9, <3>2
    <3>4. lo(d + 1) \in Nat /\ hi(d + 1) \in Nat
      BY <1>2, <2>9
    <3> QED
      BY <1>3, <2>6, <2>7, <3>1, <3>3, <3>4
  <2>11. lo(c) = hi(d)
    BY <1>1, <1>5, <2>10
  <2>12. c - 1 = d
    BY <2>6, <2>10
  <2>13. y \in lo(c)..(lo(c) + RC_ALIGN - 1)
    BY <1>3, <2>6, <2>7, <2>11
  <2> QED
    BY <2>5, <2>12, <2>13
<1>8. PICK y : y \in GroupBytes(g, c)
  BY <1>1
<1>9. c - 1 \in Own(g) /\ GroupBytes(g, c) \subseteq lo(c)..(lo(c) + RC_ALIGN - 1)
  BY <1>7, <1>8
<1> QED
  BY <1>9 DEF IsTail, lo

-----------------------------------------------------------------------------
(* Every chunk that is read is declared. *)

LEMMA RangeConcat ==
  ASSUME NEW N, NEW a \in Seq(N), NEW b \in Seq(N)
  PROVE  /\ a \o b \in Seq(N)
         /\ Range(a) \subseteq Range(a \o b)
         /\ Range(b) \subseteq Range(a \o b)
<1> DEFINE s == a \o b
           m == Len(a)
           n == Len(b)
<1>1. m \in Nat /\ n \in Nat /\ DOMAIN a = 1..m /\ DOMAIN b = 1..n
  OBVIOUS
<1>2. s \in Seq(N) /\ Len(s) = m + n
  BY ConcatProperties
<1>3. \A i \in 1..(m + n) : s[i] = IF i <= m THEN a[i] ELSE b[i - m]
  BY ConcatProperties
<1>4. DOMAIN s = 1..(m + n)
  BY <1>2
<1> HIDE DEF s, m, n
<1>5. ASSUME NEW i \in 1..m PROVE a[i] \in Range(s)
  <2>1. i \in 1..(m + n) /\ s[i] = a[i]
    BY <1>1, <1>3
  <2> QED
    BY <1>4, <2>1 DEF Range
<1>6. ASSUME NEW i \in 1..n PROVE b[i] \in Range(s)
  <2>1. i + m \in 1..(m + n) /\ ~ (i + m <= m) /\ (i + m) - m = i
    BY <1>1
  <2>2. s[i + m] = b[i]
    BY <1>3, <2>1
  <2> QED
    BY <1>4, <2>1, <2>2 DEF Range
<1> QED
  BY <1>1, <1>2, <1>5, <1>6 DEF Range, s

LEMMA FlattenContains ==
  ASSUME NEW N, NEW n \in Nat \ {0}, NEW qs, Len(qs) = n,
         \A i \in 1..n : qs[i] \in Seq(N)
  PROVE  /\ FlattenSeq(qs) \in Seq(N)
         /\ \A i \in 1..n : Range(qs[i]) \subseteq Range(FlattenSeq(qs))
<1>1. PICK f : Flattens(f, qs, n)
  BY FlattenIs
<1>2. /\ FlattenSeq(qs) = f[n]
      /\ f[1] = qs[1]
      /\ \A i \in 2..n : f[i] = f[i - 1] \o qs[i]
  BY <1>1 DEF Flattens
<1> DEFINE Sound(k) == f[k] \in Seq(N) /\ \A i \in 1..k : Range(qs[i]) \subseteq Range(f[k])
           S == {k \in 0..(n - 1) : Sound(k + 1)}
<1>n. n - 1 \in Nat
  OBVIOUS
<1>3. 0 \in S
  <2>1. 1 \in 1..n /\ 0 + 1 = 1
    OBVIOUS
  <2>2. Sound(1)
    BY <1>2, <2>1
  <2> HIDE DEF Sound
  <2> QED
    BY <1>n, <2>1, <2>2
<1>4. ASSUME NEW k \in 0..((n - 1) - 1), k \in S
      PROVE  k + 1 \in S
  <2> DEFINE j == k + 1
  <2>1. j \in Nat /\ j + 1 \in 2..n /\ j + 1 \in 1..n /\ (j + 1) - 1 = j /\ j \in 0..(n - 1)
    OBVIOUS
  <2>2. Sound(j)
    BY <1>4
  <2> HIDE DEF j
  <2>3. f[j] \in Seq(N) /\ qs[j + 1] \in Seq(N) /\ f[j + 1] = f[j] \o qs[j + 1]
    BY <1>2, <2>1, <2>2
  <2>4. /\ f[j + 1] \in Seq(N)
        /\ Range(f[j]) \subseteq Range(f[j + 1]) /\ Range(qs[j + 1]) \subseteq Range(f[j + 1])
    BY <2>3, RangeConcat
  <2>5. ASSUME NEW i \in 1..(j + 1) PROVE Range(qs[i]) \subseteq Range(f[j + 1])
    <3>1. i = j + 1 \/ i \in 1..j
      BY <2>1
    <3>2. CASE i = j + 1
      BY <2>4, <3>2
    <3>3. CASE i \in 1..j
      <4>1. Range(qs[i]) \subseteq Range(f[j])
        BY <2>2, <3>3
      <4> QED
        BY <2>4, <4>1
    <3> QED
      BY <3>1, <3>2, <3>3
  <2>6. Sound(j + 1)
    BY <2>4, <2>5
  <2> HIDE DEF Sound
  <2> QED
    BY <2>1, <2>6 DEF j
<1> HIDE DEF S
<1>5. 0..(n - 1) \subseteq S
  BY <1>n, <1>3, <1>4, IntervalInduction
<1>6. n - 1 \in S /\ (n - 1) + 1 = n
  BY <1>n, <1>5
<1>7. Sound(n)
  <2> HIDE DEF Sound
  <2> QED
    BY <1>6 DEF S
<1> QED
  BY <1>2, <1>7

LEMMA GroupHasAll ==
  ASSUME NEW t, Len(t) \in Nat, NEW g \in Int, NEW c \in Names(t), t[c + 1].group = g
  PROVE  \E i \in DOMAIN GroupChunks(t, g) : GroupChunks(t, g)[i] = c
<1>1. /\ Piece(GroupChunks(t, g), t, {g})
      /\ \A d \in Names(t) : t[d + 1].group = g =>
           \E i \in DOMAIN GroupChunks(t, g) : GroupChunks(t, g)[i] = d
  BY GroupIsPiece
<1> QED
  BY <1>1

\* A layer that has room for all of its chunks has all of them in its list.
LEMMA LayerWhole ==
  ASSUME NEW t, Len(t) \in Nat, NEW g \in Int, Len(GroupChunks(t, g)) <= MAX_CHUNKS_PER_LAYER
  PROVE  layer_chunks(t, g) = GroupChunks(t, g)
<1> DEFINE a == GroupChunks(t, g)
           n == Len(a)
           m == Min({n, MAX_CHUNKS_PER_LAYER})
<1>1. a \in Seq(Names(t)) /\ n \in Nat
  BY GroupIsPiece DEF Piece
<1> HIDE DEF a
<1>2. m = n
  <2>1. {n, MAX_CHUNKS_PER_LAYER} \in SUBSET Nat
    BY <1>1, Widths
  <2>2. m \in {n, MAX_CHUNKS_PER_LAYER} /\ m <= n /\ m <= MAX_CHUNKS_PER_LAYER
    <3> HIDE DEF n
    <3> QED
      BY <2>1, MinOf
  <2> QED
    BY <1>1, <2>2, Widths DEF a
<1>3. layer_chunks(t, g) = SubSeq(a, 1, m)
  BY DEF layer_chunks, a
<1>4. SubSeq(a, 1, n) = a
  BY <1>1, SubSeqFull
<1> QED
  BY <1>2, <1>3, <1>4 DEF a

LEMMA LayersContain ==
  ASSUME file \in Files, NEW t, Len(t) \in Nat
  PROVE  /\ LayersInOrder(t) \in Seq(Names(t))
         /\ \A g \in 0..(n_layers - 1) : Range(layer_chunks(t, g)) \subseteq Range(LayersInOrder(t))
<1> DEFINE n == n_layers
           qs == [L \in 1..n |-> layer_chunks(t, L - 1)]
<1>1. n \in Nat
  BY LayersAre
<1>2. LayersInOrder(t) = FlattenSeq(qs)
  BY DEF LayersInOrder
<1>3. LayersInOrder(t) \in Seq(Names(t))
  BY LayersArePiece DEF Piece
<1> HIDE DEF n
<1>4. ASSUME NEW g \in 0..(n - 1)
      PROVE  Range(layer_chunks(t, g)) \subseteq Range(LayersInOrder(t))
  <2>1. n \in Nat \ {0} /\ g + 1 \in 1..n /\ (g + 1) - 1 = g
    BY <1>1
  <2>2. Len(qs) = n /\ \A i \in 1..n : qs[i] = layer_chunks(t, i - 1)
    BY <1>1
  <2>3. \A i \in 1..n : qs[i] \in Seq(Names(t))
    <3> SUFFICES ASSUME NEW i \in 1..n PROVE layer_chunks(t, i - 1) \in Seq(Names(t))
      BY <2>2
    <3> DEFINE L == i - 1
    <3>1. L \in Int
      BY <1>1
    <3> HIDE DEF L
    <3>2. layer_chunks(t, L) \in Seq(Names(t))
      BY <3>1, LayerIsPiece DEF Piece
    <3> QED
      BY <3>2 DEF L
  <2>4. qs[g + 1] = layer_chunks(t, g)
    BY <2>1, <2>2
  <2> HIDE DEF qs
  <2>5. Range(qs[g + 1]) \subseteq Range(FlattenSeq(qs))
    BY <2>1, <2>2, <2>3, FlattenContains
  <2> QED
    BY <1>2, <2>4, <2>5
<1> QED
  BY <1>3, <1>4 DEF n

\* A group of one chunk is that of its role.
LEMMA OnlyOne ==
  ASSUME NEW t, Len(t) \in Nat, NEW g \in Int, NEW c \in Names(t), t[c + 1].group = g,
         Len(GroupChunks(t, g)) <= 1, NEW default
  PROVE  LastOr(GroupChunks(t, g), default) = c
<1> DEFINE s == GroupChunks(t, g)
<1>1. s \in Seq(Names(t))
  BY GroupIsPiece DEF Piece
<1>2. \E i \in DOMAIN s : s[i] = c
  BY GroupHasAll
<1> HIDE DEF s
<1>3. Len(s) <= 1
  BY DEF s
<1>4. PICK i \in 1..Len(s) : s[i] = c
  BY <1>1, <1>2
<1>5. Len(s) \in Nat /\ i = Len(s) /\ s # <<>>
  BY <1>1, <1>3, <1>4
<1> QED
  BY <1>4, <1>5 DEF LastOr, Last, s

\* The chunks of the groups that are read, if they can be, are declared.
LEMMA DeclaredContains ==
  ASSUME file \in Files, specs = Specs, RunsFit, NEW g \in EveryToken,
         NEW c \in Names(specs), specs[c + 1].group = g
  PROVE  c \in Range(DeclaredSeq(specs))
<1> DEFINE t == specs
           N == Names(t)
           Once(x, before) == IF x = NoChunk \/ x \in before THEN <<>> ELSE <<x>>
           e == chunk_embd(t)
           n == chunk_outnorm(t)
           o == chunk_output(t)
           E == Once(e, {})
           L == LayersInOrder(t)
           M == Once(n, {e})
           O == Once(o, {e, n})
<1>1. DeclaredSeq(t) = ((E \o L) \o M) \o O
  BY DEF DeclaredSeq
<1>2. Len(t) \in Nat
  BY NamesAreChunks
<1>3. e = NoChunk \/ (e \in N /\ t[e + 1].group = GRP_EMBD)
  BY <1>2, RoleOfGroup DEF chunk_embd, GRP_EMBD
<1>4. n = e \/ (n \in N /\ t[n + 1].group = GRP_OUTNORM)
  BY <1>2, RoleOfGroup DEF chunk_outnorm, GRP_OUTNORM
<1>5. o = e \/ (o \in N /\ t[o + 1].group = GRP_OUTPUT)
  BY <1>2, RoleOfGroup DEF chunk_output, GRP_OUTPUT
<1>6. L \in Seq(N) /\ \A k \in 0..(n_layers - 1) : Range(layer_chunks(t, k)) \subseteq Range(L)
  BY <1>2, LayersContain
<1>7. c # NoChunk /\ NoChunk \notin N
  BY DEF Names, NoChunk
<1>8. g \in Roles /\ g \in Int
  <2>1. file.graph \in Seq(NodeType)
    BY FileFacts
  <2>2. \A i \in DOMAIN file.graph : file.graph[i] \in NodeType
    BY <2>1
  <2>3. \A x \in Range(file.graph) : x.reads \in Roles
    BY <2>2 DEF Range, NodeType
  <2> QED
    BY <2>3 DEF EveryToken, Roles, Layers, GRP_EMBD, GRP_OUTNORM, GRP_OUTPUT
<1>9. Len(GroupChunks(t, g)) <= IF g \in Layers THEN MAX_CHUNKS_PER_LAYER ELSE 1
  BY DEF RunsFit
<1>10. \E i \in DOMAIN GroupChunks(t, g) : GroupChunks(t, g)[i] = c
  BY <1>2, <1>8, GroupHasAll
<1> DEFINE OneRun == Len(GroupChunks(t, g)) <= 1
<1>11. g = GRP_EMBD => e = c
  <2> SUFFICES ASSUME g = GRP_EMBD PROVE e = c
    OBVIOUS
  <2>1. OneRun
    BY <1>9 DEF Layers, GRP_EMBD
  <2>2. LastOr(GroupChunks(t, g), NoChunk) = c
    BY <1>2, <1>8, <2>1, OnlyOne
  <2> QED
    BY <2>2 DEF chunk_embd
<1>12. g = GRP_OUTNORM => n = c
  <2> SUFFICES ASSUME g = GRP_OUTNORM PROVE n = c
    OBVIOUS
  <2>1. OneRun
    BY <1>9 DEF Layers, GRP_OUTNORM
  <2>2. LastOr(GroupChunks(t, g), e) = c
    BY <1>2, <1>8, <2>1, OnlyOne
  <2> QED
    BY <2>2 DEF chunk_outnorm
<1>13. g = GRP_OUTPUT => o = c
  <2> SUFFICES ASSUME g = GRP_OUTPUT PROVE o = c
    OBVIOUS
  <2>1. OneRun
    BY <1>9 DEF Layers, GRP_OUTPUT
  <2>2. LastOr(GroupChunks(t, g), e) = c
    BY <1>2, <1>8, <2>1, OnlyOne
  <2> QED
    BY <2>2 DEF chunk_output
<1>14. ASSUME g \in Layers PROVE c \in Range(L)
  <2>1. layer_chunks(t, g) = GroupChunks(t, g)
    BY <1>2, <1>8, <1>9, <1>14, LayerWhole
  <2>2. c \in Range(layer_chunks(t, g))
    BY <1>10, <2>1 DEF Range
  <2>3. g \in 0..(n_layers - 1)
    <3>1. PICK x \in Range(file.graph) : x.reads = g
      BY DEF EveryToken
    <3>2. \E s \in file.tensors : s.group = g
      BY <3>1, GraphAssumption
    <3> QED
      BY <1>14, <3>2, LayersAre DEF Layers
  <2> QED
    BY <1>6, <2>2, <2>3
<1> HIDE DEF e, n, o, L, t
<1>15. E \in Seq(N) /\ M \in Seq(N) /\ O \in Seq(N)
  BY <1>3, <1>4, <1>5
<1>16. /\ g = GRP_EMBD => c \in Range(E)
       /\ g = GRP_OUTNORM => c \in Range(M)
       /\ g = GRP_OUTPUT => c \in Range(O)
  <2>1. Range(<<c>>) = {c}
    BY DEF Range
  <2>2. GRP_EMBD # GRP_OUTNORM /\ GRP_EMBD # GRP_OUTPUT /\ GRP_OUTNORM # GRP_OUTPUT
    BY DEF GRP_EMBD, GRP_OUTNORM, GRP_OUTPUT
  <2>3. ASSUME g = GRP_EMBD PROVE E = <<c>>
    BY <1>7, <1>11, <2>3
  <2>4. ASSUME g = GRP_OUTNORM PROVE M = <<c>>
    <3>1. n = c /\ t[c + 1].group = GRP_OUTNORM
      BY <1>12, <2>4 DEF t
    <3>2. c # e
      BY <1>3, <1>7, <2>2, <3>1
    <3> QED
      BY <1>7, <3>1, <3>2
  <2>5. ASSUME g = GRP_OUTPUT PROVE O = <<c>>
    <3>1. o = c /\ t[c + 1].group = GRP_OUTPUT
      BY <1>13, <2>5 DEF t
    <3>2. c # e
      BY <1>3, <1>7, <2>2, <3>1
    <3>3. c # n
      BY <1>4, <2>2, <3>1, <3>2
    <3> QED
      BY <1>7, <3>1, <3>2, <3>3
  <2> HIDE DEF E, M, O
  <2> QED
    BY <2>1, <2>3, <2>4, <2>5
<1> HIDE DEF E, M, O, N
<1>17. /\ E \o L \in Seq(N) /\ Range(E) \subseteq Range(E \o L) /\ Range(L) \subseteq Range(E \o L)
  BY <1>6, <1>15, RangeConcat
<1>18. /\ (E \o L) \o M \in Seq(N)
       /\ Range(E \o L) \subseteq Range((E \o L) \o M) /\ Range(M) \subseteq Range((E \o L) \o M)
  BY <1>15, <1>17, RangeConcat
<1>19. /\ Range((E \o L) \o M) \subseteq Range(((E \o L) \o M) \o O)
       /\ Range(O) \subseteq Range(((E \o L) \o M) \o O)
  BY <1>15, <1>18, RangeConcat
<1>20. g = GRP_EMBD \/ g = GRP_OUTNORM \/ g = GRP_OUTPUT \/ g \in Layers
  BY <1>8 DEF Roles
<1>21. c \in Range(((E \o L) \o M) \o O)
  BY <1>14, <1>16, <1>17, <1>18, <1>19, <1>20
<1> QED
  BY <1>1, <1>21 DEF t

-----------------------------------------------------------------------------
(* The signals of a node name the chunks that it reads. *)

Stored(g) == \E t \in file.tensors : t.group = g

LEMMA NodeFacts ==
  ASSUME file \in Files, NEW j \in 1..Len(file.graph)
  PROVE  /\ Len(file.graph) \in Nat \ {0} /\ DOMAIN file.graph = 1..Len(file.graph)
         /\ file.graph[j] \in Range(file.graph)
         /\ file.graph[j].role \in Roles /\ file.graph[j].reads \in Roles
         /\ file.graph[j].reads \in EveryToken
         /\ Stored(file.graph[j].reads)
         /\ \/ file.graph[j].reads = file.graph[j].role
            \/ /\ file.graph[j].reads = GRP_EMBD /\ file.graph[j].role \notin Layers
               /\ ~ Stored(file.graph[j].role)
<1>1. file.graph \in Seq(NodeType)
  BY FileFacts
<1>2. /\ Len(file.graph) \in Nat \ {0} /\ DOMAIN file.graph = 1..Len(file.graph)
      /\ file.graph[j] \in NodeType
  BY <1>1
<1> DEFINE n == file.graph[j]
<1>3. n \in Range(file.graph)
  BY <1>2 DEF Range
<1>4. n.role \in Roles /\ n.reads \in Roles
  BY <1>2 DEF NodeType
<1> HIDE DEF n
<1>5. n.reads \in EveryToken
  BY <1>3 DEF EveryToken
<1>6. /\ Stored(n.reads)
      /\ n.reads = n.role \/ (n.reads = GRP_EMBD /\ n.role \notin Layers /\ ~ Stored(n.role))
  BY <1>3, GraphAssumption DEF Stored
<1> QED
  BY <1>2, <1>3, <1>4, <1>5, <1>6 DEF n

LEMMA RolesAreInts == Roles \subseteq Int /\ GRP_HEADER \notin Roles
BY DEF Roles, Layers, GRP_HEADER, GRP_EMBD, GRP_OUTNORM, GRP_OUTPUT

\* A group has a chunk if and only if it has a tensor.
LEMMA GroupStored ==
  ASSUME file \in Files, RunsApart, specs = Specs, NEW g \in Roles
  PROVE  GroupChunks(specs, g) # <<>> <=> Stored(g)
<1>1. Len(specs) \in Nat /\ g \in Int /\ g # GRP_HEADER
  BY NamesAreChunks, RolesAreInts
<1>2. ASSUME GroupChunks(specs, g) # <<>> PROVE Stored(g)
  <2> DEFINE s == GroupChunks(specs, g)
  <2>1. Piece(s, specs, {g})
    BY <1>1, GroupIsPiece
  <2> HIDE DEF s
  <2>2. s \in Seq(Names(specs)) /\ \A i \in 1..Len(s) : specs[s[i] + 1].group \in {g}
    BY <2>1 DEF Piece
  <2>3. 1 \in 1..Len(s)
    BY <1>2, <2>2 DEF s
  <2>4. s[1] \in Names(specs) /\ specs[s[1] + 1].group = g
    BY <2>2, <2>3
  <2>5. \/ specs[s[1] + 1].group = GRP_HEADER
        \/ \E x \in file.tensors : x.group = specs[s[1] + 1].group /\ align_down(x.off) = specs[s[1] + 1].off
    BY <2>4, TensorsInTable
  <2> QED
    BY <1>1, <2>4, <2>5 DEF Stored
<1>3. ASSUME Stored(g) PROVE GroupChunks(specs, g) # <<>>
  <2>1. PICK x \in file.tensors : x.group = g
    BY <1>3 DEF Stored
  <2>2. PICK c \in Names(specs) : specs[c + 1].group = g
    BY <2>1, TensorsInTable
  <2>3. PICK i \in DOMAIN GroupChunks(specs, g) : GroupChunks(specs, g)[i] = c
    BY <1>1, <2>2, GroupHasAll
  <2> QED
    BY <2>3
<1> QED
  BY <1>2, <1>3

\* The chunk of a role is one of the group that is read for it.
LEMMA RoleIsRead ==
  ASSUME file \in Files, RunsApart, specs = Specs, NEW g \in Roles, Stored(g), NEW default
  PROVE  LET c == LastOr(GroupChunks(specs, g), default) IN
         c \in Existing /\ specs[c + 1].group = g
<1> DEFINE s == GroupChunks(specs, g)
<1>1. Len(specs) \in Nat /\ g \in Int
  BY NamesAreChunks, RolesAreInts
<1>2. s # <<>>
  BY GroupStored
<1>3. Piece(s, specs, {g})
  BY <1>1, GroupIsPiece
<1> HIDE DEF s
<1>4. s \in Seq(Names(specs)) /\ \A i \in 1..Len(s) : specs[s[i] + 1].group \in {g}
  BY <1>3 DEF Piece
<1>5. Len(s) \in 1..Len(s)
  BY <1>2, <1>4
<1>6. s[Len(s)] \in Names(specs) /\ specs[s[Len(s)] + 1].group = g
  BY <1>4, <1>5
<1> QED
  BY <1>2, <1>6 DEF LastOr, Last, s, Existing, Names

LEMMA RoleIsNone ==
  ASSUME file \in Files, RunsApart, specs = Specs, NEW g \in Roles, ~ Stored(g), NEW default
  PROVE  LastOr(GroupChunks(specs, g), default) = default
BY GroupStored DEF LastOr

\* What is signalled for a node is of the group that it reads; and there is
\* something, but for the later nodes of a layer.
LEMMA SignalsFollow ==
  ASSUME LayoutInv, phase = "up", RunsApart, Node.known
  PROVE  /\ Signals \in Seq(Existing)
         /\ \A i \in 1..Len(Signals) : specs[Signals[i] + 1].group = Node.reads
         /\ Signals = <<>> => Node.role \in Layers /\ Node.role = last_layer
<1>1. file \in Files /\ specs = Specs /\ node \in 1..Len(file.graph) /\ Signals \in Seq(Existing)
  BY SignalsExist DEF LayoutInv, TypeOK
<1> DEFINE n == Node
<1>2. /\ n.role \in Roles /\ n.reads \in Roles /\ Stored(n.reads)
      /\ n.reads = n.role \/ (n.reads = GRP_EMBD /\ n.role \notin Layers /\ ~ Stored(n.role))
  BY <1>1, NodeFacts DEF Node
<1>3. Len(specs) \in Nat
  BY <1>1, NamesAreChunks
<1> HIDE DEF n
<1>4. CASE n.role < 0
  <2>1. n.role \in {GRP_EMBD, GRP_OUTNORM, GRP_OUTPUT} /\ n.role \notin Layers
    BY <1>2, <1>4 DEF Roles, Layers
  <2> DEFINE c == RoleChunk(n.role)
             e == chunk_embd(specs)
  <2>2. Stored(GRP_EMBD) => e \in Existing /\ specs[e + 1].group = GRP_EMBD
    <3>1. GRP_EMBD \in Roles
      BY DEF Roles
    <3> QED
      BY <1>1, <3>1, RoleIsRead DEF chunk_embd
  <2>3. c \in Existing /\ specs[c + 1].group = n.reads
    <3>1. CASE n.role = GRP_EMBD
      <4>1. n.reads = GRP_EMBD
        BY <1>2, <3>1
      <4>2. c = e
        BY <3>1 DEF RoleChunk, GRP_EMBD, GRP_OUTNORM, GRP_OUTPUT
      <4> QED
        BY <1>2, <2>2, <4>1, <4>2
    <3>2. CASE n.role = GRP_OUTNORM
      <4>1. c = LastOr(GroupChunks(specs, n.role), e)
        BY <3>2 DEF RoleChunk, chunk_outnorm, GRP_EMBD, GRP_OUTNORM, GRP_OUTPUT
      <4>2. CASE n.reads = n.role
        BY <1>1, <1>2, <4>1, <4>2, RoleIsRead
      <4>3. CASE n.reads # n.role
        <5>1. c = e
          BY <1>1, <1>2, <4>1, <4>3, RoleIsNone
        <5> QED
          BY <1>2, <2>2, <4>3, <5>1
      <4> QED
        BY <4>2, <4>3
    <3>3. CASE n.role = GRP_OUTPUT
      <4>1. c = LastOr(GroupChunks(specs, n.role), e)
        BY <3>3 DEF RoleChunk, chunk_output, GRP_EMBD, GRP_OUTNORM, GRP_OUTPUT
      <4>2. CASE n.reads = n.role
        BY <1>1, <1>2, <4>1, <4>2, RoleIsRead
      <4>3. CASE n.reads # n.role
        <5>1. c = e
          BY <1>1, <1>2, <4>1, <4>3, RoleIsNone
        <5> QED
          BY <1>2, <2>2, <4>3, <5>1
      <4> QED
        BY <4>2, <4>3
    <3> QED
      BY <2>1, <3>1, <3>2, <3>3
  <2>4. c # NoChunk
    BY <2>3 DEF Existing, NoChunk
  <2>5. Signals = Existent(c)
    BY <1>4 DEF Signals, n
  <2> HIDE DEF c
  <2>6. Signals = <<c>>
    BY <2>4, <2>5 DEF Existent
  <2> QED
    BY <1>1, <2>3, <2>6 DEF n
<1>5. CASE ~ (n.role < 0)
  <2>1. n.role \in Layers /\ n.role \in Int /\ n.reads = n.role
    BY <1>2, <1>5 DEF Roles, Layers, GRP_EMBD, GRP_OUTNORM, GRP_OUTPUT
  <2>2. Signals = IF n.role # last_layer THEN layer_chunks(specs, n.role) ELSE <<>>
    BY <1>5 DEF Signals, Entered, n
  <2>3. CASE n.role = last_layer
    <3>1. Signals = <<>> /\ Len(Signals) = 0
      BY <2>2, <2>3
    <3> QED
      BY <1>1, <2>1, <2>3, <3>1 DEF n
  <2>4. CASE n.role # last_layer
    <3>1. Signals = layer_chunks(specs, n.role)
      BY <2>2, <2>4
    <3>2. Piece(layer_chunks(specs, n.role), specs, {n.role})
      BY <1>3, <2>1, LayerIsPiece
    <3>3. \A i \in 1..Len(Signals) : specs[Signals[i] + 1].group = n.role
      BY <3>1, <3>2 DEF Piece
    <3>4. Signals # <<>>
      <4>1. GroupChunks(specs, n.role) # <<>>
        BY <1>1, <1>2, <2>1, GroupStored
      <4> QED
        BY <1>3, <2>1, <3>1, <4>1, LayerIsPiece
    <3> QED
      BY <1>1, <2>1, <3>3, <3>4 DEF n
  <2> QED
    BY <2>3, <2>4
<1> QED
  BY <1>4, <1>5

-----------------------------------------------------------------------------
(* The cursor is at a chunk of the group that is read. *)

\* The signal of a declared chunk leaves the cursor at that chunk.
LEMMA AccessFinds ==
  ASSUME PolicyTypeOK, NEW c \in Range(seq), OnAccess(c)
  PROVE  pos' \in 0..(Len(seq) - 1) /\ seq[pos' + 1] = c
<1> DEFINE n == Len(seq)
           hops == {k \in 0..(n - 1) : At(ScanFrom + k) = c}
<1>1. n \in Nat /\ DOMAIN seq = 1..n /\ pos \in -1..(n - 1)
  BY DEF PolicyTypeOK
<1>2. PICK i \in 1..n : seq[i] = c
  BY <1>1 DEF Range
<1>3. n \in Nat \ {0} /\ ScanFrom \in 0..n
  BY <1>1, <1>2 DEF ScanFrom
<1>4. pos' = IF hops = {} THEN pos ELSE (ScanFrom + Min(hops)) % n
  BY DEF OnAccess
<1>5. \A k \in Nat : At(ScanFrom + k) = seq[((ScanFrom + k) % n) + 1]
  BY DEF At
<1>6. hops \in SUBSET Nat
  OBVIOUS
<1>7. \A k \in 0..(n - 1) : At(ScanFrom + k) = c => k \in hops
  OBVIOUS
<1>8. \A k \in hops : k \in Nat /\ At(ScanFrom + k) = c
  OBVIOUS
<1> HIDE DEF n, hops
<1>9. hops # {}
  <2> DEFINE k == IF i - 1 >= ScanFrom THEN (i - 1) - ScanFrom ELSE ((i - 1) + n) - ScanFrom
  <2>1. k \in 0..(n - 1) /\ k \in Nat /\ i - 1 \in 0..(n - 1) /\ i - 1 \in Nat /\ (i - 1) + 1 = i
    BY <1>3
  <2>2. ScanFrom + k = i - 1 \/ ScanFrom + k = (i - 1) + n
    BY <1>3
  <2> HIDE DEF k
  <2>3. (i - 1) % n = i - 1
    BY <1>3, <2>1, ModSmall
  <2>4. ((i - 1) + n) % n = i - 1
    <3> DEFINE j == i - 1
    <3>1. j \in Nat /\ j % n = j
      BY <2>1, <2>3
    <3> HIDE DEF j
    <3>2. (j + n) % n = j
      BY <1>3, <3>1, ModAddWhole
    <3> QED
      BY <3>2 DEF j
  <2>5. (ScanFrom + k) % n = i - 1
    BY <2>2, <2>3, <2>4
  <2>6. At(ScanFrom + k) = c
    BY <1>2, <1>5, <2>1, <2>5
  <2>7. k \in hops
    BY <1>7, <2>1, <2>6
  <2> QED
    BY <2>7
<1> DEFINE m == Min(hops)
<1>10. m \in hops
  BY <1>6, <1>9, MinOf
<1>11. m \in Nat /\ At(ScanFrom + m) = c
  BY <1>8, <1>10
<1>12. pos' = (ScanFrom + m) % n
  BY <1>4, <1>9
<1> HIDE DEF m
<1>13. ScanFrom + m \in Nat
  BY <1>3, <1>11
<1>14. (ScanFrom + m) % n \in 0..(n - 1)
  BY <1>3, <1>13, DivMod
<1>15. seq[pos' + 1] = c
  BY <1>5, <1>11, <1>12
<1> QED
  BY <1>12, <1>14, <1>15 DEF n

\* The hypotheses of ReadsFollowTheCursor.
CanFollow == NodesKnown /\ RunsFit /\ RunsApart

CursorAt(g) ==
  /\ pos \in 0..(Len(seq) - 1)
  /\ specs[seq[pos + 1] + 1].group = g

\* What is still to be signalled is what the node reads; when it has been, the
\* cursor is there, and it stays until the next node is asked about.  The layer
\* entered last is that of a node of this evaluation.
CursorInv ==
  /\ opt.pre
  /\ phase = "start" => node = 1 /\ stage = "ask"
  /\ CanFollow /\ phase = "up" =>
       /\ stage = "signal" =>
            /\ \A i \in 1..Len(pending) : specs[pending[i] + 1].group = Node.reads
            /\ pending = <<>> => CursorAt(Node.reads)
            /\ \E j \in 1..node : last_layer = file.graph[j].role
       /\ stage = "ask" /\ node > 1 =>
            /\ CursorAt(file.graph[node - 1].reads)
            /\ \E j \in 1..(node - 1) : last_layer = file.graph[j].role

LEMMA ReadIsDeclared ==
  ASSUME LayoutInv, phase # "start", RunsFit,
         NEW g \in EveryToken, NEW c \in Existing, specs[c + 1].group = g
  PROVE  c \in Range(seq)
<1>1. file \in Files /\ specs = Specs /\ seq = DeclaredSeq(specs) /\ Existing = Names(specs)
  BY DEF LayoutInv, Existing, Names
<1> QED
  BY <1>1, DeclaredContains

\* A step that leaves the file, the table and the sequence alone.
LEMMA SameCursor ==
  ASSUME UNCHANGED <<file, specs, seq>>
  PROVE  /\ (CanFollow' <=> CanFollow)
         /\ EveryToken' = EveryToken
BY DEF CanFollow, NodesKnown, RunsFit, RunsApart, StartsRun, srt, EveryToken

LEMMA CursorInit ==
  LlamaInit => CursorInv
BY DEF LlamaInit, CursorInv

LEMMA CursorMmap ==
  ASSUME LayoutInv, CursorInv, Mmap
  PROVE  CursorInv'
<1>1. phase = "start" /\ opt' = opt /\ node' = node /\ stage' = stage /\ phase' \in {"up", "refused"}
  BY DEF Mmap, evalVars, unusedPolicyVars
<1>2. opt.pre /\ node = 1 /\ stage = "ask"
  BY <1>1 DEF CursorInv
<1> QED
  BY <1>1, <1>2 DEF CursorInv

LEMMA CursorAsk ==
  ASSUME LayoutInv, CursorInv, Ask
  PROVE  CursorInv'
<1>1. /\ phase = "up" /\ stage = "ask" /\ stage' = "signal" /\ pending' = Signals
      /\ last_layer' = IF Node.known /\ Node.role >= GRP_EMBD THEN Node.role ELSE last_layer
      /\ UNCHANGED <<file, specs, seq, phase, node, pos, opt>>
  BY DEF Ask, fileVars, unusedPolicyVars
<1>2. (CanFollow' <=> CanFollow) /\ Node' = Node
  BY <1>1, SameCursor DEF Node
<1>3. file \in Files /\ node \in 1..Len(file.graph)
  BY DEF LayoutInv, TypeOK
<1>4. /\ Len(file.graph) \in Nat \ {0}
      /\ Node \in Range(file.graph) /\ Node.role \in Roles /\ Node.reads \in Roles
      /\ Node.reads = Node.role \/ Node.role \notin Layers
  BY <1>3, NodeFacts DEF Node
<1>5. ASSUME CanFollow
      PROVE  /\ \A i \in 1..Len(Signals) : specs[Signals[i] + 1].group = Node.reads
             /\ Signals = <<>> => CursorAt(Node.reads)
             /\ \E j \in 1..node : last_layer' = file.graph[j].role
  <2>1. RunsApart /\ Node.known
    BY <1>4, <1>5 DEF CanFollow, NodesKnown
  <2>2. /\ \A i \in 1..Len(Signals) : specs[Signals[i] + 1].group = Node.reads
        /\ Signals = <<>> => Node.role \in Layers /\ Node.role = last_layer
    BY <1>1, <2>1, SignalsFollow
  <2>3. node = 1 => Node.role = GRP_EMBD
    BY <1>3, GraphAssumption DEF Node
  <2>4. node > 1 => /\ CursorAt(file.graph[node - 1].reads)
                    /\ \E j \in 1..(node - 1) : last_layer = file.graph[j].role
    BY <1>1, <1>5 DEF CursorInv
  <2>5. ASSUME Signals = <<>> PROVE CursorAt(Node.reads)
    <3>1. Node.role \in Layers /\ Node.role = last_layer /\ Node.reads = Node.role
      BY <1>4, <2>2, <2>5
    <3>2. node > 1
      BY <1>3, <2>3, <3>1 DEF Layers, GRP_EMBD
    <3>3. PICK j \in 1..(node - 1) : last_layer = file.graph[j].role
      BY <2>4, <3>2
    <3>4. j \in DOMAIN file.graph /\ node \in DOMAIN file.graph /\ j < node
      BY <1>3, <3>3, NodeFacts
    <3>5. file.graph[node - 1].role = Node.role
      BY <1>3, <3>1, <3>3, <3>4, GraphAssumption DEF Node
    <3>6. node - 1 \in 1..Len(file.graph)
      BY <1>3, <1>4, <3>2
    <3>7. file.graph[node - 1].reads = Node.role
      BY <1>3, <3>1, <3>5, <3>6, NodeFacts
    <3> QED
      BY <2>4, <3>1, <3>2, <3>7
  <2>6. \E j \in 1..node : last_layer' = file.graph[j].role
    <3>1. CASE Node.role >= GRP_EMBD
      <4>1. last_layer' = file.graph[node].role /\ node \in 1..node
        BY <1>1, <1>3, <2>1, <3>1 DEF Node
      <4> QED
        BY <4>1
    <3>2. CASE ~ (Node.role >= GRP_EMBD)
      <4>1. last_layer' = last_layer /\ node > 1
        BY <1>1, <1>3, <2>3, <3>2 DEF GRP_EMBD
      <4>2. PICK j \in 1..(node - 1) : last_layer = file.graph[j].role
        BY <2>4, <4>1
      <4>3. j \in 1..node
        BY <1>3
      <4> QED
        BY <4>1, <4>2, <4>3
    <3> QED
      BY <3>1, <3>2
  <2> QED
    BY <2>2, <2>5, <2>6
<1>6. opt'.pre /\ phase' # "start"
  BY <1>1 DEF CursorInv
<1>7. CursorAt(Node.reads)' <=> CursorAt(Node.reads)
  BY <1>1, <1>2 DEF CursorAt
<1> QED
  BY <1>1, <1>2, <1>5, <1>6, <1>7 DEF CursorInv

LEMMA CursorNotify ==
  ASSUME LayoutInv, CursorInv, NotifyChunk
  PROVE  CursorInv'
<1> DEFINE c == Head(pending)
<1>1. /\ phase = "up" /\ stage = "signal" /\ pending # <<>> /\ OnAccess(c)
      /\ pending' = Tail(pending)
      /\ UNCHANGED <<file, specs, seq, node, stage, last_layer, opt>>
  BY DEF NotifyChunk, fileVars, evalVars, unusedPolicyVars
<1>2. (CanFollow' <=> CanFollow) /\ Node' = Node
  BY <1>1, SameCursor DEF Node
<1>3. file \in Files /\ node \in 1..Len(file.graph) /\ pending \in Seq(Existing) /\ PolicyTypeOK
  BY DEF LayoutInv, TypeOK
<1>4. phase' \in {"up", "aborted"}
  BY DEF NotifyChunk
<1>5. opt'.pre
  BY <1>1 DEF CursorInv
<1>6. ASSUME CanFollow
      PROVE  /\ \A i \in 1..Len(pending') : specs[pending'[i] + 1].group = Node.reads
             /\ CursorAt(Node.reads)'
             /\ \E j \in 1..node : last_layer = file.graph[j].role
  <2>1. /\ \A i \in 1..Len(pending) : specs[pending[i] + 1].group = Node.reads
        /\ \E j \in 1..node : last_layer = file.graph[j].role
    BY <1>1, <1>6 DEF CursorInv
  <2>2. /\ Len(pending) \in Nat /\ 1 \in 1..Len(pending) /\ c = pending[1] /\ c \in Existing
        /\ Len(pending') = Len(pending) - 1
        /\ \A i \in 1..Len(pending') : pending'[i] = pending[i + 1]
    BY <1>1, <1>3
  <2>3. \A i \in 1..Len(pending') : specs[pending'[i] + 1].group = Node.reads
    <3> SUFFICES ASSUME NEW i \in 1..Len(pending') PROVE specs[pending'[i] + 1].group = Node.reads
      OBVIOUS
    <3>1. i + 1 \in 1..Len(pending) /\ pending'[i] = pending[i + 1]
      BY <2>2
    <3> QED
      BY <2>1, <3>1
  <2>4. Node.reads \in EveryToken
    BY <1>3, NodeFacts DEF Node
  <2>5. specs[c + 1].group = Node.reads
    BY <2>1, <2>2
  <2> HIDE DEF c
  <2>6. c \in Range(seq)
    BY <1>1, <1>6, <2>2, <2>4, <2>5, ReadIsDeclared DEF CanFollow
  <2>7. pos' \in 0..(Len(seq) - 1) /\ seq[pos' + 1] = c
    BY <1>1, <1>3, <2>6, AccessFinds
  <2>8. CursorAt(Node.reads)'
    BY <1>1, <1>2, <2>5, <2>7 DEF CursorAt
  <2> QED
    BY <2>1, <2>3, <2>8
<1> QED
  BY <1>1, <1>2, <1>4, <1>5, <1>6 DEF CursorInv

LEMMA CursorCompute ==
  ASSUME LayoutInv, CursorInv, Compute
  PROVE  CursorInv'
<1>1. /\ phase = "up" /\ stage = "signal" /\ pending = <<>> /\ stage' = "ask"
      /\ IF node < Len(file.graph) THEN node' = node + 1 ELSE node' = 1
      /\ UNCHANGED <<file, specs, seq, phase, last_layer, pos, opt>>
  BY DEF Compute, fileVars, unusedPolicyVars
<1>2. (CanFollow' <=> CanFollow)
  BY <1>1, SameCursor
<1>3. node \in Nat /\ node >= 1
  BY DEF LayoutInv, TypeOK
<1>4. opt'.pre
  BY <1>1 DEF CursorInv
<1>5. ASSUME CanFollow, node' > 1
      PROVE  /\ CursorAt(file.graph[node - 1].reads)'
             /\ (\E j \in 1..(node - 1) : last_layer = file.graph[j].role)'
  <2>1. node' = node + 1 /\ node' - 1 = node
    BY <1>1, <1>3, <1>5
  <2>2. CursorAt(Node.reads) /\ \E j \in 1..node : last_layer = file.graph[j].role
    BY <1>1, <1>5 DEF CursorInv
  <2>3. Node = file'.graph[node' - 1]
    BY <1>1, <2>1 DEF Node
  <2>4. CursorAt(file.graph[node - 1].reads)'
    BY <1>1, <2>2, <2>3 DEF CursorAt
  <2>5. (\E j \in 1..(node - 1) : last_layer = file.graph[j].role)'
    BY <1>1, <2>1, <2>2
  <2> QED
    BY <2>4, <2>5
<1> QED
  BY <1>1, <1>2, <1>4, <1>5 DEF CursorInv

LEMMA CursorStep ==
  LayoutInv /\ CursorInv /\ [LlamaNext]_llamaVars => CursorInv'
<1> SUFFICES ASSUME LayoutInv, CursorInv, [LlamaNext]_llamaVars PROVE CursorInv'
  OBVIOUS
<1>1. CASE LlamaNext
  BY <1>1, CursorMmap, CursorAsk, CursorNotify, CursorCompute DEF LlamaNext
<1>2. CASE UNCHANGED llamaVars
  <2>1. UNCHANGED <<file, specs, seq, phase, node, stage, last_layer, pending, pos, opt>>
    BY <1>2 DEF llamaVars, fileVars, evalVars, auditVars, unusedPolicyVars
  <2>2. (CanFollow' <=> CanFollow) /\ Node' = Node
    BY <2>1, SameCursor DEF Node
  <2> QED
    BY <2>1, <2>2 DEF CursorInv, CursorAt
<1> QED
  BY <1>1, <1>2

-----------------------------------------------------------------------------
(* The reads follow the cursor. *)

\* With the signal before the read and nothing protected, the chunk at the cursor
\* is needed at once, and any other chunk later.
LEMMA CursorIsNow ==
  ASSUME PolicyTypeOK, opt.policy = "declared", opt.pre, ~ opt.protect,
         pos \in 0..(Len(seq) - 1)
  PROVE  /\ Rank(seq[pos + 1]) = 0
         /\ \A y \in Chunks : y # seq[pos + 1] => Rank(y) > 0
<1> DEFINE n == Len(seq)
           x == seq[pos + 1]
           uses(y) == {d \in 0..(0 + n - 1) : At(pos + d) = y}
<1>1. n \in Nat \ {0} /\ pos \in Nat /\ pos % n = pos
  <2>1. n \in Nat \ {0} /\ pos \in Nat
    BY DEF PolicyTypeOK
  <2> QED
    BY <2>1, ModSmall
<1>2. At(pos + 0) = x
  BY <1>1 DEF At
<1>3. Max({pos, 0}) = pos
  BY <1>1, MaxWithZero
<1>4. ASSUME NEW y
      PROVE  Rank(y) = IF uses(y) = {} THEN INT64_MAX ELSE Min(uses(y))
  <2>1. Rank(y) = declared_dist(y)
    BY DEF Rank, NextUseDistance
  <2>2. Protected = {} /\ Origin = 0
    BY DEF Protected, Origin
  <2> QED
    BY <1>3, <2>1, <2>2 DEF declared_dist
<1>5. \A y : uses(y) \in SUBSET Nat /\ \A d \in uses(y) : At(pos + d) = y
  OBVIOUS
<1>6. 0 \in uses(x)
  BY <1>1, <1>2
<1> HIDE DEF x, uses
<1>7. Rank(x) = 0
  <2>1. Min(uses(x)) \in uses(x) /\ \A k \in uses(x) : Min(uses(x)) <= k
    BY <1>5, <1>6, MinOf
  <2>2. Min(uses(x)) \in Nat /\ Min(uses(x)) <= 0
    BY <1>5, <1>6, <2>1
  <2> QED
    BY <1>4, <1>6, <2>2
<1>8. ASSUME NEW y, y # x PROVE Rank(y) > 0
  <2>1. CASE uses(y) = {}
    BY <1>4, <2>1 DEF INT64_MAX
  <2>2. CASE uses(y) # {}
    <3>1. Min(uses(y)) \in uses(y)
      BY <1>5, <2>2, MinOf
    <3>2. Min(uses(y)) \in Nat /\ Min(uses(y)) # 0
      BY <1>2, <1>5, <1>8, <3>1
    <3> QED
      BY <1>4, <2>2, <3>2
  <2> QED
    BY <2>1, <2>2
<1> QED
  BY <1>7, <1>8 DEF x

\* There is a declared chunk that a node does not read.
LEMMA AnotherDeclared ==
  ASSUME LayoutInv, phase = "up", CanFollow, NEW g \in Roles
  PROVE  \E c \in Range(seq) : specs[c + 1].group # g
<1>1. file \in Files /\ specs = Specs
  BY DEF LayoutInv
<1>2. PICK m \in Range(file.graph), n \in Range(file.graph) : m.reads # n.reads
  BY <1>1, GraphAssumption
<1>3. PICK x \in Range(file.graph) : x.reads # g
  BY <1>2
<1>4. x.reads \in EveryToken /\ Stored(x.reads)
  BY <1>1, <1>3, GraphAssumption DEF EveryToken, Stored
<1>5. PICK t \in file.tensors : t.group = x.reads
  BY <1>4 DEF Stored
<1>6. PICK c \in Names(specs) : specs[c + 1].group = x.reads
  BY <1>1, <1>5, TensorsInTable DEF CanFollow
<1>7. c \in Range(seq)
  BY <1>4, <1>6, ReadIsDeclared DEF Existing, Names, CanFollow
<1> QED
  BY <1>3, <1>6, <1>7

LEMMA CursorInvFollows ==
  LayoutInv /\ CursorInv => ReadsFollowTheCursor
<1> SUFFICES ASSUME LayoutInv, CursorInv, CanFollow PROVE
      /\ phase = "up" => \A g \in EveryToken :
           /\ Own(g) \subseteq Holding(g) /\ Own(g) \subseteq Range(seq)
           /\ \A c \in Holding(g) \ Own(g) : IsTail(g, c)
      /\ ReadingNow => At(pos) \in Own(Node.reads)
      /\ ReadingNow /\ ~ opt.protect /\ Unsplit(Node.reads) => SelectVictim(Range(seq)) \notin Own(Node.reads)
  BY DEF ReadsFollowTheCursor, CanFollow
<1>1. /\ file \in Files /\ node \in 1..Len(file.graph) /\ PolicyTypeOK
      /\ opt.policy = "declared" /\ opt.pre /\ RunsFit /\ RunsApart
  BY DEF LayoutInv, TypeOK, CursorInv, CanFollow
<1>2. phase = "up" => specs = Specs
  BY DEF LayoutInv
<1>3. EveryToken \subseteq Roles
  <2>1. file.graph \in Seq(NodeType)
    BY <1>1, FileFacts
  <2>2. \A i \in DOMAIN file.graph : file.graph[i] \in NodeType
    BY <2>1
  <2> QED
    BY <2>2 DEF EveryToken, Range, NodeType
<1>4. ASSUME phase = "up", NEW g \in EveryToken
      PROVE  /\ Own(g) \subseteq Holding(g) /\ Own(g) \subseteq Range(seq)
             /\ \A c \in Holding(g) \ Own(g) : IsTail(g, c)
  <2>1. g \in Roles /\ specs = Specs
    BY <1>2, <1>3, <1>4
  <2>2. Own(g) \subseteq Holding(g)
    BY <1>1, <2>1, OwnIsHolding
  <2>3. Own(g) \subseteq Range(seq)
    <3> SUFFICES ASSUME NEW c \in Own(g) PROVE c \in Range(seq)
      OBVIOUS
    <3>1. c \in Existing /\ specs[c + 1].group = g
      BY DEF Own
    <3> QED
      BY <1>1, <1>4, <3>1, ReadIsDeclared
  <2>4. \A c \in Holding(g) \ Own(g) : IsTail(g, c)
    BY <1>1, <2>1, OthersHoldTails
  <2> QED
    BY <2>2, <2>3, <2>4
<1>5. ASSUME ReadingNow
      PROVE  /\ At(pos) \in Own(Node.reads)
             /\ ~ opt.protect /\ Unsplit(Node.reads) => SelectVictim(Range(seq)) \notin Own(Node.reads)
  <2> DEFINE x == seq[pos + 1]
             g == Node.reads
             C == Range(seq)
             v == SelectVictim(C)
  <2>1. phase = "up" /\ CursorAt(g)
    BY <1>5 DEF ReadingNow, CursorInv
  <2>2. pos \in 0..(Len(seq) - 1) /\ specs[x + 1].group = g /\ g \in EveryToken /\ g \in Roles
    BY <1>1, <1>3, <2>1, NodeFacts DEF CursorAt, Node
  <2>3. Len(seq) \in Nat \ {0} /\ DOMAIN seq = 1..Len(seq) /\ C \in SUBSET Chunks
    BY <1>1, <2>2 DEF PolicyTypeOK, Range
  <2>4. At(pos) = x
    BY <2>2, <2>3, ModSmall DEF At
  <2>5. x \in Existing
    <3>1. Len(specs) \in Nat /\ seq = DeclaredSeq(specs)
      BY <1>1, <2>1, NamesAreChunks DEF LayoutInv
    <3>2. seq \in Seq(Existing)
      BY <1>1, <3>1, DeclaredIsPiece DEF Piece, Names, Existing
    <3> QED
      BY <2>2, <2>3, <3>2
  <2> HIDE DEF x, g
  <2>6. x \in Own(g)
    BY <2>2, <2>5 DEF Own
  <2>7. ASSUME ~ opt.protect, Unsplit(g) PROVE v \notin Own(g)
    <3>1. Own(g) = {x}
      <4>1. Own(g) \in SUBSET Existing /\ IsFiniteSet(Existing)
        <5>1. Len(specs) - 1 \in Int
          BY <1>1, <1>2, <2>1, NamesAreChunks
        <5>2. IsFiniteSet(0..(Len(specs) - 1))
          BY <5>1, FS_Interval
        <5> QED
          BY <5>2 DEF Own, Existing
      <4>2. IsFiniteSet(Own(g))
        BY <4>1, FS_Subset
      <4>3. \E y : Own(g) = {y}
        BY <2>7, <4>2, FS_Singleton DEF Unsplit
      <4> QED
        BY <2>6, <4>3
    <3>2. PICK y \in C : specs[y + 1].group # g
      BY <1>1, <2>1, <2>2, AnotherDeclared
    <3>3. y # x /\ y \in Chunks
      BY <2>2, <2>3, <3>2
    <3>4. Rank(x) = 0 /\ Rank(y) > 0
      BY <1>1, <2>2, <2>7, <3>3, CursorIsNow DEF x
    <3>5. Rank(y) <= Rank(v)
      BY <1>1, <2>3, <3>2, VictimIsCandidate
    <3>6. v # x
      <4> SUFFICES ASSUME v = x PROVE FALSE
        OBVIOUS
      <4>1. Rank(y) <= 0 /\ Rank(y) \in Int
        BY <1>1, <3>3, <3>4, <3>5, RankBounded
      <4> QED
        BY <3>4, <4>1
    <3> QED
      BY <3>1, <3>6
  <2> QED
    BY <2>4, <2>6, <2>7 DEF g
<1> QED
  BY <1>4, <1>5

\* For files whose runs of tensors have no first page in common, are few enough to be
\* declared and are read by nodes that are recognised (CanFollow): what is signalled is
\* of the group that is read next, so that the cursor is at a chunk of it, token
\* after token (residctl_llama.c:387-392, :454-474).
THEOREM CursorInvariance == LlamaSpec => []CursorInv
<1>1. LlamaInit => CursorInv
  BY CursorInit
<1>2. LayoutInv /\ CursorInv /\ [LlamaNext]_llamaVars => CursorInv'
  BY CursorStep
<1> QED
  BY <1>1, <1>2, LayoutInvariance, PTL DEF LlamaSpec

\* For any such files, with tensors of any offsets and sizes: the chunks of a group
\* that a token reads hold bytes of it and are in the declared sequence, and all its
\* other bytes are tails, in the first page of the chunk after one of them; whenever a
\* node is computed the cursor is at a chunk of its group, and, unprotected, the policy
\* would not give that chunk up.  It may give up the one with the tail
\* (residctl_llama.c:43-49, :204-208, :240-242).
THEOREM ReadsAreFollowed == LlamaSpec => []ReadsFollowTheCursor
<1>1. LayoutInv /\ CursorInv => ReadsFollowTheCursor
  BY CursorInvFollows
<1> QED
  BY <1>1, LayoutInvariance, CursorInvariance, PTL

-----------------------------------------------------------------------------
(* What is declared is what the nodes of an evaluation signal. *)

\* The group of a boundary is that of a tensor, or the header's.
FromTensors(b) ==
  \A m \in 1..Len(b) : b[m].group = GRP_HEADER \/ \E x \in file.tensors : x.group = b[m].group

LEMMA ScanFromTensors ==
  ASSUME file \in Files
  PROVE  FromTensors(Boundaries)
<1> DEFINE S == {i \in 0..(n_tensors - 1) : FromTensors(scan[i + 1].bnd)}
<1>n. n_tensors \in Nat \ {0} /\ n_tensors - 1 \in Nat /\ Len(srt) = n_tensors
  BY SrtIs
<1>1. ASSUME NEW i \in 1..n_tensors
      PROVE  srt[i] \in file.tensors /\ Bound(srt[i]) \in BoundType /\ Bound(srt[i]).group = srt[i].group
  <2>1. srt[i] \in file.tensors /\ srt[i] \in TensorType
    BY TensorFacts
  <2> QED
    BY <2>1, BoundIs
<1>2. 0 \in S
  <2> DEFINE b == FirstRun(srt[1]).bnd
             head == [off |-> 0, group |-> GRP_HEADER]
  <2>1. 1 \in 1..n_tensors /\ scan[0 + 1] = FirstRun(srt[1])
    BY <1>n, ScanIs
  <2>2. b = <<Bound(srt[1])>> \/ b = <<head, Bound(srt[1])>>
    BY DEF FirstRun
  <2>3. FromTensors(b)
    <3>1. Bound(srt[1]).group = srt[1].group /\ srt[1] \in file.tensors /\ head.group = GRP_HEADER
      BY <1>1, <2>1
    <3> HIDE DEF b, head
    <3>2. CASE b = <<Bound(srt[1])>>
      BY <3>1, <3>2 DEF FromTensors
    <3>3. CASE b = <<head, Bound(srt[1])>>
      <4>1. Len(b) = 2 /\ b[1] = head /\ b[2] = Bound(srt[1])
        BY <3>3
      <4> QED
        BY <3>1, <4>1 DEF FromTensors
    <3> QED
      BY <2>2, <3>2, <3>3
  <2> QED
    BY <1>n, <2>1, <2>3
<1>3. ASSUME NEW i \in 0..((n_tensors - 1) - 1), i \in S
      PROVE  i + 1 \in S
  <2> DEFINE m == i + 1
             a == scan[m].bnd
             b == scan[m + 1].bnd
  <2>1. m \in 1..n_tensors /\ m + 1 \in 2..n_tensors /\ m + 1 \in 1..n_tensors /\ (m + 1) - 1 = m
        /\ m \in 0..(n_tensors - 1)
    BY <1>n
  <2>2. FromTensors(a)
    BY <1>3
  <2> HIDE DEF m
  <2>3. scan[m + 1] = NextRun(scan[m], srt[m + 1])
    BY <2>1, ScanIs
  <2>4. b = a \/ b = Append(a, Bound(srt[m + 1]))
    BY <2>3 DEF NextRun
  <2>5. a \in Seq(BoundType)
    BY <2>1, ScanSound DEF BoundsSound
  <2> DEFINE x == srt[m + 1]
  <2>6. Bound(x) \in BoundType /\ x \in file.tensors /\ Bound(x).group = x.group
    BY <1>1, <2>1
  <2> HIDE DEF a, b, x
  <2>7. FromTensors(b)
    <3>1. CASE b = a
      BY <2>2, <3>1
    <3>2. CASE b = Append(a, Bound(x))
      <4>1. Len(b) = Len(a) + 1 /\ Len(a) \in Nat /\ b[Len(a) + 1] = Bound(x) /\ \A k \in 1..Len(a) : b[k] = a[k]
        BY <2>5, <2>6, <3>2
      <4> SUFFICES ASSUME NEW k \in 1..Len(b)
                   PROVE  b[k].group = GRP_HEADER \/ \E y \in file.tensors : y.group = b[k].group
        BY DEF FromTensors
      <4>2. k = Len(a) + 1 \/ k \in 1..Len(a)
        BY <4>1
      <4>3. CASE k = Len(a) + 1
        BY <2>6, <4>1, <4>3
      <4>4. CASE k \in 1..Len(a)
        BY <2>2, <4>1, <4>4 DEF FromTensors
      <4> QED
        BY <4>2, <4>3, <4>4
    <3> QED
      BY <2>4, <3>1, <3>2 DEF x
  <2> QED
    BY <2>1, <2>7 DEF b, m
<1> HIDE DEF S
<1>4. 0..(n_tensors - 1) \subseteq S
  BY <1>n, <1>2, <1>3, IntervalInduction
<1>5. n_tensors - 1 \in S /\ (n_tensors - 1) + 1 = n_tensors
  BY <1>n, <1>4
<1>6. FromTensors(scan[n_tensors].bnd)
  BY <1>5 DEF S
<1> QED
  BY <1>n, <1>6 DEF Boundaries

\* A chunk of a role has a tensor of that role, and so a node of the graph.
LEMMA GroupHasNode ==
  ASSUME file \in Files, NEW c \in Names(Specs), Specs[c + 1].group \in Roles
  PROVE  \E j \in 1..Len(file.graph) : file.graph[j].role = Specs[c + 1].group
<1> DEFINE g == Specs[c + 1].group
<1>1. /\ Len(Specs) \in Nat /\ Len(Specs) = Len(Boundaries)
      /\ \A k \in 1..Len(Specs) : Specs[k].group = Boundaries[k].group
  BY SpecsInARow
<1>2. c + 1 \in 1..Len(Specs)
  BY <1>1 DEF Names
<1>3. g = GRP_HEADER \/ \E x \in file.tensors : x.group = g
  BY <1>1, <1>2, ScanFromTensors DEF FromTensors
<1>4. g # GRP_HEADER /\ g # GRP_OTHER
  BY DEF Roles, Layers, GRP_HEADER, GRP_OTHER, GRP_EMBD, GRP_OUTNORM, GRP_OUTPUT
<1> HIDE DEF g
<1>5. PICK x \in file.tensors : x.group = g
  BY <1>3, <1>4
<1>6. PICK n \in Range(file.graph) : n.role = g
  BY <1>4, <1>5, GraphAssumption
<1>7. file.graph \in Seq(NodeType)
  BY FileFacts
<1>8. PICK j \in 1..Len(file.graph) : file.graph[j] = n
  BY <1>7 DEF Range
<1> QED
  BY <1>6, <1>8 DEF g

LEMMA RangeOfConcat ==
  ASSUME NEW N, NEW a \in Seq(N), NEW b \in Seq(N)
  PROVE  Range(a \o b) \subseteq Range(a) \cup Range(b)
<1> DEFINE s == a \o b
           m == Len(a)
           n == Len(b)
<1>1. m \in Nat /\ n \in Nat /\ DOMAIN a = 1..m /\ DOMAIN b = 1..n
  OBVIOUS
<1>2. Len(s) = m + n /\ s \in Seq(N) /\ \A i \in 1..(m + n) : s[i] = IF i <= m THEN a[i] ELSE b[i - m]
  BY ConcatProperties
<1>3. DOMAIN s = 1..(m + n)
  BY <1>2
<1> HIDE DEF s, m, n
<1>4. ASSUME NEW i \in 1..(m + n) PROVE s[i] \in Range(a) \cup Range(b)
  <2>1. CASE i <= m
    <3>1. i \in 1..m /\ s[i] = a[i]
      BY <1>1, <1>2, <2>1
    <3> QED
      BY <1>1, <3>1 DEF Range
  <2>2. CASE ~ (i <= m)
    <3>1. i - m \in 1..n /\ s[i] = b[i - m]
      BY <1>1, <1>2, <2>2
    <3> QED
      BY <1>1, <3>1 DEF Range
  <2> QED
    BY <2>1, <2>2
<1>5. Range(s) \subseteq Range(a) \cup Range(b)
  BY <1>3, <1>4 DEF Range
<1> QED
  BY <1>5 DEF s

LEMMA FlattenOnly ==
  ASSUME NEW N, NEW n \in Nat \ {0}, NEW qs, Len(qs) = n,
         \A i \in 1..n : qs[i] \in Seq(N), NEW c \in Range(FlattenSeq(qs))
  PROVE  \E i \in 1..n : c \in Range(qs[i])
<1>1. PICK f : Flattens(f, qs, n)
  BY FlattenIs
<1>2. /\ FlattenSeq(qs) = f[n]
      /\ f[1] = qs[1]
      /\ \A i \in 2..n : f[i] = f[i - 1] \o qs[i]
  BY <1>1 DEF Flattens
<1> DEFINE Sound(k) == f[k] \in Seq(N) /\ \A x \in Range(f[k]) : \E i \in 1..k : x \in Range(qs[i])
           S == {k \in 0..(n - 1) : Sound(k + 1)}
<1>n. n - 1 \in Nat
  OBVIOUS
<1>3. 0 \in S
  <2>1. 1 \in 1..n /\ 0 + 1 = 1 /\ 1 \in 1..1
    OBVIOUS
  <2>2. Sound(1)
    BY <1>2, <2>1
  <2> HIDE DEF Sound
  <2> QED
    BY <1>n, <2>1, <2>2
<1>4. ASSUME NEW k \in 0..((n - 1) - 1), k \in S
      PROVE  k + 1 \in S
  <2> DEFINE j == k + 1
  <2>1. j \in Nat /\ j + 1 \in 2..n /\ j + 1 \in 1..n /\ (j + 1) - 1 = j /\ j \in 0..(n - 1)
    OBVIOUS
  <2>2. Sound(j)
    BY <1>4
  <2> HIDE DEF j
  <2>3. f[j] \in Seq(N) /\ qs[j + 1] \in Seq(N) /\ f[j + 1] = f[j] \o qs[j + 1]
    BY <1>2, <2>1, <2>2
  <2>4. f[j + 1] \in Seq(N) /\ Range(f[j + 1]) \subseteq Range(f[j]) \cup Range(qs[j + 1])
    BY <2>3, RangeConcat, RangeOfConcat
  <2>5. ASSUME NEW x \in Range(f[j + 1]) PROVE \E i \in 1..(j + 1) : x \in Range(qs[i])
    <3>1. CASE x \in Range(f[j])
      <4>1. PICK i \in 1..j : x \in Range(qs[i])
        BY <2>2, <3>1
      <4>2. i \in 1..(j + 1)
        BY <2>1
      <4> QED
        BY <4>1, <4>2
    <3>2. CASE x \in Range(qs[j + 1])
      <4>1. j + 1 \in 1..(j + 1)
        BY <2>1
      <4> QED
        BY <3>2, <4>1
    <3> QED
      BY <2>4, <3>1, <3>2
  <2>6. Sound(j + 1)
    BY <2>4, <2>5
  <2> HIDE DEF Sound
  <2> QED
    BY <2>1, <2>6 DEF j
<1> HIDE DEF S
<1>5. 0..(n - 1) \subseteq S
  BY <1>n, <1>3, <1>4, IntervalInduction
<1>6. n - 1 \in S /\ (n - 1) + 1 = n
  BY <1>n, <1>5
<1>7. Sound(n)
  <2> HIDE DEF Sound
  <2> QED
    BY <1>6 DEF S
<1> QED
  BY <1>2, <1>7

LEMMA LayersOnly ==
  ASSUME file \in Files, NEW t, Len(t) \in Nat, NEW c \in Range(LayersInOrder(t))
  PROVE  \E g \in Layers : c \in Range(layer_chunks(t, g))
<1> DEFINE n == n_layers
           qs == [L \in 1..n |-> layer_chunks(t, L - 1)]
<1>1. n \in Nat
  BY LayersAre
<1>2. LayersInOrder(t) = FlattenSeq(qs)
  BY DEF LayersInOrder
<1> HIDE DEF n
<1>3. Len(qs) = n /\ \A i \in 1..n : qs[i] = layer_chunks(t, i - 1)
  BY <1>1
<1>4. n # 0
  <2> SUFFICES ASSUME n = 0 PROVE FALSE
    OBVIOUS
  <2>1. qs = <<>>
    BY <2>1
  <2> HIDE DEF qs
  <2>2. FlattenSeq(qs) = <<>>
    BY <1>3, <2>1 DEF FlattenSeq
  <2> QED
    BY <1>2, <2>2 DEF Range
<1>5. \A i \in 1..n : qs[i] \in Seq(Names(t))
  <2> SUFFICES ASSUME NEW i \in 1..n PROVE layer_chunks(t, i - 1) \in Seq(Names(t))
    BY <1>3
  <2> DEFINE L == i - 1
  <2>1. L \in Int
    BY <1>1
  <2> HIDE DEF L
  <2>2. layer_chunks(t, L) \in Seq(Names(t))
    BY <2>1, LayerIsPiece DEF Piece
  <2> QED
    BY <2>2 DEF L
<1> HIDE DEF qs
<1>6. PICK i \in 1..n : c \in Range(qs[i])
  BY <1>1, <1>2, <1>3, <1>4, <1>5, FlattenOnly
<1>7. i - 1 \in Layers /\ c \in Range(layer_chunks(t, i - 1))
  BY <1>1, <1>3, <1>6 DEF Layers
<1> QED
  BY <1>7

\* What is signalled in an evaluation for the nodes of a role.
RoleSignals(g) == IF g < 0 THEN Existent(RoleChunk(g)) ELSE layer_chunks(specs, g)

\* A layer signals its chunks, each once; another role one chunk at most.
LEMMA RoleSignalsAre ==
  ASSUME file \in Files, specs = Specs, NEW g \in Roles
  PROVE  /\ RoleSignals(g) \in Seq(Existing)
         /\ g \in Layers =>
              /\ \A i \in 1..Len(RoleSignals(g)) : specs[RoleSignals(g)[i] + 1].group = g
              /\ \A i, j \in 1..Len(RoleSignals(g)) : i < j => RoleSignals(g)[i] # RoleSignals(g)[j]
         /\ g \notin Layers =>
              /\ Len(RoleSignals(g)) <= 1
              /\ \A i \in 1..Len(RoleSignals(g)) : specs[RoleSignals(g)[i] + 1].group \notin Layers
<1> DEFINE s == RoleSignals(g)
           c == RoleChunk(g)
           e == chunk_embd(specs)
<1>1. Len(specs) \in Nat /\ Existing = Names(specs)
  BY NamesAreChunks DEF Existing, Names
<1>2. CASE g \in Layers
  <2>1. g \in Int /\ s = layer_chunks(specs, g)
    BY <1>2 DEF Layers, RoleSignals
  <2>2. Piece(s, specs, {g})
    BY <1>1, <2>1, LayerIsPiece
  <2> HIDE DEF s
  <2>3. /\ s \in Seq(Existing) /\ \A i \in 1..Len(s) : specs[s[i] + 1].group = g
        /\ \A i, j \in 1..Len(s) : i < j => s[i] # s[j]
    BY <1>1, <2>2 DEF Piece
  <2> QED
    BY <1>2, <2>3 DEF s
<1>3. CASE g \notin Layers
  <2>1. g \in {GRP_EMBD, GRP_OUTNORM, GRP_OUTPUT} /\ g < 0
    BY <1>3 DEF Roles, GRP_EMBD, GRP_OUTNORM, GRP_OUTPUT
  <2>2. e = NoChunk \/ (e \in Names(specs) /\ specs[e + 1].group = GRP_EMBD)
    BY <1>1, RoleOfGroup DEF chunk_embd, GRP_EMBD
  <2>3. c = e \/ (c \in Names(specs) /\ specs[c + 1].group = g)
    <3>1. CASE g = GRP_EMBD
      BY <3>1 DEF RoleChunk, GRP_EMBD, GRP_OUTNORM, GRP_OUTPUT
    <3>2. CASE g = GRP_OUTNORM
      <4>1. c = LastOr(GroupChunks(specs, g), e)
        BY <3>2 DEF RoleChunk, chunk_outnorm, GRP_EMBD, GRP_OUTNORM, GRP_OUTPUT
      <4> QED
        BY <1>1, <3>2, <4>1, RoleOfGroup DEF GRP_OUTNORM
    <3>3. CASE g = GRP_OUTPUT
      <4>1. c = LastOr(GroupChunks(specs, g), e)
        BY <3>3 DEF RoleChunk, chunk_output, GRP_EMBD, GRP_OUTNORM, GRP_OUTPUT
      <4> QED
        BY <1>1, <3>3, <4>1, RoleOfGroup DEF GRP_OUTPUT
    <3> QED
      BY <2>1, <3>1, <3>2, <3>3
  <2>4. GRP_EMBD \notin Layers
    BY DEF GRP_EMBD, Layers
  <2>5. s = Existent(c)
    BY <2>1 DEF RoleSignals
  <2> HIDE DEF c, e, s
  <2>6. c = NoChunk \/ (c \in Names(specs) /\ specs[c + 1].group \notin Layers)
    BY <1>3, <2>2, <2>3, <2>4
  <2>7. s = <<>> \/ (s = <<c>> /\ c \in Names(specs) /\ specs[c + 1].group \notin Layers)
    BY <2>5, <2>6 DEF Existent
  <2>8. s \in Seq(Existing) /\ Len(s) <= 1 /\ \A i \in 1..Len(s) : specs[s[i] + 1].group \notin Layers
    <3>1. CASE s = <<>>
      BY <3>1
    <3>2. CASE s = <<c>> /\ c \in Names(specs) /\ specs[c + 1].group \notin Layers
      BY <1>1, <3>2
    <3> QED
      BY <2>7, <3>1, <3>2
  <2> QED
    BY <1>3, <2>8 DEF s
<1> QED
  BY <1>2, <1>3

\* The nodes of an evaluation signal the declared chunks and no others.
LEMMA DeclaredAreSignalled ==
  ASSUME file \in Files, specs = Specs
  PROVE  /\ \A d \in Range(DeclaredSeq(specs)) :
              \E j \in 1..Len(file.graph) : d \in Range(RoleSignals(file.graph[j].role))
         /\ \A j \in 1..Len(file.graph) :
              Range(RoleSignals(file.graph[j].role)) \subseteq Range(DeclaredSeq(specs))
<1> DEFINE t == specs
           N == Names(t)
           Once(x, before) == IF x = NoChunk \/ x \in before THEN <<>> ELSE <<x>>
           e == chunk_embd(t)
           n == chunk_outnorm(t)
           o == chunk_output(t)
           E == Once(e, {})
           L == LayersInOrder(t)
           M == Once(n, {e})
           O == Once(o, {e, n})
           P == E \o L
           Q == P \o M
           D == Q \o O
           Node1(g) == \E j \in 1..Len(file.graph) : file.graph[j].role = g
<1>1. DeclaredSeq(t) = D
  BY DEF DeclaredSeq
<1>2. Len(t) \in Nat
  BY NamesAreChunks
<1>3. e = NoChunk \/ (e \in N /\ t[e + 1].group = GRP_EMBD)
  BY <1>2, RoleOfGroup DEF chunk_embd, GRP_EMBD
<1>4. n = e \/ (n \in N /\ t[n + 1].group = GRP_OUTNORM)
  BY <1>2, RoleOfGroup DEF chunk_outnorm, GRP_OUTNORM
<1>5. o = e \/ (o \in N /\ t[o + 1].group = GRP_OUTPUT)
  BY <1>2, RoleOfGroup DEF chunk_output, GRP_OUTPUT
<1>6. L \in Seq(N) /\ \A k \in 0..(n_layers - 1) : Range(layer_chunks(t, k)) \subseteq Range(L)
  BY <1>2, LayersContain
<1>7. /\ RoleSignals(GRP_EMBD) = Existent(e) /\ RoleSignals(GRP_OUTNORM) = Existent(n)
      /\ RoleSignals(GRP_OUTPUT) = Existent(o)
      /\ \A g \in Layers : RoleSignals(g) = layer_chunks(t, g)
  BY DEF RoleSignals, RoleChunk, GRP_EMBD, GRP_OUTNORM, GRP_OUTPUT, Layers
<1>8. \A c \in Range(L) : \E g \in Layers : c \in Range(layer_chunks(t, g))
  BY <1>2, LayersOnly
<1>9. NoChunk \notin N
  BY DEF Names, NoChunk
<1>10. \A c \in N : t[c + 1].group \in Roles => Node1(t[c + 1].group)
  BY GroupHasNode
<1>11. Node1(GRP_EMBD)
  <2>1. file.graph \in Seq(NodeType) /\ file.graph # <<>> /\ file.graph[1].role = GRP_EMBD
    BY FileFacts, GraphAssumption
  <2>2. 1 \in 1..Len(file.graph)
    BY <2>1
  <2> QED
    BY <2>1, <2>2
<1>12. \A j \in 1..Len(file.graph) : file.graph[j].role \in Roles
  BY NodeFacts
<1>13. /\ GRP_EMBD \in Roles /\ GRP_OUTNORM \in Roles /\ GRP_OUTPUT \in Roles /\ Layers \subseteq Roles
       /\ \A g \in Roles : g \in Layers \/ g = GRP_EMBD \/ g = GRP_OUTNORM \/ g = GRP_OUTPUT
  BY DEF Roles
<1>14. \A j \in 1..Len(file.graph) : file.graph[j].role \in Layers => file.graph[j].role \in 0..(n_layers - 1)
  <2> SUFFICES ASSUME NEW j \in 1..Len(file.graph), file.graph[j].role \in Layers
               PROVE  file.graph[j].role \in 0..(n_layers - 1)
    OBVIOUS
  <2>1. file.graph[j] \in Range(file.graph)
    BY NodeFacts
  <2>2. \E x \in file.tensors : x.group = file.graph[j].role
    BY <2>1, FileFacts
  <2>3. n_layers \in Nat /\ \A x \in file.tensors : x.group \in Int /\ x.group < n_layers
    BY LayersAre
  <2> QED
    BY <2>2, <2>3 DEF Layers
<1>15. \A g \in Layers : \A i \in 1..Len(layer_chunks(t, g)) :
         layer_chunks(t, g)[i] \in N /\ t[layer_chunks(t, g)[i] + 1].group = g
  <2> SUFFICES ASSUME NEW g \in Layers, NEW i \in 1..Len(layer_chunks(t, g))
               PROVE  layer_chunks(t, g)[i] \in N /\ t[layer_chunks(t, g)[i] + 1].group = g
    OBVIOUS
  <2>1. Piece(layer_chunks(t, g), t, {g})
    BY <1>2, LayerIsPiece DEF Layers
  <2> QED
    BY <2>1 DEF Piece
<1>16. \A g \in Layers : \A c \in Range(layer_chunks(t, g)) : c \in N /\ t[c + 1].group = g
  <2> SUFFICES ASSUME NEW g \in Layers, NEW c \in Range(layer_chunks(t, g))
               PROVE  c \in N /\ t[c + 1].group = g
    OBVIOUS
  <2>1. layer_chunks(t, g) \in Seq(N)
    BY <1>2, LayerIsPiece DEF Layers, Piece
  <2>2. PICK i \in 1..Len(layer_chunks(t, g)) : layer_chunks(t, g)[i] = c
    BY <2>1 DEF Range
  <2> QED
    BY <1>15, <2>2
<1> HIDE DEF e, n, o, L, t
<1>17. E \in Seq(N) /\ M \in Seq(N) /\ O \in Seq(N)
  BY <1>3, <1>4, <1>5
<1>18. \A x : Range(<<x>>) = {x}
  BY DEF Range
<1>19. Range(<<>>) = {}
  BY DEF Range
<1>20. /\ e # NoChunk => E = <<e>>
       /\ n # NoChunk /\ n # e => M = <<n>>
       /\ o # NoChunk /\ o # e /\ o # n => O = <<o>>
       /\ Range(E) \subseteq {e} \ {NoChunk} /\ Range(M) \subseteq {n} \ {NoChunk, e}
       /\ Range(O) \subseteq {o} \ {NoChunk, e, n}
  BY <1>18, <1>19
<1> HIDE DEF E, M, O, N, Node1
<1>21. P \in Seq(N) /\ Range(P) = Range(E) \cup Range(L)
  BY <1>6, <1>17, RangeConcat, RangeOfConcat
<1> HIDE DEF P
<1>22. Q \in Seq(N) /\ Range(Q) = Range(P) \cup Range(M)
  BY <1>17, <1>21, RangeConcat, RangeOfConcat
<1> HIDE DEF Q
<1>23. Range(D) = Range(Q) \cup Range(O)
  BY <1>17, <1>22, RangeConcat, RangeOfConcat
<1>24. Range(D) = Range(E) \cup Range(L) \cup Range(M) \cup Range(O)
  BY <1>21, <1>22, <1>23
<1> HIDE DEF D
<1>25. \A c : c # NoChunk => Existent(c) = <<c>> /\ c \in Range(Existent(c))
  BY <1>18 DEF Existent
<1>26. \A c : Range(Existent(c)) \subseteq {c} \ {NoChunk}
  BY <1>18, <1>19 DEF Existent
<1>27. ASSUME NEW d \in Range(D)
       PROVE  \E g \in Roles : Node1(g) /\ d \in Range(RoleSignals(g))
  <2>1. CASE d \in Range(E)
    <3>1. d = e /\ e # NoChunk
      BY <1>20, <2>1
    <3> QED
      BY <1>7, <1>11, <1>13, <1>25, <3>1
  <2>2. CASE d \in Range(M)
    <3>1. d = n /\ n # NoChunk /\ n # e
      BY <1>20, <2>2
    <3>2. n \in N /\ t[n + 1].group = GRP_OUTNORM
      BY <1>4, <3>1
    <3>3. Node1(GRP_OUTNORM)
      BY <1>10, <1>13, <3>2
    <3> QED
      BY <1>7, <1>13, <1>25, <3>1, <3>3
  <2>3. CASE d \in Range(O)
    <3>1. d = o /\ o # NoChunk /\ o # e
      BY <1>20, <2>3
    <3>2. o \in N /\ t[o + 1].group = GRP_OUTPUT
      BY <1>5, <3>1
    <3>3. Node1(GRP_OUTPUT)
      BY <1>10, <1>13, <3>2
    <3> QED
      BY <1>7, <1>13, <1>25, <3>1, <3>3
  <2>4. CASE d \in Range(L)
    <3>1. PICK g \in Layers : d \in Range(layer_chunks(t, g))
      BY <1>8, <2>4
    <3>2. d \in N /\ t[d + 1].group = g
      BY <1>16, <3>1
    <3>3. g \in Roles /\ Node1(g)
      BY <1>10, <1>13, <3>2
    <3> QED
      BY <1>7, <3>1, <3>3
  <2> QED
    BY <1>24, <2>1, <2>2, <2>3, <2>4
<1>28. ASSUME NEW j \in 1..Len(file.graph)
       PROVE  Range(RoleSignals(file.graph[j].role)) \subseteq Range(D)
  <2> DEFINE g == file.graph[j].role
  <2>1. g \in Roles /\ (g \in Layers => g \in 0..(n_layers - 1))
    BY <1>12, <1>14
  <2> HIDE DEF g
  <2>2. CASE g \in Layers
    <3>1. Range(RoleSignals(g)) = Range(layer_chunks(t, g))
      BY <1>7, <2>2
    <3> QED
      BY <1>6, <1>24, <2>1, <2>2, <3>1 DEF g
  <2>3. e # NoChunk => e \in Range(D)
    BY <1>18, <1>20, <1>24
  <2>4. n # NoChunk => n \in Range(D)
    BY <1>18, <1>20, <1>24, <2>3
  <2>5. o # NoChunk => o \in Range(D)
    BY <1>18, <1>20, <1>24, <2>3, <2>4
  <2>6. CASE g = GRP_EMBD
    <3>1. Range(RoleSignals(g)) \subseteq {e} \ {NoChunk}
      BY <1>7, <1>26, <2>6
    <3> QED
      BY <2>3, <3>1 DEF g
  <2>7. CASE g = GRP_OUTNORM
    <3>1. Range(RoleSignals(g)) \subseteq {n} \ {NoChunk}
      BY <1>7, <1>26, <2>7
    <3> QED
      BY <2>4, <3>1 DEF g
  <2>8. CASE g = GRP_OUTPUT
    <3>1. Range(RoleSignals(g)) \subseteq {o} \ {NoChunk}
      BY <1>7, <1>26, <2>8
    <3> QED
      BY <2>5, <3>1 DEF g
  <2> QED
    BY <1>13, <2>1, <2>2, <2>6, <2>7, <2>8
<1>29. ASSUME NEW d \in Range(D)
       PROVE  \E j \in 1..Len(file.graph) : d \in Range(RoleSignals(file.graph[j].role))
  <2>1. PICK g \in Roles : Node1(g) /\ d \in Range(RoleSignals(g))
    BY <1>27
  <2>2. PICK j \in 1..Len(file.graph) : file.graph[j].role = g
    BY <2>1 DEF Node1
  <2> QED
    BY <2>1, <2>2
<1> QED
  BY <1>1, <1>28, <1>29 DEF t

-----------------------------------------------------------------------------
(* The audit. *)

Counted == {c \in Chunks : count[c] > 0}

AllKnown == \A n \in Range(file.graph) : n.known

\* The nodes asked about so far in this evaluation; and those with nothing pending.
Asked  == IF stage = "ask" THEN node - 1 ELSE node
Passed == IF stage = "signal" /\ pending = <<>> THEN node ELSE node - 1

HasPassed(g) == \E j \in 1..Passed : file.graph[j].role = g

\* The signals that may be of a chunk that had one already: a tied norm, a tied output.
Repeats == (IF HasPassed(GRP_OUTNORM) THEN 1 ELSE 0) + (IF HasPassed(GRP_OUTPUT) THEN 1 ELSE 0)

PendingOf(role) ==
  /\ Range(pending) \subseteq Range(RoleSignals(role))
  /\ role < 0 => Len(pending) <= 1
  /\ role \notin {GRP_OUTNORM, GRP_OUTPUT} =>
       /\ \A i \in 1..Len(pending) : count[pending[i]] = 0
       /\ \A i, j \in 1..Len(pending) : i < j => pending[i] # pending[j]

\* In the first evaluation, if every node is known: a chunk has had a signal, or has
\* one pending, if and only if a node of its role was asked about, and it had only one.
FirstEvaluation ==
  /\ \A c \in Counted : \E j \in 1..Asked : c \in Range(RoleSignals(file.graph[j].role))
  /\ \A j \in 1..Asked : Range(RoleSignals(file.graph[j].role)) \subseteq Counted \cup Range(pending)
  /\ stage = "signal" => PendingOf(Node.role)
  /\ notify_seq <= Cardinality(Counted) + Repeats
  /\ last_layer = -1 \/ \E j \in 1..Asked : last_layer = file.graph[j].role
  /\ Asked > 0 /\ file.graph[Asked].role \in Layers => last_layer = file.graph[Asked].role

NothingSignalled ==
  /\ node = 1 /\ stage = "ask" /\ token = 0 /\ last_layer = -1
  /\ count = [c \in Chunks |-> 0] /\ notify_seq = 0 /\ audit_done = FALSE

AuditInv ==
  /\ phase = "start" => NothingSignalled
  /\ phase # "start" /\ stage = "ask" => pending = <<>>
  /\ phase = "aborted" => ~ AllKnown
  /\ phase = "up" /\ AllKnown => IF token = 0 THEN FirstEvaluation ELSE AllCounted
  /\ phase = "up" => IF audit_done THEN AllCounted ELSE seq = <<>> \/ notify_seq < 2 * Len(seq)
  /\ phase = "up" /\ EmbeddingSignalled => notify_seq >= token + (IF Passed > 0 THEN 1 ELSE 0)

\* A step that leaves the file and the table alone.
LEMMA SameRoles ==
  ASSUME UNCHANGED <<file, specs>>
  PROVE  /\ \A g : RoleSignals(g)' = RoleSignals(g)
         /\ (AllKnown' <=> AllKnown) /\ (EmbeddingSignalled' <=> EmbeddingSignalled)
<1>1. chunk_embd(specs)' = chunk_embd(specs)
  OBVIOUS
<1>2. \A g : RoleSignals(g)' = RoleSignals(g)
  BY DEF RoleSignals, RoleChunk
<1> QED
  BY <1>1, <1>2 DEF AllKnown, EmbeddingSignalled

\* Roles but the layers have one node; the nodes of a layer follow each other.
LEMMA OneNode ==
  ASSUME file \in Files, NEW j \in 1..Len(file.graph), NEW k \in 1..Len(file.graph), j < k,
         file.graph[j].role = file.graph[k].role
  PROVE  file.graph[k].role \in Layers /\ file.graph[k - 1].role = file.graph[k].role
BY NodeFacts, GraphAssumption

LEMMA FirstIsEmbedding ==
  ASSUME file \in Files
  PROVE  1 \in 1..Len(file.graph) /\ file.graph[1].role = GRP_EMBD
<1>1. file.graph \in Seq(NodeType) /\ file.graph # <<>>
  BY FileFacts
<1> QED
  BY <1>1, GraphAssumption

\* What Ask gives the callback to signal.
LEMMA SignalsAre ==
  ASSUME LayoutInv, phase # "start", Node.known
  PROVE  \/ Signals = RoleSignals(Node.role)
         \/ Signals = <<>> /\ Node.role \in Layers /\ Node.role = last_layer
<1>1. Node.role \in Roles
  BY NodeFacts DEF LayoutInv, TypeOK, Node
<1>2. Node.role < 0 \/ (Node.role \in Layers /\ ~ (Node.role < 0))
  BY <1>1 DEF Roles, Layers, GRP_EMBD, GRP_OUTNORM, GRP_OUTPUT
<1> QED
  BY <1>2 DEF Signals, RoleSignals, Entered

LEMMA AuditInit ==
  LlamaInit => AuditInv
BY DEF LlamaInit, AuditInv, NothingSignalled

LEMMA AuditMmap ==
  ASSUME LayoutInv, AuditInv, Mmap
  PROVE  AuditInv'
<1>1. /\ phase = "start" /\ phase' \in {"up", "refused"}
      /\ UNCHANGED <<file, evalVars, auditVars>> /\ pending = <<>>
  BY DEF Mmap, LayoutInv
<1>2. /\ node' = 1 /\ stage' = "ask" /\ token' = 0 /\ last_layer' = -1
      /\ count' = [c \in Chunks |-> 0] /\ notify_seq' = 0 /\ audit_done' = FALSE /\ pending' = <<>>
  BY <1>1 DEF AuditInv, NothingSignalled, evalVars, auditVars
<1>3. Asked' = 0 /\ Passed' = 0 /\ Counted' = {}
  BY <1>2 DEF Asked, Passed, Counted
<1>4. Cardinality({}) = 0 /\ 1..0 = {}
  BY FS_EmptySet
<1>5. Repeats' = 0
  BY <1>3, <1>4 DEF Repeats, HasPassed
<1>6. FirstEvaluation'
  BY <1>2, <1>3, <1>4, <1>5 DEF FirstEvaluation
<1>7. phase' = "up" => Len(seq') \in Nat /\ (seq' # <<>> => Len(seq') > 0)
  <2>1. LayoutInv'
    BY LayoutMmap
  <2>2. seq' \in Seq(Chunks)
    BY <2>1 DEF LayoutInv, TypeOK, PolicyTypeOK
  <2> QED
    BY <2>2
<1>8. (phase = "up" => IF audit_done THEN AllCounted ELSE seq = <<>> \/ notify_seq < 2 * Len(seq))'
  BY <1>2, <1>7
<1>9. (phase = "up" /\ EmbeddingSignalled => notify_seq >= token + (IF Passed > 0 THEN 1 ELSE 0))'
  BY <1>2, <1>3
<1> QED
  BY <1>1, <1>2, <1>6, <1>8, <1>9 DEF AuditInv

\* No chunk of a role has had a signal before the first node of the role.
LEMMA FreshRole ==
  ASSUME LayoutInv, phase # "start", FirstEvaluation, stage = "ask",
         Node.role \notin {GRP_OUTNORM, GRP_OUTPUT},
         \A j \in 1..(node - 1) : file.graph[j].role # Node.role,
         NEW i \in 1..Len(RoleSignals(Node.role))
  PROVE  count[RoleSignals(Node.role)[i]] = 0
<1> DEFINE g == Node.role
           c == RoleSignals(g)[i]
<1>1. /\ file \in Files /\ specs = Specs /\ node \in 1..Len(file.graph) /\ count \in [Chunks -> Nat]
      /\ Len(specs) \in Nat /\ Existing \subseteq Chunks
  BY NamesAreChunks DEF LayoutInv, TypeOK, Existing, Names
<1>2. g \in Roles /\ Asked = node - 1
  BY <1>1, NodeFacts DEF Node, Asked
<1>3. RoleSignals(g) \in Seq(Existing)
  BY <1>1, <1>2, RoleSignalsAre
<1>4. c \in Chunks /\ count[c] \in Nat
  BY <1>1, <1>3
<1> SUFFICES ASSUME count[c] > 0 PROVE FALSE
  BY <1>4
<1>5. PICK j \in 1..(node - 1) : c \in Range(RoleSignals(file.graph[j].role))
  BY <1>2, <1>4 DEF FirstEvaluation, Counted
<1> DEFINE h == file.graph[j].role
<1>6. j \in 1..Len(file.graph) /\ h # g
  BY <1>1
<1>7. h \in Roles
  BY <1>1, <1>6, NodeFacts
<1>8. g = GRP_EMBD \/ g \in Layers
  BY <1>2 DEF Roles
<1>9. CASE g = GRP_EMBD
  <2>1. 1 \in 1..Len(file.graph) /\ file.graph[1].role = g
    BY <1>1, <1>9, FirstIsEmbedding
  <2>2. 1 \in 1..(node - 1)
    BY <1>1, <1>5
  <2> QED
    BY <2>1, <2>2
<1>10. CASE g \in Layers
  <2> HIDE DEF g, h
  <2>1. specs[c + 1].group = g
    BY <1>1, <1>2, <1>10, RoleSignalsAre DEF g
  <2>2. /\ RoleSignals(h) \in Seq(Existing)
        /\ h \in Layers => \A k \in 1..Len(RoleSignals(h)) : specs[RoleSignals(h)[k] + 1].group = h
        /\ h \notin Layers => \A k \in 1..Len(RoleSignals(h)) : specs[RoleSignals(h)[k] + 1].group \notin Layers
    BY <1>1, <1>7, RoleSignalsAre
  <2>3. PICK k \in 1..Len(RoleSignals(h)) : RoleSignals(h)[k] = c
    BY <1>5, <2>2 DEF Range, h
  <2>4. h \in Layers => specs[c + 1].group = h
    BY <2>2, <2>3
  <2>5. h \notin Layers => specs[c + 1].group \notin Layers
    BY <2>2, <2>3
  <2> QED
    BY <1>6, <1>10, <2>1, <2>4, <2>5
<1> QED
  BY <1>8, <1>9, <1>10

\* The norm or the output may have passed between two states of an evaluation.
LEMMA RepeatsAre ==
  /\ Repeats \in 0..2
  /\ Repeats' \in 0..2
BY DEF Repeats

LEMMA RepeatsGrow ==
  ASSUME file' = file, Passed \in Int, Passed' \in Int, Passed <= Passed'
  PROVE  Repeats <= Repeats'
<1>1. ASSUME NEW g PROVE HasPassed(g) => HasPassed(g)'
  BY DEF HasPassed
<1>2. HasPassed(GRP_OUTNORM) => HasPassed(GRP_OUTNORM)'
  BY <1>1 DEF HasPassed
<1>3. HasPassed(GRP_OUTPUT) => HasPassed(GRP_OUTPUT)'
  BY <1>1 DEF HasPassed
<1> QED
  BY <1>2, <1>3 DEF Repeats

LEMMA AuditAsk ==
  ASSUME LayoutInv, AuditInv, Ask
  PROVE  AuditInv'
<1> DEFINE g == Node.role
<1>1. /\ phase = "up" /\ stage = "ask" /\ stage' = "signal" /\ pending' = Signals
      /\ last_layer' = IF Node.known /\ g >= GRP_EMBD THEN g ELSE last_layer
      /\ UNCHANGED <<file, specs, seq, phase, token, node, count, notify_seq, audit_done>>
  BY DEF Ask, fileVars
<1>2. /\ \A h : RoleSignals(h)' = RoleSignals(h)
      /\ (AllKnown' <=> AllKnown) /\ (EmbeddingSignalled' <=> EmbeddingSignalled)
      /\ Node' = Node /\ Counted' = Counted /\ (AllCounted' <=> AllCounted)
  BY <1>1, SameRoles DEF Node, Counted, AllCounted
<1>3. /\ file \in Files /\ specs = Specs /\ node \in 1..Len(file.graph) /\ Len(file.graph) \in Nat \ {0}
      /\ notify_seq \in Nat /\ token \in Nat
  BY <1>1, NodeFacts DEF LayoutInv, TypeOK
<1>4. g \in Roles /\ Node \in Range(file.graph) /\ Node = file.graph[node]
  BY <1>3, NodeFacts DEF Node
<1>5. Asked = node - 1 /\ Asked' = node /\ Passed = node - 1 /\ Passed' \in {node - 1, node}
  BY <1>1 DEF Asked, Passed
<1>6. pending = <<>>
  BY <1>1 DEF AuditInv
<1>7. g = GRP_EMBD \/ g \in {GRP_OUTNORM, GRP_OUTPUT} \/ g \in Layers
  BY <1>4 DEF Roles
<1>8. Signals \in Seq(Existing) /\ g' = g
  BY <1>1, <1>2, SignalsExist
<1> HIDE DEF g
<1>9. ASSUME AllKnown, token = 0 PROVE FirstEvaluation'
  <2>1. FirstEvaluation
    BY <1>1, <1>9 DEF AuditInv
  <2>2. Node.known
    BY <1>4, <1>9 DEF AllKnown
  <2>3. Signals = RoleSignals(g) \/ (Signals = <<>> /\ g \in Layers /\ g = last_layer)
    BY <1>1, <2>2, SignalsAre DEF g
  <2>4. /\ \A c \in Counted : \E j \in 1..(node - 1) : c \in Range(RoleSignals(file.graph[j].role))
        /\ \A j \in 1..(node - 1) : Range(RoleSignals(file.graph[j].role)) \subseteq Counted
        /\ notify_seq <= Cardinality(Counted) + Repeats
        /\ last_layer = -1 \/ \E j \in 1..(node - 1) : last_layer = file.graph[j].role
        /\ node - 1 > 0 /\ file.graph[node - 1].role \in Layers => last_layer = file.graph[node - 1].role
    <3>1. Range(<<>>) = {}
      BY DEF Range
    <3> QED
      BY <1>5, <1>6, <2>1, <3>1 DEF FirstEvaluation
  <2>5. \A j \in 1..(node - 1) : j \in 1..node
    BY <1>3
  <2>6. \A c \in Counted : \E j \in 1..node : c \in Range(RoleSignals(file.graph[j].role))
    BY <2>4, <2>5
  <2>7. ASSUME NEW j \in 1..node
        PROVE  Range(RoleSignals(file.graph[j].role)) \subseteq Counted \cup Range(Signals)
    <3>1. CASE j \in 1..(node - 1)
      BY <2>4, <3>1
    <3>2. CASE j \notin 1..(node - 1)
      <4>1. j = node /\ file.graph[j].role = g
        BY <1>3, <1>4, <3>2 DEF g
      <4>2. CASE Signals = RoleSignals(g)
        BY <4>1, <4>2
      <4>3. CASE Signals = <<>> /\ g \in Layers /\ g = last_layer
        <5>1. last_layer # -1
          BY <4>3 DEF Layers
        <5>2. PICK k \in 1..(node - 1) : g = file.graph[k].role
          BY <2>4, <4>3, <5>1
        <5> QED
          BY <2>4, <4>1, <5>2
      <4> QED
        BY <2>3, <4>2, <4>3
    <3> QED
      BY <3>1, <3>2
  <2>8. /\ RoleSignals(g) \in Seq(Existing)
        /\ g \in Layers => \A k, l \in 1..Len(RoleSignals(g)) : k < l => RoleSignals(g)[k] # RoleSignals(g)[l]
        /\ g \notin Layers => Len(RoleSignals(g)) <= 1
    BY <1>3, <1>4, RoleSignalsAre
  <2>9. ASSUME Signals = RoleSignals(g), g \notin {GRP_OUTNORM, GRP_OUTPUT}, NEW j \in 1..(node - 1),
               file.graph[j].role = g, RoleSignals(g) # <<>>
        PROVE  g \in Layers /\ g = last_layer
    <3>1. j \in 1..Len(file.graph) /\ j < node /\ file.graph[j].role = file.graph[node].role
      BY <1>3, <1>4, <2>9 DEF g
    <3>2. g \in Layers /\ file.graph[node - 1].role = g
      BY <1>3, <1>4, <3>1, OneNode DEF g
    <3> QED
      BY <1>3, <2>4, <3>2
  <2>10. PendingOf(g)'
    <3>1. CASE Signals = <<>>
      <4>1. Len(pending') = 0 /\ Range(pending') = {}
        BY <1>1, <3>1 DEF Range
      <4> QED
        BY <1>2, <4>1 DEF PendingOf
    <3>2. CASE Signals # <<>>
      <4>1. Signals = RoleSignals(g)
        BY <2>3, <3>2
      <4>2. g < 0 => Len(Signals) <= 1
        <5>1. g < 0 => g \notin Layers
          BY DEF Layers
        <5> QED
          BY <2>8, <4>1, <5>1
      <4>3. ASSUME g \notin {GRP_OUTNORM, GRP_OUTPUT}
            PROVE  \A j \in 1..(node - 1) : file.graph[j].role # g
        <5> SUFFICES ASSUME NEW j \in 1..(node - 1), file.graph[j].role = g PROVE FALSE
          OBVIOUS
        <5>1. g \in Layers /\ g = last_layer
          BY <2>9, <3>2, <4>1, <4>3
        <5>2. ~ (g < 0) /\ ~ Entered(g)
          BY <5>1 DEF Layers, Entered
        <5>3. Signals = <<>>
          BY <2>2, <5>2 DEF Signals, g
        <5> QED
          BY <3>2, <5>3
      <4>4. ASSUME g \notin {GRP_OUTNORM, GRP_OUTPUT}
            PROVE  /\ \A i \in 1..Len(Signals) : count[Signals[i]] = 0
                   /\ \A i, j \in 1..Len(Signals) : i < j => Signals[i] # Signals[j]
        <5>1. \A i \in 1..Len(Signals) : count[Signals[i]] = 0
          BY <1>1, <2>1, <4>1, <4>3, <4>4, FreshRole DEF g
        <5>2. \A i, j \in 1..Len(Signals) : i < j => Signals[i] # Signals[j]
          <6>1. CASE g \in Layers
            BY <2>8, <4>1, <6>1
          <6>2. CASE g \notin Layers
            BY <1>8, <2>8, <4>1, <6>2
          <6> QED
            BY <6>1, <6>2
        <5> QED
          BY <5>1, <5>2
      <4> QED
        BY <1>1, <1>2, <1>8, <4>1, <4>2, <4>4 DEF PendingOf
    <3> QED
      BY <3>1, <3>2
  <2>11. (notify_seq <= Cardinality(Counted) + Repeats)'
    <3>1. Repeats <= Repeats'
      BY <1>1, <1>3, <1>5, RepeatsGrow
    <3>2. Cardinality(Counted) \in Nat
      <4>1. IsFiniteSet(Counted)
        BY ChunksCounted, FS_Subset DEF Counted
      <4> QED
        BY <4>1, FS_CardinalityType
    <3>3. Repeats \in 0..2 /\ Repeats' \in 0..2
      BY RepeatsAre
    <3> QED
      BY <1>1, <1>2, <1>3, <2>4, <3>1, <3>2, <3>3
  <2>12. last_layer' = -1 \/ \E j \in 1..node : last_layer' = file.graph[j].role
    <3>1. CASE last_layer' = last_layer
      BY <2>4, <2>5, <3>1
    <3>2. CASE last_layer' = g
      <4>1. node \in 1..node
        BY <1>3
      <4> QED
        BY <1>4, <3>2, <4>1 DEF g
    <3> QED
      BY <1>1, <3>1, <3>2
  <2>13. file.graph[node].role \in Layers => last_layer' = file.graph[node].role
    <3> SUFFICES ASSUME g \in Layers PROVE last_layer' = g
      BY <1>4 DEF g
    <3>1. g >= GRP_EMBD
      BY DEF Layers, GRP_EMBD
    <3> QED
      BY <1>1, <2>2, <3>1
  <2>14. PendingOf(Node.role)'
    BY <1>2, <2>10 DEF g, PendingOf
  <2> QED
    BY <1>1, <1>2, <1>5, <2>6, <2>7, <2>11, <2>12, <2>13, <2>14 DEF FirstEvaluation
<1>10. ASSUME EmbeddingSignalled PROVE notify_seq >= token + (IF Passed' > 0 THEN 1 ELSE 0)
  <2>1. notify_seq >= token + (IF Passed > 0 THEN 1 ELSE 0)
    BY <1>1, <1>10 DEF AuditInv
  <2>2. CASE node > 1
    BY <1>3, <1>5, <2>1, <2>2
  <2>3. CASE ~ (node > 1)
    <3>1. node = 1 /\ Node.known /\ g = GRP_EMBD
      BY <1>3, <1>4, <1>10, <2>3, FirstIsEmbedding DEF EmbeddingSignalled, g
    <3>2. Signals = Existent(chunk_embd(specs))
      BY <3>1 DEF Signals, RoleChunk, GRP_EMBD, GRP_OUTNORM, GRP_OUTPUT, g
    <3>3. Signals = <<chunk_embd(specs)>>
      BY <1>10, <3>2 DEF Existent, EmbeddingSignalled
    <3>4. pending' # <<>>
      BY <1>1, <3>3
    <3>5. Passed' = 0
      BY <1>1, <3>1, <3>4 DEF Passed
    <3> QED
      BY <1>3, <2>1, <3>5
  <2> QED
    BY <2>2, <2>3
<1> QED
  BY <1>1, <1>2, <1>9, <1>10 DEF AuditInv

LEMMA CountedIsFinite ==
  IsFiniteSet(Counted) /\ Cardinality(Counted) \in Nat
<1>1. IsFiniteSet(Counted)
  BY ChunksCounted, FS_Subset DEF Counted
<1> QED
  BY <1>1, FS_CardinalityType

\* What one signal does in the first evaluation, the audit left aside.
LEMMA FirstNotify ==
  ASSUME LayoutInv, FirstEvaluation, AllKnown, NotifyChunk
  PROVE  FirstEvaluation'
<1> DEFINE c == Head(pending)
           g == Node.role
<1>1. /\ phase = "up" /\ stage = "signal" /\ stage' = "signal" /\ pending # <<>> /\ pending' = Tail(pending)
      /\ notify_seq' = notify_seq + 1 /\ count' = [count EXCEPT ![c] = @ + 1]
      /\ UNCHANGED <<file, specs, seq, token, node, last_layer>>
  BY DEF NotifyChunk, fileVars, evalVars
<1>2. /\ file \in Files /\ node \in 1..Len(file.graph) /\ Len(file.graph) \in Nat \ {0}
      /\ notify_seq \in Nat /\ count \in [Chunks -> Nat] /\ pending \in Seq(Existing) /\ Existing \subseteq Chunks
      /\ specs = Specs
  BY <1>1, NodeFacts, NamesAreChunks DEF LayoutInv, TypeOK, Existing, Names
<1>3. /\ \A h : RoleSignals(h)' = RoleSignals(h)
      /\ Node' = Node /\ g' = g
  BY <1>1, SameRoles DEF Node
<1>4. g \in Roles /\ Node = file.graph[node]
  BY <1>2, NodeFacts DEF Node
<1>5. /\ Len(pending) \in Nat /\ 1 \in 1..Len(pending) /\ c = pending[1] /\ c \in Existing
      /\ Len(pending') = Len(pending) - 1 /\ pending' \in Seq(Existing)
      /\ \A i \in 1..Len(pending') : pending'[i] = pending[i + 1] /\ i + 1 \in 1..Len(pending)
  BY <1>1, <1>2
<1> HIDE DEF c, g
<1>6. c \in Chunks /\ \A x \in Chunks : count'[x] = IF x = c THEN count[x] + 1 ELSE count[x]
  BY <1>1, <1>2, <1>5
<1>7. Counted' = Counted \cup {c}
  BY <1>2, <1>6 DEF Counted
<1>8. Asked = node /\ Asked' = node /\ Passed = node - 1 /\ Passed' \in {node - 1, node}
  BY <1>1 DEF Asked, Passed
<1>9. Range(pending) = {c} \cup Range(pending')
  <2>1. ASSUME NEW i \in 1..Len(pending) PROVE pending[i] \in {c} \cup Range(pending')
    <3>1. CASE i = 1
      BY <1>5, <3>1
    <3>2. CASE i # 1
      <4>1. i - 1 \in 1..Len(pending') /\ (i - 1) + 1 = i
        BY <1>5, <3>2
      <4>2. pending'[i - 1] = pending[i]
        BY <1>5, <4>1
      <4> QED
        BY <1>5, <4>1, <4>2 DEF Range
    <3> QED
      BY <3>1, <3>2
  <2>2. Range(pending) \subseteq {c} \cup Range(pending')
    BY <1>2, <2>1 DEF Range
  <2>d. DOMAIN pending = 1..Len(pending) /\ DOMAIN pending' = 1..Len(pending')
    BY <1>2, <1>5
  <2>3. c \in Range(pending)
    BY <1>5, <2>d DEF Range
  <2>4. Range(pending') \subseteq Range(pending)
    <3> SUFFICES ASSUME NEW i \in 1..Len(pending') PROVE pending'[i] \in Range(pending)
      BY <2>d DEF Range
    <3>1. pending'[i] = pending[i + 1] /\ i + 1 \in 1..Len(pending)
      BY <1>5
    <3> QED
      BY <2>d, <3>1 DEF Range
  <2> QED
    BY <2>2, <2>3, <2>4
<1>10. /\ Range(pending) \subseteq Range(RoleSignals(g))
       /\ g < 0 => Len(pending) <= 1
       /\ g \notin {GRP_OUTNORM, GRP_OUTPUT} =>
            /\ \A i \in 1..Len(pending) : count[pending[i]] = 0
            /\ \A i, j \in 1..Len(pending) : i < j => pending[i] # pending[j]
  BY <1>1 DEF FirstEvaluation, PendingOf, g
<1>11. /\ \A x \in Counted : \E j \in 1..node : x \in Range(RoleSignals(file.graph[j].role))
       /\ \A j \in 1..node : Range(RoleSignals(file.graph[j].role)) \subseteq Counted \cup Range(pending)
       /\ notify_seq <= Cardinality(Counted) + Repeats
       /\ last_layer = -1 \/ \E j \in 1..node : last_layer = file.graph[j].role
       /\ node > 0 /\ file.graph[node].role \in Layers => last_layer = file.graph[node].role
  BY <1>8 DEF FirstEvaluation
<1>12. \A x \in Counted' : \E j \in 1..node : x \in Range(RoleSignals(file.graph[j].role))
  <2> SUFFICES ASSUME NEW x \in Counted' PROVE \E j \in 1..node : x \in Range(RoleSignals(file.graph[j].role))
    OBVIOUS
  <2>1. CASE x \in Counted
    BY <1>11, <2>1
  <2>2. CASE x = c
    <3>1. node \in 1..node /\ file.graph[node].role = g
      BY <1>2, <1>4 DEF g
    <3>2. c \in Range(RoleSignals(g))
      BY <1>9, <1>10
    <3> QED
      BY <2>2, <3>1, <3>2
  <2> QED
    BY <1>7, <2>1, <2>2
<1>13. \A j \in 1..node : Range(RoleSignals(file.graph[j].role)) \subseteq Counted' \cup Range(pending')
  BY <1>7, <1>9, <1>11
<1>14. PendingOf(g)'
  <2>1. Range(pending') \subseteq Range(RoleSignals(g))
    BY <1>9, <1>10
  <2>2. g < 0 => Len(pending') <= 1
    BY <1>5, <1>10
  <2>3. ASSUME g \notin {GRP_OUTNORM, GRP_OUTPUT}
        PROVE  /\ \A i \in 1..Len(pending') : count'[pending'[i]] = 0
               /\ \A i, j \in 1..Len(pending') : i < j => pending'[i] # pending'[j]
    <3>1. ASSUME NEW i \in 1..Len(pending') PROVE count'[pending'[i]] = 0
      <4>1. pending'[i] = pending[i + 1] /\ i + 1 \in 1..Len(pending) /\ 1 < i + 1
        BY <1>5
      <4>2. pending[i + 1] # c /\ count[pending[i + 1]] = 0 /\ pending[i + 1] \in Chunks
        BY <1>2, <1>5, <1>10, <2>3, <4>1
      <4> QED
        BY <1>6, <4>1, <4>2
    <3>2. ASSUME NEW i \in 1..Len(pending'), NEW j \in 1..Len(pending'), i < j
          PROVE  pending'[i] # pending'[j]
      <4>1. /\ pending'[i] = pending[i + 1] /\ i + 1 \in 1..Len(pending)
            /\ pending'[j] = pending[j + 1] /\ j + 1 \in 1..Len(pending) /\ i + 1 < j + 1
        BY <1>5, <3>2
      <4> QED
        BY <1>10, <2>3, <4>1
    <3> QED
      BY <3>1, <3>2
  <2> QED
    BY <1>3, <2>1, <2>2, <2>3 DEF PendingOf
<1>15. (notify_seq <= Cardinality(Counted) + Repeats)'
  <2>1. IsFiniteSet(Counted) /\ Cardinality(Counted) \in Nat
    BY CountedIsFinite
  <2>2. Repeats \in 0..2 /\ Repeats' \in 0..2
    BY RepeatsAre
  <2>3. Repeats <= Repeats'
    BY <1>1, <1>2, <1>8, RepeatsGrow
  <2>4. CASE c \notin Counted
    <3>1. Cardinality(Counted') = Cardinality(Counted) + 1
      BY <1>7, <2>1, <2>4, FS_AddElement
    <3> QED
      BY <1>1, <1>2, <1>11, <2>1, <2>2, <2>3, <3>1
  <2>5. CASE c \in Counted
    <3>1. Counted' = Counted
      BY <1>7, <2>5
    <3>2. count[c] > 0
      BY <2>5 DEF Counted
    <3>3. g \in {GRP_OUTNORM, GRP_OUTPUT}
      <4> SUFFICES ASSUME g \notin {GRP_OUTNORM, GRP_OUTPUT} PROVE FALSE
        OBVIOUS
      <4>1. count[c] = 0
        BY <1>5, <1>10
      <4> QED
        BY <3>2, <4>1
    <3>4. g < 0 /\ g \notin Layers
      BY <3>3 DEF GRP_OUTNORM, GRP_OUTPUT, Layers
    <3>5. pending' = <<>>
      <4>1. Len(pending') = 0
        BY <1>5, <1>10, <3>4
      <4> QED
        BY <1>5, <4>1
    <3>6. Passed' = node
      BY <1>1, <3>5 DEF Passed
    <3>7. ~ HasPassed(g)
      <4> SUFFICES ASSUME NEW j \in 1..(node - 1), file.graph[j].role = g PROVE FALSE
        BY <1>8 DEF HasPassed
      <4>1. j \in 1..Len(file.graph) /\ j < node /\ file.graph[j].role = file.graph[node].role
        BY <1>2, <1>4 DEF g
      <4> QED
        BY <1>2, <1>4, <3>4, <4>1, OneNode DEF g
    <3>8. \E j \in 1..Passed' : file'.graph[j].role = g
      <4>1. node \in 1..node /\ file'.graph[node].role = g
        BY <1>1, <1>2, <1>4 DEF g
      <4> QED
        BY <3>6, <4>1
    <3>9. \A h : HasPassed(h) => \E j \in 1..Passed' : file'.graph[j].role = h
      BY <1>1, <1>2, <1>8 DEF HasPassed
    <3>10. Repeats' >= Repeats + 1
      <4>1. GRP_OUTNORM # GRP_OUTPUT
        BY DEF GRP_OUTNORM, GRP_OUTPUT
      <4>2. /\ HasPassed(GRP_OUTNORM)' <=> \E j \in 1..Passed' : file'.graph[j].role = GRP_OUTNORM
            /\ HasPassed(GRP_OUTPUT)' <=> \E j \in 1..Passed' : file'.graph[j].role = GRP_OUTPUT
        BY DEF HasPassed
      <4>3. CASE g = GRP_OUTNORM
        <5>1. ~ HasPassed(GRP_OUTNORM) /\ HasPassed(GRP_OUTNORM)' /\ (HasPassed(GRP_OUTPUT) => HasPassed(GRP_OUTPUT)')
          BY <3>7, <3>8, <3>9, <4>2, <4>3
        <5> QED
          BY <5>1 DEF Repeats
      <4>4. CASE g = GRP_OUTPUT
        <5>1. ~ HasPassed(GRP_OUTPUT) /\ HasPassed(GRP_OUTPUT)' /\ (HasPassed(GRP_OUTNORM) => HasPassed(GRP_OUTNORM)')
          BY <3>7, <3>8, <3>9, <4>2, <4>4
        <5> QED
          BY <5>1 DEF Repeats
      <4> QED
        BY <3>3, <4>3, <4>4
    <3> QED
      BY <1>1, <1>2, <1>11, <2>1, <2>2, <3>1, <3>10
  <2> QED
    BY <2>4, <2>5
<1>16. PendingOf(Node.role)'
  BY <1>3, <1>14 DEF g, PendingOf
<1> QED
  BY <1>1, <1>3, <1>8, <1>11, <1>12, <1>13, <1>15, <1>16 DEF FirstEvaluation

\* Chunks that were signalled, by no more signals than them and two, and no fewer than
\* two passes give: that is all the declared chunks.
LEMMA NothingMissing ==
  ASSUME LayoutInv, phase # "start", NEW C \in SUBSET Chunks, C # {},
         \A c \in C : \E j \in 1..node : c \in Range(RoleSignals(file.graph[j].role)),
         NEW n \in Nat, n >= 2 * Len(seq), NEW r \in 0..2, n <= Cardinality(C) + r
  PROVE  Range(seq) \subseteq C
<1>1. /\ file \in Files /\ specs = Specs /\ seq = DeclaredSeq(specs) /\ node \in 1..Len(file.graph)
      /\ Len(file.graph) \in Nat
  BY NodeFacts DEF LayoutInv, TypeOK
<1>2. seq \in Seq(Chunks) /\ Len(seq) \in Nat
  BY DEF LayoutInv, TypeOK, PolicyTypeOK
<1>3. C \subseteq Range(seq)
  <2> SUFFICES ASSUME NEW c \in C PROVE c \in Range(seq)
    OBVIOUS
  <2>1. PICK j \in 1..node : c \in Range(RoleSignals(file.graph[j].role))
    OBVIOUS
  <2>2. j \in 1..Len(file.graph)
    BY <1>1
  <2> QED
    BY <1>1, <2>1, <2>2, DeclaredAreSignalled
<1>4. IsFiniteSet(Range(seq)) /\ Cardinality(Range(seq)) <= Len(seq) /\ Cardinality(Range(seq)) \in Nat
  <2>1. IsFiniteSet(1..Len(seq)) /\ Cardinality(1..Len(seq)) = Len(seq)
    <3> DEFINE k == Len(seq)
    <3>1. k \in Nat /\ 1 \in Int /\ k \in Int
      BY <1>2
    <3> HIDE DEF k
    <3>2. IsFiniteSet(1..k) /\ Cardinality(1..k) = IF 1 > k THEN 0 ELSE k - 1 + 1
      BY <3>1, FS_Interval, Zenon
    <3>3. Cardinality(1..k) = k
      BY <3>1, <3>2
    <3> QED
      BY <3>2, <3>3 DEF k
  <2>2. seq \in Surjection(1..Len(seq), Range(seq))
    BY <1>2 DEF Surjection, Range
  <2>3. IsFiniteSet(Range(seq)) /\ Cardinality(Range(seq)) <= Cardinality(1..Len(seq))
    BY <2>1, <2>2, FS_Surjection
  <2> QED
    BY <2>1, <2>3, FS_CardinalityType
<1>5. IsFiniteSet(C) /\ Cardinality(C) \in Nat /\ Cardinality(C) # 0
  BY <1>3, <1>4, FS_Subset, FS_CardinalityType, FS_EmptySet
<1>6. C = Range(seq)
  <2> SUFFICES ASSUME C # Range(seq) PROVE FALSE
    OBVIOUS
  <2>1. /\ Cardinality(C) <= Cardinality(Range(seq))
        /\ Cardinality(Range(seq)) = Cardinality(C) => Range(seq) = C
    BY <1>3, <1>4, FS_Subset
  <2> QED
    BY <1>2, <1>4, <1>5, <2>1
<1> QED
  BY <1>6

LEMMA AuditNotify ==
  ASSUME LayoutInv, AuditInv, NotifyChunk
  PROVE  AuditInv'
<1> DEFINE c == Head(pending)
<1>1. /\ phase = "up" /\ stage = "signal" /\ stage' = "signal" /\ pending # <<>> /\ pending' = Tail(pending)
      /\ notify_seq' = notify_seq + 1 /\ count' = [count EXCEPT ![c] = @ + 1]
      /\ UNCHANGED <<file, specs, seq, token, node, last_layer>>
  BY DEF NotifyChunk, fileVars, evalVars
<1>2. IF ~ audit_done /\ Len(seq) # 0 /\ AuditDue
      THEN /\ audit_done' = TRUE
           /\ phase' = IF Missing({d \in Chunks : count'[d] > 0}) # {} THEN "aborted" ELSE "up"
      ELSE UNCHANGED <<audit_done, phase>>
  BY DEF NotifyChunk
<1>3. /\ (AllKnown' <=> AllKnown) /\ (EmbeddingSignalled' <=> EmbeddingSignalled)
      /\ \A h : RoleSignals(h)' = RoleSignals(h)
  BY <1>1, SameRoles
<1>4. /\ notify_seq \in Nat /\ count \in [Chunks -> Nat] /\ pending \in Seq(Existing) /\ Existing \subseteq Chunks
      /\ seq \in Seq(Chunks) /\ Len(seq) \in Nat /\ token \in Nat /\ node \in Nat /\ node > 0
      /\ audit_done \in BOOLEAN
  BY <1>1, NamesAreChunks DEF LayoutInv, TypeOK, PolicyTypeOK, Existing, Names
<1>5. c \in Chunks
  BY <1>1, <1>4
<1> HIDE DEF c
<1>6. \A x \in Chunks : count'[x] = IF x = c THEN count[x] + 1 ELSE count[x]
  BY <1>1, <1>4, <1>5
<1>7. AllCounted => AllCounted'
  <2>1. Range(seq) \subseteq Chunks
    BY <1>4 DEF Range
  <2> QED
    BY <1>1, <1>4, <1>6, <2>1 DEF AllCounted
<1>8. Counted' = {d \in Chunks : count'[d] > 0} /\ c \in Counted'
  BY <1>4, <1>5, <1>6 DEF Counted
<1>9. LayoutInv'
  BY LayoutNotify
<1>10. AllKnown /\ token = 0 => FirstEvaluation'
  BY <1>1, FirstNotify DEF AuditInv
<1>11. AllKnown /\ token # 0 => AllCounted'
  BY <1>1, <1>7 DEF AuditInv
<1>12. phase' = "aborted" => ~ AllKnown
  <2> SUFFICES ASSUME phase' = "aborted", AllKnown PROVE FALSE
    OBVIOUS
  <2>0. AllKnown /\ phase' # phase
    BY <1>1
  <2>1. notify_seq + 1 >= 2 * Len(seq) /\ Range(seq) \ Counted' # {}
    BY <1>2, <1>8, <2>0 DEF AuditDue, Missing
  <2>2. Range(seq) \subseteq Counted'
    <3>1. CASE token = 0
      <4>1. FirstEvaluation'
        BY <1>10, <2>0, <3>1
      <4>2. /\ \A x \in Counted' : \E j \in 1..node : x \in Range(RoleSignals(file.graph[j].role))
            /\ notify_seq' <= Cardinality(Counted') + Repeats'
        <5>1. Asked' = node /\ file' = file
          BY <1>1 DEF Asked
        <5> QED
          BY <1>3, <4>1, <5>1 DEF FirstEvaluation
      <4>3. Repeats' \in 0..2 /\ notify_seq' \in Nat /\ notify_seq' >= 2 * Len(seq)
        BY <1>1, <1>4, <2>1, RepeatsAre
      <4>4. Counted' \in SUBSET Chunks /\ Counted' # {} /\ phase # "start"
        BY <1>1, <1>8
      <4> QED
        BY <4>2, <4>3, <4>4, NothingMissing
    <3>2. CASE token # 0
      <4>1. AllCounted' /\ Range(seq) \subseteq Chunks
        BY <1>4, <1>11, <2>0, <3>2 DEF Range
      <4> QED
        BY <1>1, <4>1 DEF AllCounted, Counted
    <3> QED
      BY <3>1, <3>2
  <2> QED
    BY <2>1, <2>2
<1>13. phase' = "up" => IF audit_done' THEN AllCounted' ELSE seq' = <<>> \/ notify_seq' < 2 * Len(seq')
  <2> SUFFICES ASSUME phase' = "up"
               PROVE  IF audit_done' THEN AllCounted' ELSE seq' = <<>> \/ notify_seq' < 2 * Len(seq')
    OBVIOUS
  <2>1. CASE ~ audit_done /\ Len(seq) # 0 /\ AuditDue
    <3>1. audit_done' = TRUE /\ Missing(Counted') = {}
      BY <1>2, <1>8, <2>1
    <3>2. \A d \in Range(seq) : d \in Counted'
      BY <3>1 DEF Missing
    <3> QED
      BY <1>1, <1>8, <3>1, <3>2 DEF AllCounted
  <2>2. CASE ~ (~ audit_done /\ Len(seq) # 0 /\ AuditDue)
    <3>1. audit_done' = audit_done
      BY <1>2, <2>2
    <3>2. CASE audit_done
      BY <1>1, <1>7, <3>1, <3>2 DEF AuditInv
    <3>3. CASE ~ audit_done
      <4>1. seq = <<>> \/ ~ AuditDue
        BY <1>4, <2>2, <3>3
      <4> QED
        BY <1>1, <1>4, <3>1, <3>3, <4>1 DEF AuditDue
    <3> QED
      BY <3>2, <3>3
  <2> QED
    BY <2>1, <2>2
<1>14. EmbeddingSignalled => notify_seq' >= token + (IF Passed' > 0 THEN 1 ELSE 0)
  <2> SUFFICES ASSUME EmbeddingSignalled PROVE notify_seq' >= token + (IF Passed' > 0 THEN 1 ELSE 0)
    OBVIOUS
  <2>1. notify_seq >= token
    BY <1>1, <1>4 DEF AuditInv
  <2> QED
    BY <1>1, <1>4, <2>1
<1>15. phase' \in {"up", "aborted"}
  BY <1>1, <1>2
<1> QED
  BY <1>1, <1>3, <1>10, <1>11, <1>12, <1>13, <1>14, <1>15 DEF AuditInv

LEMMA AuditCompute ==
  ASSUME LayoutInv, AuditInv, Compute
  PROVE  AuditInv'
<1>1. /\ phase = "up" /\ stage = "signal" /\ pending = <<>> /\ stage' = "ask"
      /\ UNCHANGED <<file, specs, seq, phase, last_layer, pending, count, notify_seq, audit_done>>
      /\ IF node < Len(file.graph) THEN node' = node + 1 /\ token' = token
                                   ELSE node' = 1 /\ token' = token + 1
  BY DEF Compute, fileVars
<1>2. /\ \A h : RoleSignals(h)' = RoleSignals(h)
      /\ (AllKnown' <=> AllKnown) /\ (EmbeddingSignalled' <=> EmbeddingSignalled)
      /\ Counted' = Counted /\ (AllCounted' <=> AllCounted)
  BY <1>1, SameRoles DEF Counted, AllCounted
<1>3. /\ file \in Files /\ node \in 1..Len(file.graph) /\ Len(file.graph) \in Nat \ {0}
      /\ specs = Specs /\ seq = DeclaredSeq(specs) /\ notify_seq \in Nat /\ token \in Nat
      /\ count \in [Chunks -> Nat] /\ seq \in Seq(Chunks)
  BY <1>1, NodeFacts DEF LayoutInv, TypeOK, PolicyTypeOK
<1>4. Asked = node /\ Passed = node /\ Asked' = node' - 1 /\ Passed' = node' - 1
  BY <1>1 DEF Asked, Passed
<1>5. ASSUME node < Len(file.graph), AllKnown, token = 0 PROVE FirstEvaluation'
  <2>1. FirstEvaluation
    BY <1>1, <1>5 DEF AuditInv
  <2>2. Asked' = Asked /\ Passed' = Passed
    BY <1>1, <1>3, <1>4, <1>5
  <2>3. Repeats' = Repeats
    BY <1>1, <2>2 DEF Repeats, HasPassed
  <2> QED
    BY <1>1, <1>2, <2>1, <2>2, <2>3 DEF FirstEvaluation
<1>6. ASSUME ~ (node < Len(file.graph)), AllKnown PROVE AllCounted
  <2>1. CASE token # 0
    BY <1>1, <1>6, <2>1 DEF AuditInv
  <2>2. CASE token = 0
    <3>1. Asked = Len(file.graph)
      BY <1>3, <1>4, <1>6
    <3>2. Range(pending) = {}
      BY <1>1 DEF Range
    <3>3. \A j \in 1..Len(file.graph) : Range(RoleSignals(file.graph[j].role)) \subseteq Counted
      BY <1>1, <1>6, <2>2, <3>1, <3>2 DEF AuditInv, FirstEvaluation
    <3>4. Range(seq) \subseteq Counted
      BY <1>3, <3>3, DeclaredAreSignalled
    <3> QED
      BY <3>4 DEF AllCounted, Counted
  <2> QED
    BY <2>1, <2>2
<1>7. AllKnown => IF token' = 0 THEN FirstEvaluation' ELSE AllCounted
  <2>1. CASE node < Len(file.graph)
    BY <1>1, <1>5, <2>1 DEF AuditInv
  <2>2. CASE ~ (node < Len(file.graph))
    <3>1. token' # 0
      BY <1>1, <1>3, <2>2
    <3> QED
      BY <1>6, <2>2, <3>1
  <2> QED
    BY <2>1, <2>2
<1>8. EmbeddingSignalled => notify_seq >= token' + (IF Passed' > 0 THEN 1 ELSE 0)
  <2> SUFFICES ASSUME EmbeddingSignalled PROVE notify_seq >= token' + (IF Passed' > 0 THEN 1 ELSE 0)
    OBVIOUS
  <2>1. notify_seq >= token + 1
    BY <1>1, <1>3, <1>4 DEF AuditInv
  <2> QED
    BY <1>1, <1>3, <1>4, <2>1
<1> QED
  BY <1>1, <1>2, <1>7, <1>8 DEF AuditInv

LEMMA AuditStep ==
  LayoutInv /\ AuditInv /\ [LlamaNext]_llamaVars => AuditInv'
<1> SUFFICES ASSUME LayoutInv, AuditInv, [LlamaNext]_llamaVars PROVE AuditInv'
  OBVIOUS
<1>1. CASE LlamaNext
  BY <1>1, AuditMmap, AuditAsk, AuditNotify, AuditCompute DEF LlamaNext
<1>2. CASE UNCHANGED llamaVars
  <2>1. UNCHANGED <<file, specs, seq, phase, token, node, stage, last_layer, pending, count, notify_seq, audit_done>>
    BY <1>2 DEF llamaVars, fileVars, evalVars, auditVars
  <2>2. /\ \A h : RoleSignals(h)' = RoleSignals(h)
        /\ (AllKnown' <=> AllKnown) /\ (EmbeddingSignalled' <=> EmbeddingSignalled)
        /\ Counted' = Counted /\ (AllCounted' <=> AllCounted) /\ Node' = Node
        /\ Asked' = Asked /\ Passed' = Passed
    BY <2>1, SameRoles DEF Counted, AllCounted, Node, Asked, Passed
  <2>3. Repeats' = Repeats
    BY <2>1, <2>2 DEF Repeats, HasPassed
  <2>4. PendingOf(Node.role)' <=> PendingOf(Node.role)
    BY <2>1, <2>2 DEF PendingOf
  <2>5. FirstEvaluation' <=> FirstEvaluation
    BY <2>1, <2>2, <2>3, <2>4 DEF FirstEvaluation
  <2> QED
    BY <2>1, <2>2, <2>5 DEF AuditInv, NothingSignalled
<1> QED
  BY <1>1, <1>2

LEMMA AuditInvFollows ==
  LayoutInv /\ AuditInv => AuditFindsSilence
<1> SUFFICES ASSUME LayoutInv, AuditInv PROVE AuditFindsSilence
  OBVIOUS
<1>1. /\ notify_seq \in Nat /\ token \in Nat /\ seq \in Seq(Chunks) /\ Len(seq) \in Nat
  BY DEF LayoutInv, TypeOK, PolicyTypeOK
<1>2. phase = "aborted" => \E n \in Range(file.graph) : ~ n.known
  BY DEF AuditInv, AllKnown
<1>3. phase = "up" /\ notify_seq >= 2 * Len(seq) => AllCounted
  <2> SUFFICES ASSUME phase = "up", notify_seq >= 2 * Len(seq) PROVE AllCounted
    OBVIOUS
  <2>1. CASE seq = <<>>
    BY <2>1 DEF AllCounted, Range
  <2>2. CASE seq # <<>>
    BY <1>1, <2>2 DEF AuditInv
  <2> QED
    BY <2>1, <2>2
<1>4. phase = "up" /\ EmbeddingSignalled => notify_seq >= token
  BY <1>1 DEF AuditInv
<1> QED
  BY <1>1, <1>2, <1>3, <1>4 DEF AuditFindsSilence

\* Beside the layout: which chunks the callback has signalled in the first
\* evaluation of the graph, and that the number of its signals is bounded by that of the
\* chunks signalled (residctl_llama.c:426-490, wp2_gen.cpp:58-96).
THEOREM AuditInvariance == LlamaSpec => []AuditInv
<1>1. LlamaInit => AuditInv
  BY AuditInit
<1>2. LayoutInv /\ AuditInv /\ [LlamaNext]_llamaVars => AuditInv'
  BY AuditStep
<1> QED
  BY <1>1, <1>2, LayoutInvariance, PTL DEF LlamaSpec

\* For any file and graph: the audit aborts a run only if the callback misses a node; a run
\* that it lets go on has signalled every declared chunk, and it comes to that
\* judgement if the embedding is signalled (residctl_llama.c:426-452).
THEOREM AuditIsSound == LlamaSpec => []AuditFindsSilence
<1>1. LayoutInv /\ AuditInv => AuditFindsSilence
  BY AuditInvFollows
<1> QED
  BY <1>1, LayoutInvariance, AuditInvariance, PTL
=============================================================================

------------------------------ MODULE Policies ------------------------------
(***************************************************************************)
(* The eviction policies: what each learns from faults and consumption     *)
(* signals, how far away it believes the next use of a chunk to be, which  *)
(* chunk it predicts and which it gives up.  The operations are written    *)
(* for the user of a policy to take part in its own actions.               *)
(***************************************************************************)
EXTENDS Integers, Sequences, FiniteSets, FiniteSetsExt

CONSTANTS
  n_chunks,
  Options           \* the option records a run may be started with

Chunks    == 0..(n_chunks - 1)
NoChunk   == -1              \* CHUNK_NONE
INT64_MAX == 2147483647      \* farther than any distance

OptionType ==
  [policy : {"default", "lru", "learned", "declared"},
   protect : BOOLEAN,        \* --protect-current
   pre : BOOLEAN]            \* signal mode 1: signalled before the read

ASSUME PolicyAssumption ==
  /\ n_chunks \in Nat \ {0}
  /\ Options \subseteq OptionType

VARIABLES
  opt,                       \* the options of the run, fixed at the start
  last_fault_seq,
  last_fetched, successor,   \* lo_learned_state_t
  seq, pos                   \* lo_declared_state_t

policyVars == <<opt, last_fault_seq, last_fetched, successor, seq, pos>>

PolicyTypeOK ==
  /\ opt \in Options
  /\ last_fault_seq \in [Chunks -> Nat]
  /\ last_fetched \in Chunks \cup {NoChunk}
  /\ successor \in [Chunks -> Chunks \cup {NoChunk}]
  /\ seq \in Seq(Chunks)
  /\ pos \in -1..(Len(seq) - 1)

PolicyInit ==
  /\ opt \in Options
  /\ last_fault_seq = [c \in Chunks |-> 0]
  /\ last_fetched = NoChunk
  /\ successor = [c \in Chunks |-> NoChunk]
  /\ seq = <<>>
  /\ pos = -1

-----------------------------------------------------------------------------
(* What a policy is told. *)

LinkBack(c) == [successor EXCEPT ![c] = last_fetched]
Link(c) ==
  IF last_fetched = NoChunk THEN successor
  ELSE [successor EXCEPT ![last_fetched] = c]

OnFault(c) ==
  IF opt.policy = "learned"
  THEN successor' = Link(c) /\ last_fetched' = c
  ELSE UNCHANGED <<successor, last_fetched>>

\* The declared sequence, repeated for ever.
At(i) == seq[(i % Len(seq)) + 1]

ScanFrom == pos + 1

OnAccess(c) ==
  LET hops == {k \in 0..(Len(seq) - 1) : At(ScanFrom + k) = c} IN
  pos' = IF hops = {} THEN pos ELSE (ScanFrom + Min(hops)) % Len(seq)

\* policy_declare_sequence: only the declared policy has one.
DeclareSequence(sequence) ==
  IF opt.policy = "declared"
  THEN seq' = sequence /\ pos' = -1
  ELSE UNCHANGED <<seq, pos>>

-----------------------------------------------------------------------------
(* The distance to a chunk's next use. *)

Unknown == INT64_MAX      \* UINT32_MAX, turned into INT64_MAX for the caller

\* The walk along the successors, one hop per element of its domain; it stops
\* where the successor is unknown or has a distance already.
Walk[h \in 0..n_chunks] ==
  IF h = 0 THEN [node |-> last_fetched, dist |-> [c \in Chunks |-> Unknown]]
  ELSE LET w    == Walk[h - 1]
           next == IF w.node = NoChunk THEN NoChunk ELSE successor[w.node] IN
       IF next = NoChunk \/ w.dist[next] # Unknown THEN [w EXCEPT !.node = NoChunk]
       ELSE [node |-> next, dist |-> [w.dist EXCEPT ![next] = h]]

learned_dist == Walk[n_chunks].dist

OriginOne == 1
Origin == IF opt.pre THEN 0 ELSE 1

Protected ==
  IF ~ opt.protect THEN {}
  ELSE LET base == Max({pos, 0}) IN
       {At(base)} \cup (IF base > 0 THEN {At(base - 1)} ELSE {})

declared_dist(x) ==
  LET base == Max({pos, 0})
      uses == {d \in Origin..(Origin + Len(seq) - 1) : At(base + d) = x} IN
  IF uses = {} THEN INT64_MAX ELSE IF x \in Protected THEN 0 ELSE Min(uses)

NextUseDistance(x) ==
  CASE opt.policy = "learned"  -> learned_dist[x]
    [] opt.policy = "declared" -> declared_dist(x)
    [] OTHER                   -> INT64_MAX

-----------------------------------------------------------------------------
(* The victim among the resident, unpinned chunks C: of those that rank      *)
(* highest, the one with the lowest index, as the loops over the table do.   *)

Age(x) == - last_fault_seq[x]

Rank(x) ==
  CASE opt.policy = "lru"     -> Age(x)
    [] opt.policy = "default" -> 0
    [] OTHER                  -> NextUseDistance(x)

Furthest(C) == {x \in C : \A y \in C : Rank(y) <= Rank(x)}

SelectVictim(C) == IF C = {} THEN NoChunk ELSE Min(Furthest(C))

-----------------------------------------------------------------------------
(* The chunk that is expected to follow c. *)

Occurrences(c) == {i \in 1..Len(seq) : seq[i] = c}
NextOfFirst(c) == IF Occurrences(c) = {} THEN NoChunk ELSE At(Min(Occurrences(c)))
NextInSeq(c) == IF Occurrences(c) = {} THEN NoChunk ELSE At(Max(Occurrences(c)))

PredictNext(c) ==
  CASE opt.policy = "learned"  -> successor[c]
    [] opt.policy = "declared" -> NextInSeq(c)
    [] OTHER                   -> NoChunk

=============================================================================

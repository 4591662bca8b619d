------------------------------- MODULE Belady -------------------------------
(***************************************************************************)
(* The offline solver of belady.c and belady_main.c.  It loads the trace   *)
(* that the workload wrote, simulates a cache which gives up the chunk     *)
(* used furthest in the future, found in a max-heap with lazy deletion,    *)
(* and checks the result against a floor before it reports it.             *)
(***************************************************************************)
EXTENDS Optimum

CONSTANTS
  Traces,            \* the traces of a run: [type, ref]
  Capacities         \* budget_bytes \div chunk_size

VARIABLES
  trace, capacity,
  phase,             \* "load", "refs", "evict", "insert", "check", or how it ended
  i,                 \* the reference being simulated
  in_cache,
  current_priority,
  heap,              \* of <<priority, chunk_id>>, an array; stale entries stay in it
  misses

simVars == <<i, in_cache, current_priority, heap, misses>>
vars    == <<trace, capacity, phase, simVars>>

ref == trace.ref
c   == At(ref, i)

Init ==
  /\ trace \in Traces /\ capacity \in Capacities
  /\ phase = "load"
  /\ i = 0 /\ misses = 0
  /\ in_cache = {} /\ heap = <<>>
  /\ current_priority = [k \in Chunks |-> 0]

-----------------------------------------------------------------------------
(* heap_push and heap_pop_max; a node n of the array has its parent at     *)
(* n \div 2 when the array counts from 1.                                   *)

Priority(h, n) == h[n][1]
Swap(h, m, n)  == [h EXCEPT ![m] = h[n], ![n] = h[m]]

\* What the loops change: the array, and the place of the entry that moves.
Sifts(size) == [heap : [1..size -> (0..UINT64_MAX) \X Chunks], at : 1..size]

IsUp(x)    == x.at = 1 \/ Priority(x.heap, x.at \div 2) >= Priority(x.heap, x.at)
MovedUp(x) == [heap |-> Swap(x.heap, x.at \div 2, x.at), at |-> x.at \div 2]

SiftUp(h) ==
  LET up[x \in Sifts(Len(h))] == IF IsUp(x) THEN x.heap ELSE up[MovedUp(x)]
  IN up[[heap |-> h, at |-> Len(h)]]

heap_push(h, priority, k) == SiftUp(Append(h, <<priority, k>>))

Larger(h, m, n) == IF m <= Len(h) /\ Priority(h, m) > Priority(h, n) THEN m ELSE n
Largest(h, n)   == Larger(h, 2 * n + 1, Larger(h, 2 * n, n))

MovedDown(x) == [heap |-> Swap(x.heap, x.at, Largest(x.heap, x.at)), at |-> Largest(x.heap, x.at)]

SiftDown(h) ==
  LET down[x \in Sifts(Len(h))] ==
        IF Largest(x.heap, x.at) = x.at THEN x.heap ELSE down[MovedDown(x)]
  IN down[[heap |-> h, at |-> 1]]

LastToTop(h) == SubSeq([h EXCEPT ![1] = h[Len(h)]], 1, Len(h) - 1)
AfterPop(h) == IF Len(h) = 1 THEN <<>> ELSE SiftDown(LastToTop(h))

-----------------------------------------------------------------------------
(* belady_simulate.  The occurrence lists and their read pointers give the *)
(* position of the next use.                                               *)

Solvable(type)  == type = "reference"

\* Only a trace of the workload has a reference string; an empty one has no result.
LoadReferenceString ==
  /\ phase = "load"
  /\ phase' = IF ~ Solvable(trace.type) THEN "refused" ELSE IF ref = <<>> THEN "nothing" ELSE "refs"
  /\ UNCHANGED <<trace, capacity, simVars>>

next_pos == NextUse(ref, i, c)

\* A push at a hit too: the entry the chunk had is stale now.
PushOnlyIfUsedAgain(h, priority, k) == IF priority = UINT64_MAX THEN h ELSE heap_push(h, priority, k)
Note(h, priority, k) == heap_push(h, priority, k)

Advance ==
  /\ i' = i + 1
  /\ phase' = IF i + 1 = Len(ref) THEN "check" ELSE "refs"

Hit ==
  /\ phase = "refs" /\ c \in in_cache
  /\ current_priority' = [current_priority EXCEPT ![c] = next_pos]
  /\ heap' = Note(heap, next_pos, c)
  /\ Advance
  /\ UNCHANGED <<trace, capacity, in_cache, misses>>

Miss ==
  /\ phase = "refs" /\ c \notin in_cache
  /\ misses' = misses + 1
  /\ phase' = IF Cardinality(in_cache) = capacity THEN "evict" ELSE "insert"
  /\ UNCHANGED <<trace, capacity, i, in_cache, current_priority, heap>>

Live(top) == top[2] \in in_cache /\ current_priority[top[2]] = top[1]

\* One turn of the loop: a live entry names the victim, a stale one is dropped.
PopMax ==
  /\ phase = "evict" /\ heap # <<>>
  /\ heap' = AfterPop(heap)
  /\ IF Live(heap[1]) THEN in_cache' = in_cache \ {heap[1][2]} /\ phase' = "insert"
                      ELSE UNCHANGED <<in_cache, phase>>
  /\ UNCHANGED <<trace, capacity, i, current_priority, misses>>

HeapEmpty ==
  /\ phase = "evict" /\ heap = <<>>
  /\ phase' = "insert"
  /\ UNCHANGED <<trace, capacity, simVars>>

HasRoom == Cardinality(in_cache) < capacity

\* With room for none, every reference is a miss.
Insert ==
  /\ phase = "insert"
  /\ IF HasRoom
     THEN /\ in_cache' = in_cache \cup {c}
          /\ current_priority' = [current_priority EXCEPT ![c] = next_pos]
          /\ heap' = Note(heap, next_pos, c)
     ELSE UNCHANGED <<in_cache, current_priority, heap>>
  /\ Advance
  /\ UNCHANGED <<trace, capacity, misses>>

-----------------------------------------------------------------------------
(* belady_main.c: the floor of a cyclic scan, and naive_belady.            *)

n_candidate == Max({At(ref, j) : j \in Positions(ref)}) + 1
passes      == Len(ref) \div n_candidate

detect_cyclic_scan ==
  /\ Len(ref) % n_candidate = 0
  /\ \A j \in Positions(ref) : At(ref, j) = At(ref, j % n_candidate)
  /\ {At(ref, j) : j \in 0..(n_candidate - 1)} = 0..(n_candidate - 1)

cyclic_floor(n, p, k) == n + (p - 1) * (IF k < n THEN n - k ELSE 0)

CheckCyclicFloor ==
  /\ phase = "check"
  /\ phase' = IF detect_cyclic_scan /\ misses < cyclic_floor(n_candidate, passes, capacity)
              THEN "aborted" ELSE "reported"
  /\ UNCHANGED <<trace, capacity, simVars>>

\* The slot that naive_belady empties, the first of those used furthest away.
Slot(cache, j) ==
  LET dist(k) == NextUse(ref, j, cache[k]) IN
  Min({k \in DOMAIN cache : \A m \in DOMAIN cache : dist(m) <= dist(k)})

naive_belady ==
  LET run[j \in 0..Len(ref)] ==
        IF j = 0 THEN [cache |-> <<>>, misses |-> 0]
        ELSE LET before == run[j - 1]
                 k      == At(ref, j - 1)
                 cache  == before.cache IN
             IF \E s \in DOMAIN cache : cache[s] = k THEN before
             ELSE [cache  |-> IF Len(cache) < capacity THEN Append(cache, k)
                              ELSE [cache EXCEPT ![Slot(cache, j - 1)] = k],
                   misses |-> before.misses + 1]
  IN run[Len(ref)].misses

Next ==
  \/ LoadReferenceString
  \/ Hit \/ Miss \/ PopMax \/ HeapEmpty \/ Insert
  \/ CheckCyclicFloor

Spec == Init /\ [][Next]_vars /\ WF_vars(Next)

-----------------------------------------------------------------------------
TypeOK ==
  /\ phase \in {"load", "refs", "evict", "insert", "check", "refused", "nothing", "aborted", "reported"}
  /\ i \in 0..Len(ref) /\ misses \in 0..Len(ref)
  /\ in_cache \subseteq Chunks /\ Cardinality(in_cache) <= capacity
  /\ current_priority \in [Chunks -> 0..UINT64_MAX]
  /\ Len(heap) <= Len(ref) + 1

\* The array stays a heap through pushes and pops, so its first entry is the
\* furthest use.
HeapOrdered == \A n \in 2..Len(heap) : Priority(heap, n \div 2) >= Priority(heap, n)

\* "Every live cached chunk must always have exactly one live heap entry"
\* (belady.c:99-100), although entries are never removed when they go stale.
OneLiveEntry ==
  \A k \in in_cache : Cardinality({n \in DOMAIN heap : heap[n] = <<current_priority[k], k>>}) = 1

\* A victim is found at once: the entry on top is live whenever one is asked for,
\* and the heap is empty only with room for none.
TopIsVictim == phase = "evict" => IF heap = <<>> THEN capacity = 0 ELSE Live(heap[1])

\* Lazy deletion leaves the heap of a simulation good for the next victim
\* (belady.c:26-53, :99-123, :130).
HeapSound == TypeOK /\ HeapOrdered /\ OneLiveEntry /\ TopIsVictim

\* What is reported is the optimum: no choice of victims has fewer misses.  The
\* naive solver of the self-test is right as well, so that the two agree, and the
\* floor refuses no right result (belady.c:87-133, belady_main.c:89-93, :158-165).
MissesAreMinimal ==
  /\ phase = "reported" => misses = MinMisses(ref, capacity)
  /\ phase = "check" /\ capacity > 0 => naive_belady = MinMisses(ref, capacity)
  /\ phase # "aborted"

\* The bound is computed from a reference string only, never from the misses of
\* a policy (belady_main.c:45-48), and always comes to an end.
EndsFromReferences == <>(phase = IF trace.type # "reference" THEN "refused"
                                 ELSE IF ref = <<>> THEN "nothing" ELSE "reported")

=============================================================================

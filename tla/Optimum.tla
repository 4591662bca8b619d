------------------------------- MODULE Optimum -------------------------------
(***************************************************************************)
(* What a cache simulation is measured against: the fewest misses that any *)
(* choice of victims gives for a reference string.  Positions count from   *)
(* 0, as in the code; a use that never comes is at UINT64_MAX.             *)
(***************************************************************************)
EXTENDS Integers, Sequences, FiniteSets, FiniteSetsExt

CONSTANTS Chunks, UINT64_MAX

At(ref, i)     == ref[i + 1]
Positions(ref) == 0..(Len(ref) - 1)

\* By definition: the first position after i, for the chunk c.
NextUse(ref, i, c) ==
  LET later == {j \in Positions(ref) : j > i /\ At(ref, j) = c} IN
  IF later = {} THEN UINT64_MAX ELSE Min(later)

\* The fewest misses of the last p[1] references, from the cache p[2]; capacity chunks
\* of one size have room.  What was missed is always taken in, since the workload is
\* about to read it, and takes the place of any chunk if the cache is full.
Fewest(ref, capacity) ==
  LET fewest[p \in (0..Len(ref)) \X SUBSET Chunks] ==
        LET left == p[1]
            c    == At(ref, Len(ref) - left) IN
        IF left = 0 THEN 0
        ELSE IF c \in p[2] THEN fewest[<<left - 1, p[2]>>]
        ELSE IF capacity = 0 THEN 1 + fewest[<<left - 1, p[2]>>]
        ELSE IF Cardinality(p[2]) < capacity THEN 1 + fewest[<<left - 1, p[2] \cup {c}>>]
        ELSE 1 + Min({fewest[<<left - 1, (p[2] \ {v}) \cup {c}>>] : v \in p[2]})
  IN fewest

MinMisses(ref, capacity) == Fewest(ref, capacity)[<<Len(ref), {}>>]

=============================================================================

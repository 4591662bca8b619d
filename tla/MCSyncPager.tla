---------------------------- MODULE MCSyncPager -----------------------------
(* Instances of SyncPager for TLC. *)
EXTENDS SyncPagerInvariant

EveryPolicy ==
  [policy : {"default", "lru", "learned"}, protect : {TRUE}, pre : {FALSE}]
    \cup [policy : {"declared"}, protect : BOOLEAN, pre : BOOLEAN]

OneByteEach == [c \in Chunks |-> 1]
LastIsTwo   == [c \in Chunks |-> IF c = n_chunks - 1 THEN 2 ELSE 1]

\* With a budget of 2, chunk 2 needs all of it and chunk 3 never fits.
TooLong     == [c \in Chunks |-> IF c = 0 THEN 1 ELSE c]

Setup(lengths, budget, passes, enabled, pinned, always) ==
  [ChunkLen |-> lengths, budget_bytes |-> budget, n_passes |-> passes, prefetch_enabled |-> enabled,
   prefetch_retention_pinned |-> pinned, prefetch_admission_always |-> always]

\* Chunks of two lengths; no retention; room for one chunk only; no prefetch.
EverySetup ==
  {Setup(LastIsTwo, 3, 3, TRUE, TRUE, always) : always \in BOOLEAN}
    \cup {Setup(OneByteEach, 2, 3, TRUE, FALSE, TRUE), Setup(TooLong, 2, 2, TRUE, TRUE, TRUE),
          Setup(OneByteEach, 1, 2, TRUE, TRUE, FALSE), Setup(LastIsTwo, 2, 2, FALSE, FALSE, FALSE)}

=============================================================================

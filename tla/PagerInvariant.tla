--------------------------- MODULE PagerInvariant ---------------------------
(***************************************************************************)
(* The inductive invariant of Pager, from which its safety properties on   *)
(* locks, pins, eviction and mapping follow; PagerProofs proves it for     *)
(* every instance.                                                         *)
(***************************************************************************)
EXTENDS Pager

\* The steps at which a worker holds no chunk lock.
Unowned == {"idle", "lock", "done", "exited"}

\* The steps of do_one_demand and do_one_prefetch at which the chunk is
\* FETCHING, and those of a demand job that only happen after it is RESIDENT.
Fetching  == {"budget", "evict", "abandon", "resident"} \cup InFlight
ToppingUp == {"topup", "predict", "enqueue"}
Finished  == ToppingUp \cup {"unpin", "unlock"}

\* A step that uses a local variable finds it set.
LocalsSet ==
  /\ \A w \in Workers :
       /\ pc[w] \notin {"idle", "exited"} => chunk[w] \in Chunks
       /\ pc[w] = "evict" => victim[w] \in Chunks
       /\ pc[w] = "enqueue" => cursor[w] \in Chunks
       /\ pc[w] \in {"predict", "enqueue"} => need[w] >= 1
  /\ dpc \in {"handle", "dispatch"} => dchunk \in Chunks
  /\ \A t \in AppThreads : app[t].st = "queued" => app[t].c \in Chunks

\* A chunk lock has the owner that is between its lock and unlock calls.
LocksOwned ==
  /\ \A w \in Workers : pc[w] \notin Unowned => chunkLock[chunk[w]] = w
  /\ dpc = "dispatch" => chunkLock[dchunk] = Dispatcher
  /\ \A c \in Chunks :
       /\ \A w \in Workers :
            chunkLock[c] = w => pc[w] \notin Unowned /\ chunk[w] = c
       /\ chunkLock[c] = Dispatcher => dpc = "dispatch" /\ dchunk = c

\* budget_lock stays with a worker only inside ensure_budget.
BudgetLockOwned ==
  \A w \in Workers :
    /\ pc[w] = "evict" => budgetLock = w
    /\ budgetLock = w => pc[w] \in {"budget", "evict"}

\* What the owner of a chunk lock knows of the chunk's state.
StagesMatch ==
  /\ \A w \in Workers :
       /\ pc[w] = "pin" => job[w] = "prefetch" /\ state[chunk[w]] = "ABSENT"
       /\ pc[w] \in Fetching => state[chunk[w]] = "FETCHING"
       /\ pc[w] \in Finished => state[chunk[w]] = "RESIDENT"
       /\ pc[w] \in ToppingUp => job[w] = "demand"
  /\ dpc = "dispatch" => state[dchunk] = "FETCHING"

\* PinsOwned, and that the two kinds of owner exclude each other.
PinsExact ==
  /\ \A c \in Range(pinned_prefetch_queue) : pin[c] = 1
  /\ \A w \in Workers : HoldsPin(w) =>
       /\ pin[chunk[w]] = 1
       /\ chunk[w] \notin Range(pinned_prefetch_queue)
  /\ \A c \in Chunks \ Range(pinned_prefetch_queue) :
       pin[c] # 0 => \E w \in Workers : chunk[w] = c /\ HoldsPin(w)

\* A chunk is filled, then mapped, then declared RESIDENT.
MappedAhead ==
  \A w \in Workers :
    /\ pc[w] = "continue" => chunk[w] \in populated
    /\ pc[w] \in {"commit", "resident"} => chunk[w] \in mapped

\* The inductive invariant: every local of the threads agrees with what the
\* locks, pins and chunk states say (do_one_demand, do_one_prefetch,
\* ensure_budget, evict_chunk, prefetch_retain_on_resident).
IndInv ==
  /\ TypeOK
  /\ LocalsSet
  /\ LocksOwned
  /\ BudgetLockOwned
  /\ StagesMatch
  /\ PinsExact
  /\ RetentionSound
  /\ EvictionSafe
  /\ MappedAhead
  /\ ResidentIsReadable

=============================================================================

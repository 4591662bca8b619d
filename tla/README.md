# residctl: TLA+ models, checks and proofs

residctl pages a read-only region of weights through userfaultfd under a byte
budget.  The region is cut into chunks; a reader that touches an absent chunk
faults, the pager evicts something, fetches the chunk and lets the reader go on.
This directory holds TLA+ models of that machinery and of the programs around it,
the TLC configurations that check them and the proofs that TLAPS checks.

```
tlc   -workers 2 -config Pager.cfg MCPager
tlapm PagerProofs.tla
```

## 1. Inventory

| component | source | state | operations | modelled |
|---|---|---|---|---|
| dispatcher, watchdog | `pager.c` | the userfaultfd queue, the chunk it handles | `pager_run`, `handle_fault`, `handle_absent_dispatch`, `pager_fetching_watchdog`, `pager_abandon_fetch`, `pager_notify_access` | `Pager` |
| fetch pool | `prefetch_pool.c` | `demand_queue`, `pf_queue`, `pf_tracked`, `pf_outstanding` | `worker_main`, `do_one_demand`, `do_one_prefetch`, `prefetch_pool_top_up`, `..._enqueue_demand`, `..._start`, `..._stop` | `Pager` |
| budget and eviction | `budget.c` | `resident_bytes`, `reserved_bytes`, `chunk_t.pin`, the retention FIFO, `budget_lock` | `ensure_budget`, `ensure_budget_prefetch`, `evict_chunk`, `commit_reserved(_and_pin)`, `prefetch_retain_*`, `pin_break_select_victim`, `reconcile` | `Pager`, `SyncPager` |
| fetch | `fetch.c` | the memfd's pages, `map_a` | `fetch_read`, `fetch_resolve`, `fetch_chunk` | `Pager` (order), `ChunkTable` (bytes) |
| synchronous handler, inline prefetch | `pager.c` `handle_absent`, `prefetch.c` | as the above, one thread | `handle_absent`, `maybe_prefetch` | `SyncPager` |
| region start-up, chunk table | `region.c`, `pager_lookup` | chunk table, budget | `region_startup`, `build_chunk_table(_explicit)`, `compute_budget` | `ChunkTable` |
| policies | `policy.c` | successor table, declared sequence and position | `on_fault`, `on_access`, `declare_sequence`, `predict_next`, `select_victim` | `Policies`, `PolicyUse` |
| replay | `replay.c` | `completed[]`, `notify_count`, the reference trace | `lookahead_*`, `replay_cyclic_mt`, `replay_cyclic` | `Lookahead`, `SyncPager`, `Arms` |
| offline optimum | `belady.c`, `belady_main.c`, `wp2_opt.c` | a cache, a heap, a reference string | MIN by chunks and by bytes, and the checks of the result | `Belady`, `ByteOptimum`, `Optimum` |
| llama.cpp integration | `residctl_llama.c` | tensors, chunk table, declared sequence, signals of a token | table building, `notify_layer`, the callback, the audit | `Llama` |
| traces | `trace.c`, `fetch_trace.c`, `policy_trace.c` | files, the record array | open, reserve, fill, flush, close | `Lifecycle`, header check in `Belady` |
| drivers, teardown | `replay_main.c`, `baseline_main.c`, `region_teardown` | options, threads, counters | set-up, run, refusals, shutdown | `Lifecycle`, `Arms`, `PolicyUse` |
| cgroup reader, benches, tests | the rest | counters, files | - | no decision of the pager reads them |

### Interaction

```
 reader --fault--> userfaultfd --> dispatcher --demand_queue--> workers
   ^                                                            |  |
   +------------------ UFFDIO_CONTINUE / UFFDIO_WAKE -----------+  |
                                                 pf_queue <--top_up+
 replay, llama.cpp callback --pager_notify_access--> retention FIFO, policy position
 reference trace --> belady ; declared pass --> wp2_opt
```

Everything meets in the chunk table and in the budget.  Three kinds of locks
guard them: `pool->lock` for the queues, `budget_lock` for the bytes, the pins,
the FIFO and the policy, and one lock per chunk for its state and its fetch.
The orders conflict on purpose: workers take `budget_lock` while they hold a
chunk lock, and `evict_chunk` waits for a chunk lock while it holds
`budget_lock`.  The source records three deadlocks of that kind and several
liveness bugs, all found on real runs.

### What is hard, and what makes it right

* Workers make room, evict, commit and pin at once; a victim is chosen before
  its lock is held.  Right: the bytes committed and reserved never exceed the
  budget and equal what the states say, the kernel's figure lies where `reconcile`
  expects it, a chosen victim stays evictable, there is no lock cycle.
* Pins change owner (worker, FIFO) and three parties release the FIFO's.
  Right: every pin has one owner, and lack of room is transient.
* A fault on a chunk being fetched is dropped: the fetch promises to wake the
  reader on every exit, and a watchdog takes chunks away.  Right: no fault is
  lost, every fault is answered.
* One thread holds two chunk locks and makes room under them (inline prefetch).
  Right: it never chooses one of the two, undoes everything when it gives up, and
  never displaces what could have stayed.
* A policy summarises a history it sees through faults and signals only.
  Right: its victims and predictions are what the history says.
* Replay threads run ahead of each other.  Right: bounded lookahead, one ordered
  signal per step, termination.
* Tables are built from any sizes, and from tensors in any order.  Right:
  accepted tables tile the region, addresses are found, layers are declared in
  the order of reading.
* Shutdown joins threads with two owners of the pool before it closes three
  traces and frees the table.  Right: nothing is closed under a thread, the
  traces are whole, the run ends.

## 2. Modules

| module | role |
|---|---|
| `Pager` | dispatcher, pool, budget, retention, fetch, watchdog and readers, with the asynchronous handler |
| `PagerInvariant`, `PagerProofs` | the inductive invariant of `Pager`; its proof, the safety theorems, and proofs of the accounts, the promise, the two queues and the faults that wait for them |
| `Residency` | the promise of the pager to its readers, without queues, locks or threads |
| `PagerPromise` | how `Pager` maps to `Residency` |
| `DataProofs` | facts about bytes of sets of chunks, remainders, multiples, least numbers and intervals, for all proofs |
| `Policies`, `PolicyProofs` | the four policies as operators on their state; what a choice of theirs always is |
| `PolicyUse` | a policy driven freely, beside the true history |
| `SyncPager` | the synchronous handler with inline prefetch, composed with `Policies` and `replay_cyclic` |
| `SyncPagerInvariant`, `SyncPagerProofs` | its mapping to `Residency` and its inductive invariant; proofs |
| `Lookahead` | the threads of `replay_cyclic_mt` with their inductive invariant |
| `ChunkTable` | start-up checks, chunk table, lookup, the bytes of a fetch |
| `Llama` | tensors to chunks, declared sequence, signals and audit, composed with `Policies` |
| `PolicyUseProofs` | proofs about the policies in use, in `PolicyUse` and in `Llama` |
| `Optimum` | the least number of misses over all eviction choices |
| `Belady`, `ByteOptimum` | the two solvers, step by step |
| `Solvers` | a run of either solver, and what both promise |
| `ReplayProofs` | proofs about a replay and the optimum it is measured against: `Lookahead` and `Solvers` |
| `Lifecycle`, `LifecycleProofs` | threads, traces, pool and teardown of a run; proofs |
| `Arms` | baseline and replay on the same arguments |
| `ChunkTableProofs` | proofs about pieces of a region: the chunk table, and what `Arms` reads of it |
| `MC*` | instances for TLC: the values of the constants and nothing else |

### Pager

Variables carry the names of the fields.  `chunkLock` and `budgetLock` name the
owner of a lock.  `backoff` is the set of chunks whose `decline_until_ns` is still to
come, `populated` and `mapped` are what the kernel knows of the memfd and of
`map_a`.  `pc`, `job`, `chunk`, `victim`, `tries`, `need` and `cursor` are each
worker's place and locals; `dpc` and `dchunk` the dispatcher's; `app` says what
each reader is doing.  `aborted` is set where the code calls `abort()`.

| worker is at | code | leaves by |
|---|---|---|
| `idle` | `worker_main`'s wait | `PickDemand`, `PickPrefetch`, `Exit` |
| `lock` | waiting for `c->lock` | `LockDemand`, `LockPrefetch` |
| `pin` | a prefetch pins and claims its target | `PinTarget` |
| `budget` | head of the loop of `ensure_budget(_prefetch)` | `Reserve`, `SelectVictim`, `DeclinePrefetch`, `BreakPin`, `Infeasible` |
| `evict` | waiting for the victim's lock, with `budget_lock` | `EvictChunk` |
| `abandon` | no room: reset, wake, unlock | `Abandon` |
| `read`, `continue` | the two halves of `fetch_chunk` | `FetchRead`, `FetchResolve` |
| `commit`, `resident` | `commit_reserved(_and_pin)`, then RESIDENT | `Commit`, `SetResident` |
| `topup`, `predict`, `enqueue` | `prefetch_pool_top_up` | `TopUpNeed`, `Predict`, `EnqueuePrefetch` |
| `unpin`, `unlock`, `done` | the way out | `ReleasePin`, `Unlock`, `Done` |

Granularity.  A section under `pool->lock` is one step, and so is one under
`budget_lock` that waits for nothing.  `budget_lock` is held across steps only in
`ensure_budget`, the one place that waits for another lock under it, and a chunk
lock from `LockDemand`/`LockPrefetch` to `Unlock`/`Abandon`.  A condition variable
is a guard: a worker that finds both queues empty cannot pick.

Left free, and so checked for every choice: which evictable victim the policy
takes, which chunk it predicts, whether admission declines, when a backoff or the
watchdog's timeout expires, and which chunks readers touch.  Left out: I/O errors
(the code aborts), partial reads, statistics, the sleep between retries, and
`fetching_since_ns`, which becomes "any FETCHING chunk may have been FETCHING too
long" (`TimeoutMayFire`).  `reconcile` changes no state of its own: it is a part of
`AccountingExact`, asked of every state instead of every sixteenth fetch.

### Residency

Chunks are claimed, filled, kept and dropped; readers block on what they cannot
read and are released.  It holds the budget, the order of claim, fill and keep,
that nothing becomes unreadable but by an eviction, and that nobody blocks on a
readable chunk.  Both `Pager` and `SyncPager` implement it, by the mappings in
`PagerPromise` and `SyncPagerInvariant`; section 4 has the proofs.

### SyncPager and Policies

`handler` is the one thread's place and locals, `driver` that of `replay_cyclic`.
`HandleFault`, `MakeRoom`, `Fetch`, `Commit`, `Unpin` are `handle_absent`; `Predict`,
`LockBudget`, `MakePrefetchRoom`, `Fetch`, `CommitBytes`, `Retain` are `maybe_prefetch`,
and `PrefetchGivesUp` its early return.  The victims and predictions are those of
`Policies`, where each hook of `policy.c` is an operator: `OnFault`, `OnAccess`,
`DeclareSequence`, `NextUseDistance`, `SelectVictim`, `PredictNext`.  `setup` and
`options`, chosen in Init, let one run cover every command line.

`PolicyUse` keeps what a policy does not: the list of faults, and the pass and
index where the application really is.  Its properties compare the two.

### Lookahead

`step` and `at` are each thread's loop counter and place, `completed` the array of
that name, `sleeping` the threads in `pthread_cond_wait`.  `notified` and `trace` are
the signals and the trace records so far; `all_threads` says which consumption
signal the run has.  A thread sleeps until a broadcast or a spurious return, so
a lost wake-up would show.

### ChunkTable, Llama, the solvers, Lifecycle, Arms

`ChunkTable` runs `region_startup` check by check, then one fault: bisection and fill.
Offsets are bytes modulo `UINT64`, and `UINT32_MAX` is the most chunks a table can count.
A table that was accepted although one of its ends wraps (`Wraps`, section 6) serves no
fault in the model.  `Llama` builds the boundaries of
`residctl_llama.c` from tensors with sizes and offsets, sorted (`srt`), one after the
other (`scan`); its start-up check is that of `ChunkTable` (`Startup`).  Then it
evaluates graphs node by node: `Ask` is the callback before a node, `Compute` its reads.  The solvers
keep the code's arrays, including the heap of `belady.c` with its stale entries;
`Optimum` is the reference, a recursion over all choices of victims, and a behaviour of
`Solvers` is a run of one of the two on one of its inputs.  `Lifecycle` keeps
of a fetch only the order in which it uses the traces, the pool and the table;
`open` is what is neither closed nor freed, `need` the prefetches a top-up may still queue,
and `FlushFails` a flush whose open or write fails.  `Arms` runs the baseline, then the replay,
and keeps the counters each reports.

## 3. Runs

| run | instance | shows |
|---|---|---|
| `pager` | 3 chunks of lengths 1, 1, 2; 2 workers, 1 reader; budget 2, depth 2, one retry; prefetch on, retention pinned, admission guarded | locks, pins, queues and bytes are right in every interleaving; infeasibility is transient; `Pager` implements `Residency` |
| `pager_watchdog` | 2 chunks, 2 readers, budget 1, no retention, no guard, timeouts at any time | a fault dropped as a duplicate is not lost, whoever takes the chunk away |
| `pager_liveness` | 2 chunks, 2 workers, 1 reader, budget 1, depth 1 | every fault is answered; the pool drains and stops |
| `pager_reclaim` | 2 workers, timeouts at any time | a disagreement, section 6 |
| `sync_pager` | 4 chunks; 6 set-ups of lengths, budget, retention and admission; 7 option records | the handler leaks nothing, can always make room, implements `Residency`; prefetches displace nothing they need not; replays finish |
| `policy_use` | 3 chunks, sequences of up to 4, 6 faults, 2 passes, all options | victims and predictions follow the history |
| `lookahead` | 4 threads, window 1, 2 passes of 3 chunks, both signals | window, order of signals and trace, termination |
| `chunk_table` | regions to 8 bytes, pages of 2, arithmetic modulo 16, at most 3 chunks, every chunk size, explicit tables of up to 3, two whose ends wrap, short files | start-up accepts what tiles and refuses the rest; every address is found; a chunk is its bytes of the file |
| `llama` | 6 orders of tensors, split layers, one with more runs than its list has room for, a shared page, sizes 1 to 6, unknown nodes, protection on and off, 16 tokens | the layout, the cursor and the audit |
| `solvers` | every string of up to 6 over 3 chunks, longer ones, capacities 0 to 3; tables of up to 3 lengths, budgets 1 to 4 | the simulations are sound, the result least, the end reached |
| `lifecycle` | 2 workers, 2 faults, 2 prefetches, 1 give-up, a trace for 3 records, all handlers, a flush that may fail | nothing used after it is closed; whole traces; the end |
| `arms` | regions of 4 to 16 bytes, pages of 2, chunk sizes 1 to 9, 1 to 3 threads, 0 to 2 passes, 32-bit numbers modulo 8, with and without hints | both arms read what they say; when they are comparable |

Bounds, and why they are enough.

* Two workers give every pairwise race: a worker evicts while the other commits,
  tops up or abandons; the theorems cover any number.
* A budget of two bytes out of four makes every fetch need an eviction, a pin
  break or a retry, and the chunk of two bytes makes one fetch need two evictions.
  With this budget the FIFO of two does not overflow; `sync_pager`, whose FIFO holds
  one, does so at each retention (`NothingLeaked`), and `PinsAreOwned` is proved for
  every depth.
* `MaxRetry` stands for the 200 retries of `do_one_demand`.  0 and 1 reach both
  the retry and giving up; between retries nothing of the worker changes but the
  count.
* The first wrap of a declared sequence is in the second pass, and three passes
  give the policies a steady state; six faults make each of three chunks fault
  after the others.  `MaxFaults` in `sync_pager` is never reached by a run that
  is right: it bounds the runs that would refault for ever.
* Small moduli bring the overflow within reach: chunk sizes up to `UINT64 - 1`
  round up to 0, and `UINT32` is 8 in `arms`, so that the product of passes and chunks
  wraps (section 6); the properties about a whole replay hold under `EveryStep`.
* In `llama` 16 tokens are twice the longest sequence.  The embedding is signalled
  at every token, so the audit, due after twice as many signals as there are
  declared chunks, has judged by then.
* Pages of two bytes are the smallest that can be filled in part.
* In `llama` a page has four bytes: sizes 5 and 6 give each run a page of its own and an end
  in the next run's, the case of the measured file.
* In `lifecycle` a trace of three records is full, or not, depending on how many
  prefetches are taken: both ends of the run are reached.
* Symmetry is used for safety runs of `Pager` only, over chunks of equal length,
  workers and readers; neither `CHOOSE` nor a constant tells these apart.

Deadlock is checked in `Pager` and `Lookahead`, where stopping is a stuttering step of
its own (`Terminated`).  The other modules describe programs that end, with
`CHECK_DEADLOCK FALSE`, and a liveness property (`ReplayFinishes`, `EndsWithResult`,
`LookupReturns`, `ShutdownEnds`) asks that they come to their end.

### Fairness

* `Pager`: strong fairness of each worker.  Most of its steps wait for a mutex that
  others take and release for ever, and a thread that keeps waiting for a mutex is
  granted it in the end.  The same for the dispatcher; `ReadFault` is strongly fair
  per reader, since the kernel delivers faults in order.  Readers, the watchdog,
  the backoff and the end of the workload are not fair: nothing relies on them.
  `FaultAnswered` says that a faulting reader runs again, not that it finds its chunk:
  between wake and retry the chunk may be evicted.
* `Lookahead`, `SyncPager`, `Lifecycle`: weak fairness of each thread, whose step
  stays enabled until taken.  `Lifecycle` needs its readers to do nothing: they may
  stop faulting at any time, and `EndReplay` waits for the answers only.
* The sequential programs: weak fairness of their next step.

## 4. What is proved

For every number of chunks, workers and readers, any lengths, budget and depth, and
any setting of the flags, under `NamesAssumption` (a free lock and "no chunk" are
no thread and no chunk), `SizesAssumption` (table and pool finite, lengths and depth positive) and
`FlagsAssumption`:

| theorem | property |
|---|---|
| `Invariance` | `IndInv`, the inductive invariant of `Pager` |
| `TypeCorrect` | `TypeOK`; no pin count goes below zero |
| `EvictionIsSafe` | `EvictionSafe` |
| `LocksMakeNoCycle` | `NoLockCycle` |
| `PinsAreOwned` | `PinsOwned` |
| `RetentionIsSound` | `RetentionSound` |
| `ResidencyIsReadable` | `ResidentIsReadable` |
| `BudgetIsRespected` | `BudgetRespected` |

The argument.  None of the properties is inductive alone.  To show that a victim
stays unpinned while `evict_chunk` waits for its lock (`EvictionSafe`) one must know
that whoever could pin or refetch it needs `budget_lock` (`BudgetLockOwned`) or
holds the lock of an ABSENT chunk (`LocksOwned`, `StagesMatch`); that `unpin`s come
from owners that the count includes (`PinsExact`, stronger than `PinsOwned`: the FIFO
and a worker never own the same chunk); that FIFO entries are resident and
distinct (`RetentionSound`).  `NoLockCycle` then follows: a worker that holds a
victim's lock has no pin on it and finds it RESIDENT, which leaves only `unlock`.
`MappedAhead` carries "filled, then mapped, then RESIDENT" across the steps in
between.  Each action has a lemma; the actions that touch the FIFO or the pins
have their effect stated in lemmas on sequences and on pins first
(`FifoWithout`, `FifoAppend` and so on).  `BudgetRespected` is inductive with `TypeOK`
because `Fits` counts the reserved bytes and `CommitReserved` keeps the sum.

About the accounts and the promise, under the same assumptions:

| theorem | property |
|---|---|
| `AccountsAreExact` | `AccountingExact` |
| `PagerKeepsPromise` | `KeepsPromise`: `Pager` implements `Residency` |
| `InfeasibleIsNeverFinal` | `InfeasibleIsTransient`, an action property |

A sum of lengths over a set of chunks is the number of bytes: the k-th byte of
chunk c is the pair `<<c, k>>`, and the library's facts on the cardinality of unions say
what a chunk adds to a set of bytes or takes from it (`ByteCountAdd`,
`ByteCountRemove`).  `Pager` counts those pairs (`BytesOf`); where a model sums
lengths with a fold, `SumIsByteCount` says that the sum is that number.  `AccountsInv` is inductive with `IndInv`:
`resident_bytes` counts the bytes of `Held`, `reserved_bytes` those of `Claimed`, and what
the kernel charges (`populated`) lies between the two.  For the promise each action is one abstract step or
none: `Reserve` claims, `FetchRead` and `FetchResolve` fill and map, `Commit` keeps,
`EvictChunk` drops, `Abandon` and the watchdog give up, a reader's fault blocks it,
and the queue work is a stutter.  The budget of the abstract step is that of the
accounts.  `InfeasibleIsNeverFinal` goes by contradiction: if no other worker is in
flight or holds a pin, nothing is reserved but by the worker itself and every
resident chunk is unpinned, so either one can be evicted or nothing is resident
and the chunk fits.

About the queues, under the same assumptions:

| theorem | property |
|---|---|
| `FaultsAreNotLost` | `NoLostFault`, with or without the watchdog |
| `OutstandingIsExact` | `OutstandingExact`, with or without the watchdog |
| `QueuesAreExact` | `QueuesExact`, if no chunk stays FETCHING past the timeout |

A fetch passes from the dispatcher to the queue to a worker, and is in somebody's
hands as long as its chunk is FETCHING (`FetchesInHands`).  A reader that waits is one
the dispatcher has just read, or waits for a FETCHING chunk whose `UFFDIO_CONTINUE`
is still ahead (`WaitersDue`: past it, `Wake` has released everybody, and a fault
handled later meets the lock or RESIDENT).  Together they give `NoLostFault`; the
watchdog keeps both since it wakes whom it robs.  `DemandInv` adds that the queue and
the workers at `lock` hold different chunks, all FETCHING; then the queue holds each
chunk at most once, and n_chunks + 1 slots are enough.  With the watchdog this fails
(`pager_reclaim`), so the theorem has the premise `~ TimeoutMayFire`.

For the prefetches, `TrackInv` says that each tracked chunk is queued or with one
worker, and `RoomInv` that the prefetches outstanding and those that workers at
`top_up` may still add fit together under a depth per worker: a worker that reads
the room has nothing left to add, so the others account for at most
`Cardinality(Workers) - 1` depths, and it gets what is missing from one.

For the policies, whatever they remember of faults, accesses and declarations:
`VictimIsCandidate` says that `SelectVictim` returns one of the chunks it is offered,
and `NoChunk` only when it is offered none, under `PolicyAssumption`.  The choice is a
least number of a non-empty set (`LeastExists`), and the search of `NextUseDistance` is defined along an
interval (`IntervalInduction`); both come from the library's well-founded induction
for a set, which needs no operator as a parameter.

For the policies in use, for any number of chunks, any mix of faults, any
declared sequences and signals, skipped references included, under
`PolicyAssumption` and `SequencesAssumption`:

| theorem | property |
|---|---|
| `HistoryInvariance` | `HistoryInv` of `PolicyUseProofs` |
| `FaultsRank` | `FaultsRankVictims`, type correctness included |
| `DeclaredGivesUpFurthest` | `DeclaredVictimIsFurthest` |
| `PredictionsHold` | `PredictionsFollow` |

`HistoryInv` says what each variable of a policy sums up: the stamps the last fault of
each chunk (`StampsExact`), the table what followed each chunk the last time
(`SuccessorsExact`), the cursor the number of references consumed, modulo the
sequence (`CursorExact`).  The last holds through a skipped reference because
the forward search of `on_access` stops at the only position that has the
chunk.  In a cyclic scan of n_chunks faults each chunk occurs once (a
surjection between sets of one size is injective), so the table links each to
the next and the walk of `Walk` gives the j-th of the scan the distance j
(`WalkAlongScan`, along an interval).  For a declared sequence, equal remainders give
equal references, so the distances the policy computes from its cursor are the
application's; protection only lowers them.

For the synchronous handler with inline prefetch, for any number of chunks, any
lengths and budgets, every policy and every prediction, with and without retention,
admission and prefetch, under `SetupsAssumption` (positive lengths, budget and passes in
Nat) and `PolicyAssumption`:

| theorem | property |
|---|---|
| `HandlerLeaksNothing` | `NothingLeaked`, type correctness included |
| `HandlerFindsRoom` | `RoomCanBeMade` |
| `HandlerKeepsPromise` | `KeepsPromise`: `SyncPager` implements `Residency` |
| `PrefetchesDisplaceNothing` | `PrefetchDisplacesNothing`, an action property |

The invariant (`Parts`) says, for each place of the handler, which chunk it has
locked, pinned, claimed and reserved (`LocalsSet`, `StagesMatch`), that every other
pin is the one entry of the retention queue (`PinsOwned`, `RetentionSound`; the depth is 1), what is mapped
(`MappedExact`), that the accounts are numbers of bytes as in `Pager` (`AccountsInv`)
and what a message of the kernel in flight says (`MessageHonest`).  Of a policy only
`VictimIsCandidate` is used, so the three theorems hold for any that has this
property.  `DemandNeverInfeasible` then follows by counting: if the handler finds no
room, something is resident; if nothing of that can be evicted, all of it is
pinned; and what is pinned then is in the retention queue, where `BreakVictim` finds
it.  Each action has one lemma, which proves the invariant and
the step of `Residency` together.

`PrefetchesDisplaceNothing` needs to know where the driver is while the handler
prefetches for it.  `OrderInv` says that, with the declared order, the target is the
chunk after the fault's, and that the driver stays at one of these two as long as the target is
not mapped; the first is pinned, the second not mapped, so neither can be
evicted under the driver.  A retained chunk is pinned as well, and a fault breaks
its pin only if it alone is resident, which leaves room for two.

For the replay, for any number of threads, any window, any number of passes and
chunks, and both signals, under `ThreadsAssumption` and `RunAssumption`:

| theorem | property |
|---|---|
| `LookaheadInvariance` | `IndInv` of `Lookahead` |
| `WindowIsBounded` | `LookaheadBounded`: the proof sketched at `replay.c:202-214`, made formal |
| `EachStepSignalledOnce` | `SignalledInOrder`, and the check of `replay.c:386` cannot fail |
| `PositionIsTracked` | `PositionTracksReaders` |
| `TraceIsInOrder` | `TraceFollowsCompletion` |

The key is `CountsExact` (`completed[s]` is the number of threads past `s`) with the
library's facts on finite subsets: a count of `n_threads` means everybody is past
`s` (`FullMeansDone`).  `SignalsExact` says that all complete steps but at most one are
signalled, and that the one is the next to signal: its last thread cannot
finish another step first, so no other step completes.

For the solvers, for any chunks, reference strings, capacities, tables of lengths and
budgets, under `SolversAssumption`: chunks are numbers that a position can have, there
are fewer references than a position counts (`UINT64_MAX` means no further use), and a
table has positive lengths:

| theorem | property |
|---|---|
| `SolversInvariance` | `SolversInv` of `ReplayProofs` |
| `SimulationIsSound` | `SimulationSound` |
| `ResultIsOptimal` | `ResultIsMinimal` |

While an entry moves, the array is a heap but for the place where it is
(`UpToPlace`, `DownToPlace`), and it keeps its entries (`SameEntries`); each turn brings
the entry nearer to an end of the array, so that the loops end (`UpLoopExists`,
`DownLoopExists`).  `HeapInv` says why stale entries do no harm:
an entry is live or of a use that has passed, and what is cached has its next use still
ahead, so a live entry is above every stale one.  For chunks of unequal lengths
`ByteCache` has the bytes resident as a cardinality (`ByteCount`).

That the result is least is an exchange argument.  `Least` is what `Optimum` gives for the
references that are left.  Two full caches that differ in one chunk differ by one
miss at the most, and the one whose chunk is used first is not the worse
(`Exchanges`), by induction from the end of the references to their beginning
(`ExchangeStep`).  So the chunk used furthest in the future is the best to give up
(`FurthestIsBest`), and misses so far plus `Least` never change (`BeladyOptimal`,
`ByteOptimal`); at the end nothing is left to miss.  With chunks of one length a
budget has room for `budget \div len[0]` of them (`RoomFacts`).  `naive_belady` keeps the
same sum (`NaiveIsOptimal`).  For a cyclic scan, `FloorIsBound`
says that each pass misses what it reads and the cache does not hold: all chunks in the
first pass, and in each later one at least those for which there is no room; so
`check_cyclic_floor_or_abort` never aborts a run of this solver.

For the shutdown, for any number of workers, faults and prefetches and every
handler, under `WorkersAssumption` (the handler is no worker, and the workers are
finitely many) and `BoundsAssumption`:

| theorem | property |
|---|---|
| `ShutdownInvariance` | `IndInv` of `LifecycleProofs` |
| `ClosedWhenUnused` | `NothingUsedAfterClose` |
| `TraceInvariance` | `TraceInv` of `LifecycleProofs` |
| `TracesAreWhole` | `TracesWhole`, type correctness included |

`NothingUsedAfterClose` alone says nothing of where main is.  The invariant adds who has been
waited for: main is past its join of the handler only when the handler has left
(`MainWaits`), an asynchronous handler leaves after its workers and the pool is
gone only when all have left (`PoolJoined`), and main closes the first trace after
both.  A thread that has left takes no step (`WorkKeeps`), so what a join
established stays true until the region is cleared.

That the traces are whole is an argument about numbers of threads (`Counts`): what
`fault_seq` is ahead of the file is the number of threads at `log`, what `fetched` is
ahead of the records is the number of threads that owe one, plus the inline
prefetches under way inside a fetch, and `faults.waiting` and `pf_outstanding` are
queues plus threads.  A step moves one thread, so each count changes by what that
thread contributed before and after (`CountMoves`).  Which number is missing from the
file, and which slot is unfilled, is said by `NumbersSound` and `RecordsSound`: its
thread is at `log` or at `fill` with it.  At the end every thread has left (`AllExited`,
from `IndInv`), so nothing is missing.  With a single numbering thread the number
in its hand is above all in the file (`NumbersOrdered`), hence the order.

For start-up and the chunk table, for any region, chunk size, explicit table and file,
any page size and any width of the arithmetic, under `WidthAssumption` (the page
divides the modulus) and `ConfigsAssumption` (what a configuration is; the file has
bytes):

| theorem | property |
|---|---|
| `StartupInvariance` | `StartupInv` of `ChunkTableProofs` |
| `StartupIsSound` | `StartupSound`, type correctness included |
| `FetchIsWhole` | `FetchesWhole` |

A table is a `Chain`: the first piece starts at 0, each starts where the one before
ends, none is empty.  Along an interval, later pieces lie higher (`ChainOrdered`) and
every byte below the end of the last is in one of them (`ChainCovers`); that the
boundaries are multiples of a page keeps two pieces off the same page
(`OtherPage`).  Both constructions give chains: the one from a chunk size
(`CutTiles`) because the quotient is the number of pieces that reach the end
(`PieceCount`), the explicit one because each offset is compared with the end before it
(`AcceptedChain`).  What is accepted is exactly what should be: a chunk size whose
rounding or whose sum with the region wraps gives a size or a count of 0, which is
refused (`Rounded`, `PieceCount`), and a list of pieces that cover each byte once, in
order, satisfies the comparisons of the code (`TilesAccepted`).

The bisection narrows `lo..hi` around the chunk of the address, which exists as the
table covers the region, and on which side it lies follows from the order of the
pieces (`BisectCovers`); so it never ends without one.  A fetch fills the pages from
the chunk's first to its last, which are the chunk's alone, so every chunk is
filled as a whole or not at all (`FetchFillsWhole`).  A file that ends a whole chunk before the
region is left out of that claim and of no other (section 6).

About the two arms of an experiment, for any region, chunk size, number of threads and
passes, any page size and width of the product, and whatever the page cache does, under
`ArmsAssumption` (the command line has a region and a chunk size, and at least one thread):

| theorem | property |
|---|---|
| `ArmsInvariance` | `ArmsInv` of `ChunkTableProofs` |
| `ReplayIsExact` | `ReplayReadsAllOnce`, type correctness included |
| `ArmsAreComparable` | `ArmsComparable` |

The chunks are a row that `CutTiles` has already described, and the strides of the
threads part the pages of a chunk by their remainder, so each page is read
by one thread.  What the threads compute over is a fold over their pages; it is the number
of bytes of these pages (`SumIsByteCount`), disjoint sets of pages add up
(`ByteCountDisjoint`), and along an interval the pages of a chunk hold the chunk's bytes, though the
last of them is cut short.  `ArmsInv` has the counters in the middle of a step: before it, plus
the strides of the threads that are through.  For whole chunks the baseline's
boundaries are the replay's, and its reads of a chunk are the chunk's pages.  That a baseline
without hints is refused only on a stale cache is the part about `io`: a page
comes into the cache by being counted.

About the layout of a model file, for any number of tensors and layers, any sizes and
offsets, under `FilesAssumption`: the tensors are whole, apart and inside the
file, they are fewer than a table counts chunks, the size of the file does not wrap
when it is rounded up, and no node of the graph is of a layer without tensors.

| theorem | property |
|---|---|
| `LayoutInvariance` | `LayoutInv` of `PolicyUseProofs` |
| `LayoutIsSound` | `LayoutSound`, type correctness included |
| `CursorInvariance` | `CursorInv` of `PolicyUseProofs` |
| `ReadsAreFollowed` | `ReadsFollowTheCursor` |

The sorted tensors are ranked by offset, and ranks of different offsets are an injection
into an interval of the same size, hence onto it (`SortedIs`).  Tensor by tensor, the
boundaries rise from page to page and never pass the page of the tensor at hand
(`ScanSound`); so the last chunk, which reaches to the end of the region, is not empty
either, and the table is a row of chunks on pages (`SpecsInARow`).  That is all that
`build_chunk_table_explicit` compares (`SpecsAccepted`); its sums do not wrap since
every end is at most the region's.  The sequence is put together from pieces: chunks
of one group in the order of the file, with no repetition inside a group and none
across groups (`PieceConcat`), layer after layer (`LayersArePiece`), between the chunks
of the roles that have a group of their own (`DeclaredIsPiece`); a tied output
is the embedding's chunk, which is left out.

The two theorems about the cursor assume `GraphAssumption` as well, which is what
`wp2_gen.cpp` relies on: the graph of a token begins with the embedding, evaluates the
nodes of a layer one after the other, and reads for a role its own weights or, if the
file has none, the embedding's.  The property itself is about models whose nodes are
recognised (`NodesKnown`), whose runs are few enough to be declared (`RunsFit`) and begin
each in a page of its own (`RunsApart`); for others it fails, see section 6.  Offsets and
sizes of the tensors are free: the measured file, 32-byte aligned, meets the three, as its
41 chunks are the header and one for each of its 40 runs.  There each run has a boundary,
at its first page, and the next one at the first page of the next run
(`TensorsInTable`).  So a chunk that carries a group's number holds bytes of it
(`OwnIsHolding`) and is declared (`DeclaredContains`), and what the group has elsewhere is the
end of a run, in the first page of the next chunk (`OthersHoldTails`).  Of these ends
the property says nothing, and the protection of the cursor's chunk does not cover them;
section 6 says why that matters.  A node is signalled by chunks of the group that it reads
(`SignalsFollow`), or by nothing, when it is a later node of a layer; then the
node before it was of the same layer.  A signal leaves the cursor
at its chunk wherever the cursor was (`AccessFinds`).  `CursorInv` puts this together:
while signals are pending they are of the group, after the last one the cursor is
among the group's own chunks, and it stays there until the next node is asked about.  With the signal
before the read the chunk at the cursor has distance 0 and every other one more
(`CursorIsNow`), and another one is declared, as a graph reads more than one group;
so the cursor's chunk is no victim.

| theorem | property |
|---|---|
| `AuditInvariance` | `AuditInv` of `PolicyUseProofs` |
| `AuditIsSound` | `AuditFindsSilence` |

The two theorems about the audit are for any file and graph of these assumptions, with or without
unknown nodes, and use three more of them: a role other than a layer has one node,
the nodes of a layer follow each other, and what is stored of a role is evaluated.  The audit is due
after two signals for each declared chunk, whatever they were of.  That it
blames nobody wrongly is an argument about the first evaluation: there each signal is
of a chunk that had none (`FreshRole`, `FirstNotify`), but for an output norm or an output
tied to the embedding, which signals that again.  So there are at most as many signals as
signalled chunks and the embedding's once more; two for each chunk, with one
of them not signalled, would need a sequence of one chunk, and a graph reads more than one group.
After the first evaluation every declared chunk is signalled, if every
node is known: the chunks of a sequence are those of the roles of the graph
(`DeclaredAreSignalled`), each role is asked about and each signal noted.  For the other
direction the count of every declared chunk is positive when the audit has passed
(`NothingMissing`), and with an embedding that is signalled each token adds a signal, so
that after `2 * Len(seq)` of them the audit was due.

## 5. Only model-checked

* Liveness (`FaultAnswered`, `PoolDrains`, `ReplayReturns`, `ReplayFinishes`,
  `LookupReturns`, `EndsWithResult`, `ShutdownEnds`): beyond the prover, as is ENABLED.

Two remarks on what the checks show.  `budget.h:67-71` wants pins changed under
`budget_lock`, and `prefetch.c:46` does it without: `UnlockedPinsArePrivate` (in
`NothingLeaked`) shows why this is harmless.  The handler at depth 1 has no retry
for a fetch without room (`pager.c:87`), and `DemandNeverInfeasible` (in
`RoomCanBeMade`) shows that it needs none.

## 6. Where code and text disagree

One disagreement has a run:

* `pager_reclaim`.  The watchdog reclaims a chunk whose demand job is queued and
  not yet picked up; the worker that picks it up finds it ABSENT and aborts
  (`prefetch_pool.c:65`).  `pager.c:265-267` takes a FETCHING chunk with a free lock
  for an orphan.  The run needs one worker busy for longer than the timeout, 30 s
  by default.

The others were met while modelling.  The models follow the code, and the
properties leave out exactly these cases:

* `region.h:133` says that `prefetch_depth` caps the outstanding prefetches.
  `top_up` reads the room once and fills it later (`prefetch_pool.c:370`), so each
  worker may add a full depth; `OutstandingExact` has the limit that holds.
* `region.h:155` and `pager.c:247-248` say that the dispatcher never waits for a fetch.
  It takes the chunk lock before it looks at the state (`pager.c:240`), and a
  worker holds that lock throughout the read.
* `policy.c:241` takes "no signal yet" for position 0, so under post-consumption
  signals the first chunk of the sequence is the preferred victim before anybody
  has read it.
* `policy.c:256` guards the look-back of `--protect-current` by `base > 0`: after a wrap
  the last chunk of the sequence is not protected.  `DeclaredVictimIsFurthest` is
  about the other positions, and says so for these two.
* `fetch.c:66`: for a chunk that starts after the end of the file the zero fill starts
  at the end of the file, and so populates the chunks in between.
* `region.c:233` adds lengths modulo 2^64, so a table whose end wraps can end at the
  right place, and `build_chunk_table_explicit` accepts it, although
  `region.c:197-199` says it aborts on any violation.  `residctl_llama.c:212-219` builds one
  when the last boundary lies past the end of a truncated file.  `StartupSound` counts such
  tables apart (`Wraps`), and nothing is said of their use.
* `wp2_opt.c:123` multiplies by `len[0]` although chunk 0 need not be in the
  sequence that was found to have equal lengths (`OddChunkZero`).
* `residctl_llama.c:238` and `:388` call the declared sequence the order of consumption,
  and `:240-242` excludes what no token reads.  `:204-208` rounds every boundary down, so a run
  that ends inside a page leaves its end in the first page of the next chunk in the file.
  That end is read with its group and ranked with the other one, is given up while its group is
  read if the other is the furthest, and is never signalled if that chunk is undeclared.
  It is the normal case: in `experiments/logs/overnight__wp2_tensor_inventory.txt`
  layer 1 ends at 534890912, in the chunk of layer 10, which starts at 534888448.
  `ReadsFollowTheCursor` excepts these bytes (`IsTail`), at most a page of a chunk, and no others.
* `residctl_llama.c:207`: a run of tensors that starts in the page of the previous
  boundary gets none of its own, and may lie in a chunk that is never declared.
* `residctl_llama.c:221-223` and `:234`: of several runs of the embedding, the norm or the
  output only the last is declared, and of a layer only the first
  `MAX_CHUNKS_PER_LAYER`, without a message; the other chunks are never signalled (`RunsFit`).
* `residctl_llama.c:466` signals every chunk of a split layer before the layer is
  read, so the first of them is the first victim while it is read.  The measured
  model has a split layer.
* `prefetch_pool.c:205`: numbers of the fault trace are taken and written in two steps
  by several threads, so with prefetches the file is not in their order, which
  `test_trace.c:105` expects (`FaultFileOrdered` holds for one numbering thread).
* `region.c:418-427` frees the table before it clears `n_chunks`, while the SIGUSR1
  handler (`residctl_llama.c:297`) is still installed.
* `fetch_trace.c:60` reports all records as written after a write that failed, too; the
  file then has the first of them (`FlushFails`).
* `baseline_main.c:132` truncates `n_chunks`, so a chunk size that does not divide
  the region leaves a rest unread; `baseline_main.c:150` promises comparable bytes.
* `baseline_main.c:142` takes `io_before` after `MADV_WILLNEED`: read-ahead that covers
  the region makes the arm look as if the page cache had served it.
* `baseline_main.c:196` refuses only runs with bytes touched: with a chunk size above
  the region nothing is read and the run passes.
* `replay.c:349` multiplies in 32 bits; from 2^32 steps on the multi-threaded
  replay reads less than the single-threaded one.  The run `arms` reaches such steps.

Two more places look odd and are right: `belady.c` discards heap entries only when
they surface, and `OneLiveEntry` and `TopIsVictim` show that no stale one is taken
for live.

## 7. Plan

Done: the pager with the asynchronous handler and pool (`Pager`) and with the synchronous
handler and inline prefetch (`SyncPager`), and their promise; of the synchronous handler at a
`prefetch_depth` above 1, which starts a pool for its prefetches, only who owns, stops and
joins that pool, and who writes which trace (`Lifecycle`); the policies, the replay, start-up,
the llama.cpp integration, the solvers, the shutdown and the two arms, with the
proofs of section 4.  What would come next, in this order:

1. A composition of `Pager` with `Lookahead` and the declared policy, where the
   signals move the position from which victims are ranked; the question is
   whether chunks inside the window can be victims.  `PositionIsTracked` and
   `DeclaredGivesUpFurthest` are its two halves.
2. A lower bound for `wp2_opt` with chunks of unequal lengths, for which its greedy rule
   is no optimum and `wp2_opt.c:8-9` claims none.

## 8. Not modelled

* The synchronous handler with a pool (`prefetch_depth` above 1): chunks, bytes and
  locks of that mixture are in neither `Pager` nor `SyncPager`; `Lifecycle` has its shutdown.
* The set-up of userfaultfd, memfd and mappings is a fixed sequence of system calls
  that aborts on failure, and so are the I/O errors of a fetch.
* The cgroup reader parses a text file of the kernel.  The statistics, histograms
  and fields of trace records are data that no decision reads.
* The calibrated compute loop of the replay changes times only.
* Parsing of arguments and manifests, and what is printed.
* The SIGUSR1 dump of the llama.cpp integration only reads; see section 6.
* Benches and tests measure and assert around the modelled code.
* Memory ordering below the mutexes, except that `top_up` reads `state` without the
  chunk lock: there `state` may have changed by the next step.

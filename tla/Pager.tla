------------------------------- MODULE Pager -------------------------------
(***************************************************************************)
(* The asynchronous pager of residctl: one dispatcher thread (pager_run),  *)
(* a pool of fetch workers (prefetch_pool.c) serving a demand queue and a  *)
(* prefetch queue, the byte budget shared by all of them (budget.c), and   *)
(* the application threads whose page faults drive it.                     *)
(*                                                                         *)
(* Granularity.  A section under pool->lock, and a section under           *)
(* budget_lock that waits for nothing, is one step.  budget_lock is held   *)
(* across steps only by a worker inside ensure_budget, the one place that  *)
(* takes a second lock (the victim's) under it.  A chunk lock is held      *)
(* across steps from LockDemand or LockPrefetch to Unlock or Abandon, and  *)
(* by the dispatcher between HandleFault and Dispatch.                     *)
(***************************************************************************)
EXTENDS Integers, Sequences, FiniteSets, Functions

CONSTANTS
  Chunks,            \* the chunk table
  Workers,           \* the fetch workers of the pool
  AppThreads,        \* the threads that read the region through map_a
  Dispatcher,        \* the thread running pager_run
  NoOne,             \* a free lock
  NoChunk,           \* CHUNK_NONE, and "no prediction"
  ChunkLen,          \* bytes of each chunk
  budget_bytes,
  prefetch_depth,    \* also the capacity of the retention FIFO
  MaxRetry,          \* retries of an infeasible demand fetch (200 in the code)
  prefetch_enabled,
  prefetch_retention_pinned,
  AdmissionGuarded,  \* ~prefetch_admission_always, with a policy that ranks
  TimeoutMayFire     \* a chunk may stay FETCHING longer than the timeout

ASSUME NamesAssumption ==
  /\ NoChunk \notin Chunks
  /\ Dispatcher \notin Workers
  /\ NoOne \notin Workers \cup {Dispatcher}

ASSUME SizesAssumption ==
  /\ IsFiniteSet(Chunks) /\ IsFiniteSet(Workers)
  /\ ChunkLen \in [Chunks -> Nat \ {0}]
  /\ budget_bytes \in Nat
  /\ prefetch_depth \in Nat \ {0}
  /\ MaxRetry \in Nat

ASSUME FlagsAssumption ==
  /\ prefetch_enabled \in BOOLEAN
  /\ prefetch_retention_pinned \in BOOLEAN
  /\ AdmissionGuarded \in BOOLEAN
  /\ TimeoutMayFire \in BOOLEAN

VARIABLES
  state,                  \* chunk_t.state
  pin,                    \* chunk_t.pin
  chunkLock,              \* owner of chunk_t.lock
  backoff,                \* chunks whose decline_until_ns is in the future
  populated,              \* chunks whose bytes are in the memfd
  mapped,                 \* chunks mapped in map_a
  budgetLock,             \* owner of budget_lock
  resident_bytes,
  reserved_bytes,
  pinned_prefetch_queue,  \* the retention FIFO
  demand_queue,
  pf_queue,
  pf_tracked,
  pf_outstanding,
  pc,                     \* where each worker is
  job,                    \* which tier the worker's job came from
  chunk,                  \* the chunk a worker serves
  victim,                 \* the chunk a worker is about to evict
  tries,                  \* retries of ensure_budget so far
  need,                   \* prefetches top_up may still enqueue
  cursor,                 \* chunk predicted by the policy, not yet enqueued
  dpc,                    \* where the dispatcher is
  dchunk,                 \* the chunk of the fault it is handling
  app,                    \* application threads
  aborted                 \* one of the code's abort() calls was reached

pageVars   == <<populated, mapped>>
chunkVars  == <<state, pin, backoff, pageVars>>
accounts   == <<resident_bytes, reserved_bytes, pinned_prefetch_queue>>
budgetVars == <<budgetLock, accounts>>
regionVars == <<chunkVars, chunkLock, budgetVars>>
pfVars     == <<pf_queue, pf_tracked, pf_outstanding>>
poolVars   == <<demand_queue, pfVars>>
locals     == <<job, chunk, victim, tries, need, cursor>>
dispVars   == <<dpc, dchunk>>
otherVars  == <<dispVars, app, aborted>>   \* not the workers'
vars == <<regionVars, poolVars, pc, locals, otherVars>>

-----------------------------------------------------------------------------
(* Helpers *)

BudgetFree == budgetLock = NoOne

\* prefetch_retain_release: x, which s holds, is taken out and the tail of the
\* FIFO shifted down.
KeepEntry(s, x) == s
Without(s, x) ==
  LET i == CHOOSE k \in DOMAIN s : s[k] = x
  IN  [j \in 1..(Len(s) - 1) |-> IF j < i THEN s[j] ELSE s[j + 1]]

\* UFFDIO_WAKE, and UFFDIO_CONTINUE's wake: every thread blocked on c runs
\* again, its message withdrawn if the dispatcher has not read it yet.
Wake(c) ==
  app' = [t \in AppThreads |->
            IF app[t].st \in {"queued", "waiting"} /\ app[t].c = c
            THEN [app[t] EXCEPT !.st = "retry"]
            ELSE app[t]]

\* pager_abandon_fetch.
AbandonSilently(c) ==
  state' = [state EXCEPT ![c] = "ABSENT"] /\ UNCHANGED app
AbandonFetch(c) ==
  state' = [state EXCEPT ![c] = "ABSENT"] /\ Wake(c)

Goto(w, label) == pc' = [pc EXCEPT ![w] = label]

\* A worker forgets its job: the locals of do_one_demand and do_one_prefetch
\* go out of scope.
Forget(w) ==
  /\ chunk'  = [chunk EXCEPT ![w] = NoChunk]
  /\ victim' = [victim EXCEPT ![w] = NoChunk]
  /\ tries'  = [tries EXCEPT ![w] = 0]
  /\ need'   = [need EXCEPT ![w] = 0]
  /\ cursor' = [cursor EXCEPT ![w] = NoChunk]
  /\ UNCHANGED job

-----------------------------------------------------------------------------
Idle == [st |-> "idle", c |-> NoChunk]

\* region_startup: build_chunk_table and compute_budget.
RegionInit ==
  /\ state = [c \in Chunks |-> "ABSENT"]
  /\ pin = [c \in Chunks |-> 0]
  /\ chunkLock = [c \in Chunks |-> NoOne]
  /\ backoff = {}
  /\ populated = {}
  /\ mapped = {}
  /\ budgetLock = NoOne
  /\ resident_bytes = 0
  /\ reserved_bytes = 0
  /\ pinned_prefetch_queue = <<>>

\* prefetch_pool_start, at the top of pager_run.
PoolInit ==
  /\ demand_queue = <<>>
  /\ pf_queue = <<>>
  /\ pf_tracked = {}
  /\ pf_outstanding = 0
  /\ pc = [w \in Workers |-> "idle"]
  /\ job = [w \in Workers |-> "demand"]
  /\ chunk = [w \in Workers |-> NoChunk]
  /\ victim = [w \in Workers |-> NoChunk]
  /\ tries = [w \in Workers |-> 0]
  /\ need = [w \in Workers |-> 0]
  /\ cursor = [w \in Workers |-> NoChunk]

Init ==
  /\ RegionInit
  /\ PoolInit
  /\ dpc = "idle"
  /\ dchunk = NoChunk
  /\ app = [t \in AppThreads |-> Idle]
  /\ aborted = FALSE

-----------------------------------------------------------------------------
(* worker_main: strict priority of demand over prefetch. *)

IgnoreQueues == TRUE
QueuesEmpty == demand_queue = <<>> /\ pf_queue = <<>>

PickDemand(w) ==
  /\ pc[w] = "idle"
  /\ demand_queue # <<>>
  /\ demand_queue' = Tail(demand_queue)
  /\ chunk' = [chunk EXCEPT ![w] = Head(demand_queue)]
  /\ job' = [job EXCEPT ![w] = "demand"]
  /\ Goto(w, "lock")
  /\ UNCHANGED <<regionVars, pfVars, victim, tries, need, cursor, otherVars>>

PickPrefetch(w) ==
  /\ pc[w] = "idle"
  /\ demand_queue = <<>>
  /\ pf_queue # <<>>
  /\ pf_queue' = Tail(pf_queue)
  /\ chunk' = [chunk EXCEPT ![w] = Head(pf_queue)]
  /\ job' = [job EXCEPT ![w] = "prefetch"]
  /\ Goto(w, "lock")
  /\ UNCHANGED <<regionVars, demand_queue, pf_tracked, pf_outstanding, victim,
                 tries, need, cursor, otherVars>>

\* prefetch_pool_stop asked the workers to leave; they drain the queues first.
Exit(w) ==
  /\ pc[w] = "idle"
  /\ dpc = "stopped"
  /\ QueuesEmpty
  /\ Goto(w, "exited")
  /\ UNCHANGED <<regionVars, poolVars, locals, otherVars>>

\* The bookkeeping after a prefetch job, whatever became of it.
UntrackOnly(c) ==
  pf_tracked' = pf_tracked \ {c} /\ UNCHANGED pf_outstanding
Untrack(c) ==
  pf_tracked' = pf_tracked \ {c} /\ pf_outstanding' = pf_outstanding - 1

Done(w) ==
  /\ pc[w] = "done"
  /\ Untrack(chunk[w])
  /\ Goto(w, "idle")
  /\ Forget(w)
  /\ UNCHANGED <<regionVars, demand_queue, pf_queue, otherVars>>

-----------------------------------------------------------------------------
(* do_one_demand and do_one_prefetch: entry. *)

LockDemand(w) ==
  LET c == chunk[w] IN
  /\ pc[w] = "lock" /\ job[w] = "demand"
  /\ chunkLock[c] = NoOne
  /\ IF state[c] = "FETCHING"
     THEN /\ chunkLock' = [chunkLock EXCEPT ![c] = w]
          /\ Goto(w, "budget")
          /\ UNCHANGED aborted
     ELSE aborted' = TRUE /\ UNCHANGED <<chunkLock, pc>>
  /\ UNCHANGED <<chunkVars, budgetVars, poolVars, locals, dispVars, app>>

\* A chunk no longer ABSENT is dropped: somebody resolved it since it was queued.
LockPrefetch(w) ==
  LET c == chunk[w] IN
  /\ pc[w] = "lock" /\ job[w] = "prefetch"
  /\ chunkLock[c] = NoOne
  /\ IF state[c] = "ABSENT"
     THEN chunkLock' = [chunkLock EXCEPT ![c] = w] /\ Goto(w, "pin")
     ELSE UNCHANGED chunkLock /\ Goto(w, "done")
  /\ UNCHANGED <<chunkVars, budgetVars, poolVars, locals, otherVars>>

PinTarget(w) ==
  LET c == chunk[w] IN
  /\ pc[w] = "pin"
  /\ BudgetFree
  /\ pin' = [pin EXCEPT ![c] = @ + 1]
  /\ state' = [state EXCEPT ![c] = "FETCHING"]
  /\ Goto(w, "budget")
  /\ UNCHANGED <<backoff, pageVars, chunkLock, budgetVars, poolVars, locals,
                 otherVars>>

-----------------------------------------------------------------------------
(* ensure_budget and ensure_budget_prefetch: one iteration of the loop each. *)

\* The worker is at the head of the loop, with budget_lock or able to take it.
InEnsureBudget(w) == pc[w] = "budget" /\ budgetLock \in {NoOne, w}

FitsResident(c) == resident_bytes + ChunkLen[c] <= budget_bytes
Fits(c) == resident_bytes + reserved_bytes + ChunkLen[c] <= budget_bytes

\* What select_victim may return: every policy skips pinned and non-resident
\* chunks, and returns CHUNK_NONE only when there is no other.
AnyResident == {c \in Chunks : state[c] = "RESIDENT"}
Evictable == {c \in Chunks : state[c] = "RESIDENT" /\ pin[c] = 0}

\* What pin_break_select_victim may return, for a demand fetch.
NeverBreak(w) == {}
Breakable(w) ==
  IF job[w] = "demand" /\ prefetch_retention_pinned
  THEN {c \in Range(pinned_prefetch_queue) : state[c] = "RESIDENT"}
  ELSE {}

\* fetch_chunk: every byte is read before the chunk is mapped.
MapFirst == <<"continue", "read">>
FetchOrder == <<"read", "continue">>

After(step) == IF step = FetchOrder[1] THEN FetchOrder[2] ELSE "commit"

Reserve(w) ==
  /\ InEnsureBudget(w)
  /\ Fits(chunk[w])
  /\ reserved_bytes' = reserved_bytes + ChunkLen[chunk[w]]
  /\ budgetLock' = NoOne
  /\ Goto(w, FetchOrder[1])
  /\ UNCHANGED <<chunkVars, chunkLock, resident_bytes, pinned_prefetch_queue,
                 poolVars, locals, otherVars>>

SelectVictim(w) ==
  /\ InEnsureBudget(w)
  /\ ~ Fits(chunk[w])
  /\ \E v \in Evictable : victim' = [victim EXCEPT ![w] = v]
  /\ budgetLock' = w
  /\ Goto(w, "evict")
  /\ UNCHANGED <<chunkVars, chunkLock, accounts, poolVars, job, chunk, tries,
                 need, cursor, otherVars>>

\* prefetch_admit: the victim is needed no later than the target.
DeclinePrefetch(w) ==
  /\ InEnsureBudget(w)
  /\ job[w] = "prefetch" /\ AdmissionGuarded
  /\ ~ Fits(chunk[w])
  /\ Evictable # {}
  /\ budgetLock' = NoOne
  /\ Goto(w, "abandon")
  /\ UNCHANGED <<chunkVars, chunkLock, accounts, poolVars, locals, otherVars>>

\* A demand fetch takes the retention pin from a speculative chunk.
BreakPin(w) ==
  /\ InEnsureBudget(w)
  /\ ~ Fits(chunk[w])
  /\ Evictable = {}
  /\ \E v \in Breakable(w) :
       /\ pinned_prefetch_queue' = Without(pinned_prefetch_queue, v)
       /\ pin' = [pin EXCEPT ![v] = @ - 1]
       /\ victim' = [victim EXCEPT ![w] = v]
  /\ budgetLock' = w
  /\ Goto(w, "evict")
  /\ UNCHANGED <<state, backoff, pageVars, chunkLock, resident_bytes,
                 reserved_bytes, poolVars, job, chunk, tries, need, cursor,
                 otherVars>>

\* A demand fetch that found no room sleeps and tries again, MaxRetry times.
MayRetry(w) == job[w] = "demand" /\ tries[w] < MaxRetry

\* No victim at all.
Infeasible(w) ==
  /\ InEnsureBudget(w)
  /\ ~ Fits(chunk[w])
  /\ Evictable = {} /\ Breakable(w) = {}
  /\ budgetLock' = NoOne
  /\ IF MayRetry(w)
     THEN tries' = [tries EXCEPT ![w] = @ + 1] /\ UNCHANGED pc
     ELSE Goto(w, "abandon") /\ UNCHANGED tries
  /\ UNCHANGED <<chunkVars, chunkLock, accounts, poolVars, job, chunk, victim,
                 need, cursor, otherVars>>

\* The hole punched in the memfd takes the bytes and the mapping away.
Punch(v) == populated' = populated \ {v} /\ mapped' = mapped \ {v}

\* evict_chunk: takes the victim's lock under budget_lock.
EvictChunk(w) ==
  LET v == victim[w] IN
  /\ pc[w] = "evict"
  /\ chunkLock[v] = NoOne
  /\ IF state[v] = "RESIDENT" /\ pin[v] = 0
     THEN /\ state' = [state EXCEPT ![v] = "ABSENT"]
          /\ Punch(v)
          /\ resident_bytes' = resident_bytes - ChunkLen[v]
          /\ victim' = [victim EXCEPT ![w] = NoChunk]
          /\ Goto(w, "budget")
          /\ UNCHANGED aborted
     ELSE /\ aborted' = TRUE
          /\ UNCHANGED <<state, pageVars, resident_bytes, pc, victim>>
  /\ UNCHANGED <<pin, backoff, chunkLock, budgetLock, reserved_bytes,
                 pinned_prefetch_queue, poolVars, job, chunk, tries, need,
                 cursor, dispVars, app>>

\* pager_abandon_fetch and what surrounds it; a prefetch also drops its pin
\* and starts the chunk's backoff.
Abandon(w) ==
  LET c == chunk[w] IN
  /\ pc[w] = "abandon"
  /\ AbandonFetch(c)
  /\ chunkLock' = [chunkLock EXCEPT ![c] = NoOne]
  /\ IF job[w] = "demand"
     THEN Goto(w, "idle") /\ Forget(w) /\ UNCHANGED <<pin, backoff>>
     ELSE /\ BudgetFree
          /\ pin' = [pin EXCEPT ![c] = @ - 1]
          /\ backoff' = backoff \cup {c}
          /\ Goto(w, "done")
          /\ UNCHANGED locals
  /\ UNCHANGED <<pageVars, budgetVars, poolVars, dispVars, aborted>>

-----------------------------------------------------------------------------
(* The fetch itself, the commit, and the way out. *)

\* fetch_read: the bytes arrive in the memfd through map_b.
FetchRead(w) ==
  /\ pc[w] = "read"
  /\ populated' = populated \cup {chunk[w]}
  /\ Goto(w, After("read"))
  /\ UNCHANGED <<state, pin, backoff, mapped, chunkLock, budgetVars, poolVars,
                 locals, otherVars>>

\* fetch_resolve: UFFDIO_CONTINUE maps the chunk and wakes who waits for it.
FetchResolve(w) ==
  /\ pc[w] = "continue"
  /\ mapped' = mapped \cup {chunk[w]}
  /\ Wake(chunk[w])
  /\ Goto(w, After("continue"))
  /\ UNCHANGED <<state, pin, backoff, populated, chunkLock, budgetVars,
                 poolVars, locals, dispVars, aborted>>

\* commit_reserved: the reservation becomes residency.
CommitKeepingReservation(c) ==
  resident_bytes' = resident_bytes + ChunkLen[c] /\ UNCHANGED reserved_bytes
CommitReserved(c) ==
  /\ reserved_bytes' = reserved_bytes - ChunkLen[c]
  /\ resident_bytes' = resident_bytes + ChunkLen[c]

\* commit_reserved_and_pin pins a demand-fetched chunk in the section that
\* commits it; a prefetched one has been pinned since PinTarget.
NoPinAtCommit(w) == UNCHANGED pin
PinAtCommit(w) ==
  IF job[w] = "demand" THEN pin' = [pin EXCEPT ![chunk[w]] = @ + 1]
                       ELSE UNCHANGED pin

Commit(w) ==
  /\ pc[w] = "commit"
  /\ BudgetFree
  /\ CommitReserved(chunk[w])
  /\ PinAtCommit(w)
  /\ Goto(w, "resident")
  /\ UNCHANGED <<state, backoff, pageVars, chunkLock, budgetLock,
                 pinned_prefetch_queue, poolVars, locals, otherVars>>

SetResident(w) ==
  /\ pc[w] = "resident"
  /\ state' = [state EXCEPT ![chunk[w]] = "RESIDENT"]
  /\ Goto(w, IF job[w] = "demand" /\ prefetch_enabled THEN "topup" ELSE "unpin")
  /\ UNCHANGED <<pin, backoff, pageVars, chunkLock, budgetVars, poolVars,
                 locals, otherVars>>

\* prefetch_retain_on_resident: the pin stays, owned by the FIFO; a full FIFO
\* first gives up its oldest entry.
Retain(c) ==
  IF Len(pinned_prefetch_queue) >= prefetch_depth
  THEN /\ pinned_prefetch_queue' = Append(Tail(pinned_prefetch_queue), c)
       /\ pin' = [pin EXCEPT ![Head(pinned_prefetch_queue)] = @ - 1]
  ELSE /\ pinned_prefetch_queue' = Append(pinned_prefetch_queue, c)
       /\ UNCHANGED pin

ReleasePin(w) ==
  LET c == chunk[w] IN
  /\ pc[w] = "unpin"
  /\ BudgetFree
  /\ IF job[w] = "prefetch" /\ prefetch_retention_pinned
     THEN Retain(c)
     ELSE pin' = [pin EXCEPT ![c] = @ - 1] /\ UNCHANGED pinned_prefetch_queue
  /\ Goto(w, "unlock")
  /\ UNCHANGED <<state, backoff, pageVars, chunkLock, budgetLock,
                 resident_bytes, reserved_bytes, poolVars, locals, otherVars>>

Unlock(w) ==
  /\ pc[w] = "unlock"
  /\ chunkLock' = [chunkLock EXCEPT ![chunk[w]] = NoOne]
  /\ IF job[w] = "demand"
     THEN Goto(w, "idle") /\ Forget(w)
     ELSE /\ Goto(w, "done")
          /\ UNCHANGED locals
  /\ UNCHANGED <<chunkVars, budgetVars, poolVars, otherVars>>

-----------------------------------------------------------------------------
(* prefetch_pool_top_up, with the completed chunk still locked and pinned. *)

\* The room under the depth limit is read once, and pool->lock released.
RoomUnderDepth ==
  IF pf_outstanding < prefetch_depth THEN prefetch_depth - pf_outstanding ELSE 0

TopUpNeed(w) ==
  /\ pc[w] = "topup"
  /\ need' = [need EXCEPT ![w] = RoomUnderDepth]
  /\ Goto(w, IF RoomUnderDepth = 0 THEN "unpin" ELSE "predict")
  /\ UNCHANGED <<regionVars, poolVars, job, chunk, victim, tries, cursor,
                 otherVars>>

\* predict_next, under budget_lock.  NoChunk: the chain ends here; the chunk
\* just fetched: it has closed on itself.
Predict(w) ==
  /\ pc[w] = "predict"
  /\ BudgetFree
  /\ \/ /\ need' = [need EXCEPT ![w] = 0]
        /\ Goto(w, "unpin")
        /\ UNCHANGED cursor
     \/ /\ \E p \in Chunks \ {chunk[w]} : cursor' = [cursor EXCEPT ![w] = p]
        /\ Goto(w, "enqueue")
        /\ UNCHANGED need
  /\ UNCHANGED <<regionVars, poolVars, job, chunk, victim, tries, otherVars>>

\* state is read without the chunk's lock.
EnqueuePrefetch(w) ==
  LET p == cursor[w] IN
  /\ pc[w] = "enqueue"
  /\ IF /\ p \notin pf_tracked
        /\ state[p] = "ABSENT"
        /\ p \notin backoff
        /\ Len(pf_queue) < Cardinality(Chunks) + 1
     THEN /\ pf_tracked' = pf_tracked \cup {p}
          /\ pf_queue' = Append(pf_queue, p)
          /\ pf_outstanding' = pf_outstanding + 1
     ELSE UNCHANGED pfVars
  /\ need' = [need EXCEPT ![w] = @ - 1]
  /\ cursor' = [cursor EXCEPT ![w] = NoChunk]
  /\ Goto(w, IF need[w] = 1 THEN "unpin" ELSE "predict")
  /\ UNCHANGED <<regionVars, demand_queue, job, chunk, victim, tries,
                 otherVars>>

\* 100 ms have passed since the chunk's prefetch was declined.
BackoffExpires(c) ==
  /\ c \in backoff
  /\ backoff' = backoff \ {c}
  /\ UNCHANGED <<state, pin, pageVars, chunkLock, budgetVars, poolVars, pc,
                 locals, otherVars>>

-----------------------------------------------------------------------------
(* The dispatcher: pager_run, handle_fault, handle_absent_dispatch. *)

ReadFault(t) ==
  /\ dpc = "idle"
  /\ app[t].st = "queued"
  /\ app' = [app EXCEPT ![t].st = "waiting"]
  /\ dchunk' = app[t].c
  /\ dpc' = "handle"
  /\ UNCHANGED <<regionVars, poolVars, pc, locals, aborted>>

\* The slot is claimed before the job is queued, under one hold of the lock.
ClaimSlot(c) == state' = [state EXCEPT ![c] = "FETCHING"]

HandleFault ==
  /\ dpc = "handle"
  /\ chunkLock[dchunk] = NoOne
  /\ \/ /\ state[dchunk] = "RESIDENT"
        /\ Wake(dchunk)
        /\ dpc' = "idle" /\ dchunk' = NoChunk
        /\ UNCHANGED <<state, chunkLock>>
     \/ /\ state[dchunk] = "FETCHING"
        /\ dpc' = "idle" /\ dchunk' = NoChunk
        /\ UNCHANGED <<state, chunkLock, app>>
     \/ /\ state[dchunk] = "ABSENT"
        /\ ClaimSlot(dchunk)
        /\ chunkLock' = [chunkLock EXCEPT ![dchunk] = Dispatcher]
        /\ dpc' = "dispatch"
        /\ UNCHANGED <<dchunk, app>>
  /\ UNCHANGED <<pin, backoff, pageVars, budgetVars, poolVars, pc, locals,
                 aborted>>

\* prefetch_pool_enqueue_demand has n_chunks + 1 slots, and aborts beyond.
DemandQueueFull == Len(demand_queue) >= Cardinality(Chunks) + 1

\* on_fault under budget_lock, then the enqueue, then the chunk's unlock.
Dispatch ==
  /\ dpc = "dispatch"
  /\ BudgetFree
  /\ IF DemandQueueFull
     THEN aborted' = TRUE /\ UNCHANGED <<chunkLock, demand_queue, dispVars>>
     ELSE /\ demand_queue' = Append(demand_queue, dchunk)
          /\ chunkLock' = [chunkLock EXCEPT ![dchunk] = NoOne]
          /\ dpc' = "idle" /\ dchunk' = NoChunk
          /\ UNCHANGED aborted
  /\ UNCHANGED <<chunkVars, budgetVars, pfVars, pc, locals, app>>

\* pager_fetching_watchdog on one chunk: trylock, check, abandon.
Watchdog(c) ==
  /\ TimeoutMayFire
  /\ dpc = "idle"
  /\ chunkLock[c] = NoOne
  /\ state[c] = "FETCHING"
  /\ AbandonFetch(c)
  /\ UNCHANGED <<pin, backoff, pageVars, chunkLock, budgetVars, poolVars, pc,
                 locals, dispVars, aborted>>

\* The caller raises *stop once the workload is over; prefetch_pool_stop.
StopPager ==
  /\ dpc = "idle"
  /\ \A t \in AppThreads : app[t].st = "gone"
  /\ dpc' = "stopped"
  /\ UNCHANGED <<regionVars, poolVars, pc, locals, dchunk, app, aborted>>

-----------------------------------------------------------------------------
(* The application threads. *)

\* A read of a chunk that is mapped touches nothing the pager sees.  A read of
\* one that is not queues a fault and blocks the thread.
Touch(t, c) ==
  /\ app[t].st = "idle" \/ app[t] = [st |-> "retry", c |-> c]
  /\ c \notin mapped
  /\ app' = [app EXCEPT ![t] = [st |-> "queued", c |-> c]]
  /\ UNCHANGED <<regionVars, poolVars, pc, locals, dispVars, aborted>>

\* The access that faulted is retried, and succeeds.
Finish(t) ==
  /\ app[t].st = "retry"
  /\ app[t].c \in mapped
  /\ app' = [app EXCEPT ![t] = Idle]
  /\ UNCHANGED <<regionVars, poolVars, pc, locals, dispVars, aborted>>

\* pager_notify_access: the chunk is being consumed, its retention ends.
NotifyAccess(t, c) ==
  /\ app[t].st = "idle"
  /\ prefetch_retention_pinned
  /\ BudgetFree
  /\ c \in Range(pinned_prefetch_queue)
  /\ pinned_prefetch_queue' = Without(pinned_prefetch_queue, c)
  /\ pin' = [pin EXCEPT ![c] = @ - 1]
  /\ UNCHANGED <<state, backoff, pageVars, chunkLock, budgetLock,
                 resident_bytes, reserved_bytes, poolVars, pc, locals,
                 otherVars>>

\* The workload ends in this thread.
Leave(t) ==
  /\ app[t].st = "idle"
  /\ app' = [app EXCEPT ![t].st = "gone"]
  /\ UNCHANGED <<regionVars, poolVars, pc, locals, dispVars, aborted>>

-----------------------------------------------------------------------------
WorkerStep(w) ==
  \/ PickDemand(w) \/ PickPrefetch(w) \/ Exit(w) \/ Done(w)
  \/ LockDemand(w) \/ LockPrefetch(w) \/ PinTarget(w)
  \/ Reserve(w) \/ SelectVictim(w) \/ DeclinePrefetch(w) \/ BreakPin(w)
  \/ Infeasible(w) \/ EvictChunk(w) \/ Abandon(w)
  \/ FetchRead(w) \/ FetchResolve(w) \/ Commit(w) \/ SetResident(w)
  \/ TopUpNeed(w) \/ Predict(w) \/ EnqueuePrefetch(w)
  \/ ReleasePin(w) \/ Unlock(w)

DispatcherStep ==
  \/ \E t \in AppThreads : ReadFault(t)
  \/ HandleFault \/ Dispatch \/ StopPager

AppStep(t) ==
  \/ \E c \in Chunks : Touch(t, c) \/ NotifyAccess(t, c)
  \/ Finish(t) \/ Leave(t)

\* pager_run has returned, or the process has aborted.
Terminated ==
  /\ aborted \/ \A w \in Workers : pc[w] = "exited"
  /\ UNCHANGED vars

Running ==
  /\ ~ aborted
  /\ \/ \E w \in Workers : WorkerStep(w)
     \/ DispatcherStep
     \/ \E c \in Chunks : Watchdog(c) \/ BackoffExpires(c)
     \/ \E t \in AppThreads : AppStep(t)

Next == Running \/ Terminated

Spec == Init /\ [][Next]_vars

\* Every lock is granted in the end to a thread that finds it free again and
\* again, and no thread of the pager stops between two steps.  The workload
\* owes nothing but the retry of an access it was woken for.
FairSpec ==
  /\ Spec
  /\ \A w \in Workers : SF_vars(~ aborted /\ WorkerStep(w))
  /\ \A t \in AppThreads : SF_vars(~ aborted /\ ReadFault(t))
  /\ SF_vars(~ aborted /\ HandleFault)
  /\ SF_vars(~ aborted /\ Dispatch)

-----------------------------------------------------------------------------
(* Properties *)

WorkerLabels ==
  {"idle", "lock", "pin", "budget", "evict", "abandon", "read", "continue",
   "commit", "resident", "topup", "predict", "enqueue", "unpin", "unlock",
   "done", "exited"}

ChunkType ==
  /\ state \in [Chunks -> {"ABSENT", "FETCHING", "RESIDENT"}]
  /\ pin \in [Chunks -> Nat]
  /\ chunkLock \in [Chunks -> Workers \cup {Dispatcher, NoOne}]
  /\ backoff \subseteq Chunks
  /\ populated \subseteq Chunks
  /\ mapped \subseteq Chunks

BudgetType ==
  /\ budgetLock \in Workers \cup {NoOne}
  /\ resident_bytes \in Int
  /\ reserved_bytes \in Int
  /\ pinned_prefetch_queue \in Seq(Chunks)

PoolType ==
  /\ demand_queue \in Seq(Chunks)
  /\ pf_queue \in Seq(Chunks)
  /\ pf_tracked \subseteq Chunks
  /\ pf_outstanding \in Int

WorkerType ==
  /\ pc \in [Workers -> WorkerLabels]
  /\ job \in [Workers -> {"demand", "prefetch"}]
  /\ chunk \in [Workers -> Chunks \cup {NoChunk}]
  /\ victim \in [Workers -> Chunks \cup {NoChunk}]
  /\ tries \in [Workers -> 0..MaxRetry]
  /\ need \in [Workers -> Nat]
  /\ cursor \in [Workers -> Chunks \cup {NoChunk}]

ThreadType ==
  /\ dpc \in {"idle", "handle", "dispatch", "stopped"}
  /\ dchunk \in Chunks \cup {NoChunk}
  /\ app \in [AppThreads ->
                [st : {"idle", "queued", "waiting", "retry", "gone"},
                 c  : Chunks \cup {NoChunk}]]
  /\ aborted \in BOOLEAN

\* Every variable has its type; in particular no pin count (chunk_t.pin) and no
\* count of prefetches still to add (top_up's need) goes below zero.
TypeOK == ChunkType /\ BudgetType /\ PoolType /\ WorkerType /\ ThreadType

\* The bytes resident and the bytes spoken for by fetches in flight never
\* exceed the budget, however many workers make room at once (ensure_budget,
\* ensure_budget_prefetch, commit_reserved, evict_chunk).
BudgetRespected == resident_bytes + reserved_bytes <= budget_bytes

\* The bytes of the chunks in S, each counted once: the k-th of a chunk is <<c, k>>.
BytesOf(S) == Cardinality(UNION {{c} \X (1..ChunkLen[c]) : c \in S})

InFlight == {"read", "continue", "commit"}

\* The chunks committed, and the chunks reserved for.
Held ==
  {c \in Chunks : \/ state[c] = "RESIDENT"
                  \/ \E w \in Workers : chunk[w] = c /\ pc[w] = "resident"}
Claimed == {c \in Chunks : \E w \in Workers : chunk[w] = c /\ pc[w] \in InFlight}

\* The two counters of region_t are exactly the bytes of the chunks committed
\* and of the chunks reserved, so neither ever wraps below zero; and what the
\* kernel charges lies between the resident bytes and both together, so the
\* check of I-7 (reconcile) never aborts a healthy pager, and would notice a
\* hole that was not punched.
AccountingExact ==
  /\ resident_bytes = BytesOf(Held)
  /\ reserved_bytes = BytesOf(Claimed)
  /\ BytesOf(populated) \in resident_bytes..(resident_bytes + reserved_bytes)

\* I-4: between the choice of a victim and its eviction, nobody pins it, fetches
\* it or evicts it, although its own lock is not held (the asserts of
\* evict_chunk cannot fail).
EvictionSafe ==
  \A w \in Workers : pc[w] = "evict" =>
    /\ state[victim[w]] = "RESIDENT"
    /\ pin[victim[w]] = 0

\* Lock order: evict_chunk waits for a chunk lock while it holds budget_lock,
\* although workers take budget_lock while they hold a chunk lock.  No cycle,
\* because the owner of a victim's lock has nothing left to do but release it.
NoLockCycle ==
  \A w \in Workers : pc[w] = "evict" =>
    \/ chunkLock[victim[w]] = NoOne
    \/ \E u \in Workers : chunkLock[victim[w]] = u /\ pc[u] = "unlock"

\* The steps at which a worker owns a pin of its chunk.
HoldsPin(w) ==
  IF job[w] = "demand"
  THEN pc[w] \in {"resident", "topup", "predict", "enqueue", "unpin"}
  ELSE pc[w] \in {"budget", "evict", "abandon", "resident", "unpin"} \cup InFlight

\* Every pin has an owner, the retention FIFO or a worker, and each chunk one
\* pin per owner: no pin is leaked, and none is released twice.
PinsOwned ==
  \A c \in Chunks :
    pin[c] = (IF c \in Range(pinned_prefetch_queue) THEN 1 ELSE 0)
           + (IF \E w \in Workers : chunk[w] = c /\ HoldsPin(w) THEN 1 ELSE 0)

\* The retention FIFO is bounded by the prefetch depth and holds resident
\* chunks, each once, whatever mix of notifications, pin breaks and overflows
\* empties it.
RetentionSound ==
  /\ Len(pinned_prefetch_queue) <= prefetch_depth
  /\ IsInjective(pinned_prefetch_queue)
  /\ \A c \in Range(pinned_prefetch_queue) : state[c] = "RESIDENT"

DemandPicked ==
  {chunk[w] : w \in {u \in Workers : pc[u] = "lock" /\ job[u] = "demand"}}

\* A chunk is queued for demand once per episode, and stays FETCHING until a
\* worker has locked it: a worker never meets another state, and the queue of
\* n_chunks + 1 slots never fills.
DemandJobsClaimed ==
  /\ IsInjective(demand_queue)
  /\ Range(demand_queue) \cap DemandPicked = {}
  /\ \A c \in Range(demand_queue) \cup DemandPicked : state[c] = "FETCHING"
  /\ ~ aborted

\* Somebody will still wake the threads blocked on c: the dispatcher is on to
\* them, or c is being fetched and the fetch is in somebody's hands.  A job whose
\* chunk is no longer FETCHING wakes nobody.
WakeIsDue(c) ==
  \/ dpc \in {"handle", "dispatch"} /\ dchunk = c
  \/ /\ state[c] = "FETCHING"
     /\ \/ c \in Range(demand_queue)
        \/ \E w \in Workers :
             /\ chunk[w] = c
             /\ \/ pc[w] = "lock" /\ job[w] = "demand"
                \/ pc[w] \in {"budget", "evict", "abandon", "read", "continue"}

\* No fault is lost: once the dispatcher has consumed a message, and even if it
\* dropped it as a duplicate, a wake for that chunk is still to come, however the
\* fetch in flight ends (handle_fault, pager_abandon_fetch, fetch_resolve).
NoLostFault ==
  \A t \in AppThreads : app[t].st = "waiting" => WakeIsDue(app[t].c)

\* I-5: an address the application can read without a fault has its bytes, and
\* RESIDENT means mapped, so that waking a thread is enough of an answer to a
\* fault on a RESIDENT chunk.
ResidentIsReadable ==
  /\ mapped \subseteq populated
  /\ \A c \in Chunks : state[c] = "RESIDENT" => c \in mapped

\* The prefetches counted as outstanding are those tracked, and those are the
\* ones queued, each once, or in a worker's hands.  Each worker may add up to the
\* depth it once read, so the limit holds per worker and not for the pool.
OutstandingExact ==
  /\ pf_outstanding = Cardinality(pf_tracked)
  /\ pf_outstanding =
       Len(pf_queue) + Cardinality({w \in Workers : job[w] = "prefetch"
                                                      /\ pc[w] \notin {"idle", "exited"}})
  /\ pf_outstanding <= prefetch_depth * Cardinality(Workers)

\* What the pool has queued is what the chunks and counters say is queued, in
\* both queues (prefetch_pool_enqueue_demand, top_up, worker_main).
QueuesExact == DemandJobsClaimed /\ OutstandingExact

\* The checks that abort() says are impossible to fail.
NoAbort == ~ aborted

\* A demand fetch finds no room and no victim only while another fetch is in
\* flight and will give one or the other back: waiting and retrying is a sound
\* answer as long as every chunk fits in the budget.
InfeasibleIsTransient ==
  [][ \A w \in Workers :
        /\ job[w] = "demand" /\ Infeasible(w)
        /\ ChunkLen[chunk[w]] <= budget_bytes
        => \E u \in Workers \ {w} :
             pc[u] \in InFlight \cup {"resident", "topup", "predict",
                                      "enqueue", "unpin"}
    ]_vars

\* A thread whose access faulted runs again, to retry it.
FaultAnswered ==
  \A t \in AppThreads :
    app[t].st \in {"queued", "waiting"} ~> app[t].st = "retry"

\* Once the pager is told to stop, the workers empty the queues and leave.
PoolDrains ==
  dpc = "stopped" ~> /\ demand_queue = <<>> /\ pf_queue = <<>>
                     /\ \A w \in Workers : pc[w] = "exited"

=============================================================================

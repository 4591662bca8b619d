---------------------------- MODULE PagerProofs ----------------------------
(***************************************************************************)
(* Proofs about Pager, its two queues, the bytes it accounts for and the   *)
(* promise it keeps: for any chunk table, number of workers and readers,   *)
(* budget, depth and setting of the flags.                                 *)
(***************************************************************************)
EXTENDS PagerPromise, DataProofs

USE DEF vars, regionVars, chunkVars, pageVars, budgetVars, accounts, poolVars,
        pfVars, locals, otherVars, dispVars

-----------------------------------------------------------------------------
(* The retention FIFO *)

\* A sequence over S holds elements of S.
LEMMA FifoRange ==
  ASSUME NEW S, NEW s \in Seq(S)
  PROVE  Range(s) \subseteq S
BY DEF Range

\* Without takes x out and nothing else (the shift loop of
\* prefetch_retain_release).
LEMMA FifoWithout ==
  ASSUME NEW S, NEW s \in Seq(S), IsInjective(s), NEW x \in Range(s)
  PROVE  /\ Without(s, x) \in Seq(S)
         /\ Len(Without(s, x)) = Len(s) - 1
         /\ IsInjective(Without(s, x))
         /\ Range(Without(s, x)) = Range(s) \ {x}
<1> DEFINE i == CHOOSE k \in DOMAIN s : s[k] = x
           t == Without(s, x)
<1>1. i \in 1..Len(s) /\ s[i] = x
  BY DEF Range
<1>2. t = [j \in 1..(Len(s) - 1) |-> IF j < i THEN s[j] ELSE s[j + 1]]
  BY DEF Without
<1> HIDE DEF i, t
<1>3. t \in Seq(S) /\ Len(t) = Len(s) - 1 /\ DOMAIN t = 1..(Len(s) - 1)
  BY <1>1, <1>2
<1>4. \A j \in 1..(Len(s) - 1) : t[j] = IF j < i THEN s[j] ELSE s[j + 1]
  BY <1>2
<1>5. IsInjective(t)
  BY <1>1, <1>3, <1>4 DEF IsInjective
<1>6. \A k \in 1..Len(s) : k # i => \E j \in 1..(Len(s) - 1) : t[j] = s[k]
  <2> TAKE k \in 1..Len(s)
  <2> HAVE k # i
  <2>1. CASE k < i
    <3> k \in 1..(Len(s) - 1) /\ t[k] = s[k]
      BY <2>1, <1>1, <1>4
    <3> QED OBVIOUS
  <2>2. CASE k > i
    <3> k - 1 \in 1..(Len(s) - 1) /\ t[k - 1] = s[k]
      BY <2>2, <1>1, <1>4
    <3> QED OBVIOUS
  <2> QED
    BY <2>1, <2>2, <1>1
<1>7. \A j \in 1..(Len(s) - 1) : t[j] # x /\ t[j] \in Range(s)
  BY <1>1, <1>4 DEF IsInjective, Range
<1>8. Range(t) = Range(s) \ {x}
  <2>1. Range(t) \subseteq Range(s) \ {x}
    BY <1>3, <1>7 DEF Range
  <2>2. ASSUME NEW y \in Range(s), y # x
        PROVE  y \in Range(t)
    <3>1. PICK k \in 1..Len(s) : s[k] = y
      BY DEF Range
    <3>2. PICK j \in 1..(Len(s) - 1) : t[j] = y
      BY <1>1, <1>6, <2>2, <3>1
    <3> QED
      BY <1>3, <3>2 DEF Range
  <2> QED
    BY <2>1, <2>2
<1> QED
  BY <1>3, <1>5, <1>8 DEF t

\* Tail takes the head out and nothing else.
LEMMA FifoTail ==
  ASSUME NEW S, NEW s \in Seq(S), IsInjective(s), s # <<>>
  PROVE  /\ Tail(s) \in Seq(S)
         /\ Len(Tail(s)) = Len(s) - 1
         /\ Head(s) \in Range(s)
         /\ IsInjective(Tail(s))
         /\ Range(Tail(s)) = Range(s) \ {Head(s)}
<1> DEFINE t == Tail(s)
<1>1. /\ Len(s) \in Nat \ {0} /\ Head(s) = s[1] /\ DOMAIN s = 1..Len(s)
      /\ t \in Seq(S) /\ Len(t) = Len(s) - 1 /\ DOMAIN t = 1..(Len(s) - 1)
      /\ \A j \in 1..(Len(s) - 1) : t[j] = s[j + 1]
  OBVIOUS
<1> HIDE DEF t
<1>2. IsInjective(t)
  <2> SUFFICES ASSUME NEW j \in 1..(Len(s) - 1), NEW k \in 1..(Len(s) - 1),
                      t[j] = t[k]
               PROVE  j = k
    BY <1>1 DEF IsInjective
  <2>1. s[j + 1] = s[k + 1] /\ j + 1 \in DOMAIN s /\ k + 1 \in DOMAIN s
    BY <1>1
  <2> QED
    BY <1>1, <2>1 DEF IsInjective
<1>3. Range(t) \subseteq Range(s) \ {Head(s)}
  BY <1>1 DEF Range, IsInjective
<1>4. ASSUME NEW y \in Range(s), y # Head(s)
      PROVE  y \in Range(t)
  <2>1. PICK k \in 1..Len(s) : s[k] = y
    BY <1>1 DEF Range
  <2>2. k - 1 \in 1..(Len(s) - 1) /\ t[k - 1] = y
    BY <1>1, <1>4, <2>1
  <2> QED
    BY <1>1, <2>2 DEF Range
<1>5. Head(s) \in Range(s)
  BY <1>1 DEF Range
<1>6. Range(t) = Range(s) \ {Head(s)}
  BY <1>3, <1>4
<1> QED
  BY <1>1, <1>2, <1>5, <1>6 DEF t

\* Append adds x and nothing else.
LEMMA FifoAppend ==
  ASSUME NEW S, NEW s \in Seq(S), IsInjective(s), NEW x \in S, x \notin Range(s)
  PROVE  /\ Append(s, x) \in Seq(S)
         /\ Len(Append(s, x)) = Len(s) + 1
         /\ IsInjective(Append(s, x))
         /\ Range(Append(s, x)) = Range(s) \cup {x}
<1> DEFINE t == Append(s, x)
<1>1. /\ t \in Seq(S) /\ Len(t) = Len(s) + 1
      /\ \A j \in 1..Len(s) : t[j] = s[j]
      /\ t[Len(s) + 1] = x
  OBVIOUS
<1> HIDE DEF t
<1>2. IsInjective(t)
  BY <1>1 DEF IsInjective, Range
<1>3. Range(t) = Range(s) \cup {x}
  BY <1>1 DEF Range
<1> QED
  BY <1>1, <1>2, <1>3 DEF t

-----------------------------------------------------------------------------
(* The owners of pins *)

\* A worker that holds a chunk lock shares its chunk with no owner of a pin.
LEMMA SoleOwner ==
  ASSUME LocksOwned, StagesMatch, RetentionSound,
         NEW w \in Workers, pc[w] \notin Unowned
  PROVE  /\ \A u \in Workers : HoldsPin(u) /\ u # w => chunk[u] # chunk[w]
         /\ pc[w] \in Fetching \cup {"pin"}
              => chunk[w] \notin Range(pinned_prefetch_queue)
<1>1. \A u \in Workers : HoldsPin(u) => pc[u] \notin Unowned
  BY DEF HoldsPin, InFlight, Unowned
<1>2. \A u \in Workers : HoldsPin(u) /\ u # w => chunk[u] # chunk[w]
  BY <1>1 DEF LocksOwned
<1>3. pc[w] \in Fetching \cup {"pin"}
        => chunk[w] \notin Range(pinned_prefetch_queue)
  BY DEF StagesMatch, RetentionSound
<1> QED
  BY <1>2, <1>3

\* A step that moves no pin and no owner of one.
LEMMA PinsFrame ==
  ASSUME PinsExact, UNCHANGED <<pin, pinned_prefetch_queue>>,
         \A u \in Workers : HoldsPin(u)' <=> HoldsPin(u),
         \A u \in Workers : HoldsPin(u) => chunk'[u] = chunk[u]
  PROVE  PinsExact'
BY DEF PinsExact

\* A step by which w takes the first pin of its chunk.
LEMMA PinsTaken ==
  ASSUME PinsExact, NEW w \in Workers, chunk[w] \in Chunks,
         pin \in [Chunks -> Nat],
         chunk[w] \notin Range(pinned_prefetch_queue),
         \A u \in Workers : HoldsPin(u) => chunk[u] # chunk[w],
         pin' = [pin EXCEPT ![chunk[w]] = @ + 1],
         UNCHANGED <<pinned_prefetch_queue, chunk>>,
         \A u \in Workers : HoldsPin(u)' <=> (u = w \/ HoldsPin(u))
  PROVE  PinsExact'
<1>1. pin[chunk[w]] = 0
  BY DEF PinsExact
<1> QED
  BY <1>1 DEF PinsExact

\* A step by which w gives the pin of its chunk back.
LEMMA PinsGiven ==
  ASSUME PinsExact, NEW w \in Workers, chunk[w] \in Chunks, HoldsPin(w),
         pin \in [Chunks -> Nat],
         \A u \in Workers : HoldsPin(u) /\ u # w => chunk[u] # chunk[w],
         pin' = [pin EXCEPT ![chunk[w]] = @ - 1],
         UNCHANGED <<pinned_prefetch_queue, chunk>>,
         \A u \in Workers : HoldsPin(u)' <=> (u # w /\ HoldsPin(u))
  PROVE  PinsExact'
<1>1. pin[chunk[w]] = 1 /\ pin'[chunk[w]] = 0
  BY DEF PinsExact
<1>2. \A c \in Chunks : c # chunk[w] => pin'[c] = pin[c]
  OBVIOUS
<1> QED
  BY <1>1, <1>2 DEF PinsExact

\* A step that takes c out of the retention FIFO, and its pin with it.
LEMMA PinsDropped ==
  ASSUME PinsExact, NEW c \in Range(pinned_prefetch_queue), c \in Chunks,
         pin \in [Chunks -> Nat],
         Range(pinned_prefetch_queue)' = Range(pinned_prefetch_queue) \ {c},
         pin' = [pin EXCEPT ![c] = @ - 1],
         UNCHANGED chunk,
         \A u \in Workers : HoldsPin(u)' <=> HoldsPin(u)
  PROVE  PinsExact'
<1>1. pin[c] = 1 /\ pin'[c] = 0
  BY DEF PinsExact
<1>2. \A d \in Chunks : d # c => pin'[d] = pin[d]
  OBVIOUS
<1>3. \A u \in Workers : HoldsPin(u) => chunk[u] # c
  BY DEF PinsExact
<1> QED
  BY <1>1, <1>2, <1>3 DEF PinsExact

-----------------------------------------------------------------------------
(* Each part of the invariant is preserved by every step. *)

\* No step uses a local variable before it is set.
LEMMA LocalsSetStep == IndInv /\ [Next]_vars => LocalsSet'
<1> SUFFICES ASSUME IndInv, [Next]_vars PROVE LocalsSet'
  OBVIOUS
<1>h. /\ LocalsSet
      /\ pc \in [Workers -> WorkerLabels]
      /\ chunk \in [Workers -> Chunks \cup {NoChunk}]
      /\ victim \in [Workers -> Chunks \cup {NoChunk}]
      /\ cursor \in [Workers -> Chunks \cup {NoChunk}]
      /\ need \in [Workers -> Nat]
      /\ demand_queue \in Seq(Chunks) /\ pf_queue \in Seq(Chunks)
      /\ dchunk \in Chunks \cup {NoChunk}
      /\ app \in [AppThreads ->
                  [st : {"idle", "queued", "waiting", "retry", "gone"},
                   c  : Chunks \cup {NoChunk}]]
      /\ Range(pinned_prefetch_queue) \subseteq Chunks
      /\ pf_outstanding \in Int
  BY FifoRange DEF IndInv, TypeOK, BudgetType, PoolType, WorkerType, ThreadType
<1> USE <1>h, NamesAssumption, SizesAssumption DEF LocalsSet, Goto,
        WorkerLabels
<1>1. ASSUME NEW w \in Workers, WorkerStep(w) PROVE LocalsSet'
  <2>1. CASE PickDemand(w)  BY <2>1 DEF PickDemand
  <2>2. CASE PickPrefetch(w)  BY <2>2 DEF PickPrefetch
  <2>3. CASE Exit(w)  BY <2>3 DEF Exit
  <2>4. CASE Done(w)  BY <2>4 DEF Done, Forget
  <2>5. CASE LockDemand(w)  BY <2>5 DEF LockDemand
  <2>6. CASE LockPrefetch(w)
    <3> HIDE DEF LocalsSet, Goto, WorkerLabels
    <3>1. /\ pc[w] = "lock"
          /\ pc' = [pc EXCEPT ![w] = "pin"] \/ pc' = [pc EXCEPT ![w] = "done"]
          /\ UNCHANGED <<chunk, victim, cursor, need, dpc, dchunk, app>>
      BY <2>6 DEF LockPrefetch, Goto
    <3> QED
      BY <3>1, <1>h DEF LocalsSet, WorkerLabels
  <2>7. CASE PinTarget(w)  BY <2>7 DEF PinTarget
  <2>8. CASE Reserve(w)  BY <2>8 DEF Reserve, InEnsureBudget, FetchOrder
  <2>9. CASE SelectVictim(w)
    BY <2>9 DEF SelectVictim, InEnsureBudget, Evictable
  <2>10. CASE DeclinePrefetch(w)
    BY <2>10 DEF DeclinePrefetch, InEnsureBudget
  <2>11. CASE BreakPin(w)  BY <2>11 DEF BreakPin, InEnsureBudget, Breakable
  <2>12. CASE Infeasible(w)  BY <2>12 DEF Infeasible, InEnsureBudget
  <2>13. CASE EvictChunk(w)  BY <2>13 DEF EvictChunk
  <2>14. CASE Abandon(w)
    <3> HIDE DEF LocalsSet, Goto, WorkerLabels
    <3>1. \A t \in AppThreads : app'[t].st = "queued" => app'[t] = app[t]
      BY <2>14, <1>h DEF Abandon, AbandonFetch, Wake
    <3>2. /\ pc[w] = "abandon" /\ UNCHANGED <<dpc, dchunk>>
          /\ \/ pc' = [pc EXCEPT ![w] = "idle"]
                /\ \A u \in Workers \ {w} : /\ chunk'[u] = chunk[u] /\ victim'[u] = victim[u]
                                            /\ cursor'[u] = cursor[u] /\ need'[u] = need[u]
             \/ /\ pc' = [pc EXCEPT ![w] = "done"]
                /\ UNCHANGED <<chunk, victim, cursor, need>>
      BY <2>14, <1>h DEF Abandon, Forget, Goto
    <3>3. \A t \in AppThreads : app'[t].st = "queued" => app'[t].c \in Chunks
      BY <3>1, <1>h DEF LocalsSet
    <3> QED
      BY <3>2, <3>3, <1>h DEF LocalsSet, WorkerLabels
  <2>15. CASE FetchRead(w)  BY <2>15 DEF FetchRead, FetchOrder, After
  <2>16. CASE FetchResolve(w)
    BY <2>16 DEF FetchResolve, FetchOrder, After, Wake
  <2>17. CASE Commit(w)  BY <2>17 DEF Commit
  <2>18. CASE SetResident(w)  BY <2>18 DEF SetResident
  <2>19. CASE TopUpNeed(w)
    <3> HIDE DEF LocalsSet, Goto, WorkerLabels
    <3>1. RoomUnderDepth # 0 => RoomUnderDepth >= 1
      BY <1>h, SizesAssumption DEF RoomUnderDepth
    <3>2. /\ pc[w] = "topup" /\ need' = [need EXCEPT ![w] = RoomUnderDepth]
          /\ pc' = [pc EXCEPT ![w] =
                      IF RoomUnderDepth = 0 THEN "unpin" ELSE "predict"]
          /\ UNCHANGED <<chunk, victim, cursor, dpc, dchunk, app>>
      BY <2>19 DEF TopUpNeed, Goto
    <3> QED
      BY <3>1, <3>2, <1>h DEF LocalsSet, WorkerLabels
  <2>20. CASE Predict(w)  BY <2>20 DEF Predict
  <2>21. CASE EnqueuePrefetch(w)  BY <2>21 DEF EnqueuePrefetch
  <2>22. CASE ReleasePin(w)  BY <2>22 DEF ReleasePin
  <2>23. CASE Unlock(w)
    <3> HIDE DEF LocalsSet, Goto, WorkerLabels
    <3>1. CASE job[w] = "demand"
      <4>1. /\ pc' = [pc EXCEPT ![w] = "idle"]
            /\ chunk' = [chunk EXCEPT ![w] = NoChunk]
            /\ victim' = [victim EXCEPT ![w] = NoChunk]
            /\ need' = [need EXCEPT ![w] = 0]
            /\ cursor' = [cursor EXCEPT ![w] = NoChunk]
            /\ UNCHANGED <<dpc, dchunk, app>>
        BY <2>23, <3>1 DEF Unlock, Forget, Goto
      <4> QED
        BY <4>1, <1>h DEF LocalsSet, WorkerLabels
    <3>2. CASE job[w] # "demand"
      BY <2>23, <3>2, <1>h DEF Unlock, LocalsSet, Goto, WorkerLabels
    <3> QED
      BY <3>1, <3>2
  <2> QED
    BY <1>1, <2>1, <2>2, <2>3, <2>4, <2>5, <2>6, <2>7, <2>8, <2>9, <2>10,
       <2>11, <2>12, <2>13, <2>14, <2>15, <2>16, <2>17, <2>18, <2>19,
       <2>20, <2>21, <2>22, <2>23 DEF WorkerStep
<1>2. ASSUME DispatcherStep PROVE LocalsSet'
  <2>1. ASSUME NEW t \in AppThreads, ReadFault(t) PROVE LocalsSet'
    BY <2>1 DEF ReadFault
  <2>2. CASE HandleFault  BY <2>2 DEF HandleFault, Wake
  <2>3. CASE Dispatch  BY <2>3 DEF Dispatch
  <2>4. CASE StopPager  BY <2>4 DEF StopPager
  <2> QED
    BY <1>2, <2>1, <2>2, <2>3, <2>4 DEF DispatcherStep
<1>3. ASSUME NEW c \in Chunks, Watchdog(c) PROVE LocalsSet'
  BY <1>3 DEF Watchdog, AbandonFetch, Wake
<1>4. ASSUME NEW c \in Chunks, BackoffExpires(c) PROVE LocalsSet'
  BY <1>4 DEF BackoffExpires
<1>5. ASSUME NEW t \in AppThreads, AppStep(t) PROVE LocalsSet'
  <2>1. ASSUME NEW c \in Chunks, Touch(t, c) PROVE LocalsSet'
    BY <2>1 DEF Touch
  <2>2. ASSUME NEW c \in Chunks, NotifyAccess(t, c) PROVE LocalsSet'
    BY <2>2 DEF NotifyAccess
  <2>3. CASE Finish(t)  BY <2>3 DEF Finish, Idle
  <2>4. CASE Leave(t)  BY <2>4 DEF Leave
  <2> QED
    BY <1>5, <2>1, <2>2, <2>3, <2>4 DEF AppStep
<1>6. CASE UNCHANGED vars  BY <1>6
<1> QED
  BY <1>1, <1>2, <1>3, <1>4, <1>5, <1>6 DEF Next, Running, Terminated

\* Each chunk lock is taken and released by the thread that owns it.
LEMMA LocksOwnedStep == IndInv /\ [Next]_vars => LocksOwned'
<1> SUFFICES ASSUME IndInv, [Next]_vars PROVE LocksOwned'
  OBVIOUS
<1>h. /\ LocksOwned /\ LocalsSet
      /\ pc \in [Workers -> WorkerLabels]
      /\ chunkLock \in [Chunks -> Workers \cup {Dispatcher, NoOne}]
      /\ chunk \in [Workers -> Chunks \cup {NoChunk}]
  BY DEF IndInv, TypeOK, ChunkType, WorkerType
<1> USE <1>h, NamesAssumption DEF LocksOwned, LocalsSet, Goto, Unowned,
        WorkerLabels
<1>1. ASSUME NEW w \in Workers, WorkerStep(w) PROVE LocksOwned'
  <2>1. CASE PickDemand(w)  BY <2>1 DEF PickDemand
  <2>2. CASE PickPrefetch(w)  BY <2>2 DEF PickPrefetch
  <2>3. CASE Exit(w)  BY <2>3 DEF Exit
  <2>4. CASE Done(w)  BY <2>4 DEF Done, Forget
  <2>5. CASE LockDemand(w)  BY <2>5 DEF LockDemand
  <2>6. CASE LockPrefetch(w)  BY <2>6 DEF LockPrefetch
  <2>7. CASE PinTarget(w)  BY <2>7 DEF PinTarget
  <2>8. CASE Reserve(w)  BY <2>8 DEF Reserve, InEnsureBudget, FetchOrder
  <2>9. CASE SelectVictim(w)  BY <2>9 DEF SelectVictim, InEnsureBudget
  <2>10. CASE DeclinePrefetch(w)
    BY <2>10 DEF DeclinePrefetch, InEnsureBudget
  <2>11. CASE BreakPin(w)  BY <2>11 DEF BreakPin, InEnsureBudget
  <2>12. CASE Infeasible(w)  BY <2>12 DEF Infeasible, InEnsureBudget
  <2>13. CASE EvictChunk(w)  BY <2>13 DEF EvictChunk
  <2>14. CASE Abandon(w)  BY <2>14 DEF Abandon, Forget
  <2>15. CASE FetchRead(w)  BY <2>15 DEF FetchRead, FetchOrder, After
  <2>16. CASE FetchResolve(w)  BY <2>16 DEF FetchResolve, FetchOrder, After
  <2>17. CASE Commit(w)  BY <2>17 DEF Commit
  <2>18. CASE SetResident(w)  BY <2>18 DEF SetResident
  <2>19. CASE TopUpNeed(w)  BY <2>19 DEF TopUpNeed
  <2>20. CASE Predict(w)  BY <2>20 DEF Predict
  <2>21. CASE EnqueuePrefetch(w)  BY <2>21 DEF EnqueuePrefetch
  <2>22. CASE ReleasePin(w)  BY <2>22 DEF ReleasePin
  <2>23. CASE Unlock(w)  BY <2>23 DEF Unlock, Forget
  <2> QED
    BY <1>1, <2>1, <2>2, <2>3, <2>4, <2>5, <2>6, <2>7, <2>8, <2>9, <2>10,
       <2>11, <2>12, <2>13, <2>14, <2>15, <2>16, <2>17, <2>18, <2>19,
       <2>20, <2>21, <2>22, <2>23 DEF WorkerStep
<1>2. ASSUME DispatcherStep PROVE LocksOwned'
  <2>1. ASSUME NEW t \in AppThreads, ReadFault(t) PROVE LocksOwned'
    BY <2>1 DEF ReadFault
  <2>2. CASE HandleFault  BY <2>2 DEF HandleFault
  <2>3. CASE Dispatch  BY <2>3 DEF Dispatch
  <2>4. CASE StopPager  BY <2>4 DEF StopPager
  <2> QED
    BY <1>2, <2>1, <2>2, <2>3, <2>4 DEF DispatcherStep
<1>3. ASSUME NEW c \in Chunks, Watchdog(c) PROVE LocksOwned'
  BY <1>3 DEF Watchdog
<1>4. ASSUME NEW c \in Chunks, BackoffExpires(c) PROVE LocksOwned'
  BY <1>4 DEF BackoffExpires
<1>5. ASSUME NEW t \in AppThreads, AppStep(t) PROVE LocksOwned'
  <2>1. ASSUME NEW c \in Chunks, Touch(t, c) PROVE LocksOwned'
    BY <2>1 DEF Touch
  <2>2. ASSUME NEW c \in Chunks, NotifyAccess(t, c) PROVE LocksOwned'
    BY <2>2 DEF NotifyAccess
  <2>3. CASE Finish(t)  BY <2>3 DEF Finish
  <2>4. CASE Leave(t)  BY <2>4 DEF Leave
  <2> QED
    BY <1>5, <2>1, <2>2, <2>3, <2>4 DEF AppStep
<1>6. CASE UNCHANGED vars  BY <1>6
<1> QED
  BY <1>1, <1>2, <1>3, <1>4, <1>5, <1>6 DEF Next, Running, Terminated

\* budget_lock is kept by nobody outside ensure_budget.
LEMMA BudgetLockOwnedStep == IndInv /\ [Next]_vars => BudgetLockOwned'
<1> SUFFICES ASSUME IndInv, [Next]_vars PROVE BudgetLockOwned'
  OBVIOUS
<1>h. /\ BudgetLockOwned
      /\ pc \in [Workers -> WorkerLabels]
      /\ budgetLock \in Workers \cup {NoOne}
  BY DEF IndInv, TypeOK, BudgetType, WorkerType
<1> USE <1>h, NamesAssumption DEF BudgetLockOwned, Goto, WorkerLabels,
        BudgetFree
<1>1. ASSUME NEW w \in Workers, WorkerStep(w) PROVE BudgetLockOwned'
  <2>1. CASE PickDemand(w)  BY <2>1 DEF PickDemand
  <2>2. CASE PickPrefetch(w)  BY <2>2 DEF PickPrefetch
  <2>3. CASE Exit(w)  BY <2>3 DEF Exit
  <2>4. CASE Done(w)  BY <2>4 DEF Done, Forget
  <2>5. CASE LockDemand(w)  BY <2>5 DEF LockDemand
  <2>6. CASE LockPrefetch(w)  BY <2>6 DEF LockPrefetch
  <2>7. CASE PinTarget(w)  BY <2>7 DEF PinTarget
  <2>8. CASE Reserve(w)  BY <2>8 DEF Reserve, InEnsureBudget, FetchOrder
  <2>9. CASE SelectVictim(w)  BY <2>9 DEF SelectVictim, InEnsureBudget
  <2>10. CASE DeclinePrefetch(w)
    BY <2>10 DEF DeclinePrefetch, InEnsureBudget
  <2>11. CASE BreakPin(w)  BY <2>11 DEF BreakPin, InEnsureBudget
  <2>12. CASE Infeasible(w)  BY <2>12 DEF Infeasible, InEnsureBudget
  <2>13. CASE EvictChunk(w)  BY <2>13 DEF EvictChunk
  <2>14. CASE Abandon(w)  BY <2>14 DEF Abandon, Forget
  <2>15. CASE FetchRead(w)  BY <2>15 DEF FetchRead, FetchOrder, After
  <2>16. CASE FetchResolve(w)  BY <2>16 DEF FetchResolve, FetchOrder, After
  <2>17. CASE Commit(w)  BY <2>17 DEF Commit
  <2>18. CASE SetResident(w)  BY <2>18 DEF SetResident
  <2>19. CASE TopUpNeed(w)  BY <2>19 DEF TopUpNeed
  <2>20. CASE Predict(w)  BY <2>20 DEF Predict
  <2>21. CASE EnqueuePrefetch(w)  BY <2>21 DEF EnqueuePrefetch
  <2>22. CASE ReleasePin(w)  BY <2>22 DEF ReleasePin
  <2>23. CASE Unlock(w)  BY <2>23 DEF Unlock, Forget
  <2> QED
    BY <1>1, <2>1, <2>2, <2>3, <2>4, <2>5, <2>6, <2>7, <2>8, <2>9, <2>10,
       <2>11, <2>12, <2>13, <2>14, <2>15, <2>16, <2>17, <2>18, <2>19,
       <2>20, <2>21, <2>22, <2>23 DEF WorkerStep
<1>2. ASSUME DispatcherStep PROVE BudgetLockOwned'
  <2>1. ASSUME NEW t \in AppThreads, ReadFault(t) PROVE BudgetLockOwned'
    BY <2>1 DEF ReadFault
  <2>2. CASE HandleFault  BY <2>2 DEF HandleFault
  <2>3. CASE Dispatch  BY <2>3 DEF Dispatch
  <2>4. CASE StopPager  BY <2>4 DEF StopPager
  <2> QED
    BY <1>2, <2>1, <2>2, <2>3, <2>4 DEF DispatcherStep
<1>3. ASSUME NEW c \in Chunks, Watchdog(c) PROVE BudgetLockOwned'
  BY <1>3 DEF Watchdog
<1>4. ASSUME NEW c \in Chunks, BackoffExpires(c) PROVE BudgetLockOwned'
  BY <1>4 DEF BackoffExpires
<1>5. ASSUME NEW t \in AppThreads, AppStep(t) PROVE BudgetLockOwned'
  <2>1. ASSUME NEW c \in Chunks, Touch(t, c) PROVE BudgetLockOwned'
    BY <2>1 DEF Touch
  <2>2. ASSUME NEW c \in Chunks, NotifyAccess(t, c) PROVE BudgetLockOwned'
    BY <2>2 DEF NotifyAccess
  <2>3. CASE Finish(t)  BY <2>3 DEF Finish
  <2>4. CASE Leave(t)  BY <2>4 DEF Leave
  <2> QED
    BY <1>5, <2>1, <2>2, <2>3, <2>4 DEF AppStep
<1>6. CASE UNCHANGED vars  BY <1>6
<1> QED
  BY <1>1, <1>2, <1>3, <1>4, <1>5, <1>6 DEF Next, Running, Terminated

\* Nobody changes the state of a chunk whose lock another thread owns.
LEMMA StagesMatchStep == IndInv /\ [Next]_vars => StagesMatch'
<1> SUFFICES ASSUME IndInv, [Next]_vars PROVE StagesMatch'
  OBVIOUS
<1>h. /\ StagesMatch /\ LocksOwned /\ LocalsSet
      /\ pc \in [Workers -> WorkerLabels]
      /\ chunk \in [Workers -> Chunks \cup {NoChunk}]
      /\ job \in [Workers -> {"demand", "prefetch"}]
      /\ state \in [Chunks -> {"ABSENT", "FETCHING", "RESIDENT"}]
      /\ chunkLock \in [Chunks -> Workers \cup {Dispatcher, NoOne}]
  BY DEF IndInv, TypeOK, ChunkType, WorkerType
<1> USE <1>h, NamesAssumption DEF StagesMatch, LocksOwned, LocalsSet,
        Unowned, Goto, WorkerLabels, Fetching, ToppingUp, Finished, InFlight
<1>1. ASSUME NEW w \in Workers, WorkerStep(w) PROVE StagesMatch'
  <2>1. CASE PickDemand(w)  BY <2>1 DEF PickDemand
  <2>2. CASE PickPrefetch(w)  BY <2>2 DEF PickPrefetch
  <2>3. CASE Exit(w)  BY <2>3 DEF Exit
  <2>4. CASE Done(w)  BY <2>4 DEF Done, Forget
  <2>5. CASE LockDemand(w)  BY <2>5 DEF LockDemand
  <2>6. CASE LockPrefetch(w)  BY <2>6 DEF LockPrefetch
  <2>7. CASE PinTarget(w)  BY <2>7 DEF PinTarget
  <2>8. CASE Reserve(w)  BY <2>8 DEF Reserve, InEnsureBudget, FetchOrder
  <2>9. CASE SelectVictim(w)  BY <2>9 DEF SelectVictim, InEnsureBudget
  <2>10. CASE DeclinePrefetch(w)
    BY <2>10 DEF DeclinePrefetch, InEnsureBudget
  <2>11. CASE BreakPin(w)  BY <2>11 DEF BreakPin, InEnsureBudget
  <2>12. CASE Infeasible(w)  BY <2>12 DEF Infeasible, InEnsureBudget
  <2>13. CASE EvictChunk(w)  BY <2>13 DEF EvictChunk
  <2>14. CASE Abandon(w)  BY <2>14 DEF Abandon, Forget, AbandonFetch
  <2>15. CASE FetchRead(w)  BY <2>15 DEF FetchRead, FetchOrder, After
  <2>16. CASE FetchResolve(w)  BY <2>16 DEF FetchResolve, FetchOrder, After
  <2>17. CASE Commit(w)  BY <2>17 DEF Commit
  <2>18. CASE SetResident(w)  BY <2>18 DEF SetResident
  <2>19. CASE TopUpNeed(w)  BY <2>19 DEF TopUpNeed
  <2>20. CASE Predict(w)  BY <2>20 DEF Predict
  <2>21. CASE EnqueuePrefetch(w)  BY <2>21 DEF EnqueuePrefetch
  <2>22. CASE ReleasePin(w)  BY <2>22 DEF ReleasePin
  <2>23. CASE Unlock(w)  BY <2>23 DEF Unlock, Forget
  <2> QED
    BY <1>1, <2>1, <2>2, <2>3, <2>4, <2>5, <2>6, <2>7, <2>8, <2>9, <2>10,
       <2>11, <2>12, <2>13, <2>14, <2>15, <2>16, <2>17, <2>18, <2>19,
       <2>20, <2>21, <2>22, <2>23 DEF WorkerStep
<1>2. ASSUME DispatcherStep PROVE StagesMatch'
  <2>1. ASSUME NEW t \in AppThreads, ReadFault(t) PROVE StagesMatch'
    BY <2>1 DEF ReadFault
  <2>2. CASE HandleFault  BY <2>2 DEF HandleFault, ClaimSlot
  <2>3. CASE Dispatch  BY <2>3 DEF Dispatch
  <2>4. CASE StopPager  BY <2>4 DEF StopPager
  <2> QED
    BY <1>2, <2>1, <2>2, <2>3, <2>4 DEF DispatcherStep
<1>3. ASSUME NEW c \in Chunks, Watchdog(c) PROVE StagesMatch'
  BY <1>3 DEF Watchdog, AbandonFetch
<1>4. ASSUME NEW c \in Chunks, BackoffExpires(c) PROVE StagesMatch'
  BY <1>4 DEF BackoffExpires
<1>5. ASSUME NEW t \in AppThreads, AppStep(t) PROVE StagesMatch'
  <2>1. ASSUME NEW c \in Chunks, Touch(t, c) PROVE StagesMatch'
    BY <2>1 DEF Touch
  <2>2. ASSUME NEW c \in Chunks, NotifyAccess(t, c) PROVE StagesMatch'
    BY <2>2 DEF NotifyAccess
  <2>3. CASE Finish(t)  BY <2>3 DEF Finish
  <2>4. CASE Leave(t)  BY <2>4 DEF Leave
  <2> QED
    BY <1>5, <2>1, <2>2, <2>3, <2>4 DEF AppStep
<1>6. CASE UNCHANGED vars  BY <1>6
<1> QED
  BY <1>1, <1>2, <1>3, <1>4, <1>5, <1>6 DEF Next, Running, Terminated

\* Nobody pins, fetches or evicts the victim of another worker.
LEMMA EvictionSafeStep == IndInv /\ [Next]_vars => EvictionSafe'
<1> SUFFICES ASSUME IndInv, [Next]_vars PROVE EvictionSafe'
  OBVIOUS
<1>h. /\ EvictionSafe /\ BudgetLockOwned /\ StagesMatch
      /\ LocalsSet /\ PinsExact
      /\ pc \in [Workers -> WorkerLabels]
      /\ chunk \in [Workers -> Chunks \cup {NoChunk}]
      /\ victim \in [Workers -> Chunks \cup {NoChunk}]
      /\ state \in [Chunks -> {"ABSENT", "FETCHING", "RESIDENT"}]
      /\ pin \in [Chunks -> Nat]
      /\ budgetLock \in Workers \cup {NoOne}
      /\ Range(pinned_prefetch_queue) \subseteq Chunks
  BY FifoRange DEF IndInv, TypeOK, ChunkType, BudgetType, WorkerType
<1> USE <1>h, NamesAssumption DEF EvictionSafe, BudgetLockOwned, StagesMatch,
        LocalsSet, Fetching, Finished, ToppingUp, InFlight, Goto,
        WorkerLabels, BudgetFree
<1>1. ASSUME NEW w \in Workers, WorkerStep(w) PROVE EvictionSafe'
  <2>1. CASE PickDemand(w)  BY <2>1 DEF PickDemand
  <2>2. CASE PickPrefetch(w)  BY <2>2 DEF PickPrefetch
  <2>3. CASE Exit(w)  BY <2>3 DEF Exit
  <2>4. CASE Done(w)  BY <2>4 DEF Done, Forget
  <2>5. CASE LockDemand(w)  BY <2>5 DEF LockDemand
  <2>6. CASE LockPrefetch(w)  BY <2>6 DEF LockPrefetch
  <2>7. CASE PinTarget(w)  BY <2>7 DEF PinTarget
  <2>8. CASE Reserve(w)  BY <2>8 DEF Reserve, InEnsureBudget, FetchOrder
  <2>9. CASE SelectVictim(w)
    BY <2>9 DEF SelectVictim, InEnsureBudget, Evictable
  <2>10. CASE DeclinePrefetch(w)
    BY <2>10 DEF DeclinePrefetch, InEnsureBudget
  <2>11. CASE BreakPin(w)
    BY <2>11 DEF BreakPin, InEnsureBudget, Breakable, PinsExact
  <2>12. CASE Infeasible(w)  BY <2>12 DEF Infeasible, InEnsureBudget
  <2>13. CASE EvictChunk(w)  BY <2>13 DEF EvictChunk
  <2>14. CASE Abandon(w)  BY <2>14 DEF Abandon, Forget, AbandonFetch
  <2>15. CASE FetchRead(w)  BY <2>15 DEF FetchRead, FetchOrder, After
  <2>16. CASE FetchResolve(w)  BY <2>16 DEF FetchResolve, FetchOrder, After
  <2>17. CASE Commit(w)  BY <2>17 DEF Commit, PinAtCommit
  <2>18. CASE SetResident(w)  BY <2>18 DEF SetResident
  <2>19. CASE TopUpNeed(w)  BY <2>19 DEF TopUpNeed
  <2>20. CASE Predict(w)  BY <2>20 DEF Predict
  <2>21. CASE EnqueuePrefetch(w)  BY <2>21 DEF EnqueuePrefetch
  <2>22. CASE ReleasePin(w)  BY <2>22 DEF ReleasePin, Retain
  <2>23. CASE Unlock(w)  BY <2>23 DEF Unlock, Forget
  <2> QED
    BY <1>1, <2>1, <2>2, <2>3, <2>4, <2>5, <2>6, <2>7, <2>8, <2>9, <2>10,
       <2>11, <2>12, <2>13, <2>14, <2>15, <2>16, <2>17, <2>18, <2>19,
       <2>20, <2>21, <2>22, <2>23 DEF WorkerStep
<1>2. ASSUME DispatcherStep PROVE EvictionSafe'
  <2>1. ASSUME NEW t \in AppThreads, ReadFault(t) PROVE EvictionSafe'
    BY <2>1 DEF ReadFault
  <2>2. CASE HandleFault  BY <2>2 DEF HandleFault, ClaimSlot
  <2>3. CASE Dispatch  BY <2>3 DEF Dispatch
  <2>4. CASE StopPager  BY <2>4 DEF StopPager
  <2> QED
    BY <1>2, <2>1, <2>2, <2>3, <2>4 DEF DispatcherStep
<1>3. ASSUME NEW c \in Chunks, Watchdog(c) PROVE EvictionSafe'
  BY <1>3 DEF Watchdog, AbandonFetch
<1>4. ASSUME NEW c \in Chunks, BackoffExpires(c) PROVE EvictionSafe'
  BY <1>4 DEF BackoffExpires
<1>5. ASSUME NEW t \in AppThreads, AppStep(t) PROVE EvictionSafe'
  <2>1. ASSUME NEW c \in Chunks, Touch(t, c) PROVE EvictionSafe'
    BY <2>1 DEF Touch
  <2>2. ASSUME NEW c \in Chunks, NotifyAccess(t, c) PROVE EvictionSafe'
    BY <2>2 DEF NotifyAccess
  <2>3. CASE Finish(t)  BY <2>3 DEF Finish
  <2>4. CASE Leave(t)  BY <2>4 DEF Leave
  <2> QED
    BY <1>5, <2>1, <2>2, <2>3, <2>4 DEF AppStep
<1>6. CASE UNCHANGED vars  BY <1>6
<1> QED
  BY <1>1, <1>2, <1>3, <1>4, <1>5, <1>6 DEF Next, Running, Terminated

\* No eviction undoes a fetch that is not yet RESIDENT.
LEMMA MappedAheadStep == IndInv /\ [Next]_vars => MappedAhead'
<1> SUFFICES ASSUME IndInv, [Next]_vars PROVE MappedAhead'
  OBVIOUS
<1>h. /\ MappedAhead /\ EvictionSafe /\ StagesMatch /\ LocalsSet
      /\ pc \in [Workers -> WorkerLabels]
      /\ chunk \in [Workers -> Chunks \cup {NoChunk}]
      /\ victim \in [Workers -> Chunks \cup {NoChunk}]
      /\ state \in [Chunks -> {"ABSENT", "FETCHING", "RESIDENT"}]
      /\ populated \subseteq Chunks /\ mapped \subseteq Chunks
  BY DEF IndInv, TypeOK, ChunkType, WorkerType
<1> USE <1>h, NamesAssumption DEF MappedAhead, EvictionSafe, StagesMatch,
        LocalsSet, Fetching, InFlight, Goto, WorkerLabels
<1>1. ASSUME NEW w \in Workers, WorkerStep(w) PROVE MappedAhead'
  <2>1. CASE PickDemand(w)  BY <2>1 DEF PickDemand
  <2>2. CASE PickPrefetch(w)  BY <2>2 DEF PickPrefetch
  <2>3. CASE Exit(w)  BY <2>3 DEF Exit
  <2>4. CASE Done(w)  BY <2>4 DEF Done, Forget
  <2>5. CASE LockDemand(w)  BY <2>5 DEF LockDemand
  <2>6. CASE LockPrefetch(w)  BY <2>6 DEF LockPrefetch
  <2>7. CASE PinTarget(w)  BY <2>7 DEF PinTarget
  <2>8. CASE Reserve(w)  BY <2>8 DEF Reserve, InEnsureBudget, FetchOrder
  <2>9. CASE SelectVictim(w)  BY <2>9 DEF SelectVictim, InEnsureBudget
  <2>10. CASE DeclinePrefetch(w)
    BY <2>10 DEF DeclinePrefetch, InEnsureBudget
  <2>11. CASE BreakPin(w)  BY <2>11 DEF BreakPin, InEnsureBudget
  <2>12. CASE Infeasible(w)  BY <2>12 DEF Infeasible, InEnsureBudget
  <2>13. CASE EvictChunk(w)  BY <2>13 DEF EvictChunk, Punch
  <2>14. CASE Abandon(w)  BY <2>14 DEF Abandon, Forget
  <2>15. CASE FetchRead(w)  BY <2>15 DEF FetchRead, FetchOrder, After
  <2>16. CASE FetchResolve(w)  BY <2>16 DEF FetchResolve, FetchOrder, After
  <2>17. CASE Commit(w)  BY <2>17 DEF Commit
  <2>18. CASE SetResident(w)  BY <2>18 DEF SetResident
  <2>19. CASE TopUpNeed(w)  BY <2>19 DEF TopUpNeed
  <2>20. CASE Predict(w)  BY <2>20 DEF Predict
  <2>21. CASE EnqueuePrefetch(w)  BY <2>21 DEF EnqueuePrefetch
  <2>22. CASE ReleasePin(w)  BY <2>22 DEF ReleasePin
  <2>23. CASE Unlock(w)  BY <2>23 DEF Unlock, Forget
  <2> QED
    BY <1>1, <2>1, <2>2, <2>3, <2>4, <2>5, <2>6, <2>7, <2>8, <2>9, <2>10,
       <2>11, <2>12, <2>13, <2>14, <2>15, <2>16, <2>17, <2>18, <2>19,
       <2>20, <2>21, <2>22, <2>23 DEF WorkerStep
<1>2. ASSUME DispatcherStep PROVE MappedAhead'
  <2>1. ASSUME NEW t \in AppThreads, ReadFault(t) PROVE MappedAhead'
    BY <2>1 DEF ReadFault
  <2>2. CASE HandleFault  BY <2>2 DEF HandleFault
  <2>3. CASE Dispatch  BY <2>3 DEF Dispatch
  <2>4. CASE StopPager  BY <2>4 DEF StopPager
  <2> QED
    BY <1>2, <2>1, <2>2, <2>3, <2>4 DEF DispatcherStep
<1>3. ASSUME NEW c \in Chunks, Watchdog(c) PROVE MappedAhead'
  BY <1>3 DEF Watchdog
<1>4. ASSUME NEW c \in Chunks, BackoffExpires(c) PROVE MappedAhead'
  BY <1>4 DEF BackoffExpires
<1>5. ASSUME NEW t \in AppThreads, AppStep(t) PROVE MappedAhead'
  <2>1. ASSUME NEW c \in Chunks, Touch(t, c) PROVE MappedAhead'
    BY <2>1 DEF Touch
  <2>2. ASSUME NEW c \in Chunks, NotifyAccess(t, c) PROVE MappedAhead'
    BY <2>2 DEF NotifyAccess
  <2>3. CASE Finish(t)  BY <2>3 DEF Finish
  <2>4. CASE Leave(t)  BY <2>4 DEF Leave
  <2> QED
    BY <1>5, <2>1, <2>2, <2>3, <2>4 DEF AppStep
<1>6. CASE UNCHANGED vars  BY <1>6
<1> QED
  BY <1>1, <1>2, <1>3, <1>4, <1>5, <1>6 DEF Next, Running, Terminated

\* A chunk is unmapped only together with its residency.
LEMMA ResidentIsReadableStep == IndInv /\ [Next]_vars => ResidentIsReadable'
<1> SUFFICES ASSUME IndInv, [Next]_vars PROVE ResidentIsReadable'
  OBVIOUS
<1>h. /\ ResidentIsReadable /\ MappedAhead /\ LocalsSet
      /\ pc \in [Workers -> WorkerLabels]
      /\ chunk \in [Workers -> Chunks \cup {NoChunk}]
      /\ victim \in [Workers -> Chunks \cup {NoChunk}]
      /\ state \in [Chunks -> {"ABSENT", "FETCHING", "RESIDENT"}]
      /\ populated \subseteq Chunks /\ mapped \subseteq Chunks
  BY DEF IndInv, TypeOK, ChunkType, WorkerType
<1> USE <1>h, NamesAssumption DEF ResidentIsReadable, MappedAhead, LocalsSet,
        Goto, WorkerLabels
<1>1. ASSUME NEW w \in Workers, WorkerStep(w) PROVE ResidentIsReadable'
  <2>1. CASE PickDemand(w)  BY <2>1 DEF PickDemand
  <2>2. CASE PickPrefetch(w)  BY <2>2 DEF PickPrefetch
  <2>3. CASE Exit(w)  BY <2>3 DEF Exit
  <2>4. CASE Done(w)  BY <2>4 DEF Done, Forget
  <2>5. CASE LockDemand(w)  BY <2>5 DEF LockDemand
  <2>6. CASE LockPrefetch(w)  BY <2>6 DEF LockPrefetch
  <2>7. CASE PinTarget(w)  BY <2>7 DEF PinTarget
  <2>8. CASE Reserve(w)  BY <2>8 DEF Reserve, InEnsureBudget, FetchOrder
  <2>9. CASE SelectVictim(w)  BY <2>9 DEF SelectVictim, InEnsureBudget
  <2>10. CASE DeclinePrefetch(w)
    BY <2>10 DEF DeclinePrefetch, InEnsureBudget
  <2>11. CASE BreakPin(w)  BY <2>11 DEF BreakPin, InEnsureBudget
  <2>12. CASE Infeasible(w)  BY <2>12 DEF Infeasible, InEnsureBudget
  <2>13. CASE EvictChunk(w)  BY <2>13 DEF EvictChunk, Punch
  <2>14. CASE Abandon(w)  BY <2>14 DEF Abandon, Forget, AbandonFetch
  <2>15. CASE FetchRead(w)  BY <2>15 DEF FetchRead, FetchOrder, After
  <2>16. CASE FetchResolve(w)  BY <2>16 DEF FetchResolve, FetchOrder, After
  <2>17. CASE Commit(w)  BY <2>17 DEF Commit
  <2>18. CASE SetResident(w)  BY <2>18 DEF SetResident
  <2>19. CASE TopUpNeed(w)  BY <2>19 DEF TopUpNeed
  <2>20. CASE Predict(w)  BY <2>20 DEF Predict
  <2>21. CASE EnqueuePrefetch(w)  BY <2>21 DEF EnqueuePrefetch
  <2>22. CASE ReleasePin(w)  BY <2>22 DEF ReleasePin
  <2>23. CASE Unlock(w)  BY <2>23 DEF Unlock, Forget
  <2> QED
    BY <1>1, <2>1, <2>2, <2>3, <2>4, <2>5, <2>6, <2>7, <2>8, <2>9, <2>10,
       <2>11, <2>12, <2>13, <2>14, <2>15, <2>16, <2>17, <2>18, <2>19,
       <2>20, <2>21, <2>22, <2>23 DEF WorkerStep
<1>2. ASSUME DispatcherStep PROVE ResidentIsReadable'
  <2>1. ASSUME NEW t \in AppThreads, ReadFault(t) PROVE ResidentIsReadable'
    BY <2>1 DEF ReadFault
  <2>2. CASE HandleFault  BY <2>2 DEF HandleFault, ClaimSlot
  <2>3. CASE Dispatch  BY <2>3 DEF Dispatch
  <2>4. CASE StopPager  BY <2>4 DEF StopPager
  <2> QED
    BY <1>2, <2>1, <2>2, <2>3, <2>4 DEF DispatcherStep
<1>3. ASSUME NEW c \in Chunks, Watchdog(c) PROVE ResidentIsReadable'
  BY <1>3 DEF Watchdog, AbandonFetch
<1>4. ASSUME NEW c \in Chunks, BackoffExpires(c) PROVE ResidentIsReadable'
  BY <1>4 DEF BackoffExpires
<1>5. ASSUME NEW t \in AppThreads, AppStep(t) PROVE ResidentIsReadable'
  <2>1. ASSUME NEW c \in Chunks, Touch(t, c) PROVE ResidentIsReadable'
    BY <2>1 DEF Touch
  <2>2. ASSUME NEW c \in Chunks, NotifyAccess(t, c) PROVE ResidentIsReadable'
    BY <2>2 DEF NotifyAccess
  <2>3. CASE Finish(t)  BY <2>3 DEF Finish
  <2>4. CASE Leave(t)  BY <2>4 DEF Leave
  <2> QED
    BY <1>5, <2>1, <2>2, <2>3, <2>4 DEF AppStep
<1>6. CASE UNCHANGED vars  BY <1>6
<1> QED
  BY <1>1, <1>2, <1>3, <1>4, <1>5, <1>6 DEF Next, Running, Terminated

\* The FIFO stays bounded, without duplicates, and full of resident chunks.
LEMMA RetentionSoundStep == IndInv /\ [Next]_vars => RetentionSound'
<1> SUFFICES ASSUME IndInv, [Next]_vars PROVE RetentionSound'
  OBVIOUS
<1>h. /\ RetentionSound /\ PinsExact /\ EvictionSafe /\ StagesMatch /\ LocalsSet
      /\ pc \in [Workers -> WorkerLabels]
      /\ chunk \in [Workers -> Chunks \cup {NoChunk}]
      /\ job \in [Workers -> {"demand", "prefetch"}]
      /\ victim \in [Workers -> Chunks \cup {NoChunk}]
      /\ state \in [Chunks -> {"ABSENT", "FETCHING", "RESIDENT"}]
      /\ pinned_prefetch_queue \in Seq(Chunks)
      /\ Range(pinned_prefetch_queue) \subseteq Chunks
  BY FifoRange DEF IndInv, TypeOK, ChunkType, BudgetType, WorkerType
<1> USE <1>h, NamesAssumption, SizesAssumption DEF RetentionSound, PinsExact,
        EvictionSafe, StagesMatch, LocalsSet, Fetching, Finished, InFlight,
        Goto, WorkerLabels
<1>1. ASSUME NEW w \in Workers, WorkerStep(w) PROVE RetentionSound'
  <2>1. CASE PickDemand(w)  BY <2>1 DEF PickDemand
  <2>2. CASE PickPrefetch(w)  BY <2>2 DEF PickPrefetch
  <2>3. CASE Exit(w)  BY <2>3 DEF Exit
  <2>4. CASE Done(w)  BY <2>4 DEF Done, Forget
  <2>5. CASE LockDemand(w)  BY <2>5 DEF LockDemand
  <2>6. CASE LockPrefetch(w)  BY <2>6 DEF LockPrefetch
  <2>7. CASE PinTarget(w)  BY <2>7 DEF PinTarget
  <2>8. CASE Reserve(w)  BY <2>8 DEF Reserve, InEnsureBudget, FetchOrder
  <2>9. CASE SelectVictim(w)  BY <2>9 DEF SelectVictim, InEnsureBudget
  <2>10. CASE DeclinePrefetch(w)
    BY <2>10 DEF DeclinePrefetch, InEnsureBudget
  <2>11. CASE BreakPin(w)
    BY <2>11, FifoWithout DEF BreakPin, InEnsureBudget, Breakable
  <2>12. CASE Infeasible(w)  BY <2>12 DEF Infeasible, InEnsureBudget
  <2>13. CASE EvictChunk(w)  BY <2>13 DEF EvictChunk
  <2>14. CASE Abandon(w)  BY <2>14 DEF Abandon, Forget, AbandonFetch
  <2>15. CASE FetchRead(w)  BY <2>15 DEF FetchRead, FetchOrder, After
  <2>16. CASE FetchResolve(w)  BY <2>16 DEF FetchResolve, FetchOrder, After
  <2>17. CASE Commit(w)  BY <2>17 DEF Commit
  <2>18. CASE SetResident(w)  BY <2>18 DEF SetResident
  <2>19. CASE TopUpNeed(w)  BY <2>19 DEF TopUpNeed
  <2>20. CASE Predict(w)  BY <2>20 DEF Predict
  <2>21. CASE EnqueuePrefetch(w)  BY <2>21 DEF EnqueuePrefetch
  <2>22. CASE ReleasePin(w)
    <3> HIDE DEF RetentionSound, PinsExact, EvictionSafe, StagesMatch,
          LocalsSet, Fetching, Finished, InFlight, Goto, WorkerLabels
    <3> DEFINE s == pinned_prefetch_queue
               c == chunk[w]
               r == Tail(s)
    <3>1. /\ c \in Chunks /\ state[c] = "RESIDENT" /\ UNCHANGED state
          /\ pc[w] = "unpin"
      BY <2>22, <1>h DEF ReleasePin, LocalsSet, StagesMatch, Finished
    <3>2. CASE job[w] = "prefetch" /\ prefetch_retention_pinned
      <4>1. c \notin Range(s)
        BY <3>1, <3>2, <1>h DEF PinsExact, HoldsPin
      <4>2. CASE Len(s) >= prefetch_depth
        <5>1. s' = Append(r, c)
          BY <2>22, <3>2, <4>2 DEF ReleasePin, Retain
        <5>2. s # <<>> /\ Len(s) \in Nat
          BY <4>2, <1>h, SizesAssumption
        <5>3. /\ IsInjective(r) /\ r \in Seq(Chunks)
              /\ Range(r) \subseteq Range(s) /\ Len(r) = Len(s) - 1
          BY <5>2, <1>h, FifoTail DEF RetentionSound
        <5> HIDE DEF r
        <5>4. /\ IsInjective(s') /\ Len(s') = Len(s)
              /\ Range(s') \subseteq Range(s) \cup {c}
          BY <5>1, <5>2, <5>3, <4>1, <3>1, FifoAppend
        <5> QED
          BY <5>4, <3>1, <1>h DEF RetentionSound
      <4>3. CASE ~ (Len(s) >= prefetch_depth)
        <5>1. s' = Append(s, c)
          BY <2>22, <3>2, <4>3 DEF ReleasePin, Retain
        <5>2. /\ IsInjective(s') /\ Len(s') = Len(s) + 1
              /\ Range(s') = Range(s) \cup {c}
          BY <5>1, <4>1, <3>1, <1>h, FifoAppend DEF RetentionSound
        <5> QED
          BY <5>2, <4>3, <3>1, <1>h, SizesAssumption DEF RetentionSound
      <4> QED
        BY <4>2, <4>3
    <3>3. CASE ~ (job[w] = "prefetch" /\ prefetch_retention_pinned)
      <4>1. UNCHANGED s
        BY <2>22, <3>3 DEF ReleasePin
      <4> QED
        BY <4>1, <3>1, <1>h DEF RetentionSound
    <3> QED
      BY <3>2, <3>3
  <2>23. CASE Unlock(w)  BY <2>23 DEF Unlock, Forget
  <2> QED
    BY <1>1, <2>1, <2>2, <2>3, <2>4, <2>5, <2>6, <2>7, <2>8, <2>9, <2>10,
       <2>11, <2>12, <2>13, <2>14, <2>15, <2>16, <2>17, <2>18, <2>19,
       <2>20, <2>21, <2>22, <2>23 DEF WorkerStep
<1>2. ASSUME DispatcherStep PROVE RetentionSound'
  <2>1. ASSUME NEW t \in AppThreads, ReadFault(t) PROVE RetentionSound'
    BY <2>1 DEF ReadFault
  <2>2. CASE HandleFault  BY <2>2 DEF HandleFault, ClaimSlot
  <2>3. CASE Dispatch  BY <2>3 DEF Dispatch
  <2>4. CASE StopPager  BY <2>4 DEF StopPager
  <2> QED
    BY <1>2, <2>1, <2>2, <2>3, <2>4 DEF DispatcherStep
<1>3. ASSUME NEW c \in Chunks, Watchdog(c) PROVE RetentionSound'
  BY <1>3 DEF Watchdog, AbandonFetch
<1>4. ASSUME NEW c \in Chunks, BackoffExpires(c) PROVE RetentionSound'
  BY <1>4 DEF BackoffExpires
<1>5. ASSUME NEW t \in AppThreads, AppStep(t) PROVE RetentionSound'
  <2>1. ASSUME NEW c \in Chunks, Touch(t, c) PROVE RetentionSound'
    BY <2>1 DEF Touch
  <2>2. ASSUME NEW c \in Chunks, NotifyAccess(t, c) PROVE RetentionSound'
    BY <2>2, FifoWithout DEF NotifyAccess
  <2>3. CASE Finish(t)  BY <2>3 DEF Finish
  <2>4. CASE Leave(t)  BY <2>4 DEF Leave
  <2> QED
    BY <1>5, <2>1, <2>2, <2>3, <2>4 DEF AppStep
<1>6. CASE UNCHANGED vars  BY <1>6
<1> QED
  BY <1>1, <1>2, <1>3, <1>4, <1>5, <1>6 DEF Next, Running, Terminated

\* A pin is taken when its chunk has none, and given back by its owner.
LEMMA PinsExactStep == IndInv /\ [Next]_vars => PinsExact'
<1> SUFFICES ASSUME IndInv, [Next]_vars PROVE PinsExact'
  OBVIOUS
<1>h. /\ PinsExact /\ RetentionSound /\ LocksOwned /\ StagesMatch /\ LocalsSet
      /\ pc \in [Workers -> WorkerLabels]
      /\ chunk \in [Workers -> Chunks \cup {NoChunk}]
      /\ job \in [Workers -> {"demand", "prefetch"}]
      /\ state \in [Chunks -> {"ABSENT", "FETCHING", "RESIDENT"}]
      /\ pin \in [Chunks -> Nat]
      /\ pinned_prefetch_queue \in Seq(Chunks)
      /\ Range(pinned_prefetch_queue) \subseteq Chunks
  BY FifoRange DEF IndInv, TypeOK, ChunkType, BudgetType, WorkerType
<1> USE <1>h, NamesAssumption DEF PinsExact, HoldsPin, LocksOwned,
        StagesMatch, LocalsSet, Unowned, Fetching, Finished, ToppingUp,
        InFlight, Goto, WorkerLabels
<1>1. ASSUME NEW w \in Workers, WorkerStep(w) PROVE PinsExact'
  <2>1. CASE PickDemand(w)
    <3> HIDE DEF PinsExact, HoldsPin, LocksOwned, StagesMatch, LocalsSet,
          Unowned, Fetching, Finished, ToppingUp, InFlight, Goto, WorkerLabels
    <3>1. /\ \A u \in Workers : HoldsPin(u)' <=> HoldsPin(u)
          /\ \A u \in Workers : HoldsPin(u) => chunk'[u] = chunk[u]
      BY <2>1, <1>h, NamesAssumption
         DEF PickDemand, HoldsPin, InFlight, Goto, WorkerLabels
    <3>2. UNCHANGED <<pin, pinned_prefetch_queue>>
      BY <2>1 DEF PickDemand
    <3> QED
      BY <3>1, <3>2, <1>h, PinsFrame
  <2>2. CASE PickPrefetch(w)
    <3> HIDE DEF PinsExact, HoldsPin, LocksOwned, StagesMatch, LocalsSet,
          Unowned, Fetching, Finished, ToppingUp, InFlight, Goto, WorkerLabels
    <3>1. /\ \A u \in Workers : HoldsPin(u)' <=> HoldsPin(u)
          /\ \A u \in Workers : HoldsPin(u) => chunk'[u] = chunk[u]
      BY <2>2, <1>h, NamesAssumption
         DEF PickPrefetch, HoldsPin, InFlight, Goto, WorkerLabels
    <3>2. UNCHANGED <<pin, pinned_prefetch_queue>>
      BY <2>2 DEF PickPrefetch
    <3> QED
      BY <3>1, <3>2, <1>h, PinsFrame
  <2>3. CASE Exit(w)  BY <2>3 DEF Exit
  <2>4. CASE Done(w)  BY <2>4 DEF Done, Forget
  <2>5. CASE LockDemand(w)
    <3> HIDE DEF PinsExact, HoldsPin, LocksOwned, StagesMatch, LocalsSet,
          Unowned, Fetching, Finished, ToppingUp, InFlight, Goto, WorkerLabels
    <3>1. /\ \A u \in Workers : HoldsPin(u)' <=> HoldsPin(u)
          /\ \A u \in Workers : HoldsPin(u) => chunk'[u] = chunk[u]
      BY <2>5, <1>h, NamesAssumption
         DEF LockDemand, HoldsPin, InFlight, Goto, WorkerLabels
    <3>2. UNCHANGED <<pin, pinned_prefetch_queue>>
      BY <2>5 DEF LockDemand
    <3> QED
      BY <3>1, <3>2, <1>h, PinsFrame
  <2>6. CASE LockPrefetch(w)
    <3> HIDE DEF PinsExact, HoldsPin, LocksOwned, StagesMatch, LocalsSet,
          Unowned, Fetching, Finished, ToppingUp, InFlight, Goto, WorkerLabels
    <3>1. /\ \A u \in Workers : HoldsPin(u)' <=> HoldsPin(u)
          /\ \A u \in Workers : HoldsPin(u) => chunk'[u] = chunk[u]
      BY <2>6, <1>h, NamesAssumption
         DEF LockPrefetch, HoldsPin, InFlight, Goto, WorkerLabels
    <3>2. UNCHANGED <<pin, pinned_prefetch_queue>>
      BY <2>6 DEF LockPrefetch
    <3> QED
      BY <3>1, <3>2, <1>h, PinsFrame
  <2>7. CASE PinTarget(w)
    <3> HIDE DEF PinsExact, HoldsPin, LocksOwned, StagesMatch, LocalsSet,
          Unowned, Fetching, Finished, ToppingUp, InFlight, Goto, WorkerLabels
    <3>1. /\ pc[w] = "pin" /\ chunk[w] \in Chunks
          /\ pin' = [pin EXCEPT ![chunk[w]] = @ + 1]
          /\ UNCHANGED <<pinned_prefetch_queue, chunk, job>>
          /\ Goto(w, "budget")
      BY <2>7, <1>h DEF PinTarget, LocalsSet
    <3>2. ~ HoldsPin(w)
      BY <3>1, <1>h DEF HoldsPin, InFlight, StagesMatch
    <3>3. /\ chunk[w] \notin Range(pinned_prefetch_queue)
          /\ \A u \in Workers : HoldsPin(u) => chunk[u] # chunk[w]
      BY <3>1, <3>2, <1>h, SoleOwner DEF Unowned, Fetching, InFlight
    <3>4. \A u \in Workers : HoldsPin(u)' <=> (u = w \/ HoldsPin(u))
      BY <3>1, <1>h
           DEF HoldsPin, InFlight, Goto, WorkerLabels, StagesMatch
    <3> QED
      BY <3>1, <3>3, <3>4, <1>h, PinsTaken
  <2>8. CASE Reserve(w)  BY <2>8 DEF Reserve, InEnsureBudget, FetchOrder
  <2>9. CASE SelectVictim(w)  BY <2>9 DEF SelectVictim, InEnsureBudget
  <2>10. CASE DeclinePrefetch(w)
    <3> HIDE DEF PinsExact, HoldsPin, LocksOwned, StagesMatch, LocalsSet,
          Unowned, Fetching, Finished, ToppingUp, InFlight, Goto, WorkerLabels
    <3>1. /\ pc[w] = "budget" /\ job[w] = "prefetch"
          /\ pc' = [pc EXCEPT ![w] = "abandon"]
          /\ UNCHANGED <<pin, pinned_prefetch_queue, chunk, job>>
      BY <2>10 DEF DeclinePrefetch, InEnsureBudget, Goto
    <3>2. \A u \in Workers : HoldsPin(u)' <=> HoldsPin(u)
      BY <3>1, <1>h DEF HoldsPin, InFlight, WorkerLabels
    <3> QED
      BY <3>1, <3>2, PinsFrame
  <2>11. CASE BreakPin(w)
    <3> HIDE DEF PinsExact, HoldsPin, LocksOwned, StagesMatch, LocalsSet,
          Unowned, Fetching, Finished, ToppingUp, InFlight, Goto, WorkerLabels
    <3>1. PICK c \in Breakable(w) :
            /\ pinned_prefetch_queue' = Without(pinned_prefetch_queue, c)
            /\ pin' = [pin EXCEPT ![c] = @ - 1]
      BY <2>11 DEF BreakPin
    <3>2. c \in Range(pinned_prefetch_queue) /\ c \in Chunks
      BY <1>h DEF Breakable
    <3>3. Range(pinned_prefetch_queue)' = Range(pinned_prefetch_queue) \ {c}
      BY <3>1, <3>2, <1>h, FifoWithout DEF RetentionSound
    <3>4. /\ UNCHANGED chunk
          /\ \A u \in Workers : HoldsPin(u)' <=> HoldsPin(u)
      BY <2>11, <1>h
         DEF BreakPin, InEnsureBudget, HoldsPin, InFlight, Goto, WorkerLabels
    <3> QED
      BY <3>1, <3>2, <3>3, <3>4, <1>h, PinsDropped
  <2>12. CASE Infeasible(w)
    <3> HIDE DEF PinsExact, HoldsPin, LocksOwned, StagesMatch, LocalsSet,
          Unowned, Fetching, Finished, ToppingUp, InFlight, Goto, WorkerLabels
    <3>1. /\ \A u \in Workers : HoldsPin(u)' <=> HoldsPin(u)
          /\ \A u \in Workers : HoldsPin(u) => chunk'[u] = chunk[u]
      BY <2>12, <1>h, NamesAssumption
         DEF Infeasible, HoldsPin, InFlight, Goto, WorkerLabels, InEnsureBudget
    <3>2. UNCHANGED <<pin, pinned_prefetch_queue>>
      BY <2>12 DEF Infeasible
    <3> QED
      BY <3>1, <3>2, <1>h, PinsFrame
  <2>13. CASE EvictChunk(w)
    <3> HIDE DEF PinsExact, HoldsPin, LocksOwned, StagesMatch, LocalsSet,
          Unowned, Fetching, Finished, ToppingUp, InFlight, Goto, WorkerLabels
    <3>1. /\ \A u \in Workers : HoldsPin(u)' <=> HoldsPin(u)
          /\ \A u \in Workers : HoldsPin(u) => chunk'[u] = chunk[u]
      BY <2>13, <1>h, NamesAssumption
         DEF EvictChunk, HoldsPin, InFlight, Goto, WorkerLabels, Punch
    <3>2. UNCHANGED <<pin, pinned_prefetch_queue>>
      BY <2>13 DEF EvictChunk
    <3> QED
      BY <3>1, <3>2, <1>h, PinsFrame
  <2>14. CASE Abandon(w)
    <3> HIDE DEF PinsExact, HoldsPin, LocksOwned, StagesMatch, LocalsSet,
          Unowned, Fetching, Finished, ToppingUp, InFlight, Goto, WorkerLabels
    <3>1. CASE job[w] = "demand"
      <4>1. /\ \A u \in Workers : HoldsPin(u)' <=> HoldsPin(u)
            /\ \A u \in Workers : HoldsPin(u) => chunk'[u] = chunk[u]
        BY <2>14, <3>1, <1>h
           DEF Abandon, Forget, HoldsPin, InFlight, Goto, WorkerLabels
      <4>2. UNCHANGED <<pin, pinned_prefetch_queue>>
        BY <2>14, <3>1 DEF Abandon
      <4> QED
        BY <4>1, <4>2, <1>h, PinsFrame
    <3>2. CASE job[w] = "prefetch"
      <4>1. /\ pc[w] = "abandon" /\ chunk[w] \in Chunks
            /\ pin' = [pin EXCEPT ![chunk[w]] = @ - 1]
            /\ UNCHANGED <<pinned_prefetch_queue, chunk, job>>
            /\ Goto(w, "done")
        BY <2>14, <3>2, <1>h DEF Abandon, LocalsSet
      <4>2. HoldsPin(w)
        BY <4>1, <3>2 DEF HoldsPin
      <4>3. \A u \in Workers : HoldsPin(u) /\ u # w => chunk[u] # chunk[w]
        BY <4>1, <1>h, SoleOwner DEF Unowned
      <4>4. \A u \in Workers : HoldsPin(u)' <=> (u # w /\ HoldsPin(u))
        BY <4>1, <4>2, <1>h DEF HoldsPin, InFlight, Goto, WorkerLabels
      <4> QED
        BY <4>1, <4>2, <4>3, <4>4, <1>h, PinsGiven
    <3> QED
      BY <3>1, <3>2, <1>h
  <2>15. CASE FetchRead(w)  BY <2>15 DEF FetchRead, FetchOrder, After
  <2>16. CASE FetchResolve(w)  BY <2>16 DEF FetchResolve, FetchOrder, After
  <2>17. CASE Commit(w)
    <3> HIDE DEF PinsExact, HoldsPin, LocksOwned, StagesMatch, LocalsSet,
          Unowned, Fetching, Finished, ToppingUp, InFlight, Goto, WorkerLabels
    <3>1. CASE job[w] = "demand"
      <4>1. /\ pc[w] = "commit" /\ chunk[w] \in Chunks
            /\ pin' = [pin EXCEPT ![chunk[w]] = @ + 1]
            /\ UNCHANGED <<pinned_prefetch_queue, chunk, job>>
            /\ Goto(w, "resident")
        BY <2>17, <3>1, <1>h DEF Commit, LocalsSet, PinAtCommit
      <4>2. ~ HoldsPin(w)
        BY <4>1, <3>1, <1>h DEF HoldsPin, InFlight
      <4>3. /\ chunk[w] \notin Range(pinned_prefetch_queue)
            /\ \A u \in Workers : HoldsPin(u) => chunk[u] # chunk[w]
        BY <4>1, <4>2, <1>h, SoleOwner DEF Unowned, Fetching, InFlight
      <4>4. \A u \in Workers : HoldsPin(u)' <=> (u = w \/ HoldsPin(u))
        BY <4>1, <3>1, <1>h
           DEF HoldsPin, InFlight, Goto, WorkerLabels, StagesMatch
      <4> QED
        BY <4>1, <4>3, <4>4, <1>h, PinsTaken
    <3>2. CASE job[w] # "demand"
      <4>1. /\ \A u \in Workers : HoldsPin(u)' <=> HoldsPin(u)
            /\ \A u \in Workers : HoldsPin(u) => chunk'[u] = chunk[u]
        BY <2>17, <3>2, <1>h, NamesAssumption
           DEF Commit, HoldsPin, InFlight, Goto, WorkerLabels
      <4>2. UNCHANGED <<pin, pinned_prefetch_queue>>
        BY <2>17, <3>2 DEF Commit, PinAtCommit
      <4> QED
        BY <4>1, <4>2, <1>h, PinsFrame
    <3> QED
      BY <3>1, <3>2
  <2>18. CASE SetResident(w)
    <3> HIDE DEF PinsExact, HoldsPin, LocksOwned, StagesMatch, LocalsSet,
          Unowned, Fetching, Finished, ToppingUp, InFlight, Goto, WorkerLabels
    <3>1. /\ \A u \in Workers : HoldsPin(u)' <=> HoldsPin(u)
          /\ \A u \in Workers : HoldsPin(u) => chunk'[u] = chunk[u]
      BY <2>18, <1>h, NamesAssumption
         DEF SetResident, HoldsPin, InFlight, Goto, WorkerLabels
    <3>2. UNCHANGED <<pin, pinned_prefetch_queue>>
      BY <2>18 DEF SetResident
    <3> QED
      BY <3>1, <3>2, <1>h, PinsFrame
  <2>19. CASE TopUpNeed(w)
    <3> HIDE DEF PinsExact, HoldsPin, LocksOwned, StagesMatch, LocalsSet,
          Unowned, Fetching, Finished, ToppingUp, InFlight, Goto, WorkerLabels
    <3>1. /\ \A u \in Workers : HoldsPin(u)' <=> HoldsPin(u)
          /\ \A u \in Workers : HoldsPin(u) => chunk'[u] = chunk[u]
      BY <2>19, <1>h, NamesAssumption
         DEF TopUpNeed, HoldsPin, InFlight, Goto, WorkerLabels,
             StagesMatch, ToppingUp
    <3>2. UNCHANGED <<pin, pinned_prefetch_queue>>
      BY <2>19 DEF TopUpNeed
    <3> QED
      BY <3>1, <3>2, <1>h, PinsFrame
  <2>20. CASE Predict(w)
    <3> HIDE DEF PinsExact, HoldsPin, LocksOwned, StagesMatch, LocalsSet,
          Unowned, Fetching, Finished, ToppingUp, InFlight, Goto, WorkerLabels
    <3>1. /\ \A u \in Workers : HoldsPin(u)' <=> HoldsPin(u)
          /\ \A u \in Workers : HoldsPin(u) => chunk'[u] = chunk[u]
      BY <2>20, <1>h, NamesAssumption
         DEF Predict, HoldsPin, InFlight, Goto, WorkerLabels,
             StagesMatch, ToppingUp
    <3>2. UNCHANGED <<pin, pinned_prefetch_queue>>
      BY <2>20 DEF Predict
    <3> QED
      BY <3>1, <3>2, <1>h, PinsFrame
  <2>21. CASE EnqueuePrefetch(w)
    <3> HIDE DEF PinsExact, HoldsPin, LocksOwned, StagesMatch, LocalsSet,
          Unowned, Fetching, Finished, ToppingUp, InFlight, Goto, WorkerLabels
    <3>1. /\ \A u \in Workers : HoldsPin(u)' <=> HoldsPin(u)
          /\ \A u \in Workers : HoldsPin(u) => chunk'[u] = chunk[u]
      BY <2>21, <1>h, NamesAssumption
         DEF EnqueuePrefetch, HoldsPin, InFlight, Goto, WorkerLabels,
             StagesMatch, ToppingUp
    <3>2. UNCHANGED <<pin, pinned_prefetch_queue>>
      BY <2>21 DEF EnqueuePrefetch
    <3> QED
      BY <3>1, <3>2, <1>h, PinsFrame
  <2>22. CASE ReleasePin(w)
    <3> HIDE DEF PinsExact, HoldsPin, LocksOwned, StagesMatch, LocalsSet,
          Unowned, Fetching, Finished, ToppingUp, InFlight, Goto, WorkerLabels
    <3>1. /\ pc[w] = "unpin" /\ chunk[w] \in Chunks
          /\ UNCHANGED <<chunk, job>> /\ Goto(w, "unlock")
      BY <2>22, <1>h DEF ReleasePin, LocalsSet
    <3>2. /\ HoldsPin(w)
          /\ \A u \in Workers : HoldsPin(u) /\ u # w => chunk[u] # chunk[w]
      BY <3>1, <1>h, SoleOwner DEF Unowned, HoldsPin
    <3>3. \A u \in Workers : HoldsPin(u)' <=> (u # w /\ HoldsPin(u))
      BY <3>1, <1>h DEF HoldsPin, InFlight, Goto, WorkerLabels
    <3>4. CASE job[w] = "prefetch" /\ prefetch_retention_pinned
      <4> DEFINE s == pinned_prefetch_queue
                 c == chunk[w]
                 h == Head(s)
                 r == Tail(s)
      <4>1. pin[c] = 1 /\ c \notin Range(s)
        BY <3>2, <1>h DEF PinsExact
      <4>2. CASE Len(s) >= prefetch_depth
        <5>1. /\ s' = Append(r, c)
              /\ pin' = [pin EXCEPT ![h] = @ - 1]
          BY <2>22, <3>4, <4>2 DEF ReleasePin, Retain
        <5>2. s # <<>>
          BY <4>2, <1>h, SizesAssumption
        <5>3. /\ h \in Range(s) /\ IsInjective(r) /\ r \in Seq(Chunks)
              /\ Range(r) = Range(s) \ {h}
          BY <5>2, <1>h, FifoTail DEF RetentionSound
        <5> HIDE DEF r, h
        <5>4. Range(s') = (Range(s) \ {h}) \cup {c}
          BY <5>1, <5>3, <4>1, <3>1, FifoAppend
        <5>5. pin[h] = 1 /\ pin'[h] = 0 /\ h # c /\ h \in Chunks
          BY <5>1, <5>3, <4>1, <1>h DEF PinsExact
        <5>6. \A d \in Chunks : d # h => pin'[d] = pin[d]
          BY <5>1, <1>h
        <5>7. \A u \in Workers : HoldsPin(u) => chunk[u] # h
          BY <5>3, <1>h DEF PinsExact
        <5>8. \A d \in Range(s') : pin'[d] = 1
          BY <5>3, <5>4, <5>5, <5>6, <4>1, <3>1, <1>h DEF PinsExact
        <5>9. \A u \in Workers : HoldsPin(u)' =>
                pin'[chunk'[u]] = 1 /\ chunk'[u] \notin Range(s')
          <6> SUFFICES ASSUME NEW u \in Workers, u # w, HoldsPin(u)
                       PROVE  pin'[chunk[u]] = 1 /\ chunk[u] \notin Range(s')
            BY <3>1, <3>3
          <6>1. chunk[u] # c /\ chunk[u] # h
            BY <3>2, <5>7
          <6>2. /\ chunk[u] \in Chunks /\ pin[chunk[u]] = 1
                /\ chunk[u] \notin Range(s)
            BY <1>h DEF PinsExact, LocalsSet, HoldsPin, InFlight
          <6> QED
            BY <6>1, <6>2, <5>4, <5>6
        <5>10. \A d \in Chunks \ Range(s') : pin'[d] # 0 =>
                 \E u \in Workers : chunk'[u] = d /\ HoldsPin(u)'
          <6> SUFFICES ASSUME NEW d \in Chunks \ Range(s'), pin'[d] # 0
                       PROVE  \E u \in Workers : chunk[u] = d /\ HoldsPin(u)'
            BY <3>1
          <6>1. d # h /\ d # c /\ d \notin Range(s) /\ pin[d] # 0
            BY <5>4, <5>5, <5>6
          <6>2. PICK u \in Workers : chunk[u] = d /\ HoldsPin(u)
            BY <6>1, <1>h DEF PinsExact
          <6> QED
            BY <6>1, <6>2, <3>3
        <5> QED
          BY <5>8, <5>9, <5>10 DEF PinsExact
      <4>3. CASE ~ (Len(s) >= prefetch_depth)
        <5>1. s' = Append(s, c) /\ UNCHANGED pin
          BY <2>22, <3>4, <4>3 DEF ReleasePin, Retain
        <5>2. Range(s') = Range(s) \cup {c}
          BY <5>1, <4>1, <3>1, <1>h, FifoAppend DEF RetentionSound
        <5> QED
          BY <5>1, <5>2, <4>1, <3>1, <3>2, <3>3, <1>h DEF PinsExact
      <4> QED
        BY <4>2, <4>3
    <3>5. CASE ~ (job[w] = "prefetch" /\ prefetch_retention_pinned)
      <4>1. /\ pin' = [pin EXCEPT ![chunk[w]] = @ - 1]
            /\ UNCHANGED pinned_prefetch_queue
        BY <2>22, <3>5 DEF ReleasePin
      <4> QED
        BY <4>1, <3>1, <3>2, <3>3, <1>h, PinsGiven
    <3> QED
      BY <3>4, <3>5
  <2>23. CASE Unlock(w)
    <3> HIDE DEF PinsExact, HoldsPin, LocksOwned, StagesMatch, LocalsSet,
          Unowned, Fetching, Finished, ToppingUp, InFlight, Goto, WorkerLabels
    <3>1. /\ \A u \in Workers : HoldsPin(u)' <=> HoldsPin(u)
          /\ \A u \in Workers : HoldsPin(u) => chunk'[u] = chunk[u]
      BY <2>23, <1>h, NamesAssumption
         DEF Unlock, HoldsPin, InFlight, Goto, WorkerLabels, Forget
    <3>2. UNCHANGED <<pin, pinned_prefetch_queue>>
      BY <2>23 DEF Unlock
    <3> QED
      BY <3>1, <3>2, <1>h, PinsFrame
  <2> QED
    BY <1>1, <2>1, <2>2, <2>3, <2>4, <2>5, <2>6, <2>7, <2>8, <2>9, <2>10,
       <2>11, <2>12, <2>13, <2>14, <2>15, <2>16, <2>17, <2>18, <2>19,
       <2>20, <2>21, <2>22, <2>23 DEF WorkerStep
<1>2. ASSUME DispatcherStep PROVE PinsExact'
  <2>1. ASSUME NEW t \in AppThreads, ReadFault(t) PROVE PinsExact'
    BY <2>1 DEF ReadFault
  <2>2. CASE HandleFault  BY <2>2 DEF HandleFault
  <2>3. CASE Dispatch  BY <2>3 DEF Dispatch
  <2>4. CASE StopPager  BY <2>4 DEF StopPager
  <2> QED
    BY <1>2, <2>1, <2>2, <2>3, <2>4 DEF DispatcherStep
<1>3. ASSUME NEW c \in Chunks, Watchdog(c) PROVE PinsExact'
  BY <1>3 DEF Watchdog
<1>4. ASSUME NEW c \in Chunks, BackoffExpires(c) PROVE PinsExact'
  BY <1>4 DEF BackoffExpires
<1>5. ASSUME NEW t \in AppThreads, AppStep(t) PROVE PinsExact'
  <2>1. ASSUME NEW c \in Chunks, Touch(t, c) PROVE PinsExact'
    BY <2>1 DEF Touch
  <2>2. ASSUME NEW c \in Chunks, NotifyAccess(t, c) PROVE PinsExact'
    BY <2>2, FifoWithout DEF NotifyAccess, RetentionSound
  <2>3. CASE Finish(t)  BY <2>3 DEF Finish
  <2>4. CASE Leave(t)  BY <2>4 DEF Leave
  <2> QED
    BY <1>5, <2>1, <2>2, <2>3, <2>4 DEF AppStep
<1>6. CASE UNCHANGED vars  BY <1>6
<1> QED
  BY <1>1, <1>2, <1>3, <1>4, <1>5, <1>6 DEF Next, Running, Terminated

\* The chunk table keeps its type; a pin is only given back by its owner.
LEMMA ChunkTypeStep == IndInv /\ [Next]_vars => ChunkType'
<1> SUFFICES ASSUME IndInv, [Next]_vars PROVE ChunkType'
  OBVIOUS
<1>h. ChunkType /\ WorkerType /\ ThreadType /\ BudgetType
      /\ LocalsSet /\ PinsExact /\ Range(pinned_prefetch_queue) \subseteq Chunks
  BY FifoRange DEF IndInv, TypeOK, BudgetType
<1> USE <1>h DEF ChunkType, LocalsSet, Goto, WorkerLabels, WorkerType,
        ThreadType
<1>1. ASSUME NEW w \in Workers, WorkerStep(w) PROVE ChunkType'
  <2>1. CASE PickDemand(w)  BY <2>1 DEF PickDemand
  <2>2. CASE PickPrefetch(w)  BY <2>2 DEF PickPrefetch
  <2>3. CASE Exit(w)  BY <2>3 DEF Exit
  <2>4. CASE Done(w)  BY <2>4 DEF Done, Forget
  <2>5. CASE LockDemand(w)  BY <2>5 DEF LockDemand
  <2>6. CASE LockPrefetch(w)  BY <2>6 DEF LockPrefetch
  <2>7. CASE PinTarget(w)  BY <2>7 DEF PinTarget
  <2>8. CASE Reserve(w)  BY <2>8 DEF Reserve, InEnsureBudget, FetchOrder
  <2>9. CASE SelectVictim(w)  BY <2>9 DEF SelectVictim, InEnsureBudget
  <2>10. CASE DeclinePrefetch(w)
    BY <2>10 DEF DeclinePrefetch, InEnsureBudget
  <2>11. CASE BreakPin(w)
    BY <2>11 DEF BreakPin, InEnsureBudget, Breakable, PinsExact
  <2>12. CASE Infeasible(w)  BY <2>12 DEF Infeasible, InEnsureBudget
  <2>13. CASE EvictChunk(w)  BY <2>13 DEF EvictChunk, Punch
  <2>14. CASE Abandon(w)
    BY <2>14 DEF Abandon, Forget, AbandonFetch, PinsExact, HoldsPin
  <2>15. CASE FetchRead(w)  BY <2>15 DEF FetchRead, FetchOrder, After
  <2>16. CASE FetchResolve(w)  BY <2>16 DEF FetchResolve, FetchOrder, After
  <2>17. CASE Commit(w)  BY <2>17 DEF Commit, PinAtCommit
  <2>18. CASE SetResident(w)  BY <2>18 DEF SetResident
  <2>19. CASE TopUpNeed(w)  BY <2>19 DEF TopUpNeed
  <2>20. CASE Predict(w)  BY <2>20 DEF Predict
  <2>21. CASE EnqueuePrefetch(w)  BY <2>21 DEF EnqueuePrefetch
  <2>22. CASE ReleasePin(w)
    <3> HIDE DEF ChunkType, LocalsSet, Goto, WorkerLabels, WorkerType,
          ThreadType
    <3> DEFINE s == pinned_prefetch_queue
               c == chunk[w]
    <3>1. /\ pc[w] = "unpin" /\ c \in Chunks
          /\ UNCHANGED <<state, chunkLock, backoff, pageVars>>
      BY <2>22, <1>h DEF ReleasePin, LocalsSet
    <3>2. pin[c] = 1
      BY <3>1, <1>h DEF PinsExact, HoldsPin, WorkerType
    <3>3. CASE UNCHANGED pin
      BY <3>1, <3>3, <1>h DEF ChunkType
    <3>4. CASE pin' = [pin EXCEPT ![c] = @ - 1]
      BY <3>1, <3>2, <3>4, <1>h DEF ChunkType
    <3>5. CASE /\ Len(s) >= prefetch_depth
               /\ pin' = [pin EXCEPT ![Head(s)] = @ - 1]
      <4>1. s \in Seq(Chunks) /\ s # <<>>
        <5>1. s \in Seq(Chunks)
          BY <1>h DEF BudgetType
        <5> QED
          BY <5>1, <3>5, SizesAssumption
      <4>2. Head(s) \in Range(s)
        BY <4>1 DEF Range
      <4>3. Head(s) \in Chunks /\ pin[Head(s)] = 1
        BY <4>1, <4>2, <1>h DEF PinsExact
      <4> QED
        BY <3>1, <3>5, <4>3, <1>h DEF ChunkType
    <3> QED
      BY <2>22, <3>3, <3>4, <3>5 DEF ReleasePin, Retain
  <2>23. CASE Unlock(w)  BY <2>23 DEF Unlock, Forget
  <2> QED
    BY <1>1, <2>1, <2>2, <2>3, <2>4, <2>5, <2>6, <2>7, <2>8, <2>9, <2>10,
       <2>11, <2>12, <2>13, <2>14, <2>15, <2>16, <2>17, <2>18, <2>19,
       <2>20, <2>21, <2>22, <2>23 DEF WorkerStep
<1>2. ASSUME DispatcherStep PROVE ChunkType'
  <2>1. ASSUME NEW t \in AppThreads, ReadFault(t) PROVE ChunkType'
    BY <2>1 DEF ReadFault
  <2>2. CASE HandleFault  BY <2>2 DEF HandleFault, ClaimSlot
  <2>3. CASE Dispatch  BY <2>3 DEF Dispatch
  <2>4. CASE StopPager  BY <2>4 DEF StopPager
  <2> QED
    BY <1>2, <2>1, <2>2, <2>3, <2>4 DEF DispatcherStep
<1>3. ASSUME NEW c \in Chunks, Watchdog(c) PROVE ChunkType'
  BY <1>3 DEF Watchdog, AbandonFetch
<1>4. ASSUME NEW c \in Chunks, BackoffExpires(c) PROVE ChunkType'
  BY <1>4 DEF BackoffExpires
<1>5. ASSUME NEW t \in AppThreads, AppStep(t) PROVE ChunkType'
  <2>1. ASSUME NEW c \in Chunks, Touch(t, c) PROVE ChunkType'
    BY <2>1 DEF Touch
  <2>2. ASSUME NEW c \in Chunks, NotifyAccess(t, c) PROVE ChunkType'
    BY <2>2 DEF NotifyAccess, PinsExact
  <2>3. CASE Finish(t)  BY <2>3 DEF Finish
  <2>4. CASE Leave(t)  BY <2>4 DEF Leave
  <2> QED
    BY <1>5, <2>1, <2>2, <2>3, <2>4 DEF AppStep
<1>6. CASE UNCHANGED vars  BY <1>6
<1> QED
  BY <1>1, <1>2, <1>3, <1>4, <1>5, <1>6 DEF Next, Running, Terminated

\* The budget's variables keep their type.
LEMMA BudgetTypeStep == IndInv /\ [Next]_vars => BudgetType'
<1> SUFFICES ASSUME IndInv, [Next]_vars PROVE BudgetType'
  OBVIOUS
<1>h. BudgetType /\ WorkerType /\ LocalsSet /\ RetentionSound
      /\ Range(pinned_prefetch_queue) \subseteq Chunks
  BY FifoRange DEF IndInv, TypeOK, BudgetType
<1> USE <1>h, SizesAssumption DEF BudgetType, LocalsSet, Goto, WorkerLabels,
        WorkerType
<1>1. ASSUME NEW w \in Workers, WorkerStep(w) PROVE BudgetType'
  <2>1. CASE PickDemand(w)  BY <2>1 DEF PickDemand
  <2>2. CASE PickPrefetch(w)  BY <2>2 DEF PickPrefetch
  <2>3. CASE Exit(w)  BY <2>3 DEF Exit
  <2>4. CASE Done(w)  BY <2>4 DEF Done, Forget
  <2>5. CASE LockDemand(w)  BY <2>5 DEF LockDemand
  <2>6. CASE LockPrefetch(w)  BY <2>6 DEF LockPrefetch
  <2>7. CASE PinTarget(w)  BY <2>7 DEF PinTarget
  <2>8. CASE Reserve(w)  BY <2>8 DEF Reserve, InEnsureBudget, FetchOrder
  <2>9. CASE SelectVictim(w)  BY <2>9 DEF SelectVictim, InEnsureBudget
  <2>10. CASE DeclinePrefetch(w)
    BY <2>10 DEF DeclinePrefetch, InEnsureBudget
  <2>11. CASE BreakPin(w)
    BY <2>11, FifoWithout DEF BreakPin, InEnsureBudget, Breakable,
           RetentionSound
  <2>12. CASE Infeasible(w)  BY <2>12 DEF Infeasible, InEnsureBudget
  <2>13. CASE EvictChunk(w)  BY <2>13 DEF EvictChunk
  <2>14. CASE Abandon(w)  BY <2>14 DEF Abandon, Forget
  <2>15. CASE FetchRead(w)  BY <2>15 DEF FetchRead, FetchOrder, After
  <2>16. CASE FetchResolve(w)  BY <2>16 DEF FetchResolve, FetchOrder, After
  <2>17. CASE Commit(w)
    <3> HIDE DEF BudgetType, LocalsSet, Goto, WorkerLabels, WorkerType
    <3>1. ChunkLen[chunk[w]] \in Nat
      BY <2>17, <1>h, SizesAssumption DEF Commit, LocalsSet
    <3> QED
      BY <2>17, <3>1, <1>h DEF Commit, CommitReserved, BudgetType
  <2>18. CASE SetResident(w)  BY <2>18 DEF SetResident
  <2>19. CASE TopUpNeed(w)  BY <2>19 DEF TopUpNeed
  <2>20. CASE Predict(w)  BY <2>20 DEF Predict
  <2>21. CASE EnqueuePrefetch(w)  BY <2>21 DEF EnqueuePrefetch
  <2>22. CASE ReleasePin(w)
    <3> HIDE DEF BudgetType, LocalsSet, Goto, WorkerLabels, WorkerType
    <3> DEFINE s == pinned_prefetch_queue
               c == chunk[w]
    <3>1. /\ c \in Chunks /\ s \in Seq(Chunks)
          /\ UNCHANGED <<budgetLock, resident_bytes, reserved_bytes>>
      BY <2>22, <1>h DEF ReleasePin, LocalsSet, BudgetType
    <3>2. CASE UNCHANGED s
      BY <3>1, <3>2, <1>h DEF BudgetType
    <3>3. CASE s' = Append(s, c)
      BY <3>1, <3>3, <1>h DEF BudgetType
    <3>4. CASE Len(s) >= prefetch_depth /\ s' = Append(Tail(s), c)
      <4>1. s # <<>>
        BY <3>1, <3>4, SizesAssumption
      <4>2. Tail(s) \in Seq(Chunks)
        BY <3>1, <4>1
      <4> QED
        BY <3>1, <3>4, <4>2, <1>h DEF BudgetType
    <3> QED
      BY <2>22, <3>2, <3>3, <3>4 DEF ReleasePin, Retain
  <2>23. CASE Unlock(w)  BY <2>23 DEF Unlock, Forget
  <2> QED
    BY <1>1, <2>1, <2>2, <2>3, <2>4, <2>5, <2>6, <2>7, <2>8, <2>9, <2>10,
       <2>11, <2>12, <2>13, <2>14, <2>15, <2>16, <2>17, <2>18, <2>19,
       <2>20, <2>21, <2>22, <2>23 DEF WorkerStep
<1>2. ASSUME DispatcherStep PROVE BudgetType'
  <2>1. ASSUME NEW t \in AppThreads, ReadFault(t) PROVE BudgetType'
    BY <2>1 DEF ReadFault
  <2>2. CASE HandleFault  BY <2>2 DEF HandleFault
  <2>3. CASE Dispatch  BY <2>3 DEF Dispatch
  <2>4. CASE StopPager  BY <2>4 DEF StopPager
  <2> QED
    BY <1>2, <2>1, <2>2, <2>3, <2>4 DEF DispatcherStep
<1>3. ASSUME NEW c \in Chunks, Watchdog(c) PROVE BudgetType'
  BY <1>3 DEF Watchdog
<1>4. ASSUME NEW c \in Chunks, BackoffExpires(c) PROVE BudgetType'
  BY <1>4 DEF BackoffExpires
<1>5. ASSUME NEW t \in AppThreads, AppStep(t) PROVE BudgetType'
  <2>1. ASSUME NEW c \in Chunks, Touch(t, c) PROVE BudgetType'
    BY <2>1 DEF Touch
  <2>2. ASSUME NEW c \in Chunks, NotifyAccess(t, c) PROVE BudgetType'
    BY <2>2, FifoWithout DEF NotifyAccess, RetentionSound
  <2>3. CASE Finish(t)  BY <2>3 DEF Finish
  <2>4. CASE Leave(t)  BY <2>4 DEF Leave
  <2> QED
    BY <1>5, <2>1, <2>2, <2>3, <2>4 DEF AppStep
<1>6. CASE UNCHANGED vars  BY <1>6
<1> QED
  BY <1>1, <1>2, <1>3, <1>4, <1>5, <1>6 DEF Next, Running, Terminated

\* The queues of the pool and their counter keep their type.
LEMMA PoolTypeStep == IndInv /\ [Next]_vars => PoolType'
<1> SUFFICES ASSUME IndInv, [Next]_vars PROVE PoolType'
  OBVIOUS
<1>h. PoolType /\ WorkerType /\ ThreadType /\ LocalsSet
  BY DEF IndInv, TypeOK
<1> USE <1>h DEF PoolType, LocalsSet, Goto, WorkerLabels, WorkerType,
        ThreadType
<1>1. ASSUME NEW w \in Workers, WorkerStep(w) PROVE PoolType'
  <2>1. CASE PickDemand(w)  BY <2>1 DEF PickDemand
  <2>2. CASE PickPrefetch(w)  BY <2>2 DEF PickPrefetch
  <2>3. CASE Exit(w)  BY <2>3 DEF Exit
  <2>4. CASE Done(w)  BY <2>4 DEF Done, Forget, Untrack
  <2>5. CASE LockDemand(w)  BY <2>5 DEF LockDemand
  <2>6. CASE LockPrefetch(w)  BY <2>6 DEF LockPrefetch
  <2>7. CASE PinTarget(w)  BY <2>7 DEF PinTarget
  <2>8. CASE Reserve(w)  BY <2>8 DEF Reserve, InEnsureBudget, FetchOrder
  <2>9. CASE SelectVictim(w)  BY <2>9 DEF SelectVictim, InEnsureBudget
  <2>10. CASE DeclinePrefetch(w)
    BY <2>10 DEF DeclinePrefetch, InEnsureBudget
  <2>11. CASE BreakPin(w)  BY <2>11 DEF BreakPin, InEnsureBudget
  <2>12. CASE Infeasible(w)  BY <2>12 DEF Infeasible, InEnsureBudget
  <2>13. CASE EvictChunk(w)  BY <2>13 DEF EvictChunk
  <2>14. CASE Abandon(w)  BY <2>14 DEF Abandon, Forget
  <2>15. CASE FetchRead(w)  BY <2>15 DEF FetchRead, FetchOrder, After
  <2>16. CASE FetchResolve(w)  BY <2>16 DEF FetchResolve, FetchOrder, After
  <2>17. CASE Commit(w)  BY <2>17 DEF Commit
  <2>18. CASE SetResident(w)  BY <2>18 DEF SetResident
  <2>19. CASE TopUpNeed(w)  BY <2>19 DEF TopUpNeed
  <2>20. CASE Predict(w)  BY <2>20 DEF Predict
  <2>21. CASE EnqueuePrefetch(w)
    <3> HIDE DEF PoolType, LocalsSet, Goto, WorkerLabels, WorkerType,
          ThreadType
    <3>1. cursor[w] \in Chunks /\ UNCHANGED demand_queue
      BY <2>21, <1>h DEF EnqueuePrefetch, LocalsSet
    <3>2. CASE UNCHANGED pfVars
      BY <3>1, <3>2, <1>h DEF PoolType
    <3>3. CASE /\ pf_tracked' = pf_tracked \cup {cursor[w]}
               /\ pf_queue' = Append(pf_queue, cursor[w])
               /\ pf_outstanding' = pf_outstanding + 1
      BY <3>1, <3>3, <1>h DEF PoolType
    <3> QED
      BY <2>21, <3>2, <3>3 DEF EnqueuePrefetch
  <2>22. CASE ReleasePin(w)  BY <2>22 DEF ReleasePin
  <2>23. CASE Unlock(w)  BY <2>23 DEF Unlock, Forget
  <2> QED
    BY <1>1, <2>1, <2>2, <2>3, <2>4, <2>5, <2>6, <2>7, <2>8, <2>9, <2>10,
       <2>11, <2>12, <2>13, <2>14, <2>15, <2>16, <2>17, <2>18, <2>19,
       <2>20, <2>21, <2>22, <2>23 DEF WorkerStep
<1>2. ASSUME DispatcherStep PROVE PoolType'
  <2>1. ASSUME NEW t \in AppThreads, ReadFault(t) PROVE PoolType'
    BY <2>1 DEF ReadFault
  <2>2. CASE HandleFault  BY <2>2 DEF HandleFault
  <2>3. CASE Dispatch
    <3> HIDE DEF PoolType, LocalsSet, Goto, WorkerLabels, WorkerType,
          ThreadType
    <3>1. dchunk \in Chunks /\ UNCHANGED pfVars
      BY <2>3, <1>h DEF Dispatch, LocalsSet
    <3>2. CASE UNCHANGED demand_queue
      BY <3>1, <3>2, <1>h DEF PoolType
    <3>3. CASE demand_queue' = Append(demand_queue, dchunk)
      BY <3>1, <3>3, <1>h DEF PoolType
    <3> QED
      BY <2>3, <3>2, <3>3 DEF Dispatch
  <2>4. CASE StopPager  BY <2>4 DEF StopPager
  <2> QED
    BY <1>2, <2>1, <2>2, <2>3, <2>4 DEF DispatcherStep
<1>3. ASSUME NEW c \in Chunks, Watchdog(c) PROVE PoolType'
  BY <1>3 DEF Watchdog
<1>4. ASSUME NEW c \in Chunks, BackoffExpires(c) PROVE PoolType'
  BY <1>4 DEF BackoffExpires
<1>5. ASSUME NEW t \in AppThreads, AppStep(t) PROVE PoolType'
  <2>1. ASSUME NEW c \in Chunks, Touch(t, c) PROVE PoolType'
    BY <2>1 DEF Touch
  <2>2. ASSUME NEW c \in Chunks, NotifyAccess(t, c) PROVE PoolType'
    BY <2>2 DEF NotifyAccess
  <2>3. CASE Finish(t)  BY <2>3 DEF Finish
  <2>4. CASE Leave(t)  BY <2>4 DEF Leave
  <2> QED
    BY <1>5, <2>1, <2>2, <2>3, <2>4 DEF AppStep
<1>6. CASE UNCHANGED vars  BY <1>6
<1> QED
  BY <1>1, <1>2, <1>3, <1>4, <1>5, <1>6 DEF Next, Running, Terminated

\* The workers' program counters and locals keep their type.
LEMMA WorkerTypeStep == IndInv /\ [Next]_vars => WorkerType'
<1> SUFFICES ASSUME IndInv, [Next]_vars PROVE WorkerType'
  OBVIOUS
<1>h. WorkerType /\ PoolType /\ BudgetType /\ LocalsSet
      /\ Range(pinned_prefetch_queue) \subseteq Chunks
  BY FifoRange DEF IndInv, TypeOK, BudgetType
<1> USE <1>h, SizesAssumption DEF WorkerType, LocalsSet, Goto, WorkerLabels,
        PoolType, BudgetType
<1>1. ASSUME NEW w \in Workers, WorkerStep(w) PROVE WorkerType'
  <2>1. CASE PickDemand(w)  BY <2>1 DEF PickDemand
  <2>2. CASE PickPrefetch(w)  BY <2>2 DEF PickPrefetch
  <2>3. CASE Exit(w)  BY <2>3 DEF Exit
  <2>4. CASE Done(w)  BY <2>4 DEF Done, Forget
  <2>5. CASE LockDemand(w)  BY <2>5 DEF LockDemand
  <2>6. CASE LockPrefetch(w)  BY <2>6 DEF LockPrefetch
  <2>7. CASE PinTarget(w)  BY <2>7 DEF PinTarget
  <2>8. CASE Reserve(w)  BY <2>8 DEF Reserve, InEnsureBudget, FetchOrder
  <2>9. CASE SelectVictim(w)
    BY <2>9 DEF SelectVictim, InEnsureBudget, Evictable
  <2>10. CASE DeclinePrefetch(w)
    BY <2>10 DEF DeclinePrefetch, InEnsureBudget
  <2>11. CASE BreakPin(w)  BY <2>11 DEF BreakPin, InEnsureBudget, Breakable
  <2>12. CASE Infeasible(w)
    <3> HIDE DEF WorkerType, LocalsSet, Goto, WorkerLabels, PoolType,
          BudgetType
    <3>1. CASE MayRetry(w)
      <4>1. /\ tries' = [tries EXCEPT ![w] = @ + 1]
            /\ UNCHANGED <<pc, job, chunk, victim, need, cursor>>
        BY <2>12, <3>1 DEF Infeasible
      <4>2. tries[w] + 1 \in 0..MaxRetry
        BY <3>1, <1>h, SizesAssumption DEF MayRetry, WorkerType
      <4> QED
        BY <4>1, <4>2, <1>h DEF WorkerType
    <3>2. CASE ~ MayRetry(w)
      BY <2>12, <3>2, <1>h DEF Infeasible, WorkerType, Goto, WorkerLabels
    <3> QED
      BY <3>1, <3>2
  <2>13. CASE EvictChunk(w)  BY <2>13 DEF EvictChunk
  <2>14. CASE Abandon(w)
    <3> HIDE DEF WorkerType, LocalsSet, Goto, WorkerLabels, PoolType,
          BudgetType
    <3>1. CASE job[w] = "demand"
      BY <2>14, <3>1, <1>h, SizesAssumption
         DEF Abandon, Forget, WorkerType, Goto, WorkerLabels
    <3>2. CASE job[w] # "demand"
      BY <2>14, <3>2, <1>h DEF Abandon, WorkerType, Goto, WorkerLabels
    <3> QED
      BY <3>1, <3>2
  <2>15. CASE FetchRead(w)  BY <2>15 DEF FetchRead, FetchOrder, After
  <2>16. CASE FetchResolve(w)  BY <2>16 DEF FetchResolve, FetchOrder, After
  <2>17. CASE Commit(w)  BY <2>17 DEF Commit
  <2>18. CASE SetResident(w)  BY <2>18 DEF SetResident
  <2>19. CASE TopUpNeed(w)
    <3> HIDE DEF WorkerType, LocalsSet, Goto, WorkerLabels, PoolType,
          BudgetType
    <3>1. RoomUnderDepth \in Nat
      BY <1>h, SizesAssumption DEF RoomUnderDepth, PoolType
    <3>2. /\ need' = [need EXCEPT ![w] = RoomUnderDepth]
          /\ pc' = [pc EXCEPT ![w] =
                      IF RoomUnderDepth = 0 THEN "unpin" ELSE "predict"]
          /\ UNCHANGED <<job, chunk, victim, tries, cursor>>
      BY <2>19 DEF TopUpNeed, Goto
    <3> QED
      BY <3>1, <3>2, <1>h DEF WorkerType, WorkerLabels
  <2>20. CASE Predict(w)
    <3> HIDE DEF WorkerType, LocalsSet, Goto, WorkerLabels, PoolType,
          BudgetType
    <3>1. UNCHANGED <<job, chunk, victim, tries>>
      BY <2>20 DEF Predict
    <3>2. CASE /\ need' = [need EXCEPT ![w] = 0]
               /\ Goto(w, "unpin")
               /\ UNCHANGED cursor
      BY <3>1, <3>2, <1>h, SizesAssumption DEF WorkerType, Goto, WorkerLabels
    <3>3. CASE /\ \E p \in Chunks \ {chunk[w]} :
                   cursor' = [cursor EXCEPT ![w] = p]
               /\ Goto(w, "enqueue")
               /\ UNCHANGED need
      BY <3>1, <3>3, <1>h DEF WorkerType, Goto, WorkerLabels
    <3> QED
      BY <2>20, <3>2, <3>3 DEF Predict
  <2>21. CASE EnqueuePrefetch(w)  BY <2>21 DEF EnqueuePrefetch
  <2>22. CASE ReleasePin(w)  BY <2>22 DEF ReleasePin
  <2>23. CASE Unlock(w)
    <3> HIDE DEF WorkerType, LocalsSet, Goto, WorkerLabels, PoolType,
          BudgetType
    <3>1. CASE job[w] = "demand"
      BY <2>23, <3>1, <1>h, SizesAssumption
         DEF Unlock, Forget, WorkerType, Goto, WorkerLabels
    <3>2. CASE job[w] # "demand"
      BY <2>23, <3>2, <1>h DEF Unlock, WorkerType, Goto, WorkerLabels
    <3> QED
      BY <3>1, <3>2
  <2> QED
    BY <1>1, <2>1, <2>2, <2>3, <2>4, <2>5, <2>6, <2>7, <2>8, <2>9, <2>10,
       <2>11, <2>12, <2>13, <2>14, <2>15, <2>16, <2>17, <2>18, <2>19,
       <2>20, <2>21, <2>22, <2>23 DEF WorkerStep
<1>2. ASSUME DispatcherStep PROVE WorkerType'
  <2>1. ASSUME NEW t \in AppThreads, ReadFault(t) PROVE WorkerType'
    BY <2>1 DEF ReadFault
  <2>2. CASE HandleFault  BY <2>2 DEF HandleFault
  <2>3. CASE Dispatch  BY <2>3 DEF Dispatch
  <2>4. CASE StopPager  BY <2>4 DEF StopPager
  <2> QED
    BY <1>2, <2>1, <2>2, <2>3, <2>4 DEF DispatcherStep
<1>3. ASSUME NEW c \in Chunks, Watchdog(c) PROVE WorkerType'
  BY <1>3 DEF Watchdog
<1>4. ASSUME NEW c \in Chunks, BackoffExpires(c) PROVE WorkerType'
  BY <1>4 DEF BackoffExpires
<1>5. ASSUME NEW t \in AppThreads, AppStep(t) PROVE WorkerType'
  <2>1. ASSUME NEW c \in Chunks, Touch(t, c) PROVE WorkerType'
    BY <2>1 DEF Touch
  <2>2. ASSUME NEW c \in Chunks, NotifyAccess(t, c) PROVE WorkerType'
    BY <2>2 DEF NotifyAccess
  <2>3. CASE Finish(t)  BY <2>3 DEF Finish
  <2>4. CASE Leave(t)  BY <2>4 DEF Leave
  <2> QED
    BY <1>5, <2>1, <2>2, <2>3, <2>4 DEF AppStep
<1>6. CASE UNCHANGED vars  BY <1>6
<1> QED
  BY <1>1, <1>2, <1>3, <1>4, <1>5, <1>6 DEF Next, Running, Terminated

\* The dispatcher and the application threads keep their type.
LEMMA ThreadTypeStep == IndInv /\ [Next]_vars => ThreadType'
<1> SUFFICES ASSUME IndInv, [Next]_vars PROVE ThreadType'
  OBVIOUS
<1>h. ThreadType /\ LocalsSet
  BY DEF IndInv, TypeOK
<1> USE <1>h DEF ThreadType, LocalsSet, Goto, WorkerLabels
<1>1. ASSUME NEW w \in Workers, WorkerStep(w) PROVE ThreadType'
  <2>1. CASE PickDemand(w)  BY <2>1 DEF PickDemand
  <2>2. CASE PickPrefetch(w)  BY <2>2 DEF PickPrefetch
  <2>3. CASE Exit(w)  BY <2>3 DEF Exit
  <2>4. CASE Done(w)  BY <2>4 DEF Done, Forget
  <2>5. CASE LockDemand(w)  BY <2>5 DEF LockDemand
  <2>6. CASE LockPrefetch(w)  BY <2>6 DEF LockPrefetch
  <2>7. CASE PinTarget(w)  BY <2>7 DEF PinTarget
  <2>8. CASE Reserve(w)  BY <2>8 DEF Reserve, InEnsureBudget, FetchOrder
  <2>9. CASE SelectVictim(w)  BY <2>9 DEF SelectVictim, InEnsureBudget
  <2>10. CASE DeclinePrefetch(w)
    BY <2>10 DEF DeclinePrefetch, InEnsureBudget
  <2>11. CASE BreakPin(w)  BY <2>11 DEF BreakPin, InEnsureBudget
  <2>12. CASE Infeasible(w)  BY <2>12 DEF Infeasible, InEnsureBudget
  <2>13. CASE EvictChunk(w)  BY <2>13 DEF EvictChunk
  <2>14. CASE Abandon(w)  BY <2>14 DEF Abandon, Forget, AbandonFetch, Wake
  <2>15. CASE FetchRead(w)  BY <2>15 DEF FetchRead, FetchOrder, After
  <2>16. CASE FetchResolve(w)
    BY <2>16 DEF FetchResolve, FetchOrder, After, Wake
  <2>17. CASE Commit(w)  BY <2>17 DEF Commit
  <2>18. CASE SetResident(w)  BY <2>18 DEF SetResident
  <2>19. CASE TopUpNeed(w)  BY <2>19 DEF TopUpNeed
  <2>20. CASE Predict(w)  BY <2>20 DEF Predict
  <2>21. CASE EnqueuePrefetch(w)  BY <2>21 DEF EnqueuePrefetch
  <2>22. CASE ReleasePin(w)  BY <2>22 DEF ReleasePin
  <2>23. CASE Unlock(w)  BY <2>23 DEF Unlock, Forget
  <2> QED
    BY <1>1, <2>1, <2>2, <2>3, <2>4, <2>5, <2>6, <2>7, <2>8, <2>9, <2>10,
       <2>11, <2>12, <2>13, <2>14, <2>15, <2>16, <2>17, <2>18, <2>19,
       <2>20, <2>21, <2>22, <2>23 DEF WorkerStep
<1>2. ASSUME DispatcherStep PROVE ThreadType'
  <2>1. ASSUME NEW t \in AppThreads, ReadFault(t) PROVE ThreadType'
    BY <2>1 DEF ReadFault
  <2>2. CASE HandleFault  BY <2>2 DEF HandleFault, Wake
  <2>3. CASE Dispatch  BY <2>3 DEF Dispatch
  <2>4. CASE StopPager  BY <2>4 DEF StopPager
  <2> QED
    BY <1>2, <2>1, <2>2, <2>3, <2>4 DEF DispatcherStep
<1>3. ASSUME NEW c \in Chunks, Watchdog(c) PROVE ThreadType'
  BY <1>3 DEF Watchdog, AbandonFetch, Wake
<1>4. ASSUME NEW c \in Chunks, BackoffExpires(c) PROVE ThreadType'
  BY <1>4 DEF BackoffExpires
<1>5. ASSUME NEW t \in AppThreads, AppStep(t) PROVE ThreadType'
  <2>1. ASSUME NEW c \in Chunks, Touch(t, c) PROVE ThreadType'
    BY <2>1 DEF Touch
  <2>2. ASSUME NEW c \in Chunks, NotifyAccess(t, c) PROVE ThreadType'
    BY <2>2 DEF NotifyAccess
  <2>3. CASE Finish(t)  BY <2>3 DEF Finish, Idle
  <2>4. CASE Leave(t)  BY <2>4 DEF Leave
  <2> QED
    BY <1>5, <2>1, <2>2, <2>3, <2>4 DEF AppStep
<1>6. CASE UNCHANGED vars  BY <1>6
<1> QED
  BY <1>1, <1>2, <1>3, <1>4, <1>5, <1>6 DEF Next, Running, Terminated

-----------------------------------------------------------------------------
(* The invariant *)

\* region_startup and prefetch_pool_start establish the invariant.
LEMMA InitEstablishes == Init => IndInv
<1> SUFFICES ASSUME Init
             PROVE  IndInv
  OBVIOUS
<1> USE NamesAssumption, SizesAssumption DEF Init, RegionInit, PoolInit
<1>1. Range(pinned_prefetch_queue) = {} /\ Len(pinned_prefetch_queue) = 0
  BY DEF Range
<1>2. TypeOK
  <2>1. ChunkType /\ BudgetType /\ PoolType
    BY DEF ChunkType, BudgetType, PoolType
  <2>2. WorkerType
    BY DEF WorkerType, WorkerLabels
  <2>3. ThreadType
    BY DEF ThreadType, Idle
  <2> QED
    BY <2>1, <2>2, <2>3 DEF TypeOK
<1>3. LocalsSet /\ LocksOwned /\ BudgetLockOwned
  BY DEF LocalsSet, LocksOwned, BudgetLockOwned, Unowned, Idle
<1>4. StagesMatch /\ EvictionSafe /\ MappedAhead /\ ResidentIsReadable
  BY DEF StagesMatch, EvictionSafe, MappedAhead, ResidentIsReadable, Fetching,
         InFlight, Finished, ToppingUp
<1>5. PinsExact
  BY <1>1 DEF PinsExact, HoldsPin, InFlight
<1>6. RetentionSound
  BY <1>1 DEF RetentionSound, IsInjective
<1> QED
  BY <1>2, <1>3, <1>4, <1>5, <1>6 DEF IndInv

\* Every step of every thread preserves it.
LEMMA StepPreserves == IndInv /\ [Next]_vars => IndInv'
BY ChunkTypeStep, BudgetTypeStep, PoolTypeStep, WorkerTypeStep, ThreadTypeStep,
   LocalsSetStep, LocksOwnedStep, BudgetLockOwnedStep, StagesMatchStep,
   PinsExactStep, RetentionSoundStep, EvictionSafeStep, MappedAheadStep,
   ResidentIsReadableStep
   DEF IndInv, TypeOK

\* The invariant holds in every reachable state, for every chunk table, number
\* of workers, budget and setting of the flags (prefetch_pool.c, budget.c,
\* pager.c).
THEOREM Invariance == Spec => []IndInv
BY InitEstablishes, StepPreserves, PTL DEF Spec

\* Every variable keeps its type: no chunk_t.pin below zero, whichever of the
\* worker, the FIFO's overflow, a pin break or pager_notify_access unpins.
THEOREM TypeCorrect == Spec => []TypeOK
<1>1. IndInv => TypeOK
  BY DEF IndInv
<1> QED
  BY <1>1, Invariance, PTL

\* I-4: a chosen victim stays evictable until evict_chunk has its lock.
THEOREM EvictionIsSafe == Spec => []EvictionSafe
<1>1. IndInv => EvictionSafe
  BY DEF IndInv
<1> QED
  BY <1>1, Invariance, PTL

\* The lock order of evict_chunk, budget_lock before a chunk lock, closes no
\* cycle with the order of the workers, a chunk lock before budget_lock.
THEOREM LocksMakeNoCycle == Spec => []NoLockCycle
<1>1. IndInv => NoLockCycle
  <2> SUFFICES ASSUME IndInv, NEW w \in Workers, pc[w] = "evict",
                      chunkLock[victim[w]] # NoOne
               PROVE  \E u \in Workers :
                        chunkLock[victim[w]] = u /\ pc[u] = "unlock"
    BY DEF NoLockCycle
  <2> DEFINE v == victim[w]
  <2>1. v \in Chunks /\ state[v] = "RESIDENT" /\ pin[v] = 0
    BY DEF IndInv, LocalsSet, EvictionSafe
  <2>2. chunkLock[v] # Dispatcher
    BY <2>1 DEF IndInv, LocksOwned, StagesMatch
  <2>3. PICK u \in Workers : chunkLock[v] = u
    BY <2>1, <2>2 DEF IndInv, TypeOK, ChunkType
  <2>4. pc[u] \notin Unowned /\ chunk[u] = v /\ ~ HoldsPin(u)
    BY <2>1, <2>3 DEF IndInv, LocksOwned, PinsExact
  <2>5. pc[u] \in Finished
    BY <2>1, <2>4
       DEF IndInv, TypeOK, WorkerType, WorkerLabels, StagesMatch, Unowned,
           Fetching, Finished, ToppingUp, InFlight
  <2>6. pc[u] = "unlock"
    BY <2>4, <2>5 DEF IndInv, TypeOK, WorkerType, StagesMatch, HoldsPin,
       Finished, ToppingUp
  <2> QED
    BY <2>3, <2>6
<1> QED
  BY <1>1, Invariance, PTL

\* chunk_t.pin counts the retention FIFO and the workers that own a pin, each
\* once.
THEOREM PinsAreOwned == Spec => []PinsOwned
<1>1. IndInv => PinsOwned
  <2> SUFFICES ASSUME IndInv, NEW c \in Chunks
               PROVE  pin[c] =
                        (IF c \in Range(pinned_prefetch_queue) THEN 1 ELSE 0)
                        + (IF \E w \in Workers : chunk[w] = c /\ HoldsPin(w)
                           THEN 1 ELSE 0)
    BY DEF PinsOwned
  <2>1. PinsExact /\ pin[c] \in Nat
    BY DEF IndInv, TypeOK, ChunkType
  <2>2. CASE c \in Range(pinned_prefetch_queue)
    BY <2>1, <2>2 DEF PinsExact
  <2>3. CASE /\ c \notin Range(pinned_prefetch_queue)
             /\ \E w \in Workers : chunk[w] = c /\ HoldsPin(w)
    BY <2>1, <2>3 DEF PinsExact
  <2>4. CASE /\ c \notin Range(pinned_prefetch_queue)
             /\ ~ \E w \in Workers : chunk[w] = c /\ HoldsPin(w)
    BY <2>1, <2>4 DEF PinsExact
  <2> QED
    BY <2>2, <2>3, <2>4
<1> QED
  BY <1>1, Invariance, PTL

\* The retention FIFO (pinned_prefetch_queue) is bounded by the depth and
\* holds resident chunks, each once.
THEOREM RetentionIsSound == Spec => []RetentionSound
<1>1. IndInv => RetentionSound
  BY DEF IndInv
<1> QED
  BY <1>1, Invariance, PTL

\* I-5: what is mapped in map_a has its bytes, and what is RESIDENT is mapped
\* (fetch_chunk, evict_chunk).
THEOREM ResidencyIsReadable == Spec => []ResidentIsReadable
<1>1. IndInv => ResidentIsReadable
  BY DEF IndInv
<1> QED
  BY <1>1, Invariance, PTL

-----------------------------------------------------------------------------
(* The budget *)

\* Only Reserve adds to the bytes spoken for, and only what fits.
LEMMA BudgetRespectedStep ==
  IndInv /\ BudgetRespected /\ [Next]_vars => BudgetRespected'
<1> SUFFICES ASSUME IndInv, BudgetRespected, [Next]_vars PROVE BudgetRespected'
  OBVIOUS
<1>h. BudgetRespected /\ BudgetType /\ LocalsSet
  BY DEF IndInv, TypeOK
<1> USE <1>h DEF BudgetRespected
<1>1. ASSUME NEW w \in Workers, WorkerStep(w) PROVE BudgetRespected'
  <2>1. CASE PickDemand(w)  BY <2>1 DEF PickDemand
  <2>2. CASE PickPrefetch(w)  BY <2>2 DEF PickPrefetch
  <2>3. CASE Exit(w)  BY <2>3 DEF Exit
  <2>4. CASE Done(w)  BY <2>4 DEF Done
  <2>5. CASE LockDemand(w)  BY <2>5 DEF LockDemand
  <2>6. CASE LockPrefetch(w)  BY <2>6 DEF LockPrefetch
  <2>7. CASE PinTarget(w)  BY <2>7 DEF PinTarget
  <2>8. CASE Reserve(w)
    <3> HIDE DEF BudgetRespected
    <3>1. ChunkLen[chunk[w]] \in Nat
      BY <2>8, <1>h, SizesAssumption DEF Reserve, InEnsureBudget, LocalsSet
    <3> QED
      BY <2>8, <3>1, <1>h, SizesAssumption
         DEF Reserve, Fits, BudgetRespected, BudgetType
  <2>9. CASE SelectVictim(w)  BY <2>9 DEF SelectVictim
  <2>10. CASE DeclinePrefetch(w)  BY <2>10 DEF DeclinePrefetch
  <2>11. CASE BreakPin(w)  BY <2>11 DEF BreakPin
  <2>12. CASE Infeasible(w)  BY <2>12 DEF Infeasible
  <2>13. CASE EvictChunk(w)
    <3> HIDE DEF BudgetRespected
    <3>1. ChunkLen[victim[w]] \in Nat
      BY <2>13, <1>h, SizesAssumption DEF EvictChunk, LocalsSet
    <3> QED
      BY <2>13, <3>1, <1>h, SizesAssumption
         DEF EvictChunk, BudgetRespected, BudgetType
  <2>14. CASE Abandon(w)  BY <2>14 DEF Abandon
  <2>15. CASE FetchRead(w)  BY <2>15 DEF FetchRead
  <2>16. CASE FetchResolve(w)  BY <2>16 DEF FetchResolve
  <2>17. CASE Commit(w)
    <3> HIDE DEF BudgetRespected
    <3>1. ChunkLen[chunk[w]] \in Nat
      BY <2>17, <1>h, SizesAssumption DEF Commit, LocalsSet
    <3> QED
      BY <2>17, <3>1, <1>h, SizesAssumption
         DEF Commit, CommitReserved, BudgetRespected, BudgetType
  <2>18. CASE SetResident(w)  BY <2>18 DEF SetResident
  <2>19. CASE TopUpNeed(w)  BY <2>19 DEF TopUpNeed
  <2>20. CASE Predict(w)  BY <2>20 DEF Predict
  <2>21. CASE EnqueuePrefetch(w)  BY <2>21 DEF EnqueuePrefetch
  <2>22. CASE ReleasePin(w)  BY <2>22 DEF ReleasePin
  <2>23. CASE Unlock(w)  BY <2>23 DEF Unlock
  <2> QED
    BY <1>1, <2>1, <2>2, <2>3, <2>4, <2>5, <2>6, <2>7, <2>8, <2>9, <2>10,
       <2>11, <2>12, <2>13, <2>14, <2>15, <2>16, <2>17, <2>18, <2>19,
       <2>20, <2>21, <2>22, <2>23 DEF WorkerStep
<1>2. ASSUME DispatcherStep PROVE BudgetRespected'
  <2>1. ASSUME NEW t \in AppThreads, ReadFault(t) PROVE BudgetRespected'
    BY <2>1 DEF ReadFault
  <2>2. CASE HandleFault  BY <2>2 DEF HandleFault
  <2>3. CASE Dispatch  BY <2>3 DEF Dispatch
  <2>4. CASE StopPager  BY <2>4 DEF StopPager
  <2> QED
    BY <1>2, <2>1, <2>2, <2>3, <2>4 DEF DispatcherStep
<1>3. ASSUME NEW c \in Chunks, Watchdog(c) PROVE BudgetRespected'
  BY <1>3 DEF Watchdog
<1>4. ASSUME NEW c \in Chunks, BackoffExpires(c) PROVE BudgetRespected'
  BY <1>4 DEF BackoffExpires
<1>5. ASSUME NEW t \in AppThreads, AppStep(t) PROVE BudgetRespected'
  <2>1. ASSUME NEW c \in Chunks, Touch(t, c) PROVE BudgetRespected'
    BY <2>1 DEF Touch
  <2>2. ASSUME NEW c \in Chunks, NotifyAccess(t, c) PROVE BudgetRespected'
    BY <2>2 DEF NotifyAccess
  <2>3. CASE Finish(t)  BY <2>3 DEF Finish
  <2>4. CASE Leave(t)  BY <2>4 DEF Leave
  <2> QED
    BY <1>5, <2>1, <2>2, <2>3, <2>4 DEF AppStep
<1>6. CASE UNCHANGED vars  BY <1>6
<1> QED
  BY <1>1, <1>2, <1>3, <1>4, <1>5, <1>6 DEF Next, Running, Terminated

\* resident_bytes and reserved_bytes stay within budget_bytes for any number
\* of workers making room at once (ensure_budget, commit_reserved).
THEOREM BudgetIsRespected == Spec => []BudgetRespected
<1>1. Init => BudgetRespected
  BY SizesAssumption DEF Init, RegionInit, BudgetRespected
<1> QED
  BY <1>1, BudgetRespectedStep, Invariance, PTL DEF Spec

-----------------------------------------------------------------------------
(* Bytes of sets of chunks *)

LEMMA Counted ==
  /\ IsFiniteSet(Chunks) /\ ChunkLen \in [Chunks -> Nat]
  /\ \A S : BytesOf(S) = ByteCount(ChunkLen, S)
<1>1. \A S : BytesOf(S) = ByteCount(ChunkLen, S)
  BY DEF BytesOf, ByteCount, BytesIn
<1> QED
  BY <1>1, SizesAssumption

LEMMA BytesFinite ==
  ASSUME NEW S \in SUBSET Chunks
  PROVE  BytesOf(S) \in Nat
BY Counted, ByteCountFinite

LEMMA BytesMonotone ==
  ASSUME NEW T \in SUBSET Chunks, NEW S \in SUBSET T
  PROVE  BytesOf(S) <= BytesOf(T)
BY Counted, ByteCountMonotone

LEMMA BytesOfUnion ==
  ASSUME NEW S \in SUBSET Chunks, NEW T \in SUBSET Chunks
  PROVE  BytesOf(S \cup T) <= BytesOf(S) + BytesOf(T)
BY Counted, ByteCountUnion

LEMMA BytesAdd ==
  ASSUME NEW S \in SUBSET Chunks, NEW c \in Chunks, c \notin S
  PROVE  BytesOf(S \cup {c}) = BytesOf(S) + ChunkLen[c]
BY Counted, ByteCountAdd

LEMMA BytesRemove ==
  ASSUME NEW S \in SUBSET Chunks, NEW c \in S
  PROVE  BytesOf(S \ {c}) = BytesOf(S) - ChunkLen[c]
BY Counted, ByteCountRemove

LEMMA BytesOfNone == BytesOf({}) = 0
BY Counted, ByteCountEmpty

-----------------------------------------------------------------------------
(* How each step changes what is held, claimed and filled *)

\* A step that moves no bytes.
Still ==
  /\ UNCHANGED <<resident_bytes, reserved_bytes, populated, mapped>>
  /\ Held' = Held
  /\ Claimed' = Claimed

MovesBytes(w) ==
  Reserve(w) \/ EvictChunk(w) \/ FetchRead(w) \/ FetchResolve(w) \/ Commit(w)

\* A step that leaves the workers that hold or claim a chunk where they are.
InPlace ==
  /\ UNCHANGED <<resident_bytes, reserved_bytes, populated, mapped>>
  /\ \A c \in Chunks : state'[c] = "RESIDENT" <=> state[c] = "RESIDENT"
  /\ \A u \in Workers :
       /\ pc'[u] = "resident" <=> pc[u] = "resident"
       /\ pc'[u] \in InFlight <=> pc[u] \in InFlight
       /\ pc[u] \in InFlight \cup {"resident"} => chunk'[u] = chunk[u]

LEMMA StillFrame == InPlace => Still
BY DEF InPlace, Still, Held, Claimed

LEMMA StillStep ==
  ASSUME IndInv, [Next]_vars, \A w \in Workers : ~ MovesBytes(w)
  PROVE  Still
<1> SUFFICES ASSUME ~ InPlace PROVE Still
  BY StillFrame
<1>h. /\ LocalsSet /\ StagesMatch
      /\ pc \in [Workers -> WorkerLabels]
      /\ chunk \in [Workers -> Chunks \cup {NoChunk}]
      /\ state \in [Chunks -> {"ABSENT", "FETCHING", "RESIDENT"}]
  BY DEF IndInv, TypeOK, ChunkType, WorkerType
<1> USE <1>h DEF InPlace, Goto, InFlight
<1>1. ASSUME NEW w \in Workers, WorkerStep(w) PROVE Still
  <2>m. ~ (Reserve(w) \/ EvictChunk(w) \/ FetchRead(w) \/ FetchResolve(w) \/ Commit(w))
    BY DEF MovesBytes
  <2>1. CASE PickDemand(w)  BY <2>1 DEF PickDemand
  <2>2. CASE PickPrefetch(w)  BY <2>2 DEF PickPrefetch
  <2>3. CASE Exit(w)  BY <2>3 DEF Exit
  <2>4. CASE Done(w)  BY <2>4 DEF Done, Forget
  <2>5. CASE LockDemand(w)  BY <2>5 DEF LockDemand
  <2>6. CASE LockPrefetch(w)  BY <2>6 DEF LockPrefetch
  <2>7. CASE PinTarget(w)  BY <2>7 DEF PinTarget, LocalsSet, StagesMatch
  <2>8. CASE Reserve(w)  BY <2>m, <2>8
  <2>9. CASE SelectVictim(w)  BY <2>9 DEF SelectVictim, InEnsureBudget
  <2>10. CASE DeclinePrefetch(w)  BY <2>10 DEF DeclinePrefetch, InEnsureBudget
  <2>11. CASE BreakPin(w)  BY <2>11 DEF BreakPin, InEnsureBudget
  <2>12. CASE Infeasible(w)  BY <2>12 DEF Infeasible, InEnsureBudget
  <2>13. CASE EvictChunk(w)  BY <2>m, <2>13
  <2>14. CASE Abandon(w)  BY <2>14 DEF Abandon, Forget, AbandonFetch, LocalsSet,
       StagesMatch, Fetching
  <2>15. CASE FetchRead(w)  BY <2>m, <2>15
  <2>16. CASE FetchResolve(w)  BY <2>m, <2>16
  <2>17. CASE Commit(w)  BY <2>m, <2>17
  <2>18. CASE SetResident(w)
    <3>1. /\ pc[w] = "resident" /\ chunk[w] \in Chunks
          /\ state' = [state EXCEPT ![chunk[w]] = "RESIDENT"]
          /\ pc' = [pc EXCEPT ![w] = IF job[w] = "demand" /\ prefetch_enabled
                                     THEN "topup" ELSE "unpin"]
          /\ UNCHANGED <<chunk, resident_bytes, reserved_bytes, populated, mapped>>
      BY <2>18 DEF SetResident, LocalsSet
    <3>2. Held' = Held
      BY <3>1 DEF Held
    <3>3. Claimed' = Claimed
      BY <3>1 DEF Claimed
    <3> QED
      BY <3>1, <3>2, <3>3 DEF Still
  <2>19. CASE TopUpNeed(w)  BY <2>19 DEF TopUpNeed
  <2>20. CASE Predict(w)  BY <2>20 DEF Predict
  <2>21. CASE EnqueuePrefetch(w)  BY <2>21 DEF EnqueuePrefetch
  <2>22. CASE ReleasePin(w)  BY <2>22 DEF ReleasePin
  <2>23. CASE Unlock(w)  BY <2>23 DEF Unlock, Forget
  <2> QED
    BY <1>1, <2>1, <2>2, <2>3, <2>4, <2>5, <2>6, <2>7, <2>8, <2>9, <2>10,
       <2>11, <2>12, <2>13, <2>14, <2>15, <2>16, <2>17, <2>18, <2>19,
       <2>20, <2>21, <2>22, <2>23 DEF WorkerStep
<1>2. ASSUME DispatcherStep PROVE Still
  <2>1. ASSUME NEW t \in AppThreads, ReadFault(t) PROVE Still
    BY <2>1 DEF ReadFault
  <2>2. CASE HandleFault  BY <2>2 DEF HandleFault, ClaimSlot
  <2>3. CASE Dispatch  BY <2>3 DEF Dispatch
  <2>4. CASE StopPager  BY <2>4 DEF StopPager
  <2> QED
    BY <1>2, <2>1, <2>2, <2>3, <2>4 DEF DispatcherStep
<1>3. ASSUME NEW c \in Chunks, Watchdog(c) PROVE Still
  BY <1>3 DEF Watchdog, AbandonFetch
<1>4. ASSUME NEW c \in Chunks, BackoffExpires(c) PROVE Still
  BY <1>4 DEF BackoffExpires
<1>5. ASSUME NEW t \in AppThreads, AppStep(t) PROVE Still
  <2>1. ASSUME NEW c \in Chunks, Touch(t, c) PROVE Still
    BY <2>1 DEF Touch
  <2>2. ASSUME NEW c \in Chunks, NotifyAccess(t, c) PROVE Still
    BY <2>2 DEF NotifyAccess
  <2>3. CASE Finish(t)  BY <2>3 DEF Finish
  <2>4. CASE Leave(t)  BY <2>4 DEF Leave
  <2> QED
    BY <1>5, <2>1, <2>2, <2>3, <2>4 DEF AppStep
<1>6. CASE UNCHANGED vars  BY <1>6
<1> QED
  BY <1>1, <1>2, <1>3, <1>4, <1>5, <1>6 DEF Next, Running, Terminated

\* Workers past their lock call serve different chunks, and a chunk in flight
\* is FETCHING.
LEMMA InFlightApart ==
  ASSUME IndInv, NEW w \in Workers, pc[w] \in Fetching
  PROVE  /\ chunk[w] \in Chunks
         /\ state[chunk[w]] = "FETCHING"
         /\ \A u \in Workers \ {w} : pc[u] \in Fetching => chunk[u] # chunk[w]
<1>1. LocalsSet /\ StagesMatch /\ LocksOwned
  BY DEF IndInv
<1>2. \A u \in Workers : pc[u] \in Fetching => chunkLock[chunk[u]] = u
  BY <1>1 DEF LocksOwned, Fetching, InFlight, Unowned
<1> QED
  BY <1>1, <1>2 DEF LocalsSet, StagesMatch, Fetching, InFlight

\* The reservation claims a chunk that nobody holds or claims.
LEMMA ReserveMoves ==
  ASSUME IndInv, NEW w \in Workers, Reserve(w)
  PROVE  /\ chunk[w] \in Chunks \ (Held \cup Claimed)
         /\ Fits(chunk[w])
         /\ Claimed' = Claimed \cup {chunk[w]}
         /\ reserved_bytes' = reserved_bytes + ChunkLen[chunk[w]]
         /\ UNCHANGED <<resident_bytes, populated, mapped, app>>
         /\ Held' = Held
<1>1. /\ pc[w] = "budget" /\ Fits(chunk[w])
      /\ reserved_bytes' = reserved_bytes + ChunkLen[chunk[w]]
      /\ pc' = [pc EXCEPT ![w] = "read"]
      /\ UNCHANGED <<state, chunk, resident_bytes, populated, mapped, app>>
  BY DEF Reserve, InEnsureBudget, Goto, FetchOrder
<1>2. /\ chunk[w] \in Chunks /\ state[chunk[w]] = "FETCHING"
      /\ \A u \in Workers \ {w} : pc[u] \in Fetching => chunk[u] # chunk[w]
  BY <1>1, InFlightApart DEF Fetching
<1>3. pc \in [Workers -> WorkerLabels]
  BY DEF IndInv, TypeOK, WorkerType
<1>4. chunk[w] \notin Held /\ chunk[w] \notin Claimed
  BY <1>1, <1>2 DEF Held, Claimed, Fetching, InFlight
<1>5. Held' = Held
  BY <1>1, <1>3 DEF Held
<1>6. Claimed' = Claimed \cup {chunk[w]}
  BY <1>1, <1>2, <1>3 DEF Claimed, InFlight
<1> QED
  BY <1>1, <1>2, <1>4, <1>5, <1>6

\* The victim was held, and takes its bytes and its mapping with it.
LEMMA EvictMoves ==
  ASSUME IndInv, NEW w \in Workers, EvictChunk(w)
  PROVE  /\ victim[w] \in Held \ Claimed
         /\ Held' = Held \ {victim[w]}
         /\ resident_bytes' = resident_bytes - ChunkLen[victim[w]]
         /\ populated' = populated \ {victim[w]}
         /\ mapped' = mapped \ {victim[w]}
         /\ UNCHANGED <<reserved_bytes, app>>
         /\ Claimed' = Claimed
<1> DEFINE v == victim[w]
<1>1. pc[w] = "evict" /\ v \in Chunks /\ state[v] = "RESIDENT" /\ pin[v] = 0
  BY DEF EvictChunk, IndInv, LocalsSet, EvictionSafe
<1>2. /\ state' = [state EXCEPT ![v] = "ABSENT"]
      /\ pc' = [pc EXCEPT ![w] = "budget"]
      /\ resident_bytes' = resident_bytes - ChunkLen[v]
      /\ populated' = populated \ {v} /\ mapped' = mapped \ {v}
      /\ UNCHANGED <<chunk, reserved_bytes, app>>
  BY <1>1 DEF EvictChunk, Punch, Goto
<1>3. /\ \A u \in Workers : pc[u] \in InFlight \cup {"resident"} => state[chunk[u]] = "FETCHING"
      /\ pc \in [Workers -> WorkerLabels]
      /\ state \in [Chunks -> {"ABSENT", "FETCHING", "RESIDENT"}]
  BY DEF IndInv, StagesMatch, Fetching, TypeOK, WorkerType, ChunkType
<1> HIDE DEF v
<1>4. v \in Held /\ v \notin Claimed
  BY <1>1, <1>3 DEF Held, Claimed
<1>5. Held' = Held \ {v}
  BY <1>1, <1>2, <1>3 DEF Held
<1>6. Claimed' = Claimed
  BY <1>1, <1>2, <1>3 DEF Claimed, InFlight
<1> QED
  BY <1>2, <1>4, <1>5, <1>6 DEF v

\* The read fills, and the UFFDIO_CONTINUE maps, a chunk that is claimed.
LEMMA FillMoves ==
  ASSUME IndInv, NEW w \in Workers, FetchRead(w) \/ FetchResolve(w)
  PROVE  /\ chunk[w] \in Claimed
         /\ UNCHANGED <<resident_bytes, reserved_bytes>>
         /\ Held' = Held /\ Claimed' = Claimed
         /\ \/ populated' = populated \cup {chunk[w]} /\ UNCHANGED <<mapped, app>>
            \/ /\ mapped' = mapped \cup {chunk[w]} /\ UNCHANGED populated
               /\ Wake(chunk[w])
<1>1. /\ pc[w] \in {"read", "continue"}
      /\ \/ pc' = [pc EXCEPT ![w] = "continue"]
         \/ pc' = [pc EXCEPT ![w] = "commit"]
      /\ UNCHANGED <<state, chunk, resident_bytes, reserved_bytes>>
      /\ \/ populated' = populated \cup {chunk[w]} /\ UNCHANGED <<mapped, app>>
         \/ /\ mapped' = mapped \cup {chunk[w]} /\ UNCHANGED populated
            /\ Wake(chunk[w])
  BY DEF FetchRead, FetchResolve, Goto, FetchOrder, After
<1>2. chunk[w] \in Chunks /\ pc \in [Workers -> WorkerLabels]
  BY <1>1 DEF IndInv, LocalsSet, TypeOK, WorkerType
<1>3. chunk[w] \in Claimed
  BY <1>1, <1>2 DEF Claimed, InFlight
<1>4. Held' = Held
  BY <1>1, <1>2 DEF Held
<1>5. Claimed' = Claimed
  BY <1>1, <1>2 DEF Claimed, InFlight
<1> QED
  BY <1>1, <1>3, <1>4, <1>5

\* The commit turns a claimed chunk into a held one.
LEMMA CommitMoves ==
  ASSUME IndInv, NEW w \in Workers, Commit(w)
  PROVE  /\ chunk[w] \in (Claimed \cap mapped) \ Held
         /\ Claimed' = Claimed \ {chunk[w]}
         /\ Held' = Held \cup {chunk[w]}
         /\ reserved_bytes' = reserved_bytes - ChunkLen[chunk[w]]
         /\ resident_bytes' = resident_bytes + ChunkLen[chunk[w]]
         /\ UNCHANGED <<populated, mapped, app>>
<1>1. /\ pc[w] = "commit"
      /\ reserved_bytes' = reserved_bytes - ChunkLen[chunk[w]]
      /\ resident_bytes' = resident_bytes + ChunkLen[chunk[w]]
      /\ pc' = [pc EXCEPT ![w] = "resident"]
      /\ UNCHANGED <<state, chunk, populated, mapped, app>>
  BY DEF Commit, CommitReserved, Goto
<1>2. /\ chunk[w] \in Chunks /\ state[chunk[w]] = "FETCHING"
      /\ \A u \in Workers \ {w} : pc[u] \in Fetching => chunk[u] # chunk[w]
  BY <1>1, InFlightApart DEF Fetching, InFlight
<1>3. pc \in [Workers -> WorkerLabels] /\ chunk[w] \in mapped
  BY <1>1 DEF IndInv, TypeOK, WorkerType, MappedAhead
<1>4. chunk[w] \in Claimed /\ chunk[w] \notin Held
  BY <1>1, <1>2 DEF Held, Claimed, Fetching, InFlight
<1>5. Held' = Held \cup {chunk[w]}
  BY <1>1, <1>2, <1>3 DEF Held
<1>6. Claimed' = Claimed \ {chunk[w]}
  BY <1>1, <1>2, <1>3 DEF Claimed, InFlight, Fetching
<1> QED
  BY <1>1, <1>3, <1>4, <1>5, <1>6

-----------------------------------------------------------------------------
(* The counters are exact *)

LEMMA AccountsStep ==
  ASSUME IndInv, AccountsInv, [Next]_vars
  PROVE  AccountsInv'
<1>h. /\ resident_bytes = BytesOf(Held) /\ reserved_bytes = BytesOf(Claimed)
      /\ Held \subseteq populated /\ populated \subseteq Held \cup Claimed
      /\ Held \in SUBSET Chunks /\ Claimed \in SUBSET Chunks
  BY DEF AccountsInv, Held, Claimed
<1>1. CASE \A w \in Workers : ~ MovesBytes(w)
  <2>1. Still
    BY <1>1, StillStep
  <2> QED
    BY <1>h, <2>1 DEF Still, AccountsInv
<1>2. ASSUME NEW w \in Workers, Reserve(w) PROVE AccountsInv'
  <2>1. BytesOf(Claimed \cup {chunk[w]}) = BytesOf(Claimed) + ChunkLen[chunk[w]]
    BY <1>h, <1>2, ReserveMoves, BytesAdd
  <2> QED
    BY <1>h, <1>2, <2>1, ReserveMoves DEF AccountsInv
<1>3. ASSUME NEW w \in Workers, EvictChunk(w) PROVE AccountsInv'
  <2>1. BytesOf(Held \ {victim[w]}) = BytesOf(Held) - ChunkLen[victim[w]]
    BY <1>h, <1>3, EvictMoves, BytesRemove
  <2> QED
    BY <1>h, <1>3, <2>1, EvictMoves DEF AccountsInv
<1>4. ASSUME NEW w \in Workers, FetchRead(w) \/ FetchResolve(w) PROVE AccountsInv'
  BY <1>h, <1>4, FillMoves DEF AccountsInv
<1>5. ASSUME NEW w \in Workers, Commit(w) PROVE AccountsInv'
  <2>1. BytesOf(Held \cup {chunk[w]}) = BytesOf(Held) + ChunkLen[chunk[w]]
    BY <1>h, <1>5, CommitMoves, BytesAdd
  <2>2. BytesOf(Claimed \ {chunk[w]}) = BytesOf(Claimed) - ChunkLen[chunk[w]]
    BY <1>h, <1>5, CommitMoves, BytesRemove
  <2>3. /\ Held' = Held \cup {chunk[w]} /\ Claimed' = Claimed \ {chunk[w]}
        /\ resident_bytes' = resident_bytes + ChunkLen[chunk[w]]
        /\ reserved_bytes' = reserved_bytes - ChunkLen[chunk[w]]
        /\ populated' = populated /\ chunk[w] \in Claimed
    BY <1>5, CommitMoves
  <2>4. resident_bytes' = BytesOf(Held') /\ reserved_bytes' = BytesOf(Claimed')
    BY <1>h, <2>1, <2>2, <2>3
  <2>5. populated' \subseteq Held' \cup Claimed'
    BY <1>h, <2>3
  <2>6. Held' \subseteq populated'
    <3>1. chunk[w] \in populated
      BY <1>5, CommitMoves DEF IndInv, ResidentIsReadable
    <3> QED
      BY <1>h, <2>3, <3>1
  <2> QED
    BY <2>4, <2>5, <2>6 DEF AccountsInv
<1> QED
  BY <1>1, <1>2, <1>3, <1>4, <1>5 DEF MovesBytes

LEMMA AccountsInvariance == Spec => []AccountsInv
<1>1. Init => AccountsInv
  <2> SUFFICES ASSUME Init PROVE AccountsInv
    OBVIOUS
  <2>1. /\ resident_bytes = 0 /\ reserved_bytes = 0 /\ populated = {}
        /\ Held = {} /\ Claimed = {}
    BY DEF Init, RegionInit, PoolInit, Held, Claimed, InFlight
  <2> QED
    BY <2>1, BytesOfNone DEF AccountsInv
<1> QED
  BY <1>1, AccountsStep, Invariance, PTL DEF Spec

\* The counters of region_t are the bytes of the chunks committed and reserved,
\* and the bytes in the memfd lie between them: reconcile never aborts, and no
\* counter wraps (commit_reserved, evict_chunk, ensure_budget, I-7).
THEOREM AccountsAreExact == Spec => []AccountingExact
<1>1. AccountsInv => AccountingExact
  <2> SUFFICES ASSUME AccountsInv PROVE AccountingExact
    OBVIOUS
  <2>h. /\ resident_bytes = BytesOf(Held) /\ reserved_bytes = BytesOf(Claimed)
        /\ Held \subseteq populated /\ populated \subseteq Held \cup Claimed
        /\ Held \in SUBSET Chunks /\ Claimed \in SUBSET Chunks
        /\ populated \in SUBSET Chunks /\ Held \cup Claimed \in SUBSET Chunks
    BY DEF AccountsInv, Held, Claimed
  <2>1. BytesOf(Held) <= BytesOf(populated)
    BY <2>h, BytesMonotone
  <2>2. BytesOf(populated) <= BytesOf(Held \cup Claimed)
    BY <2>h, BytesMonotone
  <2>3. BytesOf(Held \cup Claimed) <= BytesOf(Held) + BytesOf(Claimed)
    BY <2>h, BytesOfUnion
  <2>4. /\ BytesOf(Held) \in Nat /\ BytesOf(Claimed) \in Nat
        /\ BytesOf(populated) \in Nat /\ BytesOf(Held \cup Claimed) \in Nat
    BY <2>h, BytesFinite
  <2> QED
    BY <2>h, <2>1, <2>2, <2>3, <2>4 DEF AccountingExact
<1> QED
  BY <1>1, AccountsInvariance, PTL

-----------------------------------------------------------------------------
(* The pager keeps the promise *)

\* What a wake, or a step that leaves the readers alone, does to them.
LEMMA WakeReleases ==
  ASSUME TypeOK, NEW c \in Chunks, Wake(c)
  PROVE  WaitsFor' = [t \in AppThreads |-> IF WaitsFor[t] = c THEN NoChunk ELSE WaitsFor[t]]
<1> DEFINE W(t) == IF app[t].st \in {"queued", "waiting"} THEN app[t].c ELSE NoChunk
           V(t) == IF app'[t].st \in {"queued", "waiting"} THEN app'[t].c ELSE NoChunk
<1>1. /\ WaitsFor = [t \in AppThreads |-> W(t)]
      /\ WaitsFor' = [t \in AppThreads |-> V(t)]
  BY DEF WaitsFor
<1>2. ASSUME NEW t \in AppThreads
      PROVE  V(t) = IF W(t) = c THEN NoChunk ELSE W(t)
  <2>1. /\ app[t] \in [st : {"idle", "queued", "waiting", "retry", "gone"},
                        c  : Chunks \cup {NoChunk}]
        /\ c # NoChunk
    BY NamesAssumption DEF TypeOK, ThreadType
  <2>2. CASE app[t].st \in {"queued", "waiting"} /\ app[t].c = c
    <3>1. app'[t] = [app[t] EXCEPT !.st = "retry"]
      BY <2>2 DEF Wake
    <3>2. app'[t].st = "retry"
      BY <2>1, <3>1
    <3> QED
      BY <2>2, <3>2
  <2>3. CASE ~ (app[t].st \in {"queued", "waiting"} /\ app[t].c = c)
    <3>1. app'[t] = app[t]
      BY <2>3 DEF Wake
    <3> QED
      BY <2>1, <2>3, <3>1
  <2> QED
    BY <2>2, <2>3
<1> HIDE DEF W, V
<1> QED
  BY <1>1, <1>2

LEMMA WaitsFrame == UNCHANGED app => UNCHANGED WaitsFor
BY DEF WaitsFor

\* A step that moves no bytes blocks one reader, or releases those of one
\* chunk, or neither.
LEMMA ReadersStep ==
  ASSUME IndInv, [Next]_vars, \A w \in Workers : ~ MovesBytes(w)
  PROVE  \/ UNCHANGED WaitsFor
         \/ \E c \in Chunks :
              WaitsFor' = [t \in AppThreads |-> IF WaitsFor[t] = c THEN NoChunk ELSE WaitsFor[t]]
         \/ \E t \in AppThreads, c \in Chunks :
              /\ WaitsFor[t] = NoChunk
              /\ c \notin mapped
              /\ WaitsFor' = [WaitsFor EXCEPT ![t] = c]
<1> DEFINE Releases(c) ==
             WaitsFor' = [t \in AppThreads |-> IF WaitsFor[t] = c THEN NoChunk ELSE WaitsFor[t]]
           Blocks(t, c) ==
             /\ WaitsFor[t] = NoChunk
             /\ c \notin mapped
             /\ WaitsFor' = [WaitsFor EXCEPT ![t] = c]
           Goal == \/ UNCHANGED WaitsFor
                   \/ \E c \in Chunks : Releases(c)
                   \/ \E t \in AppThreads, c \in Chunks : Blocks(t, c)
<1>h. /\ LocalsSet /\ TypeOK
      /\ app \in [AppThreads ->
                    [st : {"idle", "queued", "waiting", "retry", "gone"},
                     c  : Chunks \cup {NoChunk}]]
  BY DEF IndInv, TypeOK, ThreadType
<1>w. ASSUME NEW c \in Chunks, Wake(c) PROVE Goal
  BY <1>h, <1>w, WakeReleases
<1>u. ASSUME UNCHANGED app PROVE Goal
  BY <1>u, WaitsFrame
<1> HIDE DEF Goal
<1>1. ASSUME NEW w \in Workers, WorkerStep(w) PROVE Goal
  <2>1. CASE Abandon(w)
    <3>1. Wake(chunk[w]) /\ chunk[w] \in Chunks
      BY <1>h, <2>1 DEF Abandon, AbandonFetch, LocalsSet
    <3> QED
      BY <3>1, <1>w
  <2>2. CASE ~ Abandon(w)
    <3>1. UNCHANGED app
      BY <1>1, <2>2
      DEF WorkerStep, MovesBytes, PickDemand, PickPrefetch, Exit, Done, LockDemand,
          LockPrefetch, PinTarget, SelectVictim, DeclinePrefetch, BreakPin, Infeasible,
          SetResident, TopUpNeed, Predict, EnqueuePrefetch, ReleasePin, Unlock
    <3> QED
      BY <3>1, <1>u
  <2> QED
    BY <2>1, <2>2
<1>2. ASSUME DispatcherStep PROVE Goal
  <2>1. ASSUME NEW t \in AppThreads, ReadFault(t) PROVE Goal
    <3>1. /\ app[t].st = "queued"
          /\ app' = [app EXCEPT ![t].st = "waiting"]
      BY <2>1 DEF ReadFault
    <3>2. ASSUME NEW u \in AppThreads
          PROVE  /\ app'[u].c = app[u].c
                 /\ app'[u].st \in {"queued", "waiting"} <=> app[u].st \in {"queued", "waiting"}
      BY <1>h, <3>1
    <3>3. UNCHANGED WaitsFor
      BY <3>2 DEF WaitsFor
    <3> QED
      BY <3>3 DEF Goal
  <2>2. CASE HandleFault
    <3>1. UNCHANGED app \/ (Wake(dchunk) /\ dchunk \in Chunks)
      BY <1>h, <2>2 DEF HandleFault, LocalsSet
    <3> QED
      BY <3>1, <1>u, <1>w
  <2>3. CASE Dispatch \/ StopPager
    BY <2>3, <1>u DEF Dispatch, StopPager
  <2> QED
    BY <1>2, <2>1, <2>2, <2>3 DEF DispatcherStep
<1>3. ASSUME NEW c \in Chunks, Watchdog(c) PROVE Goal
  BY <1>3, <1>w DEF Watchdog, AbandonFetch
<1>4. ASSUME NEW c \in Chunks, BackoffExpires(c) PROVE Goal
  BY <1>4, <1>u DEF BackoffExpires
<1>5. ASSUME NEW t \in AppThreads, AppStep(t) PROVE Goal
  <2>1. ASSUME NEW c \in Chunks, Touch(t, c) PROVE Goal
    <3>1. /\ app[t].st \in {"idle", "retry"}
          /\ c \notin mapped
          /\ app' = [app EXCEPT ![t] = [st |-> "queued", c |-> c]]
      BY <2>1 DEF Touch
    <3>2. /\ WaitsFor[t] = NoChunk
          /\ WaitsFor' = [WaitsFor EXCEPT ![t] = c]
      BY <1>h, <3>1 DEF WaitsFor
    <3> QED
      BY <3>1, <3>2 DEF Goal
  <2>2. ASSUME NEW c \in Chunks, NotifyAccess(t, c) PROVE Goal
    BY <2>2, <1>u DEF NotifyAccess
  <2>3. CASE Finish(t) \/ Leave(t)
    <3>1. /\ app[t].st \in {"idle", "retry"}
          /\ app'[t].st \in {"idle", "gone"}
          /\ \A u \in AppThreads \ {t} : app'[u] = app[u]
      BY <1>h, <2>3 DEF Finish, Leave, Idle
    <3>2. UNCHANGED WaitsFor
      BY <3>1 DEF WaitsFor
    <3> QED
      BY <3>2 DEF Goal
  <2> QED
    BY <1>5, <2>1, <2>2, <2>3 DEF AppStep
<1>6. ASSUME UNCHANGED vars PROVE Goal
  BY <1>6, <1>u
<1>7. Goal
  BY <1>1, <1>2, <1>3, <1>4, <1>5, <1>6 DEF Next, Running, Terminated
<1> QED
  BY <1>7 DEF Goal

\* Every step of the pager is a step of the promise, or none of it.
LEMMA PromiseStep ==
  ASSUME IndInv, AccountsInv, [Next]_vars
  PROVE  [Promise!Next]_(Promise!vars)
<1> USE DEF Promise!vars, Promise!region
<1>1. CASE \A w \in Workers : ~ MovesBytes(w)
  <2>1. Still
    BY <1>1, StillStep
  <2>2. UNCHANGED <<Held, Claimed, mapped>>
    BY <2>1 DEF Still
  <2>3. CASE UNCHANGED WaitsFor
    BY <2>2, <2>3
  <2>4. ASSUME NEW c \in Chunks,
               WaitsFor' = [t \in AppThreads |-> IF WaitsFor[t] = c THEN NoChunk ELSE WaitsFor[t]]
        PROVE  Promise!Next
    <3>1. Promise!GiveUp(c)
      BY <2>2, <2>4 DEF Promise!GiveUp
    <3> QED
      BY <3>1 DEF Promise!Next
  <2>5. ASSUME NEW t \in AppThreads, NEW c \in Chunks,
               WaitsFor[t] = NoChunk, c \notin mapped,
               WaitsFor' = [WaitsFor EXCEPT ![t] = c]
        PROVE  Promise!Next
    <3>1. Promise!Block(t, c)
      BY <2>2, <2>5 DEF Promise!Block
    <3> QED
      BY <3>1 DEF Promise!Next
  <2> QED
    BY <1>1, <2>3, <2>4, <2>5, ReadersStep
<1>2. ASSUME NEW w \in Workers, Reserve(w) PROVE Promise!Next
  <2> DEFINE c == chunk[w]
  <2>1. /\ c \in Chunks \ (Held \cup Claimed) /\ Fits(c)
        /\ Claimed' = Claimed \cup {c}
        /\ UNCHANGED <<Held, mapped, WaitsFor>>
    BY <1>2, ReserveMoves, WaitsFrame
  <2>2. Promise!Bytes(Claimed \cup Held \cup {c}) <= budget_bytes
    <3> DEFINE A == Claimed \cup Held
               a == BytesOf(A)
               h == BytesOf(Held)
               r == BytesOf(Claimed)
    <3>1. Held \in SUBSET Chunks /\ Claimed \in SUBSET Chunks /\ A \in SUBSET Chunks
      BY DEF Held, Claimed
    <3>2. a <= r + h /\ a \in Nat /\ h \in Nat /\ r \in Nat
      BY <3>1, BytesOfUnion, BytesFinite
    <3>3. BytesOf(A \cup {c}) = a + ChunkLen[c]
      BY <2>1, <3>1, BytesAdd
    <3>4. h + r + ChunkLen[c] <= budget_bytes
      BY <2>1 DEF Fits, AccountsInv
    <3>5. ChunkLen[c] \in Nat /\ budget_bytes \in Nat
      BY <2>1, SizesAssumption
    <3> HIDE DEF a, h, r, A
    <3>6. BytesOf(A \cup {c}) <= budget_bytes
      BY <3>2, <3>3, <3>4, <3>5
    <3>7. Promise!Bytes(A \cup {c}) = BytesOf(A \cup {c})
      BY Zenon DEF Promise!Bytes, BytesOf, Promise!Cardinality, Cardinality
    <3> QED
      BY <3>6, <3>7 DEF A
  <2>3. Promise!Claim(c)
    BY <2>1, <2>2 DEF Promise!Claim
  <2> QED
    BY <2>1, <2>3 DEF Promise!Next
<1>3. ASSUME NEW w \in Workers, EvictChunk(w) PROVE Promise!Next
  <2>1. /\ victim[w] \in Held \cap Chunks
        /\ Held' = Held \ {victim[w]} /\ mapped' = mapped \ {victim[w]}
        /\ UNCHANGED <<Claimed, WaitsFor>>
    BY <1>3, EvictMoves, WaitsFrame DEF Held
  <2>2. Promise!Drop(victim[w])
    BY <2>1 DEF Promise!Drop
  <2> QED
    BY <2>1, <2>2 DEF Promise!Next
<1>4. ASSUME NEW w \in Workers, FetchRead(w) \/ FetchResolve(w)
      PROVE  [Promise!Next]_(Promise!vars)
  <2>1. /\ chunk[w] \in Claimed \cap Chunks
        /\ UNCHANGED <<Held, Claimed>>
        /\ UNCHANGED <<mapped, WaitsFor>> \/ (mapped' = mapped \cup {chunk[w]} /\ Wake(chunk[w]))
    BY <1>4, FillMoves, WaitsFrame DEF Claimed
  <2>2. CASE UNCHANGED <<mapped, WaitsFor>>
    BY <2>1, <2>2
  <2>3. CASE mapped' = mapped \cup {chunk[w]} /\ Wake(chunk[w])
    <3>1. WaitsFor' = [t \in AppThreads |-> IF WaitsFor[t] = chunk[w] THEN NoChunk ELSE WaitsFor[t]]
      BY <2>1, <2>3, WakeReleases DEF IndInv
    <3>2. Promise!Fill(chunk[w])
      BY <2>1, <2>3, <3>1 DEF Promise!Fill
    <3> QED
      BY <2>1, <3>2 DEF Promise!Next
  <2> QED
    BY <2>1, <2>2, <2>3
<1>5. ASSUME NEW w \in Workers, Commit(w) PROVE Promise!Next
  <2>1. /\ chunk[w] \in (Claimed \cap mapped) \cap Chunks
        /\ Claimed' = Claimed \ {chunk[w]} /\ Held' = Held \cup {chunk[w]}
        /\ UNCHANGED <<mapped, WaitsFor>>
    BY <1>5, CommitMoves, WaitsFrame DEF Claimed
  <2>2. Promise!Keep(chunk[w])
    BY <2>1 DEF Promise!Keep
  <2> QED
    BY <2>1, <2>2 DEF Promise!Next
<1> QED
  BY <1>1, <1>2, <1>3, <1>4, <1>5 DEF MovesBytes

\* Pager implements Residency: with queues, locks and workers out of sight, no
\* chunk is readable that was not filled, no byte claimed beyond the budget, and
\* a reader waits only for what is not readable (region.h, budget.h, pager.c).
THEOREM PagerKeepsPromise == Spec => KeepsPromise
<1>1. Init => Promise!Init
  <2>1. Init => /\ Held = {} /\ Claimed = {} /\ mapped = {}
                /\ WaitsFor = [t \in AppThreads |-> NoChunk]
    BY DEF Init, RegionInit, PoolInit, Held, Claimed, InFlight, WaitsFor, Idle
  <2> QED
    BY <2>1 DEF Promise!Init
<1>2. IndInv /\ AccountsInv /\ [Next]_vars => [Promise!Next]_(Promise!vars)
  BY PromiseStep
<1>3. Spec => [](IndInv /\ AccountsInv)
  BY Invariance, AccountsInvariance, PTL
<1> QED
  BY <1>1, <1>2, <1>3, PTL DEF Spec, KeepsPromise, Promise!Spec

-----------------------------------------------------------------------------
(* A demand fetch waits for somebody *)

\* Without retention the FIFO stays empty, so no pin is left that a demand fetch
\* could not break.
NoRetention == ~ prefetch_retention_pinned => pinned_prefetch_queue = <<>>

LEMMA NoRetentionInvariance == Spec => []NoRetention
<1>1. Init => NoRetention
  BY DEF Init, RegionInit, NoRetention
<1>2. NoRetention /\ [Next]_vars => NoRetention'
  <2> SUFFICES ASSUME NoRetention, [Next]_vars,
                      ~ prefetch_retention_pinned, pinned_prefetch_queue = <<>>
               PROVE  UNCHANGED pinned_prefetch_queue
    BY DEF NoRetention
  <2>1. ASSUME NEW w \in Workers, WorkerStep(w) PROVE UNCHANGED pinned_prefetch_queue
    <3>1. ~ BreakPin(w)
      BY DEF BreakPin, Breakable
    <3> QED
      BY <2>1, <3>1
      DEF WorkerStep, PickDemand, PickPrefetch, Exit, Done, LockDemand, LockPrefetch,
          PinTarget, Reserve, SelectVictim, DeclinePrefetch, Infeasible, EvictChunk, Abandon,
          FetchRead, FetchResolve, Commit, SetResident, TopUpNeed, Predict,
          EnqueuePrefetch, ReleasePin, Unlock
  <2>2. ASSUME DispatcherStep PROVE UNCHANGED pinned_prefetch_queue
    BY <2>2 DEF DispatcherStep, ReadFault, HandleFault, Dispatch, StopPager
  <2>3. ASSUME NEW c \in Chunks, Watchdog(c) \/ BackoffExpires(c)
        PROVE  UNCHANGED pinned_prefetch_queue
    BY <2>3 DEF Watchdog, BackoffExpires
  <2>4. ASSUME NEW t \in AppThreads, AppStep(t) PROVE UNCHANGED pinned_prefetch_queue
    BY <2>4 DEF AppStep, Touch, NotifyAccess, Finish, Leave
  <2>5. ASSUME UNCHANGED vars PROVE UNCHANGED pinned_prefetch_queue
    BY <2>5
  <2> QED
    BY <2>1, <2>2, <2>3, <2>4, <2>5 DEF Next, Running, Terminated
<1> QED
  BY <1>1, <1>2, PTL DEF Spec

\* The steps at which a fetch has a reservation, a pin or a victim to give back.
GivesBack == InFlight \cup {"resident", "topup", "predict", "enqueue", "unpin"}

\* A demand fetch finds no room, no victim and no pin to break only while another
\* fetch will give one back: its sleep and its retries are not in vain, and a
\* chunk that fits the budget is never given up for lack of room in a pool at rest
\* (ensure_budget, pin_break_select_victim, do_one_demand).
THEOREM InfeasibleIsNeverFinal == Spec => InfeasibleIsTransient
<1> DEFINE Waits(w) ==
             /\ job[w] = "demand" /\ Infeasible(w)
             /\ ChunkLen[chunk[w]] <= budget_bytes
           Other(w) == \E u \in Workers \ {w} : pc[u] \in GivesBack
<1>1. ASSUME IndInv, AccountsInv, NoRetention,
             NEW w \in Workers, Waits(w), ~ Other(w)
      PROVE  FALSE
  <2>1. /\ pc[w] = "budget" /\ job[w] = "demand"
        /\ ~ Fits(chunk[w])
        /\ Evictable = {} /\ Breakable(w) = {}
        /\ ChunkLen[chunk[w]] <= budget_bytes
    BY <1>1 DEF Infeasible, InEnsureBudget
  <2>2. \A u \in Workers : pc[u] \notin GivesBack
    BY <1>1, <2>1 DEF GivesBack, InFlight
  <2>3. Claimed = {}
    BY <2>2 DEF Claimed, GivesBack
  <2>4. Held = {}
    <3> SUFFICES ASSUME NEW c \in Chunks, state[c] = "RESIDENT" PROVE FALSE
      BY <2>2 DEF Held, GivesBack
    <3>1. pin[c] # 0
      BY <2>1 DEF Evictable
    <3>2. c \notin Range(pinned_prefetch_queue)
      <4>1. CASE prefetch_retention_pinned
        BY <2>1, <4>1 DEF Breakable
      <4>2. CASE ~ prefetch_retention_pinned
        BY <1>1, <4>2 DEF NoRetention, Range
      <4> QED
        BY <4>1, <4>2
    <3>3. PICK u \in Workers : chunk[u] = c /\ HoldsPin(u)
      BY <1>1, <3>1, <3>2 DEF IndInv, PinsExact
    <3>4. pc[u] \in Fetching
      BY <2>2, <3>3 DEF HoldsPin, GivesBack, Fetching
    <3> QED
      BY <1>1, <3>3, <3>4, InFlightApart
  <2>5. resident_bytes = 0 /\ reserved_bytes = 0
    BY <1>1, <2>3, <2>4, BytesOfNone DEF AccountsInv
  <2>6. chunk[w] \in Chunks
    BY <1>1, <2>1 DEF IndInv, LocalsSet
  <2>7. Fits(chunk[w])
    BY <2>1, <2>5, <2>6, SizesAssumption DEF Fits
  <2> QED
    BY <2>1, <2>7
<1>2. IndInv /\ AccountsInv /\ NoRetention =>
        [\A w \in Workers : Waits(w) => Other(w)]_vars
  BY <1>1
<1>3. Spec => [](IndInv /\ AccountsInv /\ NoRetention)
  BY Invariance, AccountsInvariance, NoRetentionInvariance, PTL
<1>4. Spec => [][\A w \in Workers : Waits(w) => Other(w)]_vars
  BY <1>2, <1>3, PTL
<1> QED
  BY <1>4 DEF InfeasibleIsTransient, GivesBack

-----------------------------------------------------------------------------
(* The queues, and the faults that wait for them *)

-----------------------------------------------------------------------------
(* Faults that were read are not lost *)

\* w has the fetch of c in its hands, from its job to its end.
Serves(w, c) ==
  /\ chunk[w] = c
  /\ pc[w] \in Fetching \/ (pc[w] = "lock" /\ job[w] = "demand")

InHands(c) ==
  \/ dpc = "dispatch" /\ dchunk = c
  \/ c \in Range(demand_queue)
  \/ \E w \in Workers : Serves(w, c)

\* A FETCHING chunk is never left alone; the handler drops the faults on it.
FetchesInHands == \A c \in Chunks : state[c] = "FETCHING" => InHands(c)

\* The fetch of c has still to come to its UFFDIO_CONTINUE.
Unanswered(c) ==
  /\ state[c] = "FETCHING"
  /\ \A w \in Workers : chunk[w] = c => pc[w] \notin {"commit", "resident"}

WaitersDue ==
  \A t \in AppThreads : app[t].st = "waiting" =>
    /\ app[t].c \in Chunks
    /\ \/ dpc \in {"handle", "dispatch"} /\ dchunk = app[t].c
       \/ Unanswered(app[t].c)

FaultInv == FetchesInHands /\ WaitersDue

\* What is queued is what is next and what comes after it.
LEMMA QueueTail ==
  ASSUME NEW S, NEW s \in Seq(S), s # <<>>
  PROVE  Range(s) = {Head(s)} \cup Range(Tail(s))
<1>1. /\ Len(s) \in Nat \ {0} /\ Head(s) = s[1] /\ DOMAIN s = 1..Len(s)
      /\ DOMAIN Tail(s) = 1..(Len(s) - 1)
      /\ \A j \in 1..(Len(s) - 1) : Tail(s)[j] = s[j + 1]
  OBVIOUS
<1>2. Range(Tail(s)) \subseteq Range(s) /\ Head(s) \in Range(s)
  BY <1>1 DEF Range
<1>3. ASSUME NEW y \in Range(s), y # Head(s)
      PROVE  y \in Range(Tail(s))
  <2>1. PICK k \in 1..Len(s) : s[k] = y
    BY <1>1 DEF Range
  <2>2. k - 1 \in 1..(Len(s) - 1) /\ Tail(s)[k - 1] = y
    BY <1>1, <1>3, <2>1
  <2> QED
    BY <1>1, <2>2 DEF Range
<1> QED
  BY <1>2, <1>3

\* What is queued after an enqueue.
LEMMA QueueAppend ==
  ASSUME NEW S, NEW s \in Seq(S), NEW x \in S
  PROVE  Range(Append(s, x)) = Range(s) \cup {x}
<1> DEFINE t == Append(s, x)
<1>1. /\ t \in Seq(S) /\ Len(t) = Len(s) + 1
      /\ \A j \in 1..Len(s) : t[j] = s[j]
      /\ t[Len(s) + 1] = x
  OBVIOUS
<1> HIDE DEF t
<1>2. Range(t) = Range(s) \cup {x}
  BY <1>1 DEF Range
<1> QED
  BY <1>2 DEF t

\* A fetch passes from hand to hand: dispatcher, queue, worker.
LEMMA FetchesInHandsStep == IndInv /\ FaultInv /\ [Next]_vars => FetchesInHands'
<1> SUFFICES ASSUME IndInv, FaultInv, [Next]_vars, NEW c \in Chunks, state'[c] = "FETCHING"
             PROVE  InHands(c)'
  BY DEF FetchesInHands
<1>h. /\ state[c] = "FETCHING" => InHands(c)
      /\ LocksOwned /\ LocalsSet
      /\ pc \in [Workers -> WorkerLabels]
      /\ chunk \in [Workers -> Chunks \cup {NoChunk}]
      /\ job \in [Workers -> {"demand", "prefetch"}]
      /\ state \in [Chunks -> {"ABSENT", "FETCHING", "RESIDENT"}]
      /\ demand_queue \in Seq(Chunks)
  BY DEF FaultInv, FetchesInHands, IndInv, TypeOK, ChunkType, WorkerType, PoolType
<1>q. /\ demand_queue # <<>>
           => Range(demand_queue) = {Head(demand_queue)} \cup Range(Tail(demand_queue))
      /\ \A x \in Chunks : Range(Append(demand_queue, x)) = Range(demand_queue) \cup {x}
  BY <1>h, QueueTail, QueueAppend
<1>r. demand_queue' = demand_queue => Range(demand_queue)' = Range(demand_queue)
  OBVIOUS
<1> USE <1>h, NamesAssumption DEF InHands, Serves, LocksOwned, LocalsSet,
        Unowned, Goto, WorkerLabels, Fetching, InFlight
<1>1. ASSUME NEW w \in Workers, WorkerStep(w) PROVE InHands(c)'
  <2>1. CASE PickDemand(w)  BY <1>q, <2>1 DEF PickDemand
  <2>2. CASE PickPrefetch(w)  BY <1>r, <2>2 DEF PickPrefetch
  <2>3. CASE Exit(w)  BY <1>r, <2>3 DEF Exit
  <2>4. CASE Done(w)  BY <1>r, <2>4 DEF Done, Forget
  <2>5. CASE LockDemand(w)  BY <1>r, <2>5 DEF LockDemand
  <2>6. CASE LockPrefetch(w)  BY <1>r, <2>6 DEF LockPrefetch
  <2>7. CASE PinTarget(w)  BY <1>r, <2>7 DEF PinTarget
  <2>8. CASE Reserve(w)  BY <1>r, <2>8 DEF Reserve, InEnsureBudget, FetchOrder
  <2>9. CASE SelectVictim(w)  BY <1>r, <2>9 DEF SelectVictim, InEnsureBudget
  <2>10. CASE DeclinePrefetch(w)
    BY <1>r, <2>10 DEF DeclinePrefetch, InEnsureBudget
  <2>11. CASE BreakPin(w)  BY <1>r, <2>11 DEF BreakPin, InEnsureBudget
  <2>12. CASE Infeasible(w)  BY <1>r, <2>12 DEF Infeasible, InEnsureBudget
  <2>13. CASE EvictChunk(w)  BY <1>r, <2>13 DEF EvictChunk
  <2>14. CASE Abandon(w)  BY <1>r, <2>14 DEF Abandon, Forget, AbandonFetch
  <2>15. CASE FetchRead(w)  BY <1>r, <2>15 DEF FetchRead, FetchOrder, After
  <2>16. CASE FetchResolve(w)  BY <1>r, <2>16 DEF FetchResolve, FetchOrder, After
  <2>17. CASE Commit(w)  BY <1>r, <2>17 DEF Commit
  <2>18. CASE SetResident(w)  BY <1>r, <2>18 DEF SetResident
  <2>19. CASE TopUpNeed(w)  BY <1>r, <2>19 DEF TopUpNeed
  <2>20. CASE Predict(w)  BY <1>r, <2>20 DEF Predict
  <2>21. CASE EnqueuePrefetch(w)  BY <1>r, <2>21 DEF EnqueuePrefetch
  <2>22. CASE ReleasePin(w)  BY <1>r, <2>22 DEF ReleasePin
  <2>23. CASE Unlock(w)  BY <1>r, <2>23 DEF Unlock, Forget
  <2> QED
    BY <1>1, <2>1, <2>2, <2>3, <2>4, <2>5, <2>6, <2>7, <2>8, <2>9, <2>10,
       <2>11, <2>12, <2>13, <2>14, <2>15, <2>16, <2>17, <2>18, <2>19,
       <2>20, <2>21, <2>22, <2>23 DEF WorkerStep
<1>2. ASSUME DispatcherStep PROVE InHands(c)'
  <2>1. ASSUME NEW t \in AppThreads, ReadFault(t) PROVE InHands(c)'
    BY <1>r, <2>1 DEF ReadFault
  <2>2. CASE HandleFault  BY <1>r, <2>2 DEF HandleFault, ClaimSlot
  <2>3. CASE Dispatch
    <3>0. dpc = "dispatch" /\ dchunk \in Chunks
      BY <2>3 DEF Dispatch
    <3>1. \/ DemandQueueFull /\ UNCHANGED <<demand_queue, dpc, dchunk>>
          \/ demand_queue' = Append(demand_queue, dchunk)
      BY <2>3 DEF Dispatch
    <3>2. \/ UNCHANGED <<demand_queue, dpc, dchunk>>
          \/ Range(demand_queue)' = Range(demand_queue) \cup {dchunk}
      BY <1>q, <3>0, <3>1
    <3>3. UNCHANGED <<state, pc, job, chunk>>
      BY <2>3 DEF Dispatch
    <3> QED
      BY <1>r, <3>0, <3>2, <3>3
  <2>4. CASE StopPager  BY <1>r, <2>4 DEF StopPager
  <2> QED
    BY <1>2, <2>1, <2>2, <2>3, <2>4 DEF DispatcherStep
<1>3. ASSUME NEW d \in Chunks, Watchdog(d) PROVE InHands(c)'
  BY <1>r, <1>3 DEF Watchdog, AbandonFetch
<1>4. ASSUME NEW d \in Chunks, BackoffExpires(d) PROVE InHands(c)'
  BY <1>r, <1>4 DEF BackoffExpires
<1>5. ASSUME NEW t \in AppThreads, AppStep(t) PROVE InHands(c)'
  <2>1. ASSUME NEW d \in Chunks, Touch(t, d) PROVE InHands(c)'
    BY <1>r, <2>1 DEF Touch
  <2>2. ASSUME NEW d \in Chunks, NotifyAccess(t, d) PROVE InHands(c)'
    BY <1>r, <2>2 DEF NotifyAccess
  <2>3. CASE Finish(t)  BY <1>r, <2>3 DEF Finish
  <2>4. CASE Leave(t)  BY <1>r, <2>4 DEF Leave
  <2> QED
    BY <1>5, <2>1, <2>2, <2>3, <2>4 DEF AppStep
<1>6. CASE UNCHANGED vars  BY <1>r, <1>6
<1> QED
  BY <1>1, <1>2, <1>3, <1>4, <1>5, <1>6 DEF Next, Running, Terminated

\* A waiting thread is the dispatcher's next to look after, or the fetch of its
\* chunk has still to wake it: a fetch that ends otherwise wakes it at once.
LEMMA WaitersDueStep == IndInv /\ FaultInv /\ [Next]_vars => WaitersDue'
<1> SUFFICES ASSUME IndInv, FaultInv, [Next]_vars
             PROVE  WaitersDue'
  OBVIOUS
<1>h. /\ WaitersDue
      /\ LocksOwned /\ LocalsSet /\ StagesMatch
      /\ pc \in [Workers -> WorkerLabels]
      /\ chunk \in [Workers -> Chunks \cup {NoChunk}]
      /\ state \in [Chunks -> {"ABSENT", "FETCHING", "RESIDENT"}]
      /\ app \in [AppThreads ->
                  [st : {"idle", "queued", "waiting", "retry", "gone"},
                   c  : Chunks \cup {NoChunk}]]
  BY DEF FaultInv, IndInv, TypeOK, ChunkType, WorkerType, ThreadType
<1> USE <1>h, NamesAssumption DEF WaitersDue, Unanswered, LocksOwned, LocalsSet,
        StagesMatch, Unowned, Goto, WorkerLabels, Fetching, Finished, ToppingUp, InFlight
<1>1. ASSUME NEW w \in Workers, WorkerStep(w) PROVE WaitersDue'
  <2>1. CASE PickDemand(w)  BY <2>1 DEF PickDemand
  <2>2. CASE PickPrefetch(w)  BY <2>2 DEF PickPrefetch
  <2>3. CASE Exit(w)  BY <2>3 DEF Exit
  <2>4. CASE Done(w)  BY <2>4 DEF Done, Forget
  <2>5. CASE LockDemand(w)  BY <2>5 DEF LockDemand
  <2>6. CASE LockPrefetch(w)  BY <2>6 DEF LockPrefetch
  <2>7. CASE PinTarget(w)  BY <2>7 DEF PinTarget
  <2>8. CASE Reserve(w)  BY <2>8 DEF Reserve, InEnsureBudget, FetchOrder
  <2>9. CASE SelectVictim(w)  BY <2>9 DEF SelectVictim, InEnsureBudget
  <2>10. CASE DeclinePrefetch(w)  BY <2>10 DEF DeclinePrefetch, InEnsureBudget
  <2>11. CASE BreakPin(w)  BY <2>11 DEF BreakPin, InEnsureBudget
  <2>12. CASE Infeasible(w)  BY <2>12 DEF Infeasible, InEnsureBudget
  <2>13. CASE EvictChunk(w)  BY <2>13 DEF EvictChunk
  <2>14. CASE Abandon(w)  BY <2>14 DEF Abandon, Forget, AbandonFetch, Wake
  <2>15. CASE FetchRead(w)  BY <2>15 DEF FetchRead, FetchOrder, After
  <2>16. CASE FetchResolve(w)  BY <2>16 DEF FetchResolve, FetchOrder, After, Wake
  <2>17. CASE Commit(w)  BY <2>17 DEF Commit
  <2>18. CASE SetResident(w)  BY <2>18 DEF SetResident
  <2>19. CASE TopUpNeed(w)  BY <2>19 DEF TopUpNeed
  <2>20. CASE Predict(w)  BY <2>20 DEF Predict
  <2>21. CASE EnqueuePrefetch(w)  BY <2>21 DEF EnqueuePrefetch
  <2>22. CASE ReleasePin(w)  BY <2>22 DEF ReleasePin
  <2>23. CASE Unlock(w)  BY <2>23 DEF Unlock, Forget
  <2> QED
    BY <1>1, <2>1, <2>2, <2>3, <2>4, <2>5, <2>6, <2>7, <2>8, <2>9, <2>10,
       <2>11, <2>12, <2>13, <2>14, <2>15, <2>16, <2>17, <2>18, <2>19,
       <2>20, <2>21, <2>22, <2>23 DEF WorkerStep
<1>2. ASSUME DispatcherStep PROVE WaitersDue'
  <2>1. ASSUME NEW t \in AppThreads, ReadFault(t) PROVE WaitersDue'
    BY <2>1 DEF ReadFault
  <2>2. CASE HandleFault  BY <2>2 DEF HandleFault, ClaimSlot, Wake
  <2>3. CASE Dispatch  BY <2>3 DEF Dispatch
  <2>4. CASE StopPager  BY <2>4 DEF StopPager
  <2> QED
    BY <1>2, <2>1, <2>2, <2>3, <2>4 DEF DispatcherStep
<1>3. ASSUME NEW c \in Chunks, Watchdog(c) PROVE WaitersDue'
  BY <1>3 DEF Watchdog, AbandonFetch, Wake
<1>4. ASSUME NEW c \in Chunks, BackoffExpires(c) PROVE WaitersDue'
  BY <1>4 DEF BackoffExpires
<1>5. ASSUME NEW t \in AppThreads, AppStep(t) PROVE WaitersDue'
  <2>1. ASSUME NEW c \in Chunks, Touch(t, c) PROVE WaitersDue'
    BY <2>1 DEF Touch
  <2>2. ASSUME NEW c \in Chunks, NotifyAccess(t, c) PROVE WaitersDue'
    BY <2>2 DEF NotifyAccess
  <2>3. CASE Finish(t)  BY <2>3 DEF Finish, Idle
  <2>4. CASE Leave(t)  BY <2>4 DEF Leave
  <2> QED
    BY <1>5, <2>1, <2>2, <2>3, <2>4 DEF AppStep
<1>6. CASE UNCHANGED vars  BY <1>6
<1> QED
  BY <1>1, <1>2, <1>3, <1>4, <1>5, <1>6 DEF Next, Running, Terminated

LEMMA FaultsInit == Init => FaultInv
BY DEF Init, RegionInit, PoolInit, FaultInv, FetchesInHands, WaitersDue, Idle

LEMMA FaultInvariance == Spec => [](IndInv /\ FaultInv)
<1>1. Init => IndInv /\ FaultInv
  BY InitEstablishes, FaultsInit
<1>2. IndInv /\ FaultInv /\ [Next]_vars => (IndInv /\ FaultInv)'
  BY StepPreserves, FetchesInHandsStep, WaitersDueStep DEF FaultInv
<1> QED
  BY <1>1, <1>2, PTL DEF Spec

\* No fault is lost, the watchdog included: a thread whose message was consumed,
\* dropped as a duplicate or not, is woken however the fetch ends (pager.c
\* handle_absent_dispatch and pager_abandon_fetch, fetch.c fetch_resolve).
THEOREM FaultsAreNotLost == Spec => []NoLostFault
<1>1. IndInv /\ FaultInv => NoLostFault
  <2> SUFFICES ASSUME IndInv, FaultInv, NEW t \in AppThreads, app[t].st = "waiting"
               PROVE  WakeIsDue(app[t].c)
    BY DEF NoLostFault
  <2> DEFINE c == app[t].c
  <2>1. c \in Chunks
    BY DEF FaultInv, WaitersDue
  <2>2. CASE dpc \in {"handle", "dispatch"} /\ dchunk = c
    BY <2>2 DEF WakeIsDue
  <2>3. CASE Unanswered(c)
    <3>1. state[c] = "FETCHING" /\ InHands(c)
      BY <2>1, <2>3 DEF Unanswered, FaultInv, FetchesInHands
    <3> QED
      BY <2>3, <3>1 DEF WakeIsDue, InHands, Serves, Unanswered, Fetching, InFlight
  <2> QED
    BY <2>2, <2>3 DEF FaultInv, WaitersDue
<1> QED
  BY <1>1, FaultInvariance, PTL

-----------------------------------------------------------------------------
(* Each demand job has its claim *)

\* w has taken its job from the queue, and not yet the lock of its chunk.
Picked(w) == pc[w] = "lock" /\ job[w] = "demand"

Queued(c) == c \in Range(demand_queue) \/ \E w \in Workers : Picked(w) /\ chunk[w] = c

\* A job is in one place, and until it starts nobody else has its chunk.
DemandInv ==
  /\ IsInjective(demand_queue)
  /\ \A w \in Workers : Picked(w) =>
       /\ chunk[w] \notin Range(demand_queue)
       /\ \A u \in Workers : Picked(u) /\ u # w => chunk[u] # chunk[w]
  /\ \A c \in Chunks : Queued(c) =>
       /\ state[c] = "FETCHING"
       /\ ~ (dpc = "dispatch" /\ dchunk = c)
       /\ \A u \in Workers : chunk[u] = c => pc[u] \notin Fetching
  /\ ~ aborted

\* A queue that holds each chunk once is no longer than the table.
LEMMA QueueBound ==
  ASSUME NEW s \in Seq(Chunks), IsInjective(s)
  PROVE  Len(s) <= Cardinality(Chunks)
<1>1. s \in Injection(1..Len(s), Chunks)
  BY DEF Injection
<1>2. Cardinality(1..Len(s)) <= Cardinality(Chunks)
  BY <1>1, FS_Injection, SizesAssumption
<1>3. Cardinality(1..Len(s)) = Len(s)
  <2>1. Len(s) \in Nat /\ 1 \in Int
    OBVIOUS
  <2>2. Cardinality(1..Len(s)) = IF 1 > Len(s) THEN 0 ELSE Len(s) - 1 + 1
    BY <2>1, FS_Interval
  <2> QED
    BY <2>1, <2>2
<1> QED
  BY <1>2, <1>3

LEMMA DemandInvStep ==
  ASSUME ~ TimeoutMayFire
  PROVE  IndInv /\ DemandInv /\ [Next]_vars => DemandInv'
<1> SUFFICES ASSUME IndInv, DemandInv, [Next]_vars
             PROVE  DemandInv'
  OBVIOUS
<1>h. /\ DemandInv
      /\ LocksOwned /\ LocalsSet /\ StagesMatch /\ EvictionSafe
      /\ pc \in [Workers -> WorkerLabels]
      /\ job \in [Workers -> {"demand", "prefetch"}]
      /\ chunk \in [Workers -> Chunks \cup {NoChunk}]
      /\ state \in [Chunks -> {"ABSENT", "FETCHING", "RESIDENT"}]
      /\ demand_queue \in Seq(Chunks)
  BY DEF IndInv, TypeOK, ChunkType, WorkerType, PoolType
<1>q. demand_queue # <<>> =>
        /\ IsInjective(Tail(demand_queue))
        /\ Head(demand_queue) \in Range(demand_queue)
        /\ Range(Tail(demand_queue)) = Range(demand_queue) \ {Head(demand_queue)}
  BY <1>h, FifoTail DEF DemandInv
<1>r. demand_queue' = demand_queue =>
        /\ Range(demand_queue)' = Range(demand_queue)
        /\ IsInjective(demand_queue)'
  BY <1>h DEF DemandInv
<1>s. Range(demand_queue) \subseteq Chunks
  BY <1>h, FifoRange
<1> USE <1>h, <1>s, NamesAssumption DEF DemandInv, Queued, Picked, LocksOwned, LocalsSet,
        StagesMatch, Unowned, Goto, WorkerLabels, Fetching, Finished, ToppingUp, InFlight
<1>1. ASSUME NEW w \in Workers, WorkerStep(w) PROVE DemandInv'
  <2>1. CASE PickDemand(w)  BY <1>q, <2>1 DEF PickDemand
  <2>2. CASE PickPrefetch(w)  BY <1>r, <2>2 DEF PickPrefetch
  <2>3. CASE Exit(w)  BY <1>r, <2>3 DEF Exit
  <2>4. CASE Done(w)  BY <1>r, <2>4 DEF Done, Forget
  <2>5. CASE LockDemand(w)  BY <1>r, <2>5 DEF LockDemand
  <2>6. CASE LockPrefetch(w)  BY <1>r, <2>6 DEF LockPrefetch
  <2>7. CASE PinTarget(w)  BY <1>r, <2>7 DEF PinTarget
  <2>8. CASE Reserve(w)  BY <1>r, <2>8 DEF Reserve, InEnsureBudget, FetchOrder
  <2>9. CASE SelectVictim(w)  BY <1>r, <2>9 DEF SelectVictim, InEnsureBudget
  <2>10. CASE DeclinePrefetch(w)  BY <1>r, <2>10 DEF DeclinePrefetch, InEnsureBudget
  <2>11. CASE BreakPin(w)  BY <1>r, <2>11 DEF BreakPin, InEnsureBudget
  <2>12. CASE Infeasible(w)  BY <1>r, <2>12 DEF Infeasible, InEnsureBudget
  <2>13. CASE EvictChunk(w)  BY <1>r, <2>13 DEF EvictChunk, EvictionSafe
  <2>14. CASE Abandon(w)  BY <1>r, <2>14 DEF Abandon, Forget, AbandonFetch
  <2>15. CASE FetchRead(w)  BY <1>r, <2>15 DEF FetchRead, FetchOrder, After
  <2>16. CASE FetchResolve(w)  BY <1>r, <2>16 DEF FetchResolve, FetchOrder, After
  <2>17. CASE Commit(w)  BY <1>r, <2>17 DEF Commit
  <2>18. CASE SetResident(w)  BY <1>r, <2>18 DEF SetResident
  <2>19. CASE TopUpNeed(w)  BY <1>r, <2>19 DEF TopUpNeed
  <2>20. CASE Predict(w)  BY <1>r, <2>20 DEF Predict
  <2>21. CASE EnqueuePrefetch(w)  BY <1>r, <2>21 DEF EnqueuePrefetch
  <2>22. CASE ReleasePin(w)  BY <1>r, <2>22 DEF ReleasePin
  <2>23. CASE Unlock(w)  BY <1>r, <2>23 DEF Unlock, Forget
  <2> QED
    BY <1>1, <2>1, <2>2, <2>3, <2>4, <2>5, <2>6, <2>7, <2>8, <2>9, <2>10,
       <2>11, <2>12, <2>13, <2>14, <2>15, <2>16, <2>17, <2>18, <2>19,
       <2>20, <2>21, <2>22, <2>23 DEF WorkerStep
<1>2. ASSUME DispatcherStep PROVE DemandInv'
  <2>1. ASSUME NEW t \in AppThreads, ReadFault(t) PROVE DemandInv'
    BY <1>r, <2>1 DEF ReadFault
  <2>2. CASE HandleFault  BY <1>r, <2>2 DEF HandleFault, ClaimSlot
  <2>3. CASE Dispatch
    <3>1. dpc = "dispatch" /\ dchunk \in Chunks /\ state[dchunk] = "FETCHING"
      BY <2>3 DEF Dispatch
    <3>2. ~ DemandQueueFull
      <4>1. Len(demand_queue) <= Cardinality(Chunks) /\ Cardinality(Chunks) \in Nat
        BY QueueBound, FS_CardinalityType, SizesAssumption
      <4> QED
        BY <4>1 DEF DemandQueueFull
    <3>3. ~ Queued(dchunk)
      BY <3>1
    <3>4. /\ demand_queue' = Append(demand_queue, dchunk)
          /\ dpc' = "idle" /\ UNCHANGED <<state, pc, job, chunk, aborted>>
      BY <2>3, <3>2 DEF Dispatch
    <3>5. /\ IsInjective(demand_queue)'
          /\ Range(demand_queue)' = Range(demand_queue) \cup {dchunk}
      BY <3>1, <3>3, <3>4, FifoAppend
    <3>6. \A u \in Workers : chunk[u] = dchunk => pc[u] \notin Fetching
      BY <3>1
    <3> QED
      BY <3>1, <3>3, <3>4, <3>5, <3>6
  <2>4. CASE StopPager  BY <1>r, <2>4 DEF StopPager
  <2> QED
    BY <1>2, <2>1, <2>2, <2>3, <2>4 DEF DispatcherStep
<1>3. ASSUME NEW c \in Chunks, Watchdog(c) PROVE DemandInv'
  BY <1>3 DEF Watchdog
<1>4. ASSUME NEW c \in Chunks, BackoffExpires(c) PROVE DemandInv'
  BY <1>r, <1>4 DEF BackoffExpires
<1>5. ASSUME NEW t \in AppThreads, AppStep(t) PROVE DemandInv'
  <2>1. ASSUME NEW c \in Chunks, Touch(t, c) PROVE DemandInv'
    BY <1>r, <2>1 DEF Touch
  <2>2. ASSUME NEW c \in Chunks, NotifyAccess(t, c) PROVE DemandInv'
    BY <1>r, <2>2 DEF NotifyAccess
  <2>3. CASE Finish(t)  BY <1>r, <2>3 DEF Finish
  <2>4. CASE Leave(t)  BY <1>r, <2>4 DEF Leave
  <2> QED
    BY <1>5, <2>1, <2>2, <2>3, <2>4 DEF AppStep
<1>6. CASE UNCHANGED vars  BY <1>r, <1>6
<1> QED
  BY <1>1, <1>2, <1>3, <1>4, <1>5, <1>6 DEF Next, Running, Terminated

\* A demand job finds its chunk as the dispatcher left it, queued once, and the
\* queue never overflows: as long as the watchdog leaves queued chunks alone, no
\* abort() of the pager is reached (prefetch_pool.c do_one_demand and
\* prefetch_pool_enqueue_demand, budget.c evict_chunk).
THEOREM DemandJobsAreClaimed == ~ TimeoutMayFire => (Spec => []DemandJobsClaimed)
<1> SUFFICES ASSUME ~ TimeoutMayFire PROVE Spec => []DemandJobsClaimed
  OBVIOUS
<1>1. Init => IndInv /\ DemandInv
  <2> SUFFICES ASSUME Init PROVE DemandInv
    BY InitEstablishes
  <2>1. Range(demand_queue) = {} /\ IsInjective(demand_queue)
    BY DEF Init, PoolInit, Range, IsInjective
  <2> QED
    BY <2>1 DEF Init, RegionInit, PoolInit, DemandInv, Queued, Picked
<1>2. IndInv /\ DemandInv /\ [Next]_vars => (IndInv /\ DemandInv)'
  BY StepPreserves, DemandInvStep
<1>3. IndInv /\ DemandInv => DemandJobsClaimed
  <2> SUFFICES ASSUME IndInv, DemandInv PROVE DemandJobsClaimed
    OBVIOUS
  <2>1. Range(demand_queue) \subseteq Chunks
    BY FifoRange DEF IndInv, TypeOK, PoolType
  <2>2. DemandPicked = {chunk[w] : w \in {u \in Workers : Picked(u)}}
    BY DEF DemandPicked, Picked
  <2>3. \A w \in Workers : Picked(w) => chunk[w] \in Chunks
    BY DEF IndInv, LocalsSet, Picked
  <2> QED
    BY <2>1, <2>2, <2>3 DEF DemandJobsClaimed, DemandInv, Queued
<1> QED
  BY <1>1, <1>2, <1>3, PTL DEF Spec

-----------------------------------------------------------------------------
(* Outstanding prefetches are counted exactly *)

Busy(w) == job[w] = "prefetch" /\ pc[w] \notin {"idle", "exited"}

\* A tracked prefetch is queued or with one worker, and each is counted once.
TrackInv ==
  /\ \A w \in Workers :
       /\ Busy(w) => /\ chunk[w] \in pf_tracked \ Range(pf_queue)
                     /\ \A u \in Workers : Busy(u) /\ u # w => chunk[u] # chunk[w]
       /\ pc[w] = "done" => job[w] = "prefetch"
  /\ IsInjective(pf_queue)
  /\ Range(pf_queue) \subseteq pf_tracked
  /\ pf_outstanding = Cardinality(pf_tracked)
  /\ pf_outstanding = Len(pf_queue) + Cardinality({w \in Workers : Busy(w)})

\* A step that is about no prefetch job.
TrackQuiet ==
  /\ UNCHANGED pfVars
  /\ \A u \in Workers : /\ Busy(u)' <=> Busy(u)
                        /\ Busy(u) => chunk'[u] = chunk[u]
                        /\ pc'[u] = "done" => job'[u] = "prefetch"

LEMMA TrackFrame == TrackInv /\ TrackQuiet => TrackInv'
<1> SUFFICES ASSUME TrackInv, TrackQuiet PROVE TrackInv'
  OBVIOUS
<1>1. {w \in Workers : Busy(w)}' = {w \in Workers : Busy(w)}
  BY DEF TrackQuiet
<1>2. UNCHANGED <<pf_queue, pf_tracked, pf_outstanding>> /\ Range(pf_queue)' = Range(pf_queue)
  BY DEF TrackQuiet
<1>3. /\ IsInjective(pf_queue)' /\ Range(pf_queue)' \subseteq pf_tracked'
      /\ pf_outstanding' = Cardinality(pf_tracked)'
      /\ (pf_outstanding = Len(pf_queue) + Cardinality({w \in Workers : Busy(w)}))'
  BY <1>1, <1>2 DEF TrackInv
<1>4. \A w \in Workers :
        /\ Busy(w)' => /\ chunk'[w] \in pf_tracked' \ Range(pf_queue)'
                       /\ \A u \in Workers : Busy(u)' /\ u # w => chunk'[u] # chunk'[w]
        /\ pc'[w] = "done" => job'[w] = "prefetch"
  BY <1>2 DEF TrackInv, TrackQuiet
<1> QED
  BY <1>3, <1>4 DEF TrackInv

\* What is queued is queued once, and a job leaves the count when it is done.
LEMMA TrackInvStep == IndInv /\ TrackInv /\ [Next]_vars => TrackInv'
<1> SUFFICES ASSUME IndInv, TrackInv, [Next]_vars, ~ TrackQuiet
             PROVE  TrackInv'
  BY TrackFrame
<1>h. /\ \A w \in Workers : pc[w] = "done" => job[w] = "prefetch"
      /\ LocalsSet
      /\ pc \in [Workers -> WorkerLabels]
      /\ job \in [Workers -> {"demand", "prefetch"}]
      /\ chunk \in [Workers -> Chunks \cup {NoChunk}]
  BY DEF TrackInv, IndInv, TypeOK, WorkerType
<1>t. /\ pf_queue \in Seq(Chunks) /\ pf_tracked \subseteq Chunks
      /\ IsFiniteSet(pf_tracked) /\ pf_outstanding \in Nat /\ Cardinality(pf_tracked) \in Nat
      /\ IsFiniteSet({w \in Workers : Busy(w)}) /\ Cardinality({w \in Workers : Busy(w)}) \in Nat
  <2>1. pf_queue \in Seq(Chunks) /\ pf_tracked \subseteq Chunks
    BY DEF IndInv, TypeOK, PoolType
  <2>2. IsFiniteSet(pf_tracked) /\ IsFiniteSet({w \in Workers : Busy(w)})
    BY <2>1, SizesAssumption, FS_Subset
  <2> QED
    BY <2>1, <2>2, FS_CardinalityType DEF TrackInv
<1> USE <1>h, NamesAssumption DEF TrackQuiet, Busy, LocalsSet, Goto, WorkerLabels
<1>1. ASSUME NEW w \in Workers, WorkerStep(w) PROVE TrackInv'
  <2> DEFINE B == {u \in Workers : Busy(u)}
  <2>1. CASE PickDemand(w)  BY <2>1 DEF PickDemand
  <2>2. CASE PickPrefetch(w)
    <3> USE <2>2 DEF PickPrefetch
    <3>1. /\ pf_queue # <<>> /\ ~ Busy(w)
          /\ pf_queue' = Tail(pf_queue) /\ pf_tracked' = pf_tracked
          /\ pf_outstanding' = pf_outstanding
          /\ pc' = [pc EXCEPT ![w] = "lock"] /\ job' = [job EXCEPT ![w] = "prefetch"]
          /\ chunk' = [chunk EXCEPT ![w] = Head(pf_queue)]
      OBVIOUS
    <3>2. /\ Len(pf_queue)' = Len(pf_queue) - 1 /\ Len(pf_queue) \in Nat
          /\ Head(pf_queue) \in Range(pf_queue) /\ IsInjective(pf_queue)'
          /\ Range(pf_queue)' = Range(pf_queue) \ {Head(pf_queue)}
      BY <1>t, <3>1, FifoTail DEF TrackInv
    <3>3. B' = B \cup {w} /\ w \notin B
      BY <3>1
    <3>4. Cardinality(B') = Cardinality(B) + 1
      BY <1>t, <3>3, FS_AddElement
    <3>5. \A u \in Workers : u # w => (Busy(u)' <=> Busy(u)) /\ chunk'[u] = chunk[u]
      BY <3>1
    <3>h. /\ Range(pf_queue) \subseteq pf_tracked
          /\ \A u \in B : /\ chunk[u] \in pf_tracked \ Range(pf_queue)
                          /\ \A x \in B : x # u => chunk[x] # chunk[u]
          /\ pf_outstanding = Len(pf_queue) + Cardinality(B)
          /\ Cardinality(B) \in Nat
      BY <1>t DEF TrackInv
    <3>i. /\ Head(pf_queue) \in pf_tracked' \ Range(pf_queue)'
          /\ \A u \in B : /\ chunk[u] \in pf_tracked' \ Range(pf_queue)'
                          /\ chunk[u] # Head(pf_queue)
      <4> HIDE DEF PickPrefetch, Busy, LocalsSet, B
      <4> QED
        BY <3>1, <3>2, <3>h
    <3>j. /\ chunk'[w] = Head(pf_queue) /\ pc'[w] # "done"
          /\ \A u \in Workers : pc'[u] = "done" => job'[u] = "prefetch"
      BY <3>1
    <3>k. \A u \in Workers : Busy(u)' => u \in B \cup {w}
      BY <3>5
    <3> HIDE DEF PickPrefetch, Busy, LocalsSet
    <3>6. \A u \in Workers :
            /\ Busy(u)' => /\ chunk'[u] \in pf_tracked' \ Range(pf_queue)'
                           /\ \A x \in Workers : Busy(x)' /\ x # u => chunk'[x] # chunk'[u]
            /\ pc'[u] = "done" => job'[u] = "prefetch"
      BY <3>3, <3>5, <3>h, <3>i, <3>j, <3>k
    <3>7. pf_outstanding' = Len(pf_queue)' + Cardinality(B')
      <4>1. /\ pf_outstanding' = pf_outstanding /\ Len(pf_queue)' = Len(pf_queue) - 1
            /\ Len(pf_queue) \in Nat
        BY <3>1, <3>2
      <4> HIDE DEF B
      <4> QED
        BY <4>1, <3>4, <3>h
    <3> QED
      BY <3>1, <3>2, <3>6, <3>7 DEF TrackInv
  <2>3. CASE Exit(w)  BY <2>3 DEF Exit
  <2>4. CASE Done(w)
    <3> USE <2>4 DEF Done, Forget, Untrack
    <3>1. /\ Busy(w) /\ chunk[w] \in pf_tracked \ Range(pf_queue)
          /\ pf_tracked' = pf_tracked \ {chunk[w]} /\ pf_outstanding' = pf_outstanding - 1
          /\ pf_queue' = pf_queue /\ job' = job
          /\ pc' = [pc EXCEPT ![w] = "idle"] /\ chunk' = [chunk EXCEPT ![w] = NoChunk]
      BY DEF TrackInv
    <3>2. B' = B \ {w} /\ w \in B
      BY <3>1
    <3>b. /\ IsFiniteSet(B) /\ Cardinality(B) \in Nat
          /\ pf_outstanding = Len(pf_queue) + Cardinality(B)
      BY <1>t DEF TrackInv
    <3>3. Cardinality(B') = Cardinality(B) - 1
      <4> HIDE DEF Done, Forget, Untrack, B
      <4> QED
        BY <3>2, <3>b, FS_RemoveElement
    <3>4. Cardinality(pf_tracked') = Cardinality(pf_tracked) - 1
      <4> HIDE DEF Done, Forget, Untrack, Busy
      <4> QED
        BY <1>t, <3>1, FS_RemoveElement
    <3>5. Range(pf_queue)' = Range(pf_queue) /\ Len(pf_queue)' = Len(pf_queue) /\ Len(pf_queue) \in Nat
      BY <1>t, <3>1
    <3>6. \A u \in Workers : u # w => (Busy(u)' <=> Busy(u)) /\ chunk'[u] = chunk[u]
      BY <3>1
    <3>7. \A u \in Workers :
            /\ Busy(u)' => /\ chunk'[u] \in pf_tracked' \ Range(pf_queue)'
                           /\ \A x \in Workers : Busy(x)' /\ x # u => chunk'[x] # chunk'[u]
            /\ pc'[u] = "done" => job'[u] = "prefetch"
      BY <3>1, <3>5, <3>6 DEF TrackInv
    <3>8. pf_outstanding' = Len(pf_queue)' + Cardinality(B')
      <4> HIDE DEF Done, Forget, Untrack, B
      <4> QED
        BY <3>1, <3>3, <3>5, <3>b
    <3> QED
      BY <3>1, <3>4, <3>5, <3>7, <3>8 DEF TrackInv
  <2>5. CASE LockDemand(w)  BY <2>5 DEF LockDemand
  <2>6. CASE LockPrefetch(w)  BY <2>6 DEF LockPrefetch
  <2>7. CASE PinTarget(w)  BY <2>7 DEF PinTarget
  <2>8. CASE Reserve(w)  BY <2>8 DEF Reserve, InEnsureBudget, FetchOrder
  <2>9. CASE SelectVictim(w)  BY <2>9 DEF SelectVictim, InEnsureBudget
  <2>10. CASE DeclinePrefetch(w)  BY <2>10 DEF DeclinePrefetch, InEnsureBudget
  <2>11. CASE BreakPin(w)  BY <2>11 DEF BreakPin, InEnsureBudget
  <2>12. CASE Infeasible(w)  BY <2>12 DEF Infeasible, InEnsureBudget
  <2>13. CASE EvictChunk(w)  BY <2>13 DEF EvictChunk
  <2>14. CASE Abandon(w)  BY <2>14 DEF Abandon, Forget
  <2>15. CASE FetchRead(w)  BY <2>15 DEF FetchRead, FetchOrder, After
  <2>16. CASE FetchResolve(w)  BY <2>16 DEF FetchResolve, FetchOrder, After
  <2>17. CASE Commit(w)  BY <2>17 DEF Commit
  <2>18. CASE SetResident(w)  BY <2>18 DEF SetResident
  <2>19. CASE TopUpNeed(w)  BY <2>19 DEF TopUpNeed
  <2>20. CASE Predict(w)  BY <2>20 DEF Predict
  <2>21. CASE EnqueuePrefetch(w)
    <3> USE <2>21 DEF EnqueuePrefetch
    <3> DEFINE p == cursor[w]
    <3>1. /\ p \in Chunks /\ p \notin pf_tracked
          /\ pf_tracked' = pf_tracked \cup {p} /\ pf_queue' = Append(pf_queue, p)
          /\ pf_outstanding' = pf_outstanding + 1
      OBVIOUS
    <3>2. \A u \in Workers : /\ (Busy(u)' <=> Busy(u)) /\ chunk'[u] = chunk[u]
                             /\ pc'[u] = "done" => job'[u] = "prefetch"
      OBVIOUS
    <3> HIDE DEF p
    <3>3. p \notin Range(pf_queue)
      BY <3>1 DEF TrackInv
    <3>4. /\ Len(pf_queue)' = Len(pf_queue) + 1 /\ Len(pf_queue) \in Nat /\ IsInjective(pf_queue)'
          /\ Range(pf_queue)' = Range(pf_queue) \cup {p}
      BY <1>t, <3>1, <3>3, FifoAppend DEF TrackInv
    <3>5. Cardinality(pf_tracked') = Cardinality(pf_tracked) + 1
      BY <1>t, <3>1, FS_AddElement
    <3>6. B' = B
      BY <3>2
    <3>7. \A u \in Workers :
            /\ Busy(u)' => /\ chunk'[u] \in pf_tracked' \ Range(pf_queue)'
                           /\ \A x \in Workers : Busy(x)' /\ x # u => chunk'[x] # chunk'[u]
            /\ pc'[u] = "done" => job'[u] = "prefetch"
      BY <3>1, <3>2, <3>4 DEF TrackInv
    <3>b. Cardinality(B) \in Nat /\ pf_outstanding = Len(pf_queue) + Cardinality(B)
      BY <1>t DEF TrackInv
    <3>8. pf_outstanding' = Len(pf_queue)' + Cardinality(B')
      <4> HIDE DEF EnqueuePrefetch, B
      <4> QED
        BY <3>1, <3>4, <3>6, <3>b
    <3> QED
      BY <3>1, <3>4, <3>5, <3>7, <3>8 DEF TrackInv
  <2>22. CASE ReleasePin(w)  BY <2>22 DEF ReleasePin
  <2>23. CASE Unlock(w)  BY <2>23 DEF Unlock, Forget
  <2> QED
    BY <1>1, <2>1, <2>2, <2>3, <2>4, <2>5, <2>6, <2>7, <2>8, <2>9, <2>10,
       <2>11, <2>12, <2>13, <2>14, <2>15, <2>16, <2>17, <2>18, <2>19,
       <2>20, <2>21, <2>22, <2>23 DEF WorkerStep
<1>2. ASSUME DispatcherStep PROVE TrackInv'
  <2>1. ASSUME NEW t \in AppThreads, ReadFault(t) PROVE TrackInv'
    BY <2>1 DEF ReadFault
  <2>2. CASE HandleFault  BY <2>2 DEF HandleFault
  <2>3. CASE Dispatch  BY <2>3 DEF Dispatch
  <2>4. CASE StopPager  BY <2>4 DEF StopPager
  <2> QED
    BY <1>2, <2>1, <2>2, <2>3, <2>4 DEF DispatcherStep
<1>3. ASSUME NEW c \in Chunks, Watchdog(c) PROVE TrackInv'
  BY <1>3 DEF Watchdog
<1>4. ASSUME NEW c \in Chunks, BackoffExpires(c) PROVE TrackInv'
  BY <1>4 DEF BackoffExpires
<1>5. ASSUME NEW t \in AppThreads, AppStep(t) PROVE TrackInv'
  <2>1. ASSUME NEW c \in Chunks, Touch(t, c) PROVE TrackInv'
    BY <2>1 DEF Touch
  <2>2. ASSUME NEW c \in Chunks, NotifyAccess(t, c) PROVE TrackInv'
    BY <2>2 DEF NotifyAccess
  <2>3. CASE Finish(t)  BY <2>3 DEF Finish
  <2>4. CASE Leave(t)  BY <2>4 DEF Leave
  <2> QED
    BY <1>5, <2>1, <2>2, <2>3, <2>4 DEF AppStep
<1>6. CASE UNCHANGED vars  BY <1>6
<1> QED
  BY <1>1, <1>2, <1>3, <1>4, <1>5, <1>6 DEF Next, Running, Terminated

-----------------------------------------------------------------------------
(* The pool never holds more prefetches than its workers may add *)

\* What the workers at top_up may still enqueue, one token for each prefetch.
Tokens(nd) == {t \in Workers \X (1..prefetch_depth) : t[2] <= nd[t[1]]}

Capacity == prefetch_depth * Cardinality(Workers)

RoomInv ==
  /\ \A w \in Workers : /\ need[w] <= prefetch_depth
                        /\ pc[w] \notin {"predict", "enqueue"} => need[w] = 0
  /\ pf_outstanding + Cardinality(Tokens(need)) <= Capacity

LEMMA TokensFinite ==
  ASSUME NEW nd
  PROVE  IsFiniteSet(Tokens(nd)) /\ Cardinality(Tokens(nd)) \in Nat
<1>1. IsFiniteSet(1..prefetch_depth)
  BY SizesAssumption, FS_Interval
<1>2. IsFiniteSet(Workers \X (1..prefetch_depth))
  BY <1>1, SizesAssumption, FS_Product
<1>3. Tokens(nd) \subseteq Workers \X (1..prefetch_depth)
  BY DEF Tokens
<1> QED
  BY <1>2, <1>3, FS_Subset, FS_CardinalityType

\* Fewer prefetches, and none more to add.
LEMMA TokensShrink ==
  ASSUME NEW nd \in [Workers -> Nat], NEW nd2 \in [Workers -> Nat],
         \A u \in Workers : nd2[u] <= nd[u]
  PROVE  Cardinality(Tokens(nd2)) <= Cardinality(Tokens(nd))
<1>1. Tokens(nd2) \subseteq Tokens(nd)
  <2> SUFFICES ASSUME NEW t \in Workers \X (1..prefetch_depth), t[2] <= nd2[t[1]]
               PROVE  t[2] <= nd[t[1]]
    BY DEF Tokens
  <2>1. t[1] \in Workers /\ t[2] \in 1..prefetch_depth
    OBVIOUS
  <2>2. t[2] \in Nat /\ nd2[t[1]] \in Nat /\ nd[t[1]] \in Nat /\ nd2[t[1]] <= nd[t[1]]
    BY <2>1, SizesAssumption
  <2> QED
    BY <2>2
<1> QED
  BY <1>1, TokensFinite, FS_Subset

\* A worker that had nothing to add gets at most what is left under the depth.
LEMMA TokensGrant ==
  ASSUME NEW nd \in [Workers -> Nat], NEW w \in Workers, nd[w] = 0,
         NEW k \in 0..prefetch_depth
  PROVE  Cardinality(Tokens([nd EXCEPT ![w] = k])) <= Capacity - prefetch_depth + k
<1> DEFINE D == 1..prefetch_depth
           nd2 == [nd EXCEPT ![w] = k]
           P == (Workers \ {w}) \X D
           Q == {w} \X (1..k)
<1>1. Tokens(nd2) \subseteq P \cup Q
  <2> SUFFICES ASSUME NEW t \in Workers \X D, t[2] <= nd2[t[1]], t[1] = w
               PROVE  t \in Q
    BY DEF Tokens
  <2>1. t = <<t[1], t[2]>> /\ t[2] \in D /\ t[2] <= k
    OBVIOUS
  <2>2. t[2] \in 1..k
    BY <2>1, SizesAssumption
  <2> QED
    BY <2>1, <2>2
<1>2. /\ IsFiniteSet(D) /\ Cardinality(D) = prefetch_depth
      /\ IsFiniteSet(1..k) /\ Cardinality(1..k) = k
  <2>1. /\ 1 \in Int /\ k \in Int /\ prefetch_depth \in Int
        /\ k >= 0 /\ prefetch_depth >= 1
    BY SizesAssumption
  <2> HIDE DEF D
  <2>2. \A a, b \in Int : /\ IsFiniteSet(a..b)
                         /\ Cardinality(a..b) = IF a > b THEN 0 ELSE b - a + 1
    BY FS_Interval, Zenon
  <2>a. 1 \in Int
    OBVIOUS
  <2>b. \A b \in Int : /\ IsFiniteSet(1..b)
                      /\ Cardinality(1..b) = IF 1 > b THEN 0 ELSE b - 1 + 1
    BY <2>2, <2>a, Zenon
  <2>3. \A b \in Int : b >= 0 => IsFiniteSet(1..b) /\ Cardinality(1..b) = b
    BY <2>b
  <2> QED
    BY <2>1, <2>3 DEF D
<1>3. /\ IsFiniteSet(Workers \ {w}) /\ Cardinality(Workers \ {w}) = Cardinality(Workers) - 1
      /\ Cardinality(Workers) \in Nat /\ Cardinality(Workers \ {w}) \in Nat
  BY SizesAssumption, FS_RemoveElement, FS_CardinalityType
<1>4. IsFiniteSet({w}) /\ Cardinality({w}) = 1
  BY FS_Singleton
<1>5. IsFiniteSet(P) /\ Cardinality(P) = (Cardinality(Workers) - 1) * prefetch_depth
  <2> DEFINE R == Workers \ {w}
  <2> HIDE DEF D, R
  <2>1. IsFiniteSet(R) /\ Cardinality(R) = Cardinality(Workers) - 1
    BY <1>3 DEF R
  <2>2. IsFiniteSet(R \X D) /\ Cardinality(R \X D) = Cardinality(R) * Cardinality(D)
    BY <1>2, <2>1, FS_Product, Zenon
  <2>3. Cardinality(R \X D) = (Cardinality(Workers) - 1) * prefetch_depth
    BY <1>2, <2>1, <2>2, Zenon
  <2> QED
    BY <2>2, <2>3 DEF R
<1>6. IsFiniteSet(Q) /\ Cardinality(Q) = 1 * k
  <2> DEFINE K == 1..k
  <2> HIDE DEF K
  <2>1. IsFiniteSet(K) /\ Cardinality(K) = k
    BY <1>2 DEF K
  <2>2. IsFiniteSet({w} \X K) /\ Cardinality({w} \X K) = Cardinality({w}) * Cardinality(K)
    BY <1>4, <2>1, FS_Product, Zenon
  <2>3. Cardinality({w} \X K) = 1 * k
    BY <1>4, <2>1, <2>2, Zenon
  <2> QED
    BY <2>2, <2>3 DEF K
<1>7. IsFiniteSet(P \cup Q) /\ Cardinality(P \cup Q) <= Cardinality(P) + Cardinality(Q)
  <2>1. /\ IsFiniteSet(P \cup Q)
        /\ Cardinality(P \cup Q) = Cardinality(P) + Cardinality(Q) - Cardinality(P \cap Q)
    BY <1>5, <1>6, FS_Union
  <2>2. Cardinality(P) \in Nat /\ Cardinality(Q) \in Nat /\ Cardinality(P \cap Q) \in Nat
    BY <1>5, <1>6, FS_Intersection, FS_CardinalityType
  <2> QED
    BY <2>1, <2>2
<1>8. Cardinality(Tokens(nd2)) <= Cardinality(P \cup Q) /\ Cardinality(P \cup Q) \in Nat
  BY <1>1, <1>7, FS_Subset, FS_CardinalityType
<1>9. (Cardinality(Workers) - 1) * prefetch_depth = Capacity - prefetch_depth
      /\ Capacity \in Int /\ k \in Nat /\ prefetch_depth \in Nat
  BY <1>3, SizesAssumption DEF Capacity
<1> HIDE DEF P, Q, nd2, D
<1>10. Cardinality(Tokens(nd2)) \in Nat
  BY TokensFinite
<1>11. Cardinality(Tokens(nd2)) <= Capacity - prefetch_depth + k
  BY <1>5, <1>6, <1>7, <1>8, <1>9, <1>10
<1> QED
  BY <1>11 DEF nd2

\* A prefetch enqueued is one prefetch less to enqueue.
LEMMA TokensSpend ==
  ASSUME NEW nd \in [Workers -> Nat], NEW w \in Workers, nd[w] \in 1..prefetch_depth
  PROVE  Cardinality(Tokens([nd EXCEPT ![w] = @ - 1])) + 1 <= Cardinality(Tokens(nd))
<1> DEFINE nd2 == [nd EXCEPT ![w] = @ - 1]
           x == <<w, nd[w]>>
<1>1. x \in Tokens(nd)
  BY SizesAssumption DEF Tokens
<1>2. Tokens(nd2) \subseteq Tokens(nd) \ {x}
  <2> SUFFICES ASSUME NEW t \in Workers \X (1..prefetch_depth), t[2] <= nd2[t[1]]
               PROVE  t[2] <= nd[t[1]] /\ t # x
    BY DEF Tokens
  <2>1. t[1] \in Workers /\ t[2] \in Nat /\ nd[w] \in Nat /\ nd[t[1]] \in Nat
    BY SizesAssumption
  <2>2. CASE t[1] = w
    BY <2>1, <2>2
  <2>3. CASE t[1] # w
    BY <2>1, <2>3
  <2> QED
    BY <2>2, <2>3
<1>3. IsFiniteSet(Tokens(nd)) /\ Cardinality(Tokens(nd)) \in Nat /\ Cardinality(Tokens(nd2)) \in Nat
  BY TokensFinite
<1> HIDE DEF nd2, x
<1>4. IsFiniteSet(Tokens(nd) \ {x}) /\ Cardinality(Tokens(nd) \ {x}) = Cardinality(Tokens(nd)) - 1
  BY <1>1, <1>3, FS_RemoveElement
<1>5. Cardinality(Tokens(nd2)) <= Cardinality(Tokens(nd) \ {x})
  BY <1>2, <1>4, FS_Subset
<1>6. Cardinality(Tokens(nd2)) + 1 <= Cardinality(Tokens(nd))
  BY <1>3, <1>4, <1>5
<1> QED
  BY <1>6 DEF nd2

\* The steps that add no prefetch and grant none.
RoomQuiet ==
  /\ pf_outstanding' <= pf_outstanding
  /\ \A u \in Workers : /\ need'[u] <= need[u]
                        /\ pc'[u] \notin {"predict", "enqueue"} => need'[u] = 0

LEMMA RoomFrame ==
  ASSUME IndInv, IndInv', TrackInv, TrackInv', RoomInv, RoomQuiet
  PROVE  RoomInv'
<1>1. need \in [Workers -> Nat] /\ need' \in [Workers -> Nat] /\ prefetch_depth \in Nat
  BY SizesAssumption DEF IndInv, TypeOK, WorkerType
<1>2. Cardinality(Tokens(need')) <= Cardinality(Tokens(need))
  BY <1>1, TokensShrink DEF RoomQuiet
<1>3. pf_outstanding \in Int /\ pf_outstanding' \in Int
  BY DEF IndInv, TypeOK, PoolType
<1>4. Cardinality(Workers) \in Nat /\ Capacity \in Int /\ Capacity' = Capacity
  BY SizesAssumption, FS_CardinalityType DEF Capacity
<1>5. Cardinality(Tokens(need)) \in Nat /\ Cardinality(Tokens(need')) \in Nat
  BY TokensFinite
<1>6. pf_outstanding' + Cardinality(Tokens(need')) <= Capacity
  BY <1>2, <1>3, <1>4, <1>5 DEF RoomInv, RoomQuiet
<1>7. \A w \in Workers : /\ need'[w] <= prefetch_depth
                         /\ pc'[w] \notin {"predict", "enqueue"} => need'[w] = 0
  BY <1>1 DEF RoomInv, RoomQuiet
<1> QED
  BY <1>4, <1>6, <1>7 DEF RoomInv, Tokens

\* top_up reads the room once per worker, and spends what it read.
LEMMA RoomInvStep ==
  ASSUME IndInv, IndInv', TrackInv, TrackInv', RoomInv, [Next]_vars
  PROVE  RoomInv'
<1> SUFFICES ASSUME ~ RoomQuiet PROVE RoomInv'
  BY RoomFrame
<1>h. /\ \A w \in Workers : pc[w] \notin {"predict", "enqueue"} => need[w] = 0
      /\ \A w \in Workers : need[w] <= prefetch_depth
      /\ LocalsSet
      /\ pc \in [Workers -> WorkerLabels]
      /\ need \in [Workers -> Nat]
      /\ pf_outstanding \in Int
      /\ prefetch_depth \in Nat \ {0}
  BY SizesAssumption DEF RoomInv, IndInv, TypeOK, WorkerType, PoolType
<1>t. /\ pf_outstanding \in Nat
      /\ Cardinality(Workers) \in Nat /\ Capacity \in Int
      /\ Cardinality(Tokens(need)) \in Nat /\ Cardinality(Tokens(need')) \in Nat
  <2>1. IsFiniteSet(pf_tracked)
    BY SizesAssumption, FS_Subset DEF IndInv, TypeOK, PoolType
  <2>2. pf_outstanding \in Nat
    BY <2>1, FS_CardinalityType DEF TrackInv
  <2> QED
    BY <2>2, SizesAssumption, FS_CardinalityType, TokensFinite DEF Capacity
<1> USE <1>h DEF RoomQuiet, LocalsSet, Goto, WorkerLabels
<1>1. ASSUME NEW w \in Workers, WorkerStep(w) PROVE RoomInv'
  <2>1. CASE PickDemand(w)  BY <2>1 DEF PickDemand
  <2>2. CASE PickPrefetch(w)  BY <2>2 DEF PickPrefetch
  <2>3. CASE Exit(w)  BY <2>3 DEF Exit
  <2>4. CASE Done(w)  BY <2>4 DEF Done, Forget, Untrack
  <2>5. CASE LockDemand(w)  BY <2>5 DEF LockDemand
  <2>6. CASE LockPrefetch(w)  BY <2>6 DEF LockPrefetch
  <2>7. CASE PinTarget(w)  BY <2>7 DEF PinTarget
  <2>8. CASE Reserve(w)  BY <2>8 DEF Reserve, InEnsureBudget, FetchOrder
  <2>9. CASE SelectVictim(w)  BY <2>9 DEF SelectVictim, InEnsureBudget
  <2>10. CASE DeclinePrefetch(w)  BY <2>10 DEF DeclinePrefetch, InEnsureBudget
  <2>11. CASE BreakPin(w)  BY <2>11 DEF BreakPin, InEnsureBudget
  <2>12. CASE Infeasible(w)  BY <2>12 DEF Infeasible, InEnsureBudget
  <2>13. CASE EvictChunk(w)  BY <2>13 DEF EvictChunk
  <2>14. CASE Abandon(w)  BY <2>14 DEF Abandon, Forget
  <2>15. CASE FetchRead(w)  BY <2>15 DEF FetchRead, FetchOrder, After
  <2>16. CASE FetchResolve(w)  BY <2>16 DEF FetchResolve, FetchOrder, After
  <2>17. CASE Commit(w)  BY <2>17 DEF Commit
  <2>18. CASE SetResident(w)  BY <2>18 DEF SetResident
  <2>19. CASE TopUpNeed(w)
    <3> DEFINE k == prefetch_depth - pf_outstanding
    <3>0. /\ pc[w] = "topup" /\ need[w] = 0 /\ pf_outstanding' = pf_outstanding
          /\ need' = [need EXCEPT ![w] = RoomUnderDepth]
          /\ pc' = [pc EXCEPT ![w] = IF RoomUnderDepth = 0 THEN "unpin" ELSE "predict"]
      BY <2>19 DEF TopUpNeed
    <3>a. RoomUnderDepth # 0
      BY <1>t, <3>0
    <3>b. RoomUnderDepth = k /\ k \in 1..prefetch_depth /\ k \in 0..prefetch_depth
      BY <1>t, <3>a DEF RoomUnderDepth
    <3>1. /\ pf_outstanding' = pf_outstanding
          /\ need' = [need EXCEPT ![w] = k] /\ pc' = [pc EXCEPT ![w] = "predict"]
          /\ need[w] = 0
      BY <3>0, <3>a, <3>b
    <3> HIDE DEF k
    <3>2. Cardinality(Tokens(need')) <= Capacity - prefetch_depth + k
      BY <3>b, <3>1, TokensGrant
    <3>3. pf_outstanding' + Cardinality(Tokens(need')) <= Capacity
      BY <1>t, <3>1, <3>2 DEF k
    <3>4. \A u \in Workers : /\ need'[u] <= prefetch_depth
                             /\ pc'[u] \notin {"predict", "enqueue"} => need'[u] = 0
      BY <3>b, <3>1
    <3> QED
      BY <3>3, <3>4 DEF RoomInv, Tokens, Capacity
  <2>20. CASE Predict(w)  BY <2>20 DEF Predict
  <2>21. CASE EnqueuePrefetch(w)
    <3>1. /\ pf_outstanding' = pf_outstanding + 1
          /\ need' = [need EXCEPT ![w] = @ - 1]
          /\ need[w] \in 1..prefetch_depth
          /\ pc' = [pc EXCEPT ![w] = IF need[w] = 1 THEN "unpin" ELSE "predict"]
      BY <2>21 DEF EnqueuePrefetch
    <3>2. Cardinality(Tokens(need')) + 1 <= Cardinality(Tokens(need))
      BY <3>1, TokensSpend
    <3>3. pf_outstanding + Cardinality(Tokens(need)) <= Capacity
      BY DEF RoomInv
    <3>4. pf_outstanding' + Cardinality(Tokens(need')) <= Capacity
      BY <1>t, <3>1, <3>2, <3>3
    <3>5. \A u \in Workers : /\ need'[u] <= prefetch_depth
                             /\ pc'[u] \notin {"predict", "enqueue"} => need'[u] = 0
      BY <3>1
    <3> QED
      BY <3>4, <3>5 DEF RoomInv, Tokens, Capacity
  <2>22. CASE ReleasePin(w)  BY <2>22 DEF ReleasePin
  <2>23. CASE Unlock(w)  BY <2>23 DEF Unlock, Forget
  <2> QED
    BY <1>1, <2>1, <2>2, <2>3, <2>4, <2>5, <2>6, <2>7, <2>8, <2>9, <2>10,
       <2>11, <2>12, <2>13, <2>14, <2>15, <2>16, <2>17, <2>18, <2>19,
       <2>20, <2>21, <2>22, <2>23 DEF WorkerStep
<1>2. ASSUME DispatcherStep PROVE RoomInv'
  <2>1. ASSUME NEW t \in AppThreads, ReadFault(t) PROVE RoomInv'
    BY <2>1 DEF ReadFault
  <2>2. CASE HandleFault  BY <2>2 DEF HandleFault
  <2>3. CASE Dispatch  BY <2>3 DEF Dispatch
  <2>4. CASE StopPager  BY <2>4 DEF StopPager
  <2> QED
    BY <1>2, <2>1, <2>2, <2>3, <2>4 DEF DispatcherStep
<1>3. ASSUME NEW c \in Chunks, Watchdog(c) PROVE RoomInv'
  BY <1>3 DEF Watchdog
<1>4. ASSUME NEW c \in Chunks, BackoffExpires(c) PROVE RoomInv'
  BY <1>4 DEF BackoffExpires
<1>5. ASSUME NEW t \in AppThreads, AppStep(t) PROVE RoomInv'
  <2>1. ASSUME NEW c \in Chunks, Touch(t, c) PROVE RoomInv'
    BY <2>1 DEF Touch
  <2>2. ASSUME NEW c \in Chunks, NotifyAccess(t, c) PROVE RoomInv'
    BY <2>2 DEF NotifyAccess
  <2>3. CASE Finish(t)  BY <2>3 DEF Finish
  <2>4. CASE Leave(t)  BY <2>4 DEF Leave
  <2> QED
    BY <1>5, <2>1, <2>2, <2>3, <2>4 DEF AppStep
<1>6. CASE UNCHANGED vars  BY <1>6
<1> QED
  BY <1>1, <1>2, <1>3, <1>4, <1>5, <1>6 DEF Next, Running, Terminated

LEMMA CountInvariance == Spec => [](TrackInv /\ RoomInv)
<1>1. Init => TrackInv /\ RoomInv
  <2> SUFFICES ASSUME Init PROVE TrackInv /\ RoomInv
    OBVIOUS
  <2>1. /\ pf_queue = <<>> /\ pf_tracked = {} /\ pf_outstanding = 0
        /\ \A w \in Workers : pc[w] = "idle" /\ need[w] = 0
        /\ need \in [Workers -> Nat]
    BY DEF Init, PoolInit
  <2>2. Range(pf_queue) = {} /\ IsInjective(pf_queue) /\ Len(pf_queue) = 0
    BY <2>1 DEF Range, IsInjective
  <2>3. Cardinality({}) = 0
    BY FS_EmptySet
  <2>4. {w \in Workers : Busy(w)} = {} /\ \A w \in Workers : ~ Busy(w)
    BY <2>1 DEF Busy
  <2>5. TrackInv
    <3>1. \A w \in Workers :
            /\ Busy(w) => /\ chunk[w] \in pf_tracked \ Range(pf_queue)
                          /\ \A u \in Workers : Busy(u) /\ u # w => chunk[u] # chunk[w]
            /\ pc[w] = "done" => job[w] = "prefetch"
      BY <2>1, <2>4
    <3>2. pf_outstanding = Cardinality(pf_tracked)
      BY <2>1, <2>3
    <3> DEFINE B == {w \in Workers : Busy(w)}
    <3>3. Cardinality(B) = 0
      BY <2>3, <2>4, Zenon
    <3> HIDE DEF B
    <3>4. pf_outstanding = Len(pf_queue) + Cardinality(B)
      BY <2>1, <2>2, <3>3
    <3> QED
      BY <2>1, <2>2, <3>1, <3>2, <3>4 DEF TrackInv, B
  <2>6. Tokens(need) = {}
    BY <2>1, SizesAssumption DEF Tokens
  <2>7. Capacity \in Nat /\ prefetch_depth \in Nat
    BY SizesAssumption, FS_CardinalityType DEF Capacity
  <2>8. RoomInv
    BY <2>1, <2>3, <2>6, <2>7 DEF RoomInv
  <2> QED
    BY <2>5, <2>8
<1>2. IndInv /\ IndInv' /\ TrackInv /\ RoomInv /\ [Next]_vars => (TrackInv /\ RoomInv)'
  BY TrackInvStep, RoomInvStep
<1> QED
  BY <1>1, <1>2, Invariance, PTL DEF Spec

\* The prefetches counted are those tracked and those queued or in a worker's
\* hands, and never more than each worker may add (top_up, worker_main).
THEOREM OutstandingIsExact == Spec => []OutstandingExact
<1>1. IndInv /\ TrackInv /\ RoomInv => OutstandingExact
  <2> SUFFICES ASSUME IndInv, TrackInv, RoomInv PROVE OutstandingExact
    OBVIOUS
  <2>1. Cardinality(Tokens(need)) \in Nat
    BY TokensFinite
  <2>2. Capacity \in Int /\ pf_outstanding \in Int
    BY SizesAssumption, FS_CardinalityType DEF Capacity, IndInv, TypeOK, PoolType
  <2>3. pf_outstanding <= Capacity
    BY <2>1, <2>2 DEF RoomInv
  <2> QED
    BY <2>3 DEF TrackInv, OutstandingExact, Capacity, Busy
<1> QED
  BY <1>1, Invariance, CountInvariance, PTL

\* Without the watchdog both queues hold exactly what the chunk states and the
\* counters say (prefetch_pool_enqueue_demand, top_up, worker_main).
THEOREM QueuesAreExact == ~ TimeoutMayFire => (Spec => []QueuesExact)
<1> SUFFICES ASSUME ~ TimeoutMayFire PROVE Spec => []QueuesExact
  OBVIOUS
<1>1. Spec => []DemandJobsClaimed
  BY DemandJobsAreClaimed
<1>2. DemandJobsClaimed /\ OutstandingExact => QueuesExact
  BY DEF QueuesExact
<1> QED
  BY <1>1, <1>2, OutstandingIsExact, PTL

=============================================================================

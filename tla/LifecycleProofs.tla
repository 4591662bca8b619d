-------------------------- MODULE LifecycleProofs ---------------------------
(***************************************************************************)
(* That a run's end closes and frees nothing under a thread, and that the  *)
(* traces are whole by then, for any number of workers, faults and         *)
(* prefetches and for every handler.                                       *)
(***************************************************************************)
EXTENDS Lifecycle, FiniteSetTheorems, TLAPS

AllExited == \A t \in Threads : at[t] = "exit"

\* What every handler has, and what is open for as long as a thread may run.
Shared  == {"fault", "fetch", "policy", "table", "metrics"}
Closing == {"fault", "flush", "fetch", "policy", "teardown", "clear", "end"}

\* The pool's threads run only in a run that has a pool, and the asynchronous
\* handler does not leave before them.
PoolJoined ==
  /\ ~ HasPool => WorkersExited
  /\ opt.async /\ at[Handler] = "exit" => WorkersExited
  /\ HasPool /\ "pool" \notin open => AllExited

\* main is past a join only when the threads it joins are gone.
MainWaits ==
  /\ main \notin {"replay", "join", "aborted"} => at[Handler] = "exit"
  /\ main \in Closing => AllExited
  /\ Shared \subseteq open \/ AllExited

HandlerWaits ==
  /\ at[Handler] # "idle"
  /\ at[Handler] = "join" => opt.async

\* The inductive invariant.
IndInv ==
  /\ at \in [Threads -> Labels]
  /\ HandlerWaits /\ PoolJoined /\ MainWaits

\* A thread goes from one place of its work to another, and closes nothing.
Works(t, l) ==
  /\ at[t] \notin {"exit", "join"} /\ l \notin {"exit", "join"}
  /\ t = Handler => l # "idle"
  /\ at' = [at EXCEPT ![t] = l]
  /\ opt' = opt /\ open' = open
  /\ main' \in {main, "aborted"}

LEMMA HandlerIsThread == Handler \in Threads /\ Workers \subseteq Threads
  BY DEF Threads

\* An exited thread has no step, so what its exit is needed for stays true.
LEMMA WorkKeeps ==
  ASSUME IndInv, NEW t \in Threads, NEW l \in Labels, Works(t, l)
  PROVE  IndInv'
<1>. USE DEF IndInv
<1>1. /\ at[t] \notin {"exit", "join"} /\ l \notin {"exit", "join"}
      /\ t = Handler => l # "idle"
      /\ at' = [at EXCEPT ![t] = l] /\ opt' = opt /\ open' = open
      /\ main' \in {main, "aborted"}
  BY DEF Works
<1>2. ~ AllExited /\ at[t] # "exit"
  BY <1>1 DEF AllExited
<1>3. at' \in [Threads -> Labels]
  BY <1>1
<1>4. HandlerWaits'
  BY <1>1, HandlerIsThread DEF HandlerWaits
<1>5. at'[Handler] = "exit" => at[Handler] = "exit" /\ t # Handler
  BY <1>1, HandlerIsThread
<1>6. PoolJoined'
  <2>1. HasPool' <=> HasPool
    BY <1>1 DEF HasPool, OwnPool
  <2>2. WorkersExited => t \notin Workers
    BY <1>2 DEF WorkersExited
  <2>3. WorkersExited => WorkersExited'
    BY <1>1, <2>2, HandlerIsThread DEF WorkersExited
  <2>. QED  BY <1>1, <1>2, <1>5, <2>1, <2>3 DEF PoolJoined
<1>7. MainWaits'
  <2>1. Shared \subseteq open' /\ main \notin Closing
    BY <1>1, <1>2 DEF MainWaits
  <2>2. at[Handler] = "exit" => at'[Handler] = "exit"
    BY <1>1, <1>2, HandlerIsThread
  <2>. QED  BY <1>1, <2>1, <2>2, <1>2, <1>5, HandlerIsThread DEF MainWaits, Closing
<1>. QED  BY <1>3, <1>4, <1>6, <1>7

\* Every step of a fetch is such a step.
LEMMA FetchingKeeps ==
  ASSUME IndInv, NEW t \in Threads, Fetching(t)
  PROVE  IndInv'
<1>a. at \in [Threads -> Labels]
  BY DEF IndInv
<1>c. /\ at[t] \notin {"exit", "join"}
      /\ UNCHANGED <<opt, open>> /\ main' \in {main, "aborted"}
  BY DEF Fetching, TakeSeq, TraceFault, MakeRoom, GiveUp, DropPrefetch, Fetch, NoPrediction, ReadNeed,
         TopUp, ReserveRecord, FillRecord, lifeVars
<1>d. ASSUME NEW l \in {"log", "read", "predict", "topup", "reserve", "fill", "drain", "room",
                     "idle"},
             t = Handler => l # "idle", at' = [at EXCEPT ![t] = l]
      PROVE  IndInv'
  BY <1>c, <1>d, WorkKeeps DEF Works, Labels
<1>1. CASE TakeSeq(t)
  <2>1. at' = [at EXCEPT ![t] = "log"]  BY <1>1 DEF TakeSeq, Go
  <2>. QED  BY <1>d, <2>1
<1>2. CASE TraceFault(t)
  <2>1. at' = [at EXCEPT ![t] = "drain"] \/ at' = [at EXCEPT ![t] = "room"]
    BY <1>2 DEF TraceFault, Go
  <2>. QED  BY <1>d, <2>1
<1>3. CASE MakeRoom(t)
  <2>1. at' = [at EXCEPT ![t] = "read"]  BY <1>3 DEF MakeRoom, Go
  <2>. QED  BY <1>d, <2>1
<1>4. CASE Fetch(t)
  <2>1. at' = [at EXCEPT ![t] = "predict"] \/ at' = [at EXCEPT ![t] = "reserve"]
    BY <1>4 DEF Fetch, Go
  <2>. QED  BY <1>d, <2>1
<1>5. CASE NoPrediction(t)
  <2>1. at' = [at EXCEPT ![t] = "reserve"]  BY <1>5 DEF NoPrediction, Go
  <2>. QED  BY <1>d, <2>1
<1>6. CASE TopUp(t)
  <2>1. at' = [at EXCEPT ![t] = "topup"]  BY <1>a, <1>6 DEF TopUp
  <2>. QED  BY <1>d, <2>1
<1>7. CASE ReserveRecord(t)
  <2>1. at' = [at EXCEPT ![t] = "fill"] \/ at' = [at EXCEPT ![t] = "reserve"]
    BY <1>a, <1>7 DEF ReserveRecord, Go
  <2>. QED  BY <1>d, <2>1
<1>8. CASE GiveUp(t) \/ DropPrefetch(t) \/ FillRecord(t)
  <2>1. Finish(t)  BY <1>8 DEF GiveUp, DropPrefetch, FillRecord
  <2>2. \/ at' = [at EXCEPT ![t] = "reserve"] \/ at' = [at EXCEPT ![t] = "drain"]
        \/ t # Handler /\ at' = [at EXCEPT ![t] = "idle"]
    BY <2>1 DEF Finish, Go
  <2>. QED  BY <1>d, <2>2
<1>9. CASE ReadNeed(t)
  <2>1. at' = [at EXCEPT ![t] = "topup"]  BY <1>9 DEF ReadNeed, Go
  <2>. QED  BY <1>d, <2>1
<1>. QED  BY <1>1, <1>2, <1>3, <1>4, <1>5, <1>6, <1>7, <1>8, <1>9 DEF Fetching

\* The handler works on, or leaves when it is asked to, or ends its pool.
LEMMA DispatchingKeeps ==
  ASSUME IndInv, Dispatching
  PROVE  IndInv'
<1>. USE HandlerIsThread
<1>0. at \in [Threads -> Labels]  BY DEF IndInv
<1>1. CASE Poll
  <2>1. Works(Handler, "drain") /\ "drain" \in Labels
    BY <1>1 DEF Poll, Works, Go, Labels, lifeVars
  <2>. QED  BY <2>1, WorkKeeps
<1>2. CASE ReadFault
  <2>1. Works(Handler, "stamp") /\ "stamp" \in Labels
    BY <1>2 DEF ReadFault, Works, Go, Labels, lifeVars
  <2>. QED  BY <2>1, WorkKeeps
<1>3. CASE EmptyQueue
  <2>1. Works(Handler, "loop") /\ "loop" \in Labels
    BY <1>3 DEF EmptyQueue, Works, Go, Labels, lifeVars
  <2>. QED  BY <2>1, WorkKeeps
<1>4. CASE PrefetchInline(Handler)
  <2>1. Works(Handler, "stamp") /\ "stamp" \in Labels
    BY <1>4 DEF PrefetchInline, Works, Go, Labels, lifeVars
  <2>. QED  BY <2>1, WorkKeeps
<1>5. CASE Fetching(Handler)
  BY <1>5, FetchingKeeps
<1>6. CASE Leave
  <2>. USE <1>6 DEF Leave, Go, lifeVars
  <2>1. at' \in [Threads -> Labels]
    BY <1>0 DEF Labels
  <2>2. ~ AllExited
    BY DEF AllExited
  <2>3. WorkersExited => WorkersExited'
    BY WorkersAssumption DEF WorkersExited, Threads
  <2>4. (HasPool' <=> HasPool) /\ at'[Handler] = IF opt.async THEN "join" ELSE "exit"
    BY <1>0 DEF HasPool, OwnPool
  <2>5. HandlerWaits'
    BY <2>4 DEF HandlerWaits
  <2>6. PoolJoined'
    BY <2>2, <2>3, <2>4 DEF IndInv, PoolJoined
  <2>7. MainWaits'
    BY <2>2, <2>4 DEF IndInv, MainWaits, Closing
  <2>. QED  BY <2>1, <2>5, <2>6, <2>7 DEF IndInv
<1>7. CASE HandlerJoins
  <2>. USE <1>7 DEF HandlerJoins, Go
  <2>1. at' \in [Threads -> Labels] /\ at'[Handler] = "exit"
    BY <1>0 DEF Labels
  <2>2. AllExited'
    BY <1>0, <2>1 DEF AllExited, Threads, WorkersExited
  <2>3. WorkersExited'
    BY <2>2 DEF AllExited, WorkersExited
  <2>. QED  BY <2>1, <2>2, <2>3 DEF IndInv, HandlerWaits, PoolJoined, MainWaits
<1>. QED  BY <1>1, <1>2, <1>3, <1>4, <1>5, <1>6, <1>7 DEF Dispatching

LEMMA WorkingKeeps ==
  ASSUME IndInv, NEW w \in Workers, Working(w)
  PROVE  IndInv'
<1>. USE HandlerIsThread, WorkersAssumption
<1>0. w \in Threads /\ w # Handler /\ at \in [Threads -> Labels]  BY DEF IndInv
<1>1. CASE PickDemand(w)
  <2>1. Works(w, "room") /\ "room" \in Labels
    BY <1>0, <1>1 DEF PickDemand, Works, Go, Labels, lifeVars
  <2>. QED  BY <1>0, <2>1, WorkKeeps
<1>2. CASE PickPrefetch(w)
  <2>1. Works(w, "stamp") /\ "stamp" \in Labels
    BY <1>0, <1>2 DEF PickPrefetch, Works, Go, Labels, lifeVars
  <2>. QED  BY <1>0, <2>1, WorkKeeps
<1>3. CASE Fetching(w)
  BY <1>0, <1>3, FetchingKeeps
<1>4. CASE Exit(w)
  <2>. USE <1>4 DEF Exit, Go, lifeVars
  <2>1. at' \in [Threads -> Labels] /\ at'[Handler] = at[Handler]
    BY <1>0 DEF Labels
  <2>2. ~ AllExited
    BY <1>0 DEF AllExited
  <2>3. WorkersExited => WorkersExited'
    BY <1>0 DEF WorkersExited
  <2>4. HasPool' <=> HasPool
    BY DEF HasPool, OwnPool
  <2>5. PoolJoined'
    BY <2>1, <2>2, <2>3, <2>4 DEF IndInv, PoolJoined
  <2>6. MainWaits'
    BY <2>1, <2>2 DEF IndInv, MainWaits
  <2>. QED  BY <2>1, <2>5, <2>6 DEF IndInv, HandlerWaits
<1>. QED  BY <1>1, <1>2, <1>3, <1>4 DEF Working

\* main goes from a join to the closing only over exited threads.
LEMMA MainKeeps ==
  ASSUME IndInv, Main
  PROVE  IndInv'
<1>. USE DEF MainGoes, OnlyMain
<1>0. at' = at /\ opt' = opt
  BY DEF Main, EndReplay, JoinHandler, StopPool, JoinPool, CloseFaultTrace, FlushFetchTrace,
     FlushFails, CloseFetchTrace, ClosePolicyTrace, FreeTable, ClearRegion
<1>1. (HasPool' <=> HasPool) /\ (WorkersExited' <=> WorkersExited) /\ (AllExited' <=> AllExited)
  BY <1>0 DEF HasPool, OwnPool, WorkersExited, AllExited
<1>2. HandlerWaits' /\ at' \in [Threads -> Labels]
  BY <1>0 DEF IndInv, HandlerWaits
<1>3. WorkersExited /\ at[Handler] = "exit" => AllExited
  BY DEF AllExited, WorkersExited, Threads
<1>4. PoolJoined' /\ MainWaits'
  <2>. USE <1>0, <1>1, <1>3 DEF PoolJoined, MainWaits, Closing, IndInv
  <2>1. CASE EndReplay         BY <2>1 DEF EndReplay
  <2>2. CASE JoinHandler
    <3>1. ~ OwnPool => WorkersExited
      BY <2>2 DEF JoinHandler, HandlerExited, HasPool
    <3>. QED  BY <2>2, <3>1 DEF JoinHandler, HandlerExited
  <2>3. CASE StopPool          BY <2>3 DEF StopPool
  <2>4. CASE JoinPool          BY <2>4 DEF JoinPool, Shared
  <2>5. CASE CloseFaultTrace   BY <2>5 DEF CloseFaultTrace
  <2>6. CASE FlushFetchTrace   BY <2>6 DEF FlushFetchTrace
  <2>7. CASE CloseFetchTrace   BY <2>7 DEF CloseFetchTrace
  <2>8. CASE ClosePolicyTrace  BY <2>8 DEF ClosePolicyTrace
  <2>9. CASE FreeTable         BY <2>9 DEF FreeTable
  <2>10. CASE ClearRegion      BY <2>10 DEF ClearRegion
  <2>11. CASE FlushFails       BY <2>11 DEF FlushFails
  <2>. QED  BY <2>1, <2>2, <2>3, <2>4, <2>5, <2>6, <2>7, <2>8, <2>9, <2>10, <2>11 DEF Main
<1>. QED  BY <1>2, <1>4 DEF IndInv

LEMMA InitEstablishes == Init => IndInv
<1>. SUFFICES ASSUME Init PROVE IndInv
  OBVIOUS
<1>. USE HandlerIsThread DEF Init
<1>1. at \in [Threads -> Labels] /\ at[Handler] = "loop"
  BY DEF Labels
<1>2. ~ HasPool => WorkersExited
  BY WorkersAssumption DEF WorkersExited, Threads
<1>3. HandlerWaits
  BY <1>1 DEF HandlerWaits
<1>4. PoolJoined
  BY <1>1, <1>2 DEF PoolJoined
<1>5. MainWaits
  BY DEF MainWaits, Closing, Shared
<1>. QED  BY <1>1, <1>3, <1>4, <1>5 DEF IndInv

\* The order in which main, the handler and the workers wait for each other
\* holds all through a run (pager.c:352-361, replay_main.c:366-374).
THEOREM ShutdownInvariance == Spec => []IndInv
<1>1. Init => IndInv
  BY InitEstablishes
<1>2. IndInv /\ [Next]_vars => IndInv'
  <2>. SUFFICES ASSUME IndInv, [Next]_vars PROVE IndInv'
    OBVIOUS
  <2>. USE DEF IndInv, HandlerWaits, PoolJoined, MainWaits, HasPool, OwnPool, WorkersExited, AllExited
  <2>1. CASE Running /\ Touch
    BY <2>1 DEF Touch, lifeVars
  <2>2. CASE Dispatching
    BY <2>2, DispatchingKeeps
  <2>3. CASE \E w \in Workers : Working(w)
    BY <2>3, WorkingKeeps
  <2>4. CASE Main
    BY <2>4, MainKeeps
  <2>5. CASE UNCHANGED vars
    BY <2>5 DEF vars, lifeVars
  <2>. QED  BY <2>1, <2>2, <2>3, <2>4, <2>5 DEF Next
<1>. QED  BY <1>1, <1>2, PTL DEF Spec

LEMMA NothingUsed == IndInv => NothingUsedAfterClose
<1>. SUFFICES ASSUME IndInv, NEW t \in Threads PROVE Uses(t) \subseteq open
  BY DEF NothingUsedAfterClose
<1>1. CASE at[t] = "exit"
  BY <1>1 DEF Uses
<1>2. CASE at[t] # "exit"
  <2>1. ~ AllExited
    BY <1>2 DEF AllExited
  <2>2. Shared \subseteq open
    BY <2>1 DEF IndInv, MainWaits
  <2>3. HasPool => "pool" \in open
    BY <2>1 DEF IndInv, PoolJoined
  <2>4. at[t] \in {"idle", "join"} \/ Dispatches(t) => HasPool
    <3>1. CASE t = Handler
      BY <3>1 DEF IndInv, HandlerWaits, HasPool, Dispatches
    <3>2. CASE t \in Workers
      BY <1>2, <3>2, WorkersAssumption DEF IndInv, PoolJoined, WorkersExited, Dispatches
    <3>. QED  BY <3>1, <3>2 DEF Threads
  <2>. QED  BY <1>2, <2>2, <2>3, <2>4 DEF Uses, Shared
<1>. QED  BY <1>1, <1>2

\* Nothing is closed or freed that a thread is about to use, however many
\* workers the pool has (prefetch_pool.c:414-429, replay_main.c:366-420).
THEOREM ClosedWhenUnused == Spec => []NothingUsedAfterClose
  BY ShutdownInvariance, NothingUsed, PTL

-----------------------------------------------------------------------------
(* The traces: how many threads are where, and what the files say of it *)

Places   == {"replay", "join", "pool", "joinpool", "fault", "flush", "fetch", "policy",
             "teardown", "clear", "end", "aborted"}
Resting  == {"loop", "drain", "join", "idle", "exit"}
JobType  == [kind : {"none", "demand", "prefetch", "inline"}, seq : Nat, slot : Nat]
EntryType == [seq : Nat, filled : BOOLEAN]

Typed ==
  /\ opt \in Handlers /\ stop \in BOOLEAN /\ poolStop \in BOOLEAN /\ main \in Places
  /\ job \in [Threads -> JobType]
  /\ faults \in [raised : Nat, unread : Nat, waiting : 0..Readers]
  /\ queued \in [{"demand", "prefetch"} -> Nat]
  /\ spent \in [prefetch : 0..Speculations, giveup : Nat]
  /\ pf_outstanding \in Nat /\ fault_seq \in Nat /\ fetched \in Nat
  /\ faultFile \in Seq(Nat)
  /\ records \in Seq(EntryType) /\ Len(records) <= capacity
  /\ open \subseteq Shared \cup {"pool"}

\* A thread has a job exactly as long as it works on one.
JobFits ==
  \A t \in Threads :
    /\ at[t] \in Resting <=> job[t].kind = "none"
    /\ at[t] \in {"predict", "topup"} => job[t].kind = "demand" /\ opt.prefetch
    /\ job[t].seq <= fault_seq /\ job[t].slot <= Len(records)
    /\ at[t] = "log" => job[t].seq > 0
    /\ at[t] = "fill" => job[t].slot > 0
    /\ HasPool => job[t].kind # "inline"
    /\ t = Handler => job[t].kind # "prefetch"

\* A record that is not filled is one that a thread is about to fill.
RecordsSound ==
  \A n \in 1..Len(records) :
    /\ records[n].seq = n
    /\ records[n].filled \/ \E t \in Threads : at[t] = "fill" /\ job[t].slot = n

\* A number that is not in the file is one that a thread is about to write.
NumbersSound ==
  /\ \A n \in 1..Len(faultFile) : faultFile[n] \in 1..fault_seq
  /\ \A k \in 1..fault_seq :
       \/ \E n \in 1..Len(faultFile) : faultFile[n] = k
       \/ \E t \in Threads : at[t] = "log" /\ job[t].seq = k

\* With one thread to number the faults, what it is about to write comes last.
NumbersOrdered ==
  /\ ~ opt.prefetch => queued["prefetch"] = 0
  /\ OneNumbers =>
       /\ \A w \in Workers : at[w] \notin {"stamp", "log"}
       /\ \A m, n \in 1..Len(faultFile) : m < n => faultFile[m] < faultFile[n]
       /\ at[Handler] = "log" => \A n \in 1..Len(faultFile) : faultFile[n] < job[Handler].seq

\* Threads that hold a number, that owe a record of a fetch done, that carry out a
\* prefetch inside another fetch, that a reader waits for, that pf_outstanding counts.
Logging == {t \in Threads : at[t] = "log"}
Owing   == {t \in Threads : at[t] \in {"predict", "topup", "reserve"}}
Nested  == {t \in Threads : job[t].kind = "inline"}
Asked   == {t \in Threads : job[t].kind = "demand" /\ at[t] \in {"stamp", "log", "room", "read"}}
Ahead   == {t \in Threads : job[t].kind = "prefetch"}

Counts ==
  /\ fault_seq = Len(faultFile) + Cardinality(Logging)
  /\ fetched = Len(records) + Cardinality(Owing) + Cardinality(Nested)
  /\ faults.waiting = faults.unread + queued["demand"] + Cardinality(Asked)
  /\ pf_outstanding = queued["prefetch"] + Cardinality(Ahead)
  /\ pf_outstanding <= spent.prefetch

AfterFlush == {"fetch", "policy", "teardown", "clear", "end"}
Flushed ==
  main \in AfterFlush =>
    IF fetchFile.failed
    THEN \E n \in 0..Len(records) : fetchFile.entries = SubSeq(records, 1, n)
    ELSE fetchFile.entries = records

\* The inductive invariant, next to IndInv.
TraceInv ==
  /\ Typed /\ JobFits /\ RecordsSound /\ NumbersSound /\ NumbersOrdered /\ Counts /\ Flushed

-----------------------------------------------------------------------------
(* Counting threads *)

One(is) == IF is THEN 1 ELSE 0

LEMMA FiniteThreads == IsFiniteSet(Threads)
<1>1. Threads = Workers \cup {Handler}
  BY DEF Threads
<1>. QED
  BY <1>1, WorkersAssumption, FS_AddElement

\* When one thread changes, a set of threads gains or loses that one only.
LEMMA CountStep ==
  ASSUME NEW t \in Threads, NEW S \in SUBSET Threads, NEW T \in SUBSET Threads,
         \A u \in Threads \ {t} : u \in T <=> u \in S
  PROVE  /\ Cardinality(S) \in Nat /\ Cardinality(T) \in Nat
         /\ Cardinality(T) = Cardinality(S) + One(t \in T) - One(t \in S)
         /\ One(t \in S) <= Cardinality(S)
<1>1. IsFiniteSet(S) /\ IsFiniteSet(T)
  BY FiniteThreads, FS_Subset
<1>2. Cardinality(S) \in Nat /\ Cardinality(T) \in Nat
  BY <1>1, FS_CardinalityType
<1>3. CASE t \in S /\ t \in T
  <2>1. S = T
    BY <1>3
  <2>2. Cardinality(S) # 0
    BY <1>1, <1>3, FS_EmptySet
  <2>. QED
    BY <1>2, <1>3, <2>1, <2>2 DEF One
<1>4. CASE t \notin S /\ t \notin T
  <2>1. S = T
    BY <1>4
  <2>. QED
    BY <1>2, <1>4, <2>1 DEF One
<1>5. CASE t \in S /\ t \notin T
  <2>1. T = S \ {t}
    BY <1>5
  <2>2. Cardinality(T) = Cardinality(S) - 1
    BY <1>1, <1>5, <2>1, FS_RemoveElement
  <2>. QED
    BY <1>2, <1>5, <2>2 DEF One
<1>6. CASE t \notin S /\ t \in T
  <2>1. T = S \cup {t}
    BY <1>6
  <2>2. Cardinality(T) = Cardinality(S) + 1
    BY <1>1, <1>6, <2>1, FS_AddElement
  <2>. QED
    BY <1>2, <1>6, <2>2 DEF One
<1>. QED
  BY <1>3, <1>4, <1>5, <1>6

\* Thread t goes to l with job j.
Moves(t, l, j) == at' = [at EXCEPT ![t] = l] /\ job' = [job EXCEPT ![t] = j]

\* What that does to the five counts.
CountsAfter(t, l, j) ==
  /\ Cardinality(Logging') = Cardinality(Logging) + One(l = "log") - One(at[t] = "log")
  /\ Cardinality(Owing') = Cardinality(Owing) + One(l \in {"predict", "topup", "reserve"})
                             - One(at[t] \in {"predict", "topup", "reserve"})
  /\ Cardinality(Nested') = Cardinality(Nested) + One(j.kind = "inline")
                              - One(job[t].kind = "inline")
  /\ Cardinality(Asked') = Cardinality(Asked)
       + One(j.kind = "demand" /\ l \in {"stamp", "log", "room", "read"})
       - One(job[t].kind = "demand" /\ at[t] \in {"stamp", "log", "room", "read"})
  /\ Cardinality(Ahead') = Cardinality(Ahead) + One(j.kind = "prefetch")
                             - One(job[t].kind = "prefetch")

CountsAreNumbers ==
  /\ Cardinality(Logging) \in Nat /\ Cardinality(Owing) \in Nat /\ Cardinality(Nested) \in Nat
  /\ Cardinality(Asked) \in Nat /\ Cardinality(Ahead) \in Nat

LEMMA CountMoves ==
  ASSUME at \in [Threads -> Labels], job \in [Threads -> JobType],
         NEW t \in Threads, NEW l \in Labels, NEW j \in JobType, Moves(t, l, j)
  PROVE  CountsAfter(t, l, j) /\ CountsAreNumbers /\ CountsAreNumbers'
<1>1. /\ at' \in [Threads -> Labels] /\ job' \in [Threads -> JobType]
      /\ at'[t] = l /\ job'[t] = j
      /\ \A u \in Threads \ {t} : at'[u] = at[u] /\ job'[u] = job[u]
  BY DEF Moves
<1>2. Logging \in SUBSET Threads /\ Logging' \in SUBSET Threads
      /\ (\A u \in Threads \ {t} : u \in Logging' <=> u \in Logging)
      /\ (t \in Logging' <=> l = "log") /\ (t \in Logging <=> at[t] = "log")
  BY <1>1 DEF Logging
<1>3. Owing \in SUBSET Threads /\ Owing' \in SUBSET Threads
      /\ (\A u \in Threads \ {t} : u \in Owing' <=> u \in Owing)
      /\ (t \in Owing' <=> l \in {"predict", "topup", "reserve"})
      /\ (t \in Owing <=> at[t] \in {"predict", "topup", "reserve"})
  BY <1>1 DEF Owing
<1>4. Nested \in SUBSET Threads /\ Nested' \in SUBSET Threads
      /\ (\A u \in Threads \ {t} : u \in Nested' <=> u \in Nested)
      /\ (t \in Nested' <=> j.kind = "inline") /\ (t \in Nested <=> job[t].kind = "inline")
  BY <1>1 DEF Nested
<1>5. Asked \in SUBSET Threads /\ Asked' \in SUBSET Threads
      /\ (\A u \in Threads \ {t} : u \in Asked' <=> u \in Asked)
      /\ (t \in Asked' <=> j.kind = "demand" /\ l \in {"stamp", "log", "room", "read"})
      /\ (t \in Asked <=> job[t].kind = "demand" /\ at[t] \in {"stamp", "log", "room", "read"})
  BY <1>1 DEF Asked
<1>6. Ahead \in SUBSET Threads /\ Ahead' \in SUBSET Threads
      /\ (\A u \in Threads \ {t} : u \in Ahead' <=> u \in Ahead)
      /\ (t \in Ahead' <=> j.kind = "prefetch") /\ (t \in Ahead <=> job[t].kind = "prefetch")
  BY <1>1 DEF Ahead
<1>7. /\ Cardinality(Logging) \in Nat /\ Cardinality(Logging') \in Nat
      /\ Cardinality(Logging') = Cardinality(Logging) + One(l = "log") - One(at[t] = "log")
  BY <1>2, CountStep DEF One
<1>8. /\ Cardinality(Owing) \in Nat /\ Cardinality(Owing') \in Nat
      /\ Cardinality(Owing') = Cardinality(Owing) + One(l \in {"predict", "topup", "reserve"})
                                 - One(at[t] \in {"predict", "topup", "reserve"})
  BY <1>3, CountStep DEF One
<1>9. /\ Cardinality(Nested) \in Nat /\ Cardinality(Nested') \in Nat
      /\ Cardinality(Nested') = Cardinality(Nested) + One(j.kind = "inline")
                                  - One(job[t].kind = "inline")
  BY <1>4, CountStep DEF One
<1>10. /\ Cardinality(Asked) \in Nat /\ Cardinality(Asked') \in Nat
       /\ Cardinality(Asked') = Cardinality(Asked)
            + One(j.kind = "demand" /\ l \in {"stamp", "log", "room", "read"})
            - One(job[t].kind = "demand" /\ at[t] \in {"stamp", "log", "room", "read"})
  BY <1>5, CountStep DEF One
<1>11. /\ Cardinality(Ahead) \in Nat /\ Cardinality(Ahead') \in Nat
       /\ Cardinality(Ahead') = Cardinality(Ahead) + One(j.kind = "prefetch")
                                  - One(job[t].kind = "prefetch")
  BY <1>6, CountStep DEF One
<1>. QED
  BY <1>7, <1>8, <1>9, <1>10, <1>11 DEF CountsAfter, CountsAreNumbers

LEMMA CountsExist == CountsAreNumbers
  BY FiniteThreads, FS_Subset, FS_CardinalityType
     DEF CountsAreNumbers, Logging, Owing, Nested, Asked, Ahead

\* As long as no thread takes or writes a number.
LEMMA NumbersFrame ==
  ASSUME NumbersSound, UNCHANGED <<faultFile, fault_seq>>,
         \A u \in Threads : /\ at'[u] = "log" <=> at[u] = "log"
                            /\ at[u] = "log" => job'[u].seq = job[u].seq
  PROVE  NumbersSound'
<1>1. ASSUME NEW k \in 1..fault_seq, ~ \E n \in 1..Len(faultFile) : faultFile[n] = k
      PROVE  \E t \in Threads : at'[t] = "log" /\ job'[t].seq = k
  <2>1. PICK t \in Threads : at[t] = "log" /\ job[t].seq = k
    BY <1>1 DEF NumbersSound
  <2>. QED
    BY <2>1
<1>. QED
  BY <1>1 DEF NumbersSound

-----------------------------------------------------------------------------
(* Each step keeps the traces sound *)

\* A thread that has nothing in hand waits elsewhere, or ends.
LEMMA RestKeeps ==
  ASSUME IndInv, TraceInv, NEW t \in Threads, NEW l \in Resting, at[t] \in Resting \ {"exit"},
         at' = [at EXCEPT ![t] = l],
         UNCHANGED <<opt, stop, main, job, faults, queued, pf_outstanding, traceVars, spent>>,
         poolStop' \in BOOLEAN, open' \subseteq open
  PROVE  TraceInv'
<1>h. /\ Typed /\ JobFits /\ RecordsSound /\ NumbersSound /\ NumbersOrdered /\ Counts
      /\ at \in [Threads -> Labels]
  BY DEF TraceInv, IndInv
<1>e. /\ at[t] \in Resting \ {"exit"} /\ l \in Resting
      /\ job[t] \in JobType /\ job[t].kind = "none"
      /\ at' = [at EXCEPT ![t] = l] /\ job' = [job EXCEPT ![t] = job[t]] /\ job' = job
      /\ UNCHANGED <<opt, stop, main, faults, queued, pf_outstanding, spent>>
      /\ UNCHANGED <<fault_seq, faultFile, records, fetched, fetchFile>>
      /\ poolStop' \in BOOLEAN /\ open' \subseteq open
  BY <1>h DEF traceVars, Typed, JobFits
<1>x. main \notin AfterFlush /\ Handler \in Threads
  BY <1>e, HandlerIsThread DEF IndInv, MainWaits, AllExited, Closing, AfterFlush
<1>m. /\ Moves(t, l, job[t]) /\ l \in Labels /\ job[t] \in JobType
      /\ (job[t]).kind = job[t].kind /\ (job[t]).seq = job[t].seq /\ (job[t]).slot = job[t].slot
  BY <1>h, <1>e DEF Moves, Labels, Typed, JobType, NoJob, Resting
<1>p. /\ at'[t] = l /\ job'[t].kind = job[t].kind /\ job'[t].seq = job[t].seq
      /\ job'[t].slot = job[t].slot
      /\ \A u \in Threads : u # t => at'[u] = at[u] /\ job'[u] = job[u]
      /\ job' \in [Threads -> JobType] /\ t \in Threads
  BY <1>h, <1>e, <1>m, <1>x DEF Moves, Typed
<1>k. /\ Cardinality(Logging') = Cardinality(Logging)
      /\ Cardinality(Owing') = Cardinality(Owing)
      /\ Cardinality(Nested') = Cardinality(Nested)
      /\ Cardinality(Asked') = Cardinality(Asked)
      /\ Cardinality(Ahead') = Cardinality(Ahead)
      /\ CountsAreNumbers /\ CountsAreNumbers'
  <2>1. CountsAfter(t, l, job[t]) /\ CountsAreNumbers /\ CountsAreNumbers'
    BY <1>h, <1>m, <1>p, CountMoves DEF Typed
  <2>. QED
    BY <1>h, <1>e, <1>m, <2>1 DEF CountsAfter, CountsAreNumbers, One, Resting
<1>o. HasPool' = HasPool /\ OneNumbers' = OneNumbers
  BY <1>e DEF HasPool, OwnPool, OneNumbers
<1>q. \A u \in Threads : /\ at'[u] = "log" <=> at[u] = "log"
                         /\ at[u] = "log" => job'[u].seq = job[u].seq
  BY <1>e, <1>p DEF Resting
<1>1. Typed'
  BY <1>h, <1>e, <1>p DEF Typed, Places
<1>2. JobFits'
  <2>. SUFFICES ASSUME NEW u \in Threads
                 PROVE  /\ at'[u] \in Resting <=> job'[u].kind = "none"
                        /\ at'[u] \in {"predict", "topup"} => job'[u].kind = "demand" /\ opt'.prefetch
                        /\ job'[u].seq <= fault_seq' /\ job'[u].slot <= Len(records')
                        /\ at'[u] = "log" => job'[u].seq > 0
                        /\ at'[u] = "fill" => job'[u].slot > 0
                        /\ HasPool' => job'[u].kind # "inline"
                        /\ u = Handler => job'[u].kind # "prefetch"
    BY DEF JobFits
  <2>0. /\ fault_seq \in Nat /\ Len(records) \in Nat /\ job[u].seq \in Nat /\ job[u].slot \in Nat
    BY <1>h DEF Typed, JobType
  <2>1. CASE u = t
    BY <1>h, <1>e, <1>p, <1>o, <2>0, <2>1 DEF JobFits, Resting
  <2>2. CASE u # t
    BY <1>h, <1>e, <1>p, <1>o, <2>0, <2>2 DEF JobFits
  <2>. QED
    BY <2>1, <2>2
<1>3. RecordsSound'
  BY <1>h, <1>e, <1>x, <1>p DEF RecordsSound, Resting
<1>4. NumbersSound'
  BY <1>h, <1>e, <1>q, NumbersFrame
<1>5. NumbersOrdered'
  BY <1>h, <1>e, <1>x, <1>p, <1>o DEF NumbersOrdered, Threads, Resting
<1>6. Counts'
  BY <1>h, <1>e, <1>k DEF Counts
<1>7. Flushed'
  BY <1>h, <1>e, <1>x, <1>p DEF Flushed, AfterFlush
<1>. QED
  BY <1>1, <1>2, <1>3, <1>4, <1>5, <1>6, <1>7 DEF TraceInv

\* A number is taken: it is in the hand of the thread that took it.
LEMMA TakeSeqKeeps ==
  ASSUME IndInv, TraceInv, NEW t \in Threads, TakeSeq(t)
  PROVE  TraceInv'
<1>h. /\ Typed /\ JobFits /\ RecordsSound /\ NumbersSound /\ NumbersOrdered /\ Counts
      /\ at \in [Threads -> Labels]
  BY DEF TraceInv, IndInv
<1> DEFINE j == [job[t] EXCEPT !.seq = fault_seq + 1]
<1>e. /\ at[t] = "stamp" /\ job[t] \in JobType
      /\ fault_seq' = fault_seq + 1
      /\ at' = [at EXCEPT ![t] = "log"] /\ job' = [job EXCEPT ![t] = j]
      /\ UNCHANGED <<opt, stop, poolStop, open, main>>
      /\ UNCHANGED <<faults, queued, pf_outstanding, faultFile, records, fetched, fetchFile, spent>>
  BY <1>h DEF TakeSeq, Typed, Go, lifeVars, poolVars, traceVars
<1>x. main \notin AfterFlush /\ Handler \in Threads
  BY <1>e, HandlerIsThread DEF IndInv, MainWaits, AllExited, Closing, AfterFlush
<1>j. j \in JobType /\ j.kind = job[t].kind /\ j.seq = fault_seq + 1 /\ j.slot = job[t].slot
  <2>1. fault_seq + 1 \in Nat
    BY <1>h DEF Typed
  <2>2. j = [kind |-> job[t].kind, seq |-> fault_seq + 1, slot |-> job[t].slot]
    BY <1>e DEF JobType
  <2>. QED
    BY <1>e, <2>1, <2>2 DEF JobType
<1> HIDE DEF j
<1>w. OneNumbers => t = Handler
  BY <1>h, <1>e DEF NumbersOrdered, Threads
<1>z. fault_seq \in Nat /\ \A n \in 1..Len(faultFile) : faultFile[n] \in 1..fault_seq
  BY <1>h DEF Typed, NumbersSound
<1>m. /\ Moves(t, "log", j) /\ "log" \in Labels /\ j \in JobType
      /\ j.kind = (job[t].kind) /\ j.seq = fault_seq + 1 /\ j.slot = job[t].slot
  BY <1>e, <1>j DEF Moves, Labels
<1>p. /\ at'[t] = "log" /\ job'[t].kind = job[t].kind /\ job'[t].seq = fault_seq + 1
      /\ job'[t].slot = job[t].slot
      /\ \A u \in Threads : u # t => at'[u] = at[u] /\ job'[u] = job[u]
      /\ job' \in [Threads -> JobType] /\ t \in Threads
  BY <1>h, <1>e, <1>m, <1>x DEF Moves, Typed
<1>k. /\ Cardinality(Logging') = Cardinality(Logging) + 1
      /\ Cardinality(Owing') = Cardinality(Owing)
      /\ Cardinality(Nested') = Cardinality(Nested)
      /\ Cardinality(Asked') = Cardinality(Asked)
      /\ Cardinality(Ahead') = Cardinality(Ahead)
      /\ CountsAreNumbers /\ CountsAreNumbers'
  <2>1. CountsAfter(t, "log", j) /\ CountsAreNumbers /\ CountsAreNumbers'
    BY <1>h, <1>m, <1>p, CountMoves DEF Typed
  <2>. QED
    BY <1>h, <1>e, <1>m, <2>1 DEF CountsAfter, CountsAreNumbers, One
<1>o. HasPool' = HasPool /\ OneNumbers' = OneNumbers
  BY <1>e DEF HasPool, OwnPool, OneNumbers
<1>n. /\ faults.raised \in Nat /\ faults.unread \in Nat /\ faults.waiting \in 0..Readers
      /\ queued["demand"] \in Nat /\ queued["prefetch"] \in Nat
      /\ spent.prefetch \in 0..Speculations /\ spent.giveup \in Nat
      /\ fault_seq \in Nat /\ fetched \in Nat /\ pf_outstanding \in Nat
      /\ Len(records) \in Nat /\ Len(faultFile) \in Nat
      /\ capacity \in Nat /\ Readers \in Nat /\ Speculations \in Nat
  BY <1>h, BoundsAssumption DEF Typed
<1>s. /\ faults' = [raised |-> faults.raised, unread |-> faults.unread,
                    waiting |-> faults.waiting]
      /\ spent' = [prefetch |-> spent.prefetch, giveup |-> spent.giveup]
  <2>1. faults' = [raised |-> faults.raised, unread |-> faults.unread, waiting |-> faults.waiting]
    BY <1>h, <1>e, <1>n DEF Typed
  <2>2. spent' = [prefetch |-> spent.prefetch, giveup |-> spent.giveup]
    BY <1>h, <1>e, <1>n DEF Typed
  <2>. QED
    BY <2>1, <2>2
<1>d. /\ faults'.unread = faults.unread /\ faults'.waiting = faults.waiting
      /\ queued'["demand"] = queued["demand"] /\ queued'["prefetch"] = queued["prefetch"]
      /\ spent'.prefetch = spent.prefetch /\ spent'.giveup = spent.giveup
      /\ fault_seq' = fault_seq + 1 /\ fetched' = fetched /\ pf_outstanding' = pf_outstanding
      /\ Len(records') = Len(records) /\ Len(faultFile') = Len(faultFile)
  <2>1. faults'.unread = faults.unread /\ faults'.waiting = faults.waiting
    BY <1>s
  <2>2. queued'["demand"] = queued["demand"] /\ queued'["prefetch"] = queued["prefetch"]
    BY <1>h, <1>e DEF Typed
  <2>3. spent'.prefetch = spent.prefetch /\ spent'.giveup = spent.giveup
    BY <1>s
  <2>4. Len(records') = Len(records) /\ Len(faultFile') = Len(faultFile)
    BY <1>h, <1>e, <1>n DEF Typed, JobType
  <2>. QED
    BY <1>e, <2>1, <2>2, <2>3, <2>4 DEF One
<1>c. /\ fault_seq' = Len(faultFile') + Cardinality(Logging')
      /\ fetched' = Len(records') + Cardinality(Owing') + Cardinality(Nested')
      /\ faults'.waiting = faults'.unread + queued'["demand"] + Cardinality(Asked')
      /\ pf_outstanding' = queued'["prefetch"] + Cardinality(Ahead')
      /\ pf_outstanding' <= spent'.prefetch
      /\ faults'.unread \in Nat /\ faults'.waiting \in 0..Readers /\ pf_outstanding' \in Nat
      /\ spent'.prefetch \in 0..Speculations /\ spent'.giveup \in Nat
      /\ queued'["demand"] \in Nat /\ queued'["prefetch"] \in Nat
  <2>1a. fault_seq \in Nat /\ Len(faultFile) \in Nat
    BY <1>n
  <2>1n. Cardinality(Logging) \in Nat /\ Cardinality(Logging') \in Nat
    BY <1>k DEF CountsAreNumbers
  <2>1b. /\ fault_seq = Len(faultFile) + Cardinality(Logging)
         /\ Cardinality(Logging') = Cardinality(Logging) + 1 /\ fault_seq' = fault_seq + 1
         /\ Len(faultFile') = Len(faultFile)
    BY <1>h, <1>k, <1>d DEF Counts
  <2>1. fault_seq' = Len(faultFile') + Cardinality(Logging')
    BY <2>1a, <2>1n, <2>1b
  <2>2. fetched' = Len(records') + Cardinality(Owing') + Cardinality(Nested')
    BY <1>h, <1>k, <1>d DEF Counts
  <2>3. faults'.unread \in Nat /\ queued'["demand"] \in Nat /\ queued'["prefetch"] \in Nat
    BY <1>n, <1>d
  <2>4. faults'.waiting = faults'.unread + queued'["demand"] + Cardinality(Asked')
    BY <1>h, <1>k, <1>d DEF Counts
  <2>5. faults'.waiting \in 0..Readers
    BY <1>n, <1>d
  <2>6. spent'.prefetch \in 0..Speculations /\ spent'.giveup \in Nat
    BY <1>n, <1>d
  <2>7. /\ pf_outstanding' = queued'["prefetch"] + Cardinality(Ahead')
        /\ pf_outstanding' <= spent'.prefetch
    BY <1>h, <1>k, <1>d DEF Counts
  <2>8. pf_outstanding' \in Nat
    BY <1>n, <1>d
  <2>. QED
    BY <2>1, <2>2, <2>3, <2>4, <2>5, <2>6, <2>7, <2>8
<1>1. Typed'
  <2>1a. faults.raised \in Nat
    BY <1>n
  <2>1. faults' \in [raised : Nat, unread : Nat, waiting : 0..Readers]
    BY <1>s, <1>c, <1>d, <2>1a
  <2>2. queued' \in [{"demand", "prefetch"} -> Nat]
    BY <1>h, <1>e, <1>c DEF Typed
  <2>3. spent' \in [prefetch : 0..Speculations, giveup : Nat]
    BY <1>s, <1>c, <1>d
  <2>4. fault_seq' \in Nat /\ fetched' \in Nat
    BY <1>n, <1>d
  <2>5. faultFile' \in Seq(Nat)
    BY <1>h, <1>e DEF Typed, JobType
  <2>6. records' \in Seq(EntryType) /\ Len(records') <= capacity
    BY <1>h, <1>e, <1>n DEF Typed
  <2>7. job' \in [Threads -> JobType] /\ main' \in Places
    BY <1>h, <1>e, <1>p DEF Typed, Places
  <2>8. /\ open' \subseteq Shared \cup {"pool"} /\ opt' \in Handlers /\ stop' \in BOOLEAN
        /\ poolStop' \in BOOLEAN
    BY <1>h, <1>e DEF Typed
  <2>. QED
    BY <1>c, <2>1, <2>2, <2>3, <2>4, <2>5, <2>6, <2>7, <2>8 DEF Typed
<1>2. JobFits'
  <2>. SUFFICES ASSUME NEW u \in Threads
                 PROVE  /\ at'[u] \in Resting <=> job'[u].kind = "none"
                        /\ at'[u] \in {"predict", "topup"} => job'[u].kind = "demand" /\ opt'.prefetch
                        /\ job'[u].seq <= fault_seq' /\ job'[u].slot <= Len(records')
                        /\ at'[u] = "log" => job'[u].seq > 0
                        /\ at'[u] = "fill" => job'[u].slot > 0
                        /\ HasPool' => job'[u].kind # "inline"
                        /\ u = Handler => job'[u].kind # "prefetch"
    BY DEF JobFits
  <2>0. /\ fault_seq \in Nat /\ Len(records) \in Nat /\ job[u].seq \in Nat /\ job[u].slot \in Nat
    BY <1>h DEF Typed, JobType
  <2>1. CASE u = t
    BY <1>h, <1>e, <1>p, <1>o, <2>0, <2>1 DEF JobFits, Resting
  <2>2. CASE u # t
    BY <1>h, <1>e, <1>p, <1>o, <2>0, <2>2 DEF JobFits
  <2>. QED
    BY <2>1, <2>2
<1>3. RecordsSound'
  BY <1>h, <1>e, <1>x, <1>p DEF RecordsSound
<1>4. NumbersSound'
  <2>1. fault_seq \in Nat /\ fault_seq' = fault_seq + 1 /\ faultFile' = faultFile
    BY <1>h, <1>e DEF Typed
  <2>2. at'[t] = "log" /\ job'[t].seq = fault_seq + 1
    BY <1>p
  <2>3. \A n \in 1..Len(faultFile) : faultFile[n] \in 1..(fault_seq + 1)
    BY <1>h, <2>1 DEF NumbersSound
  <2>4. ASSUME NEW k \in 1..fault_seq, ~ \E n \in 1..Len(faultFile) : faultFile[n] = k
        PROVE  \E u \in Threads : at'[u] = "log" /\ job'[u].seq = k
    <3>1. PICK u \in Threads : at[u] = "log" /\ job[u].seq = k
      BY <1>h, <2>4 DEF NumbersSound
    <3>. QED
      BY <1>e, <1>p, <3>1
  <2>. QED
    BY <2>1, <2>2, <2>3, <2>4 DEF NumbersSound
<1>5. NumbersOrdered'
  BY <1>h, <1>e, <1>x, <1>p, <1>o, <1>w, <1>z DEF NumbersOrdered, Threads
<1>6. Counts'
  BY <1>c DEF Counts
<1>7. Flushed'
  BY <1>h, <1>e, <1>x, <1>p DEF Flushed, AfterFlush
<1>. QED
  BY <1>1, <1>2, <1>3, <1>4, <1>5, <1>6, <1>7 DEF TraceInv

\* trace_record, in a thread that fetches the chunk itself.
LEMMA WriteFaultKeeps ==
  ASSUME IndInv, TraceInv, NEW t \in Threads, TraceFault(t), ~ Dispatches(t)
  PROVE  TraceInv'
<1>h. /\ Typed /\ JobFits /\ RecordsSound /\ NumbersSound /\ NumbersOrdered /\ Counts
      /\ at \in [Threads -> Labels]
  BY DEF TraceInv, IndInv
<1>e. /\ at[t] = "log" /\ job[t] \in JobType
      /\ faultFile' = Append(faultFile, job[t].seq)
      /\ at' = [at EXCEPT ![t] = "room"] /\ job' = [job EXCEPT ![t] = job[t]] /\ job' = job
      /\ UNCHANGED <<opt, stop, poolStop, open, main>>
      /\ UNCHANGED <<faults, queued, pf_outstanding, fault_seq, records, fetched, fetchFile, spent>>
  BY <1>h DEF TraceFault, Typed, Go, lifeVars, poolVars, traceVars
<1>x. main \notin AfterFlush /\ Handler \in Threads
  BY <1>e, HandlerIsThread DEF IndInv, MainWaits, AllExited, Closing, AfterFlush
<1>m. /\ Moves(t, "room", job[t]) /\ "room" \in Labels /\ job[t] \in JobType
      /\ (job[t]).kind = job[t].kind /\ (job[t]).seq = job[t].seq /\ (job[t]).slot = job[t].slot
  BY <1>h, <1>e DEF Moves, Labels, Typed, JobType, NoJob
<1>p. /\ at'[t] = "room" /\ job'[t].kind = job[t].kind /\ job'[t].seq = job[t].seq
      /\ job'[t].slot = job[t].slot
      /\ \A u \in Threads : u # t => at'[u] = at[u] /\ job'[u] = job[u]
      /\ job' \in [Threads -> JobType] /\ t \in Threads
  BY <1>h, <1>e, <1>m, <1>x DEF Moves, Typed
<1>k. /\ Cardinality(Logging') = Cardinality(Logging) - 1
      /\ Cardinality(Owing') = Cardinality(Owing)
      /\ Cardinality(Nested') = Cardinality(Nested)
      /\ Cardinality(Asked') = Cardinality(Asked)
      /\ Cardinality(Ahead') = Cardinality(Ahead)
      /\ CountsAreNumbers /\ CountsAreNumbers'
  <2>1. CountsAfter(t, "room", job[t]) /\ CountsAreNumbers /\ CountsAreNumbers'
    BY <1>h, <1>m, <1>p, CountMoves DEF Typed
  <2>. QED
    BY <1>h, <1>e, <1>m, <2>1 DEF CountsAfter, CountsAreNumbers, One
<1>o. HasPool' = HasPool /\ OneNumbers' = OneNumbers
  BY <1>e DEF HasPool, OwnPool, OneNumbers
<1>n. /\ faults.raised \in Nat /\ faults.unread \in Nat /\ faults.waiting \in 0..Readers
      /\ queued["demand"] \in Nat /\ queued["prefetch"] \in Nat
      /\ spent.prefetch \in 0..Speculations /\ spent.giveup \in Nat
      /\ fault_seq \in Nat /\ fetched \in Nat /\ pf_outstanding \in Nat
      /\ Len(records) \in Nat /\ Len(faultFile) \in Nat
      /\ capacity \in Nat /\ Readers \in Nat /\ Speculations \in Nat
  BY <1>h, BoundsAssumption DEF Typed
<1>s. /\ faults' = [raised |-> faults.raised, unread |-> faults.unread,
                    waiting |-> faults.waiting]
      /\ spent' = [prefetch |-> spent.prefetch, giveup |-> spent.giveup]
  <2>1. faults' = [raised |-> faults.raised, unread |-> faults.unread, waiting |-> faults.waiting]
    BY <1>h, <1>e, <1>n DEF Typed
  <2>2. spent' = [prefetch |-> spent.prefetch, giveup |-> spent.giveup]
    BY <1>h, <1>e, <1>n DEF Typed
  <2>. QED
    BY <2>1, <2>2
<1>d. /\ faults'.unread = faults.unread /\ faults'.waiting = faults.waiting
      /\ queued'["demand"] = queued["demand"] /\ queued'["prefetch"] = queued["prefetch"]
      /\ spent'.prefetch = spent.prefetch /\ spent'.giveup = spent.giveup
      /\ fault_seq' = fault_seq /\ fetched' = fetched /\ pf_outstanding' = pf_outstanding
      /\ Len(records') = Len(records) /\ Len(faultFile') = Len(faultFile) + 1
  <2>1. faults'.unread = faults.unread /\ faults'.waiting = faults.waiting
    BY <1>s
  <2>2. queued'["demand"] = queued["demand"] /\ queued'["prefetch"] = queued["prefetch"]
    BY <1>h, <1>e DEF Typed
  <2>3. spent'.prefetch = spent.prefetch /\ spent'.giveup = spent.giveup
    BY <1>s
  <2>4. Len(records') = Len(records) /\ Len(faultFile') = Len(faultFile) + 1
    BY <1>h, <1>e, <1>n DEF Typed, JobType
  <2>. QED
    BY <1>e, <2>1, <2>2, <2>3, <2>4 DEF One
<1>c. /\ fault_seq' = Len(faultFile') + Cardinality(Logging')
      /\ fetched' = Len(records') + Cardinality(Owing') + Cardinality(Nested')
      /\ faults'.waiting = faults'.unread + queued'["demand"] + Cardinality(Asked')
      /\ pf_outstanding' = queued'["prefetch"] + Cardinality(Ahead')
      /\ pf_outstanding' <= spent'.prefetch
      /\ faults'.unread \in Nat /\ faults'.waiting \in 0..Readers /\ pf_outstanding' \in Nat
      /\ spent'.prefetch \in 0..Speculations /\ spent'.giveup \in Nat
      /\ queued'["demand"] \in Nat /\ queued'["prefetch"] \in Nat
  <2>1a. fault_seq \in Nat /\ Len(faultFile) \in Nat
    BY <1>n
  <2>1n. Cardinality(Logging) \in Nat /\ Cardinality(Logging') \in Nat
    BY <1>k DEF CountsAreNumbers
  <2>1b. /\ fault_seq = Len(faultFile) + Cardinality(Logging)
         /\ Cardinality(Logging') = Cardinality(Logging) - 1 /\ fault_seq' = fault_seq
         /\ Len(faultFile') = Len(faultFile) + 1
    BY <1>h, <1>k, <1>d DEF Counts
  <2>1. fault_seq' = Len(faultFile') + Cardinality(Logging')
    BY <2>1a, <2>1n, <2>1b
  <2>2. fetched' = Len(records') + Cardinality(Owing') + Cardinality(Nested')
    BY <1>h, <1>k, <1>d DEF Counts
  <2>3. faults'.unread \in Nat /\ queued'["demand"] \in Nat /\ queued'["prefetch"] \in Nat
    BY <1>n, <1>d
  <2>4. faults'.waiting = faults'.unread + queued'["demand"] + Cardinality(Asked')
    BY <1>h, <1>k, <1>d DEF Counts
  <2>5. faults'.waiting \in 0..Readers
    BY <1>n, <1>d
  <2>6. spent'.prefetch \in 0..Speculations /\ spent'.giveup \in Nat
    BY <1>n, <1>d
  <2>7. /\ pf_outstanding' = queued'["prefetch"] + Cardinality(Ahead')
        /\ pf_outstanding' <= spent'.prefetch
    BY <1>h, <1>k, <1>d DEF Counts
  <2>8. pf_outstanding' \in Nat
    BY <1>n, <1>d
  <2>. QED
    BY <2>1, <2>2, <2>3, <2>4, <2>5, <2>6, <2>7, <2>8
<1>1. Typed'
  <2>1a. faults.raised \in Nat
    BY <1>n
  <2>1. faults' \in [raised : Nat, unread : Nat, waiting : 0..Readers]
    BY <1>s, <1>c, <1>d, <2>1a
  <2>2. queued' \in [{"demand", "prefetch"} -> Nat]
    BY <1>h, <1>e, <1>c DEF Typed
  <2>3. spent' \in [prefetch : 0..Speculations, giveup : Nat]
    BY <1>s, <1>c, <1>d
  <2>4. fault_seq' \in Nat /\ fetched' \in Nat
    BY <1>n, <1>d
  <2>5. faultFile' \in Seq(Nat)
    BY <1>h, <1>e DEF Typed, JobType
  <2>6. records' \in Seq(EntryType) /\ Len(records') <= capacity
    BY <1>h, <1>e, <1>n DEF Typed
  <2>7. job' \in [Threads -> JobType] /\ main' \in Places
    BY <1>h, <1>e, <1>p DEF Typed, Places
  <2>8. /\ open' \subseteq Shared \cup {"pool"} /\ opt' \in Handlers /\ stop' \in BOOLEAN
        /\ poolStop' \in BOOLEAN
    BY <1>h, <1>e DEF Typed
  <2>. QED
    BY <1>c, <2>1, <2>2, <2>3, <2>4, <2>5, <2>6, <2>7, <2>8 DEF Typed
<1>2. JobFits'
  <2>. SUFFICES ASSUME NEW u \in Threads
                 PROVE  /\ at'[u] \in Resting <=> job'[u].kind = "none"
                        /\ at'[u] \in {"predict", "topup"} => job'[u].kind = "demand" /\ opt'.prefetch
                        /\ job'[u].seq <= fault_seq' /\ job'[u].slot <= Len(records')
                        /\ at'[u] = "log" => job'[u].seq > 0
                        /\ at'[u] = "fill" => job'[u].slot > 0
                        /\ HasPool' => job'[u].kind # "inline"
                        /\ u = Handler => job'[u].kind # "prefetch"
    BY DEF JobFits
  <2>0. /\ fault_seq \in Nat /\ Len(records) \in Nat /\ job[u].seq \in Nat /\ job[u].slot \in Nat
    BY <1>h DEF Typed, JobType
  <2>1. CASE u = t
    BY <1>h, <1>e, <1>p, <1>o, <2>0, <2>1 DEF JobFits, Resting
  <2>2. CASE u # t
    BY <1>h, <1>e, <1>p, <1>o, <2>0, <2>2 DEF JobFits
  <2>. QED
    BY <2>1, <2>2
<1>3. RecordsSound'
  BY <1>h, <1>e, <1>x, <1>p DEF RecordsSound
<1>4. NumbersSound'
  <2>1. /\ Len(faultFile) \in Nat /\ Len(faultFile') = Len(faultFile) + 1
        /\ faultFile'[Len(faultFile) + 1] = job[t].seq
        /\ \A n \in 1..Len(faultFile) : faultFile'[n] = faultFile[n]
    BY <1>h, <1>e DEF Typed, JobType
  <2>2. job[t].seq \in 1..fault_seq /\ fault_seq' = fault_seq
    BY <1>h, <1>e DEF JobFits, Typed, JobType
  <2>3. \A n \in 1..Len(faultFile') : faultFile'[n] \in 1..fault_seq'
    BY <1>h, <2>1, <2>2 DEF NumbersSound
  <2>4. ASSUME NEW k \in 1..fault_seq, ~ \E n \in 1..Len(faultFile') : faultFile'[n] = k
        PROVE  \E u \in Threads : at'[u] = "log" /\ job'[u].seq = k
    <3>1. ~ \E n \in 1..Len(faultFile) : faultFile[n] = k
      BY <2>1, <2>4
    <3>2. k # job[t].seq
      BY <2>1, <2>4
    <3>3. PICK u \in Threads : at[u] = "log" /\ job[u].seq = k
      BY <1>h, <3>1 DEF NumbersSound
    <3>. QED
      BY <1>e, <1>p, <3>2, <3>3
  <2>. QED
    BY <2>2, <2>3, <2>4 DEF NumbersSound
<1>5. NumbersOrdered'
  BY <1>h, <1>e, <1>x, <1>p, <1>o DEF NumbersOrdered, Threads
<1>6. Counts'
  BY <1>c DEF Counts
<1>7. Flushed'
  BY <1>h, <1>e, <1>x, <1>p DEF Flushed, AfterFlush
<1>. QED
  BY <1>1, <1>2, <1>3, <1>4, <1>5, <1>6, <1>7 DEF TraceInv

\* trace_record, in the dispatcher, and the job queued.
LEMMA DispatchFaultKeeps ==
  ASSUME IndInv, TraceInv, NEW t \in Threads, TraceFault(t), Dispatches(t)
  PROVE  TraceInv'
<1>h. /\ Typed /\ JobFits /\ RecordsSound /\ NumbersSound /\ NumbersOrdered /\ Counts
      /\ at \in [Threads -> Labels]
  BY DEF TraceInv, IndInv
<1>e. /\ t = Handler /\ opt.async /\ at[t] = "log" /\ job[t] \in JobType /\ job[t].kind = "demand"
      /\ faultFile' = Append(faultFile, job[t].seq)
      /\ at' = [at EXCEPT ![t] = "drain"] /\ job' = [job EXCEPT ![t] = NoJob]
      /\ queued' = [queued EXCEPT !["demand"] = @ + 1]
      /\ UNCHANGED <<opt, stop, poolStop, open, main>>
      /\ UNCHANGED <<faults, pf_outstanding, fault_seq, records, fetched, fetchFile, spent>>
  <2>1. opt.async /\ t = Handler /\ at[t] = "log"
    BY DEF TraceFault, Dispatches
  <2>2. job[t] \in JobType /\ job[t].kind = "demand"
    BY <1>h, <2>1 DEF JobFits, HasPool, Resting, Typed, JobType
  <2>. QED
    BY <1>h, <2>1, <2>2 DEF TraceFault, Go, lifeVars
<1>x. main \notin AfterFlush /\ Handler \in Threads
  BY <1>e, HandlerIsThread DEF IndInv, MainWaits, AllExited, Closing, AfterFlush
<1>m. /\ Moves(t, "drain", NoJob) /\ "drain" \in Labels /\ NoJob \in JobType
      /\ (NoJob).kind = "none" /\ (NoJob).seq = 0 /\ (NoJob).slot = 0
  BY <1>h, <1>e DEF Moves, Labels, Typed, JobType, NoJob
<1>p. /\ at'[t] = "drain" /\ job'[t].kind = "none" /\ job'[t].seq = 0 /\ job'[t].slot = 0
      /\ \A u \in Threads : u # t => at'[u] = at[u] /\ job'[u] = job[u]
      /\ job' \in [Threads -> JobType] /\ t \in Threads
  BY <1>h, <1>e, <1>m, <1>x DEF Moves, Typed
<1>k. /\ Cardinality(Logging') = Cardinality(Logging) - 1
      /\ Cardinality(Owing') = Cardinality(Owing)
      /\ Cardinality(Nested') = Cardinality(Nested)
      /\ Cardinality(Asked') = Cardinality(Asked) - 1
      /\ Cardinality(Ahead') = Cardinality(Ahead)
      /\ CountsAreNumbers /\ CountsAreNumbers'
  <2>1. CountsAfter(t, "drain", NoJob) /\ CountsAreNumbers /\ CountsAreNumbers'
    BY <1>h, <1>m, <1>p, CountMoves DEF Typed
  <2>. QED
    BY <1>h, <1>e, <1>m, <2>1 DEF CountsAfter, CountsAreNumbers, One
<1>o. HasPool' = HasPool /\ OneNumbers' = OneNumbers
  BY <1>e DEF HasPool, OwnPool, OneNumbers
<1>n. /\ faults.raised \in Nat /\ faults.unread \in Nat /\ faults.waiting \in 0..Readers
      /\ queued["demand"] \in Nat /\ queued["prefetch"] \in Nat
      /\ spent.prefetch \in 0..Speculations /\ spent.giveup \in Nat
      /\ fault_seq \in Nat /\ fetched \in Nat /\ pf_outstanding \in Nat
      /\ Len(records) \in Nat /\ Len(faultFile) \in Nat
      /\ capacity \in Nat /\ Readers \in Nat /\ Speculations \in Nat
  BY <1>h, BoundsAssumption DEF Typed
<1>s. /\ faults' = [raised |-> faults.raised, unread |-> faults.unread,
                    waiting |-> faults.waiting]
      /\ spent' = [prefetch |-> spent.prefetch, giveup |-> spent.giveup]
  <2>1. faults' = [raised |-> faults.raised, unread |-> faults.unread, waiting |-> faults.waiting]
    BY <1>h, <1>e, <1>n DEF Typed
  <2>2. spent' = [prefetch |-> spent.prefetch, giveup |-> spent.giveup]
    BY <1>h, <1>e, <1>n DEF Typed
  <2>. QED
    BY <2>1, <2>2
<1>d. /\ faults'.unread = faults.unread /\ faults'.waiting = faults.waiting
      /\ queued'["demand"] = queued["demand"] + 1 /\ queued'["prefetch"] = queued["prefetch"]
      /\ spent'.prefetch = spent.prefetch /\ spent'.giveup = spent.giveup
      /\ fault_seq' = fault_seq /\ fetched' = fetched /\ pf_outstanding' = pf_outstanding
      /\ Len(records') = Len(records) /\ Len(faultFile') = Len(faultFile) + 1
  <2>1. faults'.unread = faults.unread /\ faults'.waiting = faults.waiting
    BY <1>s
  <2>2. queued'["demand"] = queued["demand"] + 1 /\ queued'["prefetch"] = queued["prefetch"]
    BY <1>h, <1>e DEF Typed
  <2>3. spent'.prefetch = spent.prefetch /\ spent'.giveup = spent.giveup
    BY <1>s
  <2>4. Len(records') = Len(records) /\ Len(faultFile') = Len(faultFile) + 1
    BY <1>h, <1>e, <1>n DEF Typed, JobType
  <2>. QED
    BY <1>e, <2>1, <2>2, <2>3, <2>4 DEF One
<1>c. /\ fault_seq' = Len(faultFile') + Cardinality(Logging')
      /\ fetched' = Len(records') + Cardinality(Owing') + Cardinality(Nested')
      /\ faults'.waiting = faults'.unread + queued'["demand"] + Cardinality(Asked')
      /\ pf_outstanding' = queued'["prefetch"] + Cardinality(Ahead')
      /\ pf_outstanding' <= spent'.prefetch
      /\ faults'.unread \in Nat /\ faults'.waiting \in 0..Readers /\ pf_outstanding' \in Nat
      /\ spent'.prefetch \in 0..Speculations /\ spent'.giveup \in Nat
      /\ queued'["demand"] \in Nat /\ queued'["prefetch"] \in Nat
  <2>1a. fault_seq \in Nat /\ Len(faultFile) \in Nat
    BY <1>n
  <2>1n. Cardinality(Logging) \in Nat /\ Cardinality(Logging') \in Nat
    BY <1>k DEF CountsAreNumbers
  <2>1b. /\ fault_seq = Len(faultFile) + Cardinality(Logging)
         /\ Cardinality(Logging') = Cardinality(Logging) - 1 /\ fault_seq' = fault_seq
         /\ Len(faultFile') = Len(faultFile) + 1
    BY <1>h, <1>k, <1>d DEF Counts
  <2>1. fault_seq' = Len(faultFile') + Cardinality(Logging')
    BY <2>1a, <2>1n, <2>1b
  <2>2. fetched' = Len(records') + Cardinality(Owing') + Cardinality(Nested')
    BY <1>h, <1>k, <1>d DEF Counts
  <2>3a. queued["demand"] \in Nat /\ queued'["demand"] = queued["demand"] + 1
    BY <1>n, <1>d
  <2>3b. queued'["demand"] \in Nat
    BY <2>3a
  <2>3c. faults'.unread \in Nat /\ queued'["prefetch"] \in Nat
    BY <1>n, <1>d
  <2>3. faults'.unread \in Nat /\ queued'["demand"] \in Nat /\ queued'["prefetch"] \in Nat
    BY <2>3b, <2>3c
  <2>4a. faults.waiting \in Nat /\ faults.unread \in Nat /\ queued["demand"] \in Nat
    BY <1>n
  <2>4n. Cardinality(Asked) \in Nat /\ Cardinality(Asked') \in Nat
    BY <1>k DEF CountsAreNumbers
  <2>4b. /\ faults.waiting = faults.unread + queued["demand"] + Cardinality(Asked)
         /\ Cardinality(Asked') = Cardinality(Asked) - 1 /\ faults'.unread = faults.unread
         /\ faults'.waiting = faults.waiting /\ queued'["demand"] = queued["demand"] + 1
    BY <1>h, <1>k, <1>d DEF Counts
  <2>4. faults'.waiting = faults'.unread + queued'["demand"] + Cardinality(Asked')
    BY <2>4a, <2>4n, <2>4b
  <2>5. faults'.waiting \in 0..Readers
    BY <1>n, <1>d
  <2>6. spent'.prefetch \in 0..Speculations /\ spent'.giveup \in Nat
    BY <1>n, <1>d
  <2>7. /\ pf_outstanding' = queued'["prefetch"] + Cardinality(Ahead')
        /\ pf_outstanding' <= spent'.prefetch
    BY <1>h, <1>k, <1>d DEF Counts
  <2>8. pf_outstanding' \in Nat
    BY <1>n, <1>d
  <2>. QED
    BY <2>1, <2>2, <2>3, <2>4, <2>5, <2>6, <2>7, <2>8
<1>1. Typed'
  <2>1a. faults.raised \in Nat
    BY <1>n
  <2>1. faults' \in [raised : Nat, unread : Nat, waiting : 0..Readers]
    BY <1>s, <1>c, <1>d, <2>1a
  <2>2. queued' \in [{"demand", "prefetch"} -> Nat]
    BY <1>h, <1>e, <1>c DEF Typed
  <2>3. spent' \in [prefetch : 0..Speculations, giveup : Nat]
    BY <1>s, <1>c, <1>d
  <2>4. fault_seq' \in Nat /\ fetched' \in Nat
    BY <1>n, <1>d
  <2>5. faultFile' \in Seq(Nat)
    BY <1>h, <1>e DEF Typed, JobType
  <2>6. records' \in Seq(EntryType) /\ Len(records') <= capacity
    BY <1>h, <1>e, <1>n DEF Typed
  <2>7. job' \in [Threads -> JobType] /\ main' \in Places
    BY <1>h, <1>e, <1>p DEF Typed, Places
  <2>8. /\ open' \subseteq Shared \cup {"pool"} /\ opt' \in Handlers /\ stop' \in BOOLEAN
        /\ poolStop' \in BOOLEAN
    BY <1>h, <1>e DEF Typed
  <2>. QED
    BY <1>c, <2>1, <2>2, <2>3, <2>4, <2>5, <2>6, <2>7, <2>8 DEF Typed
<1>2. JobFits'
  <2>. SUFFICES ASSUME NEW u \in Threads
                 PROVE  /\ at'[u] \in Resting <=> job'[u].kind = "none"
                        /\ at'[u] \in {"predict", "topup"} => job'[u].kind = "demand" /\ opt'.prefetch
                        /\ job'[u].seq <= fault_seq' /\ job'[u].slot <= Len(records')
                        /\ at'[u] = "log" => job'[u].seq > 0
                        /\ at'[u] = "fill" => job'[u].slot > 0
                        /\ HasPool' => job'[u].kind # "inline"
                        /\ u = Handler => job'[u].kind # "prefetch"
    BY DEF JobFits
  <2>0. /\ fault_seq \in Nat /\ Len(records) \in Nat /\ job[u].seq \in Nat /\ job[u].slot \in Nat
    BY <1>h DEF Typed, JobType
  <2>1. CASE u = t
    BY <1>h, <1>e, <1>p, <1>o, <2>0, <2>1 DEF JobFits, Resting
  <2>2. CASE u # t
    BY <1>h, <1>e, <1>p, <1>o, <2>0, <2>2 DEF JobFits
  <2>. QED
    BY <2>1, <2>2
<1>3. RecordsSound'
  BY <1>h, <1>e, <1>x, <1>p DEF RecordsSound
<1>4. NumbersSound'
  <2>1. /\ Len(faultFile) \in Nat /\ Len(faultFile') = Len(faultFile) + 1
        /\ faultFile'[Len(faultFile) + 1] = job[t].seq
        /\ \A n \in 1..Len(faultFile) : faultFile'[n] = faultFile[n]
    BY <1>h, <1>e DEF Typed, JobType
  <2>2. job[t].seq \in 1..fault_seq /\ fault_seq' = fault_seq
    BY <1>h, <1>e DEF JobFits, Typed, JobType
  <2>3. \A n \in 1..Len(faultFile') : faultFile'[n] \in 1..fault_seq'
    BY <1>h, <2>1, <2>2 DEF NumbersSound
  <2>4. ASSUME NEW k \in 1..fault_seq, ~ \E n \in 1..Len(faultFile') : faultFile'[n] = k
        PROVE  \E u \in Threads : at'[u] = "log" /\ job'[u].seq = k
    <3>1. ~ \E n \in 1..Len(faultFile) : faultFile[n] = k
      BY <2>1, <2>4
    <3>2. k # job[t].seq
      BY <2>1, <2>4
    <3>3. PICK u \in Threads : at[u] = "log" /\ job[u].seq = k
      BY <1>h, <3>1 DEF NumbersSound
    <3>. QED
      BY <1>e, <1>p, <3>2, <3>3
  <2>. QED
    BY <2>2, <2>3, <2>4 DEF NumbersSound
<1>5. NumbersOrdered'
  BY <1>h, <1>e, <1>x, <1>p, <1>o DEF NumbersOrdered, Threads
<1>6. Counts'
  BY <1>c DEF Counts
<1>7. Flushed'
  BY <1>h, <1>e, <1>x, <1>p DEF Flushed, AfterFlush
<1>. QED
  BY <1>1, <1>2, <1>3, <1>4, <1>5, <1>6, <1>7 DEF TraceInv

\* A victim is sought.
LEMMA MakeRoomKeeps ==
  ASSUME IndInv, TraceInv, NEW t \in Threads, MakeRoom(t)
  PROVE  TraceInv'
<1>h. /\ Typed /\ JobFits /\ RecordsSound /\ NumbersSound /\ NumbersOrdered /\ Counts
      /\ at \in [Threads -> Labels]
  BY DEF TraceInv, IndInv
<1>e. /\ at[t] = "room" /\ job[t] \in JobType
      /\ at' = [at EXCEPT ![t] = "read"] /\ job' = [job EXCEPT ![t] = job[t]] /\ job' = job
      /\ UNCHANGED <<opt, stop, poolStop, open, main>>
      /\ UNCHANGED <<faults, queued, pf_outstanding, fault_seq, faultFile, records, fetched, fetchFile, spent>>
  BY <1>h DEF MakeRoom, Typed, Go, lifeVars, poolVars, traceVars
<1>x. main \notin AfterFlush /\ Handler \in Threads
  BY <1>e, HandlerIsThread DEF IndInv, MainWaits, AllExited, Closing, AfterFlush
<1>m. /\ Moves(t, "read", job[t]) /\ "read" \in Labels /\ job[t] \in JobType
      /\ (job[t]).kind = job[t].kind /\ (job[t]).seq = job[t].seq /\ (job[t]).slot = job[t].slot
  BY <1>h, <1>e DEF Moves, Labels, Typed, JobType, NoJob
<1>p. /\ at'[t] = "read" /\ job'[t].kind = job[t].kind /\ job'[t].seq = job[t].seq
      /\ job'[t].slot = job[t].slot
      /\ \A u \in Threads : u # t => at'[u] = at[u] /\ job'[u] = job[u]
      /\ job' \in [Threads -> JobType] /\ t \in Threads
  BY <1>h, <1>e, <1>m, <1>x DEF Moves, Typed
<1>k. /\ Cardinality(Logging') = Cardinality(Logging)
      /\ Cardinality(Owing') = Cardinality(Owing)
      /\ Cardinality(Nested') = Cardinality(Nested)
      /\ Cardinality(Asked') = Cardinality(Asked)
      /\ Cardinality(Ahead') = Cardinality(Ahead)
      /\ CountsAreNumbers /\ CountsAreNumbers'
  <2>1. CountsAfter(t, "read", job[t]) /\ CountsAreNumbers /\ CountsAreNumbers'
    BY <1>h, <1>m, <1>p, CountMoves DEF Typed
  <2>. QED
    BY <1>h, <1>e, <1>m, <2>1 DEF CountsAfter, CountsAreNumbers, One
<1>o. HasPool' = HasPool /\ OneNumbers' = OneNumbers
  BY <1>e DEF HasPool, OwnPool, OneNumbers
<1>q. \A u \in Threads : /\ at'[u] = "log" <=> at[u] = "log"
                         /\ at[u] = "log" => job'[u].seq = job[u].seq
  BY <1>e, <1>p
<1>1. Typed'
  BY <1>h, <1>e, <1>p DEF Typed, Places
<1>2. JobFits'
  <2>. SUFFICES ASSUME NEW u \in Threads
                 PROVE  /\ at'[u] \in Resting <=> job'[u].kind = "none"
                        /\ at'[u] \in {"predict", "topup"} => job'[u].kind = "demand" /\ opt'.prefetch
                        /\ job'[u].seq <= fault_seq' /\ job'[u].slot <= Len(records')
                        /\ at'[u] = "log" => job'[u].seq > 0
                        /\ at'[u] = "fill" => job'[u].slot > 0
                        /\ HasPool' => job'[u].kind # "inline"
                        /\ u = Handler => job'[u].kind # "prefetch"
    BY DEF JobFits
  <2>0. /\ fault_seq \in Nat /\ Len(records) \in Nat /\ job[u].seq \in Nat /\ job[u].slot \in Nat
    BY <1>h DEF Typed, JobType
  <2>1. CASE u = t
    BY <1>h, <1>e, <1>p, <1>o, <2>0, <2>1 DEF JobFits, Resting
  <2>2. CASE u # t
    BY <1>h, <1>e, <1>p, <1>o, <2>0, <2>2 DEF JobFits
  <2>. QED
    BY <2>1, <2>2
<1>3. RecordsSound'
  BY <1>h, <1>e, <1>x, <1>p DEF RecordsSound
<1>4. NumbersSound'
  BY <1>h, <1>e, <1>q, NumbersFrame
<1>5. NumbersOrdered'
  BY <1>h, <1>e, <1>x, <1>p, <1>o DEF NumbersOrdered, Threads
<1>6. Counts'
  BY <1>h, <1>e, <1>k DEF Counts
<1>7. Flushed'
  BY <1>h, <1>e, <1>x, <1>p DEF Flushed, AfterFlush
<1>. QED
  BY <1>1, <1>2, <1>3, <1>4, <1>5, <1>6, <1>7 DEF TraceInv

\* A fetch that finds no room owes no record, and its reader faults anew; one
\* that is not needed any more owes none either.
LEMMA GiveUpKeeps ==
  ASSUME IndInv, TraceInv, NEW t \in Threads, GiveUp(t) \/ DropPrefetch(t)
  PROVE  TraceInv'
<1>h. /\ Typed /\ JobFits /\ RecordsSound /\ NumbersSound /\ NumbersOrdered /\ Counts
      /\ at \in [Threads -> Labels]
  BY DEF TraceInv, IndInv
<1> DEFINE kind == job[t].kind
           l == IF kind = "inline" THEN "reserve" ELSE IF t = Handler THEN "drain" ELSE "idle"
           j == IF kind = "inline" THEN [NoJob EXCEPT !.kind = "demand"] ELSE NoJob
<1>e. /\ at[t] \in {"room", "stamp"} /\ job[t] \in JobType /\ kind \in {"demand", "prefetch", "inline"}
      /\ at' = [at EXCEPT ![t] = l] /\ job' = [job EXCEPT ![t] = j]
      /\ faults' = IF kind = "demand" THEN [faults EXCEPT !.unread = @ + 1] ELSE faults
      /\ pf_outstanding' = pf_outstanding - One(kind = "prefetch")
      /\ spent' = IF at[t] = "room" THEN [spent EXCEPT !.giveup = @ + 1] ELSE spent
      /\ UNCHANGED <<opt, stop, poolStop, open, main>>
      /\ UNCHANGED <<queued, fault_seq, faultFile, records, fetched, fetchFile>>
  BY <1>h DEF GiveUp, DropPrefetch, Finish, Counted, One, Go, lifeVars, traceVars, Typed, JobFits, Resting,
     JobType
<1>x. main \notin AfterFlush /\ Handler \in Threads
  BY <1>e, HandlerIsThread DEF IndInv, MainWaits, AllExited, Closing, AfterFlush
<1>j. /\ l \in Labels /\ j \in JobType /\ (kind = "inline" => l = "reserve")
      /\ (kind # "inline" => l \in {"drain", "idle"})
      /\ j.kind = (IF kind = "inline" THEN "demand" ELSE "none") /\ j.seq = 0 /\ j.slot = 0
  <2>1. CASE kind = "inline"
    BY <1>h, <1>e, <2>1 DEF Labels, JobType, NoJob
  <2>2. CASE kind # "inline"
    BY <1>h, <1>e, <2>2 DEF Labels, JobType, NoJob
  <2>. QED
    BY <2>1, <2>2
<1> HIDE DEF l, j
<1>m. /\ Moves(t, l, j) /\ l \in Labels /\ j \in JobType
      /\ j.kind = (IF kind = "inline" THEN "demand" ELSE "none") /\ j.seq = 0 /\ j.slot = 0
  BY <1>e, <1>j DEF Moves, Labels
<1>p. /\ at'[t] = l /\ job'[t].kind = (IF kind = "inline" THEN "demand" ELSE "none")
      /\ job'[t].seq = 0 /\ job'[t].slot = 0
      /\ \A u \in Threads : u # t => at'[u] = at[u] /\ job'[u] = job[u]
      /\ job' \in [Threads -> JobType] /\ t \in Threads
  BY <1>h, <1>e, <1>m, <1>x DEF Moves, Typed
<1>k. /\ Cardinality(Logging') = Cardinality(Logging)
      /\ Cardinality(Owing') = Cardinality(Owing) + One(kind = "inline")
      /\ Cardinality(Nested') = Cardinality(Nested) - One(kind = "inline")
      /\ Cardinality(Asked') = Cardinality(Asked) - One(kind = "demand")
      /\ Cardinality(Ahead') = Cardinality(Ahead) - One(kind = "prefetch")
      /\ CountsAreNumbers /\ CountsAreNumbers'
  <2>1. CountsAfter(t, l, j) /\ CountsAreNumbers /\ CountsAreNumbers'
    BY <1>h, <1>m, <1>p, CountMoves DEF Typed
  <2>2. CASE kind = "inline"
    BY <1>e, <1>j, <1>m, <2>1, <2>2 DEF CountsAfter, CountsAreNumbers, One
  <2>3. CASE kind = "demand"
    BY <1>e, <1>j, <1>m, <2>1, <2>3 DEF CountsAfter, CountsAreNumbers, One
  <2>4. CASE kind = "prefetch"
    BY <1>e, <1>j, <1>m, <2>1, <2>4 DEF CountsAfter, CountsAreNumbers, One
  <2>. QED
    BY <1>e, <2>1, <2>2, <2>3, <2>4
<1>o. HasPool' = HasPool /\ OneNumbers' = OneNumbers
  BY <1>e DEF HasPool, OwnPool, OneNumbers
<1>q. \A u \in Threads : /\ at'[u] = "log" <=> at[u] = "log"
                         /\ at[u] = "log" => job'[u].seq = job[u].seq
  BY <1>e, <1>p, <1>j
<1>n. /\ faults.raised \in Nat /\ faults.unread \in Nat /\ faults.waiting \in 0..Readers
      /\ queued["demand"] \in Nat /\ queued["prefetch"] \in Nat
      /\ spent.prefetch \in 0..Speculations /\ spent.giveup \in Nat
      /\ fault_seq \in Nat /\ fetched \in Nat /\ pf_outstanding \in Nat
      /\ Len(records) \in Nat /\ Len(faultFile) \in Nat
      /\ capacity \in Nat /\ Readers \in Nat /\ Speculations \in Nat
  BY <1>h, BoundsAssumption DEF Typed
<1>s. /\ faults' = [raised |-> faults.raised, unread |-> faults.unread + One(kind = "demand"),
                    waiting |-> faults.waiting]
      /\ spent' = [prefetch |-> spent.prefetch, giveup |-> spent.giveup + One(at[t] = "room")]
  <2>1. faults' = [raised |-> faults.raised, unread |-> faults.unread + One(kind = "demand"),
                   waiting |-> faults.waiting]
    <3>1. CASE kind = "demand"
      BY <1>h, <1>e, <1>n, <3>1 DEF Typed, One
    <3>2. CASE kind # "demand"
      BY <1>h, <1>e, <1>n, <3>2 DEF Typed, One
    <3>. QED
      BY <3>1, <3>2
  <2>2. spent' = [prefetch |-> spent.prefetch, giveup |-> spent.giveup + One(at[t] = "room")]
    <3>1. CASE at[t] = "room"
      BY <1>h, <1>e, <1>n, <3>1 DEF Typed, One
    <3>2. CASE at[t] # "room"
      BY <1>h, <1>e, <1>n, <3>2 DEF Typed, One
    <3>. QED
      BY <3>1, <3>2
  <2>. QED
    BY <2>1, <2>2
<1>d. /\ faults'.unread = faults.unread + One(kind = "demand") /\ faults'.waiting = faults.waiting
      /\ queued'["demand"] = queued["demand"] /\ queued'["prefetch"] = queued["prefetch"]
      /\ spent'.prefetch = spent.prefetch /\ spent'.giveup = spent.giveup + One(at[t] = "room")
      /\ fault_seq' = fault_seq /\ fetched' = fetched
      /\ pf_outstanding' = pf_outstanding - One(kind = "prefetch")
      /\ Len(records') = Len(records) /\ Len(faultFile') = Len(faultFile)
      /\ One(kind = "demand") \in {0, 1}
      /\ One(kind = "inline") \in {0, 1}
      /\ One(kind = "prefetch") \in {0, 1}
  <2>1. faults'.unread = faults.unread + One(kind = "demand") /\ faults'.waiting = faults.waiting
    BY <1>s
  <2>2. queued'["demand"] = queued["demand"] /\ queued'["prefetch"] = queued["prefetch"]
    BY <1>h, <1>e DEF Typed
  <2>3. spent'.prefetch = spent.prefetch /\ spent'.giveup = spent.giveup + One(at[t] = "room")
    BY <1>s
  <2>4. Len(records') = Len(records) /\ Len(faultFile') = Len(faultFile)
    BY <1>h, <1>e, <1>n DEF Typed, JobType
  <2>. QED
    BY <1>e, <2>1, <2>2, <2>3, <2>4 DEF One
<1>c. /\ fault_seq' = Len(faultFile') + Cardinality(Logging')
      /\ fetched' = Len(records') + Cardinality(Owing') + Cardinality(Nested')
      /\ faults'.waiting = faults'.unread + queued'["demand"] + Cardinality(Asked')
      /\ pf_outstanding' = queued'["prefetch"] + Cardinality(Ahead')
      /\ pf_outstanding' <= spent'.prefetch
      /\ faults'.unread \in Nat /\ faults'.waiting \in 0..Readers /\ pf_outstanding' \in Nat
      /\ spent'.prefetch \in 0..Speculations /\ spent'.giveup \in Nat
      /\ queued'["demand"] \in Nat /\ queued'["prefetch"] \in Nat
  <2>1. fault_seq' = Len(faultFile') + Cardinality(Logging')
    BY <1>h, <1>k, <1>d DEF Counts
  <2>2a. fetched \in Nat /\ Len(records) \in Nat
    BY <1>n
  <2>2n. /\ Cardinality(Owing) \in Nat /\ Cardinality(Owing') \in Nat
         /\ Cardinality(Nested) \in Nat /\ Cardinality(Nested') \in Nat
    BY <1>k DEF CountsAreNumbers
  <2>2b. /\ fetched = Len(records) + Cardinality(Owing) + Cardinality(Nested)
         /\ Cardinality(Owing') = Cardinality(Owing) + One(kind = "inline")
         /\ Cardinality(Nested') = Cardinality(Nested) - One(kind = "inline")
         /\ fetched' = fetched /\ Len(records') = Len(records)
    BY <1>h, <1>k, <1>d DEF Counts
  <2>2c. One(kind = "inline") \in {0, 1}
    BY <1>d
  <2>2. fetched' = Len(records') + Cardinality(Owing') + Cardinality(Nested')
    BY <2>2a, <2>2n, <2>2b, <2>2c
  <2>3. faults'.unread \in Nat /\ queued'["demand"] \in Nat /\ queued'["prefetch"] \in Nat
    BY <1>n, <1>d
  <2>4a. faults.waiting \in Nat /\ faults.unread \in Nat /\ queued["demand"] \in Nat
    BY <1>n
  <2>4n. Cardinality(Asked) \in Nat /\ Cardinality(Asked') \in Nat
    BY <1>k DEF CountsAreNumbers
  <2>4b. /\ faults.waiting = faults.unread + queued["demand"] + Cardinality(Asked)
         /\ Cardinality(Asked') = Cardinality(Asked) - One(kind = "demand")
         /\ faults'.unread = faults.unread + One(kind = "demand")
         /\ faults'.waiting = faults.waiting /\ queued'["demand"] = queued["demand"]
    BY <1>h, <1>k, <1>d DEF Counts
  <2>4c. One(kind = "demand") \in {0, 1}
    BY <1>d
  <2>4. faults'.waiting = faults'.unread + queued'["demand"] + Cardinality(Asked')
    BY <2>4a, <2>4n, <2>4b, <2>4c
  <2>5. faults'.waiting \in 0..Readers
    BY <1>n, <1>d
  <2>6. spent'.prefetch \in 0..Speculations /\ spent'.giveup \in Nat
    BY <1>n, <1>d DEF One
  <2>7a. pf_outstanding \in Nat /\ queued["prefetch"] \in Nat /\ spent.prefetch \in Nat
    BY <1>n
  <2>7n. Cardinality(Ahead) \in Nat /\ Cardinality(Ahead') \in Nat
    BY <1>k DEF CountsAreNumbers
  <2>7b. /\ pf_outstanding = queued["prefetch"] + Cardinality(Ahead)
         /\ pf_outstanding <= spent.prefetch
         /\ Cardinality(Ahead') = Cardinality(Ahead) - One(kind = "prefetch")
         /\ pf_outstanding' = pf_outstanding - One(kind = "prefetch")
         /\ queued'["prefetch"] = queued["prefetch"] /\ spent'.prefetch = spent.prefetch
    BY <1>h, <1>k, <1>d DEF Counts
  <2>7c. One(kind = "prefetch") \in {0, 1}
    BY <1>d
  <2>7. /\ pf_outstanding' = queued'["prefetch"] + Cardinality(Ahead')
        /\ pf_outstanding' <= spent'.prefetch
    BY <2>7a, <2>7n, <2>7b, <2>7c
  <2>8. pf_outstanding' \in Nat
    BY <2>3, <2>7, <2>7n
  <2>. QED
    BY <2>1, <2>2, <2>3, <2>4, <2>5, <2>6, <2>7, <2>8
<1>1. Typed'
  <2>1a. faults.raised \in Nat
    BY <1>n
  <2>1. faults' \in [raised : Nat, unread : Nat, waiting : 0..Readers]
    BY <1>s, <1>c, <1>d, <2>1a
  <2>2. queued' \in [{"demand", "prefetch"} -> Nat]
    BY <1>h, <1>e, <1>c DEF Typed
  <2>3. spent' \in [prefetch : 0..Speculations, giveup : Nat]
    BY <1>s, <1>c, <1>d
  <2>4. fault_seq' \in Nat /\ fetched' \in Nat
    BY <1>n, <1>d
  <2>5. faultFile' \in Seq(Nat)
    BY <1>h, <1>e DEF Typed, JobType
  <2>6. records' \in Seq(EntryType) /\ Len(records') <= capacity
    BY <1>h, <1>e, <1>n DEF Typed
  <2>7. job' \in [Threads -> JobType] /\ main' \in Places
    BY <1>h, <1>e, <1>p DEF Typed, Places
  <2>8. /\ open' \subseteq Shared \cup {"pool"} /\ opt' \in Handlers /\ stop' \in BOOLEAN
        /\ poolStop' \in BOOLEAN
    BY <1>h, <1>e DEF Typed
  <2>. QED
    BY <1>c, <2>1, <2>2, <2>3, <2>4, <2>5, <2>6, <2>7, <2>8 DEF Typed
<1>2. JobFits'
  <2>. SUFFICES ASSUME NEW u \in Threads
                 PROVE  /\ at'[u] \in Resting <=> job'[u].kind = "none"
                        /\ at'[u] \in {"predict", "topup"} => job'[u].kind = "demand" /\ opt'.prefetch
                        /\ job'[u].seq <= fault_seq' /\ job'[u].slot <= Len(records')
                        /\ at'[u] = "log" => job'[u].seq > 0
                        /\ at'[u] = "fill" => job'[u].slot > 0
                        /\ HasPool' => job'[u].kind # "inline"
                        /\ u = Handler => job'[u].kind # "prefetch"
    BY DEF JobFits
  <2>0. /\ fault_seq \in Nat /\ Len(records) \in Nat /\ job[u].seq \in Nat /\ job[u].slot \in Nat
    BY <1>h DEF Typed, JobType
  <2>1. CASE u = t
    BY <1>h, <1>e, <1>p, <1>o, <1>j, <2>0, <2>1 DEF JobFits, Resting
  <2>2. CASE u # t
    BY <1>h, <1>e, <1>p, <1>o, <2>0, <2>2 DEF JobFits
  <2>. QED
    BY <2>1, <2>2
<1>3. RecordsSound'
  BY <1>h, <1>e, <1>x, <1>p DEF RecordsSound
<1>4. NumbersSound'
  BY <1>h, <1>e, <1>q, NumbersFrame
<1>5. NumbersOrdered'
  BY <1>h, <1>e, <1>x, <1>p, <1>o, <1>j DEF NumbersOrdered, Threads
<1>6. Counts'
  BY <1>c DEF Counts
<1>7. Flushed'
  BY <1>h, <1>e, <1>x, <1>p DEF Flushed, AfterFlush
<1>. QED
  BY <1>1, <1>2, <1>3, <1>4, <1>5, <1>6, <1>7 DEF TraceInv

\* A fetch carried out is owed a record from then on.
LEMMA FetchKeeps ==
  ASSUME IndInv, TraceInv, NEW t \in Threads, Fetch(t)
  PROVE  TraceInv'
<1>h. /\ Typed /\ JobFits /\ RecordsSound /\ NumbersSound /\ NumbersOrdered /\ Counts
      /\ at \in [Threads -> Labels]
  BY DEF TraceInv, IndInv
<1> DEFINE l == IF job[t].kind = "demand" /\ opt.prefetch THEN "predict" ELSE "reserve"
<1>e. /\ at[t] = "read" /\ job[t] \in JobType
      /\ at' = [at EXCEPT ![t] = l] /\ job' = [job EXCEPT ![t] = job[t]] /\ job' = job
      /\ faults' = IF job[t].kind = "demand" THEN [faults EXCEPT !.waiting = @ - 1] ELSE faults
      /\ fetched' = fetched + 1
      /\ l \in {"predict", "reserve"} /\ (l = "predict" => job[t].kind = "demand" /\ opt.prefetch)
      /\ UNCHANGED <<opt, stop, poolStop, open, main>>
      /\ UNCHANGED <<queued, pf_outstanding, fault_seq, faultFile, records, fetchFile, spent>>
  BY <1>h DEF Fetch, Go, lifeVars, poolVars, Typed
<1>x. main \notin AfterFlush /\ Handler \in Threads
  BY <1>e, HandlerIsThread DEF IndInv, MainWaits, AllExited, Closing, AfterFlush
<1> HIDE DEF l
<1>m. /\ Moves(t, l, job[t]) /\ l \in Labels /\ job[t] \in JobType
      /\ (job[t]).kind = job[t].kind /\ (job[t]).seq = job[t].seq /\ (job[t]).slot = job[t].slot
  BY <1>h, <1>e DEF Moves, Labels, Typed, JobType, NoJob
<1>p. /\ at'[t] = l /\ job'[t].kind = job[t].kind /\ job'[t].seq = job[t].seq
      /\ job'[t].slot = job[t].slot
      /\ \A u \in Threads : u # t => at'[u] = at[u] /\ job'[u] = job[u]
      /\ job' \in [Threads -> JobType] /\ t \in Threads
  BY <1>h, <1>e, <1>m, <1>x DEF Moves, Typed
<1>k. /\ Cardinality(Logging') = Cardinality(Logging)
      /\ Cardinality(Owing') = Cardinality(Owing) + 1
      /\ Cardinality(Nested') = Cardinality(Nested)
      /\ Cardinality(Asked') = Cardinality(Asked) - One(job[t].kind = "demand")
      /\ Cardinality(Ahead') = Cardinality(Ahead)
      /\ CountsAreNumbers /\ CountsAreNumbers'
  <2>1. CountsAfter(t, l, job[t]) /\ CountsAreNumbers /\ CountsAreNumbers'
    BY <1>h, <1>m, <1>p, CountMoves DEF Typed
  <2>. QED
    BY <1>h, <1>e, <1>m, <2>1 DEF CountsAfter, CountsAreNumbers, One
<1>o. HasPool' = HasPool /\ OneNumbers' = OneNumbers
  BY <1>e DEF HasPool, OwnPool, OneNumbers
<1>q. \A u \in Threads : /\ at'[u] = "log" <=> at[u] = "log"
                         /\ at[u] = "log" => job'[u].seq = job[u].seq
  BY <1>e, <1>p
<1>n. /\ faults.raised \in Nat /\ faults.unread \in Nat /\ faults.waiting \in 0..Readers
      /\ queued["demand"] \in Nat /\ queued["prefetch"] \in Nat
      /\ spent.prefetch \in 0..Speculations /\ spent.giveup \in Nat
      /\ fault_seq \in Nat /\ fetched \in Nat /\ pf_outstanding \in Nat
      /\ Len(records) \in Nat /\ Len(faultFile) \in Nat
      /\ capacity \in Nat /\ Readers \in Nat /\ Speculations \in Nat
  BY <1>h, BoundsAssumption DEF Typed
<1>s. /\ faults' = [raised |-> faults.raised, unread |-> faults.unread,
                    waiting |-> faults.waiting - One(job[t].kind = "demand")]
      /\ spent' = [prefetch |-> spent.prefetch, giveup |-> spent.giveup]
  <2>1. faults' = [raised |-> faults.raised, unread |-> faults.unread,
                   waiting |-> faults.waiting - One(job[t].kind = "demand")]
    <3>1. CASE job[t].kind = "demand"
      BY <1>h, <1>e, <1>n, <3>1 DEF Typed, One
    <3>2. CASE job[t].kind # "demand"
      BY <1>h, <1>e, <1>n, <3>2 DEF Typed, One
    <3>. QED
      BY <3>1, <3>2
  <2>2. spent' = [prefetch |-> spent.prefetch, giveup |-> spent.giveup]
    BY <1>h, <1>e, <1>n DEF Typed
  <2>. QED
    BY <2>1, <2>2
<1>d. /\ faults'.unread = faults.unread
      /\ faults'.waiting = faults.waiting - One(job[t].kind = "demand")
      /\ queued'["demand"] = queued["demand"] /\ queued'["prefetch"] = queued["prefetch"]
      /\ spent'.prefetch = spent.prefetch /\ spent'.giveup = spent.giveup
      /\ fault_seq' = fault_seq /\ fetched' = fetched + 1 /\ pf_outstanding' = pf_outstanding
      /\ Len(records') = Len(records) /\ Len(faultFile') = Len(faultFile)
      /\ One(job[t].kind = "demand") \in {0, 1}
  <2>1. /\ faults'.unread = faults.unread
        /\ faults'.waiting = faults.waiting - One(job[t].kind = "demand")
    BY <1>s
  <2>2. queued'["demand"] = queued["demand"] /\ queued'["prefetch"] = queued["prefetch"]
    BY <1>h, <1>e DEF Typed
  <2>3. spent'.prefetch = spent.prefetch /\ spent'.giveup = spent.giveup
    BY <1>s
  <2>4. Len(records') = Len(records) /\ Len(faultFile') = Len(faultFile)
    BY <1>h, <1>e, <1>n DEF Typed, JobType
  <2>. QED
    BY <1>e, <2>1, <2>2, <2>3, <2>4 DEF One
<1>c. /\ fault_seq' = Len(faultFile') + Cardinality(Logging')
      /\ fetched' = Len(records') + Cardinality(Owing') + Cardinality(Nested')
      /\ faults'.waiting = faults'.unread + queued'["demand"] + Cardinality(Asked')
      /\ pf_outstanding' = queued'["prefetch"] + Cardinality(Ahead')
      /\ pf_outstanding' <= spent'.prefetch
      /\ faults'.unread \in Nat /\ faults'.waiting \in 0..Readers /\ pf_outstanding' \in Nat
      /\ spent'.prefetch \in 0..Speculations /\ spent'.giveup \in Nat
      /\ queued'["demand"] \in Nat /\ queued'["prefetch"] \in Nat
  <2>1. fault_seq' = Len(faultFile') + Cardinality(Logging')
    BY <1>h, <1>k, <1>d DEF Counts
  <2>2a. fetched \in Nat /\ Len(records) \in Nat
    BY <1>n
  <2>2n. /\ Cardinality(Owing) \in Nat /\ Cardinality(Owing') \in Nat
         /\ Cardinality(Nested) \in Nat /\ Cardinality(Nested') \in Nat
    BY <1>k DEF CountsAreNumbers
  <2>2b. /\ fetched = Len(records) + Cardinality(Owing) + Cardinality(Nested)
         /\ Cardinality(Owing') = Cardinality(Owing) + 1
         /\ Cardinality(Nested') = Cardinality(Nested) /\ fetched' = fetched + 1
         /\ Len(records') = Len(records)
    BY <1>h, <1>k, <1>d DEF Counts
  <2>2. fetched' = Len(records') + Cardinality(Owing') + Cardinality(Nested')
    BY <2>2a, <2>2n, <2>2b
  <2>3. faults'.unread \in Nat /\ queued'["demand"] \in Nat /\ queued'["prefetch"] \in Nat
    BY <1>n, <1>d
  <2>4a. faults.waiting \in Nat /\ faults.unread \in Nat /\ queued["demand"] \in Nat
    BY <1>n
  <2>4n. Cardinality(Asked) \in Nat /\ Cardinality(Asked') \in Nat
    BY <1>k DEF CountsAreNumbers
  <2>4b. /\ faults.waiting = faults.unread + queued["demand"] + Cardinality(Asked)
         /\ Cardinality(Asked') = Cardinality(Asked) - One(job[t].kind = "demand")
         /\ faults'.unread = faults.unread
         /\ faults'.waiting = faults.waiting - One(job[t].kind = "demand")
         /\ queued'["demand"] = queued["demand"]
    BY <1>h, <1>k, <1>d DEF Counts
  <2>4c. One(job[t].kind = "demand") \in {0, 1}
    BY <1>d
  <2>4. faults'.waiting = faults'.unread + queued'["demand"] + Cardinality(Asked')
    BY <2>4a, <2>4n, <2>4b, <2>4c
  <2>5a. Cardinality(Asked') \in Nat /\ faults.waiting \in 0..Readers /\ Readers \in Nat
    BY <1>n, <1>k DEF CountsAreNumbers
  <2>5. faults'.waiting \in 0..Readers
    BY <2>3, <2>4, <2>4a, <2>4n, <2>4b, <2>4c, <2>5a
  <2>6. spent'.prefetch \in 0..Speculations /\ spent'.giveup \in Nat
    BY <1>n, <1>d
  <2>7. /\ pf_outstanding' = queued'["prefetch"] + Cardinality(Ahead')
        /\ pf_outstanding' <= spent'.prefetch
    BY <1>h, <1>k, <1>d DEF Counts
  <2>8. pf_outstanding' \in Nat
    BY <1>n, <1>d
  <2>. QED
    BY <2>1, <2>2, <2>3, <2>4, <2>5, <2>6, <2>7, <2>8
<1>1. Typed'
  <2>1a. faults.raised \in Nat
    BY <1>n
  <2>1. faults' \in [raised : Nat, unread : Nat, waiting : 0..Readers]
    BY <1>s, <1>c, <1>d, <2>1a
  <2>2. queued' \in [{"demand", "prefetch"} -> Nat]
    BY <1>h, <1>e, <1>c DEF Typed
  <2>3. spent' \in [prefetch : 0..Speculations, giveup : Nat]
    BY <1>s, <1>c, <1>d
  <2>4. fault_seq' \in Nat /\ fetched' \in Nat
    BY <1>n, <1>d
  <2>5. faultFile' \in Seq(Nat)
    BY <1>h, <1>e DEF Typed, JobType
  <2>6. records' \in Seq(EntryType) /\ Len(records') <= capacity
    BY <1>h, <1>e, <1>n DEF Typed
  <2>7. job' \in [Threads -> JobType] /\ main' \in Places
    BY <1>h, <1>e, <1>p DEF Typed, Places
  <2>8. /\ open' \subseteq Shared \cup {"pool"} /\ opt' \in Handlers /\ stop' \in BOOLEAN
        /\ poolStop' \in BOOLEAN
    BY <1>h, <1>e DEF Typed
  <2>. QED
    BY <1>c, <2>1, <2>2, <2>3, <2>4, <2>5, <2>6, <2>7, <2>8 DEF Typed
<1>2. JobFits'
  <2>. SUFFICES ASSUME NEW u \in Threads
                 PROVE  /\ at'[u] \in Resting <=> job'[u].kind = "none"
                        /\ at'[u] \in {"predict", "topup"} => job'[u].kind = "demand" /\ opt'.prefetch
                        /\ job'[u].seq <= fault_seq' /\ job'[u].slot <= Len(records')
                        /\ at'[u] = "log" => job'[u].seq > 0
                        /\ at'[u] = "fill" => job'[u].slot > 0
                        /\ HasPool' => job'[u].kind # "inline"
                        /\ u = Handler => job'[u].kind # "prefetch"
    BY DEF JobFits
  <2>0. /\ fault_seq \in Nat /\ Len(records) \in Nat /\ job[u].seq \in Nat /\ job[u].slot \in Nat
    BY <1>h DEF Typed, JobType
  <2>1. CASE u = t
    BY <1>h, <1>e, <1>p, <1>o, <2>0, <2>1 DEF JobFits, Resting
  <2>2. CASE u # t
    BY <1>h, <1>e, <1>p, <1>o, <2>0, <2>2 DEF JobFits
  <2>. QED
    BY <2>1, <2>2
<1>3. RecordsSound'
  BY <1>h, <1>e, <1>x, <1>p DEF RecordsSound
<1>4. NumbersSound'
  BY <1>h, <1>e, <1>q, NumbersFrame
<1>5. NumbersOrdered'
  BY <1>h, <1>e, <1>x, <1>p, <1>o DEF NumbersOrdered, Threads
<1>6. Counts'
  BY <1>c DEF Counts
<1>7. Flushed'
  BY <1>h, <1>e, <1>x, <1>p DEF Flushed, AfterFlush
<1>. QED
  BY <1>1, <1>2, <1>3, <1>4, <1>5, <1>6, <1>7 DEF TraceInv

\* What is missing is read, or nothing is predicted and the record comes next.
LEMMA NoPredictionKeeps ==
  ASSUME IndInv, TraceInv, NEW t \in Threads, NoPrediction(t) \/ ReadNeed(t)
  PROVE  TraceInv'
<1>h. /\ Typed /\ JobFits /\ RecordsSound /\ NumbersSound /\ NumbersOrdered /\ Counts
      /\ at \in [Threads -> Labels]
  BY DEF TraceInv, IndInv
<1>0. PICK l \in {"topup", "reserve"} : at' = [at EXCEPT ![t] = l]
  BY DEF NoPrediction, ReadNeed, Go
<1>e. /\ at[t] \in {"predict", "topup"} /\ job[t] \in JobType
      /\ at' = [at EXCEPT ![t] = l] /\ job' = [job EXCEPT ![t] = job[t]] /\ job' = job
      /\ UNCHANGED <<opt, stop, poolStop, open, main>>
      /\ UNCHANGED <<faults, queued, pf_outstanding, fault_seq, faultFile, records, fetched, fetchFile, spent>>
  BY <1>h, <1>0 DEF NoPrediction, ReadNeed, Typed, Go, lifeVars, poolVars, traceVars
<1>x. main \notin AfterFlush /\ Handler \in Threads
  BY <1>e, HandlerIsThread DEF IndInv, MainWaits, AllExited, Closing, AfterFlush
<1>m. /\ Moves(t, l, job[t]) /\ l \in Labels /\ job[t] \in JobType
      /\ (job[t]).kind = job[t].kind /\ (job[t]).seq = job[t].seq /\ (job[t]).slot = job[t].slot
  BY <1>h, <1>e DEF Moves, Labels, Typed, JobType, NoJob
<1>p. /\ at'[t] = l /\ job'[t].kind = job[t].kind /\ job'[t].seq = job[t].seq
      /\ job'[t].slot = job[t].slot
      /\ \A u \in Threads : u # t => at'[u] = at[u] /\ job'[u] = job[u]
      /\ job' \in [Threads -> JobType] /\ t \in Threads
  BY <1>h, <1>e, <1>m, <1>x DEF Moves, Typed
<1>k. /\ Cardinality(Logging') = Cardinality(Logging)
      /\ Cardinality(Owing') = Cardinality(Owing)
      /\ Cardinality(Nested') = Cardinality(Nested)
      /\ Cardinality(Asked') = Cardinality(Asked)
      /\ Cardinality(Ahead') = Cardinality(Ahead)
      /\ CountsAreNumbers /\ CountsAreNumbers'
  <2>1. CountsAfter(t, l, job[t]) /\ CountsAreNumbers /\ CountsAreNumbers'
    BY <1>h, <1>m, <1>p, CountMoves DEF Typed
  <2>. QED
    BY <1>h, <1>e, <1>m, <2>1 DEF CountsAfter, CountsAreNumbers, One
<1>o. HasPool' = HasPool /\ OneNumbers' = OneNumbers
  BY <1>e DEF HasPool, OwnPool, OneNumbers
<1>q. \A u \in Threads : /\ at'[u] = "log" <=> at[u] = "log"
                         /\ at[u] = "log" => job'[u].seq = job[u].seq
  BY <1>e, <1>p
<1>1. Typed'
  BY <1>h, <1>e, <1>p DEF Typed, Places
<1>2. JobFits'
  <2>. SUFFICES ASSUME NEW u \in Threads
                 PROVE  /\ at'[u] \in Resting <=> job'[u].kind = "none"
                        /\ at'[u] \in {"predict", "topup"} => job'[u].kind = "demand" /\ opt'.prefetch
                        /\ job'[u].seq <= fault_seq' /\ job'[u].slot <= Len(records')
                        /\ at'[u] = "log" => job'[u].seq > 0
                        /\ at'[u] = "fill" => job'[u].slot > 0
                        /\ HasPool' => job'[u].kind # "inline"
                        /\ u = Handler => job'[u].kind # "prefetch"
    BY DEF JobFits
  <2>0. /\ fault_seq \in Nat /\ Len(records) \in Nat /\ job[u].seq \in Nat /\ job[u].slot \in Nat
    BY <1>h DEF Typed, JobType
  <2>1. CASE u = t
    BY <1>h, <1>e, <1>p, <1>o, <2>0, <2>1 DEF JobFits, Resting
  <2>2. CASE u # t
    BY <1>h, <1>e, <1>p, <1>o, <2>0, <2>2 DEF JobFits
  <2>. QED
    BY <2>1, <2>2
<1>3. RecordsSound'
  BY <1>h, <1>e, <1>x, <1>p DEF RecordsSound
<1>4. NumbersSound'
  BY <1>h, <1>e, <1>q, NumbersFrame
<1>5. NumbersOrdered'
  BY <1>h, <1>e, <1>x, <1>p, <1>o DEF NumbersOrdered, Threads
<1>6. Counts'
  BY <1>h, <1>e, <1>k DEF Counts
<1>7. Flushed'
  BY <1>h, <1>e, <1>x, <1>p DEF Flushed, AfterFlush
<1>. QED
  BY <1>1, <1>2, <1>3, <1>4, <1>5, <1>6, <1>7 DEF TraceInv

\* A prefetch is queued, and counted.
LEMMA TopUpKeeps ==
  ASSUME IndInv, TraceInv, NEW t \in Threads, TopUp(t)
  PROVE  TraceInv'
<1>h. /\ Typed /\ JobFits /\ RecordsSound /\ NumbersSound /\ NumbersOrdered /\ Counts
      /\ at \in [Threads -> Labels]
  BY DEF TraceInv, IndInv
<1>e. /\ at[t] = "topup" /\ opt.prefetch /\ at' = at /\ job' = job
      /\ queued' = [queued EXCEPT !["prefetch"] = @ + 1] /\ pf_outstanding' = pf_outstanding + 1
      /\ spent.prefetch < Speculations /\ spent' = [spent EXCEPT !.prefetch = @ + 1]
      /\ UNCHANGED <<opt, stop, poolStop, open, main>>
      /\ UNCHANGED <<faults, fault_seq, faultFile, records, fetched, fetchFile>>
  BY <1>h DEF TopUp, JobFits, lifeVars, traceVars
<1>x. main \notin AfterFlush /\ Handler \in Threads
  BY <1>e, HandlerIsThread DEF IndInv, MainWaits, AllExited, Closing, AfterFlush
<1>p. at' = at /\ job' = job
  BY <1>e
<1>k. /\ Logging' = Logging
      /\ Owing' = Owing
      /\ Nested' = Nested
      /\ Asked' = Asked
      /\ Ahead' = Ahead
      /\ CountsAreNumbers
  BY <1>p, CountsExist DEF Logging, Owing, Nested, Asked, Ahead
<1>o. HasPool' = HasPool /\ OneNumbers' = OneNumbers
  BY <1>e DEF HasPool, OwnPool, OneNumbers
<1>q. \A u \in Threads : /\ at'[u] = "log" <=> at[u] = "log"
                         /\ at[u] = "log" => job'[u].seq = job[u].seq
  BY <1>e, <1>p
<1>n. /\ faults.raised \in Nat /\ faults.unread \in Nat /\ faults.waiting \in 0..Readers
      /\ queued["demand"] \in Nat /\ queued["prefetch"] \in Nat
      /\ spent.prefetch \in 0..Speculations /\ spent.giveup \in Nat
      /\ fault_seq \in Nat /\ fetched \in Nat /\ pf_outstanding \in Nat
      /\ Len(records) \in Nat /\ Len(faultFile) \in Nat
      /\ capacity \in Nat /\ Readers \in Nat /\ Speculations \in Nat
  BY <1>h, BoundsAssumption DEF Typed
<1>s. /\ faults' = [raised |-> faults.raised, unread |-> faults.unread,
                    waiting |-> faults.waiting]
      /\ spent' = [prefetch |-> spent.prefetch + 1, giveup |-> spent.giveup]
  <2>1. faults' = [raised |-> faults.raised, unread |-> faults.unread, waiting |-> faults.waiting]
    BY <1>h, <1>e, <1>n DEF Typed
  <2>2. spent' = [prefetch |-> spent.prefetch + 1, giveup |-> spent.giveup]
    BY <1>h, <1>e, <1>n DEF Typed
  <2>. QED
    BY <2>1, <2>2
<1>d. /\ faults'.unread = faults.unread /\ faults'.waiting = faults.waiting
      /\ queued'["demand"] = queued["demand"] /\ queued'["prefetch"] = queued["prefetch"] + 1
      /\ spent'.prefetch = spent.prefetch + 1 /\ spent'.giveup = spent.giveup
      /\ fault_seq' = fault_seq /\ fetched' = fetched /\ pf_outstanding' = pf_outstanding + 1
      /\ Len(records') = Len(records) /\ Len(faultFile') = Len(faultFile)
  <2>1. faults'.unread = faults.unread /\ faults'.waiting = faults.waiting
    BY <1>s
  <2>2. queued'["demand"] = queued["demand"] /\ queued'["prefetch"] = queued["prefetch"] + 1
    BY <1>h, <1>e DEF Typed
  <2>3. spent'.prefetch = spent.prefetch + 1 /\ spent'.giveup = spent.giveup
    BY <1>s
  <2>4. Len(records') = Len(records) /\ Len(faultFile') = Len(faultFile)
    BY <1>h, <1>e, <1>n DEF Typed, JobType
  <2>. QED
    BY <1>e, <2>1, <2>2, <2>3, <2>4 DEF One
<1>c. /\ fault_seq' = Len(faultFile') + Cardinality(Logging')
      /\ fetched' = Len(records') + Cardinality(Owing') + Cardinality(Nested')
      /\ faults'.waiting = faults'.unread + queued'["demand"] + Cardinality(Asked')
      /\ pf_outstanding' = queued'["prefetch"] + Cardinality(Ahead')
      /\ pf_outstanding' <= spent'.prefetch
      /\ faults'.unread \in Nat /\ faults'.waiting \in 0..Readers /\ pf_outstanding' \in Nat
      /\ spent'.prefetch \in 0..Speculations /\ spent'.giveup \in Nat
      /\ queued'["demand"] \in Nat /\ queued'["prefetch"] \in Nat
  <2>1. fault_seq' = Len(faultFile') + Cardinality(Logging')
    BY <1>h, <1>k, <1>d DEF Counts
  <2>2. fetched' = Len(records') + Cardinality(Owing') + Cardinality(Nested')
    BY <1>h, <1>k, <1>d DEF Counts
  <2>3. faults'.unread \in Nat /\ queued'["demand"] \in Nat /\ queued'["prefetch"] \in Nat
    BY <1>n, <1>d
  <2>4. faults'.waiting = faults'.unread + queued'["demand"] + Cardinality(Asked')
    BY <1>h, <1>k, <1>d DEF Counts
  <2>5. faults'.waiting \in 0..Readers
    BY <1>n, <1>d
  <2>6a. spent.prefetch < Speculations
    BY <1>e
  <2>6b. spent.prefetch \in 0..Speculations /\ spent.giveup \in Nat /\ Speculations \in Nat
    BY <1>n
  <2>6c. spent'.prefetch = spent.prefetch + 1 /\ spent'.giveup = spent.giveup
    BY <1>d
  <2>6. spent'.prefetch \in 0..Speculations /\ spent'.giveup \in Nat
    BY <2>6a, <2>6b, <2>6c
  <2>7a. pf_outstanding \in Nat /\ queued["prefetch"] \in Nat /\ spent.prefetch \in Nat
    BY <1>n
  <2>7n. Cardinality(Ahead) \in Nat /\ Cardinality(Ahead') \in Nat
    BY <1>k DEF CountsAreNumbers
  <2>7b. /\ pf_outstanding = queued["prefetch"] + Cardinality(Ahead)
         /\ pf_outstanding <= spent.prefetch /\ Cardinality(Ahead') = Cardinality(Ahead)
         /\ pf_outstanding' = pf_outstanding + 1
         /\ queued'["prefetch"] = queued["prefetch"] + 1
         /\ spent'.prefetch = spent.prefetch + 1
    BY <1>h, <1>k, <1>d DEF Counts
  <2>7. /\ pf_outstanding' = queued'["prefetch"] + Cardinality(Ahead')
        /\ pf_outstanding' <= spent'.prefetch
    BY <2>7a, <2>7n, <2>7b
  <2>8. pf_outstanding' \in Nat
    BY <2>3, <2>7, <2>7n
  <2>. QED
    BY <2>1, <2>2, <2>3, <2>4, <2>5, <2>6, <2>7, <2>8
<1>1. Typed'
  <2>1a. faults.raised \in Nat
    BY <1>n
  <2>1. faults' \in [raised : Nat, unread : Nat, waiting : 0..Readers]
    BY <1>s, <1>c, <1>d, <2>1a
  <2>2. queued' \in [{"demand", "prefetch"} -> Nat]
    BY <1>h, <1>e, <1>c DEF Typed
  <2>3. spent' \in [prefetch : 0..Speculations, giveup : Nat]
    BY <1>s, <1>c, <1>d
  <2>4. fault_seq' \in Nat /\ fetched' \in Nat
    BY <1>n, <1>d
  <2>5. faultFile' \in Seq(Nat)
    BY <1>h, <1>e DEF Typed, JobType
  <2>6. records' \in Seq(EntryType) /\ Len(records') <= capacity
    BY <1>h, <1>e, <1>n DEF Typed
  <2>7. job' \in [Threads -> JobType] /\ main' \in Places
    BY <1>h, <1>e, <1>p DEF Typed, Places
  <2>8. /\ open' \subseteq Shared \cup {"pool"} /\ opt' \in Handlers /\ stop' \in BOOLEAN
        /\ poolStop' \in BOOLEAN
    BY <1>h, <1>e DEF Typed
  <2>. QED
    BY <1>c, <2>1, <2>2, <2>3, <2>4, <2>5, <2>6, <2>7, <2>8 DEF Typed
<1>2. JobFits'
  BY <1>h, <1>e, <1>x, <1>p, <1>o DEF JobFits, Typed, JobType, Resting
<1>3. RecordsSound'
  BY <1>h, <1>e, <1>x, <1>p DEF RecordsSound
<1>4. NumbersSound'
  BY <1>h, <1>e, <1>q, NumbersFrame
<1>5. NumbersOrdered'
  BY <1>h, <1>e, <1>x, <1>p, <1>o DEF NumbersOrdered, Threads
<1>6. Counts'
  BY <1>c DEF Counts
<1>7. Flushed'
  BY <1>h, <1>e, <1>x, <1>p DEF Flushed, AfterFlush
<1>. QED
  BY <1>1, <1>2, <1>3, <1>4, <1>5, <1>6, <1>7 DEF TraceInv

\* The handler fetches what it predicts before it records its own fetch.
LEMMA PrefetchInlineKeeps ==
  ASSUME IndInv, TraceInv, PrefetchInline(Handler)
  PROVE  TraceInv'
<1>h. /\ Typed /\ JobFits /\ RecordsSound /\ NumbersSound /\ NumbersOrdered /\ Counts
      /\ at \in [Threads -> Labels]
  BY DEF TraceInv, IndInv
<1>e. /\ at[Handler] = "predict" /\ ~ HasPool /\ job[Handler] \in JobType
      /\ job[Handler].kind = "demand"
      /\ at' = [at EXCEPT ![Handler] = "stamp"]
      /\ job' = [job EXCEPT ![Handler] = [NoJob EXCEPT !.kind = "inline"]]
      /\ spent.prefetch < Speculations /\ spent' = [spent EXCEPT !.prefetch = @ + 1]
      /\ UNCHANGED <<opt, stop, poolStop, open, main>>
      /\ UNCHANGED <<faults, queued, pf_outstanding, fault_seq, faultFile, records, fetched, fetchFile>>
  BY <1>h, HandlerIsThread DEF PrefetchInline, JobFits, Typed, Go, lifeVars,
     poolVars, traceVars
<1>x. main \notin AfterFlush /\ Handler \in Threads
  BY <1>e, HandlerIsThread DEF IndInv, MainWaits, AllExited, Closing, AfterFlush
<1>m. /\ Moves(Handler, "stamp", [NoJob EXCEPT !.kind = "inline"]) /\ "stamp" \in Labels
      /\ [NoJob EXCEPT !.kind = "inline"] \in JobType
      /\ ([NoJob EXCEPT !.kind = "inline"]).kind = "inline"
      /\ ([NoJob EXCEPT !.kind = "inline"]).seq = 0
      /\ ([NoJob EXCEPT !.kind = "inline"]).slot = 0
  BY <1>h, <1>e DEF Moves, Labels, Typed, JobType, NoJob
<1>p. /\ at'[Handler] = "stamp" /\ job'[Handler].kind = "inline" /\ job'[Handler].seq = 0
      /\ job'[Handler].slot = 0
      /\ \A u \in Threads : u # Handler => at'[u] = at[u] /\ job'[u] = job[u]
      /\ job' \in [Threads -> JobType] /\ Handler \in Threads
  BY <1>h, <1>e, <1>m, <1>x DEF Moves, Typed
<1>k. /\ Cardinality(Logging') = Cardinality(Logging)
      /\ Cardinality(Owing') = Cardinality(Owing) - 1
      /\ Cardinality(Nested') = Cardinality(Nested) + 1
      /\ Cardinality(Asked') = Cardinality(Asked)
      /\ Cardinality(Ahead') = Cardinality(Ahead)
      /\ CountsAreNumbers /\ CountsAreNumbers'
  <2>1. /\ CountsAfter(Handler, "stamp", [NoJob EXCEPT !.kind = "inline"])
        /\ CountsAreNumbers /\ CountsAreNumbers'
    BY <1>h, <1>m, <1>p, CountMoves DEF Typed
  <2>. QED
    BY <1>h, <1>e, <1>m, <2>1 DEF CountsAfter, CountsAreNumbers, One
<1>o. HasPool' = HasPool /\ OneNumbers' = OneNumbers
  BY <1>e DEF HasPool, OwnPool, OneNumbers
<1>q. \A u \in Threads : /\ at'[u] = "log" <=> at[u] = "log"
                         /\ at[u] = "log" => job'[u].seq = job[u].seq
  BY <1>e, <1>p
<1>n. /\ faults.raised \in Nat /\ faults.unread \in Nat /\ faults.waiting \in 0..Readers
      /\ queued["demand"] \in Nat /\ queued["prefetch"] \in Nat
      /\ spent.prefetch \in 0..Speculations /\ spent.giveup \in Nat
      /\ fault_seq \in Nat /\ fetched \in Nat /\ pf_outstanding \in Nat
      /\ Len(records) \in Nat /\ Len(faultFile) \in Nat
      /\ capacity \in Nat /\ Readers \in Nat /\ Speculations \in Nat
  BY <1>h, BoundsAssumption DEF Typed
<1>s. /\ faults' = [raised |-> faults.raised, unread |-> faults.unread,
                    waiting |-> faults.waiting]
      /\ spent' = [prefetch |-> spent.prefetch + 1, giveup |-> spent.giveup]
  <2>1. faults' = [raised |-> faults.raised, unread |-> faults.unread, waiting |-> faults.waiting]
    BY <1>h, <1>e, <1>n DEF Typed
  <2>2. spent' = [prefetch |-> spent.prefetch + 1, giveup |-> spent.giveup]
    BY <1>h, <1>e, <1>n DEF Typed
  <2>. QED
    BY <2>1, <2>2
<1>d. /\ faults'.unread = faults.unread /\ faults'.waiting = faults.waiting
      /\ queued'["demand"] = queued["demand"] /\ queued'["prefetch"] = queued["prefetch"]
      /\ spent'.prefetch = spent.prefetch + 1 /\ spent'.giveup = spent.giveup
      /\ fault_seq' = fault_seq /\ fetched' = fetched /\ pf_outstanding' = pf_outstanding
      /\ Len(records') = Len(records) /\ Len(faultFile') = Len(faultFile)
  <2>1. faults'.unread = faults.unread /\ faults'.waiting = faults.waiting
    BY <1>s
  <2>2. queued'["demand"] = queued["demand"] /\ queued'["prefetch"] = queued["prefetch"]
    BY <1>h, <1>e DEF Typed
  <2>3. spent'.prefetch = spent.prefetch + 1 /\ spent'.giveup = spent.giveup
    BY <1>s
  <2>4. Len(records') = Len(records) /\ Len(faultFile') = Len(faultFile)
    BY <1>h, <1>e, <1>n DEF Typed, JobType
  <2>. QED
    BY <1>e, <2>1, <2>2, <2>3, <2>4 DEF One
<1>c. /\ fault_seq' = Len(faultFile') + Cardinality(Logging')
      /\ fetched' = Len(records') + Cardinality(Owing') + Cardinality(Nested')
      /\ faults'.waiting = faults'.unread + queued'["demand"] + Cardinality(Asked')
      /\ pf_outstanding' = queued'["prefetch"] + Cardinality(Ahead')
      /\ pf_outstanding' <= spent'.prefetch
      /\ faults'.unread \in Nat /\ faults'.waiting \in 0..Readers /\ pf_outstanding' \in Nat
      /\ spent'.prefetch \in 0..Speculations /\ spent'.giveup \in Nat
      /\ queued'["demand"] \in Nat /\ queued'["prefetch"] \in Nat
  <2>1. fault_seq' = Len(faultFile') + Cardinality(Logging')
    BY <1>h, <1>k, <1>d DEF Counts
  <2>2a. fetched \in Nat /\ Len(records) \in Nat
    BY <1>n
  <2>2n. /\ Cardinality(Owing) \in Nat /\ Cardinality(Owing') \in Nat
         /\ Cardinality(Nested) \in Nat /\ Cardinality(Nested') \in Nat
    BY <1>k DEF CountsAreNumbers
  <2>2b. /\ fetched = Len(records) + Cardinality(Owing) + Cardinality(Nested)
         /\ Cardinality(Owing') = Cardinality(Owing) - 1
         /\ Cardinality(Nested') = Cardinality(Nested) + 1 /\ fetched' = fetched
         /\ Len(records') = Len(records)
    BY <1>h, <1>k, <1>d DEF Counts
  <2>2. fetched' = Len(records') + Cardinality(Owing') + Cardinality(Nested')
    BY <2>2a, <2>2n, <2>2b
  <2>3. faults'.unread \in Nat /\ queued'["demand"] \in Nat /\ queued'["prefetch"] \in Nat
    BY <1>n, <1>d
  <2>4. faults'.waiting = faults'.unread + queued'["demand"] + Cardinality(Asked')
    BY <1>h, <1>k, <1>d DEF Counts
  <2>5. faults'.waiting \in 0..Readers
    BY <1>n, <1>d
  <2>6a. spent.prefetch < Speculations
    BY <1>e
  <2>6b. spent.prefetch \in 0..Speculations /\ spent.giveup \in Nat /\ Speculations \in Nat
    BY <1>n
  <2>6c. spent'.prefetch = spent.prefetch + 1 /\ spent'.giveup = spent.giveup
    BY <1>d
  <2>6. spent'.prefetch \in 0..Speculations /\ spent'.giveup \in Nat
    BY <2>6a, <2>6b, <2>6c
  <2>7a. pf_outstanding \in Nat /\ queued["prefetch"] \in Nat /\ spent.prefetch \in Nat
    BY <1>n
  <2>7n. Cardinality(Ahead) \in Nat /\ Cardinality(Ahead') \in Nat
    BY <1>k DEF CountsAreNumbers
  <2>7b. /\ pf_outstanding = queued["prefetch"] + Cardinality(Ahead)
         /\ pf_outstanding <= spent.prefetch /\ Cardinality(Ahead') = Cardinality(Ahead)
         /\ pf_outstanding' = pf_outstanding /\ queued'["prefetch"] = queued["prefetch"]
         /\ spent'.prefetch = spent.prefetch + 1
    BY <1>h, <1>k, <1>d DEF Counts
  <2>7. /\ pf_outstanding' = queued'["prefetch"] + Cardinality(Ahead')
        /\ pf_outstanding' <= spent'.prefetch
    BY <2>7a, <2>7n, <2>7b
  <2>8. pf_outstanding' \in Nat
    BY <1>n, <1>d
  <2>. QED
    BY <2>1, <2>2, <2>3, <2>4, <2>5, <2>6, <2>7, <2>8
<1>1. Typed'
  <2>1a. faults.raised \in Nat
    BY <1>n
  <2>1. faults' \in [raised : Nat, unread : Nat, waiting : 0..Readers]
    BY <1>s, <1>c, <1>d, <2>1a
  <2>2. queued' \in [{"demand", "prefetch"} -> Nat]
    BY <1>h, <1>e, <1>c DEF Typed
  <2>3. spent' \in [prefetch : 0..Speculations, giveup : Nat]
    BY <1>s, <1>c, <1>d
  <2>4. fault_seq' \in Nat /\ fetched' \in Nat
    BY <1>n, <1>d
  <2>5. faultFile' \in Seq(Nat)
    BY <1>h, <1>e DEF Typed, JobType
  <2>6. records' \in Seq(EntryType) /\ Len(records') <= capacity
    BY <1>h, <1>e, <1>n DEF Typed
  <2>7. job' \in [Threads -> JobType] /\ main' \in Places
    BY <1>h, <1>e, <1>p DEF Typed, Places
  <2>8. /\ open' \subseteq Shared \cup {"pool"} /\ opt' \in Handlers /\ stop' \in BOOLEAN
        /\ poolStop' \in BOOLEAN
    BY <1>h, <1>e DEF Typed
  <2>. QED
    BY <1>c, <2>1, <2>2, <2>3, <2>4, <2>5, <2>6, <2>7, <2>8 DEF Typed
<1>2. JobFits'
  <2>. SUFFICES ASSUME NEW u \in Threads
                 PROVE  /\ at'[u] \in Resting <=> job'[u].kind = "none"
                        /\ at'[u] \in {"predict", "topup"} => job'[u].kind = "demand" /\ opt'.prefetch
                        /\ job'[u].seq <= fault_seq' /\ job'[u].slot <= Len(records')
                        /\ at'[u] = "log" => job'[u].seq > 0
                        /\ at'[u] = "fill" => job'[u].slot > 0
                        /\ HasPool' => job'[u].kind # "inline"
                        /\ u = Handler => job'[u].kind # "prefetch"
    BY DEF JobFits
  <2>0. /\ fault_seq \in Nat /\ Len(records) \in Nat /\ job[u].seq \in Nat /\ job[u].slot \in Nat
    BY <1>h DEF Typed, JobType
  <2>1. CASE u = Handler
    BY <1>h, <1>e, <1>p, <1>o, <2>0, <2>1 DEF JobFits, Resting
  <2>2. CASE u # Handler
    BY <1>h, <1>e, <1>p, <1>o, <2>0, <2>2 DEF JobFits
  <2>. QED
    BY <2>1, <2>2
<1>3. RecordsSound'
  BY <1>h, <1>e, <1>x, <1>p DEF RecordsSound
<1>4. NumbersSound'
  BY <1>h, <1>e, <1>q, NumbersFrame
<1>5. NumbersOrdered'
  BY <1>h, <1>e, <1>x, <1>p, <1>o, WorkersAssumption DEF NumbersOrdered, Threads
<1>6. Counts'
  BY <1>c DEF Counts
<1>7. Flushed'
  BY <1>h, <1>e, <1>x, <1>p DEF Flushed, AfterFlush
<1>. QED
  BY <1>1, <1>2, <1>3, <1>4, <1>5, <1>6, <1>7 DEF TraceInv

\* The record owed is taken, and its slot is in the hand of its thread.
LEMMA ReserveRecordKeeps ==
  ASSUME IndInv, TraceInv, NEW t \in Threads, ReserveRecord(t), Len(records) < capacity
  PROVE  TraceInv'
<1>h. /\ Typed /\ JobFits /\ RecordsSound /\ NumbersSound /\ NumbersOrdered /\ Counts
      /\ at \in [Threads -> Labels]
  BY DEF TraceInv, IndInv
<1> DEFINE j == [job[t] EXCEPT !.slot = Slot]
<1>e. /\ at[t] = "reserve" /\ job[t] \in JobType /\ job[t].kind # "none" /\ Slot \in Nat
      /\ Slot = Len(records) + 1
      /\ at' = [at EXCEPT ![t] = "fill"] /\ job' = [job EXCEPT ![t] = j]
      /\ records' = [n \in 1..Slot |-> IF n = Slot THEN Record(n) ELSE records[n]]
      /\ UNCHANGED <<opt, stop, poolStop, open, main>>
      /\ UNCHANGED <<faults, queued, pf_outstanding, fault_seq, faultFile, fetched, fetchFile, spent>>
      /\ Len(records) < capacity
  <2>1. at[t] = "reserve" /\ job[t] \in JobType /\ job[t].kind # "none"
    BY <1>h DEF ReserveRecord, Typed, JobFits, Resting
  <2>2. Slot \in Nat /\ Slot = Len(records) + 1
    BY <1>h DEF Slot, Typed
  <2>. QED
    BY <2>1, <2>2 DEF ReserveRecord, Go, lifeVars, poolVars
<1>x. main \notin AfterFlush /\ Handler \in Threads
  BY <1>e, HandlerIsThread DEF IndInv, MainWaits, AllExited, Closing, AfterFlush
<1>j. j \in JobType /\ j.kind = job[t].kind /\ j.seq = job[t].seq /\ j.slot = Slot
  <2>1. j = [kind |-> job[t].kind, seq |-> job[t].seq, slot |-> Slot]
    BY <1>e DEF JobType
  <2>. QED
    BY <1>e, <2>1 DEF JobType
<1> HIDE DEF j
<1>r. /\ records' \in Seq(EntryType) /\ Len(records') = Slot
      /\ records'[Slot] = Record(Slot) /\ \A n \in 1..Len(records) : records'[n] = records[n]
  <2>1. Record(Slot) \in EntryType
    BY <1>e DEF Record, EntryType
  <2>2. \A n \in 1..Slot : n = Slot \/ n \in 1..Len(records)
    BY <1>h, <1>e DEF Typed
  <2>3. \A n \in 1..Len(records) : records[n] \in EntryType /\ n # Slot /\ n \in 1..Slot
    BY <1>h, <1>e DEF Typed
  <2>4. Slot \in 1..Slot
    BY <1>h, <1>e DEF Typed
  <2>5. records' \in [1..Slot -> EntryType]
    BY <1>e, <2>1, <2>2, <2>3
  <2>6. records' \in Seq(EntryType) /\ Len(records') = Slot
    BY <1>e, <2>5
  <2>. QED
    BY <1>e, <2>3, <2>4, <2>6
<1>m. /\ Moves(t, "fill", j) /\ "fill" \in Labels /\ j \in JobType
      /\ j.kind = (job[t].kind) /\ j.seq = job[t].seq /\ j.slot = Slot
  BY <1>e, <1>j DEF Moves, Labels
<1>p. /\ at'[t] = "fill" /\ job'[t].kind = job[t].kind /\ job'[t].seq = job[t].seq
      /\ job'[t].slot = Slot
      /\ \A u \in Threads : u # t => at'[u] = at[u] /\ job'[u] = job[u]
      /\ job' \in [Threads -> JobType] /\ t \in Threads
  BY <1>h, <1>e, <1>m, <1>x DEF Moves, Typed
<1>k. /\ Cardinality(Logging') = Cardinality(Logging)
      /\ Cardinality(Owing') = Cardinality(Owing) - 1
      /\ Cardinality(Nested') = Cardinality(Nested)
      /\ Cardinality(Asked') = Cardinality(Asked)
      /\ Cardinality(Ahead') = Cardinality(Ahead)
      /\ CountsAreNumbers /\ CountsAreNumbers'
  <2>1. CountsAfter(t, "fill", j) /\ CountsAreNumbers /\ CountsAreNumbers'
    BY <1>h, <1>m, <1>p, CountMoves DEF Typed
  <2>. QED
    BY <1>h, <1>e, <1>m, <2>1 DEF CountsAfter, CountsAreNumbers, One
<1>o. HasPool' = HasPool /\ OneNumbers' = OneNumbers
  BY <1>e DEF HasPool, OwnPool, OneNumbers
<1>q. \A u \in Threads : /\ at'[u] = "log" <=> at[u] = "log"
                         /\ at[u] = "log" => job'[u].seq = job[u].seq
  BY <1>e, <1>p
<1>n. /\ faults.raised \in Nat /\ faults.unread \in Nat /\ faults.waiting \in 0..Readers
      /\ queued["demand"] \in Nat /\ queued["prefetch"] \in Nat
      /\ spent.prefetch \in 0..Speculations /\ spent.giveup \in Nat
      /\ fault_seq \in Nat /\ fetched \in Nat /\ pf_outstanding \in Nat
      /\ Len(records) \in Nat /\ Len(faultFile) \in Nat
      /\ capacity \in Nat /\ Readers \in Nat /\ Speculations \in Nat
  BY <1>h, BoundsAssumption DEF Typed
<1>s. /\ faults' = [raised |-> faults.raised, unread |-> faults.unread,
                    waiting |-> faults.waiting]
      /\ spent' = [prefetch |-> spent.prefetch, giveup |-> spent.giveup]
  <2>1. faults' = [raised |-> faults.raised, unread |-> faults.unread, waiting |-> faults.waiting]
    BY <1>h, <1>e, <1>n DEF Typed
  <2>2. spent' = [prefetch |-> spent.prefetch, giveup |-> spent.giveup]
    BY <1>h, <1>e, <1>n DEF Typed
  <2>. QED
    BY <2>1, <2>2
<1>d. /\ faults'.unread = faults.unread /\ faults'.waiting = faults.waiting
      /\ queued'["demand"] = queued["demand"] /\ queued'["prefetch"] = queued["prefetch"]
      /\ spent'.prefetch = spent.prefetch /\ spent'.giveup = spent.giveup
      /\ fault_seq' = fault_seq /\ fetched' = fetched /\ pf_outstanding' = pf_outstanding
      /\ Len(records') = Len(records) + 1 /\ Len(faultFile') = Len(faultFile)
  <2>1. faults'.unread = faults.unread /\ faults'.waiting = faults.waiting
    BY <1>s
  <2>2. queued'["demand"] = queued["demand"] /\ queued'["prefetch"] = queued["prefetch"]
    BY <1>h, <1>e DEF Typed
  <2>3. spent'.prefetch = spent.prefetch /\ spent'.giveup = spent.giveup
    BY <1>s
  <2>4. Len(records') = Len(records) + 1 /\ Len(faultFile') = Len(faultFile)
    BY <1>h, <1>e, <1>n, <1>r DEF Typed, JobType
  <2>. QED
    BY <1>e, <2>1, <2>2, <2>3, <2>4 DEF One
<1>c. /\ fault_seq' = Len(faultFile') + Cardinality(Logging')
      /\ fetched' = Len(records') + Cardinality(Owing') + Cardinality(Nested')
      /\ faults'.waiting = faults'.unread + queued'["demand"] + Cardinality(Asked')
      /\ pf_outstanding' = queued'["prefetch"] + Cardinality(Ahead')
      /\ pf_outstanding' <= spent'.prefetch
      /\ faults'.unread \in Nat /\ faults'.waiting \in 0..Readers /\ pf_outstanding' \in Nat
      /\ spent'.prefetch \in 0..Speculations /\ spent'.giveup \in Nat
      /\ queued'["demand"] \in Nat /\ queued'["prefetch"] \in Nat
  <2>1. fault_seq' = Len(faultFile') + Cardinality(Logging')
    BY <1>h, <1>k, <1>d DEF Counts
  <2>2a. fetched \in Nat /\ Len(records) \in Nat
    BY <1>n
  <2>2n. /\ Cardinality(Owing) \in Nat /\ Cardinality(Owing') \in Nat
         /\ Cardinality(Nested) \in Nat /\ Cardinality(Nested') \in Nat
    BY <1>k DEF CountsAreNumbers
  <2>2b. /\ fetched = Len(records) + Cardinality(Owing) + Cardinality(Nested)
         /\ Cardinality(Owing') = Cardinality(Owing) - 1
         /\ Cardinality(Nested') = Cardinality(Nested) /\ fetched' = fetched
         /\ Len(records') = Len(records) + 1
    BY <1>h, <1>k, <1>d DEF Counts
  <2>2. fetched' = Len(records') + Cardinality(Owing') + Cardinality(Nested')
    BY <2>2a, <2>2n, <2>2b
  <2>3. faults'.unread \in Nat /\ queued'["demand"] \in Nat /\ queued'["prefetch"] \in Nat
    BY <1>n, <1>d
  <2>4. faults'.waiting = faults'.unread + queued'["demand"] + Cardinality(Asked')
    BY <1>h, <1>k, <1>d DEF Counts
  <2>5. faults'.waiting \in 0..Readers
    BY <1>n, <1>d
  <2>6. spent'.prefetch \in 0..Speculations /\ spent'.giveup \in Nat
    BY <1>n, <1>d
  <2>7. /\ pf_outstanding' = queued'["prefetch"] + Cardinality(Ahead')
        /\ pf_outstanding' <= spent'.prefetch
    BY <1>h, <1>k, <1>d DEF Counts
  <2>8. pf_outstanding' \in Nat
    BY <1>n, <1>d
  <2>. QED
    BY <2>1, <2>2, <2>3, <2>4, <2>5, <2>6, <2>7, <2>8
<1>1. Typed'
  <2>1a. faults.raised \in Nat
    BY <1>n
  <2>1. faults' \in [raised : Nat, unread : Nat, waiting : 0..Readers]
    BY <1>s, <1>c, <1>d, <2>1a
  <2>2. queued' \in [{"demand", "prefetch"} -> Nat]
    BY <1>h, <1>e, <1>c DEF Typed
  <2>3. spent' \in [prefetch : 0..Speculations, giveup : Nat]
    BY <1>s, <1>c, <1>d
  <2>4. fault_seq' \in Nat /\ fetched' \in Nat
    BY <1>n, <1>d
  <2>5. faultFile' \in Seq(Nat)
    BY <1>h, <1>e DEF Typed, JobType
  <2>6. records' \in Seq(EntryType) /\ Len(records') <= capacity
    BY <1>h, <1>e, <1>n, <1>r, BoundsAssumption DEF Typed
  <2>7. job' \in [Threads -> JobType] /\ main' \in Places
    BY <1>h, <1>e, <1>p DEF Typed, Places
  <2>8. /\ open' \subseteq Shared \cup {"pool"} /\ opt' \in Handlers /\ stop' \in BOOLEAN
        /\ poolStop' \in BOOLEAN
    BY <1>h, <1>e DEF Typed
  <2>. QED
    BY <1>c, <2>1, <2>2, <2>3, <2>4, <2>5, <2>6, <2>7, <2>8 DEF Typed
<1>2. JobFits'
  <2>. SUFFICES ASSUME NEW u \in Threads
                 PROVE  /\ at'[u] \in Resting <=> job'[u].kind = "none"
                        /\ at'[u] \in {"predict", "topup"} => job'[u].kind = "demand" /\ opt'.prefetch
                        /\ job'[u].seq <= fault_seq' /\ job'[u].slot <= Len(records')
                        /\ at'[u] = "log" => job'[u].seq > 0
                        /\ at'[u] = "fill" => job'[u].slot > 0
                        /\ HasPool' => job'[u].kind # "inline"
                        /\ u = Handler => job'[u].kind # "prefetch"
    BY DEF JobFits
  <2>0. /\ fault_seq \in Nat /\ Len(records) \in Nat /\ job[u].seq \in Nat /\ job[u].slot \in Nat
    BY <1>h DEF Typed, JobType
  <2>1. CASE u = t
    BY <1>h, <1>e, <1>p, <1>o, <1>r, <2>0, <2>1 DEF JobFits, Resting
  <2>2. CASE u # t
    BY <1>h, <1>e, <1>p, <1>o, <1>r, <2>0, <2>2 DEF JobFits
  <2>. QED
    BY <2>1, <2>2
<1>3. RecordsSound'
  <2>1. ASSUME NEW n \in 1..Len(records')
        PROVE  /\ records'[n].seq = n
               /\ records'[n].filled \/ \E u \in Threads : at'[u] = "fill" /\ job'[u].slot = n
    <3>1. CASE n = Slot
      BY <1>p, <1>r, <3>1 DEF Record
    <3>2. CASE n # Slot
      <4>1. n \in 1..Len(records)
        BY <1>h, <1>e, <1>r, <3>2 DEF Typed
      <4>2. /\ records[n].seq = n
            /\ (records[n].filled \/ \E u \in Threads : at[u] = "fill" /\ job[u].slot = n)
        BY <1>h, <4>1 DEF RecordsSound
      <4>. QED
        BY <1>e, <1>p, <1>r, <4>1, <4>2
    <3>. QED
      BY <3>1, <3>2
  <2>. QED
    BY <2>1 DEF RecordsSound
<1>4. NumbersSound'
  BY <1>h, <1>e, <1>q, NumbersFrame
<1>5. NumbersOrdered'
  BY <1>h, <1>e, <1>x, <1>p, <1>o DEF NumbersOrdered, Threads
<1>6. Counts'
  BY <1>c DEF Counts
<1>7. Flushed'
  BY <1>h, <1>e, <1>x, <1>p DEF Flushed, AfterFlush
<1>. QED
  BY <1>1, <1>2, <1>3, <1>4, <1>5, <1>6, <1>7 DEF TraceInv

\* A full array ends the run.
LEMMA FullTraceKeeps ==
  ASSUME IndInv, TraceInv, NEW t \in Threads, ReserveRecord(t), ~ (Len(records) < capacity)
  PROVE  TraceInv'
<1>h. /\ Typed /\ JobFits /\ RecordsSound /\ NumbersSound /\ NumbersOrdered /\ Counts
      /\ at \in [Threads -> Labels]
  BY DEF TraceInv, IndInv
<1>e. /\ main' = "aborted" /\ at[t] = "reserve" /\ at' = at /\ job' = job
      /\ UNCHANGED <<opt, stop, poolStop, open, faults, queued, pf_outstanding, spent>>
      /\ UNCHANGED <<fault_seq, faultFile, records, fetched, fetchFile>>
  BY <1>h DEF ReserveRecord, poolVars
<1>x. main \notin AfterFlush /\ Handler \in Threads
  BY <1>e, HandlerIsThread DEF IndInv, MainWaits, AllExited, Closing, AfterFlush
<1>p. at' = at /\ job' = job
  BY <1>e
<1>k. /\ Logging' = Logging
      /\ Owing' = Owing
      /\ Nested' = Nested
      /\ Asked' = Asked
      /\ Ahead' = Ahead
      /\ CountsAreNumbers
  BY <1>p, CountsExist DEF Logging, Owing, Nested, Asked, Ahead
<1>o. HasPool' = HasPool /\ OneNumbers' = OneNumbers
  BY <1>e DEF HasPool, OwnPool, OneNumbers
<1>q. \A u \in Threads : /\ at'[u] = "log" <=> at[u] = "log"
                         /\ at[u] = "log" => job'[u].seq = job[u].seq
  BY <1>e, <1>p
<1>1. Typed'
  BY <1>h, <1>e, <1>p DEF Typed, Places
<1>2. JobFits'
  BY <1>h, <1>e, <1>x, <1>p, <1>o DEF JobFits, Typed, JobType, Resting
<1>3. RecordsSound'
  BY <1>h, <1>e, <1>x, <1>p DEF RecordsSound
<1>4. NumbersSound'
  BY <1>h, <1>e, <1>q, NumbersFrame
<1>5. NumbersOrdered'
  BY <1>h, <1>e, <1>x, <1>p, <1>o DEF NumbersOrdered, Threads
<1>6. Counts'
  BY <1>h, <1>e, <1>k DEF Counts
<1>7. Flushed'
  BY <1>h, <1>e, <1>x, <1>p DEF Flushed, AfterFlush
<1>. QED
  BY <1>1, <1>2, <1>3, <1>4, <1>5, <1>6, <1>7 DEF TraceInv

\* The record is filled, and the thread has nothing in hand, or is back in the fetch
\* that predicted this one.
LEMMA FillRecordKeeps ==
  ASSUME IndInv, TraceInv, NEW t \in Threads, FillRecord(t)
  PROVE  TraceInv'
<1>h. /\ Typed /\ JobFits /\ RecordsSound /\ NumbersSound /\ NumbersOrdered /\ Counts
      /\ at \in [Threads -> Labels]
  BY DEF TraceInv, IndInv
<1> DEFINE kind == job[t].kind
           l == IF kind = "inline" THEN "reserve" ELSE IF t = Handler THEN "drain" ELSE "idle"
           j == IF kind = "inline" THEN [NoJob EXCEPT !.kind = "demand"] ELSE NoJob
<1>e. /\ at[t] = "fill" /\ job[t] \in JobType /\ kind \in {"demand", "prefetch", "inline"}
      /\ at' = [at EXCEPT ![t] = l] /\ job' = [job EXCEPT ![t] = j]
      /\ pf_outstanding' = pf_outstanding - One(kind = "prefetch")
      /\ job[t].slot \in 1..Len(records)
      /\ records' = [records EXCEPT ![job[t].slot].filled = TRUE]
      /\ UNCHANGED <<opt, stop, poolStop, open, main>>
      /\ UNCHANGED <<faults, queued, fault_seq, faultFile, fetched, fetchFile, spent>>
  <2>1. at[t] = "fill" /\ job[t] \in JobType
    BY <1>h DEF FillRecord, Typed
  <2>2. kind \in {"demand", "prefetch", "inline"}
    BY <1>h, <2>1 DEF JobFits, Resting, JobType
  <2>3. job[t].slot \in 1..Len(records)
    BY <1>h, <2>1 DEF JobFits, JobType, Typed
  <2>. QED
    BY <2>1, <2>2, <2>3 DEF FillRecord, Finish, Counted, One, Go, lifeVars
<1>x. main \notin AfterFlush /\ Handler \in Threads
  BY <1>e, HandlerIsThread DEF IndInv, MainWaits, AllExited, Closing, AfterFlush
<1>j. /\ l \in Labels /\ j \in JobType /\ (kind = "inline" => l = "reserve")
      /\ (kind # "inline" => l \in {"drain", "idle"})
      /\ j.kind = (IF kind = "inline" THEN "demand" ELSE "none") /\ j.seq = 0 /\ j.slot = 0
  <2>1. CASE kind = "inline"
    BY <1>h, <1>e, <2>1 DEF Labels, JobType, NoJob
  <2>2. CASE kind # "inline"
    BY <1>h, <1>e, <2>2 DEF Labels, JobType, NoJob
  <2>. QED
    BY <2>1, <2>2
<1> HIDE DEF l, j
<1>r. /\ records' \in Seq(EntryType) /\ Len(records') = Len(records)
      /\ \A n \in 1..Len(records) :
           records'[n].seq = records[n].seq /\ (records'[n].filled <=> records[n].filled \/ n = job[t].slot)
  <2> DEFINE s == job[t].slot
             e == [records[s] EXCEPT !.filled = TRUE]
  <2>1. s \in 1..Len(records) /\ records[s] \in EntryType /\ records' = [records EXCEPT ![s] = e]
    BY <1>h, <1>e DEF Typed
  <2>2. e \in EntryType /\ e.seq = records[s].seq /\ e.filled = TRUE
    BY <2>1 DEF EntryType
  <2> HIDE DEF s, e
  <2>3. records \in Seq(EntryType)
    BY <1>h DEF Typed
  <2>4. records' \in Seq(EntryType) /\ Len(records') = Len(records)
    BY <2>1, <2>2, <2>3
  <2>5. records'[s] = e /\ \A n \in 1..Len(records) : n # s => records'[n] = records[n]
    BY <2>1, <2>3
  <2>6. \A n \in 1..Len(records) :
           records'[n].seq = records[n].seq /\ (records'[n].filled <=> records[n].filled \/ n = s)
    BY <2>2, <2>5
  <2>. QED
    BY <2>4, <2>6 DEF s
<1>m. /\ Moves(t, l, j) /\ l \in Labels /\ j \in JobType
      /\ j.kind = (IF kind = "inline" THEN "demand" ELSE "none") /\ j.seq = 0 /\ j.slot = 0
  BY <1>e, <1>j DEF Moves, Labels
<1>p. /\ at'[t] = l /\ job'[t].kind = (IF kind = "inline" THEN "demand" ELSE "none")
      /\ job'[t].seq = 0 /\ job'[t].slot = 0
      /\ \A u \in Threads : u # t => at'[u] = at[u] /\ job'[u] = job[u]
      /\ job' \in [Threads -> JobType] /\ t \in Threads
  BY <1>h, <1>e, <1>m, <1>x DEF Moves, Typed
<1>k. /\ Cardinality(Logging') = Cardinality(Logging)
      /\ Cardinality(Owing') = Cardinality(Owing) + One(kind = "inline")
      /\ Cardinality(Nested') = Cardinality(Nested) - One(kind = "inline")
      /\ Cardinality(Asked') = Cardinality(Asked)
      /\ Cardinality(Ahead') = Cardinality(Ahead) - One(kind = "prefetch")
      /\ CountsAreNumbers /\ CountsAreNumbers'
  <2>1. CountsAfter(t, l, j) /\ CountsAreNumbers /\ CountsAreNumbers'
    BY <1>h, <1>m, <1>p, CountMoves DEF Typed
  <2>2. CASE kind = "inline"
    BY <1>e, <1>j, <1>m, <2>1, <2>2 DEF CountsAfter, CountsAreNumbers, One
  <2>3. CASE kind = "demand"
    BY <1>e, <1>j, <1>m, <2>1, <2>3 DEF CountsAfter, CountsAreNumbers, One
  <2>4. CASE kind = "prefetch"
    BY <1>e, <1>j, <1>m, <2>1, <2>4 DEF CountsAfter, CountsAreNumbers, One
  <2>. QED
    BY <1>e, <2>1, <2>2, <2>3, <2>4
<1>o. HasPool' = HasPool /\ OneNumbers' = OneNumbers
  BY <1>e DEF HasPool, OwnPool, OneNumbers
<1>q. \A u \in Threads : /\ at'[u] = "log" <=> at[u] = "log"
                         /\ at[u] = "log" => job'[u].seq = job[u].seq
  BY <1>e, <1>p, <1>j
<1>n. /\ faults.raised \in Nat /\ faults.unread \in Nat /\ faults.waiting \in 0..Readers
      /\ queued["demand"] \in Nat /\ queued["prefetch"] \in Nat
      /\ spent.prefetch \in 0..Speculations /\ spent.giveup \in Nat
      /\ fault_seq \in Nat /\ fetched \in Nat /\ pf_outstanding \in Nat
      /\ Len(records) \in Nat /\ Len(faultFile) \in Nat
      /\ capacity \in Nat /\ Readers \in Nat /\ Speculations \in Nat
  BY <1>h, BoundsAssumption DEF Typed
<1>s. /\ faults' = [raised |-> faults.raised, unread |-> faults.unread,
                    waiting |-> faults.waiting]
      /\ spent' = [prefetch |-> spent.prefetch, giveup |-> spent.giveup]
  <2>1. faults' = [raised |-> faults.raised, unread |-> faults.unread, waiting |-> faults.waiting]
    BY <1>h, <1>e, <1>n DEF Typed
  <2>2. spent' = [prefetch |-> spent.prefetch, giveup |-> spent.giveup]
    BY <1>h, <1>e, <1>n DEF Typed
  <2>. QED
    BY <2>1, <2>2
<1>d. /\ faults'.unread = faults.unread /\ faults'.waiting = faults.waiting
      /\ queued'["demand"] = queued["demand"] /\ queued'["prefetch"] = queued["prefetch"]
      /\ spent'.prefetch = spent.prefetch /\ spent'.giveup = spent.giveup
      /\ fault_seq' = fault_seq /\ fetched' = fetched
      /\ pf_outstanding' = pf_outstanding - One(kind = "prefetch")
      /\ Len(records') = Len(records) /\ Len(faultFile') = Len(faultFile)
      /\ One(kind = "inline") \in {0, 1}
      /\ One(kind = "prefetch") \in {0, 1}
  <2>1. faults'.unread = faults.unread /\ faults'.waiting = faults.waiting
    BY <1>s
  <2>2. queued'["demand"] = queued["demand"] /\ queued'["prefetch"] = queued["prefetch"]
    BY <1>h, <1>e DEF Typed
  <2>3. spent'.prefetch = spent.prefetch /\ spent'.giveup = spent.giveup
    BY <1>s
  <2>4. Len(records') = Len(records) /\ Len(faultFile') = Len(faultFile)
    BY <1>h, <1>e, <1>n, <1>r DEF Typed, JobType
  <2>. QED
    BY <1>e, <2>1, <2>2, <2>3, <2>4 DEF One
<1>c. /\ fault_seq' = Len(faultFile') + Cardinality(Logging')
      /\ fetched' = Len(records') + Cardinality(Owing') + Cardinality(Nested')
      /\ faults'.waiting = faults'.unread + queued'["demand"] + Cardinality(Asked')
      /\ pf_outstanding' = queued'["prefetch"] + Cardinality(Ahead')
      /\ pf_outstanding' <= spent'.prefetch
      /\ faults'.unread \in Nat /\ faults'.waiting \in 0..Readers /\ pf_outstanding' \in Nat
      /\ spent'.prefetch \in 0..Speculations /\ spent'.giveup \in Nat
      /\ queued'["demand"] \in Nat /\ queued'["prefetch"] \in Nat
  <2>1. fault_seq' = Len(faultFile') + Cardinality(Logging')
    BY <1>h, <1>k, <1>d DEF Counts
  <2>2a. fetched \in Nat /\ Len(records) \in Nat
    BY <1>n
  <2>2n. /\ Cardinality(Owing) \in Nat /\ Cardinality(Owing') \in Nat
         /\ Cardinality(Nested) \in Nat /\ Cardinality(Nested') \in Nat
    BY <1>k DEF CountsAreNumbers
  <2>2b. /\ fetched = Len(records) + Cardinality(Owing) + Cardinality(Nested)
         /\ Cardinality(Owing') = Cardinality(Owing) + One(kind = "inline")
         /\ Cardinality(Nested') = Cardinality(Nested) - One(kind = "inline")
         /\ fetched' = fetched /\ Len(records') = Len(records)
    BY <1>h, <1>k, <1>d DEF Counts
  <2>2c. One(kind = "inline") \in {0, 1}
    BY <1>d
  <2>2. fetched' = Len(records') + Cardinality(Owing') + Cardinality(Nested')
    BY <2>2a, <2>2n, <2>2b, <2>2c
  <2>3. faults'.unread \in Nat /\ queued'["demand"] \in Nat /\ queued'["prefetch"] \in Nat
    BY <1>n, <1>d
  <2>4. faults'.waiting = faults'.unread + queued'["demand"] + Cardinality(Asked')
    BY <1>h, <1>k, <1>d DEF Counts
  <2>5. faults'.waiting \in 0..Readers
    BY <1>n, <1>d
  <2>6. spent'.prefetch \in 0..Speculations /\ spent'.giveup \in Nat
    BY <1>n, <1>d
  <2>7a. pf_outstanding \in Nat /\ queued["prefetch"] \in Nat /\ spent.prefetch \in Nat
    BY <1>n
  <2>7n. Cardinality(Ahead) \in Nat /\ Cardinality(Ahead') \in Nat
    BY <1>k DEF CountsAreNumbers
  <2>7b. /\ pf_outstanding = queued["prefetch"] + Cardinality(Ahead)
         /\ pf_outstanding <= spent.prefetch
         /\ Cardinality(Ahead') = Cardinality(Ahead) - One(kind = "prefetch")
         /\ pf_outstanding' = pf_outstanding - One(kind = "prefetch")
         /\ queued'["prefetch"] = queued["prefetch"] /\ spent'.prefetch = spent.prefetch
    BY <1>h, <1>k, <1>d DEF Counts
  <2>7c. One(kind = "prefetch") \in {0, 1}
    BY <1>d
  <2>7. /\ pf_outstanding' = queued'["prefetch"] + Cardinality(Ahead')
        /\ pf_outstanding' <= spent'.prefetch
    BY <2>7a, <2>7n, <2>7b, <2>7c
  <2>8. pf_outstanding' \in Nat
    BY <2>3, <2>7, <2>7n
  <2>. QED
    BY <2>1, <2>2, <2>3, <2>4, <2>5, <2>6, <2>7, <2>8
<1>1. Typed'
  <2>1a. faults.raised \in Nat
    BY <1>n
  <2>1. faults' \in [raised : Nat, unread : Nat, waiting : 0..Readers]
    BY <1>s, <1>c, <1>d, <2>1a
  <2>2. queued' \in [{"demand", "prefetch"} -> Nat]
    BY <1>h, <1>e, <1>c DEF Typed
  <2>3. spent' \in [prefetch : 0..Speculations, giveup : Nat]
    BY <1>s, <1>c, <1>d
  <2>4. fault_seq' \in Nat /\ fetched' \in Nat
    BY <1>n, <1>d
  <2>5. faultFile' \in Seq(Nat)
    BY <1>h, <1>e DEF Typed, JobType
  <2>6. records' \in Seq(EntryType) /\ Len(records') <= capacity
    BY <1>h, <1>e, <1>n, <1>r DEF Typed
  <2>7. job' \in [Threads -> JobType] /\ main' \in Places
    BY <1>h, <1>e, <1>p DEF Typed, Places
  <2>8. /\ open' \subseteq Shared \cup {"pool"} /\ opt' \in Handlers /\ stop' \in BOOLEAN
        /\ poolStop' \in BOOLEAN
    BY <1>h, <1>e DEF Typed
  <2>. QED
    BY <1>c, <2>1, <2>2, <2>3, <2>4, <2>5, <2>6, <2>7, <2>8 DEF Typed
<1>2. JobFits'
  <2>. SUFFICES ASSUME NEW u \in Threads
                 PROVE  /\ at'[u] \in Resting <=> job'[u].kind = "none"
                        /\ at'[u] \in {"predict", "topup"} => job'[u].kind = "demand" /\ opt'.prefetch
                        /\ job'[u].seq <= fault_seq' /\ job'[u].slot <= Len(records')
                        /\ at'[u] = "log" => job'[u].seq > 0
                        /\ at'[u] = "fill" => job'[u].slot > 0
                        /\ HasPool' => job'[u].kind # "inline"
                        /\ u = Handler => job'[u].kind # "prefetch"
    BY DEF JobFits
  <2>0. /\ fault_seq \in Nat /\ Len(records) \in Nat /\ job[u].seq \in Nat /\ job[u].slot \in Nat
    BY <1>h DEF Typed, JobType
  <2>1. CASE u = t
    BY <1>h, <1>e, <1>p, <1>o, <1>j, <1>r, <2>0, <2>1 DEF JobFits, Resting
  <2>2. CASE u # t
    BY <1>h, <1>e, <1>p, <1>o, <1>r, <2>0, <2>2 DEF JobFits
  <2>. QED
    BY <2>1, <2>2
<1>3. RecordsSound'
  BY <1>h, <1>e, <1>x, <1>p, <1>r DEF RecordsSound
<1>4. NumbersSound'
  BY <1>h, <1>e, <1>q, NumbersFrame
<1>5. NumbersOrdered'
  BY <1>h, <1>e, <1>x, <1>p, <1>o, <1>j DEF NumbersOrdered, Threads
<1>6. Counts'
  BY <1>c DEF Counts
<1>7. Flushed'
  BY <1>h, <1>e, <1>x, <1>p DEF Flushed, AfterFlush
<1>. QED
  BY <1>1, <1>2, <1>3, <1>4, <1>5, <1>6, <1>7 DEF TraceInv

\* A worker takes a demand fetch.
LEMMA PickDemandKeeps ==
  ASSUME IndInv, TraceInv, NEW w \in Workers, PickDemand(w)
  PROVE  TraceInv'
<1>h. /\ Typed /\ JobFits /\ RecordsSound /\ NumbersSound /\ NumbersOrdered /\ Counts
      /\ at \in [Threads -> Labels]
  BY DEF TraceInv, IndInv
<1>e. /\ at[w] = "idle" /\ w \in Threads /\ job[w].kind = "none" /\ w # Handler
      /\ at' = [at EXCEPT ![w] = "room"]
      /\ job' = [job EXCEPT ![w] = [NoJob EXCEPT !.kind = "demand"]]
      /\ queued["demand"] > 0 /\ queued' = [queued EXCEPT !["demand"] = @ - 1]
      /\ UNCHANGED <<opt, stop, poolStop, open, main>>
      /\ UNCHANGED <<faults, pf_outstanding, fault_seq, faultFile, records, fetched, fetchFile, spent>>
  BY <1>h, HandlerIsThread, WorkersAssumption DEF PickDemand, JobFits, Resting, Go, lifeVars,
     traceVars
<1>x. main \notin AfterFlush /\ Handler \in Threads
  BY <1>e, HandlerIsThread DEF IndInv, MainWaits, AllExited, Closing, AfterFlush
<1>m. /\ Moves(w, "room", [NoJob EXCEPT !.kind = "demand"]) /\ "room" \in Labels
      /\ [NoJob EXCEPT !.kind = "demand"] \in JobType
      /\ ([NoJob EXCEPT !.kind = "demand"]).kind = "demand"
      /\ ([NoJob EXCEPT !.kind = "demand"]).seq = 0
      /\ ([NoJob EXCEPT !.kind = "demand"]).slot = 0
  BY <1>h, <1>e DEF Moves, Labels, Typed, JobType, NoJob
<1>p. /\ at'[w] = "room" /\ job'[w].kind = "demand" /\ job'[w].seq = 0 /\ job'[w].slot = 0
      /\ \A u \in Threads : u # w => at'[u] = at[u] /\ job'[u] = job[u]
      /\ job' \in [Threads -> JobType] /\ w \in Threads
  BY <1>h, <1>e, <1>m, <1>x DEF Moves, Typed
<1>k. /\ Cardinality(Logging') = Cardinality(Logging)
      /\ Cardinality(Owing') = Cardinality(Owing)
      /\ Cardinality(Nested') = Cardinality(Nested)
      /\ Cardinality(Asked') = Cardinality(Asked) + 1
      /\ Cardinality(Ahead') = Cardinality(Ahead)
      /\ CountsAreNumbers /\ CountsAreNumbers'
  <2>1. /\ CountsAfter(w, "room", [NoJob EXCEPT !.kind = "demand"]) /\ CountsAreNumbers
        /\ CountsAreNumbers'
    BY <1>h, <1>m, <1>p, CountMoves DEF Typed
  <2>. QED
    BY <1>h, <1>e, <1>m, <2>1 DEF CountsAfter, CountsAreNumbers, One
<1>o. HasPool' = HasPool /\ OneNumbers' = OneNumbers
  BY <1>e DEF HasPool, OwnPool, OneNumbers
<1>q. \A u \in Threads : /\ at'[u] = "log" <=> at[u] = "log"
                         /\ at[u] = "log" => job'[u].seq = job[u].seq
  BY <1>e, <1>p
<1>n. /\ faults.raised \in Nat /\ faults.unread \in Nat /\ faults.waiting \in 0..Readers
      /\ queued["demand"] \in Nat /\ queued["prefetch"] \in Nat
      /\ spent.prefetch \in 0..Speculations /\ spent.giveup \in Nat
      /\ fault_seq \in Nat /\ fetched \in Nat /\ pf_outstanding \in Nat
      /\ Len(records) \in Nat /\ Len(faultFile) \in Nat
      /\ capacity \in Nat /\ Readers \in Nat /\ Speculations \in Nat
  BY <1>h, BoundsAssumption DEF Typed
<1>s. /\ faults' = [raised |-> faults.raised, unread |-> faults.unread,
                    waiting |-> faults.waiting]
      /\ spent' = [prefetch |-> spent.prefetch, giveup |-> spent.giveup]
  <2>1. faults' = [raised |-> faults.raised, unread |-> faults.unread, waiting |-> faults.waiting]
    BY <1>h, <1>e, <1>n DEF Typed
  <2>2. spent' = [prefetch |-> spent.prefetch, giveup |-> spent.giveup]
    BY <1>h, <1>e, <1>n DEF Typed
  <2>. QED
    BY <2>1, <2>2
<1>d. /\ faults'.unread = faults.unread /\ faults'.waiting = faults.waiting
      /\ queued'["demand"] = queued["demand"] - 1 /\ queued'["prefetch"] = queued["prefetch"]
      /\ spent'.prefetch = spent.prefetch /\ spent'.giveup = spent.giveup
      /\ fault_seq' = fault_seq /\ fetched' = fetched /\ pf_outstanding' = pf_outstanding
      /\ Len(records') = Len(records) /\ Len(faultFile') = Len(faultFile)
  <2>1. faults'.unread = faults.unread /\ faults'.waiting = faults.waiting
    BY <1>s
  <2>2. queued'["demand"] = queued["demand"] - 1 /\ queued'["prefetch"] = queued["prefetch"]
    BY <1>h, <1>e DEF Typed
  <2>3. spent'.prefetch = spent.prefetch /\ spent'.giveup = spent.giveup
    BY <1>s
  <2>4. Len(records') = Len(records) /\ Len(faultFile') = Len(faultFile)
    BY <1>h, <1>e, <1>n DEF Typed, JobType
  <2>. QED
    BY <1>e, <2>1, <2>2, <2>3, <2>4 DEF One
<1>c. /\ fault_seq' = Len(faultFile') + Cardinality(Logging')
      /\ fetched' = Len(records') + Cardinality(Owing') + Cardinality(Nested')
      /\ faults'.waiting = faults'.unread + queued'["demand"] + Cardinality(Asked')
      /\ pf_outstanding' = queued'["prefetch"] + Cardinality(Ahead')
      /\ pf_outstanding' <= spent'.prefetch
      /\ faults'.unread \in Nat /\ faults'.waiting \in 0..Readers /\ pf_outstanding' \in Nat
      /\ spent'.prefetch \in 0..Speculations /\ spent'.giveup \in Nat
      /\ queued'["demand"] \in Nat /\ queued'["prefetch"] \in Nat
  <2>1. fault_seq' = Len(faultFile') + Cardinality(Logging')
    BY <1>h, <1>k, <1>d DEF Counts
  <2>2. fetched' = Len(records') + Cardinality(Owing') + Cardinality(Nested')
    BY <1>h, <1>k, <1>d DEF Counts
  <2>3a. queued["demand"] > 0
    BY <1>e
  <2>3. faults'.unread \in Nat /\ queued'["demand"] \in Nat /\ queued'["prefetch"] \in Nat
    BY <1>n, <1>d, <2>3a
  <2>4a. faults.waiting \in Nat /\ faults.unread \in Nat /\ queued["demand"] \in Nat
    BY <1>n
  <2>4n. Cardinality(Asked) \in Nat /\ Cardinality(Asked') \in Nat
    BY <1>k DEF CountsAreNumbers
  <2>4b. /\ faults.waiting = faults.unread + queued["demand"] + Cardinality(Asked)
         /\ Cardinality(Asked') = Cardinality(Asked) + 1 /\ faults'.unread = faults.unread
         /\ faults'.waiting = faults.waiting /\ queued'["demand"] = queued["demand"] - 1
    BY <1>h, <1>k, <1>d DEF Counts
  <2>4. faults'.waiting = faults'.unread + queued'["demand"] + Cardinality(Asked')
    BY <2>4a, <2>4n, <2>4b
  <2>5. faults'.waiting \in 0..Readers
    BY <1>n, <1>d
  <2>6. spent'.prefetch \in 0..Speculations /\ spent'.giveup \in Nat
    BY <1>n, <1>d
  <2>7. /\ pf_outstanding' = queued'["prefetch"] + Cardinality(Ahead')
        /\ pf_outstanding' <= spent'.prefetch
    BY <1>h, <1>k, <1>d DEF Counts
  <2>8. pf_outstanding' \in Nat
    BY <1>n, <1>d
  <2>. QED
    BY <2>1, <2>2, <2>3, <2>4, <2>5, <2>6, <2>7, <2>8
<1>1. Typed'
  <2>1a. faults.raised \in Nat
    BY <1>n
  <2>1. faults' \in [raised : Nat, unread : Nat, waiting : 0..Readers]
    BY <1>s, <1>c, <1>d, <2>1a
  <2>2. queued' \in [{"demand", "prefetch"} -> Nat]
    BY <1>h, <1>e, <1>c DEF Typed
  <2>3. spent' \in [prefetch : 0..Speculations, giveup : Nat]
    BY <1>s, <1>c, <1>d
  <2>4. fault_seq' \in Nat /\ fetched' \in Nat
    BY <1>n, <1>d
  <2>5. faultFile' \in Seq(Nat)
    BY <1>h, <1>e DEF Typed, JobType
  <2>6. records' \in Seq(EntryType) /\ Len(records') <= capacity
    BY <1>h, <1>e, <1>n DEF Typed
  <2>7. job' \in [Threads -> JobType] /\ main' \in Places
    BY <1>h, <1>e, <1>p DEF Typed, Places
  <2>8. /\ open' \subseteq Shared \cup {"pool"} /\ opt' \in Handlers /\ stop' \in BOOLEAN
        /\ poolStop' \in BOOLEAN
    BY <1>h, <1>e DEF Typed
  <2>. QED
    BY <1>c, <2>1, <2>2, <2>3, <2>4, <2>5, <2>6, <2>7, <2>8 DEF Typed
<1>2. JobFits'
  <2>. SUFFICES ASSUME NEW u \in Threads
                 PROVE  /\ at'[u] \in Resting <=> job'[u].kind = "none"
                        /\ at'[u] \in {"predict", "topup"} => job'[u].kind = "demand" /\ opt'.prefetch
                        /\ job'[u].seq <= fault_seq' /\ job'[u].slot <= Len(records')
                        /\ at'[u] = "log" => job'[u].seq > 0
                        /\ at'[u] = "fill" => job'[u].slot > 0
                        /\ HasPool' => job'[u].kind # "inline"
                        /\ u = Handler => job'[u].kind # "prefetch"
    BY DEF JobFits
  <2>0. /\ fault_seq \in Nat /\ Len(records) \in Nat /\ job[u].seq \in Nat /\ job[u].slot \in Nat
    BY <1>h DEF Typed, JobType
  <2>1. CASE u = w
    BY <1>h, <1>e, <1>p, <1>o, <2>0, <2>1 DEF JobFits, Resting
  <2>2. CASE u # w
    BY <1>h, <1>e, <1>p, <1>o, <2>0, <2>2 DEF JobFits
  <2>. QED
    BY <2>1, <2>2
<1>3. RecordsSound'
  BY <1>h, <1>e, <1>x, <1>p DEF RecordsSound
<1>4. NumbersSound'
  BY <1>h, <1>e, <1>q, NumbersFrame
<1>5. NumbersOrdered'
  BY <1>h, <1>e, <1>x, <1>p, <1>o DEF NumbersOrdered, Threads
<1>6. Counts'
  BY <1>c DEF Counts
<1>7. Flushed'
  BY <1>h, <1>e, <1>x, <1>p DEF Flushed, AfterFlush
<1>. QED
  BY <1>1, <1>2, <1>3, <1>4, <1>5, <1>6, <1>7 DEF TraceInv

\* A worker takes a prefetch, in a run in which more than one thread numbers faults.
LEMMA PickPrefetchKeeps ==
  ASSUME IndInv, TraceInv, NEW w \in Workers, PickPrefetch(w)
  PROVE  TraceInv'
<1>h. /\ Typed /\ JobFits /\ RecordsSound /\ NumbersSound /\ NumbersOrdered /\ Counts
      /\ at \in [Threads -> Labels]
  BY DEF TraceInv, IndInv
<1>e. /\ at[w] = "idle" /\ w \in Threads /\ job[w].kind = "none" /\ w # Handler
      /\ at' = [at EXCEPT ![w] = "stamp"]
      /\ job' = [job EXCEPT ![w] = [NoJob EXCEPT !.kind = "prefetch"]]
      /\ queued["prefetch"] > 0 /\ queued' = [queued EXCEPT !["prefetch"] = @ - 1] /\ ~ OneNumbers
      /\ UNCHANGED <<opt, stop, poolStop, open, main>>
      /\ UNCHANGED <<faults, pf_outstanding, fault_seq, faultFile, records, fetched, fetchFile, spent>>
  <2>1. at[w] = "idle" /\ queued["prefetch"] > 0 /\ w \in Threads /\ w # Handler
    BY HandlerIsThread, WorkersAssumption DEF PickPrefetch
  <2>2. HasPool /\ opt.prefetch
    BY <1>h, <2>1 DEF IndInv, PoolJoined, WorkersExited, NumbersOrdered
  <2>. QED
    BY <1>h, <2>1, <2>2 DEF PickPrefetch, JobFits, Resting, OneNumbers, Go, lifeVars, traceVars
<1>x. main \notin AfterFlush /\ Handler \in Threads
  BY <1>e, HandlerIsThread DEF IndInv, MainWaits, AllExited, Closing, AfterFlush
<1>m. /\ Moves(w, "stamp", [NoJob EXCEPT !.kind = "prefetch"]) /\ "stamp" \in Labels
      /\ [NoJob EXCEPT !.kind = "prefetch"] \in JobType
      /\ ([NoJob EXCEPT !.kind = "prefetch"]).kind = "prefetch"
      /\ ([NoJob EXCEPT !.kind = "prefetch"]).seq = 0
      /\ ([NoJob EXCEPT !.kind = "prefetch"]).slot = 0
  BY <1>h, <1>e DEF Moves, Labels, Typed, JobType, NoJob
<1>p. /\ at'[w] = "stamp" /\ job'[w].kind = "prefetch" /\ job'[w].seq = 0 /\ job'[w].slot = 0
      /\ \A u \in Threads : u # w => at'[u] = at[u] /\ job'[u] = job[u]
      /\ job' \in [Threads -> JobType] /\ w \in Threads
  BY <1>h, <1>e, <1>m, <1>x DEF Moves, Typed
<1>k. /\ Cardinality(Logging') = Cardinality(Logging)
      /\ Cardinality(Owing') = Cardinality(Owing)
      /\ Cardinality(Nested') = Cardinality(Nested)
      /\ Cardinality(Asked') = Cardinality(Asked)
      /\ Cardinality(Ahead') = Cardinality(Ahead) + 1
      /\ CountsAreNumbers /\ CountsAreNumbers'
  <2>1. /\ CountsAfter(w, "stamp", [NoJob EXCEPT !.kind = "prefetch"]) /\ CountsAreNumbers
        /\ CountsAreNumbers'
    BY <1>h, <1>m, <1>p, CountMoves DEF Typed
  <2>. QED
    BY <1>h, <1>e, <1>m, <2>1 DEF CountsAfter, CountsAreNumbers, One
<1>o. HasPool' = HasPool /\ OneNumbers' = OneNumbers
  BY <1>e DEF HasPool, OwnPool, OneNumbers
<1>q. \A u \in Threads : /\ at'[u] = "log" <=> at[u] = "log"
                         /\ at[u] = "log" => job'[u].seq = job[u].seq
  BY <1>e, <1>p
<1>n. /\ faults.raised \in Nat /\ faults.unread \in Nat /\ faults.waiting \in 0..Readers
      /\ queued["demand"] \in Nat /\ queued["prefetch"] \in Nat
      /\ spent.prefetch \in 0..Speculations /\ spent.giveup \in Nat
      /\ fault_seq \in Nat /\ fetched \in Nat /\ pf_outstanding \in Nat
      /\ Len(records) \in Nat /\ Len(faultFile) \in Nat
      /\ capacity \in Nat /\ Readers \in Nat /\ Speculations \in Nat
  BY <1>h, BoundsAssumption DEF Typed
<1>s. /\ faults' = [raised |-> faults.raised, unread |-> faults.unread,
                    waiting |-> faults.waiting]
      /\ spent' = [prefetch |-> spent.prefetch, giveup |-> spent.giveup]
  <2>1. faults' = [raised |-> faults.raised, unread |-> faults.unread, waiting |-> faults.waiting]
    BY <1>h, <1>e, <1>n DEF Typed
  <2>2. spent' = [prefetch |-> spent.prefetch, giveup |-> spent.giveup]
    BY <1>h, <1>e, <1>n DEF Typed
  <2>. QED
    BY <2>1, <2>2
<1>d. /\ faults'.unread = faults.unread /\ faults'.waiting = faults.waiting
      /\ queued'["demand"] = queued["demand"] /\ queued'["prefetch"] = queued["prefetch"] - 1
      /\ spent'.prefetch = spent.prefetch /\ spent'.giveup = spent.giveup
      /\ fault_seq' = fault_seq /\ fetched' = fetched /\ pf_outstanding' = pf_outstanding
      /\ Len(records') = Len(records) /\ Len(faultFile') = Len(faultFile)
  <2>1. faults'.unread = faults.unread /\ faults'.waiting = faults.waiting
    BY <1>s
  <2>2. queued'["demand"] = queued["demand"] /\ queued'["prefetch"] = queued["prefetch"] - 1
    BY <1>h, <1>e DEF Typed
  <2>3. spent'.prefetch = spent.prefetch /\ spent'.giveup = spent.giveup
    BY <1>s
  <2>4. Len(records') = Len(records) /\ Len(faultFile') = Len(faultFile)
    BY <1>h, <1>e, <1>n DEF Typed, JobType
  <2>. QED
    BY <1>e, <2>1, <2>2, <2>3, <2>4 DEF One
<1>c. /\ fault_seq' = Len(faultFile') + Cardinality(Logging')
      /\ fetched' = Len(records') + Cardinality(Owing') + Cardinality(Nested')
      /\ faults'.waiting = faults'.unread + queued'["demand"] + Cardinality(Asked')
      /\ pf_outstanding' = queued'["prefetch"] + Cardinality(Ahead')
      /\ pf_outstanding' <= spent'.prefetch
      /\ faults'.unread \in Nat /\ faults'.waiting \in 0..Readers /\ pf_outstanding' \in Nat
      /\ spent'.prefetch \in 0..Speculations /\ spent'.giveup \in Nat
      /\ queued'["demand"] \in Nat /\ queued'["prefetch"] \in Nat
  <2>1. fault_seq' = Len(faultFile') + Cardinality(Logging')
    BY <1>h, <1>k, <1>d DEF Counts
  <2>2. fetched' = Len(records') + Cardinality(Owing') + Cardinality(Nested')
    BY <1>h, <1>k, <1>d DEF Counts
  <2>3a. queued["prefetch"] > 0
    BY <1>e
  <2>3. faults'.unread \in Nat /\ queued'["demand"] \in Nat /\ queued'["prefetch"] \in Nat
    BY <1>n, <1>d, <2>3a
  <2>4. faults'.waiting = faults'.unread + queued'["demand"] + Cardinality(Asked')
    BY <1>h, <1>k, <1>d DEF Counts
  <2>5. faults'.waiting \in 0..Readers
    BY <1>n, <1>d
  <2>6. spent'.prefetch \in 0..Speculations /\ spent'.giveup \in Nat
    BY <1>n, <1>d
  <2>7a. pf_outstanding \in Nat /\ queued["prefetch"] \in Nat /\ spent.prefetch \in Nat
    BY <1>n
  <2>7n. Cardinality(Ahead) \in Nat /\ Cardinality(Ahead') \in Nat
    BY <1>k DEF CountsAreNumbers
  <2>7b. /\ pf_outstanding = queued["prefetch"] + Cardinality(Ahead)
         /\ pf_outstanding <= spent.prefetch /\ Cardinality(Ahead') = Cardinality(Ahead) + 1
         /\ pf_outstanding' = pf_outstanding /\ queued'["prefetch"] = queued["prefetch"] - 1
         /\ spent'.prefetch = spent.prefetch
    BY <1>h, <1>k, <1>d DEF Counts
  <2>7. /\ pf_outstanding' = queued'["prefetch"] + Cardinality(Ahead')
        /\ pf_outstanding' <= spent'.prefetch
    BY <2>7a, <2>7n, <2>7b
  <2>8. pf_outstanding' \in Nat
    BY <1>n, <1>d
  <2>. QED
    BY <2>1, <2>2, <2>3, <2>4, <2>5, <2>6, <2>7, <2>8
<1>1. Typed'
  <2>1a. faults.raised \in Nat
    BY <1>n
  <2>1. faults' \in [raised : Nat, unread : Nat, waiting : 0..Readers]
    BY <1>s, <1>c, <1>d, <2>1a
  <2>2. queued' \in [{"demand", "prefetch"} -> Nat]
    BY <1>h, <1>e, <1>c DEF Typed
  <2>3. spent' \in [prefetch : 0..Speculations, giveup : Nat]
    BY <1>s, <1>c, <1>d
  <2>4. fault_seq' \in Nat /\ fetched' \in Nat
    BY <1>n, <1>d
  <2>5. faultFile' \in Seq(Nat)
    BY <1>h, <1>e DEF Typed, JobType
  <2>6. records' \in Seq(EntryType) /\ Len(records') <= capacity
    BY <1>h, <1>e, <1>n DEF Typed
  <2>7. job' \in [Threads -> JobType] /\ main' \in Places
    BY <1>h, <1>e, <1>p DEF Typed, Places
  <2>8. /\ open' \subseteq Shared \cup {"pool"} /\ opt' \in Handlers /\ stop' \in BOOLEAN
        /\ poolStop' \in BOOLEAN
    BY <1>h, <1>e DEF Typed
  <2>. QED
    BY <1>c, <2>1, <2>2, <2>3, <2>4, <2>5, <2>6, <2>7, <2>8 DEF Typed
<1>2. JobFits'
  <2>. SUFFICES ASSUME NEW u \in Threads
                 PROVE  /\ at'[u] \in Resting <=> job'[u].kind = "none"
                        /\ at'[u] \in {"predict", "topup"} => job'[u].kind = "demand" /\ opt'.prefetch
                        /\ job'[u].seq <= fault_seq' /\ job'[u].slot <= Len(records')
                        /\ at'[u] = "log" => job'[u].seq > 0
                        /\ at'[u] = "fill" => job'[u].slot > 0
                        /\ HasPool' => job'[u].kind # "inline"
                        /\ u = Handler => job'[u].kind # "prefetch"
    BY DEF JobFits
  <2>0. /\ fault_seq \in Nat /\ Len(records) \in Nat /\ job[u].seq \in Nat /\ job[u].slot \in Nat
    BY <1>h DEF Typed, JobType
  <2>1. CASE u = w
    BY <1>h, <1>e, <1>p, <1>o, <2>0, <2>1 DEF JobFits, Resting
  <2>2. CASE u # w
    BY <1>h, <1>e, <1>p, <1>o, <2>0, <2>2 DEF JobFits
  <2>. QED
    BY <2>1, <2>2
<1>3. RecordsSound'
  BY <1>h, <1>e, <1>x, <1>p DEF RecordsSound
<1>4. NumbersSound'
  BY <1>h, <1>e, <1>q, NumbersFrame
<1>5. NumbersOrdered'
  BY <1>h, <1>e, <1>x, <1>p, <1>o DEF NumbersOrdered, Threads
<1>6. Counts'
  BY <1>c DEF Counts
<1>7. Flushed'
  BY <1>h, <1>e, <1>x, <1>p DEF Flushed, AfterFlush
<1>. QED
  BY <1>1, <1>2, <1>3, <1>4, <1>5, <1>6, <1>7 DEF TraceInv

\* The handler reads a fault.
LEMMA ReadFaultKeeps ==
  ASSUME IndInv, TraceInv, ReadFault
  PROVE  TraceInv'
<1>h. /\ Typed /\ JobFits /\ RecordsSound /\ NumbersSound /\ NumbersOrdered /\ Counts
      /\ at \in [Threads -> Labels]
  BY DEF TraceInv, IndInv
<1>e. /\ at[Handler] = "drain" /\ Handler \in Threads /\ job[Handler].kind = "none"
      /\ at' = [at EXCEPT ![Handler] = "stamp"]
      /\ job' = [job EXCEPT ![Handler] = [NoJob EXCEPT !.kind = "demand"]]
      /\ faults.unread > 0 /\ faults' = [faults EXCEPT !.unread = @ - 1]
      /\ UNCHANGED <<opt, stop, poolStop, open, main>>
      /\ UNCHANGED <<queued, pf_outstanding, fault_seq, faultFile, records, fetched, fetchFile, spent>>
  BY <1>h, HandlerIsThread DEF ReadFault, JobFits, Resting, Go, lifeVars, poolVars, traceVars
<1>x. main \notin AfterFlush /\ Handler \in Threads
  BY <1>e, HandlerIsThread DEF IndInv, MainWaits, AllExited, Closing, AfterFlush
<1>m. /\ Moves(Handler, "stamp", [NoJob EXCEPT !.kind = "demand"]) /\ "stamp" \in Labels
      /\ [NoJob EXCEPT !.kind = "demand"] \in JobType
      /\ ([NoJob EXCEPT !.kind = "demand"]).kind = "demand"
      /\ ([NoJob EXCEPT !.kind = "demand"]).seq = 0
      /\ ([NoJob EXCEPT !.kind = "demand"]).slot = 0
  BY <1>h, <1>e DEF Moves, Labels, Typed, JobType, NoJob
<1>p. /\ at'[Handler] = "stamp" /\ job'[Handler].kind = "demand" /\ job'[Handler].seq = 0
      /\ job'[Handler].slot = 0
      /\ \A u \in Threads : u # Handler => at'[u] = at[u] /\ job'[u] = job[u]
      /\ job' \in [Threads -> JobType] /\ Handler \in Threads
  BY <1>h, <1>e, <1>m, <1>x DEF Moves, Typed
<1>k. /\ Cardinality(Logging') = Cardinality(Logging)
      /\ Cardinality(Owing') = Cardinality(Owing)
      /\ Cardinality(Nested') = Cardinality(Nested)
      /\ Cardinality(Asked') = Cardinality(Asked) + 1
      /\ Cardinality(Ahead') = Cardinality(Ahead)
      /\ CountsAreNumbers /\ CountsAreNumbers'
  <2>1. /\ CountsAfter(Handler, "stamp", [NoJob EXCEPT !.kind = "demand"])
        /\ CountsAreNumbers /\ CountsAreNumbers'
    BY <1>h, <1>m, <1>p, CountMoves DEF Typed
  <2>. QED
    BY <1>h, <1>e, <1>m, <2>1 DEF CountsAfter, CountsAreNumbers, One
<1>o. HasPool' = HasPool /\ OneNumbers' = OneNumbers
  BY <1>e DEF HasPool, OwnPool, OneNumbers
<1>q. \A u \in Threads : /\ at'[u] = "log" <=> at[u] = "log"
                         /\ at[u] = "log" => job'[u].seq = job[u].seq
  BY <1>e, <1>p
<1>n. /\ faults.raised \in Nat /\ faults.unread \in Nat /\ faults.waiting \in 0..Readers
      /\ queued["demand"] \in Nat /\ queued["prefetch"] \in Nat
      /\ spent.prefetch \in 0..Speculations /\ spent.giveup \in Nat
      /\ fault_seq \in Nat /\ fetched \in Nat /\ pf_outstanding \in Nat
      /\ Len(records) \in Nat /\ Len(faultFile) \in Nat
      /\ capacity \in Nat /\ Readers \in Nat /\ Speculations \in Nat
  BY <1>h, BoundsAssumption DEF Typed
<1>s. /\ faults' = [raised |-> faults.raised, unread |-> faults.unread - 1,
                    waiting |-> faults.waiting]
      /\ spent' = [prefetch |-> spent.prefetch, giveup |-> spent.giveup]
  <2>1. faults' = [raised |-> faults.raised, unread |-> faults.unread - 1,
                   waiting |-> faults.waiting]
    BY <1>h, <1>e, <1>n DEF Typed
  <2>2. spent' = [prefetch |-> spent.prefetch, giveup |-> spent.giveup]
    BY <1>h, <1>e, <1>n DEF Typed
  <2>. QED
    BY <2>1, <2>2
<1>d. /\ faults'.unread = faults.unread - 1 /\ faults'.waiting = faults.waiting
      /\ queued'["demand"] = queued["demand"] /\ queued'["prefetch"] = queued["prefetch"]
      /\ spent'.prefetch = spent.prefetch /\ spent'.giveup = spent.giveup
      /\ fault_seq' = fault_seq /\ fetched' = fetched /\ pf_outstanding' = pf_outstanding
      /\ Len(records') = Len(records) /\ Len(faultFile') = Len(faultFile)
  <2>1. faults'.unread = faults.unread - 1 /\ faults'.waiting = faults.waiting
    BY <1>s
  <2>2. queued'["demand"] = queued["demand"] /\ queued'["prefetch"] = queued["prefetch"]
    BY <1>h, <1>e DEF Typed
  <2>3. spent'.prefetch = spent.prefetch /\ spent'.giveup = spent.giveup
    BY <1>s
  <2>4. Len(records') = Len(records) /\ Len(faultFile') = Len(faultFile)
    BY <1>h, <1>e, <1>n DEF Typed, JobType
  <2>. QED
    BY <1>e, <2>1, <2>2, <2>3, <2>4 DEF One
<1>c. /\ fault_seq' = Len(faultFile') + Cardinality(Logging')
      /\ fetched' = Len(records') + Cardinality(Owing') + Cardinality(Nested')
      /\ faults'.waiting = faults'.unread + queued'["demand"] + Cardinality(Asked')
      /\ pf_outstanding' = queued'["prefetch"] + Cardinality(Ahead')
      /\ pf_outstanding' <= spent'.prefetch
      /\ faults'.unread \in Nat /\ faults'.waiting \in 0..Readers /\ pf_outstanding' \in Nat
      /\ spent'.prefetch \in 0..Speculations /\ spent'.giveup \in Nat
      /\ queued'["demand"] \in Nat /\ queued'["prefetch"] \in Nat
  <2>1. fault_seq' = Len(faultFile') + Cardinality(Logging')
    BY <1>h, <1>k, <1>d DEF Counts
  <2>2. fetched' = Len(records') + Cardinality(Owing') + Cardinality(Nested')
    BY <1>h, <1>k, <1>d DEF Counts
  <2>3a. faults.unread > 0
    BY <1>e
  <2>3. faults'.unread \in Nat /\ queued'["demand"] \in Nat /\ queued'["prefetch"] \in Nat
    BY <1>n, <1>d, <2>3a
  <2>4a. faults.waiting \in Nat /\ faults.unread \in Nat /\ queued["demand"] \in Nat
    BY <1>n
  <2>4n. Cardinality(Asked) \in Nat /\ Cardinality(Asked') \in Nat
    BY <1>k DEF CountsAreNumbers
  <2>4b. /\ faults.waiting = faults.unread + queued["demand"] + Cardinality(Asked)
         /\ Cardinality(Asked') = Cardinality(Asked) + 1
         /\ faults'.unread = faults.unread - 1 /\ faults'.waiting = faults.waiting
         /\ queued'["demand"] = queued["demand"]
    BY <1>h, <1>k, <1>d DEF Counts
  <2>4. faults'.waiting = faults'.unread + queued'["demand"] + Cardinality(Asked')
    BY <2>4a, <2>4n, <2>4b
  <2>5. faults'.waiting \in 0..Readers
    BY <1>n, <1>d
  <2>6. spent'.prefetch \in 0..Speculations /\ spent'.giveup \in Nat
    BY <1>n, <1>d
  <2>7. /\ pf_outstanding' = queued'["prefetch"] + Cardinality(Ahead')
        /\ pf_outstanding' <= spent'.prefetch
    BY <1>h, <1>k, <1>d DEF Counts
  <2>8. pf_outstanding' \in Nat
    BY <1>n, <1>d
  <2>. QED
    BY <2>1, <2>2, <2>3, <2>4, <2>5, <2>6, <2>7, <2>8
<1>1. Typed'
  <2>1a. faults.raised \in Nat
    BY <1>n
  <2>1. faults' \in [raised : Nat, unread : Nat, waiting : 0..Readers]
    BY <1>s, <1>c, <1>d, <2>1a
  <2>2. queued' \in [{"demand", "prefetch"} -> Nat]
    BY <1>h, <1>e, <1>c DEF Typed
  <2>3. spent' \in [prefetch : 0..Speculations, giveup : Nat]
    BY <1>s, <1>c, <1>d
  <2>4. fault_seq' \in Nat /\ fetched' \in Nat
    BY <1>n, <1>d
  <2>5. faultFile' \in Seq(Nat)
    BY <1>h, <1>e DEF Typed, JobType
  <2>6. records' \in Seq(EntryType) /\ Len(records') <= capacity
    BY <1>h, <1>e, <1>n DEF Typed
  <2>7. job' \in [Threads -> JobType] /\ main' \in Places
    BY <1>h, <1>e, <1>p DEF Typed, Places
  <2>8. /\ open' \subseteq Shared \cup {"pool"} /\ opt' \in Handlers /\ stop' \in BOOLEAN
        /\ poolStop' \in BOOLEAN
    BY <1>h, <1>e DEF Typed
  <2>. QED
    BY <1>c, <2>1, <2>2, <2>3, <2>4, <2>5, <2>6, <2>7, <2>8 DEF Typed
<1>2. JobFits'
  <2>. SUFFICES ASSUME NEW u \in Threads
                 PROVE  /\ at'[u] \in Resting <=> job'[u].kind = "none"
                        /\ at'[u] \in {"predict", "topup"} => job'[u].kind = "demand" /\ opt'.prefetch
                        /\ job'[u].seq <= fault_seq' /\ job'[u].slot <= Len(records')
                        /\ at'[u] = "log" => job'[u].seq > 0
                        /\ at'[u] = "fill" => job'[u].slot > 0
                        /\ HasPool' => job'[u].kind # "inline"
                        /\ u = Handler => job'[u].kind # "prefetch"
    BY DEF JobFits
  <2>0. /\ fault_seq \in Nat /\ Len(records) \in Nat /\ job[u].seq \in Nat /\ job[u].slot \in Nat
    BY <1>h DEF Typed, JobType
  <2>1. CASE u = Handler
    BY <1>h, <1>e, <1>p, <1>o, <2>0, <2>1 DEF JobFits, Resting
  <2>2. CASE u # Handler
    BY <1>h, <1>e, <1>p, <1>o, <2>0, <2>2 DEF JobFits
  <2>. QED
    BY <2>1, <2>2
<1>3. RecordsSound'
  BY <1>h, <1>e, <1>x, <1>p DEF RecordsSound
<1>4. NumbersSound'
  BY <1>h, <1>e, <1>q, NumbersFrame
<1>5. NumbersOrdered'
  BY <1>h, <1>e, <1>x, <1>p, <1>o, WorkersAssumption DEF NumbersOrdered, Threads
<1>6. Counts'
  BY <1>c DEF Counts
<1>7. Flushed'
  BY <1>h, <1>e, <1>x, <1>p DEF Flushed, AfterFlush
<1>. QED
  BY <1>1, <1>2, <1>3, <1>4, <1>5, <1>6, <1>7 DEF TraceInv

\* A reader faults.
LEMMA TouchKeeps ==
  ASSUME IndInv, TraceInv, Touch
  PROVE  TraceInv'
<1>h. /\ Typed /\ JobFits /\ RecordsSound /\ NumbersSound /\ NumbersOrdered /\ Counts
      /\ at \in [Threads -> Labels]
  BY DEF TraceInv, IndInv
<1>e. /\ UNCHANGED <<at, job, opt, stop, poolStop, open, main>> /\ main = "replay"
      /\ faults.waiting < Readers
      /\ faults' = [raised |-> faults.raised + 1, unread |-> faults.unread + 1, waiting |-> faults.waiting + 1]
      /\ UNCHANGED <<queued, pf_outstanding, fault_seq, faultFile, records, fetched, fetchFile, spent>>
  BY DEF Touch, lifeVars, poolVars, traceVars
<1>x. main \notin AfterFlush /\ Handler \in Threads
  BY <1>e, HandlerIsThread DEF IndInv, MainWaits, AllExited, Closing, AfterFlush
<1>p. at' = at /\ job' = job
  BY <1>e
<1>k. /\ Logging' = Logging
      /\ Owing' = Owing
      /\ Nested' = Nested
      /\ Asked' = Asked
      /\ Ahead' = Ahead
      /\ CountsAreNumbers
  BY <1>p, CountsExist DEF Logging, Owing, Nested, Asked, Ahead
<1>o. HasPool' = HasPool /\ OneNumbers' = OneNumbers
  BY <1>e DEF HasPool, OwnPool, OneNumbers
<1>q. \A u \in Threads : /\ at'[u] = "log" <=> at[u] = "log"
                         /\ at[u] = "log" => job'[u].seq = job[u].seq
  BY <1>e, <1>p
<1>n. /\ faults.raised \in Nat /\ faults.unread \in Nat /\ faults.waiting \in 0..Readers
      /\ queued["demand"] \in Nat /\ queued["prefetch"] \in Nat
      /\ spent.prefetch \in 0..Speculations /\ spent.giveup \in Nat
      /\ fault_seq \in Nat /\ fetched \in Nat /\ pf_outstanding \in Nat
      /\ Len(records) \in Nat /\ Len(faultFile) \in Nat
      /\ capacity \in Nat /\ Readers \in Nat /\ Speculations \in Nat
  BY <1>h, BoundsAssumption DEF Typed
<1>s. /\ faults' = [raised |-> faults.raised + 1, unread |-> faults.unread + 1,
                    waiting |-> faults.waiting + 1]
      /\ spent' = [prefetch |-> spent.prefetch, giveup |-> spent.giveup]
  <2>1. faults' = [raised |-> faults.raised + 1, unread |-> faults.unread + 1,
                   waiting |-> faults.waiting + 1]
    BY <1>h, <1>e, <1>n DEF Typed
  <2>2. spent' = [prefetch |-> spent.prefetch, giveup |-> spent.giveup]
    BY <1>h, <1>e, <1>n DEF Typed
  <2>. QED
    BY <2>1, <2>2
<1>d. /\ faults'.unread = faults.unread + 1 /\ faults'.waiting = faults.waiting + 1
      /\ queued'["demand"] = queued["demand"] /\ queued'["prefetch"] = queued["prefetch"]
      /\ spent'.prefetch = spent.prefetch /\ spent'.giveup = spent.giveup
      /\ fault_seq' = fault_seq /\ fetched' = fetched /\ pf_outstanding' = pf_outstanding
      /\ Len(records') = Len(records) /\ Len(faultFile') = Len(faultFile)
  <2>1. faults'.unread = faults.unread + 1 /\ faults'.waiting = faults.waiting + 1
    BY <1>s
  <2>2. queued'["demand"] = queued["demand"] /\ queued'["prefetch"] = queued["prefetch"]
    BY <1>h, <1>e DEF Typed
  <2>3. spent'.prefetch = spent.prefetch /\ spent'.giveup = spent.giveup
    BY <1>s
  <2>4. Len(records') = Len(records) /\ Len(faultFile') = Len(faultFile)
    BY <1>h, <1>e, <1>n DEF Typed, JobType
  <2>. QED
    BY <1>e, <2>1, <2>2, <2>3, <2>4 DEF One
<1>c. /\ fault_seq' = Len(faultFile') + Cardinality(Logging')
      /\ fetched' = Len(records') + Cardinality(Owing') + Cardinality(Nested')
      /\ faults'.waiting = faults'.unread + queued'["demand"] + Cardinality(Asked')
      /\ pf_outstanding' = queued'["prefetch"] + Cardinality(Ahead')
      /\ pf_outstanding' <= spent'.prefetch
      /\ faults'.unread \in Nat /\ faults'.waiting \in 0..Readers /\ pf_outstanding' \in Nat
      /\ spent'.prefetch \in 0..Speculations /\ spent'.giveup \in Nat
      /\ queued'["demand"] \in Nat /\ queued'["prefetch"] \in Nat
  <2>1. fault_seq' = Len(faultFile') + Cardinality(Logging')
    BY <1>h, <1>k, <1>d DEF Counts
  <2>2. fetched' = Len(records') + Cardinality(Owing') + Cardinality(Nested')
    BY <1>h, <1>k, <1>d DEF Counts
  <2>3. faults'.unread \in Nat /\ queued'["demand"] \in Nat /\ queued'["prefetch"] \in Nat
    BY <1>n, <1>d
  <2>4a. faults.waiting \in Nat /\ faults.unread \in Nat /\ queued["demand"] \in Nat
    BY <1>n
  <2>4n. Cardinality(Asked) \in Nat /\ Cardinality(Asked') \in Nat
    BY <1>k DEF CountsAreNumbers
  <2>4b. /\ faults.waiting = faults.unread + queued["demand"] + Cardinality(Asked)
         /\ Cardinality(Asked') = Cardinality(Asked) /\ faults'.unread = faults.unread + 1
         /\ faults'.waiting = faults.waiting + 1 /\ queued'["demand"] = queued["demand"]
    BY <1>h, <1>k, <1>d DEF Counts
  <2>4. faults'.waiting = faults'.unread + queued'["demand"] + Cardinality(Asked')
    BY <2>4a, <2>4n, <2>4b
  <2>5a. Cardinality(Asked') \in Nat /\ faults.waiting \in 0..Readers /\ Readers \in Nat
    BY <1>n, <1>k DEF CountsAreNumbers
  <2>5. faults'.waiting \in 0..Readers
    BY <2>3, <2>4, <2>4a, <2>4n, <2>4b, <2>5a, <1>e
  <2>6. spent'.prefetch \in 0..Speculations /\ spent'.giveup \in Nat
    BY <1>n, <1>d
  <2>7. /\ pf_outstanding' = queued'["prefetch"] + Cardinality(Ahead')
        /\ pf_outstanding' <= spent'.prefetch
    BY <1>h, <1>k, <1>d DEF Counts
  <2>8. pf_outstanding' \in Nat
    BY <1>n, <1>d
  <2>. QED
    BY <2>1, <2>2, <2>3, <2>4, <2>5, <2>6, <2>7, <2>8
<1>1. Typed'
  <2>1a. faults.raised + 1 \in Nat
    BY <1>n
  <2>1. faults' \in [raised : Nat, unread : Nat, waiting : 0..Readers]
    BY <1>s, <1>c, <1>d, <2>1a
  <2>2. queued' \in [{"demand", "prefetch"} -> Nat]
    BY <1>h, <1>e, <1>c DEF Typed
  <2>3. spent' \in [prefetch : 0..Speculations, giveup : Nat]
    BY <1>s, <1>c, <1>d
  <2>4. fault_seq' \in Nat /\ fetched' \in Nat
    BY <1>n, <1>d
  <2>5. faultFile' \in Seq(Nat)
    BY <1>h, <1>e DEF Typed, JobType
  <2>6. records' \in Seq(EntryType) /\ Len(records') <= capacity
    BY <1>h, <1>e, <1>n DEF Typed
  <2>7. job' \in [Threads -> JobType] /\ main' \in Places
    BY <1>h, <1>e, <1>p DEF Typed, Places
  <2>8. /\ open' \subseteq Shared \cup {"pool"} /\ opt' \in Handlers /\ stop' \in BOOLEAN
        /\ poolStop' \in BOOLEAN
    BY <1>h, <1>e DEF Typed
  <2>. QED
    BY <1>c, <2>1, <2>2, <2>3, <2>4, <2>5, <2>6, <2>7, <2>8 DEF Typed
<1>2. JobFits'
  BY <1>h, <1>e, <1>x, <1>p, <1>o DEF JobFits, Typed, JobType, Resting
<1>3. RecordsSound'
  BY <1>h, <1>e, <1>x, <1>p DEF RecordsSound
<1>4. NumbersSound'
  BY <1>h, <1>e, <1>q, NumbersFrame
<1>5. NumbersOrdered'
  BY <1>h, <1>e, <1>x, <1>p, <1>o DEF NumbersOrdered, Threads
<1>6. Counts'
  BY <1>c DEF Counts
<1>7. Flushed'
  BY <1>h, <1>e, <1>x, <1>p DEF Flushed, AfterFlush
<1>. QED
  BY <1>1, <1>2, <1>3, <1>4, <1>5, <1>6, <1>7 DEF TraceInv

\* main closes and flushes; the threads are gone by then, and it moves none.
LEMMA MainKeepsTraces ==
  ASSUME IndInv, TraceInv, Main
  PROVE  TraceInv'
<1>1. /\ UNCHANGED <<opt, at, job, faults, queued, pf_outstanding, spent>>
      /\ UNCHANGED <<fault_seq, faultFile, records, fetched>>
  BY DEF Main, EndReplay, JoinHandler, StopPool, JoinPool, CloseFaultTrace, FlushFetchTrace,
         FlushFails, CloseFetchTrace, ClosePolicyTrace, FreeTable, ClearRegion, OnlyMain
<1>2. main' \in Places
  BY DEF Main, EndReplay, JoinHandler, StopPool, JoinPool, CloseFaultTrace, FlushFetchTrace,
         FlushFails, CloseFetchTrace, ClosePolicyTrace, FreeTable, ClearRegion, MainGoes, Places
<1>3. open' \subseteq Shared \cup {"pool"} /\ stop' \in BOOLEAN /\ poolStop' \in BOOLEAN
  BY DEF TraceInv, Typed, Main, EndReplay, JoinHandler, StopPool, JoinPool, CloseFaultTrace,
         FlushFetchTrace, FlushFails, CloseFetchTrace, ClosePolicyTrace, FreeTable, ClearRegion
<1>4. Flushed'
  <2>1. CASE FlushFetchTrace
    <3>1. fetchFile' = [entries |-> records, failed |-> FALSE]
      BY <2>1 DEF FlushFetchTrace
    <3>. QED
      BY <1>1, <3>1 DEF Flushed
  <2>2. CASE main \in AfterFlush
    <3>1. Flushed
      BY DEF TraceInv
    <3>2. fetchFile' = fetchFile
      BY <2>2 DEF Main, EndReplay, JoinHandler, StopPool, JoinPool, CloseFaultTrace,
                  FlushFetchTrace, FlushFails, CloseFetchTrace, ClosePolicyTrace, FreeTable,
                  ClearRegion, MainGoes, AfterFlush
    <3>. QED
      BY <1>1, <2>2, <3>1, <3>2 DEF Flushed
  <2>3. CASE FlushFails
    <3>1. PICK n \in {0} \cup 0..(Len(records) - 1) :
                 fetchFile' = [entries |-> SubSeq(records, 1, n), failed |-> TRUE]
      BY <2>3 DEF FlushFails
    <3>2. Len(records) \in Nat
      BY DEF TraceInv, Typed
    <3>. QED
      BY <1>1, <3>1, <3>2 DEF Flushed
  <2>4. CASE main \notin AfterFlush /\ ~ FlushFetchTrace /\ ~ FlushFails
    BY <2>4 DEF Main, EndReplay, JoinHandler, StopPool, JoinPool, CloseFaultTrace,
                CloseFetchTrace, ClosePolicyTrace, FreeTable, ClearRegion, MainGoes, AfterFlush,
                Flushed
  <2>. QED
    BY <2>1, <2>2, <2>3, <2>4
<1>5. Typed'
  BY <1>1, <1>2, <1>3 DEF TraceInv, Typed
<1>6. JobFits' /\ RecordsSound'
  BY <1>1 DEF TraceInv, JobFits, RecordsSound, HasPool, OwnPool
<1>7. NumbersSound' /\ NumbersOrdered'
  BY <1>1 DEF TraceInv, NumbersSound, NumbersOrdered, OneNumbers, HasPool, OwnPool
<1>8. Counts'
  BY <1>1 DEF TraceInv, Counts, Logging, Owing, Nested, Asked, Ahead
<1>. QED
  BY <1>4, <1>5, <1>6, <1>7, <1>8 DEF TraceInv

LEMMA FetchingKeepsTraces ==
  ASSUME IndInv, TraceInv, NEW t \in Threads, Fetching(t)
  PROVE  TraceInv'
<1>1. CASE TakeSeq(t)
  BY <1>1, TakeSeqKeeps
<1>2. CASE TraceFault(t)
  BY <1>2, WriteFaultKeeps, DispatchFaultKeeps
<1>3. CASE MakeRoom(t)
  BY <1>3, MakeRoomKeeps
<1>4. CASE GiveUp(t) \/ DropPrefetch(t)
  BY <1>4, GiveUpKeeps
<1>5. CASE Fetch(t)
  BY <1>5, FetchKeeps
<1>6. CASE NoPrediction(t) \/ ReadNeed(t)
  BY <1>6, NoPredictionKeeps
<1>7. CASE TopUp(t)
  BY <1>7, TopUpKeeps
<1>8. CASE ReserveRecord(t)
  BY <1>8, ReserveRecordKeeps, FullTraceKeeps
<1>9. CASE FillRecord(t)
  BY <1>9, FillRecordKeeps
<1>. QED
  BY <1>1, <1>2, <1>3, <1>4, <1>5, <1>6, <1>7, <1>8, <1>9 DEF Fetching

LEMMA DispatchingKeepsTraces ==
  ASSUME IndInv, TraceInv, Dispatching
  PROVE  TraceInv'
<1>h. Handler \in Threads /\ Typed
  BY HandlerIsThread DEF TraceInv
<1>1. CASE Poll
  <2>1. /\ at[Handler] = "loop" /\ at' = [at EXCEPT ![Handler] = "drain"]
        /\ UNCHANGED <<opt, stop, main, job, faults, queued, pf_outstanding, traceVars, spent>>
        /\ poolStop' = poolStop /\ open' = open
    BY <1>1 DEF Poll, Go, lifeVars, poolVars
  <2>. QED
    BY <1>h, <2>1, RestKeeps DEF Resting, Typed
<1>2. CASE ReadFault
  BY <1>2, ReadFaultKeeps
<1>3. CASE EmptyQueue
  <2>1. /\ at[Handler] = "drain" /\ at' = [at EXCEPT ![Handler] = "loop"]
        /\ UNCHANGED <<opt, stop, main, job, faults, queued, pf_outstanding, traceVars, spent>>
        /\ poolStop' = poolStop /\ open' = open
    BY <1>3 DEF EmptyQueue, Go, lifeVars, poolVars
  <2>. QED
    BY <1>h, <2>1, RestKeeps DEF Resting, Typed
<1>4. CASE Leave
  <2> DEFINE l == IF opt.async THEN "join" ELSE "exit"
  <2>1. /\ at[Handler] = "loop" /\ at' = [at EXCEPT ![Handler] = l]
        /\ UNCHANGED <<opt, stop, main, job, faults, queued, pf_outstanding, traceVars, spent>>
        /\ poolStop' = (poolStop \/ StopsPool) /\ open' = open
    BY <1>4 DEF Leave, Go, lifeVars
  <2>2. l \in Resting /\ at[Handler] \in Resting \ {"exit"}
    BY <2>1 DEF Resting
  <2>3. poolStop' \in BOOLEAN
    BY <2>1
  <2> HIDE DEF l
  <2>. QED
    BY <1>h, <2>1, <2>2, <2>3, RestKeeps
<1>5. CASE HandlerJoins
  <2>1. /\ at[Handler] = "join" /\ at' = [at EXCEPT ![Handler] = "exit"]
        /\ UNCHANGED <<opt, stop, main, job, faults, queued, pf_outstanding, traceVars, spent>>
        /\ poolStop' = poolStop /\ open' \subseteq open
    BY <1>5 DEF HandlerJoins, Go, poolVars
  <2>. QED
    BY <1>h, <2>1, RestKeeps DEF Resting, Typed
<1>6. CASE Fetching(Handler)
  BY <1>h, <1>6, FetchingKeepsTraces
<1>7. CASE PrefetchInline(Handler)
  BY <1>7, PrefetchInlineKeeps
<1>. QED
  BY <1>1, <1>2, <1>3, <1>4, <1>5, <1>6, <1>7 DEF Dispatching

LEMMA WorkingKeepsTraces ==
  ASSUME IndInv, TraceInv, NEW w \in Workers, Working(w)
  PROVE  TraceInv'
<1>h. w \in Threads /\ Typed
  BY HandlerIsThread DEF TraceInv
<1>1. CASE PickDemand(w)
  BY <1>1, PickDemandKeeps
<1>2. CASE PickPrefetch(w)
  BY <1>2, PickPrefetchKeeps
<1>3. CASE Exit(w)
  <2>1. /\ at[w] = "idle" /\ at' = [at EXCEPT ![w] = "exit"]
        /\ UNCHANGED <<opt, stop, main, job, faults, queued, pf_outstanding, traceVars, spent>>
        /\ poolStop' = poolStop /\ open' = open
    BY <1>3 DEF Exit, Go, lifeVars, poolVars
  <2>. QED
    BY <1>h, <2>1, RestKeeps DEF Resting, Typed
<1>4. CASE Fetching(w)
  BY <1>h, <1>4, FetchingKeepsTraces
<1>. QED
  BY <1>1, <1>2, <1>3, <1>4 DEF Working

LEMMA StutterKeepsTraces ==
  ASSUME TraceInv, UNCHANGED vars
  PROVE  TraceInv'
<1>1. UNCHANGED <<opt, stop, main, open, at, job, faults>>
  BY DEF vars, lifeVars
<1>2. UNCHANGED <<queued, pf_outstanding, poolStop, spent>>
  BY DEF vars, poolVars
<1>3. UNCHANGED <<fault_seq, faultFile, records, fetched, fetchFile>>
  BY DEF vars, traceVars
<1>4. Typed' /\ JobFits' /\ RecordsSound'
  BY <1>1, <1>2, <1>3 DEF TraceInv, Typed, JobFits, RecordsSound, HasPool, OwnPool
<1>5. NumbersSound' /\ NumbersOrdered'
  BY <1>1, <1>2, <1>3 DEF TraceInv, NumbersSound, NumbersOrdered, OneNumbers, HasPool, OwnPool
<1>6. Counts' /\ Flushed'
  BY <1>1, <1>2, <1>3 DEF TraceInv, Counts, Flushed, Logging, Owing, Nested, Asked, Ahead
<1>. QED
  BY <1>4, <1>5, <1>6 DEF TraceInv

LEMMA InitEstablishesTraces == Init => TraceInv
<1>. SUFFICES ASSUME Init PROVE TraceInv
  OBVIOUS
<1>1. /\ \A t \in Threads : at[t] \in {"loop", "idle", "exit"} /\ job[t] = NoJob
      /\ job = [t \in Threads |-> NoJob]
  BY DEF Init
<1>2. Typed
  <2>1. NoJob \in JobType
    BY DEF NoJob, JobType
  <2>2. job \in [Threads -> JobType]
    BY <1>1, <2>1
  <2>3. open \subseteq Shared \cup {"pool"} /\ main \in Places
    BY DEF Init, Shared, Places
  <2>4. faults \in [raised : Nat, unread : Nat, waiting : 0..Readers]
        /\ spent \in [prefetch : 0..Speculations, giveup : Nat]
    BY BoundsAssumption DEF Init
  <2>5. queued \in [{"demand", "prefetch"} -> Nat]
    BY DEF Init
  <2>6. faultFile \in Seq(Nat) /\ records \in Seq(EntryType) /\ Len(records) <= capacity
    BY BoundsAssumption DEF Init
  <2>. QED
    BY <2>2, <2>3, <2>4, <2>5, <2>6 DEF Typed, Init
<1>3. JobFits
  BY <1>1, <1>2 DEF JobFits, Resting, NoJob, Init, Typed
<1>4. RecordsSound /\ NumbersSound
  BY DEF RecordsSound, NumbersSound, Init
<1>5. NumbersOrdered
  <2>1. \A t \in Threads : at[t] \notin {"stamp", "log"}
    BY <1>1
  <2>. QED
    BY <2>1, HandlerIsThread DEF NumbersOrdered, Init
<1>6. Counts
  <2>1. Logging = {} /\ Owing = {} /\ Nested = {} /\ Asked = {} /\ Ahead = {}
    BY <1>1 DEF Logging, Owing, Nested, Asked, Ahead, NoJob
  <2>2. Cardinality({}) = 0
    BY FS_EmptySet
  <2>3. Len(faultFile) = 0 /\ Len(records) = 0
    BY DEF Init
  <2>4. fault_seq = 0 /\ fetched = 0 /\ pf_outstanding = 0 /\ spent.prefetch = 0
        /\ faults.waiting = 0 /\ faults.unread = 0 /\ queued["demand"] = 0
        /\ queued["prefetch"] = 0
    BY DEF Init
  <2>. QED
    BY <2>1, <2>2, <2>3, <2>4 DEF Counts
<1>7. Flushed
  BY DEF Init, Flushed, AfterFlush
<1>. QED
  BY <1>2, <1>3, <1>4, <1>5, <1>6, <1>7 DEF TraceInv

\* Every number fault_seq gave out is in the trace or in one thread's hand, and
\* every fetch has its record or a thread that owes it, although the number and
\* the record are taken and written in steps of their own (pager.c:66-80,
\* prefetch_pool.c:205-212, fetch_trace.c:26-39).
THEOREM TraceInvariance == Spec => []TraceInv
<1>1. Init => TraceInv
  BY InitEstablishesTraces
<1>2. IndInv /\ TraceInv /\ [Next]_vars => TraceInv'
  <2>. SUFFICES ASSUME IndInv, TraceInv, [Next]_vars PROVE TraceInv'
    OBVIOUS
  <2>1. CASE Running /\ Touch
    BY <2>1, TouchKeeps
  <2>2. CASE Dispatching
    BY <2>2, DispatchingKeepsTraces
  <2>3. CASE \E w \in Workers : Working(w)
    BY <2>3, WorkingKeepsTraces
  <2>4. CASE Main
    BY <2>4, MainKeepsTraces
  <2>5. CASE UNCHANGED vars
    BY <2>5, StutterKeepsTraces
  <2>. QED
    BY <2>1, <2>2, <2>3, <2>4, <2>5 DEF Next
<1>. QED
  BY <1>1, <1>2, ShutdownInvariance, PTL DEF Spec

\* When every thread has ended, none owes a record or holds a number.
LEMMA NothingOwed ==
  ASSUME IndInv, TraceInv, AllExited
  PROVE  /\ fault_seq = Len(faultFile) /\ fetched = Len(records)
         /\ \A n \in 1..Len(records) : records[n] = [seq |-> n, filled |-> TRUE]
         /\ \A k \in 1..fault_seq : \E n \in 1..Len(faultFile) : faultFile[n] = k
<1>h. Typed /\ JobFits /\ RecordsSound /\ NumbersSound /\ Counts
  BY DEF TraceInv
<1>1. \A t \in Threads : at[t] = "exit" /\ job[t].kind = "none"
  BY <1>h DEF AllExited, JobFits, Resting
<1>2. Logging = {} /\ Owing = {} /\ Nested = {}
  BY <1>1 DEF Logging, Owing, Nested
<1>3. Cardinality({}) = 0
  BY FS_EmptySet
<1>4. fault_seq = Len(faultFile) + 0 /\ fetched = Len(records) + 0 + 0
  BY <1>h, <1>2, <1>3 DEF Counts
<1>5. Len(faultFile) \in Nat /\ Len(records) \in Nat
  BY <1>h DEF Typed
<1>6. ASSUME NEW n \in 1..Len(records)
      PROVE  records[n] = [seq |-> n, filled |-> TRUE]
  <2>1. records[n] \in EntryType /\ records[n].seq = n /\ records[n].filled = TRUE
    <3>1. records[n] \in EntryType
      BY <1>h DEF Typed
    <3>. QED
      BY <1>h, <1>1, <3>1 DEF RecordsSound, EntryType
  <2>. QED
    BY <2>1 DEF EntryType
<1>7. \A k \in 1..fault_seq : \E n \in 1..Len(faultFile) : faultFile[n] = k
  BY <1>h, <1>1 DEF NumbersSound
<1>. QED
  BY <1>4, <1>5, <1>6, <1>7

LEMMA FilesAreWhole == IndInv /\ TraceInv => TracesWhole
<1>. SUFFICES ASSUME IndInv, TraceInv PROVE TracesWhole
  OBVIOUS
<1>h. Typed /\ JobFits /\ NumbersSound /\ NumbersOrdered /\ Counts /\ Flushed
  BY DEF TraceInv
<1>1. TypeOK
  <2>1. \A t \in Threads : job[t].seq \in 0..fault_seq /\ job[t].slot \in 0..Len(records)
    BY <1>h DEF Typed, JobFits, JobType
  <2>2. faults.unread \in 0..faults.waiting /\ faults.waiting \in 0..Readers
    <3>1. faults.unread \in Nat /\ faults.waiting \in 0..Readers /\ queued["demand"] \in Nat
          /\ Readers \in Nat
      BY <1>h, BoundsAssumption DEF Typed
    <3>2. Cardinality(Asked) \in Nat
      BY CountsExist DEF CountsAreNumbers
    <3>3. faults.waiting = faults.unread + queued["demand"] + Cardinality(Asked)
      BY <1>h DEF Counts
    <3>. QED
      BY <3>1, <3>2, <3>3
  <2>3. pf_outstanding \in 0..Speculations
    <3>1. pf_outstanding \in Nat /\ spent.prefetch \in 0..Speculations /\ Speculations \in Nat
      BY <1>h, BoundsAssumption DEF Typed
    <3>2. pf_outstanding <= spent.prefetch
      BY <1>h DEF Counts
    <3>. QED
      BY <3>1, <3>2
  <2>4. at \in [Threads -> Labels]
    BY DEF IndInv
  <2>5. /\ opt \in Handlers /\ stop \in BOOLEAN /\ poolStop \in BOOLEAN
        /\ main \in {"replay", "join", "pool", "joinpool", "fault", "flush", "fetch", "policy",
                     "teardown", "clear", "end", "aborted"}
        /\ queued \in [{"demand", "prefetch"} -> Nat] /\ Len(records) <= capacity
    BY <1>h DEF Typed, Places
  <2>6. open \subseteq {"fault", "fetch", "policy", "table", "metrics", "pool"}
    BY <1>h DEF Typed, Shared
  <2>. QED
    BY <2>1, <2>2, <2>3, <2>4, <2>5, <2>6 DEF TypeOK
<1>2. FlushedWhole
  <2> DEFINE entries == fetchFile.entries
  <2>. SUFFICES ASSUME main \in AfterFlush
                PROVE  /\ IF fetchFile.failed THEN Len(entries) <= fetched
                                               ELSE Len(entries) = fetched
                       /\ \A n \in 1..Len(entries) : entries[n] = [seq |-> n, filled |-> TRUE]
    BY DEF FlushedWhole, AfterFlush
  <2>1. AllExited
    BY DEF IndInv, MainWaits, AfterFlush, Closing
  <2>2. /\ fetched = Len(records) /\ Len(records) \in Nat /\ records \in Seq(EntryType)
        /\ \A n \in 1..Len(records) : records[n] = [seq |-> n, filled |-> TRUE]
    BY <1>h, <2>1, NothingOwed DEF Typed
  <2>3. CASE fetchFile.failed
    <3>1. PICK k \in 0..Len(records) : entries = SubSeq(records, 1, k)
      BY <1>h, <2>3 DEF Flushed
    <3>2. Len(entries) = k /\ \A n \in 1..k : entries[n] = records[n]
      BY <2>2, <3>1
    <3>. HIDE DEF entries
    <3>3. Len(entries) <= fetched
      BY <2>2, <3>2
    <3>4. ASSUME NEW n \in 1..Len(entries)
          PROVE  entries[n] = [seq |-> n, filled |-> TRUE]
      <4>1. n \in 1..k /\ n \in 1..Len(records)
        BY <2>2, <3>2
      <4>2. entries[n] = records[n]
        BY <3>2, <4>1
      <4>3. records[n] = [seq |-> n, filled |-> TRUE]
        BY <2>2, <4>1
      <4>. QED
        BY <4>2, <4>3
    <3>. QED
      BY <2>3, <3>3, <3>4
  <2>4. CASE ~ fetchFile.failed
    BY <1>h, <2>2, <2>4 DEF Flushed
  <2>. QED
    BY <2>3, <2>4
<1>3. FaultFileWhole
  <2>. SUFFICES ASSUME "fault" \notin open
                PROVE  Len(faultFile) = fault_seq /\ ToSet(faultFile) = 1..fault_seq
    BY DEF FaultFileWhole
  <2>1. AllExited
    BY DEF IndInv, MainWaits, Shared
  <2>2. Len(faultFile) = fault_seq
        /\ \A k \in 1..fault_seq : \E n \in 1..Len(faultFile) : faultFile[n] = k
    BY <2>1, NothingOwed
  <2>3. ToSet(faultFile) = {faultFile[n] : n \in 1..Len(faultFile)}
    BY <1>h DEF ToSet, Typed
  <2>4. \A n \in 1..Len(faultFile) : faultFile[n] \in 1..fault_seq
    BY <1>h DEF NumbersSound
  <2>. QED
    BY <2>2, <2>3, <2>4
<1>4. FaultFileOrdered
  BY <1>h DEF FaultFileOrdered, NumbersOrdered
<1>. QED
  BY <1>1, <1>2, <1>3, <1>4 DEF TracesWhole

\* The traces are whole when they are closed: one filled record for each fetch
\* carried out, each fault number once, and in their order when one thread gives
\* them (fetch_trace.c:41-61, trace.c:51-71, replay_main.c:366-405).
THEOREM TracesAreWhole == Spec => []TracesWhole
  BY ShutdownInvariance, TraceInvariance, FilesAreWhole, PTL

=============================================================================

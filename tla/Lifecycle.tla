----------------------------- MODULE Lifecycle ------------------------------
(***************************************************************************)
(* A run from its traces' opening to its region's end: who stops whom, who *)
(* is waited for, and what is closed or freed then.  Each fault is of a    *)
(* chunk of its own; what the pager does with chunks, bytes and locks is   *)
(* in Pager and SyncPager, and is here only the order in which a thread    *)
(* uses the traces, the pool and the table.                                *)
(***************************************************************************)
EXTENDS Naturals, Sequences, FiniteSets, SequencesExt

CONSTANTS
  Workers,       \* the pool's threads, if the run starts a pool
  Handlers,      \* what the command line may ask: records async, depth, prefetch
  capacity,      \* records fetch_trace_open allocates
  Readers,       \* bound: faults unanswered at a time
  Faults,        \* bound: faults of the run
  Speculations,  \* bound: prefetches of the run
  GiveUps        \* bound: fetches given up for want of budget

VARIABLES
  opt,           \* the member of Handlers chosen
  stop,          \* the flag pager_run polls
  main,          \* where main is
  at,            \* where each thread is
  job,           \* what each thread fetches: its kind, seq and slot
  need,          \* prefetches each thread may still queue in its top-up
  faults,        \* faults raised, of them unread and unanswered
  queued,        \* demand and prefetch jobs in the pool's queues
  pf_outstanding,
  poolStop,
  open,          \* what is neither closed nor freed
  fault_seq,
  faultFile,     \* the sequence numbers in the fault trace's file
  records,       \* the fetch trace's array
  fetched,       \* fetches carried out
  fetchFile,     \* what fetch_trace_flush wrote, and whether it failed
  spent          \* prefetches and give-ups so far

poolVars  == <<queued, pf_outstanding, poolStop>>
traceVars == <<fault_seq, faultFile, records, fetched, fetchFile>>
lifeVars  == <<opt, stop, main, open>>
vars      == <<lifeVars, at, job, faults, poolVars, traceVars, need, spent>>

Handler   == "pager"
Threads   == {Handler} \cup Workers

ASSUME WorkersAssumption == Handler \notin Workers /\ IsFiniteSet(Workers)

ASSUME BoundsAssumption == capacity \in Nat /\ Readers \in Nat /\ Speculations \in Nat

NoJob     == [kind |-> "none", seq |-> 0, slot |-> 0]

\* Who starts the pool: pager_run under the asynchronous handler, main for
\* prefetches only, under the other one.
OwnPool == ~opt.async /\ opt.prefetch /\ opt.depth > 1
HasPool == opt.async \/ OwnPool

Init ==
  /\ opt \in Handlers
  /\ stop = FALSE /\ poolStop = FALSE
  /\ main = "replay"
  /\ at = [t \in Threads |-> IF t = Handler THEN "loop"
                             ELSE IF HasPool THEN "idle" ELSE "exit"]
  /\ job = [t \in Threads |-> NoJob]
  /\ faults = [raised |-> 0, unread |-> 0, waiting |-> 0]
  /\ queued = [demand |-> 0, prefetch |-> 0]
  /\ pf_outstanding = 0
  /\ open = {"fault", "fetch", "policy", "table", "metrics"}
              \cup (IF HasPool THEN {"pool"} ELSE {})
  /\ fault_seq = 0 /\ faultFile = <<>>
  /\ records = <<>> /\ fetched = 0
  /\ fetchFile = [entries |-> <<>>, failed |-> FALSE]
  /\ need = [t \in Threads |-> 0]
  /\ spent = [prefetch |-> 0, giveup |-> 0]

Go(t, label) == at' = [at EXCEPT ![t] = label]

-----------------------------------------------------------------------------
(* The readers *)

\* A reader touches an absent chunk.
Touch ==
  /\ main = "replay"
  /\ faults.raised < Faults /\ faults.waiting < Readers
  /\ faults' = [raised  |-> faults.raised + 1,
                unread  |-> faults.unread + 1,
                waiting |-> faults.waiting + 1]
  /\ UNCHANGED <<lifeVars, at, job, poolVars, traceVars, need, spent>>

-----------------------------------------------------------------------------
(* pager_run *)

\* poll: the flag is looked at here only, then the queue is read to its end.
Poll ==
  /\ at[Handler] = "loop" /\ ~stop
  /\ faults.unread > 0
  /\ Go(Handler, "drain")
  /\ UNCHANGED <<lifeVars, job, faults, poolVars, traceVars, need, spent>>

ReadFault ==
  /\ at[Handler] = "drain" /\ faults.unread > 0
  /\ faults' = [faults EXCEPT !.unread = @ - 1]
  /\ job' = [job EXCEPT ![Handler] = [NoJob EXCEPT !.kind = "demand"]]
  /\ Go(Handler, "stamp")
  /\ UNCHANGED <<lifeVars, poolVars, traceVars, need, spent>>

EmptyQueue ==
  /\ at[Handler] = "drain" /\ faults.unread = 0
  /\ Go(Handler, "loop")
  /\ UNCHANGED <<lifeVars, job, faults, poolVars, traceVars, need, spent>>

StopsNothing == FALSE
StopsPool    == opt.async

\* After the loop the asynchronous handler stops its pool.
Leave ==
  /\ at[Handler] = "loop" /\ stop
  /\ Go(Handler, IF opt.async THEN "join" ELSE "exit")
  /\ poolStop' = (poolStop \/ StopsPool)
  /\ UNCHANGED <<lifeVars, job, faults, queued, pf_outstanding, traceVars, need, spent>>

WorkersExited == \A w \in Workers : at[w] = "exit"

HandlerJoins ==
  /\ at[Handler] = "join" /\ WorkersExited
  /\ Go(Handler, "exit")
  /\ open' = open \ {"pool"}
  /\ UNCHANGED <<opt, stop, main, job, faults, poolVars, traceVars, need, spent>>

-----------------------------------------------------------------------------
(* A fetch, by the handler or by a worker *)

TakeSeq(t) ==
  /\ at[t] = "stamp"
  /\ fault_seq' = fault_seq + 1
  /\ job' = [job EXCEPT ![t].seq = fault_seq']
  /\ Go(t, "log")
  /\ UNCHANGED <<lifeVars, faults, poolVars, faultFile, records, fetched, fetchFile, need, spent>>

Dispatches(t) == t = Handler /\ opt.async

\* trace_record, after which the dispatcher only queues the job.
TraceFault(t) ==
  /\ at[t] = "log"
  /\ faultFile' = Append(faultFile, job[t].seq)
  /\ Go(t, IF Dispatches(t) THEN "drain" ELSE "room")
  /\ job' = IF Dispatches(t) THEN [job EXCEPT ![t] = NoJob] ELSE job
  /\ queued' = IF Dispatches(t) THEN [queued EXCEPT !.demand = @ + 1] ELSE queued
  /\ UNCHANGED <<lifeVars, faults, pf_outstanding, poolStop, fault_seq, records, fetched,
                 fetchFile, need, spent>>

MakeRoom(t) ==
  /\ at[t] = "room"
  /\ Go(t, "read")
  /\ UNCHANGED <<lifeVars, job, faults, poolVars, traceVars, need, spent>>

\* The kinds of job that pf_outstanding counts.
Counted == {"prefetch"}

\* Where a thread goes after a fetch: an inline prefetch returns into the fetch
\* it was predicted by.
Finish(t) ==
  LET kind == job[t].kind IN
  /\ Go(t, IF kind = "inline" THEN "reserve" ELSE IF t = Handler THEN "drain" ELSE "idle")
  /\ job' = [job EXCEPT ![t] = IF kind = "inline" THEN [NoJob EXCEPT !.kind = "demand"]
                               ELSE NoJob]
  /\ pf_outstanding' = pf_outstanding - (IF kind \in Counted THEN 1 ELSE 0)

\* No room: a prefetch is dropped, a demand fetch wakes its reader to fault anew.
GiveUp(t) ==
  /\ at[t] = "room" /\ spent.giveup < GiveUps
  /\ spent' = [spent EXCEPT !.giveup = @ + 1]
  /\ faults' = IF job[t].kind = "demand" THEN [faults EXCEPT !.unread = @ + 1] ELSE faults
  /\ Finish(t)
  /\ UNCHANGED <<lifeVars, queued, poolStop, traceVars, need>>

\* Another fetch came to the chunk between the queueing and the picking.
DropPrefetch(t) ==
  /\ at[t] = "stamp" /\ job[t].kind = "prefetch"
  /\ Finish(t)
  /\ UNCHANGED <<lifeVars, faults, queued, poolStop, traceVars, need, spent>>

\* UFFDIO_CONTINUE lets the reader go on, long before the thread is done.
Fetch(t) ==
  /\ at[t] = "read"
  /\ fetched' = fetched + 1
  /\ faults' = IF job[t].kind = "demand" THEN [faults EXCEPT !.waiting = @ - 1] ELSE faults
  /\ Go(t, IF job[t].kind = "demand" /\ opt.prefetch THEN "predict" ELSE "reserve")
  /\ UNCHANGED <<lifeVars, job, poolVars, fault_seq, faultFile, records, fetchFile, need, spent>>

\* Nothing, or nothing more, is predicted.
NoPrediction(t) ==
  /\ at[t] \in {"predict", "topup"}
  /\ Go(t, "reserve")
  /\ need' = [need EXCEPT ![t] = 0]
  /\ UNCHANGED <<lifeVars, job, faults, poolVars, traceVars, spent>>

Missing == IF pf_outstanding < opt.depth THEN opt.depth - pf_outstanding ELSE 0

\* prefetch_pool_top_up reads once what is missing, in a critical section of its own...
ReadNeed(t) ==
  /\ at[t] = "predict" /\ HasPool
  /\ need' = [need EXCEPT ![t] = Missing]
  /\ Go(t, "topup")
  /\ UNCHANGED <<lifeVars, job, faults, poolVars, traceVars, spent>>

\* ... and queues up to as many, whatever the others queued since.
TopUp(t) ==
  /\ at[t] = "topup" /\ need[t] > 0 /\ spent.prefetch < Speculations
  /\ need' = [need EXCEPT ![t] = @ - 1]
  /\ queued' = [queued EXCEPT !.prefetch = @ + 1]
  /\ pf_outstanding' = pf_outstanding + 1
  /\ spent' = [spent EXCEPT !.prefetch = @ + 1]
  /\ UNCHANGED <<lifeVars, at, job, faults, poolStop, traceVars>>

\* maybe_prefetch
PrefetchInline(t) ==
  /\ at[t] = "predict" /\ ~HasPool /\ spent.prefetch < Speculations
  /\ job' = [job EXCEPT ![t] = [NoJob EXCEPT !.kind = "inline"]]
  /\ Go(t, "stamp")
  /\ spent' = [spent EXCEPT !.prefetch = @ + 1]
  /\ UNCHANGED <<lifeVars, faults, poolVars, traceVars, need>>

Record(n) == [seq |-> n, filled |-> FALSE]

\* The slot fetch_trace_reserve hands out.
SlotReused == IF records = <<>> THEN 1 ELSE Len(records)
Slot == Len(records) + 1

\* fetch_trace_reserve: the lock makes it one step, and a full array ends the run.
ReserveRecord(t) ==
  /\ at[t] = "reserve"
  /\ IF Len(records) < capacity
     THEN /\ records' = [n \in 1..Slot |-> IF n = Slot THEN Record(n) ELSE records[n]]
          /\ job' = [job EXCEPT ![t].slot = Slot]
          /\ Go(t, "fill")
          /\ main' = main
     ELSE /\ main' = "aborted"
          /\ UNCHANGED <<records, job, at>>
  /\ UNCHANGED <<opt, stop, open, faults, poolVars, fault_seq, faultFile, fetched, fetchFile, need, spent>>

FillRecord(t) ==
  /\ at[t] = "fill"
  /\ records' = [records EXCEPT ![job[t].slot].filled = TRUE]
  /\ Finish(t)
  /\ UNCHANGED <<lifeVars, faults, queued, poolStop, fault_seq, faultFile, fetched, fetchFile, need, spent>>

-----------------------------------------------------------------------------
(* worker_main *)

PickDemand(w) ==
  /\ at[w] = "idle" /\ queued.demand > 0
  /\ queued' = [queued EXCEPT !.demand = @ - 1]
  /\ job' = [job EXCEPT ![w] = [NoJob EXCEPT !.kind = "demand"]]
  /\ Go(w, "room")
  /\ UNCHANGED <<lifeVars, faults, pf_outstanding, poolStop, traceVars, need, spent>>

PickPrefetch(w) ==
  /\ at[w] = "idle" /\ queued.demand = 0 /\ queued.prefetch > 0
  /\ queued' = [queued EXCEPT !.prefetch = @ - 1]
  /\ job' = [job EXCEPT ![w] = [NoJob EXCEPT !.kind = "prefetch"]]
  /\ Go(w, "stamp")
  /\ UNCHANGED <<lifeVars, faults, pf_outstanding, poolStop, traceVars, need, spent>>

QueuesEmpty == queued.demand = 0 /\ queued.prefetch = 0

Exit(w) ==
  /\ at[w] = "idle" /\ QueuesEmpty /\ poolStop
  /\ Go(w, "exit")
  /\ UNCHANGED <<lifeVars, job, faults, poolVars, traceVars, need, spent>>

-----------------------------------------------------------------------------
(* main *)

MainGoes(from, to) == main = from /\ main' = to
OnlyMain == UNCHANGED <<opt, at, job, faults, queued, pf_outstanding, fault_seq, faultFile,
                        records, fetched, need, spent>>

ReplayOver == faults.waiting = 0

\* The replay returns: every touch of it was served.
EndReplay ==
  /\ MainGoes("replay", "join")
  /\ ReplayOver
  /\ stop' = TRUE
  /\ OnlyMain /\ UNCHANGED <<poolStop, open, fetchFile>>

HandlerStarted == at[Handler] # "none"
HandlerExited == at[Handler] = "exit"

JoinHandler ==
  /\ MainGoes("join", IF OwnPool THEN "pool" ELSE "fault")
  /\ HandlerExited
  /\ OnlyMain /\ UNCHANGED <<stop, poolStop, open, fetchFile>>

StopPool ==
  /\ MainGoes("pool", "joinpool")
  /\ poolStop' = TRUE
  /\ OnlyMain /\ UNCHANGED <<stop, open, fetchFile>>

JoinPool ==
  /\ MainGoes("joinpool", "fault")
  /\ WorkersExited
  /\ open' = open \ {"pool"}
  /\ OnlyMain /\ UNCHANGED <<stop, poolStop, fetchFile>>

CloseFaultTrace ==
  /\ MainGoes("fault", "flush")
  /\ open' = open \ {"fault"}
  /\ OnlyMain /\ UNCHANGED <<stop, poolStop, fetchFile>>

FlushFetchTrace ==
  /\ MainGoes("flush", "fetch")
  /\ fetchFile' = [entries |-> records, failed |-> FALSE]
  /\ OnlyMain /\ UNCHANGED <<stop, poolStop, open>>

\* The open fails, or a write does after the first records: main goes on.
FlushFails ==
  /\ MainGoes("flush", "fetch")
  /\ \E n \in {0} \cup 0..(Len(records) - 1) :
       fetchFile' = [entries |-> SubSeq(records, 1, n), failed |-> TRUE]
  /\ OnlyMain /\ UNCHANGED <<stop, poolStop, open>>

CloseFetchTrace ==
  /\ MainGoes("fetch", "policy")
  /\ open' = open \ {"fetch"}
  /\ OnlyMain /\ UNCHANGED <<stop, poolStop, fetchFile>>

ClosePolicyTrace ==
  /\ MainGoes("policy", "teardown")
  /\ open' = open \ {"policy"}
  /\ OnlyMain /\ UNCHANGED <<stop, poolStop, fetchFile>>

\* region_teardown frees the table some time before it clears the region.
FreeTable ==
  /\ MainGoes("teardown", "clear")
  /\ open' = open \ {"table"}
  /\ OnlyMain /\ UNCHANGED <<stop, poolStop, fetchFile>>

ClearRegion ==
  /\ MainGoes("clear", "end")
  /\ open' = open \ {"metrics"}
  /\ OnlyMain /\ UNCHANGED <<stop, poolStop, fetchFile>>

Main == \/ EndReplay \/ JoinHandler \/ StopPool \/ JoinPool \/ CloseFaultTrace
        \/ FlushFetchTrace \/ FlushFails \/ CloseFetchTrace \/ ClosePolicyTrace \/ FreeTable \/ ClearRegion

-----------------------------------------------------------------------------
Fetching(t) ==
  \/ TakeSeq(t) \/ TraceFault(t) \/ MakeRoom(t) \/ GiveUp(t) \/ DropPrefetch(t) \/ Fetch(t)
  \/ NoPrediction(t) \/ ReadNeed(t) \/ TopUp(t) \/ ReserveRecord(t) \/ FillRecord(t)

Running == main # "aborted"

Dispatching == Running /\ (Poll \/ ReadFault \/ EmptyQueue \/ Leave \/ HandlerJoins
                            \/ Fetching(Handler) \/ PrefetchInline(Handler))
Working(w)  == Running /\ (PickDemand(w) \/ PickPrefetch(w) \/ Exit(w) \/ Fetching(w))

Next == \/ Running /\ Touch
        \/ Dispatching \/ (\E w \in Workers : Working(w)) \/ Main

Spec == Init /\ [][Next]_vars

\* Threads are scheduled, and the readers come to the end of their run.
FairSpec == Spec /\ WF_vars(Dispatching) /\ (\A w \in Workers : WF_vars(Working(w)))
                 /\ WF_vars(Main)

-----------------------------------------------------------------------------
(* Properties *)

Labels == {"loop", "drain", "join", "idle", "exit", "stamp", "log", "room", "read",
           "predict", "topup", "reserve", "fill"}

\* Every variable has a value the code could give it.
TypeOK ==
  /\ opt \in Handlers /\ stop \in BOOLEAN /\ poolStop \in BOOLEAN
  /\ main \in {"replay", "join", "pool", "joinpool", "fault", "flush", "fetch", "policy",
               "teardown", "clear", "end", "aborted"}
  /\ at \in [Threads -> Labels]
  /\ \A t \in Threads : job[t].seq \in 0..fault_seq /\ job[t].slot \in 0..Len(records)
  /\ faults.unread \in 0..faults.waiting /\ faults.waiting \in 0..Readers
  /\ queued \in [{"demand", "prefetch"} -> Nat]
  /\ pf_outstanding \in 0..Speculations
  /\ open \subseteq {"fault", "fetch", "policy", "table", "metrics", "pool"}
  /\ Len(records) <= capacity

\* What a thread's next step reads or writes.
Uses(t) ==
  CASE at[t] = "exit"               -> {}
    [] at[t] \in {"idle", "join"}   -> {"pool"}
    [] at[t] \in {"loop", "drain"}  -> {"table", "metrics"}
    [] at[t] = "log"                -> {"table", "fault"}
                                         \cup (IF Dispatches(t) THEN {"pool"} ELSE {})
    [] at[t] = "room"               -> {"table", "policy"}
    [] at[t] \in {"predict", "topup"} -> {"table"} \cup (IF HasPool THEN {"pool"} ELSE {})
    [] at[t] \in {"reserve", "fill"} -> {"fetch", "metrics"}
    [] OTHER                        -> {"table"}

\* No thread is about to use a trace that is closed, the pool, the chunk table
\* or the metrics when they are gone: pager_run joins its workers before it
\* returns, main joins pager_run, then its own pool, and closes afterwards.
NothingUsedAfterClose == \A t \in Threads : Uses(t) \subseteq open

FlushedWhole ==
  main \in {"fetch", "policy", "teardown", "clear", "end"} =>
    LET entries == fetchFile.entries IN
    /\ IF fetchFile.failed THEN Len(entries) <= fetched ELSE Len(entries) = fetched
    /\ \A n \in 1..Len(entries) : entries[n] = [seq |-> n, filled |-> TRUE]

FaultFileWhole ==
  "fault" \notin open => /\ Len(faultFile) = fault_seq
                         /\ ToSet(faultFile) = 1..fault_seq

\* The threads that number faults: under the asynchronous handler the
\* dispatcher for every demand fetch, and a worker for its prefetch.
OneNumbers == ~(HasPool /\ opt.prefetch)

FaultFileOrdered ==
  OneNumbers => \A m, n \in 1..Len(faultFile) : m < n => faultFile[m] < faultFile[n]

\* The files are whole (and every variable has its type). The fetch trace, which "writes all reserved records",
\* has one record for each fetch carried out, filled in to its end and numbered
\* by its place; a flush that fails leaves the first of them. The fault trace, once closed, has every number fault_seq gave
\* out, once, although a number is taken and written in two steps, in several
\* threads at a time; and it is in their order when only one thread numbers.
TracesWhole == TypeOK /\ FlushedWhole /\ FaultFileWhole /\ FaultFileOrdered

\* Every run comes to its end, every thread joined, or is aborted by a full
\* trace: a worker that waits for work is woken by the stop, and one with work
\* does all of it first.
ShutdownEnds == <>(main \in {"end", "aborted"})

=============================================================================

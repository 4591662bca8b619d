----------------------------- MODULE SyncPager ------------------------------
(***************************************************************************)
(* --sync-handler at prefetch depth 1: one thread handles each fault to    *)
(* the end, fetch and inline prefetch included, for replay_cyclic, which   *)
(* reads the chunks in order, pass after pass.  The victims and the        *)
(* predictions are those of the policy of the run.                         *)
(*                                                                         *)
(* The handler is in "room" or "proom" as long as it holds budget_lock for *)
(* ensure_budget or ensure_budget_prefetch; every other section under that *)
(* lock is part of one step.  The handler holds the lock of the chunk it   *)
(* handles from HandleFault to Unpin, and that of its prefetch target from *)
(* Predict to Retain or PrefetchGivesUp.                                   *)
(***************************************************************************)
EXTENDS Policies, Functions

CONSTANTS
  Setups,           \* regions and flags a run may be started with
  MaxFaults         \* bound on the faults of a run that never ends

SetupType ==
  [ChunkLen : [Chunks -> Nat \ {0}], budget_bytes : Nat, n_passes : Nat,
   prefetch_enabled : BOOLEAN, prefetch_retention_pinned : BOOLEAN,
   prefetch_admission_always : BOOLEAN]

ASSUME SetupsAssumption == Setups \subseteq SetupType

VARIABLES
  setup,                           \* region_t and the flags, fixed at the start
  state, pin,                      \* chunk_t
  resident_bytes, reserved_bytes,
  retained,                        \* pinned_prefetch_queue, oldest first
  mapped,                          \* chunks that can be read without a fault
  message,                         \* the chunk of a fault not read yet
  fault_seq,
  handler,                         \* where the handler is, and its two chunks
  driver                           \* where the replay is, and its touches

chunkVars  == <<state, pin, mapped>>
budgetVars == <<resident_bytes, reserved_bytes, retained>>
declVars   == <<seq, pos>>
learnVars  == <<last_fault_seq, last_fetched, successor, fault_seq>>
fixedVars  == <<setup, opt>>
vars       == <<fixedVars, declVars, learnVars, chunkVars, budgetVars, message, handler, driver>>

ChunkLen                  == setup.ChunkLen
budget_bytes              == setup.budget_bytes
n_passes                  == setup.n_passes
prefetch_enabled          == setup.prefetch_enabled
prefetch_retention_pinned == setup.prefetch_retention_pinned
prefetch_admission_always == setup.prefetch_admission_always

n_touches == n_passes * n_chunks
touched   == driver.touch % n_chunks

Init ==
  /\ PolicyInit
  /\ setup \in Setups
  /\ state = [c \in Chunks |-> "ABSENT"]
  /\ pin = [c \in Chunks |-> 0]
  /\ resident_bytes = 0
  /\ reserved_bytes = 0
  /\ retained = <<>>
  /\ mapped = {}
  /\ message = NoChunk
  /\ fault_seq = 0
  /\ handler = [at |-> "idle", chunk |-> NoChunk, target |-> NoChunk]
  /\ driver = [at |-> "declare", touch |-> 0]

HandlerAt(label) == handler.at = label
HandlerGoes(label) == handler' = [handler EXCEPT !.at = label]
DriverGoes(label) == driver' = [driver EXCEPT !.at = label]

budget_locked == handler.at \in {"room", "proom"}

-----------------------------------------------------------------------------
(* replay_main and replay_cyclic. *)

\* The order of the replay is declared before the first touch.
DeclareOrder ==
  /\ driver.at = "declare"
  /\ DeclareSequence([i \in 1..n_chunks |-> i - 1])
  /\ DriverGoes("notify")
  /\ UNCHANGED <<fixedVars, learnVars, chunkVars, budgetVars, message, handler>>

\* pager_notify_access, its two sections under budget_lock.
NotifyPolicy ==
  /\ driver.at = "notify"
  /\ ~ budget_locked
  /\ driver.touch < n_touches
  /\ OnAccess(touched)
  /\ DriverGoes(IF prefetch_retention_pinned THEN "release" ELSE "read")
  /\ UNCHANGED <<fixedVars, seq, learnVars, chunkVars, budgetVars, message, handler>>

DropPin(c) == pin' = [pin EXCEPT ![c] = @ - 1]

\* prefetch_retain_release: the tail of the queue is shifted down.
IsRetained(c) == \E i \in DOMAIN retained : retained[i] = c
Without(s, c) ==
  LET i == CHOOSE k \in DOMAIN s : s[k] = c
  IN  [j \in 1..(Len(s) - 1) |-> IF j < i THEN s[j] ELSE s[j + 1]]
Release(c) ==
  IF IsRetained(c)
  THEN retained' = Without(retained, c) /\ DropPin(c)
  ELSE UNCHANGED <<retained, pin>>

NotifyRetention ==
  /\ driver.at = "release"
  /\ ~ budget_locked
  /\ Release(touched)
  /\ DriverGoes("read")
  /\ UNCHANGED <<fixedVars, declVars, learnVars, state, mapped, resident_bytes, reserved_bytes, message, handler>>

\* All pages of the chunk are read, or the first of them faults.
Read ==
  /\ driver.at = "read"
  /\ driver' = IF touched \in mapped THEN [at |-> "notify", touch |-> driver.touch + 1]
               ELSE [driver EXCEPT !.at = "missed"]
  /\ UNCHANGED <<fixedVars, declVars, learnVars, chunkVars, budgetVars, message, handler>>

\* userfaultfd queues the fault, and then looks whether the page has come
\* meanwhile; by that time the handler may have read the message.
Fault ==
  /\ driver.at = "missed"
  /\ message' = touched
  /\ DriverGoes("queued")
  /\ UNCHANGED <<fixedVars, declVars, learnVars, chunkVars, budgetVars, handler>>

MustWait ==
  /\ driver.at = "queued"
  /\ IF touched \in mapped THEN message' = NoChunk /\ DriverGoes("read")
     ELSE DriverGoes("blocked") /\ UNCHANGED message
  /\ UNCHANGED <<fixedVars, declVars, learnVars, chunkVars, budgetVars, handler>>

-----------------------------------------------------------------------------
(* The handler. *)

\* UFFDIO_CONTINUE and UFFDIO_WAKE take the fault of the thread they wake.
Wake(c) ==
  IF driver.at \in {"queued", "blocked"} /\ touched = c
  THEN DriverGoes("read") /\ message' = NoChunk
  ELSE UNCHANGED <<driver, message>>

\* The chunk becomes FETCHING and gets its place in the order of faults.
Stamp(c) ==
  /\ state' = [state EXCEPT ![c] = "FETCHING"]
  /\ fault_seq' = fault_seq + 1
  /\ last_fault_seq' = [last_fault_seq EXCEPT ![c] = fault_seq + 1]

HandleFault ==
  /\ HandlerAt("idle")
  /\ message # NoChunk
  /\ fault_seq < MaxFaults
  /\ CASE state[message] = "RESIDENT" ->
            Wake(message) /\ UNCHANGED <<handler, state, learnVars>>
       [] state[message] = "FETCHING" ->
            message' = NoChunk /\ UNCHANGED <<driver, handler, state, learnVars>>
       [] state[message] = "ABSENT" ->
            /\ Stamp(message)
            /\ OnFault(message)
            /\ handler' = [at |-> "room", chunk |-> message, target |-> NoChunk]
            /\ message' = NoChunk
            /\ UNCHANGED driver
  /\ UNCHANGED <<fixedVars, declVars, pin, mapped, budgetVars>>

Fits(c) == resident_bytes + reserved_bytes + ChunkLen[c] <= budget_bytes

AnyResident == {c \in Chunks : state[c] = "RESIDENT"}
Evictable == {c \in Chunks : state[c] = "RESIDENT" /\ pin[c] = 0}

EvictKeepingMapping(c) ==
  /\ state' = [state EXCEPT ![c] = "ABSENT"]
  /\ resident_bytes' = resident_bytes - ChunkLen[c]
  /\ UNCHANGED mapped
EvictKeepingState(c) ==
  /\ mapped' = mapped \ {c}
  /\ resident_bytes' = resident_bytes - ChunkLen[c]
  /\ UNCHANGED state
Evict(c) ==
  /\ state' = [state EXCEPT ![c] = "ABSENT"]
  /\ mapped' = mapped \ {c}
  /\ resident_bytes' = resident_bytes - ChunkLen[c]

Reserve(c) == reserved_bytes' = reserved_bytes + ChunkLen[c]

NeverBreak == NoChunk

\* pin_break_select_victim: the oldest of the retained that rank highest.
BreakVictim ==
  LET resident == {i \in DOMAIN retained : state[retained[i]] = "RESIDENT"}
      farthest == {i \in resident : \A j \in resident :
                     NextUseDistance(retained[j]) <= NextUseDistance(retained[i])} IN
  IF prefetch_retention_pinned /\ resident # {} THEN retained[Min(farthest)] ELSE NoChunk

\* ensure_budget for the fault: one round of its loop.
MakeRoom ==
  LET c == handler.chunk
      v == SelectVictim(Evictable) IN
  /\ HandlerAt("room")
  /\ \/ /\ Fits(c)
        /\ Reserve(c)
        /\ HandlerGoes("fetch")
        /\ UNCHANGED <<state, pin, mapped, resident_bytes, retained, driver, message>>
     \/ /\ ~ Fits(c) /\ v # NoChunk
        /\ Evict(v)
        /\ UNCHANGED <<handler, pin, reserved_bytes, retained, driver, message>>
     \/ /\ ~ Fits(c) /\ v = NoChunk /\ BreakVictim # NoChunk
        /\ Release(BreakVictim)
        /\ Evict(BreakVictim)
        /\ UNCHANGED <<handler, reserved_bytes, driver, message>>
  /\ UNCHANGED <<fixedVars, declVars, learnVars>>

\* The fault is given up, to be taken again.
Abandon ==
  /\ HandlerAt("room")
  /\ ~ Fits(handler.chunk) /\ SelectVictim(Evictable) = NoChunk /\ BreakVictim = NoChunk
  /\ state' = [state EXCEPT ![handler.chunk] = "ABSENT"]
  /\ Wake(handler.chunk)
  /\ handler' = [handler EXCEPT !.at = "idle", !.chunk = NoChunk]
  /\ UNCHANGED <<fixedVars, declVars, learnVars, pin, mapped, budgetVars>>

Resolve(c) == mapped' = mapped \cup {c}

\* fetch_chunk: the bytes, then UFFDIO_CONTINUE, for the fault or the prefetch.
Fetch(from, to, c) ==
  /\ HandlerAt(from)
  /\ Resolve(c)
  /\ Wake(c)
  /\ HandlerGoes(to)
  /\ UNCHANGED <<fixedVars, declVars, learnVars, state, pin, budgetVars>>

CommitBytes(c) ==
  /\ reserved_bytes' = reserved_bytes - ChunkLen[c]
  /\ resident_bytes' = resident_bytes + ChunkLen[c]
  /\ state' = [state EXCEPT ![c] = "RESIDENT"]

Pinned(p, c) == [p EXCEPT ![c] = @ + 1]
Unpinned(p, c) == [p EXCEPT ![c] = @ - 1]

\* commit_reserved_and_pin, and RESIDENT.
Commit ==
  /\ HandlerAt("commit")
  /\ CommitBytes(handler.chunk)
  /\ pin' = Pinned(pin, handler.chunk)
  /\ HandlerGoes(IF prefetch_enabled THEN "predict" ELSE "unpin")
  /\ UNCHANGED <<fixedVars, declVars, learnVars, mapped, retained, message, driver>>

Unpin ==
  /\ HandlerAt("unpin")
  /\ pin' = Unpinned(pin, handler.chunk)
  /\ handler' = [at |-> "idle", chunk |-> NoChunk, target |-> NoChunk]
  /\ UNCHANGED <<fixedVars, declVars, learnVars, state, mapped, budgetVars, message, driver>>

-----------------------------------------------------------------------------
(* maybe_prefetch, after the fault's own chunk is resident and pinned. *)

\* The pins that it takes on both chunks, without budget_lock.
PinBoth == Pinned(Pinned(pin, PredictNext(handler.chunk)), handler.chunk)

Predict ==
  LET c == handler.chunk
      t == PredictNext(c) IN
  /\ HandlerAt("predict")
  /\ IF t = c \/ t \notin {x \in Chunks : state[x] = "ABSENT"}
     THEN HandlerGoes("unpin") /\ UNCHANGED <<state, pin, fault_seq, last_fault_seq>>
     ELSE /\ Stamp(t)
          /\ pin' = PinBoth
          /\ handler' = [handler EXCEPT !.at = "claimed", !.target = t]
  /\ UNCHANGED <<fixedVars, declVars, last_fetched, successor, mapped, budgetVars, message, driver>>

LockBudget ==
  /\ HandlerAt("claimed")
  /\ HandlerGoes("proom")
  /\ UNCHANGED <<fixedVars, declVars, learnVars, chunkVars, budgetVars, message, driver>>

\* prefetch_admit: what is given up must be needed strictly later.
Admitted(v) ==
  \/ prefetch_admission_always
  \/ opt.policy = "default"
  \/ NextUseDistance(v) > NextUseDistance(handler.target)

\* ensure_budget_prefetch: one round of its loop.
MakePrefetchRoom ==
  LET t == handler.target
      v == SelectVictim(Evictable) IN
  /\ HandlerAt("proom")
  /\ \/ /\ Fits(t)
        /\ Reserve(t)
        /\ pin' = Unpinned(pin, handler.chunk)
        /\ HandlerGoes("pfetch")
        /\ UNCHANGED <<state, mapped, resident_bytes>>
     \/ /\ ~ Fits(t) /\ v # NoChunk /\ Admitted(v)
        /\ Evict(v)
        /\ UNCHANGED <<handler, pin, reserved_bytes>>
  /\ UNCHANGED <<fixedVars, declVars, learnVars, retained, message, driver>>

PrefetchGivesUp ==
  LET t == handler.target
      v == SelectVictim(Evictable) IN
  /\ HandlerAt("proom")
  /\ ~ Fits(t)
  /\ v # NoChunk => ~ Admitted(v)
  /\ pin' = Unpinned(Unpinned(pin, handler.chunk), t)
  /\ state' = [state EXCEPT ![t] = "ABSENT"]
  /\ Wake(t)
  /\ HandlerGoes("unpin")
  /\ UNCHANGED <<fixedVars, declVars, learnVars, mapped, budgetVars>>

\* The target is resident.  Its pin passes to the retention queue, which holds
\* one chunk at this depth, or is dropped.
KeepOldest == UNCHANGED pin
DropOldest == IF retained = <<>> THEN UNCHANGED pin ELSE pin' = Unpinned(pin, Head(retained))

Retain ==
  /\ HandlerAt("pcommit")
  /\ CommitBytes(handler.target)
  /\ IF prefetch_retention_pinned
     THEN DropOldest /\ retained' = <<handler.target>>
     ELSE pin' = Unpinned(pin, handler.target) /\ UNCHANGED retained
  /\ handler' = [handler EXCEPT !.at = "unpin", !.target = NoChunk]
  /\ UNCHANGED <<fixedVars, declVars, learnVars, mapped, message, driver>>

-----------------------------------------------------------------------------
Driver == DeclareOrder \/ NotifyPolicy \/ NotifyRetention \/ Read \/ Fault \/ MustWait

Handler ==
  \/ HandleFault \/ MakeRoom \/ Abandon \/ Commit \/ Unpin
  \/ Fetch("fetch", "commit", handler.chunk)
  \/ Predict \/ LockBudget \/ MakePrefetchRoom \/ PrefetchGivesUp
  \/ Fetch("pfetch", "pcommit", handler.target)
  \/ Retain

Finished == driver.at = "notify" /\ driver.touch = n_touches

Next == Driver \/ Handler \/ (Finished /\ UNCHANGED vars)

Spec == Init /\ [][Next]_vars
FairSpec == Spec /\ WF_vars(Driver) /\ WF_vars(Handler)

-----------------------------------------------------------------------------
TypeOK ==
  /\ PolicyTypeOK /\ setup \in Setups
  /\ state \in [Chunks -> {"ABSENT", "FETCHING", "RESIDENT"}]
  /\ pin \in [Chunks -> 0..3]
  /\ resident_bytes \in 0..budget_bytes /\ reserved_bytes \in 0..budget_bytes
  /\ Len(retained) <= 1 /\ Range(retained) \subseteq Chunks
  /\ mapped \subseteq Chunks
  /\ message \in Chunks \cup {NoChunk}
  /\ driver.touch \in 0..n_touches

InPrefetch == handler.at \in {"claimed", "proom", "pfetch", "pcommit"}

One(owns) == IF owns THEN 1 ELSE 0

\* Every pin has an owner: the retention queue, the prefetch in flight, the
\* fault being handled, and that fault once more while room is made.
PinsOwned ==
  \A c \in Chunks :
    pin[c] = One(c \in Range(retained))
           + One(InPrefetch /\ c = handler.target)
           + One(c = handler.chunk /\ handler.at \notin {"room", "fetch", "commit"})
           + One(c = handler.chunk /\ handler.at \in {"claimed", "proom"})

\* maybe_prefetch changes pins without budget_lock while pager_notify_access
\* changes others under it: they are never the pins of the same chunk, so no
\* update is lost.
UnlockedPinsArePrivate ==
  InPrefetch => {handler.chunk, handler.target} \cap Range(retained) = {}

\* A message for a FETCHING chunk is dropped on the promise of a later wake; the
\* handler leaves no such chunk behind, and no reservation, whichever way a
\* fetch or a prefetch ended.
NothingLeftInFlight ==
  HandlerAt("idle") =>
    /\ \A c \in Chunks : state[c] # "FETCHING"
    /\ reserved_bytes = 0
    /\ mapped = {c \in Chunks : state[c] = "RESIDENT"}

\* Whatever way a fetch or a prefetch ends, early returns included, it leaks no
\* pin, reservation or claim (pager.c:111-124, :246-250, prefetch.c:46-82, budget.c:319-337).
NothingLeaked == TypeOK /\ PinsOwned /\ UnlockedPinsArePrivate /\ NothingLeftInFlight

\* evict_chunk locks its victim, and the handler's locks are not recursive: what
\* the policy would give up is never a chunk that the handler has locked itself.
NoSelfLock ==
  LET mine == {handler.chunk, handler.target} \ {NoChunk} IN
  budget_locked => SelectVictim(Evictable) \notin mine /\ BreakVictim \notin mine

\* pager.c:87 retries only above depth 1.  It need not at depth 1: as long as
\* the chunk fits the budget at all, its fault finds something to evict or a retained
\* chunk to break.
DemandNeverInfeasible ==
  HandlerAt("room") /\ ChunkLen[handler.chunk] <= budget_bytes =>
    Fits(handler.chunk) \/ Evictable # {} \/ BreakVictim # NoChunk

\* The fault being handled can always make its room, and without waiting for
\* itself (pager.c:87, prefetch.c:54-59, budget.c:85-86).
RoomCanBeMade == NoSelfLock /\ DemandNeverInfeasible

EveryChunkFits == \A c \in Chunks : ChunkLen[c] <= budget_bytes
TwoChunksFit   == \A c, d \in Chunks : c # d => ChunkLen[c] + ChunkLen[d] <= budget_bytes

\* With the declared order, making room for a prefetch or a fault takes away
\* neither the chunk that the replay is about to read nor one prefetched and
\* still retained, as long as each chunk leaves room for another: no fault has
\* to break a pin (budget.c:183-186, region.h:181-188, pager.c:137-143).
PrefetchDisplacesNothing ==
  [][opt.policy = "declared" /\ TwoChunksFit =>
       /\ driver.at = "read" /\ touched \in mapped => touched \in mapped'
       /\ Range(retained) \subseteq mapped'
    ]_vars

\* The replay ends if every chunk fits: every fault is answered, and for good
\* (pager.c handle_absent, replay.c replay_cyclic).
ReplayFinishes == EveryChunkFits => <>Finished

=============================================================================

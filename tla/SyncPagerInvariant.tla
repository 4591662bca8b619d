------------------------- MODULE SyncPagerInvariant -------------------------
(***************************************************************************)
(* The promise of Residency in the terms of SyncPager, and the inductive   *)
(* invariant from which that promise and the properties of SyncPager       *)
(* follow; SyncPagerProofs proves it for every instance.                   *)
(***************************************************************************)
EXTENDS SyncPager

\* The steps before the chunk of the fault is RESIDENT.
InFault == handler.at \in {"room", "fetch", "commit"}

Held == {c \in Chunks : state[c] = "RESIDENT"}
Claimed ==
  CASE handler.at \in {"fetch", "commit"}   -> {handler.chunk}
    [] handler.at \in {"pfetch", "pcommit"} -> {handler.target}
    [] OTHER                                -> {}

Faulting == driver.at \in {"queued", "blocked"}
WaitsFor ==
  [t \in {"driver"} |-> IF Faulting /\ touched \notin mapped THEN touched ELSE NoChunk]

Promise == INSTANCE Residency WITH
  Readers  <- {"driver"},
  claimed  <- Claimed,
  held     <- Held,
  readable <- mapped,
  blocked  <- WaitsFor

\* The single-threaded handler makes the same promise as the pool: its steps,
\* and the driver's, are steps of Residency or none of it (region.h, budget.h).
KeepsPromise == Promise!Spec

-----------------------------------------------------------------------------
\* The handler and the driver between two steps.
LocalsSet ==
  /\ handler \in [at : {"idle", "room", "fetch", "commit", "predict", "claimed",
                        "proom", "pfetch", "pcommit", "unpin"},
                  chunk : Chunks \cup {NoChunk}, target : Chunks \cup {NoChunk}]
  /\ driver \in [at : {"declare", "notify", "release", "read", "missed", "queued", "blocked"},
                 touch : Nat]
  /\ driver.at \notin {"declare", "notify"} => driver.touch < n_touches
  /\ handler.at = "idle" <=> handler.chunk = NoChunk
  /\ InFault => handler.target = NoChunk
  /\ InPrefetch => handler.target \in Chunks \ {handler.chunk}

\* The states of the handler's own chunks, and that no other is FETCHING.
StagesMatch ==
  /\ InFault => state[handler.chunk] = "FETCHING"
  /\ ~ InFault /\ handler.at # "idle" => handler.chunk \in Held
  /\ InPrefetch => state[handler.target] = "FETCHING"
  /\ \A c \in Chunks : state[c] = "FETCHING" =>
       \/ InFault /\ c = handler.chunk
       \/ InPrefetch /\ c = handler.target

\* A chunk is mapped one step before it is RESIDENT.
MappedExact ==
  mapped = Held \cup (IF handler.at \in {"commit", "pcommit"} THEN Claimed ELSE {})

\* At depth 1 the retention queue holds one chunk, resident, and never that of
\* the fault being handled.
RetentionSound ==
  retained # <<>> => /\ prefetch_retention_pinned
                     /\ \E c \in Held \ {handler.chunk} : retained = <<c>>

BytesOf(S) == Cardinality(UNION {{c} \X (1..ChunkLen[c]) : c \in S})

AccountsInv ==
  /\ resident_bytes = BytesOf(Held)
  /\ reserved_bytes = BytesOf(Claimed)
  /\ resident_bytes + reserved_bytes <= budget_bytes

\* The one message is the driver's, the fault being handled is the driver's, and
\* what the driver waits for is not mapped as long as the handler may evict.
MessageHonest ==
  /\ message # NoChunk => message = touched /\ Faulting
  /\ handler.at \in {"room", "fetch"} => handler.chunk = touched /\ Faulting
  /\ /\ handler.at \in {"commit", "predict", "claimed", "proom"}
     /\ driver.at = "missed" \/ Faulting
     => touched \notin mapped

IndInv ==
  /\ TypeOK
  /\ LocalsSet
  /\ StagesMatch
  /\ MappedExact
  /\ RetentionSound
  /\ PinsOwned
  /\ AccountsInv
  /\ MessageHonest

=============================================================================

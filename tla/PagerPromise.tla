---------------------------- MODULE PagerPromise ----------------------------
(***************************************************************************)
(* Pager seen from outside: the promise of Residency, in the terms of the  *)
(* pager's own state.                                                      *)
(***************************************************************************)
EXTENDS PagerInvariant

\* What each reader is blocked on.
WaitsFor ==
  [t \in AppThreads |->
     IF app[t].st \in {"queued", "waiting"} THEN app[t].c ELSE NoChunk]

Promise == INSTANCE Residency WITH
  Readers  <- AppThreads,
  claimed  <- Claimed,
  held     <- Held,
  readable <- mapped,
  blocked  <- WaitsFor

\* Every step of the threads of the pager is a step of the promise it makes, or
\* no step of it at all (region.h, budget.h: the budget; fetch.c: readable only
\* when filled; pager.c: a released reader retries).
KeepsPromise == Promise!Spec

\* What the counters and the page table say of the chunks held and claimed.
\* AccountingExact follows.
AccountsInv ==
  /\ resident_bytes = BytesOf(Held)
  /\ reserved_bytes = BytesOf(Claimed)
  /\ Held \subseteq populated
  /\ populated \subseteq Held \cup Claimed

=============================================================================

----------------------------- MODULE Lookahead -----------------------------
(***************************************************************************)
(* replay_cyclic_mt: n_threads threads read every chunk of every pass      *)
(* together, each its own pages, at most window chunks ahead of the        *)
(* slowest; the pager is told once per step that a chunk is consumed; the  *)
(* coordinator (tid 0) writes the reference trace.                         *)
(*                                                                         *)
(* A section under lookahead_state_t.lock is one step, and so is a call of *)
(* pager_notify_access, made without that lock.  pthread_cond_wait is      *)
(* modelled as such: a thread that finds its condition false sleeps until  *)
(* a broadcast, or until it wakes for no reason.                           *)
(***************************************************************************)
EXTENDS Integers, Sequences, FiniteSets

CONSTANTS
  Threads,
  Coordinator,      \* tid 0
  window,
  n_passes,
  n_chunks

ASSUME ThreadsAssumption == IsFiniteSet(Threads) /\ Coordinator \in Threads
ASSUME RunAssumption ==
  window \in Nat /\ n_passes \in Nat /\ n_chunks \in Nat

VARIABLES
  all_threads,      \* --consumption-signal all-threads, or tid0
  step,             \* the loop counter s of each thread
  at,               \* where each thread is in its loop
  completed,        \* how many threads have finished each step
  sleeping,         \* the threads in pthread_cond_wait
  notify_count,
  notified,         \* the steps told to the pager, in order
  trace,            \* the steps in the reference trace, in order
  outcome           \* of replay_cyclic_mt

loopVars == <<step, at>>
outVars  == <<all_threads, notify_count, notified, trace, outcome>>
vars     == <<loopVars, completed, sleeping, outVars>>

n_threads   == Cardinality(Threads)
total_steps == n_passes * n_chunks
Steps       == 0..(total_steps - 1)

-----------------------------------------------------------------------------
Init ==
  /\ all_threads \in BOOLEAN
  /\ step = [t \in Threads |-> 0]
  /\ at = [t \in Threads |-> "start"]
  /\ completed = [s \in Steps |-> 0]
  /\ sleeping = {}
  /\ notify_count = 0
  /\ notified = <<>>
  /\ trace = <<>>
  /\ outcome = "running"

Goto(t, label) == at' = [at EXCEPT ![t] = label]

\* The thread runs, at the given place of its loop.
Awake(t, label) == at[t] = label /\ t \notin sleeping

Full(s) == completed[s] >= n_threads

\* lookahead_wait_to_start.
LooseGate(s) == s - window - 2
Gate(s) == s - window - 1
MayStart(s) == Gate(s) < 0 \/ Full(Gate(s))

Announces(t) == t = Coordinator /\ ~ all_threads

Start(t) ==
  /\ Awake(t, "start")
  /\ step[t] < total_steps
  /\ IF MayStart(step[t])
     THEN /\ Goto(t, IF Announces(t) THEN "announce" ELSE "read")
          /\ UNCHANGED sleeping
     ELSE sleeping' = sleeping \cup {t} /\ UNCHANGED at
  /\ UNCHANGED <<step, completed, outVars>>

\* The consumption signal of tid 0, just before its own read.
Announce(t) ==
  /\ at[t] = "announce"
  /\ notified' = Append(notified, step[t])
  /\ Goto(t, "read")
  /\ UNCHANGED <<all_threads, step, completed, sleeping, notify_count, trace, outcome>>

\* pthread_cond_broadcast.
SignalOne ==
  IF sleeping = {} THEN UNCHANGED sleeping
  ELSE \E t \in sleeping : sleeping' = sleeping \ {t}
Broadcast == sleeping' = {}

Counted(s) == completed[s] + 1

\* The test that makes one thread per step the last one.
LastButOne(n) == n >= n_threads - 1
IsLast(n) == n = n_threads

\* The thread has read its pages; lookahead_mark_done up to the unlock.
MarkDone(t) ==
  LET s == step[t] IN
  /\ at[t] = "read"
  /\ completed' = [completed EXCEPT ![s] = Counted(s)]
  /\ IF IsLast(Counted(s))
     THEN /\ Broadcast
          /\ notify_count' = IF all_threads THEN notify_count + 1 ELSE notify_count
          /\ Goto(t, IF all_threads THEN "signal" ELSE "marked")
     ELSE UNCHANGED <<sleeping, notify_count>> /\ Goto(t, "marked")
  /\ UNCHANGED <<all_threads, step, notified, trace, outcome>>

\* The consumption signal of the last thread of a step, after the unlock.
Signal(t) ==
  /\ at[t] = "signal"
  /\ notified' = Append(notified, step[t])
  /\ Goto(t, "marked")
  /\ UNCHANGED <<all_threads, step, completed, sleeping, notify_count, trace, outcome>>

NextStep(t) == step' = [step EXCEPT ![t] = @ + 1] /\ Goto(t, "start")

Advance(t) ==
  /\ at[t] = "marked" /\ t # Coordinator
  /\ NextStep(t)
  /\ UNCHANGED <<completed, sleeping, outVars>>

\* tid 0 waits for the whole step (lookahead_wait_full), then records it.
OwnPagesOnly(s) == TRUE
StepComplete(s) == Full(s)

Emit ==
  /\ Awake(Coordinator, "marked")
  /\ IF StepComplete(step[Coordinator])
     THEN /\ trace' = Append(trace, step[Coordinator])
          /\ NextStep(Coordinator)
          /\ UNCHANGED sleeping
     ELSE sleeping' = sleeping \cup {Coordinator} /\ UNCHANGED <<trace, loopVars>>
  /\ UNCHANGED <<all_threads, completed, notify_count, notified, outcome>>

Exit(t) ==
  /\ at[t] = "start" /\ step[t] = total_steps
  /\ Goto(t, "exited")
  /\ UNCHANGED <<step, completed, sleeping, outVars>>

\* The joins, and the check that every step was signalled exactly once.
Join ==
  /\ outcome = "running"
  /\ \A t \in Threads : at[t] = "exited"
  /\ outcome' = IF all_threads /\ notify_count # total_steps
                THEN "aborted" ELSE "returned"
  /\ UNCHANGED <<all_threads, loopVars, completed, sleeping, notify_count, notified, trace>>

SpuriousWakeup(t) ==
  /\ t \in sleeping
  /\ sleeping' = sleeping \ {t}
  /\ UNCHANGED <<loopVars, completed, outVars>>

-----------------------------------------------------------------------------
ThreadStep(t) ==
  Start(t) \/ Announce(t) \/ MarkDone(t) \/ Signal(t) \/ Advance(t) \/ Exit(t)

Terminated == outcome # "running" /\ UNCHANGED vars

Next ==
  \/ \E t \in Threads : ThreadStep(t) \/ SpuriousWakeup(t)
  \/ Emit \/ Join \/ Terminated

Spec == Init /\ [][Next]_vars

\* Threads are scheduled, reads end, and the mutex, held for a few
\* instructions, is granted.
FairSpec ==
  /\ Spec
  /\ \A t \in Threads : WF_vars(ThreadStep(t))
  /\ WF_vars(Emit) /\ WF_vars(Join)

-----------------------------------------------------------------------------
(* Properties *)

TypeOK ==
  /\ all_threads \in BOOLEAN
  /\ step \in [Threads -> 0..total_steps]
  /\ at \in [Threads -> {"start", "announce", "read", "signal", "marked", "exited"}]
  /\ completed \in [Steps -> 0..n_threads]
  /\ sleeping \subseteq Threads
  /\ notify_count \in Nat
  /\ notified \in Seq(Steps)
  /\ trace \in Seq(Steps)
  /\ outcome \in {"running", "returned", "aborted"}

\* The steps a thread has finished and said so.
Done(t) == step[t] + (IF at[t] \in {"signal", "marked"} THEN 1 ELSE 0)

\* A-10: a thread reads at most window chunks ahead of the earliest step that
\* some thread has not finished, so window + 1 chunks are in use at a time.
LookaheadBounded ==
  \A t, u \in Threads : at[t] \in {"announce", "read"} => step[t] <= Done(u) + window

\* The consumption signals come in the order of the steps, each once, although
\* they are sent without the lock and, all-threads, by whichever thread comes
\* last; and the check made after the joins cannot abort.
SignalledInOrder ==
  /\ \A k \in DOMAIN notified : notified[k] = k - 1
  /\ outcome # "running" => outcome = "returned" /\ Len(notified) = total_steps

\* What the pager takes for the consumption position stays close to the
\* readers: never past a step that some thread has still to begin and, all-threads,
\* never past one that some thread is still reading; and never further behind a
\* reader than the window, or one more while a signal is on its way.
PositionTracksReaders ==
  \A t \in Threads :
    /\ Len(notified) <= (IF all_threads THEN Done(t) ELSE Done(t) + 1)
    /\ at[t] \in {"announce", "read"} =>
         step[t] <= Len(notified) + window + (IF all_threads THEN 1 ELSE 0)

\* The reference trace has every step once, in order, and none before every
\* thread has finished it.
TraceFollowsCompletion ==
  /\ \A k \in DOMAIN trace : trace[k] = k - 1
  /\ \A t \in Threads : Len(trace) <= Done(t)
  /\ outcome # "running" => Len(trace) = total_steps

\* No broadcast is missed: the replay ends.
ReplayReturns == <>(outcome = "returned")

-----------------------------------------------------------------------------
(* The inductive invariant, for ReplayProofs. *)

\* completed[s] counts the threads that have finished step s.
CountsExact ==
  \A s \in Steps : completed[s] = Cardinality({t \in Threads : Done(t) > s})

InLoop ==
  /\ \A t \in Threads : at[t] \in {"announce", "read", "signal", "marked"}
                          => step[t] < total_steps
  /\ \A t \in Threads : at[t] = "exited" => step[t] = total_steps
  /\ \A t \in Threads : at[t] = "announce" => t = Coordinator /\ ~ all_threads
  /\ \A t \in Threads : at[t] = "signal" => all_threads

\* All-threads: every complete step has been signalled, but for one whose last
\* thread is about to.
SignalsExact ==
  all_threads =>
    /\ \A t, u \in Threads : at[t] = "signal" => Len(notified) = step[t] /\ step[t] < Done(u)
    /\ \A t, u \in Threads : at[t] = "signal" /\ at[u] = "signal" => t = u
    /\ \A u \in Threads : Len(notified) <= Done(u)
    /\ \A s \in Steps : (\A u \in Threads : s < Done(u))
                          => s < Len(notified) \/ \E t \in Threads : at[t] = "signal"
    /\ notify_count = Len(notified)
                        + (IF \E t \in Threads : at[t] = "signal" THEN 1 ELSE 0)

\* tid0: the coordinator's signals are its own steps.
AnnouncedExact ==
  ~ all_threads =>
    Len(notified) = step[Coordinator]
      + (IF at[Coordinator] \in {"read", "marked"} THEN 1 ELSE 0)

TraceExact ==
  /\ Len(trace) = step[Coordinator]
  /\ \A u \in Threads : Len(trace) <= Done(u)

SequencesOrdered ==
  /\ \A k \in DOMAIN notified : notified[k] = k - 1
  /\ \A k \in DOMAIN trace : trace[k] = k - 1

IndInv ==
  /\ TypeOK /\ CountsExact /\ InLoop /\ LookaheadBounded
  /\ SignalsExact /\ AnnouncedExact /\ TraceExact /\ SequencesOrdered
  /\ outcome # "running" => \A t \in Threads : at[t] = "exited"
  /\ outcome # "aborted"

=============================================================================

---------------------------- MODULE ReplayProofs ----------------------------
(***************************************************************************)
(* Proofs about a replay and the optimum it is measured against.           *)
(*                                                                         *)
(* First Lookahead: for any number of threads, window, passes and chunks,  *)
(* and both consumption signals.  Then the two offline solvers: for every  *)
(* reference string and capacity, the heap of belady.c yields the chunk    *)
(* used furthest in the future, and giving that one up is optimal.         *)
(***************************************************************************)
EXTENDS Lookahead, Solvers, DataProofs, SequenceTheorems

USE DEF vars, loopVars, outVars

\* The sizes of a run are natural numbers, and somebody runs.
LEMMA Sizes ==
  /\ total_steps \in Nat
  /\ n_threads \in Nat \ {0}
  /\ window \in Nat
<1>1. total_steps \in Nat
  BY RunAssumption DEF total_steps
<1>2. n_threads \in Nat /\ Cardinality({}) = 0 /\ Threads # {}
  BY ThreadsAssumption, FS_CardinalityType, FS_EmptySet DEF n_threads
<1>3. n_threads # 0
  BY <1>2, ThreadsAssumption, FS_EmptySet DEF n_threads
<1> QED
  BY <1>1, <1>2, <1>3, RunAssumption

\* A thread's count of finished steps is a number of steps.
LEMMA DoneType ==
  ASSUME TypeOK, InLoop
  PROVE  /\ \A u \in Threads : Done(u) \in 0..total_steps
         /\ \A u \in Threads : step[u] \in Nat /\ step[u] <= Done(u) /\ Done(u) <= step[u] + 1
BY Sizes DEF TypeOK, InLoop, Done

\* completed[s] reaches n_threads when every thread has finished step s, and
\* not before (the argument of lookahead_wait_to_start's comment).
LEMMA FullMeansDone ==
  ASSUME TypeOK, CountsExact, NEW s \in Steps
  PROVE  Full(s) <=> \A u \in Threads : s < Done(u)
<1> DEFINE P == {t \in Threads : Done(t) > s}
<1>1. P \subseteq Threads /\ IsFiniteSet(Threads)
  BY ThreadsAssumption
<1>2. completed[s] = Cardinality(P)
  BY DEF CountsExact
<1>3. Cardinality(P) <= n_threads /\ (n_threads = Cardinality(P) => P = Threads)
  BY <1>1, FS_Subset DEF n_threads
<1>4. P = Threads => Cardinality(P) = n_threads
  BY DEF n_threads
<1>5. completed[s] \in Int
  BY Sizes DEF TypeOK
<1>6. Full(s) <=> P = Threads
  BY <1>2, <1>3, <1>4, <1>5, Sizes DEF Full
<1>7. P = Threads <=> \A u \in Threads : Done(u) > s
  OBVIOUS
<1>8. \A u \in Threads : Done(u) \in Int
  BY Sizes DEF Done, TypeOK
<1> QED
  BY <1>6, <1>7, <1>8 DEF Steps

\* A step that leaves the counters and what each thread has finished alone
\* leaves the counters exact.
LEMMA CountsKept ==
  ASSUME CountsExact, UNCHANGED completed, \A u \in Threads : Done(u)' = Done(u)
  PROVE  CountsExact'
<1> SUFFICES ASSUME NEW s \in Steps
             PROVE  completed[s]' = Cardinality({t \in Threads : Done(t)' > s})
  BY DEF CountsExact, Steps, total_steps
<1>1. {t \in Threads : Done(t)' > s} = {t \in Threads : Done(t) > s}
  OBVIOUS
<1> QED
  BY <1>1 DEF CountsExact

-----------------------------------------------------------------------------
(* One lemma per action. *)

\* The invariant holds at first: no thread has finished a step.
LEMMA InitIndInv == Init => IndInv
<1> SUFFICES ASSUME Init PROVE IndInv
  OBVIOUS
<1>1. \A t \in Threads : Done(t) = 0
  BY DEF Init, Done
<1>2. TypeOK
  BY Sizes DEF Init, TypeOK, Steps
<1>3. CountsExact
  <2> SUFFICES ASSUME NEW s \in Steps
               PROVE  completed[s] = Cardinality({t \in Threads : Done(t) > s})
    BY DEF CountsExact
  <2>1. {t \in Threads : Done(t) > s} = {}
    BY <1>1, Sizes DEF Steps
  <2>2. completed[s] = 0
    BY DEF Init
  <2> QED
    BY <2>1, <2>2, FS_EmptySet
<1>4. InLoop /\ LookaheadBounded
  BY <1>1, Sizes DEF Init, InLoop, LookaheadBounded
<1>5. SignalsExact
  <2>1. \A s \in Steps : ~ \A u \in Threads : s < Done(u)
    BY <1>1, ThreadsAssumption, Sizes DEF Steps
  <2> QED
    BY <1>1, <2>1 DEF Init, SignalsExact
<1>6. AnnouncedExact /\ TraceExact /\ SequencesOrdered
  BY <1>1, ThreadsAssumption DEF Init, AnnouncedExact, TraceExact, SequencesOrdered
<1> QED
  BY <1>2, <1>3, <1>4, <1>5, <1>6 DEF Init, IndInv

\* A thread goes to sleep or is woken for no reason.
LEMMA SleepStep ==
  ASSUME IndInv, sleeping' \subseteq Threads,
         UNCHANGED <<loopVars, completed, outVars>>
  PROVE  IndInv'
<1>1. TypeOK'
  BY DEF IndInv, TypeOK, Steps, total_steps
<1>2. \A u \in Threads : Done(u)' = Done(u)
  BY DEF Done
<1>3. CountsExact'
  BY <1>2, CountsKept DEF IndInv
<1>4. InLoop' /\ LookaheadBounded' /\ SignalsExact' /\ AnnouncedExact'
      /\ TraceExact' /\ SequencesOrdered'
  BY <1>2 DEF IndInv, InLoop, LookaheadBounded, SignalsExact, AnnouncedExact,
              TraceExact, SequencesOrdered, Steps, total_steps
<1> QED
  BY <1>1, <1>3, <1>4 DEF IndInv

\* lookahead_wait_to_start: the gate bounds the lookahead.
LEMMA StartStep ==
  ASSUME IndInv, NEW t \in Threads, Start(t)
  PROVE  IndInv'
<1> USE Sizes, ThreadsAssumption, RunAssumption
<1>1. CASE MayStart(step[t])
  <2>1. /\ at' = [at EXCEPT ![t] = IF t = Coordinator /\ ~ all_threads THEN "announce" ELSE "read"]
        /\ at[t] = "start" /\ step[t] < total_steps
        /\ UNCHANGED <<sleeping, step, completed, outVars>>
    BY <1>1 DEF Start, Goto, Awake, Announces
  <2>2. at \in [Threads -> {"start", "announce", "read", "signal", "marked", "exited"}]
    BY DEF IndInv, TypeOK
  <2>3. TypeOK'
    BY <2>1 DEF IndInv, TypeOK, Steps
  <2>4. \A u \in Threads : Done(u)' = Done(u)
    BY <2>1, <2>2 DEF Done
  <2>5. CountsExact'
    BY <2>1, <2>4, CountsKept DEF IndInv
  <2>6. InLoop'
    BY <2>1, <2>2 DEF IndInv, InLoop
  <2>7. \A u \in Threads : step[t] <= Done(u) + window
    <3> TAKE u \in Threads
    <3>1. step[t] \in 0..total_steps /\ Done(u) \in 0..total_steps
      BY DoneType DEF IndInv, TypeOK
    <3>2. CASE Gate(step[t]) < 0
      BY <3>1, <3>2 DEF Gate
    <3>3. CASE Gate(step[t]) >= 0
      <4>1. Gate(step[t]) \in Steps /\ Full(Gate(step[t]))
        BY <3>1, <3>3, <1>1, <2>1 DEF Gate, Steps, MayStart
      <4>2. Gate(step[t]) < Done(u)
        BY <4>1, FullMeansDone DEF IndInv
      <4> QED
        BY <4>2, <3>1 DEF Gate
    <3> QED
      BY <3>1, <3>2, <3>3 DEF Gate
  <2>8. LookaheadBounded'
    BY <2>1, <2>2, <2>4, <2>7 DEF IndInv, LookaheadBounded
  <2>9. \A u \in Threads : at'[u] = "signal" <=> at[u] = "signal"
    BY <2>1, <2>2
  <2>10. SignalsExact'
    BY <2>1, <2>4, <2>9 DEF IndInv, SignalsExact
  <2>11. AnnouncedExact'
    BY <2>1, <2>2 DEF IndInv, AnnouncedExact
  <2>12. TraceExact' /\ SequencesOrdered'
    BY <2>1, <2>4 DEF IndInv, TraceExact, SequencesOrdered
  <2>13. (outcome # "running" => \A u \in Threads : at[u] = "exited")' /\ outcome' # "aborted"
    BY <2>1, <2>2 DEF IndInv
  <2> QED
    BY <2>3, <2>5, <2>6, <2>8, <2>10, <2>11, <2>12, <2>13 DEF IndInv
<1>2. CASE ~ MayStart(step[t])
  BY <1>2, SleepStep DEF Start, IndInv, TypeOK
<1> QED
  BY <1>1, <1>2

\* The signal of tid 0.
LEMMA AnnounceStep ==
  ASSUME IndInv, NEW t \in Threads, Announce(t)
  PROVE  IndInv'
<1> USE Sizes, ThreadsAssumption, RunAssumption
<1>1. /\ at' = [at EXCEPT ![t] = "read"]
      /\ at[t] = "announce"
      /\ notified' = Append(notified, step[t])
      /\ UNCHANGED <<all_threads, step, completed, sleeping, notify_count, trace, outcome>>
  BY DEF Announce, Goto
<1>2. at \in [Threads -> {"start", "announce", "read", "signal", "marked", "exited"}]
  BY DEF IndInv, TypeOK
<1>3. t = Coordinator /\ ~ all_threads /\ step[t] < total_steps
  BY <1>1 DEF IndInv, InLoop
<1>4. step[t] \in Steps /\ notified \in Seq(Steps)
  BY <1>3 DEF IndInv, TypeOK, Steps
<1>5. TypeOK'
  BY <1>1, <1>4 DEF IndInv, TypeOK, Steps
<1>6. \A u \in Threads : Done(u)' = Done(u)
  BY <1>1, <1>2 DEF Done
<1>7. CountsExact'
  BY <1>1, <1>6, CountsKept DEF IndInv
<1>8. InLoop' /\ LookaheadBounded' /\ SignalsExact'
  <2>1. InLoop'
    BY <1>1, <1>2, <1>3 DEF IndInv, InLoop
  <2>2. LookaheadBounded'
    BY <1>1, <1>2, <1>6 DEF IndInv, LookaheadBounded
  <2>3. SignalsExact'
    BY <1>1, <1>3 DEF SignalsExact
  <2> QED
    BY <2>1, <2>2, <2>3
<1>9. Len(notified) = step[t]
  <2>1. Len(notified) = step[Coordinator] + 0
    BY <1>1, <1>3 DEF IndInv, AnnouncedExact
  <2>2. step[t] \in Int
    BY DEF IndInv, TypeOK
  <2> QED
    BY <1>3, <2>1, <2>2
<1>10. AnnouncedExact'
  <2>1. at'[Coordinator] = "read" /\ Len(notified') = Len(notified) + 1
    BY <1>1, <1>2, <1>3, <1>4
  <2> QED
    BY <1>1, <1>3, <1>9, <2>1 DEF AnnouncedExact
<1>11. TraceExact' /\ SequencesOrdered'
  BY <1>1, <1>4, <1>6, <1>9 DEF IndInv, TraceExact, SequencesOrdered
<1>12. (outcome # "running" => \A u \in Threads : at[u] = "exited")' /\ outcome' # "aborted"
  BY <1>1, <1>2 DEF IndInv
<1> QED
  BY <1>5, <1>7, <1>8, <1>10, <1>11, <1>12 DEF IndInv

\* lookahead_mark_done: the thread that comes last finds every earlier step
\* signalled, and nobody else with a signal to send.
LEMMA MarkDoneStep ==
  ASSUME IndInv, NEW t \in Threads, MarkDone(t)
  PROVE  IndInv'
<1> USE Sizes, ThreadsAssumption, RunAssumption
<1> DEFINE s == step[t]
           last == completed[s] + 1 = n_threads
<1>1. /\ at[t] = "read"
      /\ completed' = [completed EXCEPT ![s] = completed[s] + 1]
      /\ at' = [at EXCEPT ![t] = IF last /\ all_threads THEN "signal" ELSE "marked"]
      /\ notify_count' = IF last /\ all_threads THEN notify_count + 1 ELSE notify_count
      /\ sleeping' \in {sleeping, {}}
      /\ UNCHANGED <<all_threads, step, notified, trace, outcome>>
  BY DEF MarkDone, Goto, IsLast, Counted, Broadcast
<1>2. /\ at \in [Threads -> {"start", "announce", "read", "signal", "marked", "exited"}]
      /\ step \in [Threads -> 0..total_steps]
      /\ completed \in [Steps -> 0..n_threads]
  BY DEF IndInv, TypeOK
<1>3. s \in Steps
  BY <1>1, <1>2 DEF IndInv, InLoop, Steps
<1>4. /\ Done(t) = s /\ Done(t)' = s + 1
      /\ \A u \in Threads \ {t} : Done(u)' = Done(u)
  BY <1>1, <1>2 DEF Done
<1>5. \A u \in Threads : /\ Done(u) \in Nat /\ Done(u)' \in Nat
                         /\ Done(u) <= Done(u)'
  <2>1. \A u \in Threads : Done(u) \in Nat
    BY DoneType DEF IndInv
  <2> QED
    BY <2>1, <1>3, <1>4 DEF Steps
<1>6. CountsExact'
  <2> SUFFICES ASSUME NEW k \in Steps
               PROVE  completed'[k] = Cardinality({u \in Threads : Done(u)' > k})
    BY DEF CountsExact
  <2> DEFINE P == {u \in Threads : Done(u) > k}
  <2>1. completed[k] = Cardinality(P) /\ IsFiniteSet(P)
    BY FS_Subset DEF IndInv, CountsExact
  <2>2. CASE k = s
    <3>1. {u \in Threads : Done(u)' > k} = P \cup {t} /\ t \notin P
      BY <1>3, <1>4, <1>5, <2>2 DEF Steps
    <3>2. Cardinality(P \cup {t}) = Cardinality(P) + 1
      BY <2>1, <3>1, FS_AddElement
    <3> QED
      BY <1>1, <1>2, <1>3, <2>1, <2>2, <3>1, <3>2
  <2>3. CASE k # s
    <3>1. {u \in Threads : Done(u)' > k} = P
      BY <1>3, <1>4, <1>5, <2>3 DEF Steps
    <3> QED
      BY <1>1, <1>2, <1>3, <2>1, <2>3, <3>1
  <2> QED
    BY <2>2, <2>3
<1>7. completed'[s] \in 0..n_threads
  <2>1. completed'[s] = Cardinality({u \in Threads : Done(u)' > s})
    BY <1>3, <1>6 DEF CountsExact
  <2>2. Cardinality({u \in Threads : Done(u)' > s}) <= n_threads
    BY FS_Subset DEF n_threads
  <2> QED
    BY <1>1, <1>2, <1>3, <2>1, <2>2
<1>8. TypeOK'
  BY <1>1, <1>2, <1>3, <1>7 DEF IndInv, TypeOK, Steps
<1>9. last => \A u \in Threads : s < Done(u)'
  <2> SUFFICES ASSUME last PROVE \A u \in Threads : s < Done(u)'
    OBVIOUS
  <2>1. completed'[s] = n_threads
    BY <1>1, <1>2, <1>3
  <2> DEFINE P == {u \in Threads : Done(u)' > s}
  <2>2. Cardinality(P) = Cardinality(Threads)
    BY <2>1, <1>3, <1>6 DEF CountsExact, n_threads
  <2>3. P = Threads
    BY <2>2, FS_Subset
  <2>4. \A u \in Threads : Done(u)' \in Int
    BY <1>3, <1>4, <1>5 DEF Steps
  <2> QED
    BY <2>3, <2>4, <1>3 DEF Steps
<1>10. (\A u \in Threads : s < Done(u)') => last
  <2> SUFFICES ASSUME \A u \in Threads : s < Done(u)' PROVE last
    OBVIOUS
  <2>1. {u \in Threads : Done(u)' > s} = Threads
    BY <1>3, <1>4, <1>5 DEF Steps
  <2>2. completed'[s] = n_threads
    BY <2>1, <1>3, <1>6 DEF CountsExact, n_threads
  <2> QED
    BY <2>2, <1>1, <1>2, <1>3
<1>11. InLoop'
  BY <1>1, <1>2, <1>3 DEF IndInv, InLoop, Steps
<1>12. LookaheadBounded'
  <2> SUFFICES ASSUME NEW p \in Threads, NEW u \in Threads,
                      at'[p] \in {"announce", "read"}
               PROVE  step[p] <= Done(u)' + window
    BY <1>1 DEF LookaheadBounded
  <2>1. step[p] <= Done(u) + window
    BY <1>1, <1>2 DEF IndInv, LookaheadBounded
  <2> QED
    BY <2>1, <1>2, <1>5
<1>13. SignalsExact'
  <2> SUFFICES ASSUME all_threads PROVE SignalsExact'
    BY <1>1 DEF SignalsExact
  <2>1. /\ \A p, u \in Threads : at[p] = "signal" => Len(notified) = step[p] /\ step[p] < Done(u)
        /\ \A u \in Threads : Len(notified) <= Done(u)
        /\ \A k \in Steps : (\A u \in Threads : k < Done(u))
                              => k < Len(notified) \/ \E p \in Threads : at[p] = "signal"
        /\ \A p, u \in Threads : at[p] = "signal" /\ at[u] = "signal" => p = u
        /\ notify_count = Len(notified)
                            + (IF \E p \in Threads : at[p] = "signal" THEN 1 ELSE 0)
    BY DEF IndInv, SignalsExact
  <2>2. Len(notified) \in Nat /\ Len(notified) <= s
    BY <2>1, <1>4 DEF IndInv, TypeOK
  <2>3. \A u \in Threads \ {t} : at'[u] = at[u]
    BY <1>1, <1>2
  <2>4. CASE last
    <3>1. \A u \in Threads : s <= Done(u)
      BY <2>4, <1>3, <1>4, <1>5, <1>9 DEF Steps
    <3>2. \A p \in Threads : at[p] # "signal"
      <4> SUFFICES ASSUME NEW p \in Threads, at[p] = "signal" PROVE FALSE
        OBVIOUS
      <4>1. p # t /\ step[p] < s /\ Done(p) = step[p] + 1
        BY <1>1, <1>4, <2>1, <1>2 DEF Done
      <4>2. s < Done(p)
        BY <4>1, <1>4, <1>9, <2>4
      <4> QED
        BY <4>1, <4>2, <1>2, <1>3 DEF Steps
    <3>3. Len(notified) = s
      <4>1. CASE s = 0
        BY <4>1, <2>2
      <4>2. CASE s > 0
        <5>1. s - 1 \in Steps /\ \A u \in Threads : s - 1 < Done(u)
          BY <4>2, <3>1, <1>3, <1>5 DEF Steps
        <5>2. s - 1 < Len(notified)
          BY <5>1, <2>1, <3>2
        <5> QED
          BY <5>2, <2>2, <1>3 DEF Steps
      <4> QED
        BY <4>1, <4>2, <1>3 DEF Steps
    <3>4. at'[t] = "signal" /\ \A u \in Threads : at'[u] = "signal" => u = t
      BY <1>1, <1>2, <2>3, <2>4, <3>2
    <3>5. notify_count' = Len(notified) + 1
      BY <1>1, <2>1, <2>4, <3>2
    <3>6. \A u \in Threads : Len(notified) <= Done(u)' /\ s < Done(u)'
      BY <1>3, <1>5, <1>9, <2>4, <3>1, <3>3 DEF Steps
    <3>7. UNCHANGED <<all_threads, step, notified>>
      BY <1>1
    <3> QED
      BY <3>3, <3>4, <3>5, <3>6, <3>7 DEF SignalsExact
  <2>5. CASE ~ last
    <3>1. \A u \in Threads : at'[u] = "signal" <=> at[u] = "signal"
      BY <1>1, <1>2, <2>5
    <3>2. \A k \in Steps : (\A u \in Threads : k < Done(u)') => \A u \in Threads : k < Done(u)
      <4> SUFFICES ASSUME NEW k \in Steps, \A u \in Threads : k < Done(u)'
                   PROVE  k < Done(t)
        BY <1>4
      <4>1. k # s
        BY <1>10, <2>5
      <4> QED
        BY <4>1, <1>3, <1>4 DEF Steps
    <3>3. notify_count' = notify_count
      BY <1>1, <2>5
    <3>4. Len(notified') = Len(notified) /\ UNCHANGED <<all_threads, step>>
      BY <1>1
    <3>5. \A p, u \in Threads : at'[p] = "signal" => Len(notified) = step[p] /\ step[p] < Done(u)'
      <4> SUFFICES ASSUME NEW p \in Threads, NEW u \in Threads, at'[p] = "signal"
                   PROVE  Len(notified) = step[p] /\ step[p] < Done(u)'
        OBVIOUS
      <4>1. Len(notified) = step[p] /\ step[p] < Done(u)
        BY <2>1, <3>1
      <4> QED
        BY <4>1, <1>2, <1>5
    <3>6. \A u \in Threads : Len(notified) <= Done(u)'
      BY <2>1, <2>2, <1>3, <1>4, <1>5 DEF Steps
    <3> QED
      BY <2>1, <3>1, <3>2, <3>3, <3>4, <3>5, <3>6 DEF SignalsExact
  <2> QED
    BY <2>4, <2>5
<1>14. AnnouncedExact'
  BY <1>1, <1>2 DEF IndInv, AnnouncedExact
<1>15. TraceExact' /\ SequencesOrdered'
  <2>1. \A u \in Threads : Len(trace) <= Done(u)
    BY DEF IndInv, TraceExact
  <2>2. Len(trace) \in Nat
    BY DEF IndInv, TypeOK
  <2>3. \A u \in Threads : Len(trace) <= Done(u)'
    BY <2>1, <2>2, <1>5
  <2> QED
    BY <1>1, <2>3 DEF IndInv, TraceExact, SequencesOrdered
<1>16. (outcome # "running" => \A u \in Threads : at[u] = "exited")' /\ outcome' # "aborted"
  BY <1>1, <1>2 DEF IndInv
<1> QED
  BY <1>6, <1>8, <1>11, <1>12, <1>13, <1>14, <1>15, <1>16 DEF IndInv

\* The signal of the last thread of a step.
LEMMA SignalStep ==
  ASSUME IndInv, NEW t \in Threads, Signal(t)
  PROVE  IndInv'
<1> USE Sizes, ThreadsAssumption, RunAssumption
<1>1. /\ at' = [at EXCEPT ![t] = "marked"]
      /\ at[t] = "signal"
      /\ notified' = Append(notified, step[t])
      /\ UNCHANGED <<all_threads, step, completed, sleeping, notify_count, trace, outcome>>
  BY DEF Signal, Goto
<1>2. at \in [Threads -> {"start", "announce", "read", "signal", "marked", "exited"}]
  BY DEF IndInv, TypeOK
<1>3. all_threads /\ step[t] < total_steps
  BY <1>1 DEF IndInv, InLoop
<1>4. step[t] \in Steps /\ notified \in Seq(Steps) /\ Len(notified) \in Nat
  BY <1>3 DEF IndInv, TypeOK, Steps
<1>5. TypeOK'
  BY <1>1, <1>4 DEF IndInv, TypeOK, Steps
<1>6. \A u \in Threads : Done(u)' = Done(u)
  BY <1>1, <1>2 DEF Done
<1>7. CountsExact'
  BY <1>1, <1>6, CountsKept DEF IndInv
<1>8. InLoop' /\ LookaheadBounded' /\ AnnouncedExact'
  BY <1>1, <1>2, <1>3, <1>6 DEF IndInv, InLoop, LookaheadBounded, AnnouncedExact
<1>9. /\ Len(notified) = step[t] /\ Len(notified') = step[t] + 1
      /\ \A u \in Threads : step[t] < Done(u)
      /\ notify_count = Len(notified) + 1
      /\ \A u \in Threads : at'[u] # "signal"
  BY <1>1, <1>2, <1>3, <1>4 DEF IndInv, SignalsExact
<1>10. \A u \in Threads : Done(u) \in 0..total_steps
  BY DoneType DEF IndInv
<1>11. SignalsExact'
  <2>1. \A k \in Steps : (\A u \in Threads : k < Done(u)) => k < step[t] + 1
    <3>1. Done(t) = step[t] + 1
      BY <1>1 DEF Done
    <3> QED
      BY <3>1
  <2>2. \A u \in Threads : step[t] + 1 <= Done(u)
    BY <1>4, <1>9, <1>10 DEF Steps
  <2> QED
    BY <1>1, <1>6, <1>9, <2>1, <2>2 DEF SignalsExact
<1>12. TraceExact' /\ SequencesOrdered'
  BY <1>1, <1>4, <1>6, <1>9 DEF IndInv, TraceExact, SequencesOrdered
<1>13. (outcome # "running" => \A u \in Threads : at[u] = "exited")' /\ outcome' # "aborted"
  BY <1>1, <1>2 DEF IndInv
<1> QED
  BY <1>5, <1>7, <1>8, <1>11, <1>12, <1>13 DEF IndInv

\* Any thread but tid 0 goes on to its next step.
LEMMA AdvanceStep ==
  ASSUME IndInv, NEW t \in Threads, Advance(t)
  PROVE  IndInv'
<1> USE Sizes, ThreadsAssumption, RunAssumption
<1>1. /\ at' = [at EXCEPT ![t] = "start"]
      /\ step' = [step EXCEPT ![t] = step[t] + 1]
      /\ at[t] = "marked" /\ t # Coordinator
      /\ UNCHANGED <<completed, sleeping, outVars>>
  BY DEF Advance, NextStep, Goto
<1>2. /\ at \in [Threads -> {"start", "announce", "read", "signal", "marked", "exited"}]
      /\ step \in [Threads -> 0..total_steps]
  BY DEF IndInv, TypeOK
<1>3. step[t] < total_steps
  BY <1>1 DEF IndInv, InLoop
<1>4. TypeOK'
  <2>1. step' \in [Threads -> 0..total_steps]
    BY <1>1, <1>2, <1>3
  <2>2. at' \in [Threads -> {"start", "announce", "read", "signal", "marked", "exited"}]
    BY <1>1, <1>2
  <2> QED
    BY <1>1, <2>1, <2>2 DEF IndInv, TypeOK, Steps
<1>5. \A u \in Threads : Done(u)' = Done(u)
  BY <1>1, <1>2 DEF Done
<1>6. CountsExact'
  BY <1>1, <1>5, CountsKept DEF IndInv
<1>7. InLoop' /\ LookaheadBounded'
  BY <1>1, <1>2, <1>3, <1>5 DEF IndInv, InLoop, LookaheadBounded
<1>8. \A u \in Threads : /\ at'[u] = "signal" <=> at[u] = "signal"
                         /\ at[u] = "signal" => step'[u] = step[u]
  BY <1>1, <1>2
<1>9. SignalsExact'
  BY <1>1, <1>5, <1>8 DEF IndInv, SignalsExact
<1>10. AnnouncedExact' /\ TraceExact' /\ SequencesOrdered'
  BY <1>1, <1>2, <1>5 DEF IndInv, AnnouncedExact, TraceExact, SequencesOrdered
<1>11. (outcome # "running" => \A u \in Threads : at[u] = "exited")' /\ outcome' # "aborted"
  BY <1>1, <1>2 DEF IndInv
<1> QED
  BY <1>4, <1>6, <1>7, <1>9, <1>10, <1>11 DEF IndInv

\* tid 0 records a step that everybody has finished.
LEMMA EmitStep ==
  ASSUME IndInv, Emit
  PROVE  IndInv'
<1> USE Sizes, ThreadsAssumption, RunAssumption
<1> DEFINE t == Coordinator
<1>1. CASE StepComplete(step[t])
  <2>1. /\ at' = [at EXCEPT ![t] = "start"]
        /\ step' = [step EXCEPT ![t] = step[t] + 1]
        /\ trace' = Append(trace, step[t])
        /\ at[t] = "marked"
        /\ UNCHANGED <<all_threads, completed, sleeping, notify_count, notified, outcome>>
    BY <1>1 DEF Emit, NextStep, Goto, Awake
  <2>2. /\ at \in [Threads -> {"start", "announce", "read", "signal", "marked", "exited"}]
        /\ step \in [Threads -> 0..total_steps]
    BY DEF IndInv, TypeOK
  <2>3. step[t] \in Steps /\ trace \in Seq(Steps) /\ Len(trace) = step[t]
    BY <2>1, <2>2 DEF IndInv, InLoop, TypeOK, TraceExact, Steps
  <2>4. TypeOK'
    BY <2>1, <2>2, <2>3 DEF IndInv, TypeOK, Steps
  <2>5. \A u \in Threads : Done(u)' = Done(u)
    BY <2>1, <2>2 DEF Done
  <2>6. CountsExact'
    BY <2>1, <2>5, CountsKept DEF IndInv
  <2>7. InLoop' /\ LookaheadBounded'
    BY <2>1, <2>2, <2>3, <2>5 DEF IndInv, InLoop, LookaheadBounded, Steps
  <2>8. \A u \in Threads : /\ at'[u] = "signal" <=> at[u] = "signal"
                           /\ at[u] = "signal" => step'[u] = step[u]
    BY <2>1, <2>2
  <2>9. SignalsExact'
    BY <2>1, <2>5, <2>8 DEF IndInv, SignalsExact
  <2>10. AnnouncedExact' /\ SequencesOrdered'
    BY <2>1, <2>2, <2>3 DEF IndInv, AnnouncedExact, SequencesOrdered, Steps
  <2>11. \A u \in Threads : step[t] + 1 <= Done(u)
    <3>1. \A u \in Threads : step[t] < Done(u) /\ Done(u) \in 0..total_steps
      BY <1>1, <2>3, FullMeansDone, DoneType DEF StepComplete, IndInv
    <3> QED
      BY <3>1, <2>3 DEF Steps
  <2>12. TraceExact'
    BY <2>1, <2>2, <2>3, <2>5, <2>11 DEF TraceExact
  <2>13. (outcome # "running" => \A u \in Threads : at[u] = "exited")' /\ outcome' # "aborted"
    BY <2>1, <2>2 DEF IndInv
  <2> QED
    BY <2>4, <2>6, <2>7, <2>9, <2>10, <2>12, <2>13 DEF IndInv
<1>2. CASE ~ StepComplete(step[t])
  BY <1>2, SleepStep DEF Emit, IndInv, TypeOK
<1> QED
  BY <1>1, <1>2

\* A thread leaves its loop.
LEMMA ExitStep ==
  ASSUME IndInv, NEW t \in Threads, Exit(t)
  PROVE  IndInv'
<1> USE Sizes, ThreadsAssumption, RunAssumption
<1>1. /\ at' = [at EXCEPT ![t] = "exited"]
      /\ at[t] = "start" /\ step[t] = total_steps
      /\ UNCHANGED <<step, completed, sleeping, outVars>>
  BY DEF Exit, Goto
<1>2. at \in [Threads -> {"start", "announce", "read", "signal", "marked", "exited"}]
  BY DEF IndInv, TypeOK
<1>3. TypeOK'
  BY <1>1 DEF IndInv, TypeOK, Steps
<1>4. \A u \in Threads : Done(u)' = Done(u)
  BY <1>1, <1>2 DEF Done
<1>5. CountsExact'
  BY <1>1, <1>4, CountsKept DEF IndInv
<1>6. InLoop' /\ LookaheadBounded'
  BY <1>1, <1>2, <1>4 DEF IndInv, InLoop, LookaheadBounded
<1>7. \A u \in Threads : at'[u] = "signal" <=> at[u] = "signal"
  BY <1>1, <1>2
<1>8. SignalsExact'
  BY <1>1, <1>4, <1>7 DEF IndInv, SignalsExact
<1>9. AnnouncedExact' /\ TraceExact' /\ SequencesOrdered'
  BY <1>1, <1>2, <1>4 DEF IndInv, AnnouncedExact, TraceExact, SequencesOrdered
<1>10. (outcome # "running" => \A u \in Threads : at[u] = "exited")' /\ outcome' # "aborted"
  BY <1>1, <1>2 DEF IndInv
<1> QED
  BY <1>3, <1>5, <1>6, <1>8, <1>9, <1>10 DEF IndInv

\* When every thread has left, every step has been signalled.
LEMMA AllSignalled ==
  ASSUME IndInv, \A u \in Threads : at[u] = "exited"
  PROVE  /\ Len(notified) = total_steps
         /\ all_threads => notify_count = total_steps
<1> USE Sizes, ThreadsAssumption, RunAssumption
<1>1. \A u \in Threads : step[u] = total_steps /\ Done(u) = total_steps
  BY DEF IndInv, InLoop, Done
<1>2. Len(notified) \in Nat
  BY DEF IndInv, TypeOK
<1>3. CASE ~ all_threads
  BY <1>1, <1>3 DEF IndInv, AnnouncedExact
<1>4. CASE all_threads
  <2>1. /\ Len(notified) <= total_steps
        /\ \A s \in Steps : s < Len(notified)
        /\ notify_count = Len(notified)
    BY <1>1, <1>2, <1>4 DEF IndInv, SignalsExact, Steps
  <2>2. Len(notified) >= total_steps
    <3>1. CASE total_steps = 0
      BY <3>1, <1>2
    <3>2. CASE total_steps > 0
      <4>1. total_steps - 1 \in Steps
        BY <3>2 DEF Steps
      <4>2. total_steps - 1 < Len(notified)
        BY <4>1, <2>1
      <4> QED
        BY <4>2, <1>2
    <3> QED
      BY <3>1, <3>2
  <2> QED
    BY <2>1, <2>2, <1>2
<1> QED
  BY <1>3, <1>4

\* The check after the joins passes.
LEMMA JoinStep ==
  ASSUME IndInv, Join
  PROVE  IndInv'
<1>1. outcome' = "returned"
  BY AllSignalled DEF Join
<1>2. \A u \in Threads : at'[u] = "exited"
  BY DEF Join
<1>3. UNCHANGED <<all_threads, loopVars, completed, sleeping, notify_count, notified, trace>>
  BY DEF Join
<1>4. TypeOK'
  BY <1>1, <1>3 DEF IndInv, TypeOK, Steps, total_steps
<1>5. \A u \in Threads : Done(u)' = Done(u)
  BY <1>3 DEF Done
<1>6. CountsExact'
  BY <1>3, <1>5, CountsKept DEF IndInv
<1>7. InLoop' /\ LookaheadBounded' /\ SignalsExact' /\ AnnouncedExact'
      /\ TraceExact' /\ SequencesOrdered'
  BY <1>3, <1>5 DEF IndInv, InLoop, LookaheadBounded, SignalsExact, AnnouncedExact,
                    TraceExact, SequencesOrdered, Steps, total_steps
<1> QED
  BY <1>1, <1>2, <1>4, <1>6, <1>7 DEF IndInv

-----------------------------------------------------------------------------
(* The theorems. *)

\* Every step of replay_cyclic_mt preserves the invariant.
LEMMA StepPreserves == IndInv /\ [Next]_vars => IndInv'
<1> SUFFICES ASSUME IndInv, [Next]_vars PROVE IndInv'
  OBVIOUS
<1>1. ASSUME NEW t \in Threads, ThreadStep(t) PROVE IndInv'
  BY <1>1, StartStep, AnnounceStep, MarkDoneStep, SignalStep, AdvanceStep, ExitStep
     DEF ThreadStep
<1>2. ASSUME NEW t \in Threads, SpuriousWakeup(t) PROVE IndInv'
  BY <1>2, SleepStep DEF SpuriousWakeup, IndInv, TypeOK
<1>3. CASE UNCHANGED vars
  BY <1>3, SleepStep DEF IndInv, TypeOK
<1> QED
  BY <1>1, <1>2, <1>3, EmitStep, JoinStep DEF Next, Terminated

\* The invariant holds throughout replay_cyclic_mt.
THEOREM LookaheadInvariance == Spec => []IndInv
<1> QED
  BY InitIndInv, StepPreserves, PTL DEF Spec

\* A-10: no thread reads more than window chunks ahead of the slowest
\* (lookahead_wait_to_start), for any number of threads and any window.
THEOREM WindowIsBounded == Spec => []LookaheadBounded
<1>1. IndInv => LookaheadBounded
  BY DEF IndInv
<1> QED
  BY <1>1, LookaheadInvariance, PTL

\* Every step is signalled to the pager once and in order, under both
\* consumption signals, and the check on notify_count never aborts.
THEOREM EachStepSignalledOnce == Spec => []SignalledInOrder
<1>1. IndInv => SignalledInOrder
  <2> SUFFICES ASSUME IndInv PROVE SignalledInOrder
    OBVIOUS
  <2>1. \A k \in DOMAIN notified : notified[k] = k - 1
    BY DEF IndInv, SequencesOrdered
  <2>2. outcome # "running" => outcome = "returned"
    BY DEF IndInv, TypeOK
  <2>3. outcome # "running" => Len(notified) = total_steps
    BY AllSignalled DEF IndInv
  <2> QED
    BY <2>1, <2>2, <2>3 DEF SignalledInOrder
<1> QED
  BY <1>1, LookaheadInvariance, PTL

\* The position that the pager is told of is neither ahead of a reader nor more
\* than the window behind one (one more while a signal is on its way).
THEOREM PositionIsTracked == Spec => []PositionTracksReaders
<1>1. IndInv => PositionTracksReaders
  <2> SUFFICES ASSUME IndInv, NEW t \in Threads
               PROVE /\ Len(notified) <= (IF all_threads THEN Done(t) ELSE Done(t) + 1)
                     /\ at[t] \in {"announce", "read"} =>
                          step[t] <= Len(notified) + window + (IF all_threads THEN 1 ELSE 0)
    BY DEF PositionTracksReaders
  <2> USE Sizes, ThreadsAssumption, RunAssumption
  <2>1. /\ \A u \in Threads : Done(u) \in Nat /\ step[u] \in Nat
        /\ \A u \in Threads : step[u] <= Done(u) /\ Done(u) <= step[u] + 1
        /\ Len(notified) \in Nat
    BY DoneType DEF IndInv, TypeOK
  <2>2. \A u \in Threads : at[t] \in {"announce", "read"} => step[t] <= Done(u) + window
    BY DEF IndInv, LookaheadBounded
  <2>3. CASE all_threads
    <3>1. Len(notified) <= Done(t)
      BY <2>3 DEF IndInv, SignalsExact
    <3>2. \E u \in Threads : Done(u) <= Len(notified) + 1
      <4> SUFFICES ASSUME \A u \in Threads : ~ (Done(u) <= Len(notified) + 1)
                   PROVE  FALSE
        OBVIOUS
      <4>1. \A u \in Threads : Len(notified) + 1 < Done(u)
        BY <2>1
      <4>2. \A u \in Threads : Done(u) <= total_steps
        BY DoneType DEF IndInv
      <4>3. Len(notified) + 1 \in Steps /\ Len(notified) \in Steps
        BY <4>1, <4>2, <2>1 DEF Steps
      <4>4. \E p \in Threads : at[p] = "signal"
        BY <4>1, <4>3, <2>1, <2>3 DEF IndInv, SignalsExact
      <4>5. PICK p \in Threads : at[p] = "signal"
        BY <4>4
      <4>6. Len(notified) = step[p]
        BY <4>5, <2>3 DEF IndInv, SignalsExact
      <4>7. Done(p) = step[p] + 1
        BY <4>5 DEF Done
      <4> QED
        BY <4>1, <4>6, <4>7, <2>1
    <3> QED
      BY <3>1, <3>2, <2>1, <2>2, <2>3
  <2>4. CASE ~ all_threads
    <3>1. Len(notified) <= step[Coordinator] + 1 /\ Done(Coordinator) <= Len(notified)
      <4>1. at[Coordinator] # "signal"
        BY <2>4 DEF IndInv, InLoop
      <4> QED
        BY <4>1, <2>1, <2>4 DEF IndInv, AnnouncedExact, Done
    <3>2. step[Coordinator] <= Done(t)
      BY DEF IndInv, TraceExact
    <3> QED
      BY <3>1, <3>2, <2>1, <2>2, <2>4
  <2> QED
    BY <2>3, <2>4
<1> QED
  BY <1>1, LookaheadInvariance, PTL

\* The reference trace lists the steps in order, each after its completion.
THEOREM TraceIsInOrder == Spec => []TraceFollowsCompletion
<1>1. IndInv => TraceFollowsCompletion
  BY ThreadsAssumption DEF IndInv, TraceExact, SequencesOrdered, InLoop, TraceFollowsCompletion
<1> QED
  BY <1>1, LookaheadInvariance, PTL

-----------------------------------------------------------------------------
(* The heap of belady.c.  An array of n entries is a heap if no entry has a *)
(* parent of lower priority.                                                *)

Entries == (0..UINT64_MAX) \X Chunks

Ordered(h, n) == \A m \in 2..n : h[m \div 2][1] >= h[m][1]

\* The entry e occurs once; g has the entries of h, and once what h has once.
Once(h, n, e) == \E m \in 1..n : h[m] = e /\ \A k \in 1..n : h[k] = e => k = m

SameEntries(h, g, n) ==
  /\ \A m \in 1..n : \E k \in 1..n : g[k] = h[m]
  /\ \A m \in 1..n : \E k \in 1..n : h[k] = g[m]
  /\ \A e : Once(h, n, e) => Once(g, n, e)

\* An array that is a heap but for the entry at p, which may be above its parent, or
\* below its children.
UpToPlace(h, n, p) ==
  /\ \A m \in 2..n : m # p => h[m \div 2][1] >= h[m][1]
  /\ p >= 2 => \A m \in 2..n : m \div 2 = p => h[p \div 2][1] >= h[m][1]

DownToPlace(h, n, p) ==
  /\ \A m \in 2..n : m \div 2 # p => h[m \div 2][1] >= h[m][1]
  /\ p >= 2 => \A m \in 2..n : m \div 2 = p => h[p \div 2][1] >= h[m][1]

LEMMA Halves ==
  ASSUME NEW n \in Nat, NEW m \in 2..n
  PROVE  /\ m \div 2 \in 1..n /\ m \div 2 < m
         /\ \A k \in Nat : m \div 2 = k <=> m \in {2 * k, 2 * k + 1}
OBVIOUS

LEMMA EntryIs ==
  ASSUME NEW n \in Nat, NEW h \in [1..n -> Entries], NEW m \in 1..n
  PROVE  h[m] \in Entries /\ h[m][1] \in Nat /\ h[m][1] <= UINT64_MAX /\ h[m][2] \in Chunks
BY SolversAssumption DEF Entries

\* What an exchange of two entries leaves where.
LEMMA SwapIs ==
  ASSUME NEW n \in Nat, NEW h \in [1..n -> Entries], NEW p \in 1..n, NEW q \in 1..n
  PROVE  LET g == B!Swap(h, p, q) IN
         /\ g \in [1..n -> Entries]
         /\ g[p] = h[q] /\ g[q] = h[p]
         /\ \A m \in 1..n : m # p /\ m # q => g[m] = h[m]
         /\ SameEntries(h, g, n)
<1> DEFINE g == B!Swap(h, p, q)
<1>1. /\ g \in [1..n -> Entries] /\ g[p] = h[q] /\ g[q] = h[p]
      /\ \A m \in 1..n : m # p /\ m # q => g[m] = h[m]
  BY DEF B!Swap
<1> HIDE DEF g
<1>2. \A m \in 1..n : (\E k \in 1..n : g[k] = h[m]) /\ (\E k \in 1..n : h[k] = g[m])
  BY <1>1
<1>3. ASSUME NEW e, Once(h, n, e) PROVE Once(g, n, e)
  <2>1. PICK m \in 1..n : h[m] = e /\ \A k \in 1..n : h[k] = e => k = m
    BY <1>3 DEF Once
  <2> DEFINE j == IF m = p THEN q ELSE IF m = q THEN p ELSE m
  <2>2. j \in 1..n /\ g[j] = e
    BY <1>1, <2>1
  <2>3. \A k \in 1..n : g[k] = e => k = j
    BY <1>1, <2>1
  <2> QED
    BY <2>2, <2>3 DEF Once
<1> QED
  BY <1>1, <1>2, <1>3 DEF SameEntries, g

LEMMA SameEntriesCompose ==
  ASSUME NEW n \in Nat, NEW f, NEW g, NEW h, SameEntries(f, g, n), SameEntries(g, h, n)
  PROVE  SameEntries(f, h, n)
<1>1. ASSUME NEW m \in 1..n PROVE \E k \in 1..n : h[k] = f[m]
  <2>1. PICK j \in 1..n : g[j] = f[m]
    BY DEF SameEntries
  <2>2. PICK k \in 1..n : h[k] = g[j]
    BY DEF SameEntries
  <2> QED
    BY <2>1, <2>2
<1>2. ASSUME NEW m \in 1..n PROVE \E k \in 1..n : f[k] = h[m]
  <2>1. PICK j \in 1..n : g[j] = h[m]
    BY DEF SameEntries
  <2>2. PICK k \in 1..n : f[k] = g[j]
    BY DEF SameEntries
  <2> QED
    BY <2>1, <2>2
<1> QED
  BY <1>1, <1>2 DEF SameEntries

\* One turn of heap_push.
LEMMA MovesUp ==
  ASSUME NEW n \in Nat, NEW x \in B!Sifts(n), UpToPlace(x.heap, n, x.at)
  PROVE  IF B!IsUp(x) THEN Ordered(x.heap, n)
         ELSE LET y == B!MovedUp(x) IN
              /\ y \in B!Sifts(n) /\ y.at < x.at
              /\ UpToPlace(y.heap, n, y.at) /\ SameEntries(x.heap, y.heap, n)
<1> DEFINE h == x.heap
           p == x.at
           q == p \div 2
<1>1. h \in [1..n -> Entries] /\ p \in 1..n
  BY DEF B!Sifts, Entries
<1>2. UpToPlace(h, n, p)
  OBVIOUS
<1>3. B!IsUp(x) <=> p = 1 \/ h[q][1] >= h[p][1]
  BY DEF B!IsUp, B!Priority
<1>4. B!MovedUp(x) = [heap |-> B!Swap(h, q, p), at |-> q]
  BY DEF B!MovedUp
<1> DEFINE g == B!Swap(h, q, p)
<1> HIDE DEF h, p, g
<1>5. CASE B!IsUp(x)
  <2>1. Ordered(h, n)
    BY <1>1, <1>2, <1>3, <1>5 DEF UpToPlace, Ordered
  <2> QED
    BY <1>5, <2>1 DEF h
<1>6. CASE ~ B!IsUp(x)
  <2>0. \A m \in 1..n : h[m][1] \in Nat
    BY <1>1, EntryIs
  <2>1. p \in 2..n /\ q \in 1..n /\ q < p /\ ~ h[q][1] >= h[p][1]
    BY <1>1, <1>3, <1>6, Halves
  <2>2. h[p][1] > h[q][1]
    BY <1>1, <2>0, <2>1
  <2>3. /\ g \in [1..n -> Entries] /\ g[q] = h[p] /\ g[p] = h[q]
        /\ \A m \in 1..n : m # p /\ m # q => g[m] = h[m]
        /\ SameEntries(h, g, n)
    BY <1>1, <2>1, SwapIs DEF g
  <2>4. ASSUME NEW m \in 2..n, m # q PROVE g[m \div 2][1] >= g[m][1]
    <3>1. m \in 1..n /\ m \div 2 \in 1..n /\ m \div 2 < m
      BY Halves
    <3>2. CASE m = p
      BY <2>0, <2>1, <2>2, <2>3, <3>2
    <3>3. CASE m # p /\ m \div 2 = p
      <4>1. p >= 2 /\ h[q][1] >= h[m][1]
        BY <1>2, <2>1, <3>3 DEF UpToPlace
      <4>2. g[m \div 2] = h[q] /\ g[m] = h[m]
        BY <2>3, <2>4, <3>1, <3>3
      <4> QED
        BY <4>1, <4>2
    <3>4. CASE m # p /\ m \div 2 = q
      <4>1. h[q][1] >= h[m][1]
        BY <1>2, <3>4 DEF UpToPlace
      <4>2. g[m \div 2] = h[p] /\ g[m] = h[m]
        BY <2>3, <2>4, <3>1, <3>4
      <4> QED
        BY <2>0, <2>1, <2>2, <3>1, <4>1, <4>2
    <3>5. CASE m # p /\ m \div 2 # p /\ m \div 2 # q
      <4>1. h[m \div 2][1] >= h[m][1]
        BY <1>2, <3>5 DEF UpToPlace
      <4>2. g[m \div 2] = h[m \div 2] /\ g[m] = h[m]
        BY <2>3, <2>4, <3>1, <3>5
      <4> QED
        BY <4>1, <4>2
    <3> QED
      BY <3>2, <3>3, <3>4, <3>5
  <2>5. ASSUME q >= 2, NEW m \in 2..n, m \div 2 = q PROVE g[q \div 2][1] >= g[m][1]
    <3>1. q \in 2..n /\ q \div 2 \in 1..n /\ q \div 2 < q /\ m \in 1..n
      BY <2>1, <2>5, Halves
    <3>2. h[q \div 2][1] >= h[q][1]
      BY <1>2, <2>1, <3>1 DEF UpToPlace
    <3>3. g[q \div 2] = h[q \div 2]
      BY <2>1, <2>3, <3>1
    <3>4. CASE m = p
      BY <2>3, <3>2, <3>3, <3>4
    <3>5. CASE m # p
      <4>1. h[q][1] >= h[m][1] /\ m # q
        BY <1>2, <2>1, <2>5, <3>1, <3>5, Halves DEF UpToPlace
      <4>2. g[m] = h[m]
        BY <2>3, <3>1, <3>5, <4>1
      <4> QED
        BY <2>0, <2>1, <3>1, <3>2, <3>3, <4>1, <4>2
    <3> QED
      BY <3>4, <3>5
  <2>6. UpToPlace(g, n, q)
    BY <2>4, <2>5 DEF UpToPlace
  <2>7. [heap |-> g, at |-> q] \in B!Sifts(n)
    BY <2>1, <2>3 DEF B!Sifts, Entries
  <2> QED
    BY <1>4, <1>6, <2>1, <2>3, <2>6, <2>7 DEF g, h, p
<1> QED
  BY <1>5, <1>6

\* A child of the entry at p that is not smaller than any of the three, or p.
LEMMA LargestIs ==
  ASSUME NEW n \in Nat, NEW h \in [1..n -> Entries], NEW p \in 1..n, Len(h) = n
  PROVE  LET l == B!Largest(h, p) IN
         /\ l \in 1..n /\ (l = p \/ (l > p /\ l \div 2 = p /\ h[l][1] > h[p][1]))
         /\ \A m \in 2..n : m \div 2 = p => h[l][1] >= h[m][1]
<1> DEFINE L == 2 * p
           a == B!Larger(h, L, p)
           b == B!Larger(h, L + 1, a)
<1>1. b = B!Largest(h, p)
  BY DEF B!Largest
<1>2. L \in Nat /\ L > p /\ L \div 2 = p /\ (L + 1) \div 2 = p /\ L + 1 \in Nat
  OBVIOUS
<1>3. \A m \in 2..n : m \div 2 = p => m = L \/ m = L + 1
  BY Halves
<1>4. \A m \in 1..n : h[m][1] \in Nat
  BY EntryIs
<1>5. a = IF L <= n /\ h[L][1] > h[p][1] THEN L ELSE p
  BY DEF B!Larger, B!Priority
<1> HIDE DEF L
<1>6. b = IF L + 1 <= n /\ h[L + 1][1] > h[a][1] THEN L + 1 ELSE a
  BY DEF B!Larger, B!Priority
<1> HIDE DEF a, b
<1>7. a \in 1..n /\ h[a][1] >= h[p][1] /\ (L <= n => h[a][1] >= h[L][1])
      /\ (a = p \/ (a = L /\ h[L][1] > h[p][1]))
  BY <1>2, <1>4, <1>5
<1>8. b \in 1..n /\ h[b][1] >= h[a][1] /\ (L + 1 <= n => h[b][1] >= h[L + 1][1])
      /\ (b = a \/ (b = L + 1 /\ h[b][1] > h[a][1]))
  BY <1>2, <1>4, <1>6, <1>7
<1>9. b = p \/ (b > p /\ b \div 2 = p /\ h[b][1] > h[p][1])
  BY <1>2, <1>4, <1>7, <1>8
<1>10. ASSUME NEW m \in 2..n, m \div 2 = p PROVE h[b][1] >= h[m][1]
  <2>1. m \in 1..n /\ h[m][1] \in Nat /\ h[a][1] \in Nat /\ h[b][1] \in Nat
    BY <1>4, <1>7, <1>8
  <2>2. CASE m = L
    BY <1>7, <1>8, <2>1, <2>2
  <2>3. CASE m = L + 1
    BY <1>8, <2>1, <2>3
  <2> QED
    BY <1>3, <1>10, <2>2, <2>3
<1> QED
  BY <1>1, <1>8, <1>9, <1>10

\* One turn of heap_pop_max.
LEMMA MovesDown ==
  ASSUME NEW n \in Nat, NEW x \in B!Sifts(n), DownToPlace(x.heap, n, x.at)
  PROVE  IF B!Largest(x.heap, x.at) = x.at THEN Ordered(x.heap, n)
         ELSE LET y == B!MovedDown(x) IN
              /\ y \in B!Sifts(n) /\ y.at > x.at
              /\ DownToPlace(y.heap, n, y.at) /\ SameEntries(x.heap, y.heap, n)
<1> DEFINE h == x.heap
           p == x.at
           q == B!Largest(h, p)
           g == B!Swap(h, p, q)
<1>1. h \in [1..n -> Entries] /\ p \in 1..n /\ Len(h) = n
  BY DEF B!Sifts, Entries
<1>2. DownToPlace(h, n, p)
  OBVIOUS
<1>4. B!MovedDown(x) = [heap |-> g, at |-> q]
  BY DEF B!MovedDown
<1> HIDE DEF h, p, q, g
<1>5. /\ q \in 1..n /\ (q = p \/ (q > p /\ q \div 2 = p /\ h[q][1] > h[p][1]))
      /\ \A m \in 2..n : m \div 2 = p => h[q][1] >= h[m][1]
  BY <1>1, LargestIs DEF q
<1>6. CASE q = p
  <2>1. Ordered(h, n)
    BY <1>2, <1>5, <1>6 DEF DownToPlace, Ordered
  <2> QED
    BY <1>6, <2>1 DEF h, p, q
<1>7. CASE q # p
  <2>0. \A m \in 1..n : h[m][1] \in Nat
    BY <1>1, EntryIs
  <2>1. q \in 2..n /\ q > p /\ q \div 2 = p /\ h[q][1] > h[p][1]
    BY <1>1, <1>5, <1>7
  <2>3. /\ g \in [1..n -> Entries] /\ g[q] = h[p] /\ g[p] = h[q]
        /\ \A m \in 1..n : m # p /\ m # q => g[m] = h[m]
        /\ SameEntries(h, g, n)
    BY <1>1, <1>5, SwapIs DEF g
  <2>4. ASSUME NEW m \in 2..n, m \div 2 # q PROVE g[m \div 2][1] >= g[m][1]
    <3>1. m \in 1..n /\ m \div 2 \in 1..n /\ m \div 2 < m
      BY Halves
    <3>2. CASE m = q
      BY <2>0, <2>1, <2>3, <3>1, <3>2
    <3>3. CASE m # q /\ m \div 2 = p
      <4>1. h[q][1] >= h[m][1] /\ m # p
        BY <1>5, <3>1, <3>3
      <4>2. g[m \div 2] = h[q] /\ g[m] = h[m]
        BY <2>3, <3>1, <3>3, <4>1
      <4> QED
        BY <4>1, <4>2
    <3>4. CASE m = p
      <4>1. p >= 2 /\ h[p \div 2][1] >= h[q][1]
        BY <1>2, <2>1, <3>4 DEF DownToPlace
      <4>2. g[m] = h[q] /\ g[m \div 2] = h[m \div 2]
        BY <2>1, <2>3, <2>4, <3>1, <3>4
      <4> QED
        BY <3>4, <4>1, <4>2
    <3>5. CASE m # q /\ m # p /\ m \div 2 # p
      <4>1. h[m \div 2][1] >= h[m][1]
        BY <1>2, <3>5 DEF DownToPlace
      <4>2. g[m \div 2] = h[m \div 2] /\ g[m] = h[m]
        BY <2>3, <2>4, <3>1, <3>5
      <4> QED
        BY <4>1, <4>2
    <3> QED
      BY <3>2, <3>3, <3>4, <3>5
  <2>5. ASSUME NEW m \in 2..n, m \div 2 = q PROVE g[q \div 2][1] >= g[m][1]
    <3>1. m \in 1..n /\ q < m /\ m # p
      BY <2>1, <2>5, Halves
    <3>2. h[q][1] >= h[m][1]
      BY <1>2, <1>7, <2>5 DEF DownToPlace
    <3>3. g[q \div 2] = h[q] /\ g[m] = h[m]
      BY <2>1, <2>3, <3>1
    <3> QED
      BY <3>2, <3>3
  <2>6. DownToPlace(g, n, q)
    BY <2>4, <2>5 DEF DownToPlace
  <2>7. [heap |-> g, at |-> q] \in B!Sifts(n)
    BY <2>1, <2>3 DEF B!Sifts, Entries
  <2>8. q # p /\ q > p
    BY <2>1, <1>7
  <2> QED
    BY <1>4, <2>8, <2>3, <2>6, <2>7 DEF g, h, p, q
<1> QED
  BY <1>6, <1>7

-----------------------------------------------------------------------------
(* The loops, as recursions along the places of the array.                  *)

IsUpLoop(f, n) ==
  f = [x \in B!Sifts(n) |-> IF B!IsUp(x) THEN x.heap ELSE f[B!MovedUp(x)]]

IsDownLoop(f, n) ==
  f = [x \in B!Sifts(n) |-> IF B!Largest(x.heap, x.at) = x.at THEN x.heap ELSE f[B!MovedDown(x)]]

\* A turn of either loop stays within the array.
LEMMA MovedIs ==
  ASSUME NEW n \in Nat, NEW x \in B!Sifts(n)
  PROVE  /\ x.at \in 1..n
         /\ ~ B!IsUp(x) => B!MovedUp(x) \in B!Sifts(n) /\ B!MovedUp(x).at < x.at
         /\ B!Largest(x.heap, x.at) # x.at => B!MovedDown(x) \in B!Sifts(n) /\ B!MovedDown(x).at > x.at
<1> DEFINE h == x.heap
           p == x.at
           q == B!Largest(h, p)
<1>1. h \in [1..n -> Entries] /\ p \in 1..n /\ Len(h) = n
  BY DEF B!Sifts, Entries
<1>2. B!IsUp(x) \/ p # 1
  BY DEF B!IsUp
<1>3. /\ B!MovedUp(x) = [heap |-> B!Swap(h, p \div 2, p), at |-> p \div 2]
      /\ B!MovedDown(x) = [heap |-> B!Swap(h, p, q), at |-> q]
  BY DEF B!MovedUp, B!MovedDown
<1> HIDE DEF h, p, q
<1>4. p # 1 => p \div 2 \in 1..n /\ p \div 2 < p
  BY <1>1, Halves
<1>5. q \in 1..n /\ (q = p \/ q > p)
  BY <1>1, LargestIs DEF q
<1>6. /\ p # 1 => B!Swap(h, p \div 2, p) \in [1..n -> Entries]
      /\ B!Swap(h, p, q) \in [1..n -> Entries]
  BY <1>1, <1>4, <1>5, SwapIs
<1>7. p # 1 => [heap |-> B!Swap(h, p \div 2, p), at |-> p \div 2] \in B!Sifts(n)
  BY <1>4, <1>6 DEF B!Sifts, Entries
<1>8. [heap |-> B!Swap(h, p, q), at |-> q] \in B!Sifts(n)
  BY <1>5, <1>6 DEF B!Sifts, Entries
<1> QED
  BY <1>1, <1>2, <1>3, <1>4, <1>5, <1>7, <1>8 DEF h, p, q

\* The loop of heap_push ends: there is a function that satisfies its equation.
LEMMA UpLoopExists ==
  ASSUME NEW n \in Nat
  PROVE  \E f : IsUpLoop(f, n)
<1> DEFINE Turn(f, x) == IF B!IsUp(x) THEN x.heap ELSE f[B!MovedUp(x)]
           Upto(f, m) == /\ f = [x \in B!Sifts(n) |-> f[x]]
                         /\ \A x \in B!Sifts(n) : x.at <= m => f[x] = Turn(f, x)
           S == {m \in 0..n : \E f : Upto(f, m)}
<1>1. 0 \in S
  <2> DEFINE f == [x \in B!Sifts(n) |-> x.heap]
  <2>1. Upto(f, 0)
    BY MovedIs
  <2> HIDE DEF f
  <2> QED
    BY <2>1
<1>2. ASSUME NEW m \in 0..(n - 1), m \in S PROVE m + 1 \in S
  <2>1. PICK f : Upto(f, m)
    BY <1>2
  <2> DEFINE g == [x \in B!Sifts(n) |-> IF x.at <= m THEN f[x] ELSE Turn(f, x)]
  <2>2. ASSUME NEW x \in B!Sifts(n), x.at <= m + 1 PROVE g[x] = Turn(g, x)
    <3>1. x.at \in 1..n /\ (~ B!IsUp(x) => B!MovedUp(x) \in B!Sifts(n) /\ B!MovedUp(x).at < x.at)
      BY MovedIs
    <3>2. ~ B!IsUp(x) => B!MovedUp(x).at \in 1..n
      BY <3>1, MovedIs
    <3>3. ~ B!IsUp(x) => g[B!MovedUp(x)] = f[B!MovedUp(x)]
      BY <2>2, <3>1, <3>2
    <3>4. g[x] = Turn(f, x)
      BY <2>1, <3>1
    <3> QED
      BY <3>3, <3>4
  <2>3. g = [x \in B!Sifts(n) |-> g[x]]
    OBVIOUS
  <2>4. Upto(g, m + 1)
    BY <2>2, <2>3
  <2> HIDE DEF g
  <2> QED
    BY <2>4
<1> HIDE DEF S
<1>3. n \in S
  <2>1. 0..n \subseteq S
    BY <1>1, <1>2, IntervalInduction, Zenon
  <2> QED
    BY <2>1
<1>4. PICK f : Upto(f, n)
  BY <1>3 DEF S
<1>5. \A x \in B!Sifts(n) : f[x] = Turn(f, x)
  BY <1>4, MovedIs
<1>6. f = [x \in B!Sifts(n) |-> Turn(f, x)]
  BY <1>4, <1>5
<1> QED
  BY <1>6 DEF IsUpLoop

\* So does that of heap_pop_max.
LEMMA DownLoopExists ==
  ASSUME NEW n \in Nat
  PROVE  \E f : IsDownLoop(f, n)
<1> DEFINE Turn(f, x) == IF B!Largest(x.heap, x.at) = x.at THEN x.heap ELSE f[B!MovedDown(x)]
           Upto(f, m) == /\ f = [x \in B!Sifts(n) |-> f[x]]
                         /\ \A x \in B!Sifts(n) : x.at > n - m => f[x] = Turn(f, x)
           S == {m \in 0..n : \E f : Upto(f, m)}
<1>1. 0 \in S
  <2> DEFINE f == [x \in B!Sifts(n) |-> x.heap]
  <2>1. Upto(f, 0)
    BY MovedIs
  <2> HIDE DEF f
  <2> QED
    BY <2>1
<1>2. ASSUME NEW m \in 0..(n - 1), m \in S PROVE m + 1 \in S
  <2>1. PICK f : Upto(f, m)
    BY <1>2
  <2> DEFINE g == [x \in B!Sifts(n) |-> IF x.at > n - m THEN f[x] ELSE Turn(f, x)]
  <2>2. ASSUME NEW x \in B!Sifts(n), x.at > n - (m + 1) PROVE g[x] = Turn(g, x)
    <3>1. x.at \in 1..n /\ (B!Largest(x.heap, x.at) # x.at => B!MovedDown(x) \in B!Sifts(n) /\ B!MovedDown(x).at > x.at)
      BY MovedIs
    <3>2. B!Largest(x.heap, x.at) # x.at => B!MovedDown(x).at \in 1..n
      BY <3>1, MovedIs
    <3>3. B!Largest(x.heap, x.at) # x.at => g[B!MovedDown(x)] = f[B!MovedDown(x)]
      BY <2>2, <3>1, <3>2
    <3>4. g[x] = Turn(f, x)
      BY <2>1, <3>1
    <3> QED
      BY <3>3, <3>4
  <2>3. g = [x \in B!Sifts(n) |-> g[x]]
    OBVIOUS
  <2>4. Upto(g, m + 1)
    BY <2>2, <2>3
  <2> HIDE DEF g
  <2> QED
    BY <2>4
<1> HIDE DEF S
<1>3. n \in S
  <2>1. 0..n \subseteq S
    BY <1>1, <1>2, IntervalInduction, Zenon
  <2> QED
    BY <2>1
<1>4. PICK f : Upto(f, n)
  BY <1>3 DEF S
<1>5. \A x \in B!Sifts(n) : f[x] = Turn(f, x)
  BY <1>4, MovedIs
<1>6. f = [x \in B!Sifts(n) |-> Turn(f, x)]
  BY <1>4, <1>5
<1> QED
  BY <1>6 DEF IsDownLoop

\* What the loops return: a heap of the same entries.
LEMMA SiftUpIs ==
  ASSUME NEW n \in Nat \ {0}, NEW h \in [1..n -> Entries], UpToPlace(h, n, n)
  PROVE  LET g == B!SiftUp(h) IN
         g \in [1..n -> Entries] /\ Ordered(g, n) /\ SameEntries(h, g, n)
<1> DEFINE E(f) == [x \in B!Sifts(n) |-> IF B!IsUp(x) THEN x.heap ELSE f[B!MovedUp(x)]]
           up == CHOOSE f : f = E(f)
           start == [heap |-> h, at |-> n]
           Good(x) == /\ up[x] \in [1..n -> Entries] /\ Ordered(up[x], n)
                      /\ SameEntries(x.heap, up[x], n)
           S == {m \in 0..n : \A x \in B!Sifts(n) : x.at <= m /\ UpToPlace(x.heap, n, x.at) => Good(x)}
<1>1. Len(h) = n
  OBVIOUS
<1>2. B!SiftUp(h) = up[start]
  <2>1. B!SiftUp(h) = (CHOOSE f : f = [x \in B!Sifts(Len(h)) |->
                         IF B!IsUp(x) THEN x.heap ELSE f[B!MovedUp(x)]])[[heap |-> h, at |-> Len(h)]]
    BY Zenon DEF B!SiftUp
  <2> QED
    BY <1>1, <2>1, Zenon
<1>3. \E f : f = E(f)
  BY UpLoopExists DEF IsUpLoop
<1>4. up = E(up)
  <2> HIDE DEF E
  <2> QED
    BY <1>3, Zenon
<1>5. \A x \in B!Sifts(n) : up[x] = IF B!IsUp(x) THEN x.heap ELSE up[B!MovedUp(x)]
  <2> HIDE DEF up
  <2> QED
    BY <1>4
<1> HIDE DEF up
<1>6. 0 \in S
  BY MovedIs
<1>7. ASSUME NEW m \in 0..(n - 1), m \in S PROVE m + 1 \in S
  <2>1. ASSUME NEW x \in B!Sifts(n), x.at <= m + 1, UpToPlace(x.heap, n, x.at) PROVE Good(x)
    <3>1. CASE B!IsUp(x)
      <4>1. up[x] = x.heap /\ Ordered(x.heap, n) /\ x.heap \in [1..n -> Entries]
        BY <1>5, <2>1, <3>1, MovesUp DEF B!Sifts, Entries
      <4> QED
        BY <4>1 DEF SameEntries
    <3>2. CASE ~ B!IsUp(x)
      <4> DEFINE y == B!MovedUp(x)
      <4>1. /\ y \in B!Sifts(n) /\ y.at < x.at
            /\ UpToPlace(y.heap, n, y.at) /\ SameEntries(x.heap, y.heap, n)
        BY <2>1, <3>2, MovesUp
      <4>2. up[x] = up[y]
        BY <1>5, <3>2
      <4> HIDE DEF y
      <4>3. x.at \in 1..n /\ y.at \in 1..n
        BY <4>1, MovedIs
      <4>4. y.at <= m
        BY <2>1, <4>1, <4>3
      <4>5. Good(y)
        BY <1>7, <4>1, <4>4
      <4> QED
        BY <4>1, <4>2, <4>5, SameEntriesCompose
    <3> QED
      BY <3>1, <3>2
  <2> HIDE DEF Good
  <2> QED
    BY <2>1
<1> HIDE DEF S
<1>8. n \in S
  <2>1. 0..n \subseteq S
    BY <1>6, <1>7, IntervalInduction, Zenon
  <2> QED
    BY <2>1
<1>9. start \in B!Sifts(n) /\ start.at = n /\ start.heap = h
  BY DEF B!Sifts, Entries
<1> HIDE DEF start
<1>10. Good(start)
  BY <1>8, <1>9 DEF S
<1> QED
  BY <1>2, <1>9, <1>10

\* From an array whose first entry may be out of place, heap_pop_max makes a heap.
LEMMA SiftDownIs ==
  ASSUME NEW n \in Nat \ {0}, NEW h \in [1..n -> Entries], DownToPlace(h, n, 1)
  PROVE  LET g == B!SiftDown(h) IN
         g \in [1..n -> Entries] /\ Ordered(g, n) /\ SameEntries(h, g, n)
<1> DEFINE E(f) == [x \in B!Sifts(n) |-> IF B!Largest(x.heap, x.at) = x.at THEN x.heap ELSE f[B!MovedDown(x)]]
           down == CHOOSE f : f = E(f)
           start == [heap |-> h, at |-> 1]
           Good(x) == /\ down[x] \in [1..n -> Entries] /\ Ordered(down[x], n)
                      /\ SameEntries(x.heap, down[x], n)
           S == {m \in 0..n : \A x \in B!Sifts(n) : x.at > n - m /\ DownToPlace(x.heap, n, x.at) => Good(x)}
<1>1. Len(h) = n
  OBVIOUS
<1>2. B!SiftDown(h) = down[start]
  <2>1. B!SiftDown(h) = (CHOOSE f : f = [x \in B!Sifts(Len(h)) |->
                         IF B!Largest(x.heap, x.at) = x.at THEN x.heap ELSE f[B!MovedDown(x)]])[[heap |-> h, at |-> 1]]
    BY Zenon DEF B!SiftDown
  <2> QED
    BY <1>1, <2>1, Zenon
<1>3. \E f : f = E(f)
  BY DownLoopExists DEF IsDownLoop
<1>4. down = E(down)
  <2> HIDE DEF E
  <2> QED
    BY <1>3, Zenon
<1>5. \A x \in B!Sifts(n) : down[x] = IF B!Largest(x.heap, x.at) = x.at THEN x.heap ELSE down[B!MovedDown(x)]
  <2> HIDE DEF down
  <2> QED
    BY <1>4
<1> HIDE DEF down
<1>6. 0 \in S
  BY MovedIs
<1>7. ASSUME NEW m \in 0..(n - 1), m \in S PROVE m + 1 \in S
  <2>1. ASSUME NEW x \in B!Sifts(n), x.at > n - (m + 1), DownToPlace(x.heap, n, x.at) PROVE Good(x)
    <3>1. CASE B!Largest(x.heap, x.at) = x.at
      <4>1. down[x] = x.heap /\ Ordered(x.heap, n) /\ x.heap \in [1..n -> Entries]
        BY <1>5, <2>1, <3>1, MovesDown DEF B!Sifts, Entries
      <4> QED
        BY <4>1 DEF SameEntries
    <3>2. CASE B!Largest(x.heap, x.at) # x.at
      <4> DEFINE y == B!MovedDown(x)
      <4>1. /\ y \in B!Sifts(n) /\ y.at > x.at
            /\ DownToPlace(y.heap, n, y.at) /\ SameEntries(x.heap, y.heap, n)
        BY <2>1, <3>2, MovesDown
      <4>2. down[x] = down[y]
        BY <1>5, <3>2
      <4> HIDE DEF y
      <4>3. x.at \in 1..n /\ y.at \in 1..n
        BY <4>1, MovedIs
      <4>4. y.at > n - m
        BY <2>1, <4>1, <4>3
      <4>5. Good(y)
        BY <1>7, <4>1, <4>4
      <4> QED
        BY <4>1, <4>2, <4>5, SameEntriesCompose
    <3> QED
      BY <3>1, <3>2
  <2> HIDE DEF Good
  <2> QED
    BY <2>1
<1> HIDE DEF S
<1>8. n \in S
  <2>1. 0..n \subseteq S
    BY <1>6, <1>7, IntervalInduction, Zenon
  <2> QED
    BY <2>1
<1>9. start \in B!Sifts(n) /\ start.at = 1 /\ start.heap = h
  BY DEF B!Sifts, Entries
<1> HIDE DEF start
<1>10. Good(start)
  BY <1>8, <1>9 DEF S
<1> QED
  BY <1>2, <1>9, <1>10

\* The first entry has the highest priority.
LEMMA TopIs ==
  ASSUME NEW n \in Nat, NEW h \in [1..n -> Entries], Ordered(h, n)
  PROVE  \A m \in 1..n : h[1][1] >= h[m][1]
<1> DEFINE S == {m \in 0..n : \A k \in 1..n : k <= m => h[1][1] >= h[k][1]}
<1>0. \A m \in 1..n : h[m][1] \in Nat
  BY EntryIs
<1>1. 0 \in S
  OBVIOUS
<1>2. ASSUME NEW m \in 0..(n - 1), m \in S PROVE m + 1 \in S
  <2>1. ASSUME NEW k \in 1..n, k <= m + 1 PROVE h[1][1] >= h[k][1]
    <3>1. CASE k = 1
      BY <1>0, <3>1
    <3>2. CASE k # 1
      <4>1. k \in 2..n /\ k \div 2 \in 1..n /\ k \div 2 <= m
        BY <2>1, <3>2, Halves
      <4>2. h[k \div 2][1] >= h[k][1] /\ h[1][1] >= h[k \div 2][1]
        BY <1>2, <4>1 DEF Ordered
      <4>3. 1 \in 1..n
        OBVIOUS
      <4> QED
        BY <1>0, <4>1, <4>2, <4>3
    <3> QED
      BY <3>1, <3>2
  <2> QED
    BY <2>1
<1> HIDE DEF S
<1>3. 0..n \subseteq S
  BY <1>1, <1>2, IntervalInduction, Zenon
<1>4. n \in S
  BY <1>3
<1> QED
  BY <1>4 DEF S

\* What heap_push returns.
LEMMA PushIs ==
  ASSUME NEW n \in Nat, NEW h \in [1..n -> Entries], Ordered(h, n),
         NEW p \in 0..UINT64_MAX, NEW k \in Chunks
  PROVE  LET g == B!heap_push(h, p, k)
             e == <<p, k>>
         IN /\ g \in [1..(n + 1) -> Entries] /\ Ordered(g, n + 1)
            /\ \A m \in 1..(n + 1) : g[m] = e \/ \E j \in 1..n : h[j] = g[m]
            /\ \A d : d # e /\ Once(h, n, d) => Once(g, n + 1, d)
            /\ (\A m \in 1..n : h[m] # e) => Once(g, n + 1, e)
<1> DEFINE e == <<p, k>>
           t == Append(h, e)
           g == B!SiftUp(t)
<1>1. e \in Entries
  BY DEF Entries
<1> HIDE DEF e
<1>2. /\ n + 1 \in Nat \ {0} /\ t \in [1..(n + 1) -> Entries] /\ t[n + 1] = e
      /\ \A m \in 1..n : t[m] = h[m]
  <2>1. h \in Seq(Entries) /\ Len(h) = n
    OBVIOUS
  <2>2. t \in Seq(Entries) /\ Len(t) = n + 1 /\ t[n + 1] = e /\ \A m \in 1..n : t[m] = h[m]
    BY <1>1, <2>1
  <2> HIDE DEF t
  <2>3. t \in [1..(n + 1) -> Entries]
    BY <2>2
  <2> QED
    BY <2>2, <2>3
<1>3. UpToPlace(t, n + 1, n + 1)
  <2>1. ASSUME NEW m \in 2..(n + 1), m # n + 1 PROVE t[m \div 2][1] >= t[m][1]
    <3>1. m \in 2..n /\ m \div 2 \in 1..n
      BY <2>1, Halves
    <3> QED
      BY <1>2, <3>1 DEF Ordered
  <2>2. \A m \in 2..(n + 1) : m \div 2 # n + 1
    BY Halves
  <2> QED
    BY <2>1, <2>2 DEF UpToPlace
<1> HIDE DEF t, g
<1>4. g \in [1..(n + 1) -> Entries] /\ Ordered(g, n + 1) /\ SameEntries(t, g, n + 1)
  BY <1>2, <1>3, SiftUpIs DEF g
<1>5. ASSUME NEW m \in 1..(n + 1) PROVE g[m] = e \/ \E j \in 1..n : h[j] = g[m]
  <2>1. PICK j \in 1..(n + 1) : t[j] = g[m]
    BY <1>4 DEF SameEntries
  <2>2. j = n + 1 \/ j \in 1..n
    OBVIOUS
  <2> QED
    BY <1>2, <2>1, <2>2
<1>6. ASSUME NEW d, d # e, Once(h, n, d) PROVE Once(g, n + 1, d)
  <2>1. PICK m \in 1..n : h[m] = d /\ \A j \in 1..n : h[j] = d => j = m
    BY <1>6 DEF Once
  <2>2. m \in 1..(n + 1) /\ t[m] = d
    BY <1>2, <2>1
  <2>3. \A j \in 1..(n + 1) : t[j] = d => j = m
    BY <1>2, <1>6, <2>1
  <2>4. Once(t, n + 1, d)
    BY <2>2, <2>3 DEF Once
  <2> QED
    BY <1>4, <2>4 DEF SameEntries
<1>7. ASSUME \A m \in 1..n : h[m] # e PROVE Once(g, n + 1, e)
  <2>1. n + 1 \in 1..(n + 1) /\ \A j \in 1..(n + 1) : t[j] = e => j = n + 1
    BY <1>2, <1>7
  <2>2. Once(t, n + 1, e)
    BY <1>2, <2>1 DEF Once
  <2> QED
    BY <1>4, <2>2 DEF SameEntries
<1>8. B!heap_push(h, p, k) = g
  BY DEF B!heap_push, g, t, e
<1> QED
  BY <1>4, <1>5, <1>6, <1>7, <1>8 DEF e

\* What heap_pop_max leaves.
LEMMA PopIs ==
  ASSUME NEW n \in Nat \ {0}, NEW h \in [1..n -> Entries], Ordered(h, n)
  PROVE  LET g == B!AfterPop(h) IN
         /\ g \in [1..(n - 1) -> Entries] /\ Ordered(g, n - 1)
         /\ \A m \in 1..(n - 1) : \E j \in 1..n : h[j] = g[m]
         /\ \A d : d # h[1] /\ Once(h, n, d) => Once(g, n - 1, d)
         /\ Once(h, n, h[1]) => \A m \in 1..(n - 1) : g[m] # h[1]
<1>1. Len(h) = n
  OBVIOUS
<1>2. CASE n = 1
  <2>1. B!AfterPop(h) = <<>>
    BY <1>1, <1>2 DEF B!AfterPop
  <2>2. \A d : Once(h, 1, d) => d = h[1]
    BY DEF Once
  <2>3. <<>> \in [1..0 -> Entries] /\ 1..0 = {} /\ Ordered(<<>>, 0)
    BY DEF Ordered
  <2> QED
    BY <1>2, <2>1, <2>2, <2>3
<1>3. CASE n # 1
  <2> DEFINE t == B!LastToTop(h)
             g == B!SiftDown(t)
  <2>1. n - 1 \in Nat \ {0} /\ n - 1 < n /\ 1 \in 1..n /\ n \in 1..n
    BY <1>3
  <2>2. B!AfterPop(h) = g
    BY <1>1, <1>3 DEF B!AfterPop
  <2>3. t \in [1..(n - 1) -> Entries] /\ t[1] = h[n] /\ \A m \in 2..(n - 1) : t[m] = h[m]
    <3> DEFINE u == [h EXCEPT ![1] = h[Len(h)]]
    <3>1. u \in Seq(Entries) /\ Len(u) = n /\ u[1] = h[n] /\ \A m \in 2..n : u[m] = h[m]
      BY <1>1, <2>1
    <3> HIDE DEF u
    <3>2. SubSeq(u, 1, n - 1) \in [1..(n - 1) -> Entries] /\ \A m \in 1..(n - 1) : SubSeq(u, 1, n - 1)[m] = u[m]
      <4>1. 1 \in 1..(Len(u) + 1) /\ n - 1 \in 0..Len(u)
        BY <2>1, <3>1
      <4>2. /\ SubSeq(u, 1, n - 1) \in Seq(Entries) /\ Len(SubSeq(u, 1, n - 1)) = n - 1
            /\ \A m \in 1..(n - 1) : SubSeq(u, 1, n - 1)[m] = u[m]
        BY <2>1, <3>1, <4>1, SubSeqProperties
      <4> DEFINE v == SubSeq(u, 1, n - 1)
      <4> HIDE DEF v
      <4>3. v \in Seq(Entries) /\ Len(v) = n - 1
        BY <4>2 DEF v
      <4>4. v \in [1..(n - 1) -> Entries]
        BY <2>1, <4>3
      <4> QED
        BY <4>2, <4>4 DEF v
    <3>3. t = SubSeq(u, 1, n - 1)
      BY <1>1 DEF B!LastToTop, u
    <3> QED
      BY <2>1, <3>1, <3>2, <3>3
  <2> HIDE DEF t, g
  <2>4. DownToPlace(t, n - 1, 1)
    <3>1. ASSUME NEW m \in 2..(n - 1), m \div 2 # 1 PROVE t[m \div 2][1] >= t[m][1]
      <4>1. m \in 2..n /\ m \div 2 \in 2..(n - 1)
        BY <3>1, Halves
      <4> QED
        BY <2>3, <4>1 DEF Ordered
    <3> QED
      BY <3>1 DEF DownToPlace
  <2>5. g \in [1..(n - 1) -> Entries] /\ Ordered(g, n - 1) /\ SameEntries(t, g, n - 1)
    BY <2>1, <2>3, <2>4, SiftDownIs DEF g
  <2>6. ASSUME NEW m \in 1..(n - 1) PROVE \E j \in 1..n : h[j] = g[m]
    <3>1. PICK j \in 1..(n - 1) : t[j] = g[m]
      BY <2>5 DEF SameEntries
    <3> QED
      BY <2>1, <2>3, <3>1
  <2>7. ASSUME NEW d, d # h[1], Once(h, n, d) PROVE Once(g, n - 1, d)
    <3>1. PICK m \in 1..n : h[m] = d /\ \A j \in 1..n : h[j] = d => j = m
      BY <2>7 DEF Once
    <3> DEFINE r == IF m = n THEN 1 ELSE m
    <3>2. r \in 1..(n - 1) /\ t[r] = d
      BY <2>1, <2>3, <2>7, <3>1
    <3>3. \A j \in 1..(n - 1) : t[j] = d => j = r
      BY <2>1, <2>3, <2>7, <3>1
    <3>4. Once(t, n - 1, d)
      BY <3>2, <3>3 DEF Once
    <3> QED
      BY <2>5, <3>4 DEF SameEntries
  <2>8. ASSUME Once(h, n, h[1]), NEW m \in 1..(n - 1) PROVE g[m] # h[1]
    <3>1. \A j \in 1..n : h[j] = h[1] => j = 1
      BY <2>1, <2>8 DEF Once
    <3>2. \A j \in 1..(n - 1) : t[j] # h[1]
      BY <2>1, <2>3, <3>1
    <3> QED
      BY <2>5, <3>2 DEF SameEntries
  <2> QED
    BY <2>2, <2>5, <2>6, <2>7, <2>8
<1> QED
  BY <1>2, <1>3

-----------------------------------------------------------------------------
(* The next use of a chunk. *)

\* The two instances have copies of these operators, with the same definitions.
LEMMA SameCardinality ==
  \A S : B!Cardinality(S) = Cardinality(S) /\ W!Cardinality(S) = Cardinality(S)
BY DEF B!Cardinality, W!Cardinality, Cardinality

LEMMA SameNextUse ==
  /\ \A r, j, k : B!NextUse(r, j, k) = NextUse(r, j, k)
  /\ \A r, j, k : W!NextUse(r, j, k) = NextUse(r, j, k)
  /\ \A r, j : B!At(r, j) = r[j + 1] /\ W!At(r, j) = r[j + 1] /\ At(r, j) = r[j + 1]
BY DEF B!NextUse, W!NextUse, NextUse, B!Positions, W!Positions, Positions, B!At, W!At, At, B!Min, W!Min, Min

\* The least of some numbers.
LEMMA MinIs ==
  ASSUME NEW S \in SUBSET Nat, S # {}
  PROVE  Min(S) \in S /\ \A x \in S : Min(S) <= x
<1>1. PICK m \in S : \A x \in S : m <= x
  BY LeastExists
<1> QED
  BY <1>1 DEF Min

\* The first of those for which f is the greatest.
LEMMA FirstOfMost ==
  ASSUME NEW D \in SUBSET Nat, D # {}, NEW f, \A k \in D : f[k] \in 0..UINT64_MAX
  PROVE  LET most == {k \in D : \A m \in D : f[m] <= f[k]} IN Min(most) \in most
<1> DEFINE most == {k \in D : \A m \in D : f[m] <= f[k]}
           under(k) == UINT64_MAX - f[k]
           T == {under(k) : k \in D}
<1>1. UINT64_MAX \in Nat
  BY SolversAssumption
<1>2. T \in SUBSET Nat /\ T # {}
  <2>1. \A k \in D : under(k) \in Nat
    BY <1>1
  <2> HIDE DEF under
  <2> QED
    BY <2>1
<1>3. PICK t \in T : \A x \in T : t <= x
  BY <1>2, LeastExists
<1>4. PICK k \in D : t = under(k)
  OBVIOUS
<1>5. ASSUME NEW m \in D PROVE f[m] <= f[k]
  <2>1. under(k) <= under(m)
    BY <1>3, <1>4
  <2> QED
    BY <1>1, <2>1
<1>6. most \in SUBSET Nat /\ most # {}
  BY <1>4, <1>5
<1> HIDE DEF most
<1>7. Min(most) \in most
  BY <1>6, MinIs
<1> QED
  BY <1>7 DEF most

References == {r \in Seq(Chunks) : Len(r) < UINT64_MAX}

LEMMA NextUseIs ==
  ASSUME NEW r \in References, NEW j \in -1..Len(r), NEW k
  PROVE  LET u == NextUse(r, j, k) IN
         /\ u \in 0..UINT64_MAX /\ u > j
         /\ \/ u = UINT64_MAX /\ \A m \in 0..(Len(r) - 1) : m > j => r[m + 1] # k
            \/ /\ u \in 0..(Len(r) - 1) /\ r[u + 1] = k
               /\ \A m \in 0..(Len(r) - 1) : m > j /\ m < u => r[m + 1] # k
<1> DEFINE later == {m \in 0..(Len(r) - 1) : m > j /\ r[m + 1] = k}
<1>1. NextUse(r, j, k) = IF later = {} THEN UINT64_MAX ELSE Min(later)
  BY DEF NextUse, Positions, At
<1>2. Len(r) \in Nat /\ Len(r) < UINT64_MAX /\ UINT64_MAX \in Nat
  BY SolversAssumption DEF References
<1>3. CASE later = {}
  <2>1. ASSUME NEW m \in 0..(Len(r) - 1), m > j PROVE r[m + 1] # k
    <3>1. m \notin later
      BY <1>3
    <3> QED
      BY <2>1, <3>1
  <2>2. NextUse(r, j, k) = UINT64_MAX
    BY <1>1, <1>3
  <2> HIDE DEF later
  <2> QED
    BY <1>2, <2>1, <2>2
<1>4. CASE later # {}
  <2>1. later \in SUBSET Nat
    OBVIOUS
  <2> DEFINE u == Min(later)
  <2>2. u \in later /\ \A x \in later : u <= x
    BY <1>4, <2>1, MinIs
  <2> HIDE DEF u
  <2>3. u \in 0..(Len(r) - 1) /\ u > j /\ r[u + 1] = k
    BY <2>2
  <2>4. \A m \in 0..(Len(r) - 1) : m > j /\ m < u => r[m + 1] # k
    BY <2>2
  <2>5. NextUse(r, j, k) = u
    BY <1>1, <1>4 DEF u
  <2> QED
    BY <1>2, <2>3, <2>4, <2>5
<1> QED
  BY <1>3, <1>4

\* Past a reference to another chunk the next use is the same.
LEMMA NextUseStays ==
  ASSUME NEW r \in References, NEW j \in 0..(Len(r) - 1), NEW k
  PROVE  /\ r[j + 1] = k => NextUse(r, j - 1, k) = j
         /\ r[j + 1] # k => NextUse(r, j - 1, k) = NextUse(r, j, k)
<1> DEFINE u == NextUse(r, j - 1, k)
           v == NextUse(r, j, k)
<1>1. Len(r) \in Nat /\ Len(r) < UINT64_MAX /\ UINT64_MAX \in Nat
  BY SolversAssumption DEF References
<1>2. /\ u \in 0..UINT64_MAX /\ u > j - 1
      /\ \/ u = UINT64_MAX /\ \A m \in 0..(Len(r) - 1) : m > j - 1 => r[m + 1] # k
         \/ /\ u \in 0..(Len(r) - 1) /\ r[u + 1] = k
            /\ \A m \in 0..(Len(r) - 1) : m > j - 1 /\ m < u => r[m + 1] # k
  <2>1. j - 1 \in -1..Len(r)
    BY <1>1
  <2> QED
    BY <2>1, NextUseIs
<1>3. /\ v \in 0..UINT64_MAX /\ v > j
      /\ \/ v = UINT64_MAX /\ \A m \in 0..(Len(r) - 1) : m > j => r[m + 1] # k
         \/ /\ v \in 0..(Len(r) - 1) /\ r[v + 1] = k
            /\ \A m \in 0..(Len(r) - 1) : m > j /\ m < v => r[m + 1] # k
  <2>1. j \in -1..Len(r)
    BY <1>1
  <2> QED
    BY <2>1, NextUseIs
<1> HIDE DEF u, v
<1>4. ASSUME r[j + 1] = k PROVE u = j
  BY <1>1, <1>2, <1>4
<1>5. ASSUME r[j + 1] # k PROVE u = v
  <2>1. ~ u < v
    <3> SUFFICES ASSUME u < v PROVE FALSE
      OBVIOUS
    <3>1. u \in 0..(Len(r) - 1) /\ r[u + 1] = k
      BY <1>1, <1>2, <1>3
    <3> QED
      BY <1>2, <1>3, <1>5, <3>1
  <2>2. ~ v < u
    <3> SUFFICES ASSUME v < u PROVE FALSE
      OBVIOUS
    <3>1. v \in 0..(Len(r) - 1) /\ r[v + 1] = k
      BY <1>1, <1>2, <1>3
    <3> QED
      BY <1>2, <1>3, <3>1
  <2> QED
    BY <1>2, <1>3, <2>1, <2>2
<1> QED
  BY <1>4, <1>5 DEF u, v

-----------------------------------------------------------------------------
(* belady_simulate. *)

Here == file.ref[position + 1]

BeladyTyped ==
  /\ file \in Traces /\ capacity \in Capacities
  /\ phase \in {"load", "refs", "evict", "insert", "check", "refused", "nothing", "aborted", "reported"}
  /\ position \in 0..Len(file.ref) /\ misses \in Nat
  /\ in_cache \in SUBSET Chunks /\ Cardinality(in_cache) <= capacity
  /\ current_priority \in [Chunks -> 0..UINT64_MAX]
  /\ heap \in Seq(Entries) /\ Len(heap) <= position

PhaseSound ==
  /\ phase = "load" => position = 0 /\ misses = 0 /\ in_cache = {}
  /\ phase = "refs" => position < Len(file.ref)
  /\ phase \in {"evict", "insert"} => position < Len(file.ref) /\ Here \notin in_cache
  /\ phase = "evict" => Cardinality(in_cache) = capacity
  /\ phase = "insert" => capacity = 0 \/ Cardinality(in_cache) < capacity
  /\ phase \in {"check", "aborted", "reported"} => position = Len(file.ref) /\ Len(file.ref) > 0
  /\ misses <= IF phase \in {"evict", "insert"} THEN position + 1 ELSE position

\* An entry is live, or of a use that has passed.  What is cached has its next use as
\* its priority, and one entry with it.
HeapInv ==
  /\ Ordered(heap, Len(heap))
  /\ \A m \in 1..Len(heap) : B!Live(heap[m]) \/ heap[m][1] < position
  /\ \A k \in in_cache : /\ current_priority[k] = NextUse(file.ref, position - 1, k)
                         /\ Once(heap, Len(heap), <<current_priority[k], k>>)
  /\ capacity = 0 => heap = <<>>

BeladyInv == BeladyTyped /\ PhaseSound /\ HeapInv

\* What the types of the state say about it.
LEMMA TraceFacts ==
  ASSUME BeladyTyped
  PROVE  /\ file.ref \in References /\ Len(file.ref) \in Nat /\ capacity \in Nat /\ UINT64_MAX \in Nat
         /\ position < Len(file.ref) => Here \in Chunks
         /\ IsFiniteSet(in_cache) /\ Cardinality(in_cache) \in Nat
         /\ heap \in [1..Len(heap) -> Entries] /\ Len(heap) \in Nat
<1>1. IsFiniteSet(0..UINT64_MAX) /\ in_cache \subseteq 0..UINT64_MAX
  BY SolversAssumption, FS_Interval DEF BeladyTyped
<1>2. IsFiniteSet(in_cache) /\ Cardinality(in_cache) \in Nat
  BY <1>1, FS_Subset, FS_CardinalityType
<1>3. file.ref \in References /\ capacity \in Nat /\ UINT64_MAX \in Nat
  BY SolversAssumption DEF BeladyTyped, References
<1>4. position < Len(file.ref) => Here \in Chunks
  BY <1>3 DEF BeladyTyped, References, Here
<1> QED
  BY <1>2, <1>3, <1>4 DEF BeladyTyped, References

\* The entry that a reference pushes is a new one; the one it replaces has passed.
LEMMA NoteKeeps ==
  ASSUME BeladyTyped, HeapInv, position < Len(file.ref), capacity # 0,
         position' = position + 1, UNCHANGED <<file, capacity>>,
         in_cache' = in_cache \cup {Here},
         current_priority' = [current_priority EXCEPT ![Here] = NextUse(file.ref, position, Here)],
         heap' = B!heap_push(heap, NextUse(file.ref, position, Here), Here)
  PROVE  /\ HeapInv'
         /\ heap' \in Seq(Entries) /\ Len(heap') = Len(heap) + 1
         /\ current_priority' \in [Chunks -> 0..UINT64_MAX]
<1> DEFINE k == Here
           p == NextUse(file.ref, position, k)
           n == Len(heap)
<1>1. /\ file.ref \in References /\ Len(file.ref) \in Nat /\ UINT64_MAX \in Nat /\ k \in Chunks
      /\ heap \in [1..n -> Entries] /\ n \in Nat /\ position \in Nat
  BY TraceFacts DEF BeladyTyped
<1>2. p \in 0..UINT64_MAX /\ p > position
  BY <1>1, NextUseIs
<1>3. position' - 1 = position /\ position' = position + 1
  BY <1>1
<1>4. \A x \in Chunks : x # k => NextUse(file.ref, position - 1, x) = NextUse(file.ref, position, x)
  BY <1>1, NextUseStays DEF Here
<1>5. NextUse(file.ref, position - 1, k) = position
  BY <1>1, NextUseStays DEF Here
<1>6. /\ current_priority' \in [Chunks -> 0..UINT64_MAX] /\ current_priority'[k] = p
      /\ \A x \in Chunks : x # k => current_priority'[x] = current_priority[x]
  BY <1>1, <1>2 DEF BeladyTyped
<1>7. heap' = B!heap_push(heap, p, k) /\ in_cache' = in_cache \cup {k} /\ in_cache \subseteq Chunks
  BY DEF BeladyTyped
<1> HIDE DEF k, p, n
<1>8. ASSUME NEW m \in 1..n
      PROVE  /\ heap[m] \in Entries /\ heap[m][1] \in Nat /\ heap[m][2] \in Chunks
             /\ heap[m] = <<heap[m][1], heap[m][2]>> /\ heap[m] # <<p, k>>
             /\ (heap[m][2] # k /\ B!Live(heap[m])) \/ heap[m][1] < position + 1
  <2>1. /\ heap[m] \in Entries /\ heap[m][1] \in Nat /\ heap[m][2] \in Chunks
        /\ heap[m] = <<heap[m][1], heap[m][2]>>
    BY <1>1, EntryIs DEF Entries
  <2>2. B!Live(heap[m]) \/ heap[m][1] < position
    BY DEF HeapInv, n
  <2>3. CASE heap[m][1] < position
    BY <1>1, <1>2, <2>1, <2>3
  <2>4. CASE B!Live(heap[m]) /\ heap[m][2] = k
    <3>1. heap[m][1] = position
      BY <1>5, <2>4 DEF B!Live, HeapInv
    <3> QED
      BY <1>1, <1>2, <2>1, <3>1
  <2>5. CASE B!Live(heap[m]) /\ heap[m][2] # k
    BY <2>1, <2>5
  <2> QED
    BY <2>2, <2>3, <2>4, <2>5
<1>9. /\ heap' \in [1..(n + 1) -> Entries] /\ Ordered(heap', n + 1)
      /\ \A m \in 1..(n + 1) : heap'[m] = <<p, k>> \/ \E j \in 1..n : heap[j] = heap'[m]
      /\ \A d : d # <<p, k>> /\ Once(heap, n, d) => Once(heap', n + 1, d)
      /\ Once(heap', n + 1, <<p, k>>)
  <2>1. Ordered(heap, n)
    BY DEF HeapInv, n
  <2>2. \A m \in 1..n : heap[m] # <<p, k>>
    BY <1>8
  <2>3. LET g == B!heap_push(heap, p, k)
            e == <<p, k>>
        IN /\ g \in [1..(n + 1) -> Entries] /\ Ordered(g, n + 1)
           /\ \A m \in 1..(n + 1) : g[m] = e \/ \E j \in 1..n : heap[j] = g[m]
           /\ \A d : d # e /\ Once(heap, n, d) => Once(g, n + 1, d)
           /\ (\A m \in 1..n : heap[m] # e) => Once(g, n + 1, e)
    BY <1>1, <1>2, <2>1, PushIs, Zenon
  <2> QED
    BY <1>7, <2>2, <2>3
<1>10. heap' \in Seq(Entries) /\ Len(heap') = n + 1
  BY <1>1, <1>9
<1>11. ASSUME NEW m \in 1..(n + 1)
       PROVE  \/ heap'[m][2] \in in_cache' /\ current_priority'[heap'[m][2]] = heap'[m][1]
              \/ heap'[m][1] < position'
  <2>1. CASE heap'[m] = <<p, k>>
    BY <1>6, <1>7, <2>1
  <2>2. CASE heap'[m] # <<p, k>>
    <3>1. PICK j \in 1..n : heap[j] = heap'[m]
      BY <1>9, <2>2
    <3> QED
      BY <1>3, <1>6, <1>7, <1>8, <3>1 DEF B!Live
  <2> QED
    BY <2>1, <2>2
<1>12. ASSUME NEW x \in in_cache'
       PROVE  /\ current_priority'[x] = NextUse(file.ref, position, x)
              /\ Once(heap', n + 1, <<current_priority'[x], x>>)
  <2>1. CASE x = k
    BY <1>6, <1>9, <2>1 DEF p
  <2>2. CASE x # k
    <3>1. x \in in_cache /\ x \in Chunks
      BY <1>7, <2>2
    <3>2. /\ current_priority[x] = NextUse(file.ref, position - 1, x)
          /\ Once(heap, n, <<current_priority[x], x>>)
      BY <3>1 DEF HeapInv, n
    <3>3. <<current_priority[x], x>> # <<p, k>>
      BY <2>2
    <3> QED
      BY <1>4, <1>6, <1>9, <2>2, <3>1, <3>2, <3>3
  <2> QED
    BY <2>1, <2>2
<1>13. HeapInv'
  BY <1>3, <1>9, <1>10, <1>11, <1>12 DEF HeapInv, B!Live
<1> QED
  BY <1>6, <1>10, <1>13 DEF n

LEMMA BeladyInits ==
  ASSUME tool = "belady", B!Init
  PROVE  BeladyInv
<1>1. /\ file \in Traces /\ capacity \in Capacities /\ phase = "load" /\ position = 0 /\ misses = 0
      /\ in_cache = {} /\ heap = <<>> /\ current_priority = [k \in Chunks |-> 0]
  BY DEF B!Init
<1>2. Len(file.ref) \in Nat /\ capacity \in Nat /\ UINT64_MAX \in Nat
  BY <1>1, SolversAssumption
<1>3. Cardinality({}) = 0
  BY FS_EmptySet
<1>4. BeladyTyped
  BY <1>1, <1>2, <1>3 DEF BeladyTyped
<1>5. PhaseSound
  BY <1>1 DEF PhaseSound
<1>6. HeapInv
  BY <1>1 DEF HeapInv, Ordered
<1> QED
  BY <1>4, <1>5, <1>6 DEF BeladyInv

\* Steps that leave the cache and the references as they are.
LEMMA HeapStays ==
  ASSUME HeapInv, UNCHANGED <<file, capacity, position, in_cache, current_priority, heap>>
  PROVE  HeapInv'
BY DEF HeapInv, B!Live

LEMMA LoadKeeps ==
  ASSUME BeladyInv, B!LoadReferenceString
  PROVE  BeladyInv'
<1>1. /\ phase = "load" /\ UNCHANGED <<file, capacity, position, in_cache, current_priority, heap, misses>>
      /\ phase' \in {"refused", "nothing", "refs"}
      /\ phase' = "refs" => file.ref # <<>>
  BY DEF B!LoadReferenceString, B!simVars, B!ref
<1>2. HeapInv'
  BY <1>1, HeapStays DEF BeladyInv
<1>3. BeladyTyped'
  BY <1>1 DEF BeladyInv, BeladyTyped
<1>4. file.ref \in Seq(Chunks) /\ position = 0 /\ misses = 0
  BY <1>1, TraceFacts DEF BeladyInv, PhaseSound, References
<1>5. phase' = "refs" => Len(file.ref) > 0
  BY <1>1, <1>4
<1>6. PhaseSound'
  BY <1>1, <1>4, <1>5 DEF BeladyInv, PhaseSound
<1> QED
  BY <1>2, <1>3, <1>6 DEF BeladyInv

\* Advance, for a phase that has reached the end or not.
LEMMA AdvanceIs ==
  ASSUME BeladyTyped, B!Advance, UNCHANGED file, position < Len(file.ref)
  PROVE  /\ position' = position + 1 /\ position' \in 0..Len(file.ref)
         /\ phase' = IF position' = Len(file.ref) THEN "check" ELSE "refs"
         /\ phase' = "refs" => position' < Len(file.ref)
BY TraceFacts DEF BeladyTyped, B!Advance, B!ref

LEMMA HitKeeps ==
  ASSUME BeladyInv, B!Hit
  PROVE  BeladyInv'
<1>1. /\ phase = "refs" /\ Here \in in_cache
      /\ current_priority' = [current_priority EXCEPT ![Here] = NextUse(file.ref, position, Here)]
      /\ heap' = B!heap_push(heap, NextUse(file.ref, position, Here), Here)
      /\ B!Advance /\ UNCHANGED <<file, capacity, in_cache, misses>>
  BY SameNextUse DEF B!Hit, B!c, B!ref, B!next_pos, B!Note, Here
<1>2. BeladyTyped /\ HeapInv /\ position < Len(file.ref) /\ misses <= position
  BY <1>1 DEF BeladyInv, PhaseSound
<1>3. capacity # 0
  <2>1. IsFiniteSet(in_cache) /\ Cardinality(in_cache) \in Nat /\ Cardinality(in_cache) <= capacity /\ capacity \in Nat
    BY <1>2, TraceFacts DEF BeladyTyped
  <2>2. Cardinality(in_cache) # 0
    BY <1>1, <2>1, FS_EmptySet
  <2> QED
    BY <2>1, <2>2
<1>4. /\ position' = position + 1 /\ position' \in 0..Len(file.ref)
      /\ phase' = IF position' = Len(file.ref) THEN "check" ELSE "refs"
      /\ phase' = "refs" => position' < Len(file.ref)
  BY <1>1, <1>2, AdvanceIs
<1>5. /\ HeapInv' /\ heap' \in Seq(Entries) /\ Len(heap') = Len(heap) + 1
      /\ current_priority' \in [Chunks -> 0..UINT64_MAX]
  <2>1. in_cache' = in_cache \cup {Here}
    BY <1>1
  <2> QED
    BY <1>1, <1>2, <1>3, <1>4, <2>1, NoteKeeps
<1>6. BeladyTyped'
  BY <1>1, <1>2, <1>4, <1>5 DEF BeladyTyped
<1>7. PhaseSound'
  BY <1>1, <1>2, <1>4 DEF PhaseSound, BeladyTyped
<1> QED
  BY <1>5, <1>6, <1>7 DEF BeladyInv

LEMMA MissKeeps ==
  ASSUME BeladyInv, B!Miss
  PROVE  BeladyInv'
<1>1. /\ phase = "refs" /\ Here \notin in_cache /\ misses' = misses + 1
      /\ phase' = IF Cardinality(in_cache) = capacity THEN "evict" ELSE "insert"
      /\ UNCHANGED <<file, capacity, position, in_cache, current_priority, heap>>
  BY SameCardinality DEF B!Miss, B!c, B!ref, B!At, Here
<1>2. BeladyTyped /\ HeapInv /\ position < Len(file.ref) /\ misses <= position
  BY <1>1 DEF BeladyInv, PhaseSound
<1>3. HeapInv'
  BY <1>1, <1>2, HeapStays
<1>4. BeladyTyped'
  BY <1>1, <1>2 DEF BeladyTyped
<1>5. Cardinality(in_cache) \in Nat /\ Cardinality(in_cache) <= capacity /\ capacity \in Nat
  BY <1>2, TraceFacts DEF BeladyTyped
<1>6. PhaseSound'
  BY <1>1, <1>2, <1>5 DEF PhaseSound, BeladyTyped, Here
<1> QED
  BY <1>3, <1>4, <1>6 DEF BeladyInv

\* Whatever is on top when a victim is asked for is live.
LEMMA TopIsLive ==
  ASSUME BeladyInv, phase = "evict", heap # <<>>
  PROVE  B!Live(heap[1])
<1>1. /\ BeladyTyped /\ HeapInv /\ Cardinality(in_cache) = capacity /\ capacity # 0
      /\ position < Len(file.ref)
  BY DEF BeladyInv, PhaseSound, HeapInv
<1>2. /\ file.ref \in References /\ heap \in [1..Len(heap) -> Entries] /\ Len(heap) \in Nat
      /\ position \in Nat /\ Len(file.ref) \in Nat
  BY <1>1, TraceFacts DEF BeladyTyped
<1>3. PICK k \in in_cache : TRUE
  BY <1>1, FS_EmptySet
<1>4. PICK m \in 1..Len(heap) : heap[m] = <<current_priority[k], k>>
  BY <1>1 DEF HeapInv, Once
<1>5. heap[m][1] = NextUse(file.ref, position - 1, k)
  <2>1. current_priority[k] = NextUse(file.ref, position - 1, k)
    BY <1>1 DEF HeapInv
  <2> QED
    BY <1>4, <2>1
<1>6. heap[m][1] >= position
  <2> DEFINE r == file.ref
             u == NextUse(r, position - 1, k)
  <2>1. position - 1 \in -1..Len(r)
    BY <1>1, <1>2
  <2>2. u \in 0..UINT64_MAX /\ u > position - 1
    <3> HIDE DEF r
    <3> QED
      BY <1>2, <2>1, NextUseIs DEF r
  <2>3. UINT64_MAX \in Nat
    BY SolversAssumption
  <2> HIDE DEF u
  <2>4. u >= position
    BY <1>2, <2>2, <2>3
  <2> QED
    BY <1>5, <2>4 DEF u
<1>7. heap[1][1] >= heap[m][1]
  BY <1>1, <1>2, TopIs DEF HeapInv
<1>8. 1 \in 1..Len(heap) /\ heap[1][1] \in Nat /\ heap[m][1] \in Nat
  BY <1>2, <1>4, EntryIs
<1>9. ~ heap[1][1] < position
  BY <1>2, <1>6, <1>7, <1>8
<1> QED
  BY <1>1, <1>8, <1>9 DEF HeapInv

LEMMA PopKeeps ==
  ASSUME BeladyInv, B!PopMax
  PROVE  BeladyInv'
<1> DEFINE n == Len(heap)
           k == heap[1][2]
<1>1. /\ phase = "evict" /\ heap # <<>> /\ heap' = B!AfterPop(heap)
      /\ in_cache' = in_cache \ {heap[1][2]} /\ phase' = "insert"
      /\ UNCHANGED <<file, capacity, position, current_priority, misses>>
  BY TopIsLive DEF B!PopMax
<1>2. /\ BeladyTyped /\ HeapInv /\ PhaseSound /\ Cardinality(in_cache) = capacity
      /\ position < Len(file.ref) /\ Here \notin in_cache /\ misses <= position + 1
  BY <1>1 DEF BeladyInv, PhaseSound
<1>3. /\ heap \in [1..n -> Entries] /\ n \in Nat \ {0} /\ 1 \in 1..n /\ n <= position
      /\ capacity \in Nat /\ IsFiniteSet(in_cache)
  BY <1>1, <1>2, TraceFacts DEF BeladyTyped
<1>4. k \in in_cache /\ heap[1] = <<current_priority[k], k>>
  <2>1. B!Live(heap[1])
    BY <1>1, TopIsLive
  <2>2. heap[1] \in Entries
    BY <1>3, EntryIs
  <2> QED
    BY <2>1, <2>2 DEF B!Live, Entries
<1>5. Once(heap, n, heap[1])
  BY <1>2, <1>4 DEF HeapInv
<1>6. /\ heap' \in [1..(n - 1) -> Entries] /\ Ordered(heap', n - 1)
      /\ \A m \in 1..(n - 1) : \E j \in 1..n : heap[j] = heap'[m]
      /\ \A d : d # heap[1] /\ Once(heap, n, d) => Once(heap', n - 1, d)
      /\ \A m \in 1..(n - 1) : heap'[m] # heap[1]
  <2>1. LET g == B!AfterPop(heap) IN
         /\ g \in [1..(n - 1) -> Entries] /\ Ordered(g, n - 1)
         /\ \A m \in 1..(n - 1) : \E j \in 1..n : heap[j] = g[m]
         /\ \A d : d # heap[1] /\ Once(heap, n, d) => Once(g, n - 1, d)
         /\ Once(heap, n, heap[1]) => \A m \in 1..(n - 1) : g[m] # heap[1]
    <3>1. Ordered(heap, n)
      BY <1>2 DEF HeapInv
    <3> HIDE DEF n
    <3> QED
      BY <1>3, <3>1, PopIs, Zenon
  <2> QED
    BY <1>1, <1>5, <2>1
<1>7. heap' \in Seq(Entries) /\ Len(heap') = n - 1
  <2>1. n - 1 \in Nat
    BY <1>3
  <2>2. heap' \in [1..(n - 1) -> Entries]
    BY <1>6
  <2> HIDE DEF n
  <2> QED
    BY <2>1, <2>2
<1>8. \A m \in 1..n : B!Live(heap[m]) \/ heap[m][1] < position
  BY <1>2 DEF HeapInv
<1>9. \A x \in in_cache : /\ current_priority[x] = NextUse(file.ref, position - 1, x)
                          /\ Once(heap, n, <<current_priority[x], x>>)
  BY <1>2 DEF HeapInv
<1>10. in_cache' = in_cache \ {k}
  BY <1>1
<1>11. \A m \in 1..n : heap[m] = <<heap[m][1], heap[m][2]>>
  BY <1>3, EntryIs DEF Entries
<1> HIDE DEF n, k
<1>12. ASSUME NEW m \in 1..(n - 1)
       PROVE  \/ heap'[m][2] \in in_cache' /\ current_priority'[heap'[m][2]] = heap'[m][1]
              \/ heap'[m][1] < position'
  <2>1. PICK j \in 1..n : heap[j] = heap'[m]
    BY <1>6
  <2>2. heap[j] # heap[1]
    BY <1>6, <2>1
  <2>3. heap[j][2] = k => ~ B!Live(heap[j])
    BY <1>4, <1>11, <2>2 DEF B!Live
  <2>4. B!Live(heap[j]) \/ heap[j][1] < position
    BY <1>8
  <2> QED
    BY <1>1, <1>10, <2>1, <2>3, <2>4 DEF B!Live
<1>13. ASSUME NEW x \in in_cache'
       PROVE  /\ current_priority'[x] = NextUse(file'.ref, position' - 1, x)
              /\ Once(heap', n - 1, <<current_priority'[x], x>>)
  <2>1. x \in in_cache /\ x # k
    BY <1>10
  <2>2. <<current_priority[x], x>> # heap[1]
    BY <1>4, <2>1
  <2> QED
    BY <1>1, <1>6, <1>9, <2>1, <2>2
<1>14. HeapInv'
  <2>1. capacity # 0
    BY <1>1, <1>2 DEF HeapInv
  <2> QED
    BY <1>1, <1>6, <1>7, <1>12, <1>13, <2>1 DEF HeapInv, B!Live
<1>15. Cardinality(in_cache') = capacity - 1
  <2>1. Cardinality(in_cache \ {k}) = Cardinality(in_cache) - 1
    BY <1>3, <1>4, FS_RemoveElement
  <2> QED
    BY <1>2, <1>10, <2>1
<1>16. BeladyTyped'
  BY <1>1, <1>2, <1>3, <1>7, <1>15 DEF BeladyTyped
<1>17. Here \notin in_cache' /\ Here' = Here
  BY <1>1, <1>2 DEF Here
<1>18. PhaseSound'
  <2>1. Cardinality(in_cache') < capacity
    BY <1>3, <1>15
  <2> QED
    BY <1>1, <1>2, <1>17, <2>1 DEF PhaseSound
<1> QED
  BY <1>14, <1>16, <1>18 DEF BeladyInv

LEMMA HeapEmptyKeeps ==
  ASSUME BeladyInv, B!HeapEmpty
  PROVE  BeladyInv'
<1>1. /\ phase = "evict" /\ heap = <<>> /\ phase' = "insert"
      /\ UNCHANGED <<file, capacity, position, in_cache, current_priority, heap, misses>>
  BY DEF B!HeapEmpty, B!simVars
<1>2. BeladyTyped /\ HeapInv /\ PhaseSound /\ Cardinality(in_cache) = capacity
  BY <1>1 DEF BeladyInv, PhaseSound
<1>3. in_cache = {}
  <2>1. Len(heap) = 0
    BY <1>1
  <2> QED
    BY <1>2, <2>1 DEF HeapInv, Once
<1>4. capacity = 0
  BY <1>2, <1>3, FS_EmptySet
<1>5. HeapInv'
  BY <1>1, <1>2, HeapStays
<1>6. BeladyTyped'
  BY <1>1, <1>2 DEF BeladyTyped
<1>7. PhaseSound'
  BY <1>1, <1>2, <1>4 DEF PhaseSound, Here
<1> QED
  BY <1>5, <1>6, <1>7 DEF BeladyInv

LEMMA InsertKeeps ==
  ASSUME BeladyInv, B!Insert
  PROVE  BeladyInv'
<1>1. /\ phase = "insert" /\ B!Advance /\ UNCHANGED <<file, capacity, misses>>
      /\ IF Cardinality(in_cache) < capacity
         THEN /\ in_cache' = in_cache \cup {Here}
              /\ current_priority' = [current_priority EXCEPT ![Here] = NextUse(file.ref, position, Here)]
              /\ heap' = B!heap_push(heap, NextUse(file.ref, position, Here), Here)
         ELSE UNCHANGED <<in_cache, current_priority, heap>>
  BY SameNextUse, SameCardinality
  DEF B!Insert, B!HasRoom, B!c, B!ref, B!next_pos, B!Note, Here
<1>2. /\ BeladyTyped /\ HeapInv /\ position < Len(file.ref) /\ misses <= position + 1
      /\ Here \notin in_cache /\ (capacity = 0 \/ Cardinality(in_cache) < capacity)
  BY <1>1 DEF BeladyInv, PhaseSound
<1>3. /\ position' = position + 1 /\ position' \in 0..Len(file.ref)
      /\ phase' = IF position' = Len(file.ref) THEN "check" ELSE "refs"
      /\ phase' = "refs" => position' < Len(file.ref)
  BY <1>1, <1>2, AdvanceIs
<1>4. /\ capacity \in Nat /\ IsFiniteSet(in_cache) /\ Cardinality(in_cache) \in Nat /\ Here \in Chunks
      /\ position \in Nat /\ Len(heap) \in Nat
  BY <1>2, TraceFacts DEF BeladyTyped
<1>5. PhaseSound'
  BY <1>1, <1>2, <1>3 DEF PhaseSound, BeladyTyped
<1>6. CASE Cardinality(in_cache) < capacity
  <2>1. capacity # 0
    BY <1>4, <1>6
  <2>2. /\ in_cache' = in_cache \cup {Here}
        /\ current_priority' = [current_priority EXCEPT ![Here] = NextUse(file.ref, position, Here)]
        /\ heap' = B!heap_push(heap, NextUse(file.ref, position, Here), Here)
    BY <1>1, <1>6
  <2>3. /\ HeapInv' /\ heap' \in Seq(Entries) /\ Len(heap') = Len(heap) + 1
        /\ current_priority' \in [Chunks -> 0..UINT64_MAX]
    BY <1>1, <1>2, <1>3, <2>1, <2>2, NoteKeeps
  <2>4. Cardinality(in_cache') = Cardinality(in_cache) + 1
    BY <1>2, <1>4, <2>2, FS_AddElement
  <2>5. BeladyTyped'
    BY <1>1, <1>2, <1>3, <1>4, <1>6, <2>2, <2>3, <2>4 DEF BeladyTyped
  <2> QED
    BY <1>5, <2>3, <2>5 DEF BeladyInv
<1>7. CASE ~ Cardinality(in_cache) < capacity
  <2>1. UNCHANGED <<in_cache, current_priority, heap>>
    BY <1>1, <1>7
  <2>2. capacity = 0 /\ in_cache = {} /\ heap = <<>>
    BY <1>2, <1>4, <1>7, FS_EmptySet DEF BeladyTyped, HeapInv
  <2>3. HeapInv'
    BY <1>1, <2>1, <2>2 DEF HeapInv, Ordered
  <2>4. BeladyTyped'
    BY <1>1, <1>2, <1>3, <1>4, <2>1 DEF BeladyTyped
  <2> QED
    BY <1>5, <2>3, <2>4 DEF BeladyInv
<1> QED
  BY <1>6, <1>7

LEMMA FloorKeeps ==
  ASSUME BeladyInv, B!CheckCyclicFloor
  PROVE  BeladyInv'
<1>1. /\ phase = "check" /\ phase' \in {"aborted", "reported"}
      /\ UNCHANGED <<file, capacity, position, in_cache, current_priority, heap, misses>>
  BY DEF B!CheckCyclicFloor, B!simVars
<1>2. HeapInv'
  BY <1>1, HeapStays DEF BeladyInv
<1>3. BeladyTyped'
  BY <1>1 DEF BeladyInv, BeladyTyped
<1>4. PhaseSound'
  BY <1>1 DEF BeladyInv, PhaseSound
<1> QED
  BY <1>2, <1>3, <1>4 DEF BeladyInv

LEMMA BeladySteps ==
  ASSUME BeladyInv, B!Next
  PROVE  BeladyInv'
BY LoadKeeps, HitKeeps, MissKeeps, PopKeeps, HeapEmptyKeeps, InsertKeeps, FloorKeeps DEF B!Next

LEMMA BeladyStays ==
  ASSUME BeladyInv, UNCHANGED <<phase, position, misses, beladyVars>>
  PROVE  BeladyInv'
<1>1. HeapInv'
  BY HeapStays DEF BeladyInv, beladyVars
<1>2. BeladyTyped'
  BY DEF BeladyInv, BeladyTyped, beladyVars
<1>3. PhaseSound'
  BY DEF BeladyInv, PhaseSound, beladyVars, Here
<1> QED
  BY <1>1, <1>2, <1>3 DEF BeladyInv

\* What the invariant says of the heap is HeapSound.
LEMMA BeladyIsSound ==
  ASSUME BeladyInv
  PROVE  B!HeapSound
<1> DEFINE n == Len(heap)
<1>1. /\ BeladyTyped /\ PhaseSound /\ HeapInv
      /\ heap \in [1..n -> Entries] /\ n \in Nat
      /\ Len(file.ref) \in Nat /\ position \in Nat /\ DOMAIN heap = 1..n
  BY TraceFacts DEF BeladyInv, BeladyTyped
<1>2. B!TypeOK
  <2>1. misses \in 0..Len(file.ref)
    BY <1>1 DEF PhaseSound, BeladyTyped
  <2>2. n <= Len(file.ref) + 1
    BY <1>1 DEF BeladyTyped
  <2> QED
    BY <1>1, <2>1, <2>2, SameCardinality DEF B!TypeOK, B!ref, BeladyTyped
<1>3. B!HeapOrdered
  BY <1>1 DEF HeapInv, Ordered, B!HeapOrdered, B!Priority
<1>4. ASSUME NEW k \in in_cache
      PROVE  B!Cardinality({m \in DOMAIN heap : heap[m] = <<current_priority[k], k>>}) = 1
  <2>1. Once(heap, n, <<current_priority[k], k>>)
    BY <1>1 DEF HeapInv
  <2>2. PICK m \in 1..n : /\ heap[m] = <<current_priority[k], k>>
                          /\ \A j \in 1..n : heap[j] = <<current_priority[k], k>> => j = m
    BY <2>1 DEF Once
  <2>3. {j \in DOMAIN heap : heap[j] = <<current_priority[k], k>>} = {m}
    BY <1>1, <2>2
  <2> QED
    BY <2>3, FS_Singleton, SameCardinality
<1>5. B!TopIsVictim
  <2>1. ASSUME phase = "evict", heap = <<>> PROVE capacity = 0
    <3>1. in_cache = {}
      BY <1>1, <2>1 DEF HeapInv, Once
    <3> QED
      BY <1>1, <2>1, <3>1, FS_EmptySet DEF PhaseSound
  <2> QED
    BY <2>1, TopIsLive DEF B!TopIsVictim
<1> QED
  BY <1>2, <1>3, <1>4, <1>5 DEF B!HeapSound, B!OneLiveEntry

-----------------------------------------------------------------------------
(* wp2_opt.c. *)

LEMMA SameSum ==
  \A f, S : W!SumFunctionOnSet(f, S) = SumFunctionOnSet(f, S)
BY DEF W!SumFunctionOnSet, W!FoldFunctionOnSet, W!MapThenFoldSet, SumFunctionOnSet, FoldFunctionOnSet, MapThenFoldSet

LEMMA SameLeast ==
  \A S : W!Min(S) = Min(S) /\ B!Min(S) = Min(S)
BY DEF W!Min, B!Min, Min

ByteTyped ==
  /\ input \in Inputs
  /\ phase \in {"read", "refs", "evict", "check", "nothing", "failed", "reported"}
  /\ position \in 0..Len(W!ref) /\ misses \in Nat
  /\ resident \in SUBSET DOMAIN input.len
  /\ cur_nextuse \in [Chunks -> 0..UINT64_MAX]
  /\ resident_bytes \in Nat /\ missed_bytes \in Nat

BytePhase ==
  /\ phase = "read" => position = 0 /\ misses = 0 /\ resident = {}
  /\ phase \in {"refs", "evict"} => position < Len(W!ref)
  /\ phase = "evict" => W!ref[position + 1] \notin resident /\ input.len[W!ref[position + 1]] <= input.budget
  /\ phase \in {"check", "failed", "reported"} => position = Len(W!ref) /\ Len(W!ref) > 0
  /\ misses <= IF phase = "evict" THEN position + 1 ELSE position

\* The total kept is that of what is resident, and every next use noted is up to date.
ByteCache ==
  /\ resident_bytes = ByteCount(input.len, resident) /\ resident_bytes <= input.budget
  /\ \A k \in resident : cur_nextuse[k] = NextUse(W!ref, position - 1, k)

ByteInv == ByteTyped /\ BytePhase /\ ByteCache

\* What a declared pass says about the references.
LEMMA InputFacts ==
  ASSUME input \in Inputs
  PROVE  /\ W!ref \in References /\ Len(W!ref) \in Nat /\ UINT64_MAX \in Nat
         /\ \A j \in 1..Len(W!ref) : W!ref[j] \in DOMAIN input.len
         /\ input.budget \in Nat /\ input.len \in [DOMAIN input.len -> Nat]
         /\ \A k \in DOMAIN input.len : input.len[k] \in Nat \ {0}
         /\ IsFiniteSet(DOMAIN input.len) /\ DOMAIN input.len \subseteq Chunks /\ Chunks \subseteq Nat
         /\ Len(W!ref) = Len(input.pass) * input.passes
<1> DEFINE q == Len(input.pass)
           n == q * input.passes
<1>1. /\ input.budget \in Nat /\ input.passes \in Nat /\ input.len \in [DOMAIN input.len -> Nat \ {0}]
      /\ DOMAIN input.len \subseteq Chunks /\ input.pass \in Seq(DOMAIN input.len)
      /\ q * input.passes < UINT64_MAX /\ UINT64_MAX \in Nat /\ Chunks \subseteq 0..UINT64_MAX
  BY SolversAssumption
<1>2. q \in Nat /\ n \in Nat
  BY <1>1
<1>3. W!ref = [k \in 1..n |-> W!At(input.pass, (k - 1) % q)]
  BY DEF W!ref
<1>4. ASSUME NEW k \in 1..n PROVE W!At(input.pass, (k - 1) % q) \in DOMAIN input.len
  <2>1. q # 0
    <3> SUFFICES ASSUME q = 0 PROVE FALSE
      OBVIOUS
    <3>1. n = 0
      BY <1>1
    <3> QED
      BY <3>1
  <2>2. (k - 1) % q \in 0..(q - 1)
    <3> HIDE DEF q, n
    <3> QED
      BY <1>2, <2>1, DivMod
  <2>3. \A m \in 0..(q - 1) : W!At(input.pass, m) = input.pass[m + 1] /\ m + 1 \in 1..q
    BY <1>2 DEF W!At
  <2>4. \A m \in 1..q : input.pass[m] \in DOMAIN input.len
    BY <1>1
  <2> HIDE DEF q, n
  <2> QED
    BY <2>2, <2>3, <2>4
<1> HIDE DEF n, q
<1>5. W!ref \in [1..n -> DOMAIN input.len]
  BY <1>3, <1>4
<1>6. W!ref \in Seq(DOMAIN input.len) /\ Len(W!ref) = n
  BY <1>2, <1>5
<1>7. W!ref \in References
  BY <1>1, <1>2, <1>6 DEF References, n, q
<1>8. IsFiniteSet(0..UINT64_MAX)
  BY <1>1, FS_Interval
<1>9. IsFiniteSet(DOMAIN input.len)
  BY <1>1, <1>8, FS_Subset
<1> QED
  BY <1>1, <1>2, <1>5, <1>6, <1>7, <1>9 DEF n, q

LEMMA ByteFacts ==
  ASSUME ByteTyped
  PROVE  /\ position \in Nat /\ misses \in Nat
         /\ position < Len(W!ref) => /\ W!ref[position + 1] \in DOMAIN input.len
                                     /\ W!ref[position + 1] \in Chunks
         /\ resident \subseteq Nat /\ resident \subseteq Chunks
         /\ IsFiniteSet(resident)
<1>1. position < Len(W!ref) => position + 1 \in 1..Len(W!ref)
  BY InputFacts DEF ByteTyped
<1> QED
  BY <1>1, InputFacts, FS_Subset DEF ByteTyped

\* The victim is resident, and none is used later.
LEMMA VictimIs ==
  ASSUME ByteTyped, resident # {}
  PROVE  W!Victim \in resident /\ \A m \in resident : cur_nextuse[m] <= cur_nextuse[W!Victim]
<1> DEFINE far == {k \in resident : \A m \in resident : cur_nextuse[m] <= cur_nextuse[k]}
<1>1. resident \in SUBSET Nat /\ \A k \in resident : cur_nextuse[k] \in 0..UINT64_MAX
  BY InputFacts, ByteFacts DEF ByteTyped
<1>2. Min(far) \in far
  BY <1>1, FirstOfMost
<1>3. W!Victim = Min(far)
  BY SameLeast DEF W!Victim
<1> QED
  BY <1>2, <1>3

LEMMA ByteInits ==
  ASSUME W!Init
  PROVE  ByteInv
<1>1. /\ input \in Inputs /\ phase = "read" /\ position = 0 /\ resident = {} /\ misses = 0
      /\ cur_nextuse = [k \in Chunks |-> 0] /\ resident_bytes = 0 /\ missed_bytes = 0
  BY DEF W!Init
<1>2. ByteTyped
  BY <1>1, InputFacts DEF ByteTyped
<1>3. BytePhase
  BY <1>1 DEF BytePhase
<1>4. ByteCache
  BY <1>1, InputFacts, ByteCountEmpty DEF ByteCache
<1> QED
  BY <1>2, <1>3, <1>4 DEF ByteInv

\* The position moves past a reference to k, the next use of which is noted.
LEMMA NoteUseKeeps ==
  ASSUME ByteTyped, ByteCache, position < Len(W!ref), W!NoteUse(W!ref[position + 1]), W!Advance,
         UNCHANGED input, resident' \subseteq resident \cup {W!ref[position + 1]}
  PROVE  /\ position' = position + 1 /\ position' \in 0..Len(W!ref) /\ W!ref' = W!ref
         /\ phase' = IF position' = Len(W!ref) THEN "check" ELSE "refs"
         /\ phase' = "refs" => position' < Len(W!ref)
         /\ cur_nextuse' \in [Chunks -> 0..UINT64_MAX]
         /\ \A k \in resident' : cur_nextuse'[k] = NextUse(W!ref, position' - 1, k)
<1> DEFINE r == W!ref
           k == r[position + 1]
<1>1. /\ r \in References /\ Len(r) \in Nat /\ position \in Nat /\ k \in Chunks
      /\ resident \subseteq Chunks
  BY InputFacts, ByteFacts DEF ByteTyped
<1>2. /\ position' = position + 1 /\ position' \in 0..Len(r)
      /\ phase' = IF position' = Len(r) THEN "check" ELSE "refs"
      /\ phase' = "refs" => position' < Len(r)
  <2>1. position' = position + 1 /\ phase' = IF position + 1 = Len(r) THEN "check" ELSE "refs"
    BY DEF W!Advance
  <2>2. position < Len(r)
    OBVIOUS
  <2> HIDE DEF r
  <2> QED
    BY <1>1, <2>1, <2>2
<1>3. cur_nextuse' = [cur_nextuse EXCEPT ![k] = NextUse(r, position, k)]
  BY SameNextUse DEF W!NoteUse
<1>4. NextUse(r, position, k) \in 0..UINT64_MAX
  BY <1>1, NextUseIs
<1>5. cur_nextuse' \in [Chunks -> 0..UINT64_MAX]
  BY <1>1, <1>3, <1>4 DEF ByteTyped
<1>6. ASSUME NEW m \in resident' PROVE cur_nextuse'[m] = NextUse(r, position, m)
  <2>1. m \in Chunks
    BY <1>1
  <2>2. CASE m = k
    BY <1>1, <1>3, <2>2 DEF ByteTyped
  <2>3. CASE m # k
    <3>1. cur_nextuse[m] = NextUse(r, position - 1, m)
      BY <2>3 DEF ByteCache
    <3>2. NextUse(r, position - 1, m) = NextUse(r, position, m)
      BY <1>1, <2>3, NextUseStays
    <3> QED
      BY <1>3, <2>1, <2>3, <3>1, <3>2 DEF ByteTyped
  <2> QED
    BY <2>2, <2>3
<1>7. position' - 1 = position
  BY <1>1, <1>2
<1>8. W!ref' = W!ref
  BY DEF W!ref
<1> QED
  BY <1>2, <1>5, <1>6, <1>7, <1>8

LEMMA ReadKeeps ==
  ASSUME ByteInv, W!ReadInputs
  PROVE  ByteInv'
<1>1. /\ phase = "read" /\ phase' \in {"nothing", "refs"}
      /\ phase' = "refs" => input.passes # 0 /\ input.pass # <<>>
      /\ UNCHANGED <<input, position, resident, cur_nextuse, resident_bytes, missed_bytes, misses>>
  BY DEF W!ReadInputs, W!simVars
<1>2. W!ref' = W!ref
  BY <1>1 DEF W!ref
<1>3. input \in Inputs
  BY DEF ByteInv, ByteTyped
<1>4. phase' = "refs" => 0 < Len(W!ref)
  <2>1. input.passes \in Nat /\ input.pass \in Seq(DOMAIN input.len)
    BY <1>3, SolversAssumption
  <2>2. input.pass # <<>> => Len(input.pass) \in Nat \ {0}
    BY <2>1
  <2>3. \A a, b \in Nat \ {0} : 0 < a * b
    OBVIOUS
  <2>4. Len(W!ref) = Len(input.pass) * input.passes
    BY <1>3, InputFacts
  <2> QED
    BY <1>1, <2>1, <2>2, <2>3, <2>4
<1>5. ByteTyped'
  BY <1>1, <1>2 DEF ByteInv, ByteTyped
<1>6. BytePhase'
  BY <1>1, <1>2, <1>4 DEF ByteInv, BytePhase
<1>7. ByteCache'
  BY <1>1, <1>2 DEF ByteInv, ByteCache
<1> QED
  BY <1>5, <1>6, <1>7 DEF ByteInv

LEMMA ByteHitKeeps ==
  ASSUME ByteInv, W!Hit
  PROVE  ByteInv'
<1> DEFINE k == W!ref[position + 1]
<1>1. /\ phase = "refs" /\ k \in resident /\ W!NoteUse(k) /\ W!Advance
      /\ UNCHANGED <<input, resident, resident_bytes, missed_bytes, misses>>
  BY SameNextUse DEF W!Hit, W!c
<1>2. ByteTyped /\ ByteCache /\ position < Len(W!ref) /\ misses <= position
  BY <1>1 DEF ByteInv, BytePhase
<1>3. /\ position' = position + 1 /\ position' \in 0..Len(W!ref) /\ W!ref' = W!ref
      /\ phase' = IF position' = Len(W!ref) THEN "check" ELSE "refs"
      /\ phase' = "refs" => position' < Len(W!ref)
      /\ cur_nextuse' \in [Chunks -> 0..UINT64_MAX]
      /\ \A m \in resident' : cur_nextuse'[m] = NextUse(W!ref, position' - 1, m)
  <2>1. resident' \subseteq resident \cup {W!ref[position + 1]}
    BY <1>1
  <2> QED
    BY <1>1, <1>2, <2>1, NoteUseKeeps
<1>4. ByteTyped'
  BY <1>1, <1>2, <1>3 DEF ByteTyped
<1>5. BytePhase'
  BY <1>1, <1>2, <1>3, ByteFacts DEF BytePhase, ByteTyped
<1>6. ByteCache'
  BY <1>1, <1>2, <1>3 DEF ByteCache
<1> QED
  BY <1>4, <1>5, <1>6 DEF ByteInv

LEMMA ByteMissKeeps ==
  ASSUME ByteInv, W!Miss
  PROVE  ByteInv'
<1> DEFINE k == W!ref[position + 1]
<1>1. /\ phase = "refs" /\ k \notin resident /\ misses' = misses + 1
      /\ missed_bytes' = missed_bytes + input.len[k]
      /\ IF input.len[k] > input.budget THEN W!NoteUse(k) /\ W!Advance
                                        ELSE phase' = "evict" /\ UNCHANGED <<position, cur_nextuse>>
      /\ UNCHANGED <<input, resident, resident_bytes>>
  BY SameNextUse DEF W!Miss, W!c, W!len, W!budget
<1>2. ByteTyped /\ ByteCache /\ position < Len(W!ref) /\ misses <= position
  BY <1>1 DEF ByteInv, BytePhase
<1>3. /\ input.len[k] \in Nat /\ input.budget \in Nat /\ W!ref' = W!ref
      /\ position \in Nat /\ misses \in Nat
  BY <1>1, <1>2, InputFacts, ByteFacts DEF ByteTyped, W!ref
<1>4. missed_bytes' \in Nat /\ misses' \in Nat /\ misses' <= position + 1
  BY <1>1, <1>2, <1>3 DEF ByteTyped
<1>5. CASE input.len[k] > input.budget
  <2>1. W!NoteUse(k) /\ W!Advance
    BY <1>1, <1>5
  <2>2. /\ position' = position + 1 /\ position' \in 0..Len(W!ref)
        /\ phase' = IF position' = Len(W!ref) THEN "check" ELSE "refs"
        /\ phase' = "refs" => position' < Len(W!ref)
        /\ cur_nextuse' \in [Chunks -> 0..UINT64_MAX]
        /\ \A m \in resident' : cur_nextuse'[m] = NextUse(W!ref, position' - 1, m)
    <3>1. resident' \subseteq resident \cup {W!ref[position + 1]}
      BY <1>1
    <3> QED
      BY <1>1, <1>2, <2>1, <3>1, NoteUseKeeps
  <2>3. ByteTyped'
    BY <1>1, <1>2, <1>3, <1>4, <2>2 DEF ByteTyped
  <2>4. BytePhase'
    BY <1>1, <1>3, <1>4, <2>2 DEF BytePhase
  <2>5. ByteCache'
    BY <1>1, <1>2, <1>3, <2>2 DEF ByteCache
  <2> QED
    BY <2>3, <2>4, <2>5 DEF ByteInv
<1>6. CASE ~ input.len[k] > input.budget
  <2>1. phase' = "evict" /\ UNCHANGED <<position, cur_nextuse>>
    BY <1>1, <1>6
  <2>2. ByteTyped'
    BY <1>1, <1>2, <1>3, <1>4, <2>1 DEF ByteTyped
  <2>3. BytePhase'
    BY <1>1, <1>2, <1>3, <1>4, <1>6, <2>1 DEF BytePhase
  <2>4. ByteCache'
    BY <1>1, <1>2, <1>3, <2>1 DEF ByteCache
  <2> QED
    BY <2>2, <2>3, <2>4 DEF ByteInv
<1> QED
  BY <1>5, <1>6

LEMMA EvictKeeps ==
  ASSUME ByteInv, W!Evict
  PROVE  ByteInv'
<1> DEFINE v == W!Victim
<1>1. /\ phase = "evict" /\ resident # {}
      /\ resident' = resident \ {v} /\ resident_bytes' = resident_bytes - input.len[v]
      /\ UNCHANGED <<input, phase, position, cur_nextuse, missed_bytes, misses>>
  BY DEF W!Evict, W!MustEvict, W!Freed, W!len
<1>2. ByteTyped /\ ByteCache /\ BytePhase
  BY DEF ByteInv
<1>3. v \in resident
  BY <1>1, <1>2, VictimIs
<1> HIDE DEF v
<1>4. /\ IsFiniteSet(DOMAIN input.len) /\ input.len \in [DOMAIN input.len -> Nat]
      /\ resident \in SUBSET DOMAIN input.len /\ input.budget \in Nat /\ W!ref' = W!ref
  BY <1>1, <1>2, InputFacts DEF ByteTyped, W!ref
<1>5. ByteCount(input.len, resident \ {v}) = ByteCount(input.len, resident) - input.len[v]
  BY <1>3, <1>4, ByteCountRemove
<1>6. ByteCount(input.len, resident \ {v}) \in Nat
  <2>1. resident \ {v} \in SUBSET DOMAIN input.len
    BY <1>4
  <2> QED
    BY <1>4, <2>1, ByteCountFinite
<1>7. resident_bytes' = ByteCount(input.len, resident') /\ resident_bytes' \in Nat /\ resident_bytes' <= input.budget
  <2>1. input.len[v] \in Nat
    BY <1>3, <1>4
  <2> QED
    <3>1. resident_bytes = ByteCount(input.len, resident) /\ resident_bytes <= input.budget /\ resident_bytes \in Nat
      BY <1>2 DEF ByteCache, ByteTyped
    <3>2. resident_bytes' = resident_bytes - input.len[v] /\ resident' = resident \ {v} /\ input' = input
      BY <1>1
    <3>3. resident_bytes' = ByteCount(input.len, resident \ {v})
      BY <1>5, <3>1, <3>2
    <3>4. resident_bytes' <= input.budget
      BY <1>4, <2>1, <3>1, <3>2
    <3> QED
      BY <1>6, <3>2, <3>3, <3>4
<1>8. ByteTyped'
  BY <1>1, <1>2, <1>4, <1>7 DEF ByteTyped
<1>9. BytePhase'
  BY <1>1, <1>2, <1>4 DEF BytePhase
<1>10. ByteCache'
  BY <1>1, <1>2, <1>4, <1>7 DEF ByteCache
<1> QED
  BY <1>8, <1>9, <1>10 DEF ByteInv

LEMMA ByteInsertKeeps ==
  ASSUME ByteInv, W!Insert
  PROVE  ByteInv'
<1> DEFINE k == W!ref[position + 1]
<1>1. /\ phase = "evict" /\ (resident_bytes + input.len[k] <= input.budget \/ resident = {})
      /\ resident' = resident \cup {k} /\ resident_bytes' = resident_bytes + input.len[k]
      /\ W!NoteUse(k) /\ W!Advance /\ UNCHANGED <<input, missed_bytes, misses>>
  BY SameNextUse DEF W!Insert, W!MustEvict, W!Fits, W!c, W!len, W!budget
<1>2. /\ ByteTyped /\ ByteCache /\ position < Len(W!ref) /\ misses <= position + 1
      /\ k \notin resident /\ input.len[k] <= input.budget
  BY <1>1 DEF ByteInv, BytePhase
<1>3. /\ position' = position + 1 /\ position' \in 0..Len(W!ref) /\ W!ref' = W!ref
      /\ phase' = IF position' = Len(W!ref) THEN "check" ELSE "refs"
      /\ phase' = "refs" => position' < Len(W!ref)
      /\ cur_nextuse' \in [Chunks -> 0..UINT64_MAX]
      /\ \A m \in resident' : cur_nextuse'[m] = NextUse(W!ref, position' - 1, m)
  <2>1. resident' \subseteq resident \cup {W!ref[position + 1]}
    BY <1>1
  <2> QED
    BY <1>1, <1>2, <2>1, NoteUseKeeps
<1>4. /\ IsFiniteSet(DOMAIN input.len) /\ input.len \in [DOMAIN input.len -> Nat]
      /\ resident \in SUBSET DOMAIN input.len /\ input.budget \in Nat
      /\ k \in DOMAIN input.len /\ input.len[k] \in Nat /\ resident_bytes \in Nat
  BY <1>2, InputFacts, ByteFacts DEF ByteTyped
<1> HIDE DEF k
<1>5. ByteCount(input.len, resident \cup {k}) = ByteCount(input.len, resident) + input.len[k]
  BY <1>2, <1>4, ByteCountAdd
<1>6. resident_bytes + input.len[k] <= input.budget
  <2>1. resident = {} => resident_bytes = 0
    BY <1>2, ByteCountEmpty DEF ByteCache
  <2> QED
    BY <1>1, <1>2, <1>4, <2>1
<1>7. /\ resident_bytes' = ByteCount(input.len, resident') /\ resident_bytes' \in Nat
      /\ resident_bytes' <= input.budget
  BY <1>1, <1>2, <1>4, <1>5, <1>6 DEF ByteCache
<1>8. ByteTyped'
  BY <1>1, <1>2, <1>3, <1>4, <1>7 DEF ByteTyped
<1>9. BytePhase'
  <2>1. position \in Nat /\ Len(W!ref) \in Nat
    BY <1>2, InputFacts, ByteFacts DEF ByteTyped
  <2>2. Len(W!ref) > 0 /\ misses <= position' /\ phase' \in {"check", "refs"}
    BY <1>2, <1>3, <2>1
  <2> QED
    BY <1>1, <1>3, <2>2 DEF BytePhase
<1>10. ByteCache'
  BY <1>1, <1>3, <1>7 DEF ByteCache
<1> QED
  BY <1>8, <1>9, <1>10 DEF ByteInv

LEMMA CheckKeeps ==
  ASSUME ByteInv, W!Check
  PROVE  ByteInv'
<1>1. /\ phase = "check" /\ phase' \in {"failed", "reported"}
      /\ UNCHANGED <<input, position, resident, cur_nextuse, resident_bytes, missed_bytes, misses>>
  BY DEF W!Check, W!simVars
<1>2. W!ref' = W!ref
  BY <1>1 DEF W!ref
<1>3. ByteTyped'
  BY <1>1, <1>2 DEF ByteInv, ByteTyped
<1>4. BytePhase'
  BY <1>1, <1>2 DEF ByteInv, BytePhase
<1>5. ByteCache'
  BY <1>1, <1>2 DEF ByteInv, ByteCache
<1> QED
  BY <1>3, <1>4, <1>5 DEF ByteInv

LEMMA ByteSteps ==
  ASSUME ByteInv, W!Next
  PROVE  ByteInv'
BY ReadKeeps, ByteHitKeeps, ByteMissKeeps, EvictKeeps, ByteInsertKeeps, CheckKeeps DEF W!Next

LEMMA ByteStays ==
  ASSUME ByteInv, UNCHANGED <<phase, position, misses, wp2Vars>>
  PROVE  ByteInv'
<1>1. W!ref' = W!ref
  BY DEF W!ref, wp2Vars
<1>2. ByteTyped'
  BY <1>1 DEF ByteInv, ByteTyped, wp2Vars
<1>3. BytePhase'
  BY <1>1 DEF ByteInv, BytePhase, wp2Vars
<1>4. ByteCache'
  BY <1>1 DEF ByteInv, ByteCache, wp2Vars
<1> QED
  BY <1>2, <1>3, <1>4 DEF ByteInv

LEMMA ByteIsSound ==
  ASSUME ByteInv
  PROVE  W!CacheSound
<1>1. ByteTyped /\ BytePhase /\ ByteCache
  BY DEF ByteInv
<1>2. misses \in 0..Len(W!ref)
  BY <1>1, InputFacts DEF BytePhase, ByteTyped
<1>3. W!TypeOK
  BY <1>1, <1>2 DEF W!TypeOK, ByteTyped, W!Table, W!len
<1>4. SumFunctionOnSet(input.len, resident) = ByteCount(input.len, resident)
  BY <1>1, InputFacts, SumIsByteCount DEF ByteTyped
<1>5. W!WithinBudget
  BY <1>1, <1>4, SameSum DEF W!WithinBudget, W!len, W!budget, ByteCache
<1>6. W!UsesAreNext
  BY <1>1, SameNextUse DEF W!UsesAreNext, ByteCache
<1> QED
  BY <1>3, <1>5, <1>6 DEF W!CacheSound

-----------------------------------------------------------------------------
(* Either solver. *)

SolversInv ==
  \/ tool = "belady" /\ BeladyInv
  \/ tool = "wp2_opt" /\ ByteInv

LEMMA SolversInductive ==
  /\ SolversInit => SolversInv
  /\ SolversInv /\ [SolversNext]_solversVars => SolversInv'
<1>1. SolversInit => SolversInv
  BY BeladyInits, ByteInits DEF SolversInit, SolversInv
<1>2. ASSUME SolversInv, SolversNext PROVE SolversInv'
  <2>1. CASE tool = "belady" /\ B!Next /\ UNCHANGED <<tool, wp2Vars>>
    BY <1>2, <2>1, BeladySteps DEF SolversInv
  <2>2. CASE tool = "wp2_opt" /\ W!Next /\ UNCHANGED <<tool, beladyVars>>
    BY <1>2, <2>2, ByteSteps DEF SolversInv
  <2> QED
    BY <1>2, <2>1, <2>2 DEF SolversNext
<1>3. ASSUME SolversInv, UNCHANGED solversVars PROVE SolversInv'
  BY <1>3, BeladyStays, ByteStays DEF SolversInv, solversVars
<1> QED
  BY <1>1, <1>2, <1>3

\* The inductive invariant of the two solvers (belady.c:26-133, wp2_opt.c:69-127).
THEOREM SolversInvariance == SolversSpec => []SolversInv
<1>1. SolversInit => SolversInv
  BY SolversInductive
<1>2. SolversInv /\ [SolversNext]_solversVars => SolversInv'
  BY SolversInductive
<1> QED
  BY <1>1, <1>2, PTL DEF SolversSpec

\* Whatever the trace or the declared pass, and whatever the cache may hold, each
\* victim is taken from a sound state (belady.c:87-133, wp2_opt.c:78-103).
THEOREM SimulationIsSound == SolversSpec => []SimulationSound
<1>1. SolversInv => SimulationSound
  BY BeladyIsSound, ByteIsSound DEF SolversInv, SimulationSound
<1> QED
  BY <1>1, SolversInvariance, PTL

-----------------------------------------------------------------------------
(* The fewest misses.  From a position on, they are those of the references *)
(* that are left.                                                           *)

\* One turn of Fewest, of which f has what the turns after it give.
FewestFrom(r, room, f, left, cache) ==
  LET k == r[Len(r) - left + 1] IN
  IF left = 0 THEN 0
  ELSE IF k \in cache THEN f[<<left - 1, cache>>]
  ELSE IF room = 0 THEN 1 + f[<<left - 1, cache>>]
  ELSE IF Cardinality(cache) < room THEN 1 + f[<<left - 1, cache \cup {k}>>]
  ELSE 1 + Min({f[<<left - 1, (cache \ {v}) \cup {k}>>] : v \in cache})

Least(r, room, j, cache) == Fewest(r, room)[<<Len(r) - j, cache>>]

LEMMA CacheIsFinite ==
  ASSUME NEW S \in SUBSET Chunks
  PROVE  /\ IsFiniteSet(S) /\ Cardinality(S) \in Nat /\ S \subseteq Nat
         /\ S = {} <=> Cardinality(S) = 0
<1>1. IsFiniteSet(0..UINT64_MAX) /\ S \subseteq 0..UINT64_MAX
  BY SolversAssumption, FS_Interval
<1>2. IsFiniteSet(S) /\ Cardinality(S) \in Nat
  BY <1>1, FS_Subset, FS_CardinalityType
<1>3. S = {} <=> Cardinality(S) = 0
  BY <1>2, FS_EmptySet
<1>4. S \subseteq Nat
  BY <1>1
<1> QED
  BY <1>2, <1>3, <1>4

LEMMA FewestFromIs ==
  ASSUME NEW r \in References, NEW room \in Nat, NEW left \in 1..Len(r), NEW cache \in SUBSET Chunks,
         NEW f, NEW g,
         \A S \in SUBSET Chunks : f[<<left - 1, S>>] \in Nat /\ g[<<left - 1, S>>] = f[<<left - 1, S>>]
  PROVE  /\ FewestFrom(r, room, f, left, cache) \in Nat
         /\ FewestFrom(r, room, g, left, cache) = FewestFrom(r, room, f, left, cache)
<1> DEFINE k == r[Len(r) - left + 1]
           after(v) == (cache \ {v}) \cup {k}
           F == {f[<<left - 1, after(v)>>] : v \in cache}
           G == {g[<<left - 1, after(v)>>] : v \in cache}
<1>1. k \in Chunks /\ left # 0
  BY DEF References
<1>2. Cardinality(cache) \in Nat /\ (cache = {} => Cardinality(cache) = 0)
  BY CacheIsFinite
<1> HIDE DEF k
<1>3. cache \in SUBSET Chunks /\ cache \cup {k} \in SUBSET Chunks /\ \A v \in cache : after(v) \in SUBSET Chunks
  BY <1>1
<1>4. F = G /\ F \in SUBSET Nat
  <2> HIDE DEF after
  <2> QED
    BY <1>3
<1>5. cache # {} => F # {}
  OBVIOUS
<1>6. cache # {} => Min(F) \in Nat
  <2> HIDE DEF F
  <2> QED
    BY <1>4, <1>5, MinIs
<1>7. FewestFrom(r, room, f, left, cache) =
         IF k \in cache THEN f[<<left - 1, cache>>]
         ELSE IF room = 0 THEN 1 + f[<<left - 1, cache>>]
         ELSE IF Cardinality(cache) < room THEN 1 + f[<<left - 1, cache \cup {k}>>]
         ELSE 1 + Min(F)
  BY <1>1 DEF FewestFrom, k
<1>8. FewestFrom(r, room, g, left, cache) =
         IF k \in cache THEN g[<<left - 1, cache>>]
         ELSE IF room = 0 THEN 1 + g[<<left - 1, cache>>]
         ELSE IF Cardinality(cache) < room THEN 1 + g[<<left - 1, cache \cup {k}>>]
         ELSE 1 + Min(G)
  BY <1>1 DEF FewestFrom, k
<1>9. Cardinality(cache) < room \/ room = 0 \/ cache # {}
  BY <1>2
<1> HIDE DEF F, G, after
<1>10. FewestFrom(r, room, f, left, cache) = FewestFrom(r, room, g, left, cache)
  BY <1>3, <1>4, <1>7, <1>8
<1>11. FewestFrom(r, room, f, left, cache) \in Nat
  BY <1>3, <1>6, <1>7, <1>9
<1> QED
  BY <1>10, <1>11

\* There is a function that satisfies the equation of Fewest.
LEMMA FewestExists ==
  ASSUME NEW r \in References, NEW room \in Nat
  PROVE  \E f \in [(0..Len(r)) \X SUBSET Chunks -> Nat] :
           \A p \in (0..Len(r)) \X SUBSET Chunks : f[p] = FewestFrom(r, room, f, p[1], p[2])
<1> DEFINE n == Len(r)
           D(m) == (0..m) \X SUBSET Chunks
           Good(m, f) == f \in [D(m) -> Nat] /\ \A p \in D(m) : f[p] = FewestFrom(r, room, f, p[1], p[2])
           S == {m \in 0..n : \E f : Good(m, f)}
<1>1. n \in Nat
  BY DEF References
<1> HIDE DEF n
<1>2. 0 \in S
  <2> DEFINE f == [p \in D(0) |-> 0]
  <2>1. \A p \in D(0) : p[1] = 0
    OBVIOUS
  <2>2. \A p \in D(0) : FewestFrom(r, room, f, p[1], p[2]) = 0
    <3> HIDE DEF f
    <3> QED
      BY <2>1 DEF FewestFrom
  <2>3. f \in [D(0) -> Nat] /\ \A p \in D(0) : f[p] = 0
    OBVIOUS
  <2> HIDE DEF f, D
  <2>4. Good(0, f)
    BY <2>2, <2>3
  <2> QED
    BY <1>1, <2>4
<1>3. ASSUME NEW m \in 0..(n - 1), m \in S PROVE m + 1 \in S
  <2>1. PICK f : Good(m, f)
    BY <1>3
  <2> DEFINE g == [p \in D(m + 1) |-> IF p[1] <= m THEN f[p] ELSE FewestFrom(r, room, f, p[1], p[2])]
  <2>2. m + 1 \in 1..n /\ m \in Nat
    BY <1>1
  <2>3. \A i \in 0..m : \A C \in SUBSET Chunks : <<i, C>> \in D(m) /\ <<i, C>> \in D(m + 1)
    BY <2>2
  <2>4. \A i \in 0..m : \A C \in SUBSET Chunks : f[<<i, C>>] \in Nat /\ g[<<i, C>>] = f[<<i, C>>]
    <3> TAKE i \in 0..m
    <3> TAKE C \in SUBSET Chunks
    <3>1. <<i, C>> \in D(m) /\ <<i, C>> \in D(m + 1)
      BY <2>3
    <3>2. <<i, C>>[1] <= m
      BY <2>2
    <3> HIDE DEF D
    <3> QED
      BY <2>1, <3>1, <3>2
  <2>5. \A C \in SUBSET Chunks : \A i \in 0..(m + 1) :
           /\ FewestFrom(r, room, f, i, C) \in Nat
           /\ FewestFrom(r, room, g, i, C) = FewestFrom(r, room, f, i, C)
    <3> TAKE C \in SUBSET Chunks
    <3> TAKE i \in 0..(m + 1)
    <3> HIDE DEF g
    <3>1. CASE i = 0
      BY <3>1 DEF FewestFrom
    <3>2. CASE i # 0
      <4>1. i \in 1..Len(r) /\ i - 1 \in 0..m
        BY <2>2, <3>2 DEF n
      <4>2. \A E \in SUBSET Chunks : f[<<i - 1, E>>] \in Nat /\ g[<<i - 1, E>>] = f[<<i - 1, E>>]
        BY <2>4, <4>1
      <4> QED
        BY <4>1, <4>2, FewestFromIs
    <3> QED
      BY <3>1, <3>2
  <2>6. \A p \in D(m + 1) : p[1] \in 0..(m + 1) /\ p[2] \in SUBSET Chunks /\ (p[1] <= m => p \in D(m))
    BY <2>2
  <2>7. \A p \in D(m) : f[p] \in Nat /\ f[p] = FewestFrom(r, room, f, p[1], p[2])
    BY <2>1
  <2>8. g \in [D(m + 1) -> Nat]
    <3> HIDE DEF D
    <3> QED
      BY <2>5, <2>6, <2>7
  <2>9. \A p \in D(m + 1) : g[p] = FewestFrom(r, room, f, p[1], p[2])
    <3> HIDE DEF D
    <3> QED
      BY <2>6, <2>7
  <2>10. \A p \in D(m + 1) : FewestFrom(r, room, g, p[1], p[2]) = FewestFrom(r, room, f, p[1], p[2])
    <3> HIDE DEF D, g
    <3> QED
      BY <2>5, <2>6
  <2>11. Good(m + 1, g)
    <3> HIDE DEF D, g
    <3> QED
      BY <2>8, <2>9, <2>10
  <2> HIDE DEF Good
  <2> QED
    BY <2>2, <2>11
<1> HIDE DEF S
<1>4. 0..n \subseteq S
  BY <1>1, <1>2, <1>3, IntervalInduction, Zenon
<1>5. n \in S
  BY <1>1, <1>4
<1> QED
  BY <1>5 DEF S, n

\* What Fewest says of the references from the position j on.
LeastTurn(r, room, j, cache) ==
  Least(r, room, j, cache) =
    IF r[j + 1] \in cache THEN Least(r, room, j + 1, cache)
    ELSE IF room = 0 THEN 1 + Least(r, room, j + 1, cache)
    ELSE IF Cardinality(cache) < room THEN 1 + Least(r, room, j + 1, cache \cup {r[j + 1]})
    ELSE 1 + Min({Least(r, room, j + 1, (cache \ {v}) \cup {r[j + 1]}) : v \in cache})

\* So Least satisfies it.
LEMMA LeastIs ==
  ASSUME NEW r \in References, NEW room \in Nat, NEW j \in 0..Len(r), NEW cache \in SUBSET Chunks
  PROVE  /\ Least(r, room, j, cache) \in Nat
         /\ j = Len(r) => Least(r, room, j, cache) = 0
         /\ j < Len(r) => LeastTurn(r, room, j, cache)
<1> DEFINE n == Len(r)
           D == (0..n) \X SUBSET Chunks
           f == Fewest(r, room)
           Good(g) == g = [p \in D |-> FewestFrom(r, room, g, p[1], p[2])]
<1>1. n \in Nat
  BY DEF References
<1>2. f = CHOOSE g : Good(g)
  BY Zenon DEF Fewest, FewestFrom, At
<1>3. PICK g \in [D -> Nat] : \A p \in D : g[p] = FewestFrom(r, room, g, p[1], p[2])
  BY FewestExists
<1>4. Good(g)
  <2> HIDE DEF D
  <2> QED
    BY <1>3
<1>5. Good(f)
  <2> HIDE DEF Good, f
  <2> QED
    BY <1>2, <1>4, Zenon
<1> HIDE DEF f
<1>6. \A i \in 0..n : \A C \in SUBSET Chunks : f[<<i, C>>] = FewestFrom(r, room, f, i, C)
  <2> TAKE i \in 0..n
  <2> TAKE C \in SUBSET Chunks
  <2>1. <<i, C>> \in D /\ <<i, C>>[1] = i /\ <<i, C>>[2] = C
    OBVIOUS
  <2> HIDE DEF D
  <2> QED
    BY <1>5, <2>1
<1> DEFINE S == {m \in 0..n : \A C \in SUBSET Chunks : f[<<m, C>>] \in Nat}
<1>7. 0..n \subseteq S
  <2>1. 0 \in S
    <3>1. 0 \in 0..n
      BY <1>1
    <3>2. \A C \in SUBSET Chunks : FewestFrom(r, room, f, 0, C) = 0
      BY DEF FewestFrom
    <3> HIDE DEF n
    <3> QED
      BY <1>6, <3>1, <3>2
  <2>2. ASSUME NEW m \in 0..(n - 1), m \in S PROVE m + 1 \in S
    <3>1. m + 1 \in 1..Len(r) /\ m + 1 \in 0..n /\ (m + 1) - 1 = m
      BY <1>1
    <3>2. \A C \in SUBSET Chunks : FewestFrom(r, room, f, m + 1, C) \in Nat
      BY <2>2, <3>1, FewestFromIs
    <3> QED
      BY <1>6, <3>1, <3>2
  <2> HIDE DEF S, n
  <2> QED
    BY <1>1, <2>1, <2>2, IntervalInduction, Zenon
<1>8. n - j \in 0..n /\ (n - j) = 0 <=> j = n
  BY <1>1
<1>9. Least(r, room, j, cache) = f[<<n - j, cache>>]
  BY DEF Least, f
<1>10. Least(r, room, j, cache) \in Nat
  BY <1>7, <1>8, <1>9
<1>11. j = n => Least(r, room, j, cache) = 0
  BY <1>6, <1>8, <1>9 DEF FewestFrom
<1>12. ASSUME j < n
       PROVE  LeastTurn(r, room, j, cache)
  <2>1. n - j # 0 /\ (n - j) - 1 = n - (j + 1) /\ n - (n - j) + 1 = j + 1
    BY <1>1, <1>12
  <2>2. Least(r, room, j, cache) = FewestFrom(r, room, f, n - j, cache)
    BY <1>6, <1>8, <1>9
  <2>3. \A T : Least(r, room, j + 1, T) = f[<<(n - j) - 1, T>>]
    BY <2>1 DEF Least, f
  <2> QED
    BY <2>1, <2>2, <2>3 DEF FewestFrom, LeastTurn
<1> QED
  BY <1>10, <1>11, <1>12

\* A hit costs nothing.
LEMMA HitIs ==
  ASSUME NEW r \in References, NEW room \in Nat, NEW j \in 0..(Len(r) - 1), NEW cache \in SUBSET Chunks,
         r[j + 1] \in cache
  PROVE  Least(r, room, j, cache) = Least(r, room, j + 1, cache)
<1>1. Len(r) \in Nat
  BY DEF References
<1>2. j \in 0..Len(r) /\ j < Len(r)
  BY <1>1
<1>3. LeastTurn(r, room, j, cache)
  BY <1>2, LeastIs
<1> QED
  BY <1>3 DEF LeastTurn

\* A full cache gives up any of its chunks, the best of them with the fewest misses.
FullMiss(r, room, j, cache) ==
  LET after(v) == Least(r, room, j + 1, (cache \ {v}) \cup {r[j + 1]})
  IN /\ \A v \in cache : after(v) \in Nat /\ Least(r, room, j, cache) <= 1 + after(v)
     /\ \E v \in cache : Least(r, room, j, cache) = 1 + after(v)

LEMMA FullMissIs ==
  ASSUME NEW r \in References, NEW room \in Nat \ {0}, NEW j \in 0..(Len(r) - 1), NEW cache \in SUBSET Chunks,
         r[j + 1] \notin cache, Cardinality(cache) = room
  PROVE  FullMiss(r, room, j, cache)
<1> DEFINE k == r[j + 1]
           after(v) == Least(r, room, j + 1, (cache \ {v}) \cup {k})
           T == {after(v) : v \in cache}
<1>1. k \in Chunks /\ Len(r) \in Nat /\ j + 1 \in 0..Len(r)
  BY DEF References
<1>2. \A v \in cache : after(v) \in Nat
  <2> TAKE v \in cache
  <2>1. (cache \ {v}) \cup {k} \in SUBSET Chunks
    BY <1>1
  <2> QED
    BY <1>1, <2>1, LeastIs
<1>3. cache # {}
  BY CacheIsFinite
<1>4. T \in SUBSET Nat /\ T # {}
  BY <1>2, <1>3
<1>5. Min(T) \in T /\ \A x \in T : Min(T) <= x
  BY <1>4, MinIs
<1>6. Least(r, room, j, cache) = 1 + Min(T)
  <2>1. j \in 0..Len(r) /\ j < Len(r) /\ room # 0 /\ ~ (Cardinality(cache) < room) /\ room \in Nat
    BY <1>1
  <2>2. LeastTurn(r, room, j, cache)
    BY <2>1, LeastIs
  <2> QED
    BY <2>1, <2>2 DEF LeastTurn
<1> HIDE DEF after
<1>7. ASSUME NEW v \in cache PROVE Least(r, room, j, cache) <= 1 + after(v)
  <2>1. after(v) \in T
    OBVIOUS
  <2> HIDE DEF T
  <2>2. Min(T) <= after(v)
    BY <1>5, <2>1
  <2>3. Min(T) \in Nat
    BY <1>4, <1>5
  <2>4. after(v) \in Nat
    BY <1>2
  <2> QED
    BY <1>6, <2>2, <2>3, <2>4
<1>8. \E v \in cache : Least(r, room, j, cache) = 1 + after(v)
  BY <1>5, <1>6
<1> QED
  BY <1>2, <1>7, <1>8 DEF after, FullMiss

\* One place of a full cache makes a difference of one miss at the most, and none to
\* the worse if it holds the chunk which is used before the other.
Exchanges(r, room, j) ==
  \A X \in SUBSET Chunks : \A a, b \in Chunks :
    a \notin X /\ b \notin X /\ Cardinality(X) + 1 = room =>
      /\ Least(r, room, j, X \cup {b}) <= Least(r, room, j, X \cup {a}) + 1
      /\ NextUse(r, j - 1, b) <= NextUse(r, j - 1, a) =>
           Least(r, room, j, X \cup {b}) <= Least(r, room, j, X \cup {a})

\* From a position to the one before it, by whether the reference hits, misses with
\* room or evicts from either cache.
LEMMA ExchangeStep ==
  ASSUME NEW r \in References, NEW room \in Nat \ {0}, NEW j \in 0..(Len(r) - 1), Exchanges(r, room, j + 1)
  PROVE  Exchanges(r, room, j)
<1> SUFFICES ASSUME NEW X \in SUBSET Chunks, NEW a \in Chunks, NEW b \in Chunks,
                    a \notin X, b \notin X, Cardinality(X) + 1 = room
             PROVE  /\ Least(r, room, j, X \cup {b}) <= Least(r, room, j, X \cup {a}) + 1
                    /\ NextUse(r, j - 1, b) <= NextUse(r, j - 1, a) =>
                         Least(r, room, j, X \cup {b}) <= Least(r, room, j, X \cup {a})
  BY DEF Exchanges
<1> DEFINE k == r[j + 1]
           now(S)  == Least(r, room, j, S)
           next(S) == Least(r, room, j + 1, S)
<1>1. /\ Len(r) \in Nat /\ k \in Chunks /\ j \in 0..Len(r) /\ j + 1 \in 0..Len(r) /\ room \in Nat
      /\ (j + 1) - 1 = j
  BY DEF References
<1>2. \A S \in SUBSET Chunks : now(S) \in Nat /\ next(S) \in Nat
  BY <1>1, LeastIs
<1>3. \A S \in SUBSET Chunks : k \in S => now(S) = next(S)
  BY HitIs
<1>4. IsFiniteSet(X) /\ Cardinality(X) \in Nat
  BY CacheIsFinite
<1>5. \A c \in Chunks \ X : X \cup {c} \in SUBSET Chunks /\ Cardinality(X \cup {c}) = room
  BY <1>4, FS_AddElement
<1>6. /\ \A c \in Chunks : c # k => NextUse(r, j - 1, c) = NextUse(r, j, c)
      /\ NextUse(r, j - 1, k) = j
  BY NextUseStays
<1>7. \A Y \in SUBSET Chunks : \A c, d \in Chunks :
        c \notin Y /\ d \notin Y /\ Cardinality(Y) + 1 = room =>
          /\ next(Y \cup {d}) <= next(Y \cup {c}) + 1
          /\ NextUse(r, j, d) <= NextUse(r, j, c) => next(Y \cup {d}) <= next(Y \cup {c})
  BY <1>1 DEF Exchanges
<1>8. \A S \in SUBSET Chunks : k \notin S /\ Cardinality(S) = room =>
        /\ \A v \in S : now(S) <= 1 + next((S \ {v}) \cup {k})
        /\ \E v \in S : now(S) = 1 + next((S \ {v}) \cup {k})
  <2> TAKE S \in SUBSET Chunks
  <2> HAVE k \notin S /\ Cardinality(S) = room
  <2>1. FullMiss(r, room, j, S)
    BY FullMissIs
  <2> QED
    BY <2>1 DEF FullMiss
<1>9. \A v \in X : k \notin X => (X \ {v}) \cup {k} \in SUBSET Chunks /\ Cardinality((X \ {v}) \cup {k}) = Cardinality(X)
  <2> TAKE v \in X
  <2>1. IsFiniteSet(X \ {v}) /\ Cardinality(X \ {v}) = Cardinality(X) - 1
    BY <1>4, FS_RemoveElement
  <2>2. k \notin X => Cardinality((X \ {v}) \cup {k}) = Cardinality(X \ {v}) + 1
    BY <2>1, FS_AddElement
  <2> QED
    BY <1>1, <1>4, <2>1, <2>2
<1> HIDE DEF k, now, next
<1>10. CASE a = b
  BY <1>2, <1>5, <1>10 DEF now
<1>11. CASE k \in X
  <2>1. now(X \cup {a}) = next(X \cup {a}) /\ now(X \cup {b}) = next(X \cup {b})
    BY <1>3, <1>5, <1>11
  <2>2. NextUse(r, j - 1, a) = NextUse(r, j, a) /\ NextUse(r, j - 1, b) = NextUse(r, j, b)
    BY <1>6, <1>11
  <2> QED
    BY <1>7, <2>1, <2>2 DEF now
<1>12. CASE k = b /\ a # b
  <2>1. now(X \cup {b}) = next(X \cup {b})
    BY <1>3, <1>5, <1>12
  <2>2. PICK v \in X \cup {a} : now(X \cup {a}) = 1 + next(((X \cup {a}) \ {v}) \cup {k})
    BY <1>5, <1>8, <1>12
  <2>3. CASE v = a
    <3>1. ((X \cup {a}) \ {v}) \cup {k} = X \cup {b}
      BY <1>12, <2>3
    <3>2. now(X \cup {a}) = 1 + now(X \cup {b}) /\ now(X \cup {b}) \in Nat
      BY <1>2, <1>5, <2>1, <2>2, <3>1
    <3> QED
      BY <3>2 DEF now
  <2>4. CASE v \in X
    <3> DEFINE Y == (X \ {v}) \cup {b}
    <3>1. ((X \cup {a}) \ {v}) \cup {k} = Y \cup {a} /\ X \cup {b} = Y \cup {v}
      BY <1>12, <2>4
    <3>2. Y \in SUBSET Chunks /\ a \notin Y /\ v \notin Y /\ v \in Chunks /\ Cardinality(Y) + 1 = room
      BY <1>9, <1>12, <2>4
    <3> HIDE DEF Y
    <3>3. next(Y \cup {v}) <= next(Y \cup {a}) + 1
      BY <1>7, <3>2
    <3>4. next(Y \cup {a}) \in Nat /\ next(Y \cup {v}) \in Nat
      <4>1. Y \cup {a} \in SUBSET Chunks /\ Y \cup {v} \in SUBSET Chunks
        BY <3>2
      <4> QED
        BY <1>2, <4>1
    <3>5. now(X \cup {b}) <= now(X \cup {a}) /\ now(X \cup {a}) \in Nat /\ now(X \cup {b}) \in Nat
      <4>1. now(X \cup {b}) = next(Y \cup {v}) /\ now(X \cup {a}) = 1 + next(Y \cup {a})
        BY <2>1, <2>2, <3>1
      <4> QED
        BY <3>3, <3>4, <4>1
    <3> QED
      BY <3>5 DEF now
  <2> QED
    BY <2>2, <2>3, <2>4
<1>13. CASE k = a /\ a # b
  <2>1. now(X \cup {a}) = next(X \cup {a})
    BY <1>3, <1>5, <1>13
  <2>2. now(X \cup {b}) <= 1 + next(((X \cup {b}) \ {b}) \cup {k})
    BY <1>5, <1>8, <1>13
  <2>3. ((X \cup {b}) \ {b}) \cup {k} = X \cup {a}
    BY <1>13
  <2>4. ~ NextUse(r, j - 1, b) <= NextUse(r, j - 1, a)
    <3>1. NextUse(r, j - 1, a) = j
      BY <1>6, <1>13
    <3>2. NextUse(r, j - 1, b) = NextUse(r, j, b)
      BY <1>6, <1>13
    <3>3. NextUse(r, j, b) > j /\ NextUse(r, j, b) \in 0..UINT64_MAX
      <4>1. j \in -1..Len(r)
        BY <1>1
      <4> QED
        BY <4>1, NextUseIs
    <3> QED
      BY <3>1, <3>2, <3>3
  <2>5. now(X \cup {b}) <= now(X \cup {a}) + 1
    <3>1. now(X \cup {a}) \in Nat /\ now(X \cup {b}) \in Nat
      BY <1>2, <1>5
    <3>2. now(X \cup {b}) <= 1 + now(X \cup {a})
      BY <2>1, <2>2, <2>3, Zenon
    <3> QED
      BY <3>1, <3>2
  <2> QED
    BY <2>4, <2>5 DEF now
<1>14. CASE k \notin X \cup {a, b}
  <2>1. PICK v \in X \cup {a} : now(X \cup {a}) = 1 + next(((X \cup {a}) \ {v}) \cup {k})
    BY <1>5, <1>8, <1>14
  <2>2. \A w \in X \cup {b} : now(X \cup {b}) <= 1 + next(((X \cup {b}) \ {w}) \cup {k})
    BY <1>5, <1>8, <1>14
  <2>3. NextUse(r, j - 1, a) = NextUse(r, j, a) /\ NextUse(r, j - 1, b) = NextUse(r, j, b)
    BY <1>6, <1>14
  <2>4. CASE v = a
    <3>1. ((X \cup {a}) \ {v}) \cup {k} = X \cup {k} /\ ((X \cup {b}) \ {b}) \cup {k} = X \cup {k}
      BY <2>4
    <3>2. now(X \cup {b}) <= now(X \cup {a})
      BY <2>1, <2>2, <3>1
    <3> QED
      BY <1>2, <1>5, <3>2 DEF now
  <2>5. CASE v \in X
    <3> DEFINE Y == (X \ {v}) \cup {k}
    <3>1. ((X \cup {a}) \ {v}) \cup {k} = Y \cup {a} /\ ((X \cup {b}) \ {v}) \cup {k} = Y \cup {b}
      BY <2>5
    <3>2. Y \in SUBSET Chunks /\ a \notin Y /\ b \notin Y /\ Cardinality(Y) + 1 = room
      BY <1>9, <1>14, <2>5
    <3> HIDE DEF Y
    <3>3. /\ next(Y \cup {b}) <= next(Y \cup {a}) + 1
          /\ NextUse(r, j, b) <= NextUse(r, j, a) => next(Y \cup {b}) <= next(Y \cup {a})
      BY <1>7, <3>2
    <3>4. next(Y \cup {a}) \in Nat /\ next(Y \cup {b}) \in Nat
      <4>1. Y \cup {a} \in SUBSET Chunks /\ Y \cup {b} \in SUBSET Chunks
        BY <3>2
      <4> QED
        BY <1>2, <4>1
    <3>5. now(X \cup {b}) <= 1 + next(Y \cup {b}) /\ now(X \cup {a}) = 1 + next(Y \cup {a})
      BY <2>1, <2>2, <2>5, <3>1
    <3>6. now(X \cup {a}) \in Nat /\ now(X \cup {b}) \in Nat
      BY <1>2, <1>5
    <3>7. /\ now(X \cup {b}) <= now(X \cup {a}) + 1
          /\ NextUse(r, j - 1, b) <= NextUse(r, j - 1, a) => now(X \cup {b}) <= now(X \cup {a})
      BY <2>3, <3>3, <3>4, <3>5, <3>6
    <3> QED
      BY <3>7 DEF now
  <2> QED
    BY <2>1, <2>4, <2>5
<1> QED
  BY <1>10, <1>11, <1>12, <1>13, <1>14

\* Hence from the end of the references to any position.
LEMMA ExchangeAlways ==
  ASSUME NEW r \in References, NEW room \in Nat \ {0}, NEW j \in 0..Len(r)
  PROVE  Exchanges(r, room, j)
<1> DEFINE n == Len(r)
           S == {m \in 0..n : Exchanges(r, room, n - m)}
<1>1. n \in Nat /\ room \in Nat
  BY DEF References
<1>2. 0 \in S
  <2>1. n \in 0..Len(r) /\ n - 0 = n
    BY <1>1
  <2>2. \A C \in SUBSET Chunks : Least(r, room, Len(r), C) = 0
    <3>1. Len(r) \in 0..Len(r)
      BY <2>1
    <3> QED
      BY <1>1, <3>1, LeastIs
  <2>3. Exchanges(r, room, n)
    <3>1. \A X \in SUBSET Chunks : \A a \in Chunks : Least(r, room, n, X \cup {a}) = 0
      BY <2>2
    <3> HIDE DEF n
    <3> SUFFICES ASSUME NEW X \in SUBSET Chunks, NEW a \in Chunks, NEW b \in Chunks
                 PROVE  /\ Least(r, room, n, X \cup {b}) <= Least(r, room, n, X \cup {a}) + 1
                        /\ Least(r, room, n, X \cup {b}) <= Least(r, room, n, X \cup {a})
      BY DEF Exchanges
    <3>2. Least(r, room, n, X \cup {b}) = 0 /\ Least(r, room, n, X \cup {a}) = 0
      BY <3>1
    <3> QED
      BY <3>2
  <2> QED
    BY <1>1, <2>1, <2>3
<1>3. ASSUME NEW m \in 0..(n - 1), m \in S PROVE m + 1 \in S
  <2>1. n - (m + 1) \in 0..(Len(r) - 1) /\ (n - (m + 1)) + 1 = n - m /\ m + 1 \in 0..n
    BY <1>1
  <2>2. Exchanges(r, room, (n - (m + 1)) + 1)
    BY <1>3, <2>1
  <2>3. Exchanges(r, room, n - (m + 1))
    BY <2>1, <2>2, ExchangeStep
  <2> QED
    BY <2>1, <2>3
<1> HIDE DEF S
<1>4. 0..n \subseteq S
  BY <1>1, <1>2, <1>3, IntervalInduction, Zenon
<1>5. n - j \in 0..n /\ n - (n - j) = j
  BY <1>1
<1>6. n - j \in S
  BY <1>4, <1>5
<1> QED
  BY <1>5, <1>6 DEF S

\* The chunk used furthest in the future is the best to give up.
Furthest(r, j, cache, v) ==
  v \in cache /\ \A m \in cache : NextUse(r, j - 1, m) <= NextUse(r, j - 1, v)

\* Giving up another chunk leads to a cache that differs in one place, for the worse.
LEMMA FurthestIsBest ==
  ASSUME NEW r \in References, NEW room \in Nat \ {0}, NEW j \in 0..(Len(r) - 1), NEW cache \in SUBSET Chunks,
         r[j + 1] \notin cache, Cardinality(cache) = room, NEW v, Furthest(r, j, cache, v)
  PROVE  Least(r, room, j, cache) = 1 + Least(r, room, j + 1, (cache \ {v}) \cup {r[j + 1]})
<1> v \in cache /\ \A m \in cache : NextUse(r, j - 1, m) <= NextUse(r, j - 1, v)
  BY DEF Furthest
<1> DEFINE k == r[j + 1]
           after(w) == Least(r, room, j + 1, (cache \ {w}) \cup {k})
<1>1. /\ \A w \in cache : after(w) \in Nat /\ Least(r, room, j, cache) <= 1 + after(w)
      /\ \E w \in cache : Least(r, room, j, cache) = 1 + after(w)
  <2>1. FullMiss(r, room, j, cache)
    BY FullMissIs
  <2> QED
    BY <2>1 DEF FullMiss
<1>2. PICK w \in cache : Least(r, room, j, cache) = 1 + after(w)
  BY <1>1
<1>3. after(v) <= after(w)
  <2>1. CASE w = v
    BY <1>1, <2>1
  <2>2. CASE w # v
    <3> DEFINE Y == (cache \ {v, w}) \cup {k}
    <3>1. k \in Chunks /\ j + 1 \in 0..Len(r) /\ (j + 1) - 1 = j /\ w \in Chunks /\ v \in Chunks
      BY DEF References
    <3>2. (cache \ {v}) \cup {k} = Y \cup {w} /\ (cache \ {w}) \cup {k} = Y \cup {v}
      BY <2>2
    <3>3. Y \in SUBSET Chunks /\ v \notin Y /\ w \notin Y
      BY <3>1
    <3>4. Cardinality(Y) + 1 = room
      <4>1. IsFiniteSet(cache) /\ Cardinality(cache) \in Nat
        BY CacheIsFinite
      <4>2. IsFiniteSet(cache \ {v}) /\ Cardinality(cache \ {v}) = room - 1
        BY <4>1, FS_RemoveElement
      <4>3. w \in cache \ {v} /\ (cache \ {v}) \ {w} = cache \ {v, w}
        BY <2>2
      <4>4. IsFiniteSet(cache \ {v, w}) /\ Cardinality(cache \ {v, w}) = room - 2
        <5> DEFINE rest == cache \ {v}
        <5>1. IsFiniteSet(rest) /\ Cardinality(rest) = room - 1 /\ w \in rest /\ rest \ {w} = cache \ {v, w}
          BY <4>2, <4>3
        <5> HIDE DEF rest
        <5>2. Cardinality(rest \ {w}) = Cardinality(rest) - 1 /\ IsFiniteSet(rest \ {w})
          BY <5>1, FS_RemoveElement
        <5>3. (room - 1) - 1 = room - 2
          OBVIOUS
        <5> QED
          BY <5>1, <5>2, <5>3
      <4>5. k \notin cache \ {v, w}
        OBVIOUS
      <4>6. Cardinality(Y) = Cardinality(cache \ {v, w}) + 1
        BY <4>4, <4>5, FS_AddElement
      <4> QED
        BY <4>4, <4>6
    <3>5. NextUse(r, j, w) <= NextUse(r, j, v)
      <4>1. NextUse(r, j - 1, w) = NextUse(r, j, w) /\ NextUse(r, j - 1, v) = NextUse(r, j, v)
        BY NextUseStays
      <4> QED
        BY <4>1
    <3> HIDE DEF Y
    <3>6. Least(r, room, j + 1, Y \cup {w}) <= Least(r, room, j + 1, Y \cup {v})
      BY <3>1, <3>3, <3>4, <3>5, ExchangeAlways DEF Exchanges
    <3> QED
      BY <3>2, <3>6
  <2> QED
    BY <2>1, <2>2
<1>4. Least(r, room, j, cache) <= 1 + after(v) /\ after(v) \in Nat /\ after(w) \in Nat
  BY <1>1
<1> HIDE DEF after
<1>5. Least(r, room, j, cache) = 1 + after(v)
  <2>1. Least(r, room, j, cache) \in Nat
    BY <1>2, <1>4
  <2> QED
    BY <1>2, <1>3, <1>4, <2>1
<1> QED
  BY <1>5 DEF after

LEMMA MissWithRoomIs ==
  ASSUME NEW r \in References, NEW room \in Nat, NEW j \in 0..(Len(r) - 1), NEW cache \in SUBSET Chunks,
         r[j + 1] \notin cache, Cardinality(cache) < room
  PROVE  Least(r, room, j, cache) = 1 + Least(r, room, j + 1, cache \cup {r[j + 1]})
<1>1. Len(r) \in Nat /\ Cardinality(cache) \in Nat
  BY CacheIsFinite DEF References
<1>2. j \in 0..Len(r) /\ j < Len(r) /\ room # 0
  BY <1>1
<1>3. LeastTurn(r, room, j, cache)
  BY <1>2, LeastIs
<1> QED
  BY <1>2, <1>3 DEF LeastTurn

LEMMA MissWithoutCacheIs ==
  ASSUME NEW r \in References, NEW j \in 0..(Len(r) - 1)
  PROVE  Least(r, 0, j, {}) = 1 + Least(r, 0, j + 1, {})
<1>1. Len(r) \in Nat
  BY DEF References
<1>2. j \in 0..Len(r) /\ j < Len(r) /\ {} \in SUBSET Chunks /\ 0 \in Nat
  BY <1>1
<1>3. LeastTurn(r, 0, j, {})
  BY <1>2, LeastIs
<1> QED
  BY <1>3 DEF LeastTurn

LEMMA SameFewest ==
  /\ \A r, room : B!MinMisses(r, room) = MinMisses(r, room)
  /\ \A r, room : W!MinMisses(r, room) = MinMisses(r, room)
BY Zenon
DEF B!MinMisses, W!MinMisses, MinMisses, B!Fewest, W!Fewest, Fewest, B!At, W!At, At, B!Min, W!Min, Min,
    B!Cardinality, W!Cardinality, Cardinality

LEMMA MinMissesIs ==
  ASSUME NEW r \in References, NEW room
  PROVE  MinMisses(r, room) = Least(r, room, 0, {})
<1>1. Len(r) - 0 = Len(r)
  BY DEF References
<1> QED
  BY <1>1 DEF MinMisses, Least

\* The fewest misses of all.
Fewest0 == Least(file.ref, capacity, 0, {})

LEMMA LeastFacts ==
  ASSUME BeladyTyped
  PROVE  /\ file.ref \in References /\ capacity \in Nat /\ Len(file.ref) \in Nat /\ position \in Nat
         /\ in_cache \in SUBSET Chunks /\ misses \in Nat
         /\ Fewest0 \in Nat
         /\ Least(file.ref, capacity, position, in_cache) \in Nat
         /\ position < Len(file.ref) =>
              /\ position \in 0..(Len(file.ref) - 1) /\ Here \in Chunks /\ Here = file.ref[position + 1]
              /\ \A S \in SUBSET Chunks : Least(file.ref, capacity, position + 1, S) \in Nat
<1>1. /\ file.ref \in References /\ capacity \in Nat /\ Len(file.ref) \in Nat /\ position \in 0..Len(file.ref)
      /\ in_cache \in SUBSET Chunks /\ misses \in Nat
      /\ position < Len(file.ref) => Here \in Chunks
  BY TraceFacts DEF BeladyTyped
<1>2. {} \in SUBSET Chunks /\ 0 \in 0..Len(file.ref)
  BY <1>1
<1>3. Fewest0 \in Nat
  BY <1>1, <1>2, LeastIs DEF Fewest0
<1>4. Least(file.ref, capacity, position, in_cache) \in Nat
  BY <1>1, LeastIs
<1>5. ASSUME position < Len(file.ref)
      PROVE  /\ position \in 0..(Len(file.ref) - 1)
             /\ \A S \in SUBSET Chunks : Least(file.ref, capacity, position + 1, S) \in Nat
  <2>1. position \in 0..(Len(file.ref) - 1) /\ position + 1 \in 0..Len(file.ref)
    BY <1>1, <1>5
  <2> QED
    BY <1>1, <2>1, LeastIs
<1> QED
  BY <1>1, <1>3, <1>4, <1>5 DEF Here

-----------------------------------------------------------------------------
(* naive_belady, the solver of the self-test. *)

Held(cache) == {cache[s] : s \in 1..Len(cache)}

NaiveTurn(x, j) ==
  IF \E s \in DOMAIN x.cache : x.cache[s] = file.ref[j + 1] THEN x
  ELSE [cache  |-> IF Len(x.cache) < capacity THEN Append(x.cache, file.ref[j + 1])
                   ELSE [x.cache EXCEPT ![B!Slot(x.cache, j)] = file.ref[j + 1]],
        misses |-> x.misses + 1]

\* What the loop has when it comes to the position j.
NaiveAt(x, j) ==
  /\ x.cache \in Seq(Chunks) /\ x.misses \in Nat
  /\ \A s, t \in 1..Len(x.cache) : x.cache[s] = x.cache[t] => s = t
  /\ Len(x.cache) <= capacity /\ Cardinality(Held(x.cache)) = Len(x.cache)
  /\ x.misses + Least(file.ref, capacity, j, Held(x.cache)) = Fewest0

\* The slot that naive_belady empties holds a chunk used furthest in the future.
LEMMA SlotIs ==
  ASSUME NEW r, r = file.ref, r \in References, NEW j \in 0..(Len(r) - 1),
         NEW cache \in Seq(Chunks), cache # <<>>, \A s \in 1..Len(cache) : cache[s] # r[j + 1]
  PROVE  B!Slot(cache, j) \in 1..Len(cache) /\ Furthest(r, j, Held(cache), cache[B!Slot(cache, j)])
<1> DEFINE D == 1..Len(cache)
           f == [s \in D |-> NextUse(r, j, cache[s])]
           far == {k \in D : \A m \in D : f[m] <= f[k]}
           slot == B!Slot(cache, j)
<1>1. D \in SUBSET Nat /\ D # {} /\ DOMAIN cache = D
  <2>1. Len(cache) \in Nat /\ Len(cache) # 0
    BY EmptySeq
  <2>2. 1 \in D
    BY <2>1
  <2> QED
    BY <2>2
<1>2. \A k \in D : f[k] \in 0..UINT64_MAX
  <2>1. Len(r) \in Nat
    BY DEF References
  <2>2. j \in -1..Len(r)
    BY <2>1
  <2> QED
    BY <2>2, NextUseIs
<1>3. slot = Min({k \in D : \A m \in D : NextUse(r, j, cache[m]) <= NextUse(r, j, cache[k])})
  <2> HIDE DEF D
  <2> QED
    BY <1>1, SameLeast, SameNextUse DEF B!Slot, B!ref
<1>4. far = {k \in D : \A m \in D : NextUse(r, j, cache[m]) <= NextUse(r, j, cache[k])}
  OBVIOUS
<1> HIDE DEF f, D, slot
<1>5. Min(far) \in far
  BY <1>1, <1>2, FirstOfMost
<1>6. slot \in far
  BY <1>3, <1>4, <1>5
<1>7. slot \in D /\ \A m \in D : NextUse(r, j, cache[m]) <= NextUse(r, j, cache[slot])
  BY <1>4, <1>6
<1>8. \A m \in D : NextUse(r, j, cache[m]) = NextUse(r, j - 1, cache[m])
  BY NextUseStays DEF D
<1>9. \A m \in D : NextUse(r, j - 1, cache[m]) <= NextUse(r, j - 1, cache[slot])
  BY <1>7, <1>8
<1>10. Furthest(r, j, Held(cache), cache[slot])
  BY <1>7, <1>9 DEF Furthest, Held, D
<1> QED
  BY <1>7, <1>10 DEF D, slot

\* A turn keeps what is missed and what is left to miss at the fewest of all.
LEMMA NaiveStep ==
  ASSUME BeladyTyped, capacity # 0, NEW j \in 0..(Len(file.ref) - 1), NEW x, NaiveAt(x, j)
  PROVE  NaiveAt(NaiveTurn(x, j), j + 1)
<1> DEFINE r == file.ref
           k == r[j + 1]
           c == x.cache
           n == Len(c)
           y == NaiveTurn(x, j)
<1>1. /\ r \in References /\ Len(r) \in Nat /\ capacity \in Nat \ {0} /\ k \in Chunks /\ j + 1 \in 0..Len(r)
      /\ Fewest0 \in Nat
  BY LeastFacts DEF References
<1>2. /\ c \in Seq(Chunks) /\ n \in Nat /\ x.misses \in Nat /\ DOMAIN c = 1..n
      /\ \A s, t \in 1..n : c[s] = c[t] => s = t
      /\ n <= capacity /\ Cardinality(Held(c)) = n
      /\ x.misses + Least(r, capacity, j, Held(c)) = Fewest0
  BY DEF NaiveAt
<1>3. Held(c) \in SUBSET Chunks
  BY <1>2 DEF Held
<1>4. IsFiniteSet(Held(c))
  BY <1>3, CacheIsFinite
<1>5. \A S \in SUBSET Chunks : Least(r, capacity, j + 1, S) \in Nat
  BY <1>1, LeastIs
<1>6. k \in Held(c) <=> \E s \in DOMAIN c : c[s] = k
  BY <1>2 DEF Held
<1>7. y = IF k \in Held(c) THEN x
          ELSE [cache  |-> IF n < capacity THEN Append(c, k) ELSE [c EXCEPT ![B!Slot(c, j)] = k],
                misses |-> x.misses + 1]
  BY <1>6 DEF NaiveTurn
<1> HIDE DEF r, k, c, n, y
<1>8. CASE k \in Held(c)
  <2>1. Least(r, capacity, j, Held(c)) = Least(r, capacity, j + 1, Held(c))
    BY <1>1, <1>3, <1>8, HitIs DEF k, r
  <2>2. y = x
    BY <1>7, <1>8
  <2> QED
    BY <1>2, <2>1, <2>2 DEF NaiveAt, r, c, n, y
<1>9. CASE k \notin Held(c) /\ n < capacity
  <2> DEFINE d == Append(c, k)
  <2>1. y.cache = d /\ y.misses = x.misses + 1
    BY <1>7, <1>9
  <2>2. /\ d \in Seq(Chunks) /\ Len(d) = n + 1 /\ d[n + 1] = k
        /\ \A s \in 1..n : d[s] = c[s]
    BY <1>1, <1>2 DEF n
  <2> HIDE DEF d
  <2>3. Held(d) = Held(c) \cup {k}
    <3>1. 1..(n + 1) = (1..n) \cup {n + 1}
      BY <1>2
    <3> QED
      BY <2>2, <3>1 DEF Held, n
  <2>4. Cardinality(Held(d)) = n + 1
    BY <1>2, <1>4, <1>9, <2>3, FS_AddElement
  <2>5. \A s, t \in 1..(n + 1) : d[s] = d[t] => s = t
    <3>1. \A s \in 1..n : d[s] # k
      BY <1>9, <2>2 DEF Held, n
    <3>2. \A s \in 1..(n + 1) : s # n + 1 => s \in 1..n
      BY <1>2
    <3> QED
      BY <1>2, <2>2, <3>1, <3>2
  <2>6. Least(r, capacity, j, Held(c)) = 1 + Least(r, capacity, j + 1, Held(d))
    <3>1. r[j + 1] = k /\ j \in 0..(Len(r) - 1) /\ capacity \in Nat /\ Cardinality(Held(c)) < capacity
      BY <1>1, <1>2, <1>9 DEF k, r
    <3>2. Least(r, capacity, j, Held(c)) = 1 + Least(r, capacity, j + 1, Held(c) \cup {r[j + 1]})
      BY <1>1, <1>3, <1>9, <3>1, MissWithRoomIs
    <3> QED
      BY <2>3, <3>1, <3>2
  <2>7. Least(r, capacity, j + 1, Held(d)) \in Nat
    BY <1>1, <1>3, <1>5, <2>3
  <2>8. y.misses + Least(r, capacity, j + 1, Held(d)) = Fewest0 /\ y.misses \in Nat
    <3> DEFINE before == Least(r, capacity, j, Held(c))
               after  == Least(r, capacity, j + 1, Held(d))
    <3>1. before = 1 + after /\ after \in Nat
      BY <2>6, <2>7
    <3>2. x.misses \in Nat /\ x.misses + before = Fewest0 /\ y.misses = x.misses + 1
      BY <1>2, <2>1
    <3> HIDE DEF before, after
    <3>3. y.misses + after = Fewest0 /\ y.misses \in Nat
      BY <3>1, <3>2
    <3> QED
      BY <3>3 DEF after
  <2>9. n + 1 <= capacity
    BY <1>1, <1>2, <1>9
  <2>10. NaiveAt(y, j + 1)
    BY <2>1, <2>2, <2>4, <2>5, <2>8, <2>9 DEF NaiveAt, r
  <2> QED
    BY <2>10 DEF y
<1>10. CASE k \notin Held(c) /\ ~ n < capacity
  <2> DEFINE slot == B!Slot(c, j)
             d == [c EXCEPT ![slot] = k]
  <2>1. y.cache = d /\ y.misses = x.misses + 1
    BY <1>7, <1>10
  <2>2. n = capacity /\ c # <<>>
    <3>1. n = capacity /\ n # 0
      BY <1>1, <1>2, <1>10
    <3>2. Len(<<>>) = 0
      OBVIOUS
    <3> QED
      BY <3>1, <3>2 DEF n
  <2>3. slot \in 1..n /\ Furthest(r, j, Held(c), c[slot])
    <3>1. \A s \in 1..Len(c) : c[s] # r[j + 1]
      BY <1>10 DEF Held, k
    <3>2. r = file.ref /\ j \in 0..(Len(r) - 1)
      BY DEF r
    <3> QED
      BY <1>1, <1>2, <2>2, <3>1, <3>2, SlotIs DEF n
  <2> HIDE DEF slot
  <2>4. /\ d \in Seq(Chunks) /\ Len(d) = n /\ d[slot] = k
        /\ \A s \in 1..n : s # slot => d[s] = c[s]
    <3>1. c \in [1..n -> Chunks] /\ d \in [1..n -> Chunks]
      <4>1. c \in [1..n -> Chunks]
        <5>1. c \in Seq(Chunks) /\ n = Len(c)
          BY <1>2 DEF n
        <5> QED
          BY <5>1
      <4> QED
        BY <1>1, <4>1
    <3> QED
      BY <1>2, <2>3, <3>1
  <2> HIDE DEF d
  <2>5. Held(d) = (Held(c) \ {c[slot]}) \cup {k} /\ c[slot] \in Held(c)
    <3>1. Held(d) = {d[s] : s \in 1..n} /\ Held(c) = {c[s] : s \in 1..n}
      BY <2>4 DEF Held, n
    <3> QED
      BY <1>2, <2>3, <2>4, <3>1
  <2>6. Cardinality(Held(d)) = n
    <3> DEFINE rest == Held(c) \ {c[slot]}
    <3>1. IsFiniteSet(rest) /\ Cardinality(rest) = n - 1
      BY <1>2, <1>4, <2>5, FS_RemoveElement
    <3>2. k \notin rest /\ Held(d) = rest \cup {k}
      BY <1>10, <2>5
    <3> HIDE DEF rest
    <3>3. Cardinality(rest \cup {k}) = Cardinality(rest) + 1
      BY <3>1, <3>2, FS_AddElement
    <3> QED
      BY <1>2, <3>1, <3>2, <3>3
  <2>7. \A s, t \in 1..n : d[s] = d[t] => s = t
    <3>1. \A s \in 1..n : c[s] # k
      BY <1>10 DEF Held, n
    <3> QED
      BY <1>2, <2>4, <3>1
  <2>8. Least(r, capacity, j, Held(c)) = 1 + Least(r, capacity, j + 1, Held(d))
    <3>1. r[j + 1] = k /\ j \in 0..(Len(r) - 1) /\ Cardinality(Held(c)) = capacity /\ r[j + 1] \notin Held(c)
      BY <1>2, <1>10, <2>2 DEF k, r
    <3>2. Least(r, capacity, j, Held(c)) = 1 + Least(r, capacity, j + 1, (Held(c) \ {c[slot]}) \cup {r[j + 1]})
      BY <1>1, <1>3, <2>3, <3>1, FurthestIsBest
    <3> QED
      BY <2>5, <3>1, <3>2
  <2>9. Least(r, capacity, j + 1, Held(d)) \in Nat
    BY <1>1, <1>3, <1>5, <2>5
  <2>10. y.misses + Least(r, capacity, j + 1, Held(d)) = Fewest0 /\ y.misses \in Nat
    <3> DEFINE before == Least(r, capacity, j, Held(c))
               after  == Least(r, capacity, j + 1, Held(d))
    <3>1. before = 1 + after /\ after \in Nat
      BY <2>8, <2>9
    <3>2. x.misses \in Nat /\ x.misses + before = Fewest0 /\ y.misses = x.misses + 1
      BY <1>2, <2>1
    <3> HIDE DEF before, after
    <3>3. y.misses + after = Fewest0 /\ y.misses \in Nat
      BY <3>1, <3>2
    <3> QED
      BY <3>3 DEF after
  <2>11. NaiveAt(y, j + 1)
    BY <1>2, <2>1, <2>4, <2>6, <2>7, <2>10 DEF NaiveAt, r
  <2> QED
    BY <2>11 DEF y
<1> QED
  BY <1>8, <1>9, <1>10

LEMMA NaiveRunExists ==
  ASSUME BeladyTyped
  PROVE  \E f : f = [j \in 0..Len(file.ref) |-> IF j = 0 THEN [cache |-> <<>>, misses |-> 0]
                                                ELSE NaiveTurn(f[j - 1], j - 1)]
<1> DEFINE n == Len(file.ref)
           Turn(f, j) == IF j = 0 THEN [cache |-> <<>>, misses |-> 0] ELSE NaiveTurn(f[j - 1], j - 1)
           Upto(f, m) == f = [j \in 0..n |-> f[j]] /\ \A j \in 0..m : f[j] = Turn(f, j)
           S == {m \in 0..n : \E f : Upto(f, m)}
<1>1. n \in Nat
  BY TraceFacts
<1> HIDE DEF n
<1>2. 0 \in S
  <2> DEFINE f == [j \in 0..n |-> [cache |-> <<>>, misses |-> 0]]
  <2>1. f = [j \in 0..n |-> f[j]] /\ f[0] = [cache |-> <<>>, misses |-> 0]
    BY <1>1
  <2> HIDE DEF f
  <2>2. Upto(f, 0)
    BY <2>1
  <2> QED
    BY <1>1, <2>2
<1>3. ASSUME NEW m \in 0..(n - 1), m \in S PROVE m + 1 \in S
  <2>1. PICK f : Upto(f, m)
    BY <1>3
  <2>2. m + 1 \in 0..n /\ m + 1 # 0 /\ (m + 1) - 1 = m /\ m \in 0..m
    BY <1>1
  <2> HIDE DEF Turn
  <2> DEFINE g == [j \in 0..n |-> IF j = m + 1 THEN Turn(f, m + 1) ELSE f[j]]
  <2>3. g = [j \in 0..n |-> g[j]]
    OBVIOUS
  <2>4. \A j \in 0..m : j \in 0..n /\ j # m + 1 /\ g[j] = f[j]
    BY <1>1
  <2>5. g[m + 1] = Turn(f, m + 1)
    BY <2>2
  <2> HIDE DEF g
  <2>6. \A j \in 0..m : Turn(g, j) = Turn(f, j)
    <3> TAKE j \in 0..m
    <3>1. j # 0 => j - 1 \in 0..m
      BY <1>1
    <3> QED
      BY <2>4, <3>1 DEF Turn
  <2>7. Turn(g, m + 1) = Turn(f, m + 1)
    BY <2>2, <2>4 DEF Turn
  <2>8. \A j \in 0..(m + 1) : j \in 0..m \/ j = m + 1
    BY <1>1
  <2>9. \A j \in 0..m : f[j] = Turn(f, j)
    BY <2>1
  <2>10. Upto(g, m + 1)
    BY <2>3, <2>4, <2>5, <2>6, <2>7, <2>8, <2>9
  <2> HIDE DEF Upto
  <2> QED
    BY <2>2, <2>10
<1> HIDE DEF S
<1>4. 0..n \subseteq S
  BY <1>1, <1>2, <1>3, IntervalInduction, Zenon
<1>5. n \in S
  BY <1>1, <1>4
<1>6. PICK f : Upto(f, n)
  BY <1>5 DEF S
<1> HIDE DEF Turn
<1>7. f = [j \in 0..n |-> Turn(f, j)]
  BY <1>6
<1> QED
  BY <1>7 DEF Turn, n

\* naive_belady gives the fewest misses, for any cache that has room.
LEMMA NaiveIsOptimal ==
  ASSUME BeladyTyped, capacity # 0
  PROVE  B!naive_belady = Fewest0
<1> DEFINE n == Len(file.ref)
           start == [cache |-> <<>>, misses |-> 0]
           IsRun(f) == f = [j \in 0..n |-> IF j = 0 THEN start ELSE NaiveTurn(f[j - 1], j - 1)]
           run == CHOOSE f : IsRun(f)
<1>1. n \in Nat /\ file.ref \in References /\ capacity \in Nat /\ Fewest0 \in Nat
  BY LeastFacts
<1>2. B!naive_belady = run[n].misses
  BY Zenon DEF B!naive_belady, B!ref, B!At, NaiveTurn
<1>3. IsRun(run)
  <2>1. \E f : IsRun(f)
    BY NaiveRunExists
  <2> HIDE DEF IsRun
  <2> QED
    BY <2>1
<1> HIDE DEF run
<1>4. /\ run[0] = start
      /\ \A j \in 0..(n - 1) : run[j + 1] = NaiveTurn(run[j], j)
  <2>1. \A j \in 0..n : run[j] = IF j = 0 THEN start ELSE NaiveTurn(run[j - 1], j - 1)
    BY <1>3, Zenon
  <2>2. 0 \in 0..n /\ \A j \in 0..(n - 1) : j + 1 \in 0..n /\ j + 1 # 0 /\ (j + 1) - 1 = j
    BY <1>1
  <2> HIDE DEF n, start
  <2> QED
    BY <2>1, <2>2
<1> DEFINE S == {j \in 0..n : NaiveAt(run[j], j)}
<1>5. 0 \in S
  <2>1. start.cache = <<>> /\ start.misses = 0 /\ Len(<<>>) = 0 /\ <<>> \in Seq(Chunks)
    OBVIOUS
  <2>2. Held(<<>>) = {}
    BY DEF Held
  <2>3. Cardinality({}) = 0
    BY FS_EmptySet
  <2>4. 0 + Least(file.ref, capacity, 0, {}) = Fewest0
    BY <1>1 DEF Fewest0
  <2> HIDE DEF start
  <2>5. NaiveAt(start, 0)
    <3>1. start.cache \in Seq(Chunks) /\ start.misses \in Nat /\ Len(start.cache) = 0 /\ Held(start.cache) = {}
      BY <2>1, <2>2
    <3>2. \A s, t \in 1..Len(start.cache) : start.cache[s] = start.cache[t] => s = t
      BY <3>1
    <3>3. start.misses + Least(file.ref, capacity, 0, Held(start.cache)) = Fewest0
      BY <2>1, <2>2, <2>4
    <3> QED
      BY <1>1, <2>3, <3>1, <3>2, <3>3 DEF NaiveAt
  <2> QED
    BY <1>1, <1>4, <2>5
<1>6. ASSUME NEW j \in 0..(n - 1), j \in S PROVE j + 1 \in S
  <2>1. NaiveAt(NaiveTurn(run[j], j), j + 1)
    BY <1>6, NaiveStep
  <2>2. j + 1 \in 0..n
    BY <1>1
  <2> QED
    BY <1>4, <2>1, <2>2
<1> HIDE DEF S, n
<1>7. 0..n \subseteq S
  BY <1>1, <1>5, <1>6, IntervalInduction, Zenon
<1>8. NaiveAt(run[n], n)
  BY <1>1, <1>7 DEF S
<1>9. Held(run[n].cache) \in SUBSET Chunks /\ run[n].misses \in Nat
      /\ run[n].misses + Least(file.ref, capacity, n, Held(run[n].cache)) = Fewest0
  BY <1>8 DEF NaiveAt, Held
<1>10. Least(file.ref, capacity, n, Held(run[n].cache)) = 0
  <2>1. n \in 0..Len(file.ref) /\ n = Len(file.ref)
    BY <1>1 DEF n
  <2> QED
    BY <1>1, <1>9, <2>1, LeastIs
<1> QED
  BY <1>2, <1>9, <1>10

-----------------------------------------------------------------------------
(* The floor of a cyclic scan: n chunks in turn, p times over.  What a pass *)
(* still reads and is not cached must be missed, and of every pass to come  *)
(* all but what the cache has room for.                                     *)

\* After a miss the cache holds nothing but what it held and the chunk missed.
LEMMA MissIs ==
  ASSUME NEW r \in References, NEW room \in Nat, NEW j \in 0..(Len(r) - 1), NEW cache \in SUBSET Chunks,
         r[j + 1] \notin cache, Cardinality(cache) <= room
  PROVE  \E S \in SUBSET Chunks : /\ S \subseteq cache \cup {r[j + 1]} /\ Cardinality(S) <= room
                                  /\ Least(r, room, j, cache) = 1 + Least(r, room, j + 1, S)
<1> DEFINE k == r[j + 1]
<1>1. k \in Chunks /\ IsFiniteSet(cache) /\ Cardinality(cache) \in Nat
  BY CacheIsFinite DEF References
<1>2. CASE room = 0
  <2>1. cache = {}
    BY <1>1, <1>2, CacheIsFinite
  <2>2. Least(r, 0, j, {}) = 1 + Least(r, 0, j + 1, {})
    BY MissWithoutCacheIs
  <2> QED
    BY <1>2, <2>1, <2>2
<1>3. CASE Cardinality(cache) < room
  <2>1. Least(r, room, j, cache) = 1 + Least(r, room, j + 1, cache \cup {k})
    BY <1>3, MissWithRoomIs
  <2>2. Cardinality(cache \cup {k}) = Cardinality(cache) + 1
    BY <1>1, FS_AddElement
  <2>3. cache \cup {k} \in SUBSET Chunks /\ Cardinality(cache \cup {k}) <= room
    BY <1>1, <1>3, <2>2
  <2> QED
    BY <2>1, <2>3
<1>4. CASE room # 0 /\ Cardinality(cache) = room
  <2>1. FullMiss(r, room, j, cache)
    <3>1. room \in Nat \ {0}
      BY <1>4
    <3> QED
      BY <1>4, <3>1, FullMissIs
  <2>2. PICK v \in cache : Least(r, room, j, cache) = 1 + Least(r, room, j + 1, (cache \ {v}) \cup {k})
    BY <2>1 DEF FullMiss
  <2> DEFINE rest == cache \ {v}
  <2>3. IsFiniteSet(rest) /\ Cardinality(rest) = room - 1 /\ k \notin rest
    BY <1>1, <1>4, FS_RemoveElement
  <2>4. rest \cup {k} \in SUBSET Chunks /\ rest \cup {k} \subseteq cache \cup {k}
    BY <1>1
  <2> HIDE DEF rest, k
  <2>5. Cardinality(rest \cup {k}) = Cardinality(rest) + 1
    BY <2>3, FS_AddElement
  <2>6. Cardinality(rest \cup {k}) <= room
    BY <2>3, <2>5
  <2> QED
    BY <2>2, <2>4, <2>6 DEF k, rest
<1> QED
  BY <1>1, <1>2, <1>3, <1>4

Cyclic(r, n, p) ==
  /\ r \in References /\ n \in Nat \ {0} /\ p \in Nat \ {0} /\ Len(r) = n * p
  /\ \A j \in 0..(Len(r) - 1) : r[j + 1] = r[(j % n) + 1]
  /\ {r[j + 1] : j \in 0..(n - 1)} = 0..(n - 1)

Rest(r, n, o) == {r[m + 1] : m \in o..(n - 1)}
Over(n, room) == IF room < n THEN n - room ELSE 0

Bounded(r, n, p, room, q, o) ==
  \A S \in SUBSET Chunks : Cardinality(S) <= room =>
    (p - 1 - q) * Over(n, room) + Cardinality(Rest(r, n, o) \ S) <= Least(r, room, n * q + o, S)

\* The position o of the pass q.
LEMMA CyclicFacts ==
  ASSUME NEW r, NEW n, NEW p, Cyclic(r, n, p), NEW room \in Nat, NEW q \in 0..(p - 1), NEW o \in 0..n
  PROVE  /\ r \in References /\ n \in Nat \ {0} /\ p \in Nat \ {0} /\ Len(r) \in Nat
         /\ n * q + o \in 0..Len(r)
         /\ o < n => n * q + o \in 0..(Len(r) - 1) /\ r[n * q + o + 1] = r[o + 1]
         /\ Over(n, room) \in Nat /\ (p - 1 - q) * Over(n, room) \in Nat
         /\ Rest(r, n, o) \in SUBSET Chunks
<1>1. r \in References /\ n \in Nat \ {0} /\ p \in Nat \ {0} /\ Len(r) \in Nat /\ Len(r) = n * p
  BY DEF Cyclic, References
<1>2. q + 1 \in Nat /\ q \in Nat /\ q + 1 <= p /\ n \in Nat /\ p - 1 - q \in Nat
  BY <1>1
<1>3. n * (q + 1) <= n * p /\ n * q \in Nat
  BY <1>1, <1>2, Product
<1>4. n * (q + 1) = n * q + n
  BY <1>1, <1>2
<1> DEFINE a == n * q
<1>5. a \in Nat /\ a + n <= Len(r)
  BY <1>1, <1>3, <1>4
<1>6. a + o \in 0..Len(r) /\ (o < n => a + o \in 0..(Len(r) - 1))
  <2> HIDE DEF a
  <2> QED
    BY <1>1, <1>5
<1>7. ASSUME o < n PROVE r[n * q + o + 1] = r[o + 1]
  <2>1. o \in 0..(n - 1) /\ q \in Int
    BY <1>1, <1>2, <1>7
  <2>2. (n * q + o) % n = o
    BY <1>1, <2>1, ModUnique
  <2>3. r[a + o + 1] = r[((a + o) % n) + 1]
    <3> HIDE DEF a
    <3> QED
      BY <1>6, <1>7 DEF Cyclic
  <2> QED
    BY <2>2, <2>3
<1>8. Over(n, room) \in Nat
  BY <1>1 DEF Over
<1>9. (p - 1 - q) * Over(n, room) \in Nat
  <2> DEFINE x == p - 1 - q
             y == Over(n, room)
  <2>1. x \in Nat /\ y \in Nat
    BY <1>2, <1>8
  <2> HIDE DEF x, y
  <2>2. x * y \in Nat
    BY <2>1
  <2> QED
    BY <2>2 DEF x, y
<1>10. Rest(r, n, o) \in SUBSET Chunks
  <2> SUFFICES ASSUME NEW m \in o..(n - 1) PROVE r[m + 1] \in Chunks
    BY DEF Rest
  <2>1. m \in 0..(n - 1) /\ 0 \in Nat /\ 1 \in Nat /\ 1 <= p
    BY <1>1
  <2>2. n * 1 <= n * p
    BY <1>1, <1>2, <2>1, Product
  <2>3. n <= Len(r)
    BY <1>1, <2>2
  <2>4. m + 1 \in 1..Len(r)
    BY <1>1, <2>1, <2>3
  <2> QED
    BY <1>1, <2>4 DEF References
<1> QED
  BY <1>1, <1>6, <1>7, <1>8, <1>9, <1>10

\* What is missed within a pass.
LEMMA BoundedBefore ==
  ASSUME NEW r, NEW n, NEW p, Cyclic(r, n, p), NEW room \in Nat, NEW q \in 0..(p - 1), NEW o \in 0..(n - 1),
         Bounded(r, n, p, room, q, o + 1)
  PROVE  Bounded(r, n, p, room, q, o)
<1> SUFFICES ASSUME NEW S \in SUBSET Chunks, Cardinality(S) <= room
             PROVE  (p - 1 - q) * Over(n, room) + Cardinality(Rest(r, n, o) \ S) <= Least(r, room, n * q + o, S)
  BY DEF Bounded
<1> DEFINE A == (p - 1 - q) * Over(n, room)
           j == n * q + o
           x == r[j + 1]
           Now == Rest(r, n, o)
           Soon == Rest(r, n, o + 1)
<1>1. /\ r \in References /\ n \in Nat \ {0} /\ j \in 0..(Len(r) - 1) /\ x = r[o + 1] /\ A \in Nat
      /\ Now \in SUBSET Chunks
  <2>1. n \in Nat \ {0}
    BY DEF Cyclic
  <2>2. o \in 0..n /\ o < n
    BY <2>1
  <2> QED
    BY <2>2, CyclicFacts
<1>2. n * q + (o + 1) = j + 1 /\ Soon \in SUBSET Chunks
  <2>1. o + 1 \in 0..n
    BY <1>1
  <2>2. n * q \in Nat
    <3>1. q \in Nat /\ n \in Nat
      BY <1>1
    <3> QED
      BY <3>1, Product
  <2> DEFINE b == n * q
  <2>3. b + (o + 1) = (b + o) + 1
    <3>1. b \in Nat /\ o \in Nat
      BY <1>1, <2>2
    <3> HIDE DEF b
    <3> QED
      BY <3>1
  <2> QED
    BY <2>1, <2>3, CyclicFacts
<1>3. Now = Soon \cup {x}
  <2>1. o..(n - 1) = {o} \cup ((o + 1)..(n - 1))
    BY <1>1
  <2> HIDE DEF x
  <2> QED
    BY <1>1, <2>1 DEF Rest
<1>4. \A T \in SUBSET Chunks : Cardinality(T) <= room => A + Cardinality(Soon \ T) <= Least(r, room, j + 1, T)
  BY <1>2 DEF Bounded
<1>5. \A T \in SUBSET Chunks : Least(r, room, j + 1, T) \in Nat
  <2>1. j + 1 \in 0..Len(r)
    BY <1>1 DEF References
  <2> HIDE DEF j
  <2> QED
    BY <1>1, <2>1, LeastIs
<1>6. \A T \in SUBSET Chunks : IsFiniteSet(T) /\ Cardinality(T) \in Nat
  BY CacheIsFinite
<1> HIDE DEF A, j, x, Now, Soon
<1>7. CASE x \in S
  <2>1. Least(r, room, j, S) = Least(r, room, j + 1, S)
    BY <1>1, <1>7, HitIs DEF x
  <2>2. Now \ S = Soon \ S
    BY <1>3, <1>7
  <2>3. A + Cardinality(Now \ S) <= Least(r, room, j, S)
    BY <1>4, <2>1, <2>2
  <2> QED
    BY <2>3 DEF A, j, Now
<1>8. CASE x \notin S
  <2>1. PICK T \in SUBSET Chunks : /\ T \subseteq S \cup {x} /\ Cardinality(T) <= room
                                   /\ Least(r, room, j, S) = 1 + Least(r, room, j + 1, T)
    BY <1>1, <1>8, MissIs DEF x
  <2>2. Now \ S \subseteq (Soon \ T) \cup {x}
    BY <1>3, <2>1
  <2>3. Soon \ T \in SUBSET Chunks /\ (Soon \ T) \cup {x} \in SUBSET Chunks /\ Now \ S \in SUBSET Chunks
    BY <1>1, <1>2, <1>3
  <2>4. Cardinality((Soon \ T) \cup {x}) <= Cardinality(Soon \ T) + 1
    <3> DEFINE R == Soon \ T
    <3>1. IsFiniteSet(R) /\ Cardinality(R) \in Nat
      BY <1>6, <2>3
    <3> HIDE DEF R
    <3>2. Cardinality(R \cup {x}) = IF x \in R THEN Cardinality(R) ELSE Cardinality(R) + 1
      BY <3>1, FS_AddElement
    <3>3. Cardinality(R \cup {x}) <= Cardinality(R) + 1
      BY <3>1, <3>2
    <3> QED
      BY <3>3 DEF R
  <2>5. Cardinality(Now \ S) <= Cardinality((Soon \ T) \cup {x})
    BY <1>6, <2>2, <2>3, FS_Subset
  <2>6. A + Cardinality(Soon \ T) <= Least(r, room, j + 1, T)
    BY <1>4, <2>1
  <2>7. /\ Cardinality(Now \ S) \in Nat /\ Cardinality(Soon \ T) \in Nat /\ Cardinality((Soon \ T) \cup {x}) \in Nat
        /\ Least(r, room, j + 1, T) \in Nat
    BY <1>5, <1>6, <2>3
  <2>8. A + Cardinality(Now \ S) <= Least(r, room, j, S)
    BY <1>1, <2>1, <2>4, <2>5, <2>6, <2>7
  <2> QED
    BY <2>8 DEF A, j, Now
<1> QED
  BY <1>7, <1>8

\* What is missed from the start of a pass to its end, and from then on.
LEMMA BoundedPass ==
  ASSUME NEW r, NEW n, NEW p, Cyclic(r, n, p), NEW room \in Nat, NEW q \in 0..(p - 1),
         Bounded(r, n, p, room, q, n)
  PROVE  Bounded(r, n, p, room, q, 0)
<1> DEFINE S == {m \in 0..n : Bounded(r, n, p, room, q, n - m)}
<1>1. n \in Nat \ {0}
  BY DEF Cyclic
<1>2. 0 \in S
  <2>1. n - 0 = n
    BY <1>1
  <2> QED
    BY <1>1, <2>1
<1>3. ASSUME NEW m \in 0..(n - 1), m \in S PROVE m + 1 \in S
  <2>1. n - (m + 1) \in 0..(n - 1) /\ (n - (m + 1)) + 1 = n - m /\ m + 1 \in 0..n
    BY <1>1
  <2>2. Bounded(r, n, p, room, q, (n - (m + 1)) + 1)
    BY <1>3, <2>1
  <2>3. Bounded(r, n, p, room, q, n - (m + 1))
    BY <2>1, <2>2, BoundedBefore
  <2> QED
    BY <2>1, <2>3
<1> HIDE DEF S
<1>4. 0..n \subseteq S
  BY <1>1, <1>2, <1>3, IntervalInduction, Zenon
<1>5. n \in S /\ n - n = 0
  BY <1>1, <1>4
<1> QED
  BY <1>5 DEF S

\* Nothing is left at the end.
LEMMA BoundedLast ==
  ASSUME NEW r, NEW n, NEW p, Cyclic(r, n, p), NEW room \in Nat
  PROVE  Bounded(r, n, p, room, p - 1, n)
<1>1. n \in Nat \ {0} /\ p \in Nat \ {0} /\ p - 1 \in 0..(p - 1) /\ Len(r) = n * p
  BY DEF Cyclic
<1>2. /\ r \in References /\ Len(r) \in Nat /\ n * (p - 1) + n \in 0..Len(r)
      /\ Over(n, room) \in Nat
  <2>1. n \in 0..n
    BY <1>1
  <2> QED
    BY <1>1, <2>1, CyclicFacts
<1>3. n * (p - 1) + n = Len(r)
  BY <1>1
<1>4. (p - 1 - (p - 1)) * Over(n, room) = 0
  <2> DEFINE y == Over(n, room)
  <2>1. p - 1 - (p - 1) = 0 /\ y \in Nat
    BY <1>1, <1>2
  <2> HIDE DEF y
  <2>2. 0 * y = 0
    BY <2>1
  <2> QED
    BY <2>1, <2>2 DEF y
<1>5. Rest(r, n, n) = {}
  BY <1>1 DEF Rest
<1>6. Cardinality({}) = 0
  BY FS_EmptySet
<1> SUFFICES ASSUME NEW S \in SUBSET Chunks
             PROVE  (p - 1 - (p - 1)) * Over(n, room) + Cardinality(Rest(r, n, n) \ S)
                      <= Least(r, room, n * (p - 1) + n, S)
  BY DEF Bounded
<1>7. Least(r, room, Len(r), S) = 0
  <2>1. Len(r) \in 0..Len(r)
    BY <1>2
  <2> QED
    BY <1>2, <2>1, LeastIs
<1>8. Cardinality(Rest(r, n, n) \ S) = 0
  <2>1. Rest(r, n, n) \ S = {}
    BY <1>5
  <2> QED
    BY <1>6, <2>1
<1>9. Least(r, room, n * (p - 1) + n, S) = 0
  BY <1>3, <1>7
<1> DEFINE x == (p - 1 - (p - 1)) * Over(n, room)
           y == Cardinality(Rest(r, n, n) \ S)
           z == Least(r, room, n * (p - 1) + n, S)
<1>10. x = 0 /\ y = 0 /\ z = 0
  BY <1>4, <1>8, <1>9
<1> HIDE DEF x, y, z
<1>11. x + y <= z
  BY <1>10
<1> QED
  BY <1>11 DEF x, y, z

\* At the end of a pass, all of the next one is still to come.
LEMMA BoundedNext ==
  ASSUME NEW r, NEW n, NEW p, Cyclic(r, n, p), NEW room \in Nat, NEW q \in 0..(p - 2),
         Bounded(r, n, p, room, q + 1, 0)
  PROVE  Bounded(r, n, p, room, q, n)
<1>1. /\ n \in Nat \ {0} /\ p \in Nat \ {0} /\ q \in 0..(p - 1) /\ q + 1 \in 0..(p - 1) /\ q \in Nat
  BY DEF Cyclic
<1>2. n * (q + 1) + 0 = n * q + n
  BY <1>1
<1>3. /\ Over(n, room) \in Nat /\ (p - 1 - (q + 1)) * Over(n, room) \in Nat
      /\ Rest(r, n, 0) \in SUBSET Chunks
  <2>1. 0 \in 0..n
    BY <1>1
  <2> QED
    BY <1>1, <2>1, CyclicFacts
<1> DEFINE A == (p - 1 - (q + 1)) * Over(n, room)
           D == Over(n, room)
<1>4. (p - 1 - q) * D = A + D
  <2> DEFINE u == p - 1 - (q + 1)
  <2>1. u \in Nat /\ p - 1 - q = u + 1 /\ D \in Nat
    BY <1>1, <1>3
  <2> HIDE DEF u, D
  <2>2. (u + 1) * D = u * D + D
    BY <2>1
  <2> QED
    BY <2>1, <2>2 DEF u, D
<1>5. Rest(r, n, 0) = 0..(n - 1)
  BY DEF Rest, Cyclic
<1>6. Cardinality(Rest(r, n, 0)) = n
  <2>1. Cardinality(0..(n - 1)) = IF 0 > n - 1 THEN 0 ELSE (n - 1) - 0 + 1
    <3>1. 0 \in Int /\ n - 1 \in Int
      BY <1>1
    <3> QED
      BY <3>1, FS_Interval
  <2> QED
    BY <1>1, <1>5, <2>1
<1> SUFFICES ASSUME NEW S \in SUBSET Chunks, Cardinality(S) <= room
             PROVE  (p - 1 - q) * Over(n, room) + Cardinality(Rest(r, n, n) \ S) <= Least(r, room, n * q + n, S)
  BY DEF Bounded
<1>7. Rest(r, n, n) \ S = {} /\ Cardinality(Rest(r, n, n) \ S) = 0
  <2>1. Rest(r, n, n) \ S = {}
    BY <1>1 DEF Rest
  <2> QED
    BY <2>1, FS_EmptySet
<1> DEFINE All == Rest(r, n, 0)
           Out == All \ S
<1>8. Cardinality(Out) \in Nat /\ D <= Cardinality(Out)
  <2>1. /\ IsFiniteSet(S) /\ Cardinality(S) \in Nat /\ IsFiniteSet(Out) /\ Cardinality(Out) \in Nat
    <3>1. Out \in SUBSET Chunks
      BY <1>3
    <3> QED
      BY <3>1, CacheIsFinite
  <2>2. All \subseteq Out \cup S
    OBVIOUS
  <2>3. Cardinality(All) = n
    BY <1>6
  <2> HIDE DEF All, Out
  <2>4. IsFiniteSet(Out \cup S) /\ Cardinality(Out \cup S) = Cardinality(Out) + Cardinality(S) - Cardinality(Out \cap S)
    BY <2>1, FS_Union
  <2>5. Cardinality(Out \cap S) \in Nat /\ Cardinality(Out \cup S) \in Nat
    <3>1. IsFiniteSet(Out \cap S)
      BY <2>1, FS_Intersection
    <3> QED
      BY <2>4, <3>1, FS_CardinalityType
  <2>6. Cardinality(All) <= Cardinality(Out \cup S)
    BY <2>2, <2>4, FS_Subset
  <2>7. n <= Cardinality(Out) + Cardinality(S)
    BY <1>1, <2>1, <2>3, <2>4, <2>5, <2>6
  <2> QED
    BY <1>1, <2>1, <2>7 DEF Over
<1>9. A + Cardinality(Out) <= Least(r, room, n * (q + 1) + 0, S)
  BY DEF Bounded
<1>10. Least(r, room, n * q + n, S) \in Nat
  <2>1. n \in 0..n
    BY <1>1
  <2>2. n * q + n \in 0..Len(r) /\ r \in References
    BY <1>1, <2>1, CyclicFacts
  <2> QED
    BY <2>2, LeastIs
<1> HIDE DEF A, D, All, Out
<1>11. A \in Nat /\ D \in Nat
  BY <1>3 DEF A, D
<1>12. A + Cardinality(Out) <= Least(r, room, n * q + n, S)
  BY <1>2, <1>9
<1>13. A + D <= Least(r, room, n * q + n, S)
  BY <1>8, <1>10, <1>11, <1>12
<1>14. A + D + 0 <= Least(r, room, n * q + n, S)
  BY <1>11, <1>13
<1> QED
  BY <1>4, <1>7, <1>14 DEF D

\* No choice of victims is below the floor.
LEMMA FloorIsBound ==
  ASSUME NEW r, NEW n, NEW p, Cyclic(r, n, p), NEW room \in Nat
  PROVE  n + (p - 1) * Over(n, room) <= Least(r, room, 0, {})
<1>1. n \in Nat \ {0} /\ p \in Nat \ {0} /\ p - 1 \in Nat
  BY DEF Cyclic
<1> DEFINE S == {m \in 0..(p - 1) : Bounded(r, n, p, room, p - 1 - m, 0)}
<1>2. 0 \in S
  <2>1. p - 1 - 0 = p - 1 /\ p - 1 \in 0..(p - 1)
    BY <1>1
  <2>2. Bounded(r, n, p, room, p - 1, 0)
    BY <2>1, BoundedLast, BoundedPass
  <2> QED
    BY <1>1, <2>1, <2>2
<1>3. ASSUME NEW m \in 0..((p - 1) - 1), m \in S PROVE m + 1 \in S
  <2> DEFINE q == p - 1 - (m + 1)
  <2>1. q \in 0..(p - 2) /\ q \in 0..(p - 1) /\ q + 1 = p - 1 - m /\ m + 1 \in 0..(p - 1)
    BY <1>1
  <2>2. Bounded(r, n, p, room, p - 1 - m, 0)
    BY <1>3
  <2> HIDE DEF q
  <2>3. Bounded(r, n, p, room, q + 1, 0)
    BY <2>1, <2>2
  <2>4. Bounded(r, n, p, room, q, n)
    BY <2>1, <2>3, BoundedNext
  <2>5. Bounded(r, n, p, room, q, 0)
    BY <2>1, <2>4, BoundedPass
  <2> QED
    BY <2>1, <2>5 DEF q
<1> HIDE DEF S
<1>4. 0..(p - 1) \subseteq S
  BY <1>1, <1>2, <1>3, IntervalInduction, Zenon
<1>5. Bounded(r, n, p, room, 0, 0)
  <2>1. p - 1 \in S /\ p - 1 - (p - 1) = 0
    BY <1>1, <1>4
  <2> QED
    BY <2>1 DEF S
<1>6. (p - 1 - 0) * Over(n, room) + Cardinality(Rest(r, n, 0) \ {}) <= Least(r, room, n * 0 + 0, {})
  <2>1. Cardinality({}) <= room /\ {} \in SUBSET Chunks
    BY FS_EmptySet
  <2> QED
    BY <1>5, <2>1 DEF Bounded
<1>7. Rest(r, n, 0) \ {} = 0..(n - 1)
  BY DEF Rest, Cyclic
<1>8. Cardinality(0..(n - 1)) = n
  <2>1. Cardinality(0..(n - 1)) = IF 0 > n - 1 THEN 0 ELSE (n - 1) - 0 + 1
    <3>1. 0 \in Int /\ n - 1 \in Int
      BY <1>1
    <3> QED
      BY <3>1, FS_Interval
  <2> QED
    BY <1>1, <2>1
<1>9. n * 0 + 0 = 0 /\ p - 1 - 0 = p - 1
  BY <1>1
<1>10. (p - 1) * Over(n, room) \in Nat
  <2> DEFINE y == Over(n, room)
  <2>1. y \in Nat
    BY <1>1 DEF Over
  <2> HIDE DEF y
  <2> QED
    BY <1>1, <2>1 DEF y
<1> DEFINE B0 == (p - 1) * Over(n, room)
<1>11. B0 + n <= Least(r, room, 0, {})
  BY <1>6, <1>7, <1>8, <1>9
<1> QED
  <2>1. B0 \in Nat
    BY <1>10
  <2> HIDE DEF B0
  <2>2. n + B0 <= Least(r, room, 0, {})
    BY <1>1, <1>11, <2>1
  <2> QED
    BY <2>2 DEF B0


\* The reference string that detect_cyclic_scan takes for a cyclic scan is one.
LEMMA ScanIsCyclic ==
  ASSUME BeladyTyped, Len(file.ref) > 0, B!detect_cyclic_scan
  PROVE  Cyclic(file.ref, B!n_candidate, B!passes)
<1> DEFINE r == file.ref
           D == {r[j + 1] : j \in 0..(Len(r) - 1)}
           f == [k \in D |-> k]
           n == B!n_candidate
           p == B!passes
<1>1. r \in References /\ Len(r) \in Nat \ {0} /\ UINT64_MAX \in Nat
  BY TraceFacts
<1>2. D \in SUBSET Nat /\ D # {} /\ \A k \in D : f[k] \in 0..UINT64_MAX
  <2>1. 0 \in 0..(Len(r) - 1)
    BY <1>1
  <2>2. \A j \in 0..(Len(r) - 1) : r[j + 1] \in Chunks
    BY <1>1 DEF References
  <2>3. Chunks \subseteq 0..UINT64_MAX
    BY SolversAssumption
  <2> HIDE DEF r
  <2>4. D \subseteq 0..UINT64_MAX
    BY <2>2, <2>3
  <2>5. r[0 + 1] \in D
    BY <2>1
  <2>6. \A k \in D : f[k] = k
    OBVIOUS
  <2> HIDE DEF D, f
  <2> QED
    BY <1>1, <2>4, <2>5, <2>6
<1>3. PICK k \in D : \A m \in D : m <= k
  <2> DEFINE most == {k \in D : \A m \in D : f[m] <= f[k]}
  <2>1. Min(most) \in most
    <3> HIDE DEF D, f
    <3> QED
      BY <1>2, FirstOfMost
  <2> QED
    BY <2>1
<1>4. n = B!Max(D) + 1
  BY DEF B!n_candidate, B!ref, B!Positions, B!At
<1>5. B!Max(D) \in D
  <2> HIDE DEF D
  <2> QED
    BY <1>2, <1>3 DEF B!Max
<1>6. n \in Nat \ {0}
  <2>1. B!Max(D) \in Nat
    BY <1>2, <1>5
  <2> DEFINE m == B!Max(D)
  <2> HIDE DEF D, n, m
  <2>2. n = m + 1 /\ m \in Nat
    BY <1>4, <2>1 DEF m
  <2> QED
    BY <2>2
<1>7. /\ Len(r) % n = 0
      /\ \A j \in 0..(Len(r) - 1) : r[j + 1] = r[(j % n) + 1]
      /\ {r[j + 1] : j \in 0..(n - 1)} = 0..(n - 1)
      /\ p = Len(r) \div n
  BY Zenon DEF B!detect_cyclic_scan, B!passes, B!ref, B!Positions, B!At
<1> HIDE DEF n, p
<1>8. p \in Nat /\ Len(r) = n * p
  <2>1. p \in Nat /\ Len(r) = n * p + (Len(r) % n)
    BY <1>1, <1>6, <1>7, DivMod
  <2>2. n * p \in Nat
    BY <1>6, <2>1, Product
  <2> QED
    BY <1>7, <2>1, <2>2
<1>9. p # 0
  <2> SUFFICES ASSUME p = 0 PROVE FALSE
    OBVIOUS
  <2>1. n * 0 = 0
    BY <1>6
  <2> QED
    BY <1>1, <1>8, <2>1
<1> QED
  BY <1>1, <1>6, <1>7, <1>8, <1>9 DEF Cyclic, n, p

\* The floor that belady_main.c computes is not above the fewest misses.
LEMMA FloorHolds ==
  ASSUME BeladyTyped, Len(file.ref) > 0, B!detect_cyclic_scan
  PROVE  ~ Fewest0 < B!cyclic_floor(B!n_candidate, B!passes, capacity)
<1> DEFINE n == B!n_candidate
           p == B!passes
           floor == B!cyclic_floor(n, p, capacity)
<1>1. Cyclic(file.ref, n, p) /\ capacity \in Nat
  BY ScanIsCyclic, TraceFacts
<1>2. floor = n + (p - 1) * Over(n, capacity)
  BY DEF B!cyclic_floor, Over
<1>3. Fewest0 \in Nat
  BY LeastFacts
<1>4. n \in Nat \ {0} /\ p \in Nat \ {0}
  BY <1>1 DEF Cyclic
<1> HIDE DEF n, p
<1>5. floor <= Fewest0
  BY <1>1, <1>2, FloorIsBound DEF Fewest0
<1>6. floor \in Nat
  <2>1. Over(n, capacity) \in Nat /\ p - 1 \in Nat
    BY <1>1, <1>4 DEF Over
  <2>2. (p - 1) * Over(n, capacity) \in Nat
    <3> DEFINE x == p - 1
               y == Over(n, capacity)
    <3>1. x \in Nat /\ y \in Nat
      BY <2>1
    <3> HIDE DEF x, y
    <3>2. x * y \in Nat
      BY <3>1
    <3> QED
      BY <3>2 DEF x, y
  <2> QED
    BY <1>2, <1>4, <2>2
<1> HIDE DEF floor
<1>7. ~ Fewest0 < floor
  BY <1>3, <1>5, <1>6
<1> QED
  BY <1>7 DEF floor, n, p
-----------------------------------------------------------------------------
(* What belady.c reports. *)

\* The misses so far, and the fewest of the references that are left, are the fewest
\* of all.
BeladyOptimal ==
  /\ phase \in {"load", "refs", "check"} => misses + Least(file.ref, capacity, position, in_cache) = Fewest0
  /\ phase = "evict" => misses + Least(file.ref, capacity, position, in_cache) = Fewest0 + 1
  /\ phase = "insert" =>
       misses + Least(file.ref, capacity, position + 1,
                      IF Cardinality(in_cache) < capacity THEN in_cache \cup {Here} ELSE in_cache) = Fewest0
  /\ phase = "reported" => misses = Fewest0
  /\ phase # "aborted"

\* The entry on top is of the cached chunk that is used furthest in the future.
LEMMA TopIsFurthest ==
  ASSUME BeladyInv, phase = "evict", heap # <<>>
  PROVE  /\ heap[1][2] \in in_cache
         /\ \A m \in in_cache : NextUse(file.ref, position - 1, m) <= NextUse(file.ref, position - 1, heap[1][2])
<1>1. BeladyTyped /\ HeapInv
  BY DEF BeladyInv
<1>2. heap \in [1..Len(heap) -> Entries] /\ Len(heap) \in Nat
  BY <1>1, TraceFacts
<1>3. heap[1][2] \in in_cache /\ current_priority[heap[1][2]] = heap[1][1]
  BY TopIsLive DEF B!Live
<1>4. \A k \in in_cache : current_priority[k] = NextUse(file.ref, position - 1, k)
  BY <1>1 DEF HeapInv
<1>5. \A m \in 1..Len(heap) : heap[1][1] >= heap[m][1]
  BY <1>1, <1>2, TopIs DEF HeapInv
<1>6. ASSUME NEW k \in in_cache PROVE current_priority[k] <= heap[1][1]
  <2>1. PICK m \in 1..Len(heap) : heap[m] = <<current_priority[k], k>>
    BY <1>1 DEF HeapInv, Once
  <2>2. heap[1][1] >= heap[m][1] /\ heap[m][1] = current_priority[k]
    BY <1>5, <2>1
  <2>3. current_priority[k] \in Nat /\ heap[1][1] \in Nat
    BY <1>1, <1>3, TraceFacts DEF BeladyTyped
  <2> QED
    BY <2>2, <2>3
<1> QED
  BY <1>3, <1>4, <1>6

LEMMA BeladyOptimalInits ==
  ASSUME BeladyInv, phase = "load"
  PROVE  misses + Least(file.ref, capacity, position, in_cache) = Fewest0
<1>1. misses = 0 /\ position = 0 /\ in_cache = {} /\ BeladyTyped
  BY DEF BeladyInv, PhaseSound
<1> QED
  BY <1>1, LeastFacts DEF Fewest0

\* Each step of belady_simulate keeps the sum, as the top of the heap is the chunk used
\* furthest in the future.
LEMMA BeladyOptimalSteps ==
  ASSUME BeladyInv, BeladyOptimal, B!Next
  PROVE  BeladyOptimal'
<1>1. BeladyTyped /\ PhaseSound
  BY DEF BeladyInv
<1> DEFINE r == file.ref
<1>2. /\ r \in References /\ capacity \in Nat /\ Len(r) \in Nat /\ position \in Nat
      /\ in_cache \in SUBSET Chunks /\ misses \in Nat
      /\ Fewest0 \in Nat
      /\ Least(r, capacity, position, in_cache) \in Nat
      /\ position < Len(r) =>
              /\ position \in 0..(Len(r) - 1) /\ Here \in Chunks /\ Here = r[position + 1]
              /\ \A S \in SUBSET Chunks : Least(r, capacity, position + 1, S) \in Nat
  BY <1>1, LeastFacts
<1>3. IsFiniteSet(in_cache) /\ Cardinality(in_cache) \in Nat /\ Cardinality(in_cache) <= capacity
  BY <1>1, TraceFacts DEF BeladyTyped
<1>4. CASE B!LoadReferenceString
  <2>1. /\ phase = "load" /\ UNCHANGED <<file, capacity, position, in_cache, misses>>
        /\ phase' \in {"refused", "nothing", "refs"}
    BY <1>4 DEF B!LoadReferenceString, B!simVars
  <2> QED
    BY <2>1 DEF BeladyOptimal, Fewest0
<1>5. CASE B!Hit
  <2>1. /\ phase = "refs" /\ Here \in in_cache /\ position' = position + 1
        /\ phase' \in {"refs", "check"} /\ UNCHANGED <<file, capacity, in_cache, misses>>
    BY <1>5, SameNextUse DEF B!Hit, B!c, B!ref, Here, B!Advance
  <2>2. position < Len(r)
    BY <1>1, <2>1 DEF PhaseSound
  <2>3. Least(r, capacity, position, in_cache) = Least(r, capacity, position + 1, in_cache)
    BY <1>2, <2>1, <2>2, HitIs
  <2> QED
    BY <2>1, <2>3 DEF BeladyOptimal, Fewest0
<1>6. CASE B!Miss
  <2>1. /\ phase = "refs" /\ Here \notin in_cache /\ misses' = misses + 1
        /\ phase' = IF Cardinality(in_cache) = capacity THEN "evict" ELSE "insert"
        /\ UNCHANGED <<file, capacity, position, in_cache>>
    BY <1>6, SameNextUse, SameCardinality DEF B!Miss, B!c, B!ref, Here
  <2>2. position < Len(r) /\ misses + Least(r, capacity, position, in_cache) = Fewest0
    BY <1>1, <2>1 DEF PhaseSound, BeladyOptimal
  <2>3. CASE Cardinality(in_cache) = capacity
    BY <1>2, <2>1, <2>2, <2>3 DEF BeladyOptimal, Fewest0
  <2>4. CASE Cardinality(in_cache) # capacity
    <3>1. Cardinality(in_cache) < capacity
      BY <1>2, <1>3, <2>4
    <3>2. Least(r, capacity, position, in_cache) = 1 + Least(r, capacity, position + 1, in_cache \cup {Here})
      <4>1. position \in 0..(Len(r) - 1) /\ Here = r[position + 1] /\ r[position + 1] \notin in_cache
        BY <1>2, <2>1, <2>2
      <4> HIDE DEF r
      <4> QED
        BY <1>2, <3>1, <4>1, MissWithRoomIs
    <3>3. in_cache \cup {Here} \in SUBSET Chunks
      BY <1>2, <2>2
    <3>4. Least(r, capacity, position + 1, in_cache \cup {Here}) \in Nat
      BY <1>2, <2>2, <3>3
    <3>5. misses' + Least(r, capacity, position + 1, in_cache \cup {Here}) = Fewest0
      BY <1>2, <2>1, <2>2, <3>2, <3>4
    <3> QED
      BY <2>1, <2>4, <3>1, <3>5 DEF BeladyOptimal, Fewest0, Here
  <2> QED
    BY <2>3, <2>4
<1>7. CASE B!PopMax
  <2> DEFINE v == heap[1][2]
  <2>1. /\ phase = "evict" /\ heap # <<>> /\ in_cache' = in_cache \ {v} /\ phase' = "insert"
        /\ UNCHANGED <<file, capacity, position, misses>>
    BY <1>7, TopIsLive DEF B!PopMax
  <2>2. /\ position < Len(r) /\ Here \notin in_cache /\ Cardinality(in_cache) = capacity
        /\ misses + Least(r, capacity, position, in_cache) = Fewest0 + 1
    BY <1>1, <2>1 DEF PhaseSound, BeladyOptimal
  <2>3. v \in in_cache /\ \A m \in in_cache : NextUse(r, position - 1, m) <= NextUse(r, position - 1, v)
    BY <2>1, TopIsFurthest
  <2> HIDE DEF v
  <2>4. capacity # 0 /\ Cardinality(in_cache \ {v}) < capacity
    <3>1. Cardinality(in_cache) # 0
      BY <1>3, <2>3, FS_EmptySet
    <3>2. Cardinality(in_cache \ {v}) = Cardinality(in_cache) - 1
      BY <1>3, <2>3, FS_RemoveElement
    <3> QED
      BY <1>2, <2>2, <3>1, <3>2
  <2>5. Least(r, capacity, position, in_cache) = 1 + Least(r, capacity, position + 1, (in_cache \ {v}) \cup {Here})
    <3>1. capacity \in Nat \ {0}
      BY <1>2, <2>4
    <3>2. position \in 0..(Len(r) - 1) /\ Here = r[position + 1] /\ r[position + 1] \notin in_cache
      BY <1>2, <2>2
    <3> HIDE DEF r
    <3>3. Least(r, capacity, position, in_cache) = 1 + Least(r, capacity, position + 1, (in_cache \ {v}) \cup {r[position + 1]})
      <4>1. r \in References /\ in_cache \in SUBSET Chunks
        BY <1>2
      <4>2. Cardinality(in_cache) = capacity
        BY <2>2
      <4>3. Furthest(r, position, in_cache, v)
        BY <2>3 DEF Furthest
      <4> QED
        BY <3>1, <3>2, <4>1, <4>2, <4>3, FurthestIsBest
    <3> QED
      BY <3>2, <3>3
  <2>6. Least(r, capacity, position + 1, (in_cache \ {v}) \cup {Here}) \in Nat
    <3>1. (in_cache \ {v}) \cup {Here} \in SUBSET Chunks
      BY <1>2, <2>2
    <3> QED
      BY <1>2, <2>2, <3>1
  <2>7. misses + Least(r, capacity, position + 1, (in_cache \ {v}) \cup {Here}) = Fewest0
    BY <1>2, <2>2, <2>5, <2>6
  <2> QED
    BY <2>1, <2>4, <2>7 DEF BeladyOptimal, Fewest0, Here
<1>8. CASE B!HeapEmpty
  <2>1. /\ phase = "evict" /\ heap = <<>> /\ phase' = "insert"
        /\ UNCHANGED <<file, capacity, position, in_cache, misses>>
    BY <1>8 DEF B!HeapEmpty, B!simVars
  <2>2. /\ position < Len(r) /\ Cardinality(in_cache) = capacity
        /\ misses + Least(r, capacity, position, in_cache) = Fewest0 + 1
    BY <1>1, <2>1 DEF PhaseSound, BeladyOptimal
  <2>3. in_cache = {} /\ capacity = 0
    <3>1. in_cache = {}
      BY <2>1 DEF BeladyInv, HeapInv, Once
    <3> QED
      BY <2>2, <3>1, FS_EmptySet
  <2>4. Least(r, capacity, position, in_cache) = 1 + Least(r, capacity, position + 1, in_cache)
    BY <1>2, <2>2, <2>3, MissWithoutCacheIs
  <2>5. Least(r, capacity, position + 1, in_cache) \in Nat
    BY <1>2, <2>2
  <2>6. misses + Least(r, capacity, position + 1, in_cache) = Fewest0
    BY <1>2, <2>2, <2>4, <2>5
  <2>7. ~ Cardinality(in_cache) < capacity
    BY <1>2, <2>2
  <2> QED
    BY <2>1, <2>6, <2>7 DEF BeladyOptimal, Fewest0, Here
<1>9. CASE B!Insert
  <2>1. /\ phase = "insert" /\ position' = position + 1 /\ phase' \in {"refs", "check"}
        /\ UNCHANGED <<file, capacity, misses>>
        /\ in_cache' = IF Cardinality(in_cache) < capacity THEN in_cache \cup {Here} ELSE in_cache
    BY <1>9, SameNextUse, SameCardinality DEF B!Insert, B!HasRoom, B!Advance, B!c, B!ref, Here
  <2> QED
    BY <2>1 DEF BeladyOptimal, Fewest0
<1>10. CASE B!CheckCyclicFloor
  <2>1. /\ phase = "check" /\ phase' \in {"aborted", "reported"}
        /\ UNCHANGED <<file, capacity, position, in_cache, misses>>
    BY <1>10 DEF B!CheckCyclicFloor, B!simVars
  <2>2. position = Len(r) /\ Len(r) > 0 /\ misses + Least(r, capacity, position, in_cache) = Fewest0
    BY <1>1, <2>1 DEF PhaseSound, BeladyOptimal
  <2>3. Least(r, capacity, position, in_cache) = 0
    <3>1. position \in 0..Len(r)
      BY <1>2, <2>2
    <3> QED
      BY <1>2, <2>2, <3>1, LeastIs
  <2>4. misses = Fewest0
    BY <1>2, <2>2, <2>3
  <2>5. phase' # "aborted"
    <3>1. B!detect_cyclic_scan => ~ misses < B!cyclic_floor(B!n_candidate, B!passes, capacity)
      BY <1>1, <2>2, <2>4, FloorHolds
    <3> QED
      BY <1>10, <3>1 DEF B!CheckCyclicFloor
  <2> QED
    BY <2>1, <2>4, <2>5 DEF BeladyOptimal, Fewest0
<1> QED
  BY <1>4, <1>5, <1>6, <1>7, <1>8, <1>9, <1>10 DEF B!Next


\* From a state without a cache no misses are counted yet.
LEMMA BeladyStartsOptimal ==
  ASSUME BeladyInv, phase = "load"
  PROVE  BeladyOptimal
BY BeladyOptimalInits DEF BeladyOptimal

LEMMA BeladyOptimalStays ==
  ASSUME BeladyOptimal, UNCHANGED <<phase, position, misses, beladyVars>>
  PROVE  BeladyOptimal'
BY DEF BeladyOptimal, beladyVars, Fewest0, Here

\* At the end nothing is left to miss.
LEMMA BeladyIsOptimal ==
  ASSUME BeladyInv, BeladyOptimal
  PROVE  B!MissesAreMinimal
<1>1. BeladyTyped /\ file.ref \in References
  BY TraceFacts DEF BeladyInv
<1>2. B!MinMisses(B!ref, capacity) = Fewest0
  BY <1>1, SameFewest, MinMissesIs DEF B!ref, Fewest0
<1>3. phase = "check" /\ capacity > 0 => B!naive_belady = Fewest0
  BY <1>1, NaiveIsOptimal
<1> QED
  BY <1>2, <1>3 DEF BeladyOptimal, B!MissesAreMinimal


-----------------------------------------------------------------------------
(* What wp2_opt.c reports for chunks of one length. *)

ByteHere   == W!ref[position + 1]
EqualSizes == DOMAIN input.len # {} /\ \A k \in DOMAIN input.len : input.len[k] = input.len[0]
Room       == input.budget \div input.len[0]
FewestOfPasses == Least(W!ref, Room, 0, {})

\* As for belady.c; the cache is full when no chunk more fits in the budget.
ByteOptimal ==
  /\ phase \in {"read", "refs", "check"} => misses + Least(W!ref, Room, position, resident) = FewestOfPasses
  /\ phase = "evict" =>
       IF Cardinality(resident) < Room
       THEN misses + Least(W!ref, Room, position + 1, resident \cup {ByteHere}) = FewestOfPasses
       ELSE misses + Least(W!ref, Room, position, resident) = FewestOfPasses + 1
  /\ phase \in {"failed", "reported"} => misses = FewestOfPasses

\* Chunks of one length have as many bytes as that length times their number.
LEMMA EqualBytes ==
  ASSUME NEW S, IsFiniteSet(S), NEW f, NEW n \in Nat, \A k \in S : f[k] = n
  PROVE  ByteCount(f, S) = n * Cardinality(S) /\ Cardinality(S) \in Nat
<1>1. BytesIn(f, S) = S \X (1..n)
  BY DEF BytesIn
<1>2. IsFiniteSet(1..n) /\ Cardinality(1..n) = n
  BY FS_Interval
<1>3. Cardinality(S \X (1..n)) = Cardinality(S) * Cardinality(1..n)
  BY <1>2, FS_Product
<1>4. Cardinality(S) \in Nat
  BY FS_CardinalityType
<1> QED
  BY <1>1, <1>2, <1>3, <1>4 DEF ByteCount

\* How many of them fit.
LEMMA CountFits ==
  ASSUME NEW a \in Nat, NEW n \in Nat \ {0}, NEW m \in Nat
  PROVE  /\ a \div n \in Nat
         /\ n * m <= a <=> m <= a \div n
         /\ n * m + n <= a <=> m < a \div n
<1> DEFINE q == a \div n
<1>1. q \in Nat /\ n * q <= a /\ a < n * q + n
  BY Quotient
<1> HIDE DEF q
<1>2. n \in Nat /\ n * m \in Nat /\ n * q \in Nat
  BY <1>1, Product
<1>3. ASSUME NEW x \in Nat, x <= q PROVE n * x <= a
  <2>1. n * x <= n * q /\ n * x \in Nat
    BY <1>1, <1>2, <1>3, Product
  <2> QED
    BY <1>1, <1>2, <2>1
<1>4. ASSUME NEW x \in Nat, n * x <= a PROVE x <= q
  <2> SUFFICES ASSUME q + 1 <= x PROVE FALSE
    BY <1>1
  <2>1. q + 1 \in Nat
    BY <1>1
  <2>2. n * (q + 1) <= n * x /\ n * x \in Nat
    BY <1>2, <2>1, Product
  <2>3. n * (q + 1) = n * q + n
    BY <1>1, <1>2
  <2>4. n * q + n <= a
    BY <1>2, <1>4, <2>2, <2>3
  <2> QED
    BY <1>1, <1>2, <2>4
<1>5. n * (m + 1) = n * m + n /\ m + 1 \in Nat
  OBVIOUS
<1>6. n * m + n <= a <=> m + 1 <= q
  BY <1>3, <1>4, <1>5
<1>7. m + 1 <= q <=> m < q
  BY <1>1
<1>8. n * m <= a <=> m <= q
  BY <1>3, <1>4
<1> QED
  BY <1>1, <1>6, <1>7, <1>8 DEF q

\* With chunks of one length, the budget has room for a number of them.
LEMMA RoomFacts ==
  ASSUME ByteInv, EqualSizes
  PROVE  /\ W!ref \in References /\ Len(W!ref) \in Nat /\ Room \in Nat
         /\ position \in 0..Len(W!ref) /\ misses \in Nat /\ resident \in SUBSET Chunks
         /\ Cardinality(resident) \in Nat /\ Cardinality(resident) <= Room
         /\ position < Len(W!ref) =>
              /\ position \in 0..(Len(W!ref) - 1) /\ ByteHere \in Chunks
              /\ input.len[ByteHere] <= input.budget <=> 0 < Room
              /\ resident_bytes + input.len[ByteHere] <= input.budget <=> Cardinality(resident) < Room
<1>1. ByteTyped /\ ByteCache
  BY DEF ByteInv
<1> DEFINE n == input.len[0]
           m == Cardinality(resident)
<1>2. /\ W!ref \in References /\ Len(W!ref) \in Nat /\ position \in 0..Len(W!ref) /\ misses \in Nat
      /\ resident \in SUBSET Chunks /\ resident \in SUBSET DOMAIN input.len /\ IsFiniteSet(resident)
      /\ input.budget \in Nat /\ \A k \in DOMAIN input.len : input.len[k] \in Nat \ {0} /\ input.len[k] = n
  BY <1>1, InputFacts, ByteFacts DEF ByteTyped, EqualSizes
<1>3. n \in Nat \ {0}
  BY <1>2 DEF EqualSizes
<1>4. resident_bytes = n * m /\ m \in Nat
  <2>1. \A k \in resident : input.len[k] = n
    BY <1>2
  <2>2. ByteCount(input.len, resident) = n * m /\ m \in Nat
    <3> HIDE DEF n
    <3> QED
      BY <1>2, <1>3, <2>1, EqualBytes
  <2> QED
    BY <1>1, <2>2 DEF ByteCache
<1>5. /\ Room \in Nat
      /\ n * m <= input.budget <=> m <= Room
      /\ n * m + n <= input.budget <=> m < Room
      /\ n * 0 + n <= input.budget <=> 0 < Room
  <2> DEFINE b == input.budget
  <2>1. Room = b \div n
    BY DEF Room
  <2> HIDE DEF n, m, b
  <2>2. b \in Nat
    BY <1>2 DEF b
  <2> QED
    BY <1>3, <1>4, <2>1, <2>2, CountFits DEF b
<1>6. n * 0 + n = n
  BY <1>3
<1>7. m <= Room
  <2>1. n * m <= input.budget
    BY <1>1, <1>4 DEF ByteCache
  <2> QED
    BY <1>5, <2>1
<1>8. ASSUME position < Len(W!ref)
      PROVE  /\ position \in 0..(Len(W!ref) - 1) /\ ByteHere \in Chunks
             /\ input.len[ByteHere] = n
  <2>1. ByteHere \in DOMAIN input.len /\ ByteHere \in Chunks
    BY <1>1, <1>8, ByteFacts DEF ByteHere
  <2> QED
    BY <1>2, <1>8, <2>1
<1> QED
  BY <1>2, <1>4, <1>5, <1>6, <1>7, <1>8


LEMMA ByteStartsOptimal ==
  ASSUME ByteInv, phase = "read", EqualSizes
  PROVE  ByteOptimal
<1>1. misses = 0 /\ position = 0 /\ resident = {}
  BY DEF ByteInv, BytePhase
<1>2. FewestOfPasses \in Nat
  <2>1. 0 \in 0..Len(W!ref) /\ {} \in SUBSET Chunks
    BY RoomFacts
  <2> QED
    BY <2>1, RoomFacts, LeastIs DEF FewestOfPasses
<1> QED
  BY <1>1, <1>2 DEF ByteOptimal, FewestOfPasses

\* Each step of wp2_opt keeps the sum, as the victim in its table is the chunk used
\* furthest in the future.
LEMMA ByteOptimalSteps ==
  ASSUME ByteInv, EqualSizes, ByteOptimal, W!Next
  PROVE  ByteOptimal'
<1> DEFINE r == W!ref
           x == ByteHere
           All == FewestOfPasses
           Left(p, S) == Least(r, Room, p, S)
<1>1. /\ r \in References /\ Len(r) \in Nat /\ Room \in Nat
      /\ position \in 0..Len(r) /\ misses \in Nat /\ resident \in SUBSET Chunks
      /\ Cardinality(resident) \in Nat /\ Cardinality(resident) <= Room
      /\ position < Len(r) =>
           /\ position \in 0..(Len(r) - 1) /\ x \in Chunks
           /\ input.len[x] <= input.budget <=> 0 < Room
           /\ resident_bytes + input.len[x] <= input.budget <=> Cardinality(resident) < Room
  BY RoomFacts
<1>2. ByteTyped /\ BytePhase /\ ByteCache /\ IsFiniteSet(resident)
  BY ByteFacts DEF ByteInv
<1>3. /\ All \in Nat /\ \A S \in SUBSET Chunks : Left(position, S) \in Nat
      /\ position < Len(r) => \A S \in SUBSET Chunks : Left(position + 1, S) \in Nat
  <2>1. 0 \in 0..Len(r) /\ {} \in SUBSET Chunks /\ (position < Len(r) => position + 1 \in 0..Len(r))
    BY <1>1
  <2> HIDE DEF r
  <2>2. Least(r, Room, 0, {}) \in Nat /\ \A S \in SUBSET Chunks : Left(position, S) \in Nat
    BY <1>1, <2>1, LeastIs
  <2>3. ASSUME position < Len(r), NEW S \in SUBSET Chunks PROVE Left(position + 1, S) \in Nat
    BY <1>1, <2>1, <2>3, LeastIs
  <2> QED
    BY <2>2, <2>3 DEF FewestOfPasses, r
<1>4. UNCHANGED input => r' = r /\ Room' = Room /\ All' = All
  BY DEF W!ref, Room, FewestOfPasses
<1>5. x = r[position + 1]
  BY DEF ByteHere
<1>6. CASE W!ReadInputs
  <2>1. /\ phase = "read" /\ phase' \in {"nothing", "refs"} /\ UNCHANGED <<input, position, resident, misses>>
    BY <1>6 DEF W!ReadInputs, W!simVars
  <2> QED
    BY <1>4, <2>1 DEF ByteOptimal
<1>7. CASE W!Hit
  <2>1. /\ phase = "refs" /\ x \in resident /\ position' = position + 1 /\ phase' \in {"refs", "check"}
        /\ UNCHANGED <<input, resident, misses>>
    BY <1>7, SameNextUse DEF W!Hit, W!Advance, W!c, ByteHere
  <2>2. position < Len(r) /\ misses + Left(position, resident) = All
    BY <1>2, <2>1 DEF BytePhase, ByteOptimal
  <2>3. Left(position, resident) = Left(position + 1, resident)
    <3> HIDE DEF r
    <3> QED
      BY <1>1, <1>5, <2>1, <2>2, HitIs
  <2> QED
    BY <1>4, <2>1, <2>2, <2>3 DEF ByteOptimal
<1>8. CASE W!Miss
  <2>1. /\ phase = "refs" /\ x \notin resident /\ misses' = misses + 1
        /\ IF input.len[x] > input.budget THEN position' = position + 1 /\ phase' \in {"refs", "check"}
                                          ELSE phase' = "evict" /\ position' = position
        /\ UNCHANGED <<input, resident>>
    BY <1>8, SameNextUse DEF W!Miss, W!Advance, W!c, W!len, W!budget, ByteHere
  <2>2. position < Len(r) /\ misses + Left(position, resident) = All
    BY <1>2, <2>1 DEF BytePhase, ByteOptimal
  <2>3. input.len[x] \in Nat /\ input.budget \in Nat
    BY <1>2, <2>2, InputFacts, ByteFacts DEF ByteTyped, ByteHere
  <2>4. CASE input.len[x] > input.budget
    <3>1. Room = 0 /\ resident = {}
      <4>1. Room = 0
        BY <1>1, <2>2, <2>3, <2>4
      <4>2. Cardinality(resident) = 0
        BY <1>1, <4>1
      <4> QED
        BY <1>2, <4>1, <4>2, FS_EmptySet
    <3>2. Left(position, resident) = 1 + Left(position + 1, resident)
      <4> HIDE DEF r
      <4> QED
        BY <1>1, <2>2, <3>1, MissWithoutCacheIs
    <3>3. misses' + Left(position + 1, resident) = All
      BY <1>1, <1>3, <2>1, <2>2, <3>2
    <3> QED
      BY <1>4, <2>1, <2>4, <3>3 DEF ByteOptimal
  <2>5. CASE ~ input.len[x] > input.budget
    <3>1. phase' = "evict" /\ position' = position
      BY <2>1, <2>5
    <3>2. ByteHere' = x
      BY <1>4, <2>1, <3>1 DEF ByteHere
    <3>3. CASE Cardinality(resident) < Room
      <4>1. Left(position, resident) = 1 + Left(position + 1, resident \cup {x})
        <5> HIDE DEF r
        <5> QED
          BY <1>1, <1>5, <2>1, <2>2, <3>3, MissWithRoomIs
      <4>2. resident \cup {x} \in SUBSET Chunks
        BY <1>1, <2>2
      <4>3. misses' + Left(position + 1, resident \cup {x}) = All
        BY <1>1, <1>3, <2>1, <2>2, <4>1, <4>2
      <4> QED
        BY <1>4, <2>1, <3>1, <3>2, <3>3, <4>3 DEF ByteOptimal
    <3>4. CASE ~ Cardinality(resident) < Room
      <4>1. misses' + Left(position, resident) = All + 1
        BY <1>1, <1>3, <2>1, <2>2
      <4> QED
        BY <1>4, <2>1, <3>1, <3>2, <3>4, <4>1 DEF ByteOptimal
    <3> QED
      BY <3>3, <3>4
  <2> QED
    BY <2>4, <2>5
<1>9. CASE W!Evict
  <2> DEFINE v == W!Victim
  <2>1. /\ phase = "evict" /\ phase' = "evict" /\ resident # {} /\ resident' = resident \ {v}
        /\ ~ resident_bytes + input.len[x] <= input.budget
        /\ UNCHANGED <<input, position, misses>>
    BY <1>9, SameNextUse DEF W!Evict, W!MustEvict, W!Fits, W!c, W!len, W!budget, ByteHere
  <2>2. position < Len(r) /\ x \notin resident
    BY <1>2, <2>1 DEF BytePhase, ByteHere
  <2>3. ~ Cardinality(resident) < Room /\ Cardinality(resident) = Room
    BY <1>1, <2>1, <2>2
  <2>4. misses + Left(position, resident) = All + 1
    BY <2>1, <2>3 DEF ByteOptimal
  <2>5. v \in resident /\ Furthest(r, position, resident, v)
    BY <1>2, <2>1, VictimIs DEF ByteCache, Furthest
  <2> HIDE DEF v
  <2>6. /\ Room \in Nat \ {0} /\ Cardinality(resident \ {v}) < Room
    <3>1. Cardinality(resident) # 0
      BY <1>2, <2>5, FS_EmptySet
    <3>2. Cardinality(resident \ {v}) = Cardinality(resident) - 1
      BY <1>2, <2>5, FS_RemoveElement
    <3> QED
      BY <1>1, <2>3, <3>1, <3>2
  <2>7. Left(position, resident) = 1 + Left(position + 1, (resident \ {v}) \cup {x})
    <3> HIDE DEF r
    <3> QED
      BY <1>1, <1>5, <2>2, <2>3, <2>5, <2>6, FurthestIsBest
  <2>8. (resident \ {v}) \cup {x} \in SUBSET Chunks
    BY <1>1, <2>2
  <2>9. misses + Left(position + 1, (resident \ {v}) \cup {x}) = All
    BY <1>1, <1>3, <2>2, <2>4, <2>7, <2>8
  <2>10. ByteHere' = x
    BY <1>4, <2>1 DEF ByteHere
  <2> QED
    BY <1>4, <2>1, <2>6, <2>9, <2>10 DEF ByteOptimal
<1>10. CASE W!Insert
  <2>1. /\ phase = "evict" /\ phase' \in {"refs", "check"} /\ position' = position + 1
        /\ resident' = resident \cup {x} /\ UNCHANGED <<input, misses>>
        /\ resident_bytes + input.len[x] <= input.budget \/ resident = {}
    BY <1>10, SameNextUse DEF W!Insert, W!MustEvict, W!Fits, W!Advance, W!c, W!len, W!budget, ByteHere
  <2>2. position < Len(r) /\ input.len[x] <= input.budget
    BY <1>2, <2>1 DEF BytePhase, ByteHere
  <2>3. Cardinality(resident) < Room
    BY <1>1, <2>1, <2>2, FS_EmptySet
  <2>4. misses + Left(position + 1, resident \cup {x}) = All
    BY <2>1, <2>3 DEF ByteOptimal
  <2> QED
    BY <1>4, <2>1, <2>4 DEF ByteOptimal
<1>11. CASE W!Check
  <2>1. /\ phase = "check" /\ phase' \in {"failed", "reported"} /\ UNCHANGED <<input, position, resident, misses>>
    BY <1>11 DEF W!Check, W!simVars
  <2>2. position = Len(r) /\ misses + Left(position, resident) = All
    BY <1>2, <2>1 DEF BytePhase, ByteOptimal
  <2>3. Left(position, resident) = 0
    <3> HIDE DEF r
    <3> QED
      BY <1>1, <2>2, LeastIs
  <2>4. misses = All
    BY <1>1, <1>3, <2>2, <2>3
  <2> QED
    BY <1>4, <2>1, <2>4 DEF ByteOptimal
<1> QED
  BY <1>6, <1>7, <1>8, <1>9, <1>10, <1>11 DEF W!Next

LEMMA ByteOptimalStays ==
  ASSUME ByteOptimal, UNCHANGED <<phase, position, misses, wp2Vars>>
  PROVE  ByteOptimal'
<1>1. W!ref' = W!ref
  BY DEF W!ref, wp2Vars
<1> QED
  BY <1>1 DEF ByteOptimal, wp2Vars, FewestOfPasses, ByteHere, Room

\* At the end nothing is left to miss, and the table is not empty.
LEMMA ByteIsOptimal ==
  ASSUME ByteInv, EqualSizes => ByteOptimal
  PROVE  W!EqualSizesAreMinimal
<1> SUFFICES ASSUME phase \in {"reported", "failed"}, \A k \in DOMAIN input.len : input.len[k] = input.len[0]
             PROVE  misses = W!MinMisses(W!ref, input.budget \div input.len[0])
  BY DEF W!EqualSizesAreMinimal, W!Table, W!len, W!budget
<1>1. ByteTyped /\ Len(W!ref) > 0 /\ W!ref \in References
  BY InputFacts DEF ByteInv, ByteTyped, BytePhase
<1>2. W!ref[1] \in DOMAIN input.len
  <2>1. 1 \in 1..Len(W!ref)
    BY <1>1, InputFacts DEF ByteTyped
  <2> QED
    BY <1>1, <2>1, InputFacts DEF ByteTyped
<1>3. EqualSizes
  BY <1>2 DEF EqualSizes
<1>4. misses = FewestOfPasses
  BY <1>3 DEF ByteOptimal
<1> QED
  BY <1>1, <1>4, SameFewest, MinMissesIs DEF FewestOfPasses, Room

-----------------------------------------------------------------------------
(* What either solver reports. *)

OptimalInv ==
  \/ tool = "belady" /\ BeladyInv /\ BeladyOptimal
  \/ tool = "wp2_opt" /\ ByteInv /\ (EqualSizes => ByteOptimal)

LEMMA OptimalInductive ==
  /\ SolversInit => OptimalInv
  /\ OptimalInv /\ [SolversNext]_solversVars => OptimalInv'
<1>1. ASSUME SolversInit PROVE OptimalInv
  <2>1. CASE tool = "belady" /\ B!Init
    BY <2>1, BeladyInits, BeladyStartsOptimal DEF B!Init, OptimalInv
  <2>2. CASE tool = "wp2_opt" /\ W!Init
    BY <2>2, ByteInits, ByteStartsOptimal DEF W!Init, OptimalInv
  <2> QED
    BY <1>1, <2>1, <2>2 DEF SolversInit
<1>2. ASSUME OptimalInv, SolversNext PROVE OptimalInv'
  <2>1. CASE tool = "belady" /\ B!Next /\ UNCHANGED <<tool, wp2Vars>>
    BY <1>2, <2>1, BeladySteps, BeladyOptimalSteps DEF OptimalInv
  <2>2. CASE tool = "wp2_opt" /\ W!Next /\ UNCHANGED <<tool, beladyVars>>
    <3>1. UNCHANGED input
      BY <2>2 DEF W!Next, W!ReadInputs, W!Hit, W!Miss, W!Evict, W!Insert, W!Check
    <3>2. EqualSizes' => EqualSizes
      BY <3>1 DEF EqualSizes
    <3> QED
      BY <1>2, <2>2, <3>2, ByteSteps, ByteOptimalSteps DEF OptimalInv
  <2> QED
    BY <1>2, <2>1, <2>2 DEF SolversNext
<1>3. ASSUME OptimalInv, UNCHANGED solversVars PROVE OptimalInv'
  <2>1. EqualSizes' => EqualSizes
    BY <1>3 DEF EqualSizes, solversVars, wp2Vars
  <2> QED
    BY <1>3, <2>1, BeladyStays, ByteStays, BeladyOptimalStays, ByteOptimalStays DEF OptimalInv, solversVars
<1> QED
  BY <1>1, <1>2, <1>3

\* The furthest-used victim is the right one: for every reference string and capacity,
\* what belady.c reports is the fewest misses that any choice of victims has, the naive
\* solver of the self-test agrees, and the floor of a cyclic scan refuses no result; and
\* what wp2_opt.c reports for chunks of one length is the fewest as well
\* (belady.c:87-133, belady_main.c:65-193, wp2_opt.c:8-9, :69-127).
THEOREM ResultIsOptimal == SolversSpec => []ResultIsMinimal
<1>1. SolversInit => OptimalInv
  BY OptimalInductive
<1>2. OptimalInv /\ [SolversNext]_solversVars => OptimalInv'
  BY OptimalInductive
<1>3. OptimalInv => ResultIsMinimal
  BY BeladyIsOptimal, ByteIsOptimal DEF OptimalInv, ResultIsMinimal
<1> QED
  BY <1>1, <1>2, <1>3, PTL DEF SolversSpec

=============================================================================

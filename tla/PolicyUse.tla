----------------------------- MODULE PolicyUse ------------------------------
(***************************************************************************)
(* A policy in use, next to the history that it is meant to summarise: the *)
(* faults that were really handled, and how far an application that keeps  *)
(* to its declared sequence has really come.                               *)
(***************************************************************************)
EXTENDS Policies

CONSTANTS
  Sequences,       \* the sequences that may be declared
  MaxFaults,       \* bound on the faults of a run
  MaxPasses        \* bound on the passes over a declared sequence

ASSUME SequencesAssumption == Sequences \subseteq Seq(Chunks)

VARIABLES
  faults,          \* every fault handled, in order
  consumed         \* references consumed since the declaration

history == <<faults, consumed>>
vars    == <<policyVars, history>>

Init ==
  /\ PolicyInit
  /\ faults = <<>>
  /\ consumed = 0

\* handle_absent and its asynchronous twin stamp the chunk and tell the policy.
Fault(c) ==
  /\ opt.policy # "declared"
  /\ Len(faults) < MaxFaults
  /\ last_fault_seq' = [last_fault_seq EXCEPT ![c] = Len(faults) + 1]
  /\ faults' = Append(faults, c)
  /\ OnFault(c)
  /\ UNCHANGED <<opt, seq, pos, consumed>>

Declare(sequence) ==
  /\ DeclareSequence(sequence)
  /\ consumed' = 0
  /\ UNCHANGED <<opt, last_fault_seq, last_fetched, successor, faults>>

NoRepeats == \A i, j \in DOMAIN seq : seq[i] = seq[j] => i = j

\* The application signals its next reference, or leaves one out: on_access
\* searches forward, which recovers the place if no chunk repeats.
Consume(skipped) ==
  /\ seq # <<>>
  /\ skipped > 0 => NoRepeats
  /\ consumed + skipped < MaxPasses * Len(seq)
  /\ OnAccess(At(consumed + skipped))
  /\ consumed' = consumed + skipped + 1
  /\ UNCHANGED <<opt, last_fault_seq, last_fetched, successor, seq, faults>>

Next ==
  \/ \E c \in Chunks : Fault(c)
  \/ \E s \in Sequences : opt.policy = "declared" /\ Declare(s)
  \/ \E skipped \in 0..1 : Consume(skipped)

Spec == Init /\ [][Next]_vars

-----------------------------------------------------------------------------
Candidates == (SUBSET Chunks) \ {{}}

FaultsOf(c) == {i \in DOMAIN faults : faults[i] = c}
LastFault(c) == Max(FaultsOf(c) \cup {0})

\* lru gives up the chunk whose last fault is the oldest; one that never
\* faulted goes first.
LruVictimIsOldest ==
  opt.policy = "lru" =>
    \A C \in Candidates : \A c \in C :
      LastFault(SelectVictim(C)) <= LastFault(c)

\* The last n_chunks faults were one pass of a cyclic scan of all the chunks.
Scan(k) == faults[Len(faults) - n_chunks + k]
Scanning ==
  /\ Len(faults) > n_chunks
  /\ {Scan(k) : k \in 1..n_chunks} = Chunks
  /\ Scan(0) = Scan(n_chunks)
StepsTo(c) == CHOOSE k \in 1..n_chunks : Scan(k) = c

\* One pass of a cyclic scan after any prelude teaches the learned policy to
\* give up the chunk that the scan needs last, out of any candidates.
LearnedVictimIsOptimalOnScan ==
  opt.policy = "learned" /\ Scanning =>
    \A C \in Candidates : \A c \in C : StepsTo(c) <= StepsTo(SelectVictim(C))

\* What the policies that live on faults have learned from any mix of them ranks
\* the chunks as they mean to (policy.c lru_select_victim, lo_learned_on_fault,
\* lo_learned_compute_dist, lo_learned_select_victim).
FaultsRankVictims == PolicyTypeOK /\ LruVictimIsOldest /\ LearnedVictimIsOptimalOnScan

-----------------------------------------------------------------------------
\* The reference the application is at.
Now == Max({consumed - 1, 0})
NextUse(x) ==
  LET first == IF opt.pre THEN 0 ELSE 1
      uses  == {d \in first..(first + Len(seq) - 1) : At(Now + d) = x} IN
  IF uses = {} THEN INT64_MAX ELSE Min(uses)

Declared == opt.policy = "declared" /\ seq # <<>>

\* With a signal in step with the reads, the declared policy gives up the chunk
\* that the application really needs last, whatever the sequence repeats or
\* leaves out; under --protect-current, never the one in use while there is
\* another (policy.c lo_declared_dist, lo_declared_select_victim).  Before the
\* first signal of a post-consumption run this fails: policy.c:241 takes no
\* position yet for position 0, so the chunk to be read first ranks furthest.
DeclaredVictimIsFurthest ==
  Declared /\ (consumed > 0 \/ opt.pre) =>
    \A C \in Candidates :
      LET v    == SelectVictim(C)
          kept == IF opt.protect THEN {At(Now), At(Max({Now - 1, 0}))} ELSE {} IN
      /\ \A c \in C \ kept : NextUse(c) <= NextUse(v)
      /\ opt.protect /\ v = At(Now) => C \subseteq kept

\* The faults on a chunk that another fault followed.
Followed(c) == FaultsOf(c) \ {Len(faults)}

\* The successor table remembers what followed the latest fault on a chunk that
\* had a follower, through any mix of faults.
LearnedFollowsLastFault ==
  opt.policy = "learned" =>
    \A c \in Chunks :
      PredictNext(c) = IF Followed(c) = {} THEN NoChunk ELSE faults[Max(Followed(c)) + 1]

\* What is predicted after a chunk is what the application will consume after
\* that chunk's last use of the pass, so that a chunk used once is followed by
\* its true successor.
DeclaredPredictsSuccessor ==
  Declared =>
    \A i \in 0..(Len(seq) - 1) :
      (\A j \in (i + 1)..(Len(seq) - 1) : At(j) # At(i)) => PredictNext(At(i)) = At(i + 1)

\* A prediction is what follows: the last time for the learned policy, by the
\* declaration for the declared one (policy.c lo_learned_on_fault,
\* lo_declared_declare_sequence).
PredictionsFollow == LearnedFollowsLastFault /\ DeclaredPredictsSuccessor

=============================================================================

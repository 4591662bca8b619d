------------------------------ MODULE Solvers ------------------------------
(***************************************************************************)
(* The two offline solvers.  A behaviour runs one of them on one of its    *)
(* inputs; what both promise is stated here.                               *)
(***************************************************************************)
EXTENDS Optimum

CONSTANTS
  Traces,            \* of belady: [type, ref]
  Capacities,        \* of belady, in chunks
  Inputs             \* of wp2_opt: [len, budget, pass, passes]

\* Chunks are numbered as in a chunk table, whose lengths are positive, and there are
\* fewer references than a position can count.
ASSUME SolversAssumption ==
  /\ UINT64_MAX \in Nat /\ Chunks \subseteq 0..UINT64_MAX
  /\ Capacities \subseteq Nat
  /\ \A t \in Traces : t.ref \in Seq(Chunks) /\ Len(t.ref) < UINT64_MAX
  /\ \A x \in Inputs :
       /\ x.budget \in Nat /\ x.passes \in Nat
       /\ x.len \in [DOMAIN x.len -> Nat \ {0}] /\ DOMAIN x.len \subseteq Chunks
       /\ DOMAIN x.len = 0..(Cardinality(DOMAIN x.len) - 1)
       /\ x.pass \in Seq(DOMAIN x.len) /\ Len(x.pass) * x.passes < UINT64_MAX

VARIABLES
  tool,                                           \* "belady" or "wp2_opt"
  phase, position, misses,                        \* of either
  file, capacity, in_cache, current_priority, heap,
  input, resident, cur_nextuse, resident_bytes, missed_bytes

B == INSTANCE Belady WITH i <- position, trace <- file
W == INSTANCE ByteOptimum WITH i <- position

beladyVars  == <<file, capacity, in_cache, current_priority, heap>>
wp2Vars     == <<input, resident, cur_nextuse, resident_bytes, missed_bytes>>
solversVars == <<tool, phase, position, misses, beladyVars, wp2Vars>>

NoBelady ==
  file = [type |-> "none", ref |-> <<>>] /\ capacity = 0 /\ in_cache = 0 /\ current_priority = 0 /\ heap = 0
NoWp2 ==
  /\ input = [len |-> <<>>, budget |-> 0, pass |-> <<>>, passes |-> 0]
  /\ resident = 0 /\ cur_nextuse = 0 /\ resident_bytes = 0 /\ missed_bytes = 0

SolversInit ==
  \/ tool = "belady"  /\ B!Init /\ NoWp2
  \/ tool = "wp2_opt" /\ W!Init /\ NoBelady

SolversNext ==
  \/ tool = "belady"  /\ B!Next /\ UNCHANGED <<tool, wp2Vars>>
  \/ tool = "wp2_opt" /\ W!Next /\ UNCHANGED <<tool, beladyVars>>

SolversSpec == SolversInit /\ [][SolversNext]_solversVars /\ WF_solversVars(SolversNext)

-----------------------------------------------------------------------------
(* Properties *)

\* The state from which either solver takes its next victim is sound: what it
\* compares are the next uses, found through the heap or in the table, and the cache is
\* one that the capacity or the budget allows (belady.c:87-133, wp2_opt.c:78-103).
SimulationSound == IF tool = "belady" THEN B!HeapSound ELSE W!CacheSound

\* No choice of victims has fewer misses than a solver reports; so the checks against
\* a naive solver and a floor refuse no right result (belady_main.c:89-193,
\* wp2_opt.c:8-9).
ResultIsMinimal == IF tool = "belady" THEN B!MissesAreMinimal ELSE W!EqualSizesAreMinimal

\* Every run of a solver ends with a result or is refused for cause
\* (belady_main.c:45-48, wp2_opt.c:105-127).
EndsWithResult == (tool = "belady" => B!EndsFromReferences) /\ (tool = "wp2_opt" => W!EndsReported)

=============================================================================

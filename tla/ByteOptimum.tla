----------------------------- MODULE ByteOptimum -----------------------------
(***************************************************************************)
(* wp2_opt.c: the same greedy rule with chunks of unequal lengths and a    *)
(* budget in bytes, over a declared pass repeated n_passes times, and the  *)
(* checks it makes of its own result.                                      *)
(***************************************************************************)
EXTENDS Optimum

CONSTANTS
  Inputs             \* [len, budget, pass, passes]; len maps the chunks 0..n-1

VARIABLES
  input,
  phase,             \* "read", "refs", "evict", "check", or how it ended
  i,
  resident, cur_nextuse,
  resident_bytes, missed_bytes, misses

simVars == <<i, resident, cur_nextuse, resident_bytes, missed_bytes, misses>>
vars    == <<input, phase, simVars>>

len    == input.len
budget == input.budget
Table  == DOMAIN len
ref    == [k \in 1..(Len(input.pass) * input.passes) |-> At(input.pass, (k - 1) % Len(input.pass))]
c      == At(ref, i)

Init ==
  /\ input \in Inputs
  /\ phase = "read"
  /\ i = 0 /\ resident = {}
  /\ cur_nextuse = [k \in Chunks |-> 0]
  /\ resident_bytes = 0 /\ missed_bytes = 0 /\ misses = 0

ReadInputs ==
  /\ phase = "read"
  /\ phase' = IF Table = {} \/ input.passes = 0 \/ input.pass = <<>> THEN "nothing" ELSE "refs"
  /\ UNCHANGED <<input, simVars>>

Advance ==
  /\ i' = i + 1
  /\ phase' = IF i + 1 = Len(ref) THEN "check" ELSE "refs"

NoteUse(k) == cur_nextuse' = [cur_nextuse EXCEPT ![k] = NextUse(ref, i, k)]

Hit ==
  /\ phase = "refs" /\ c \in resident
  /\ NoteUse(c)
  /\ Advance
  /\ UNCHANGED <<input, resident, resident_bytes, missed_bytes, misses>>

\* A chunk longer than the budget is read past the cache, every time.
Miss ==
  /\ phase = "refs" /\ c \notin resident
  /\ misses' = misses + 1
  /\ missed_bytes' = missed_bytes + len[c]
  /\ IF len[c] > budget THEN NoteUse(c) /\ Advance
                        ELSE phase' = "evict" /\ UNCHANGED <<i, cur_nextuse>>
  /\ UNCHANGED <<input, resident, resident_bytes>>

Fits == resident_bytes + len[c] <= budget

FirstResident == Min(resident)
Victim == Min({k \in resident : \A m \in resident : cur_nextuse[m] <= cur_nextuse[k]})

Freed(k) == len[k]

\* With no victim the loop gives up, and the chunk goes in all the same.
MustEvict == ~ Fits /\ resident # {}

Evict ==
  /\ phase = "evict" /\ MustEvict
  /\ resident' = resident \ {Victim}
  /\ resident_bytes' = resident_bytes - Freed(Victim)
  /\ UNCHANGED <<input, phase, i, cur_nextuse, missed_bytes, misses>>

Insert ==
  /\ phase = "evict" /\ ~ MustEvict
  /\ resident' = resident \cup {c}
  /\ resident_bytes' = resident_bytes + len[c]
  /\ NoteUse(c)
  /\ Advance
  /\ UNCHANGED <<input, missed_bytes, misses>>

Distinct     == Range(input.pass)
SumDistinct  == SumFunctionOnSet(len, Distinct)
all_equal    == \A k, m \in Distinct : len[k] = len[m]
CrossCheckTotal == all_equal => missed_bytes = Len(ref) * len[0]
CrossCheck   == all_equal => missed_bytes = misses * len[0]

Check ==
  /\ phase = "check"
  /\ phase' = IF misses >= Cardinality(Distinct) /\ missed_bytes >= SumDistinct /\ CrossCheck
              THEN "reported" ELSE "failed"
  /\ UNCHANGED <<input, simVars>>

Next == ReadInputs \/ Hit \/ Miss \/ Evict \/ Insert \/ Check

Spec == Init /\ [][Next]_vars /\ WF_vars(Next)

-----------------------------------------------------------------------------
TypeOK ==
  /\ phase \in {"read", "refs", "evict", "check", "nothing", "failed", "reported"}
  /\ i \in 0..Len(ref) /\ misses \in 0..Len(ref)
  /\ resident \subseteq Table
  /\ cur_nextuse \in [Chunks -> 0..UINT64_MAX]
  /\ resident_bytes \in Nat /\ missed_bytes \in Nat

\* The running total is the sum of the resident lengths and never above the
\* budget, whatever the lengths: the loop that gives up without a victim is never
\* reached.
WithinBudget ==
  /\ resident_bytes = SumFunctionOnSet(len, resident)
  /\ resident_bytes <= budget

\* What the greedy rule compares is the next use, kept up to date by hits and by
\* inserts alike.
UsesAreNext ==
  phase = "refs" => \A k \in resident : cur_nextuse[k] = NextUse(ref, i - 1, k)

\* The cache simulated is one that a budget in bytes allows (wp2_opt.c:80-102).
CacheSound == TypeOK /\ WithinBudget /\ UsesAreNext

\* "it is optimal for the equal-size case" (wp2_opt.c:8-9).
EqualSizesAreMinimal ==
  phase \in {"reported", "failed"} /\ (\A k \in Table : len[k] = len[0])
    => misses = MinMisses(ref, budget \div len[0])

\* The checks of the result (wp2_opt.c:105-127) refuse no right one, unless the
\* chunks of the sequence have one length and chunk 0, whose length the cross-check
\* takes for theirs, has another.
OddChunkZero == all_equal /\ \A k \in Distinct : len[k] # len[0]
EndsReported ==
  <>(phase = IF Table = {} \/ input.passes = 0 \/ input.pass = <<>> THEN "nothing"
             ELSE IF OddChunkZero THEN "failed" ELSE "reported")

=============================================================================

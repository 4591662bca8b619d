------------------------------ MODULE MCPager ------------------------------
(* Instances of Pager for TLC. *)
EXTENDS PagerPromise, TLC

CONSTANT Big    \* the one chunk of two bytes, where lengths differ

OneByteEach == [c \in Chunks |-> 1]
OneTwice    == [c \in Chunks |-> IF c = Big THEN 2 ELSE 1]

ThreadSymmetry == Permutations(Workers) \cup Permutations(AppThreads)
FullSymmetry   == Permutations(Chunks) \cup ThreadSymmetry
SmallSymmetry  == Permutations(Chunks \ {Big}) \cup ThreadSymmetry

=============================================================================

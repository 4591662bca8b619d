------------------------------ MODULE MCSolvers ------------------------------
(* Instances of the two offline solvers for TLC. *)
EXTENDS Solvers, TLC

Trace(type, refs) == [type |-> type, ref |-> refs]

\* Every reference string of up to six over three chunks, longer ones that make
\* the heap hold stale entries below live ones, and cyclic scans.
Scan(n, p)  == [j \in 1..(n * p) |-> (j - 1) % n]
Short       == UNION {[1..n -> 0..2] : n \in 0..6}
Long        == {Scan(4, 3), Scan(3, 4), Scan(2, 5), <<0, 1, 0, 1, 0, 2, 3, 1, 0, 2>>, <<3, 1, 2, 0, 3, 1, 2, 0>>,
                <<0, 1, 2, 0, 3, 0, 2, 1, 3, 0>>, <<1, 1, 1, 2, 3, 0, 1, 3, 2, 0>>}
AllTraces   == {Trace("reference", r) : r \in Short \cup Long} \cup {Trace("fault", <<0, 1>>), Trace("unknown", <<0>>)}

AnyCapacity == 0..3

\* Tables of up to three chunks, passes that repeat and skip chunks, budgets
\* below, at and above the longest chunk; some that evict two chunks for one.
Passes == UNION {[1..k -> 0..2] : k \in 0..3} \cup {<<0, 1, 0, 2>>, <<2, 1, 0, 1>>}
Tables == UNION {[0..(n - 1) -> {1, 2}] : n \in 0..3} \cup {(0 :> 3 @@ 1 :> 1 @@ 2 :> 2)}
AnyInput ==
  {x \in [len : Tables, budget : 1..4, pass : Passes, passes : {0, 1, 3}] : Range(x.pass) \subseteq DOMAIN x.len}

=============================================================================

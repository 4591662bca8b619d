----------------------------- MODULE MCLifecycle ----------------------------
(* An instance of Lifecycle for TLC: a pool of two workers. *)
EXTENDS Lifecycle

CONSTANTS w1, w2

Pool == {w1, w2}

\* Both handlers, with and without prefetches, at the depths that tell inline
\* prefetches from a pool of their own.
AllHandlers == [async : BOOLEAN, depth : {1, 2}, prefetch : BOOLEAN]

=============================================================================

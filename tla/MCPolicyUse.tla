---------------------------- MODULE MCPolicyUse -----------------------------
(* Instances of PolicyUse for TLC. *)
EXTENDS PolicyUse, SequencesExt

AllOptions ==
  [policy : {"default", "lru", "learned"}, protect : {TRUE}, pre : {FALSE}]
    \cup [policy : {"declared"}, protect : BOOLEAN, pre : BOOLEAN]

\* Every sequence of one pass of at most four references.
ShortSequences == BoundedSeq(Chunks, 4) \ {<<>>}

=============================================================================

------------------------------ MODULE MCLlama ------------------------------
(* Instances of Llama for TLC. *)
EXTENDS Llama

\* What region_startup is given; the signals of wp2_gen come before the read.
LlamaOptions == [policy : {"declared"}, protect : BOOLEAN, pre : {TRUE}]

\* The tensors of a file: groups with their sizes, one after the other from off.
Tensors(off, groups, sizes) ==
  LET start[i \in 1..Len(groups)] == IF i = 1 THEN off ELSE start[i - 1] + sizes[i - 1] IN
  {[off |-> start[i], size |-> sizes[i], group |-> groups[i]] : i \in DOMAIN groups}

\* The graph of one token, each layer of two nodes; without a tensor of their own
\* the output reads the embedding, and there is no norm.  The node of role
\* unknown has a name that is not looked for.
Graph(layers, groups, unknown) ==
  LET Tied(g)    == IF g \in Range(groups) THEN g ELSE GRP_EMBD
      Nodes(g)   == <<[role |-> g, reads |-> Tied(g), known |-> g # unknown]>>
  IN Nodes(GRP_EMBD) \o FlattenSeq([i \in 1..(2 * layers) |-> Nodes((i - 1) \div 2)])
       \o Nodes(GRP_OUTNORM) \o Nodes(GRP_OUTPUT)

Model(off, groups, sizes, unknown) ==
  LET tensors == Tensors(off, groups, sizes)
      layers  == Max({t.group : t \in tensors} \cup {-1}) + 1 IN
  [tensors |-> tensors, size |-> Max({t.off + t.size : t \in tensors}),
   graph |-> Graph(layers, groups, unknown)]

Orders == {<<GRP_EMBD, 0, 1, GRP_OUTNORM, GRP_OUTPUT>>, <<GRP_OUTPUT, GRP_EMBD, 1, 0, GRP_OUTNORM>>,
           <<GRP_EMBD, 0, 1, 0, GRP_OUTNORM>>, <<1, 0, GRP_OTHER, GRP_EMBD, 1, GRP_OUTNORM>>,
           <<0, 0, GRP_EMBD, 1, GRP_OUTPUT, 0>>, <<0, GRP_EMBD, 0, 1, 0>>}
Unknowns == {GRP_HEADER, GRP_EMBD, GRP_OUTNORM, GRP_OUTPUT, 0}

Whole(n, size) == [i \in 1..n |-> size]

\* Runs of any length, from inside the first page or after it.  With 5 or 6 bytes
\* each run has a page of its own and its end lies in the next run's, as in the
\* measured file.
AnyModels ==
  {Model(off, g, Whole(Len(g), size), u) : off \in {1, 6}, g \in Orders, size \in 1..6, u \in Unknowns}
    \cup {Model(5, g, [i \in DOMAIN g |-> IF i % 2 = k THEN 2 ELSE 9], GRP_HEADER) : g \in Orders, k \in {0, 1}}

\* Runs that start at pages, all nodes known; a layer in two runs, as the model of
\* the measured runs has one.
AlignedModels ==
  {Model(off, g, Whole(Len(g), 4), GRP_HEADER) :
     off \in {0, 8}, g \in Orders \cup {<<GRP_EMBD, 0, 1, 0, GRP_OUTNORM, GRP_OUTPUT>>}}

\* The embedding and its norm between the layers, in part of a page.
SharedModels == {Model(8, <<GRP_EMBD, 0, GRP_OTHER, 1, GRP_OUTNORM>>, <<4, 6, 1, 8, 2>>, GRP_HEADER)}

EveryModel == AnyModels \cup AlignedModels \cup SharedModels

=============================================================================

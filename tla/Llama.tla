-------------------------------- MODULE Llama --------------------------------
(***************************************************************************)
(* The llama.cpp integration: the chunk table made from the tensors of a   *)
(* GGUF file, the sequence declared to the policy, the consumption signals *)
(* that the evaluation callback gives for each node of the graph, and the  *)
(* audit of those signals.  A group is a layer, or one of the codes below. *)
(***************************************************************************)
EXTENDS Policies, SequencesExt

CONSTANTS
  RC_ALIGN,
  UINT64,            \* the modulus of unsigned arithmetic
  MAX_CHUNKS_PER_LAYER,
  Files,             \* the models of a run: [tensors, size, graph]
  MaxTokens          \* bound: evaluations of the graph

GRP_HEADER  == -1000
GRP_EMBD    == -1
GRP_OUTPUT  == -2
GRP_OUTNORM == -3
GRP_OTHER   == -4

Layers == Nat
Roles  == {GRP_EMBD, GRP_OUTNORM, GRP_OUTPUT} \cup Layers

TensorType == [off : Nat, size : Nat \ {0}, group : Roles \cup {GRP_OTHER}]
NodeType   == [role : Roles, reads : Roles, known : BOOLEAN]

\* The files are complete, their tensors lie apart, and no node is of a layer
\* without tensors.  A chunk starts with a tensor or is the header's.
ASSUME FilesAssumption ==
  /\ RC_ALIGN \in Nat \ {0} /\ UINT64 \in Nat
  /\ MAX_CHUNKS_PER_LAYER \in Nat \ {0} /\ MaxTokens \in Nat
  /\ \A f \in Files :
       /\ f.tensors # {} /\ f.tensors \subseteq TensorType
       /\ IsFiniteSet(f.tensors) /\ Cardinality(f.tensors) < n_chunks
       /\ \A s, t \in f.tensors : s = t \/ s.off + s.size <= t.off \/ t.off + t.size <= s.off
       /\ f.size \in Nat /\ f.size + RC_ALIGN <= UINT64
       /\ \A t \in f.tensors : t.off + t.size <= f.size
       /\ f.graph \in Seq(NodeType) /\ f.graph # <<>>
       /\ \A n \in Range(f.graph) : n.role \in Layers => \E t \in f.tensors : t.group = n.role

\* llama.cpp's graph of a token begins with the embedding and evaluates the nodes
\* of a layer one after the other; the other roles have one node each, and what the
\* file has weights for is evaluated.  A node reads the weights of its role, or the
\* embedding if they are tied to it; and there are several weights to read.
ASSUME GraphAssumption ==
  \A f \in Files :
    LET Stored(g) == \E t \in f.tensors : t.group = g IN
    /\ f.graph[1].role = GRP_EMBD
    /\ \A j, k \in DOMAIN f.graph : j < k /\ f.graph[j].role = f.graph[k].role =>
         f.graph[k].role \in Layers /\ f.graph[k - 1].role = f.graph[k].role
    /\ \A t \in f.tensors : t.group # GRP_OTHER => \E n \in Range(f.graph) : n.role = t.group
    /\ \A n \in Range(f.graph) :
         /\ Stored(n.reads)
         /\ n.reads = n.role \/ (n.reads = GRP_EMBD /\ n.role \notin Layers /\ ~ Stored(n.role))
    /\ \E m, n \in Range(f.graph) : m.reads # n.reads

VARIABLES
  file,
  phase,             \* "start", "up", "aborted" by the audit, "refused" by region_startup
  specs,             \* g_specs with g_chunk_group: [off, len, group]
  token, node, stage,  \* the evaluation, its node, and what is next of it: "ask" or "signal"
  last_layer,        \* cb_state
  pending,           \* the chunks that the callback has still to signal
  count,             \* g_chunk_notify_count
  notify_seq, audit_done

fileVars  == <<file, specs, seq>>
evalVars  == <<token, node, stage, last_layer>>
auditVars == <<pending, count, notify_seq, audit_done>>
unusedPolicyVars == <<opt, last_fault_seq, last_fetched, successor>>
llamaVars == <<fileVars, phase, evalVars, auditVars, pos, unusedPolicyVars>>

-----------------------------------------------------------------------------
(* build_inventory_and_table. *)

align_down(v) == v - (v % RC_ALIGN)
align_up(v)   == align_down(v + RC_ALIGN - 1)

\* The domain of a function in the order of its values, which are different.
SortedBy(key) ==
  LET rank(x) == Cardinality({y \in DOMAIN key : key[y] <= key[x]})
  IN  [i \in 1..Cardinality(DOMAIN key) |-> CHOOSE x \in DOMAIN key : rank(x) = i]

srt        == SortedBy([t \in file.tensors |-> t.off])
region_len == align_up(file.size)
n_layers   == Max({t.group : t \in file.tensors} \cup {-1}) + 1

ShareNothing(b, bnd) == FALSE
SamePage(b, bnd) == b <= Last(bnd).off

\* A boundary for each tensor that starts a run of its group, on the page it
\* starts in; a run that starts in the page of the boundary before has none.
RoundedUp(t) == [off |-> align_up(t.off), group |-> t.group]
Bound(t)     == [off |-> align_down(t.off), group |-> t.group]
FirstRun(t) ==
  [cur |-> t.group,
   bnd |-> IF align_down(t.off) = 0 THEN <<Bound(t)>>
           ELSE <<[off |-> 0, group |-> GRP_HEADER], Bound(t)>>]
NextRun(s, t) ==
  IF t.group = s.cur THEN s
  ELSE [cur |-> t.group,
        bnd |-> IF SamePage(align_down(t.off), s.bnd) THEN s.bnd ELSE Append(s.bnd, Bound(t))]

scan[i \in 1..Len(srt)] ==
  IF i = 1 THEN FirstRun(srt[1]) ELSE NextRun(scan[i - 1], srt[i])
Boundaries == scan[Len(srt)].bnd

Specs ==
  LET bnd == Boundaries
      end(c) == IF c = Len(bnd) THEN region_len ELSE bnd[c + 1].off
  IN [c \in DOMAIN bnd |-> [off |-> bnd[c].off, len |-> end(c) - bnd[c].off, group |-> bnd[c].group]]

\* The chunks of group g in table t, in the order of the file.
GroupChunks(t, g) == SortedBy([c \in {d \in 0..(Len(t) - 1) : t[d + 1].group = g} |-> c])

LastOr(s, default) == IF s = <<>> THEN default ELSE Last(s)
chunk_embd(t)      == LastOr(GroupChunks(t, GRP_EMBD), NoChunk)
UntiedOutput(t)    == LastOr(GroupChunks(t, GRP_OUTPUT), NoChunk)
chunk_output(t)    == LastOr(GroupChunks(t, GRP_OUTPUT), chunk_embd(t))
chunk_outnorm(t)   == LastOr(GroupChunks(t, GRP_OUTNORM), chunk_embd(t))

layer_chunks(t, L) ==
  LET all == GroupChunks(t, L) IN SubSeq(all, 1, Min({Len(all), MAX_CHUNKS_PER_LAYER}))

\* token_embd, the layers in their order, output_norm, output; each chunk once.
LayersInOrder(t) == FlattenSeq([L \in 1..n_layers |-> layer_chunks(t, L - 1)])
DeclaredSeq(t) ==
  LET Once(c, before) == IF c = NoChunk \/ c \in before THEN <<>> ELSE <<c>> IN
     Once(chunk_embd(t), {})
  \o LayersInOrder(t)
  \o Once(chunk_outnorm(t), {chunk_embd(t)})
  \o Once(chunk_output(t), {chunk_embd(t), chunk_outnorm(t)})

Startup == INSTANCE ChunkTable WITH
             RESIDCTL_ALIGN <- RC_ALIGN, UINT32_MAX <- 0, Configs <- {},
             cfg <- [region_len |-> region_len], step <- phase, table <- specs, memory <- {},
             addr <- 0, lo <- 0, hi <- 0
Accepted(t) ==
  Startup!Accept([c \in DOMAIN t |-> [off |-> t[c].off, len |-> t[c].len, file_off |-> t[c].off]])

-----------------------------------------------------------------------------
\* The policy that has the sequence; policy_set_signal_mode(1).
LlamaInit ==
  /\ file \in Files
  /\ PolicyInit /\ opt.policy = "declared" /\ opt.pre
  /\ phase = "start" /\ specs = <<>>
  /\ token = 0 /\ node = 1 /\ stage = "ask" /\ last_layer = -1
  /\ pending = <<>>
  /\ count = [c \in Chunks |-> 0]
  /\ notify_seq = 0 /\ audit_done = FALSE

\* residctl_llama_mmap
Mmap ==
  /\ phase = "start"
  /\ specs' = Specs
  /\ IF Accepted(Specs)
     THEN phase' = "up" /\ DeclareSequence(DeclaredSeq(Specs))
     ELSE phase' = "refused" /\ UNCHANGED <<seq, pos>>
  /\ UNCHANGED <<file, evalVars, auditVars, unusedPolicyVars>>

\* A node reads the weights of a group, has a role, and is known if its name is
\* one of those that eval_cb looks for.
Node == file.graph[node]

RoleChunk(role) ==
  CASE role = GRP_EMBD    -> chunk_embd(specs)
    [] role = GRP_OUTNORM -> chunk_outnorm(specs)
    [] role = GRP_OUTPUT  -> chunk_output(specs)

Existent(c) == IF c = NoChunk THEN <<>> ELSE <<c>>

\* A layer is signalled at its first node, chunk by chunk; a token begins anew.
Entered(layer) == layer # last_layer

Signals ==
  IF ~ Node.known THEN <<>>
  ELSE IF Node.role < 0 THEN Existent(RoleChunk(Node.role))
  ELSE IF Entered(Node.role) THEN layer_chunks(specs, Node.role)
  ELSE <<>>

\* eval_cb before the node is computed.
Ask ==
  /\ phase = "up" /\ stage = "ask" /\ token < MaxTokens
  /\ pending' = Signals
  /\ last_layer' = IF Node.known /\ Node.role >= GRP_EMBD THEN Node.role ELSE last_layer
  /\ stage' = "signal"
  /\ UNCHANGED <<fileVars, phase, token, node, count, notify_seq, audit_done, pos, unusedPolicyVars>>

AuditDue == notify_seq + 1 >= 2 * Len(seq)

MissingLayers(signalled) == {d \in Range(seq) : specs[d + 1].group >= 0} \ signalled
Missing(signalled) == Range(seq) \ signalled

\* notify_chunk, and notify_audit_maybe at its end.
NotifyChunk ==
  LET c == Head(pending) IN
  /\ phase = "up" /\ stage = "signal" /\ pending # <<>>
  /\ OnAccess(c)
  /\ notify_seq' = notify_seq + 1
  /\ count' = [count EXCEPT ![c] = @ + 1]
  /\ pending' = Tail(pending)
  /\ IF ~ audit_done /\ Len(seq) # 0 /\ AuditDue
     THEN /\ audit_done' = TRUE
          /\ phase' = IF Missing({d \in Chunks : count'[d] > 0}) # {} THEN "aborted" ELSE "up"
     ELSE UNCHANGED <<audit_done, phase>>
  /\ UNCHANGED <<fileVars, evalVars, unusedPolicyVars>>

\* The node reads its weights; eval_cb after it does nothing.
Compute ==
  /\ phase = "up" /\ stage = "signal" /\ pending = <<>>
  /\ stage' = "ask"
  /\ IF node < Len(file.graph) THEN node' = node + 1 /\ UNCHANGED token
                               ELSE node' = 1 /\ token' = token + 1
  /\ UNCHANGED <<fileVars, phase, last_layer, pending, count, notify_seq, audit_done, pos, unusedPolicyVars>>

LlamaNext == Mmap \/ Ask \/ NotifyChunk \/ Compute

LlamaSpec == LlamaInit /\ [][LlamaNext]_llamaVars /\ WF_llamaVars(LlamaNext)

-----------------------------------------------------------------------------
Existing == 0..(Len(specs) - 1)
Bytes(c) == specs[c + 1].off..(specs[c + 1].off + specs[c + 1].len - 1)

EveryToken == {n.reads : n \in Range(file.graph)}

\* The chunks numbered with a group, those that hold bytes of it, and the bytes.
Own(g)         == {c \in Existing : specs[c + 1].group = g}
GroupBytes(g, c)  == {y \in Bytes(c) : \E t \in file.tensors : t.group = g /\ y \in t.off..(t.off + t.size - 1)}
Holding(g)     == {c \in Existing : GroupBytes(g, c) # {}}

TypeOK ==
  /\ PolicyTypeOK
  /\ phase \in {"start", "up", "aborted", "refused"}
  /\ token \in 0..MaxTokens /\ node \in 1..Len(file.graph) /\ stage \in {"ask", "signal"}
  /\ last_layer \in -1..(n_layers - 1)
  /\ pending \in Seq(Existing)
  /\ count \in [Chunks -> Nat]
  /\ notify_seq \in Nat /\ audit_done \in BOOLEAN

\* The table made from any tensors is one that start-up accepts.
TableAccepted == phase # "refused"

\* The declared sequence has no chunk twice, and follows the order in which the
\* graph reads them, not that of the file.
DeclaredInReadingOrder ==
  /\ IsInjective(seq)
  /\ \A i, j \in DOMAIN seq :
       LET g == specs[seq[i] + 1].group  h == specs[seq[j] + 1].group IN
       g >= 0 /\ h >= 0 /\ i < j => g <= h

\* Tensors in any order of any sizes, sharing pages, make a table that start-up
\* takes and a sequence the policy can follow (residctl_llama.c:191-252,
\* :387-392, region.c:196-242).
LayoutSound == TypeOK /\ TableAccepted /\ DeclaredInReadingOrder

NodesKnown == \A n \in Range(file.graph) : n.known
\* No two runs of tensors start in the same page, so that each has a boundary.
StartsRun(i) == i = 1 \/ srt[i].group # srt[i - 1].group
RunsApart ==
  \A i, j \in DOMAIN srt :
    i < j /\ StartsRun(i) /\ StartsRun(j) => align_down(srt[i].off) # align_down(srt[j].off)
\* Every run of a group that is read is a chunk that can be declared.
RunsFit ==
  \A g \in EveryToken : Len(GroupChunks(specs, g)) <= IF g \in Layers THEN MAX_CHUNKS_PER_LAYER ELSE 1

Unsplit(g) == Cardinality(Own(g)) = 1

\* The end of a run, in the page where the run after it in the file starts: it is
\* in the first page of the next chunk, which has the number of another group.
IsTail(g, c) == c - 1 \in Own(g) /\ GroupBytes(g, c) \subseteq specs[c + 1].off..(specs[c + 1].off + RC_ALIGN - 1)

ReadingNow == phase = "up" /\ stage = "signal" /\ pending = <<>>

\* For tensors of any offsets and sizes, if no two runs start in one page, the runs
\* can be declared and the nodes are recognised: the chunks numbered with a group
\* hold bytes of it and are declared, and all that is read of the group is in them
\* but for the tails.  When a node is computed the cursor is at a chunk of its group,
\* the signals coming before the read, token after token; and with the protection off
\* that chunk, if it is the only one of the group, is no victim
\* (residctl_llama.c:43-49, :204-208, :240-242, wp2_gen.cpp:50-57).
\* Of a tail nothing is said: it is read with its group and ranked with the group
\* after it in the file, or not declared at all, so the order of :238 and :388 is not
\* that of all reads.  A run that starts in the page of the one before may be read
\* from an undeclared chunk, as may one that the layer's list has no room for; and
\* the first chunk of a split layer has been passed when it is read.
ReadsFollowTheCursor ==
  NodesKnown /\ RunsFit /\ RunsApart =>
    /\ phase = "up" => \A g \in EveryToken :
         /\ Own(g) \subseteq Holding(g) /\ Own(g) \subseteq Range(seq)
         /\ \A c \in Holding(g) \ Own(g) : IsTail(g, c)
    /\ ReadingNow => At(pos) \in Own(Node.reads)
    /\ ReadingNow /\ ~ opt.protect /\ Unsplit(Node.reads) => SelectVictim(Range(seq)) \notin Own(Node.reads)

AllCounted == \A d \in Range(seq) : count[d] > 0

\* The embedding has a chunk, and the callback knows the node that reads it.
EmbeddingSignalled == file.graph[1].known /\ chunk_embd(specs) # NoChunk

\* The audit aborts only if a node that reads a declared chunk goes unrecognised.
\* A run that goes on after as many signals as two passes of the sequence give has
\* had one for every declared chunk; and one that signals the embedding, for each
\* token, comes to that point (residctl_llama.c:426-452).
AuditFindsSilence ==
  /\ phase = "aborted" => \E n \in Range(file.graph) : ~ n.known
  /\ phase = "up" /\ notify_seq >= 2 * Len(seq) => AllCounted
  /\ phase = "up" /\ EmbeddingSignalled /\ token >= 2 * Len(seq) => AllCounted

=============================================================================

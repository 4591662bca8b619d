-------------------------------- MODULE Arms --------------------------------
(***************************************************************************)
(* The two programs an experiment compares on one file: baseline, which    *)
(* reads the file through a plain mapping and the kernel's page cache, and *)
(* the replay, which reads it through the pager, by one or more threads.   *)
(* Both run here on the same arguments, one after the other, and what they *)
(* count is compared.  The pager's own work is in Pager and SyncPager, the *)
(* order of the steps of several threads in Lookahead.                     *)
(***************************************************************************)
EXTENDS Integers, Sequences, FiniteSets, FiniteSetsExt, Functions

CONSTANTS
  PageSize,         \* 4096 in baseline_main.c, RESIDCTL_ALIGN in replay.c
  UINT32,           \* the modulus of uint32_t
  Arguments         \* the command lines and page caches of a run

\* The baseline maps nothing if there is no byte to map, and divides by chunk_size;
\* ChunkTable has the sizes whose rounding wraps.  --driver-threads is at least 1.
ArgumentType ==
  [region_len : Nat \ {0}, chunk_size : Nat \ {0}, n_passes : 0..(UINT32 - 1), threads : Nat \ {0},
   hints : BOOLEAN, stale : BOOLEAN, file_len : Nat, proc_io : BOOLEAN]

ASSUME ArmsAssumption ==
  PageSize \in Nat \ {0} /\ UINT32 \in Nat \ {0} /\ Arguments \subseteq ArgumentType

VARIABLES
  arg,              \* the arguments, and what was cached before them
  at,               \* which part of which program runs
  pass, idx,        \* the pass and the i of its loops
  cached,           \* pages in the page cache
  io, io_before,    \* read_bytes of /proc/self/io
  baseline,         \* bytes_touched, and how often each page was read
  replay,           \* the same of the replay
  todo              \* replay threads that have not read their pages of this step

loopVars == <<pass, idx>>
ioVars   == <<cached, io, io_before>>
armsVars == <<arg, at, loopVars, ioVars, baseline, replay, todo>>

PagesOf(first, end) == (first \div PageSize)..((end - 1) \div PageSize)
Pages == PagesOf(0, arg.region_len)

Counters == [bytes_touched |-> 0, reads |-> [p \in Pages |-> 0]]

ArmsInit ==
  /\ arg \in Arguments
  /\ at = "open"
  /\ pass = 0 /\ idx = 0
  /\ cached = IF arg.stale THEN Pages ELSE {}
  /\ io = 0 /\ io_before = 0
  /\ baseline = Counters /\ replay = Counters
  /\ todo = {}

Label(label) == at' = label

\* The loops of both programs over n chunks.
Advance(n) ==
  /\ idx' = (idx + 1) % n
  /\ pass' = IF idx + 1 = n THEN pass + 1 ELSE pass

Rewind == pass' = 0 /\ idx' = 0

Read(arm, pages, bytes) ==
  [bytes_touched |-> arm.bytes_touched + bytes,
   reads |-> [p \in Pages |-> arm.reads[p] + (IF p \in pages THEN 1 ELSE 0)]]

-----------------------------------------------------------------------------
(* baseline_main *)

\* A file shorter than the region is refused.
Open ==
  /\ at = "open"
  /\ Label(IF arg.file_len < arg.region_len THEN "refused" ELSE "advise")
  /\ UNCHANGED <<arg, loopVars, ioVars, baseline, replay, todo>>

\* madvise(MADV_WILLNEED), whose read-ahead goes as far as the kernel likes.
Advise ==
  /\ at = "advise"
  /\ \E last \in Pages \cup {-1} :
       LET ahead == {p \in Pages : p <= last} \ cached IN
       /\ last # -1 => arg.hints
       /\ cached' = cached \cup ahead
       /\ io' = io + PageSize * Cardinality(ahead)
  /\ Label("before")
  /\ UNCHANGED <<arg, loopVars, io_before, baseline, replay, todo>>

RoundedUp(len, size) == (len + size - 1) \div size
n_chunks == (arg.region_len \div arg.chunk_size) % UINT32

Before ==
  /\ at = "before"
  /\ io_before' = io
  /\ Label(IF n_chunks = 0 \/ arg.n_passes = 0 THEN "after" ELSE "touch")
  /\ UNCHANGED <<arg, loopVars, cached, io, baseline, replay, todo>>

TouchedFirst(k) == {(k * arg.chunk_size) \div PageSize}

\* The pages of the reads at every 4096th byte of a chunk.
Touched(k) == {(k * arg.chunk_size + off) \div PageSize :
                 off \in {o \in 0..(arg.chunk_size - 1) : o % PageSize = 0}}

\* madvise(MADV_PAGEOUT) takes only a range that starts with a page.
PagedOut ==
  LET start == (idx - 1) * arg.chunk_size IN
  IF arg.hints /\ idx >= 1 /\ start % PageSize = 0
  THEN PagesOf(start, start + arg.chunk_size) ELSE {}

BaselineTouch ==
  /\ at = "touch"
  /\ baseline' = Read(baseline, Touched(idx), arg.chunk_size)
  /\ io' = io + PageSize * Cardinality(Touched(idx) \ cached)
  /\ cached' = (cached \cup Touched(idx)) \ PagedOut
  /\ Advance(n_chunks)
  /\ Label(IF pass' = arg.n_passes THEN "after" ELSE "touch")
  /\ UNCHANGED <<arg, io_before, replay, todo>>

\* Under memory.max the kernel drops pages when it likes.
Reclaim(p) ==
  /\ at \in {"before", "touch"} /\ p \in cached
  /\ cached' = cached \ {p}
  /\ UNCHANGED <<arg, at, loopVars, io, io_before, baseline, replay, todo>>

NothingRead     == io - io_before = 0 /\ baseline.bytes_touched > 0

\* A run that read nothing from storage is refused, if the counter can be read.
After ==
  /\ at = "after"
  /\ Label(IF arg.proc_io /\ NothingRead THEN "refused" ELSE "reported")
  /\ UNCHANGED <<arg, loopVars, ioVars, baseline, replay, todo>>

-----------------------------------------------------------------------------
(* replay_cyclic and replay_cyclic_mt *)

\* build_chunk_table: the last chunk is what is left.
RoundedSize == PageSize * RoundedUp(arg.chunk_size, PageSize)
Length      == RoundedUp(arg.region_len, RoundedSize)
Start(k)    == k * RoundedSize
LenOf(k)    == Min({RoundedSize, arg.region_len - Start(k)})

replay_threads == 0..(arg.threads - 1)

\* Two nested loops for one thread, one loop over total_steps for several.
AllSteps == arg.n_passes * Length
Steps    == IF arg.threads = 1 THEN AllSteps ELSE AllSteps % UINT32

\* The region refuses a table of more chunks than n_chunks can count.
StartReplay ==
  /\ at = "reported"
  /\ Rewind
  /\ todo' = replay_threads
  /\ Label(IF Length >= UINT32 THEN "aborted" ELSE IF Steps = 0 THEN "done" ELSE "replay")
  /\ UNCHANGED <<arg, ioVars, baseline, replay>>

\* The stride of a thread over the pages of a chunk.
MineShifted(tid, page_idx) == page_idx % (arg.threads + 1) = tid
Mine(tid, page_idx) == page_idx % arg.threads = tid

ReplayPages == PagesOf(Start(idx), Start(idx) + LenOf(idx))
Stride(tid) == {p \in ReplayPages : Mine(tid, p - Start(idx) \div PageSize)}

\* my_bytes of a thread: the last page of a chunk counts for what it holds.
page_bytes    == [p \in ReplayPages |-> Min({PageSize, (Start(idx) + LenOf(idx)) - p * PageSize})]
my_bytes(tid) == SumFunctionOnSet(page_bytes, Stride(tid))

\* A thread reads its pages of the chunk and computes over as many bytes.
ReadStride(tid) ==
  /\ at = "replay" /\ tid \in todo
  /\ replay' = Read(replay, Stride(tid), my_bytes(tid))
  /\ todo' = todo \ {tid}
  /\ UNCHANGED <<arg, at, loopVars, ioVars, baseline>>

\* Every thread is through with the step.
EndStep ==
  /\ at = "replay" /\ todo = {}
  /\ Advance(Length)
  /\ todo' = replay_threads
  /\ Label(IF pass * Length + idx + 1 = Steps THEN "done" ELSE "replay")
  /\ UNCHANGED <<arg, ioVars, baseline, replay>>

-----------------------------------------------------------------------------
ArmsNext ==
  \/ Open \/ Advise \/ Before \/ BaselineTouch \/ After
  \/ (\E p \in Pages : Reclaim(p))
  \/ StartReplay \/ (\E tid \in replay_threads : ReadStride(tid)) \/ EndStep

ArmsSpec == ArmsInit /\ [][ArmsNext]_armsVars

-----------------------------------------------------------------------------
(* Properties *)

\* Every variable has a value of its type.
ArmsTypeOK ==
  /\ at \in {"open", "advise", "before", "touch", "after", "refused", "reported", "aborted",
            "replay", "done"}
  /\ pass \in 0..arg.n_passes /\ idx \in Nat
  /\ at = "touch" => idx < n_chunks
  /\ at = "replay" => idx < Length /\ LenOf(idx) > 0
  /\ cached \subseteq Pages /\ todo \subseteq replay_threads
  /\ 0 <= io_before /\ io_before <= io

\* The 32-bit product of passes and chunks lost nothing.
EveryStep == Steps = AllSteps

\* The partition "covers every page exactly once across all nt threads"
\* (replay.c:302): after every step each page was read once a pass, and the bytes
\* the threads computed over are the bytes of the chunks; and so at the end, unless
\* total_steps of several threads wrapped (replay.c:349).
ReplayReadsAllOnce ==
  LET before(p) == p < Start(idx) \div PageSize IN
  /\ ArmsTypeOK
  /\ at = "replay" /\ todo = replay_threads =>
       /\ \A p \in Pages : replay.reads[p] = pass + (IF before(p) THEN 1 ELSE 0)
       /\ replay.bytes_touched = pass * arg.region_len + Start(idx)
  /\ at = "done" /\ EveryStep =>
       /\ \A p \in Pages : replay.reads[p] = arg.n_passes
       /\ replay.bytes_touched = arg.n_passes * arg.region_len

\* Chunks of whole pages, none of them cut short by the region's end.
WholeChunks == /\ arg.chunk_size % PageSize = 0
               /\ arg.region_len % arg.chunk_size = 0

\* baseline is to consume its chunks as the replay does "so all arms move
\* comparable bytes" (baseline_main.c:150): whatever the page cache does, both
\* read each page as often and count as many bytes, if the chunks are whole and
\* total_steps did not wrap.  And without hints, baseline refuses to report only
\* when it was started on a page cache that nobody had dropped.
ArmsComparable ==
  /\ at = "done" /\ WholeChunks /\ EveryStep => baseline = replay
  /\ at = "refused" /\ arg.file_len >= arg.region_len /\ ~arg.hints => arg.stale

=============================================================================

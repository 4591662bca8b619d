----------------------------- MODULE ChunkTable -----------------------------
(***************************************************************************)
(* region_startup: the checks in their order, the chunk table built from a *)
(* chunk size or from explicit specifications, the defaults of the budget; *)
(* and what the table is for: finding the chunk of a fault by bisection    *)
(* and filling it from a model file whose size need not be its multiple.   *)
(* Offsets are bytes of the region; a page has RESIDCTL_ALIGN of them.     *)
(***************************************************************************)
EXTENDS Integers, Sequences, FiniteSets, FiniteSetsExt

CONSTANTS
  RESIDCTL_ALIGN,
  UINT64,            \* the modulus of unsigned arithmetic
  UINT32_MAX,        \* the most chunks that n_chunks can count
  Configs            \* the region_config_t's and files of a run

Word     == 0..(UINT64 - 1)
SpecType == [off : Word, len : Word, file_off : Word]

\* The first fetch from an empty file aborts (fetch.c:88), so a file has bytes.
ConfigType ==
  [region_len : Word, chunk_size : Word, specs : Seq(SpecType), file_size : Word \ {0},
   budget_bytes : Word, swap_max : {"0", "max"}, opens : {"direct", "buffered", "neither"}]

ASSUME WidthAssumption ==
  /\ RESIDCTL_ALIGN \in Nat \ {0}
  /\ UINT64 \in Nat \ {0} /\ UINT64 % RESIDCTL_ALIGN = 0
  /\ UINT32_MAX \in Nat
ASSUME ConfigsAssumption == Configs \subseteq ConfigType

VARIABLES
  cfg,
  step,              \* of region_startup, "up" after it, "failed" if it aborts
  table,             \* the chunks, each [off, len]
  memory,            \* what each byte of map_b holds
  addr, lo, hi       \* the fault looked up, and the bisection

lookupVars == <<addr, lo, hi>>
vars       == <<cfg, step, table, memory, lookupVars>>

NChunks == Len(table)
Bytes    == 0..(cfg.region_len - 1)
Chunk(i) == table[i + 1]

align_down(v) == v - (v % RESIDCTL_ALIGN)
align_up(v)   == align_down(v + RESIDCTL_ALIGN - 1)

Init ==
  /\ cfg \in Configs
  /\ step = "checks"
  /\ table = <<>>
  /\ memory = [b \in Bytes |-> "hole"]
  /\ addr = 0 /\ lo = 0 /\ hi = 0

Goes(next) == step' = next

-----------------------------------------------------------------------------
(* region_startup *)

\* The arguments, and memory.swap.max.
CheckConfig ==
  /\ step = "checks"
  /\ Goes(IF cfg.region_len # 0 /\ cfg.swap_max = "0" THEN "register" ELSE "failed")
  /\ UNCHANGED <<cfg, table, memory, lookupVars>>

\* UFFDIO_REGISTER takes whole pages only.
RegisterMappingA ==
  /\ step = "register"
  /\ Goes(IF cfg.region_len % RESIDCTL_ALIGN = 0 THEN "model" ELSE "failed")
  /\ UNCHANGED <<cfg, table, memory, lookupVars>>

\* O_DIRECT, or else buffered, or else the end.
OpenModelFile ==
  /\ step = "model"
  /\ Goes(IF cfg.opens \in {"direct", "buffered"} THEN "table" ELSE "failed")
  /\ UNCHANGED <<cfg, table, memory, lookupVars>>

rounded_down(size) == align_down(size)
rounded_chunk_size(size) ==
  IF size % RESIDCTL_ALIGN = 0 THEN size
  ELSE ((size \div RESIDCTL_ALIGN + 1) * RESIDCTL_ALIGN) % UINT64

CutLength(off, size) == Min({size, cfg.region_len - off})

BuildChunkTable ==
  LET size == rounded_chunk_size(cfg.chunk_size)
      n    == ((cfg.region_len + size - 1) % UINT64) \div size IN
  /\ step = "table" /\ cfg.specs = <<>>
  /\ IF size # 0 /\ n \in 1..UINT32_MAX
     THEN /\ table' = [i \in 1..n |-> [off |-> (i - 1) * size, len |-> CutLength((i - 1) * size, size)]]
          /\ Goes("budget")
     ELSE Goes("failed") /\ UNCHANGED table
  /\ UNCHANGED <<cfg, memory, lookupVars>>

\* The running end of the specifications, before the i-th.  Each is compared with
\* the offset that it should be, so it is the end of the one before; it wraps.
expect_off(specs, i) == IF i = 1 THEN 0 ELSE (specs[i - 1].off + specs[i - 1].len) % UINT64

Accept(specs) ==
  /\ \A i \in DOMAIN specs :
       /\ specs[i].off = expect_off(specs, i)
       /\ specs[i].file_off = specs[i].off
       /\ specs[i].len # 0
       /\ specs[i].off % RESIDCTL_ALIGN = 0
       /\ i < Len(specs) => specs[i].len % RESIDCTL_ALIGN = 0
  /\ expect_off(specs, Len(specs) + 1) = cfg.region_len

BuildChunkTableExplicit ==
  /\ step = "table" /\ cfg.specs # <<>>
  /\ IF Accept(cfg.specs)
     THEN /\ table' = [i \in DOMAIN cfg.specs |-> [off |-> cfg.specs[i].off, len |-> cfg.specs[i].len]]
          /\ Goes("budget")
     ELSE Goes("failed") /\ UNCHANGED table
  /\ UNCHANGED <<cfg, memory, lookupVars>>

ComputeBudget ==
  /\ step = "budget"
  /\ Goes(IF cfg.budget_bytes # 0 THEN "up" ELSE "failed")
  /\ UNCHANGED <<cfg, table, memory, lookupVars>>

-----------------------------------------------------------------------------
(* pager_lookup, one round of its loop a step, and fetch_read. *)

\* What a table does that was accepted although an end of it wraps is not modelled.
Wraps == \E i \in DOMAIN cfg.specs : cfg.specs[i].off + cfg.specs[i].len >= UINT64

Fault(a) ==
  /\ step = "up" /\ ~ Wraps
  /\ addr' = a /\ lo' = 0 /\ hi' = NChunks
  /\ Goes("lookup")
  /\ UNCHANGED <<cfg, table, memory>>

mid == lo + (hi - lo) \div 2

SkipTwo(m) == m + 2
Above(m) == m + 1

\* With lo >= hi there is no covering chunk and the pager aborts: it stays here.
Bisect ==
  LET c == Chunk(mid) IN
  /\ step = "lookup" /\ lo < hi
  /\ \/ addr < c.off /\ hi' = mid /\ UNCHANGED <<lo, step>>
     \/ addr >= c.off + c.len /\ lo' = Above(mid) /\ UNCHANGED <<hi, step>>
     \/ addr \in c.off..(c.off + c.len - 1) /\ Goes("found") /\ UNCHANGED <<lo, hi>>
  /\ UNCHANGED <<cfg, table, memory, addr>>

\* Whole pages come from the file by O_DIRECT up to the last page that the file
\* fills, then its tail by a buffered read, then zeros to the end of the page.
\* The zeros start at the end of the file wherever the chunk starts.
FillWithoutTail(c) ==
  LET fs == cfg.file_size IN
  [b \in Bytes |-> IF b \notin c.off..(align_up(c.off + c.len) - 1) THEN memory[b]
                   ELSE IF b < align_down(fs) THEN "file" ELSE "zero"]
Fill(c) ==
  LET first == align_down(c.off)
      end   == align_up(c.off + c.len)
      fs    == cfg.file_size IN
  [b \in Bytes |-> IF fs < end /\ b \in fs..(end - 1) THEN "zero"
                   ELSE IF b \in first..(end - 1) THEN "file"
                   ELSE memory[b]]

FetchRead ==
  LET c == Chunk(mid) IN
  /\ step = "found"
  /\ memory' = Fill(c)
  /\ Goes("up")
  /\ UNCHANGED <<cfg, table, lookupVars>>

Startup == CheckConfig \/ RegisterMappingA \/ OpenModelFile \/ BuildChunkTable \/ BuildChunkTableExplicit \/ ComputeBudget
Handle  == Bisect \/ FetchRead

Next == Startup \/ (\E a \in Bytes : Fault(a)) \/ Handle

Spec == Init /\ [][Next]_vars /\ WF_vars(Startup) /\ WF_vars(Handle)

-----------------------------------------------------------------------------
ChunkBytes(i) == table[i].off..(table[i].off + table[i].len - 1)

TypeOK ==
  /\ cfg \in Configs
  /\ step \in {"checks", "register", "model", "table", "budget", "up", "failed", "lookup", "found"}
  /\ table \in Seq([off : Word, len : Word \ {0}])
  /\ memory \in [Bytes -> {"hole", "file", "zero"}]
  /\ addr \in Nat
  /\ lo \in 0..hi /\ hi \in 0..NChunks

\* A table is in order, without gap or overlap: every byte of the region is in
\* one chunk, and two chunks never share a page.
TableTilesRegion ==
  table # <<>> /\ ~ Wraps =>
    /\ UNION {ChunkBytes(i) : i \in DOMAIN table} = Bytes
    /\ \A i, j \in DOMAIN table : \A b \in ChunkBytes(i), d \in ChunkBytes(j) :
         i < j => b < d /\ align_down(b) # align_down(d)

SpecBytes(i) == cfg.specs[i].off..(cfg.specs[i].off + cfg.specs[i].len - 1)

\* Explicit specifications are good if they cover each byte once, in order and on
\* pages, each from its own place in the file.
Tiling ==
  /\ \A i \in DOMAIN cfg.specs :
       /\ SpecBytes(i) # {} /\ SpecBytes(i) \subseteq Bytes
       /\ cfg.specs[i].file_off = cfg.specs[i].off
       /\ cfg.specs[i].off % RESIDCTL_ALIGN = 0
  /\ \A b \in Bytes : Cardinality({i \in DOMAIN cfg.specs : b \in SpecBytes(i)}) = 1
  /\ \A i, j \in DOMAIN cfg.specs : i < j => cfg.specs[i].off < cfg.specs[j].off

\* A chunk size is good if it rounds to a number of bytes that can be added to the
\* region and cuts it into as many chunks as can be counted.
Cuttable ==
  LET size == align_up(cfg.chunk_size) IN
  cfg.chunk_size # 0 /\ cfg.region_len + size <= UINT64 /\ cfg.region_len <= UINT32_MAX * size

Usable == IF cfg.specs # <<>> THEN Tiling ELSE Cuttable
Sound  ==
  /\ cfg.region_len # 0 /\ cfg.region_len % RESIDCTL_ALIGN = 0
  /\ cfg.swap_max = "0" /\ cfg.opens # "neither" /\ cfg.budget_bytes # 0

\* Whatever the sizes, start-up fails only for a reason the user can be told:
\* each malformed table is refused and nothing else is.
StartupFailsForCause ==
  /\ step = "failed" => ~ (Sound /\ Usable)
  /\ step = "up" => Sound /\ (Usable \/ Wraps)

\* Start-up ends with a table that tiles the region or refuses the run for cause,
\* rounding and cutting included, and for chunk sizes the wrapping (region.c:190-278).
StartupSound == TypeOK /\ TableTilesRegion /\ StartupFailsForCause

\* What is fetched is the file, and zeros only past its end.
FetchedBytesAreTheFile ==
  \A b \in Bytes : memory[b] # "hole" => (memory[b] = "file" <=> b < cfg.file_size)

\* A chunk whose fault is answered has all its bytes, and no chunk has some of
\* them only.  A file that ends a whole chunk before the region is the exception:
\* the zeros of fetch.c:66 then start in chunks that were not asked for, although
\* fetch.c:51 speaks of the last chunk only.
ChunksFilledWhole ==
  ~ Wraps /\ (\A i \in DOMAIN table : table[i].off < cfg.file_size) =>
    \A i \in DOMAIN table : \A b, d \in ChunkBytes(i) : memory[b] = "hole" => memory[d] = "hole"

\* The bisection keeps the covering chunk between its bounds, so that it never ends
\* without one, and ends with that one.
LookupCovers ==
  /\ step = "lookup" => \E i \in lo..(hi - 1) : addr \in ChunkBytes(i + 1)
  /\ step = "found" => addr \in ChunkBytes(mid + 1)

\* fetch_read composes direct reads, a buffered tail and zeros into the chunk's
\* bytes, all of them and no others (fetch.c:51-67, docs/02-design.md I-5), and
\* the chunk is the one of the fault (pager.c:22-37).
FetchesWhole == LookupCovers /\ FetchedBytesAreTheFile /\ ChunksFilledWhole

\* Every lookup ends at the covering chunk and is answered: none circles, and none
\* finds no chunk for an address of the region (pager.c:22-37, :232-238).
LookupReturns == step = "lookup" ~> step = "up"

=============================================================================

---------------------------- MODULE MCChunkTable ----------------------------
(* Instances of ChunkTable for TLC. *)
EXTENDS ChunkTable

Config(region_len, chunk_size, specs, file_size, budget_bytes, swap_max, opens) ==
  [region_len |-> region_len, chunk_size |-> chunk_size, specs |-> specs, file_size |-> file_size,
   budget_bytes |-> budget_bytes, swap_max |-> swap_max, opens |-> opens]

\* Every region of up to 8 bytes, every chunk size, a file that ends in the last
\* page or later.
Uniform ==
  UNION {{Config(r, c, <<>>, f, 1, "0", "direct") : f \in {align_down(Max({0, r - 1})) + 1, r + 1} \cup ({r} \ {0})} :
           r \in 0..8, c \in 0..(UINT64 - 1)}

Spec1(off, len, shift) == [off |-> off, len |-> len, file_off |-> off + shift]
Pieces == {Spec1(off, len, 0) : off \in 0..6, len \in 0..5} \cup {Spec1(0, 2, 2)}
Explicit ==
  {Config(6, 0, s, 5, 1, "0", "direct") : s \in [1..1 -> Pieces] \cup [1..2 -> Pieces]
       \cup {<<a, b, c>> : a \in {p \in Pieces : p.off = 0}, b \in {p \in Pieces : p.off <= 2}, c \in {p \in Pieces : p.off = 4}}}

Refused ==
  {Config(4, 2, <<>>, 4, b, s, o) : b \in {0, 1}, s \in {"0", "max"}, o \in {"direct", "buffered", "neither"}}

\* A file that is up to several chunks shorter than the region of replay_main.
ShortFile == {Config(6, 2, <<>>, f, 1, "0", "direct") : f \in 1..6}

\* Tables whose ends are right modulo UINT64.
Wrapping ==
  {Config(6, 0, s, 5, 1, "0", "direct") :
     s \in {<<Spec1(0, 8, 0), Spec1(8, 14, 0)>>, <<Spec1(0, 8, 0), Spec1(8, 8, 0), Spec1(0, 6, 0)>>}}

AllConfigs == Uniform \cup Explicit \cup Refused \cup ShortFile \cup Wrapping

=============================================================================

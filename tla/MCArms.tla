------------------------------- MODULE MCArms -------------------------------
(* Instances of Arms for TLC: pages of two bytes. *)
EXTENDS Arms

Argument(r, c, n, t, h, s, f, p) ==
  [region_len |-> r, chunk_size |-> c, n_passes |-> n, threads |-> t, hints |-> h,
   stale |-> s, file_len |-> f, proc_io |-> p]

\* Chunks of whole pages that divide the region, which the sweep scripts pass.
Even ==
  {Argument(r, c, n, t, h, s, f, p) :
     r \in {4, 8}, c \in {2, 4}, n \in {1, 2}, t \in {1, 2, 3}, h \in BOOLEAN, s \in BOOLEAN,
     f \in {6, 9}, p \in BOOLEAN}

\* Any chunk size, the larger than the region too, without hints.
Uneven ==
  {Argument(r, c, n, t, FALSE, s, r, TRUE) :
     r \in {4, 6, 8}, c \in 1..9, n \in 0..2, t \in 1..3, s \in BOOLEAN}

\* More chunks than the 32 bits of a count, here 3, can count.
Wide == {Argument(16, c, 1, t, FALSE, FALSE, 16, TRUE) : c \in 1..3, t \in 1..2}

EveryArgument == Even \cup Uneven \cup Wide

=============================================================================

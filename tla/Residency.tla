----------------------------- MODULE Residency -----------------------------
(***************************************************************************)
(* What the pager promises its users, with no queue, lock or thread in     *)
(* sight.  Chunks are claimed before they are filled, readable from the    *)
(* moment they are filled until they are dropped, and the bytes claimed or *)
(* held never exceed the budget.  A reader blocks only on a chunk that is  *)
(* not readable, and is released in the end; a release is no guarantee     *)
(* that the chunk is still there, so the reader tries again.               *)
(***************************************************************************)
EXTENDS Integers, FiniteSets

CONSTANTS Chunks, Readers, NoChunk

VARIABLES
  ChunkLen, budget_bytes,    \* of the region, fixed when it starts up
  claimed,     \* chunks whose bytes are reserved and that are being filled
  held,        \* chunks resident
  readable,    \* chunks that can be read without blocking
  blocked      \* what each reader waits for

region == <<ChunkLen, budget_bytes>>
vars   == <<region, claimed, held, readable, blocked>>

\* The k-th byte of a chunk is <<c, k>>.
Bytes(S) == Cardinality(UNION {{c} \X (1..ChunkLen[c]) : c \in S})

Init ==
  /\ claimed = {}
  /\ held = {}
  /\ readable = {}
  /\ blocked = [t \in Readers |-> NoChunk]

Claim(c) ==
  /\ c \notin claimed \cup held
  /\ Bytes(claimed \cup held \cup {c}) <= budget_bytes
  /\ claimed' = claimed \cup {c}
  /\ UNCHANGED <<held, readable, blocked>>

\* Filling a chunk releases everybody who waits for it.
Fill(c) ==
  /\ c \in claimed
  /\ readable' = readable \cup {c}
  /\ blocked' = [t \in Readers |-> IF blocked[t] = c THEN NoChunk ELSE blocked[t]]
  /\ UNCHANGED <<claimed, held>>

Keep(c) ==
  /\ c \in claimed \cap readable
  /\ claimed' = claimed \ {c}
  /\ held' = held \cup {c}
  /\ UNCHANGED <<readable, blocked>>

Drop(c) ==
  /\ c \in held
  /\ held' = held \ {c}
  /\ readable' = readable \ {c}
  /\ UNCHANGED <<claimed, blocked>>

Block(t, c) ==
  /\ blocked[t] = NoChunk
  /\ c \notin readable
  /\ blocked' = [blocked EXCEPT ![t] = c]
  /\ UNCHANGED <<claimed, held, readable>>

\* A fetch that is given up releases its readers without filling the chunk.
GiveUp(c) ==
  /\ blocked' = [t \in Readers |-> IF blocked[t] = c THEN NoChunk ELSE blocked[t]]
  /\ UNCHANGED <<claimed, held, readable>>

Next ==
  /\ \/ \E c \in Chunks : Claim(c) \/ Fill(c) \/ Keep(c) \/ Drop(c) \/ GiveUp(c)
     \/ \E t \in Readers, c \in Chunks : Block(t, c)
  /\ UNCHANGED region

Spec == Init /\ [][Next]_vars

=============================================================================

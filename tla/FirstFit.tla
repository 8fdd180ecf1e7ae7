------------------------------- MODULE FirstFit -------------------------------
(***************************************************************************)
(* What minix/alloc.c promises of alloc_mem and free_mem, without the hole *)
(* table: memory is a set of clicks, a request gets the lowest run of free *)
(* clicks it fits in, and is refused only when there is none.              *)
(***************************************************************************)
EXTENDS Naturals, FiniteSets

CONSTANTS Memory, Sizes, Align, NO_MEM

VARIABLES
  free,    \* the clicks that can be given out
  held,    \* the blocks callers have
  answer   \* what the last alloc_mem returned

fvars == <<free, held, answer>>

Run(b, n) == b .. (b + n - 1)
Fits(n) == {b \in free : Run(b, n) \subseteq free}
Lowest(S) == CHOOSE b \in S : \A c \in S : b <= c
Up(b) == ((b + Align - 1) \div Align) * Align   \* the next multiple of Align

FInit == free = Memory /\ held = {} /\ answer = NO_MEM

Give(b, n) ==
  /\ held' = held \cup {[base |-> b, len |-> n]}
  /\ answer' = b

Get(n) ==
  /\ Fits(n) # {} /\ Give(Lowest(Fits(n)), n)
  /\ free' = free \ Run(Lowest(Fits(n)), n)

(* An aligned block keeps what its request was padded with, but for the clicks
   in front of the block. *)
GetAligned(n) ==
  /\ Fits(n + Align) # {}
  /\ LET b == Lowest(Fits(n + Align))
     IN  /\ Give(Up(b), n)
         /\ free' = free \ (Up(b) .. (b + n + Align - 1))

Refuse(n) ==
  /\ Fits(n) = {}
  /\ answer' = NO_MEM /\ UNCHANGED <<free, held>>

PutBack(b) ==
  /\ b \in held
  /\ held' = held \ {b} /\ free' = free \cup Run(b.base, b.len)
  /\ UNCHANGED answer

FNext ==
  \/ \E n \in Sizes : Get(n) \/ GetAligned(n) \/ Refuse(n) \/ Refuse(n + Align)
  \/ \E b \in held : PutBack(b)

FSpec == FInit /\ [][FNext]_fvars
=============================================================================

------------------------------ MODULE PageRanges ------------------------------
(* minix/alloc.c in its paged mode: the ranges of free pages, kept in an AVL   *)
(* tree by address, and the allocations made from them, of one block           *)
(* (alloc_mem) or of a list of blocks (alloc_mem_in_list).                     *)
(*                                                                             *)
(* The server is one thread, but an allocation is a sequence of calls that     *)
(* change the ranges: each call of alloc_pages or free_pages is one step. The  *)
(* AVL tree and the slab allocator, which takes pages of the very ranges its   *)
(* nodes describe, are other files; the tree is a function from the first page *)
(* of a range to its size.                                                     *)
EXTENDS Naturals, Sequences, FiniteSets, FiniteSetsExt, Functions

CONSTANTS
    Chunks,                     \* the memory: a function from first pages to sizes
    Boundary16, Boundary1,      \* the limits of PAF_LOWER16MB and PAF_LOWER1MB
    Align,                      \* the alignment of PAF_ALIGN64K
    Sizes,                      \* bound: how many pages are asked for
    Flags                       \* bound: the sets of PAF_ flags asked with

VARIABLES
    ranges,     \* addravl
    slab,       \* pages the slab allocator has
    held,       \* the blocks that callers have, <<first page, pages>>
    yielded,    \* those of them that free_yielded may take back
    lost,       \* history: pages taken for an alignment and given to nobody
    call,       \* the allocation under way, or the last one
    panicked    \* the server has panicked

vars == <<ranges, slab, held, yielded, lost, call, panicked>>

Pages(base, n) == base .. base + n - 1
PagesOf(blocks) == UNION {Pages(b[1], b[2]) : b \in blocks}
Free == UNION {Pages(b, ranges[b]) : b \in DOMAIN ranges}
Memory == UNION {Pages(b, Chunks[b]) : b \in DOMAIN Chunks}

\* The chunks are not empty and apart, as the kernel delivers them; FIRSTBLOCK is
\* for alloc_mem_in_list to set.
ASSUME PagesAssumption ==
    /\ DOMAIN Chunks \subseteq Nat /\ Chunks \in [DOMAIN Chunks -> Nat \ {0}]
    /\ \A a, b \in DOMAIN Chunks : a < b => a + Chunks[a] < b
    /\ \E top \in Memory : Memory \subseteq 0 .. top
    /\ Align \in Nat \ {0} /\ Sizes \subseteq Nat \ {0}
    /\ Flags \subseteq SUBSET {"CONTIG", "ALIGN64K", "LOWER16MB", "LOWER1MB"}

Put(r, base, n) == [b \in DOMAIN r \cup {base} |-> IF b = base THEN n ELSE r[b]]
Without(r, base) == [b \in DOMAIN r \ {base} |-> r[b]]

Idle == [pc |-> "idle", list |-> FALSE, want |-> 0, rem |-> 0, flags |-> {},
         head |-> <<>>, freed |-> 0, failed |-> "no"]

\* Every chunk of memory has been freed into the tree.
Init ==
    /\ ranges = Chunks
    /\ slab = {} /\ held = {} /\ yielded = {} /\ lost = {}
    /\ call = Idle
    /\ panicked = FALSE

-----------------------------------------------------------------------------
(* alloc_pages *)

\* Faulty: a range must be larger than the request.
FitsStrictly(n, flags) ==
    {b \in DOMAIN ranges : ranges[b] > n \/ "FIRSTBLOCK" \in flags}

Fits(n, flags) == {b \in DOMAIN ranges : ranges[b] >= n \/ "FIRSTBLOCK" \in flags}

\* The ranges are tried from below for a block in low memory, else from above.
Found(n, flags) ==
    IF flags \cap {"LOWER16MB", "LOWER1MB"} # {}
    THEN Min(Fits(n, flags)) ELSE Max(Fits(n, flags))

\* The limit is held against the beginning of the range.
TooHigh(b, n, flags) ==
    \/ "LOWER16MB" \in flags /\ b + n > Boundary16
    \/ "LOWER1MB" \in flags /\ b + n > Boundary1

NoMem(n, flags) ==
    ~(Fits(n, flags) # {} /\ ~TooHigh(Found(n, flags), n, flags))

\* With FIRSTBLOCK the block may be smaller than the request.
Got(n, flags) == Min({n, ranges[Found(n, flags)]})

\* The block is the end of the range.
Block(n, flags) ==
    LET b == Found(n, flags)
    IN  <<b + ranges[b] - Got(n, flags), Got(n, flags)>>

\* The ranges r without the last n pages of the range at b.
Cut(r, b, n) == IF r[b] = n THEN Without(r, b) ELSE [r EXCEPT ![b] = @ - n]

-----------------------------------------------------------------------------
(* free_pages *)

\* What SLABALLOC may do with the ranges r: take its node from a page it has or
\* from a new one, the last of all; or fail for want of a page.
SlabAlloc(r) ==
    {[ok |-> TRUE, ranges |-> r, slab |-> slab]} \cup
    (IF DOMAIN r = {}
     THEN {[ok |-> FALSE, ranges |-> r, slab |-> slab]}
     ELSE LET b == Max(DOMAIN r)
          IN  {[ok |-> TRUE, ranges |-> Cut(r, b, 1), slab |-> slab \cup {b + r[b] - 1}]})

\* Faulty: only the higher neighbour is merged.
MergedLowerNever(r, base) == r

\* The range at base joins its lower neighbour if that ends where it begins.
MergedLower(r, base) ==
    LET below == {b \in DOMAIN r : b < base}
        low == Max(below)
    IN  IF below # {} /\ low + r[low] = base
        THEN Put(Without(r, base), low, r[low] + r[base])
        ELSE r

\* The higher neighbour is looked for before SLABALLOC, the lower one after it.
free_pages(base, n) ==
    IF base + n \in DOMAIN ranges
    THEN /\ ranges' = MergedLower(Put(Without(ranges, base + n), base,
                                      n + ranges[base + n]), base)
         /\ UNCHANGED <<slab, panicked>>
    ELSE \E s \in SlabAlloc(ranges) :
         /\ ranges' = IF s.ok THEN MergedLower(Put(s.ranges, base, n), base) ELSE ranges
         /\ slab' = s.slab
         /\ panicked' = ~s.ok

-----------------------------------------------------------------------------
(* The calls *)

Ready == call.pc = "idle" /\ ~panicked
At(pc) == call.pc = pc /\ ~panicked

\* free_mem, and free_mem_list for a block of a list.
free_mem(blk) ==
    /\ Ready /\ blk \in held \ yielded
    /\ free_pages(blk[1], blk[2])
    /\ held' = held \ {blk}
    /\ UNCHANGED <<yielded, lost, call>>

\* A caller leaves a block to the cache of free_yielded.
YieldBlock(blk) ==
    /\ Ready /\ blk \in held \ yielded
    /\ yielded' = yielded \cup {blk}
    /\ UNCHANGED <<ranges, slab, held, lost, call, panicked>>

\* An aligned block is cut out of a larger one.
alloc_mem(n, flags) ==
    /\ Ready
    /\ call' = [Idle EXCEPT !.pc = "alloc", !.want = n, !.flags = flags,
                   !.rem = IF "ALIGN64K" \in flags THEN n + Align ELSE n]
    /\ UNCHANGED <<ranges, slab, held, yielded, lost, panicked>>

\* Unless the block must be contiguous, pieces of it will do.
alloc_mem_in_list(n, flags) ==
    /\ Ready /\ "ALIGN64K" \notin flags
    /\ call' = [Idle EXCEPT !.pc = "alloc", !.list = TRUE, !.want = n, !.rem = n,
                   !.flags = IF "CONTIG" \in flags THEN flags
                             ELSE flags \cup {"FIRSTBLOCK"}]
    /\ UNCHANGED <<ranges, slab, held, yielded, lost, panicked>>

\* alloc_pages finds nothing: free_yielded is called, except after the second
\* attempt of alloc_mem ("last").
Refused ==
    /\ At("alloc") \/ At("last")
    /\ NoMem(call.rem, call.flags)
    /\ call' = IF call.pc = "alloc"
               THEN [call EXCEPT !.pc = "yield", !.freed = 0]
               ELSE [call EXCEPT !.pc = "undo", !.failed = "memory"]
    /\ UNCHANGED <<ranges, slab, held, yielded, lost, panicked>>

\* free_yielded takes back blocks, in some order, until it has the pages asked for
\* or there are no more.
FreeYielded ==
    /\ At("yield") /\ call.freed < call.rem
    /\ \E blk \in yielded :
          /\ free_pages(blk[1], blk[2])
          /\ held' = held \ {blk} /\ yielded' = yielded \ {blk}
          /\ call' = [call EXCEPT !.freed = @ + blk[2]]
    /\ UNCHANGED lost

\* Faulty: the list allocation tries again whether anything was freed or not.
YieldedAlways ==
    /\ At("yield") /\ (call.freed >= call.rem \/ yielded = {})
    /\ call' = IF call.list THEN [call EXCEPT !.pc = "alloc"]
               ELSE [call EXCEPT !.pc = "last"]
    /\ UNCHANGED <<ranges, slab, held, yielded, lost, panicked>>

\* Faulty: the next attempt of the list allocation starts over with the whole size.
YieldedStartsOver ==
    /\ At("yield") /\ (call.freed >= call.rem \/ yielded = {})
    /\ call' = IF ~call.list THEN [call EXCEPT !.pc = "last"]
               ELSE IF call.freed > 0 THEN [call EXCEPT !.pc = "alloc", !.rem = call.want]
               ELSE [call EXCEPT !.pc = "undo", !.failed = "memory"]
    /\ UNCHANGED <<ranges, slab, held, yielded, lost, panicked>>

\* free_yielded returns. alloc_mem tries once more, the list allocation until
\* nothing was freed: then it gives up.
Yielded ==
    /\ At("yield") /\ (call.freed >= call.rem \/ yielded = {})
    /\ call' = IF ~call.list THEN [call EXCEPT !.pc = "last"]
               ELSE IF call.freed > 0 THEN [call EXCEPT !.pc = "alloc"]
               ELSE [call EXCEPT !.pc = "undo", !.failed = "memory"]
    /\ UNCHANGED <<ranges, slab, held, yielded, lost, panicked>>

\* Where the caller's block begins in the block from base.
FirstAligned(base) ==
    LET o == base % Align
    IN  IF "ALIGN64K" \in call.flags /\ o > 0 THEN base + (Align - o) ELSE base

\* alloc_mem has its block. The pages in front of the first aligned one are freed
\* next; those behind the block nobody knows about.
Taken ==
    /\ At("alloc") \/ At("last")
    /\ ~call.list /\ ~NoMem(call.rem, call.flags)
    /\ LET blk == Block(call.rem, call.flags)
           first == FirstAligned(blk[1])
       IN  /\ ranges' = Cut(ranges, Found(call.rem, call.flags), blk[2])
           /\ held' = held \cup {<<first, call.want>>}
           /\ lost' = lost \cup (Pages(blk[1], blk[2]) \ (blk[1] .. first + call.want - 1))
           /\ call' = IF first = blk[1] THEN Idle
                      ELSE [call EXCEPT !.pc = "align",
                                        !.head = <<<<blk[1], first - blk[1]>>>>]
    /\ UNCHANGED <<slab, yielded, panicked>>

\* alloc_mem_in_list has a piece, and puts it on its list if there is a node for it.
\* Without one it gives everything back, the piece last.
Piece ==
    /\ At("alloc") /\ call.list /\ ~NoMem(call.rem, call.flags)
    /\ LET blk == Block(call.rem, call.flags)
           left == call.rem - blk[2]
       IN  \E s \in SlabAlloc(Cut(ranges, Found(call.rem, call.flags), blk[2])) :
              /\ ranges' = s.ranges /\ slab' = s.slab
              /\ call' = IF s.ok
                    THEN [call EXCEPT !.rem = left, !.head = <<blk>> \o @,
                                      !.pc = IF left = 0 THEN "done" ELSE @]
                    ELSE [call EXCEPT !.pc = "undo", !.failed = "node",
                                      !.head = Append(@, blk)]
    /\ UNCHANGED <<held, yielded, lost, panicked>>

\* The list is complete and goes to the caller.
Returned ==
    /\ At("done")
    /\ held' = held \cup Range(call.head)
    /\ call' = Idle
    /\ UNCHANGED <<ranges, slab, yielded, lost, panicked>>

\* Faulty: free_mem_list(head, 0), which frees the nodes and not the pages.
UndoNodesOnly ==
    /\ At("undo") \/ At("align")
    /\ call.head # <<>>
    /\ call' = [call EXCEPT !.head = Tail(@)]
    /\ UNCHANGED <<ranges, slab, held, yielded, lost, panicked>>

\* free_mem_list, or the free_mem of what lies in front of an aligned block.
Undo ==
    /\ At("undo") \/ At("align")
    /\ call.head # <<>>
    /\ free_pages(call.head[1][1], call.head[1][2])
    /\ call' = [call EXCEPT !.head = Tail(@)]
    /\ UNCHANGED <<held, yielded, lost>>

Undone ==
    /\ At("undo") \/ At("align")
    /\ call.head = <<>>
    /\ call' = Idle
    /\ UNCHANGED <<ranges, slab, held, yielded, lost, panicked>>

Step == Refused \/ FreeYielded \/ Yielded \/ Taken \/ Piece \/ Returned \/ Undo \/ Undone

Next ==
    \/ \E blk \in held : free_mem(blk) \/ YieldBlock(blk)
    \/ \E n \in Sizes, flags \in Flags : alloc_mem(n, flags) \/ alloc_mem_in_list(n, flags)
    \/ Step

Spec == Init /\ [][Next]_vars

\* The server runs to the end of the function it is in.
FairSpec == Spec /\ WF_vars(Step)

-----------------------------------------------------------------------------
(* Properties *)

\* The variables keep their types; blocks and ranges are not empty and lie in the
\* memory.
TypeOK ==
    /\ DOMAIN ranges \subseteq Memory /\ \A b \in DOMAIN ranges : ranges[b] \in Nat \ {0}
    /\ slab \subseteq Memory /\ lost \subseteq Memory
    /\ \A blk \in held : blk[2] \in Nat \ {0} /\ Pages(blk[1], blk[2]) \subseteq Memory
    /\ yielded \subseteq held
    /\ call.pc \in {"idle", "alloc", "last", "yield", "align", "done", "undo"}
    /\ call.list \in BOOLEAN /\ call.want \in Nat /\ call.rem \in Nat
    /\ call.freed \in Nat /\ call.failed \in {"no", "memory", "node"}
    /\ panicked \in BOOLEAN

\* Sorted, apart and coalesced, also when SLABALLOC has cut a range between the two
\* merges: no range ends where or behind where the next one begins.
RangesSane ==
    TypeOK /\ \A a, b \in DOMAIN ranges : a < b => a + ranges[a] < b

\* The blocks the allocation under way has in its hands.
InHand == Range(call.head)

\* Every page is in one place: free, the slab allocator's, in one caller's block,
\* in the hands of an allocation under way, or lost behind an aligned block. In
\* particular an alloc_mem_in_list that fails has given back what it had taken.
PagesPartitioned ==
    LET parts == <<Free, slab, PagesOf(held), PagesOf(InHand), lost>>
    IN  ~panicked =>
        /\ \A i, j \in DOMAIN parts : i # j => parts[i] \cap parts[j] = {}
        /\ UNION Range(parts) = Memory
        /\ \A a, b \in held \cup InHand :
              a # b => Pages(a[1], a[2]) \cap Pages(b[1], b[2]) = {}

\* A list allocation has what it was asked for, no more and no less, when it ends
\* well, and knows at each moment what is missing.
ListAddsUp ==
    call.list /\ call.failed = "no" =>
        /\ call.rem + Cardinality(PagesOf(Range(call.head))) = call.want
        /\ call.pc = "done" => call.rem = 0

\* An allocation fails for want of memory only if there is none: no free page for
\* a list of pieces, no run of free pages as long as the block for a block. (Calls
\* for low memory give up sooner, see TooHigh.)
FailsOnlyWithoutMemory ==
    [][call'.failed = "memory" /\ call.failed = "no"
          /\ call.flags \cap {"LOWER16MB", "LOWER1MB"} = {} =>
          IF "FIRSTBLOCK" \in call.flags THEN Free = {}
          ELSE \A p \in Free : ~(Pages(p, call.rem) \subseteq Free)]_vars

\* Every call ends: free_yielded runs out of blocks to take back.
CallsEnd == call.pc # "idle" ~> call.pc = "idle" \/ panicked
=============================================================================

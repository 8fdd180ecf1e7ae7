------------------------------- MODULE HoleList -------------------------------
(***************************************************************************)
(* The hole table of minix/alloc.c in its unpaged mode: a table of slots,  *)
(* each on the list of holes, sorted by address, or on the list of unused  *)
(* slots.  A list table is a value [hole, head, free]: the slots and the   *)
(* two list heads, hole_head and free_slots.                               *)
(***************************************************************************)
EXTENDS Naturals, Sequences, FiniteSets

CONSTANTS
  NrHoles,   \* _NR_HOLES
  Chunks,    \* the chunks of mem_init, a sequence of [base, size]
  Sizes,     \* bound: the request sizes of the callers, in clicks
  Align,     \* align_clicks of PAF_ALIGN64K
  NULL, NO_MEM

Clicks(base, len) == base .. (base + len - 1)

ASSUME HoleAssumption ==
  /\ NrHoles \in Nat \ {0} /\ Align \in Nat \ {0}
  /\ Sizes \subseteq Nat \ {0}
  /\ Chunks \in Seq([base : Nat, size : Nat]) /\ Len(Chunks) < NrHoles
  /\ \A i, j \in 1 .. Len(Chunks) :   \* no two chunks overlap
       i # j => Clicks(Chunks[i].base, Chunks[i].size)
                  \cap Clicks(Chunks[j].base, Chunks[j].size) = {}
  /\ NULL \notin Nat /\ NO_MEM \notin Nat

Slots == 1 .. NrHoles
Memory == UNION {Clicks(Chunks[i].base, Chunks[i].size) : i \in DOMAIN Chunks}

VARIABLES
  table,     \* hole[], hole_head and free_slots
  held,      \* history: the blocks the callers have
  lost,      \* history: clicks taken for an alignment and given to nobody
  answer,    \* what the last alloc_mem returned
  panicked   \* "hole table full"

vars == <<table, held, lost, answer, panicked>>

-----------------------------------------------------------------------------
(* The slots from p on, in list order. *)
From(t, p) ==
  LET Chain[q \in Slots \cup {NULL}] ==
        IF q = NULL THEN <<>> ELSE <<q>> \o Chain[t.hole[q].next]
  IN  Chain[p]
Holes(t) == From(t, t.head)

(* del_slot *)
DelSlotLeaks(t, prev, hp) ==   \* faulty: the slot does not go on free_slots
  IF hp = t.head THEN [t EXCEPT !.head = t.hole[hp].next]
  ELSE [t EXCEPT !.hole[prev].next = t.hole[hp].next]

DelSlot(t, prev, hp) ==
  LET next == t.hole[hp].next
      cut  == IF hp = t.head THEN [t EXCEPT !.head = next]
              ELSE [t EXCEPT !.hole[prev].next = next]
  IN  [cut EXCEPT !.hole[hp] = [next |-> t.free, base |-> 0, len |-> 0], !.free = hp]

(* merge: hp absorbs its successor, then it or the successor absorbs the next. *)
Absorbs(t, hp) ==
  LET next == t.hole[hp].next
  IN  next # NULL /\ t.hole[hp].base + t.hole[hp].len = t.hole[next].base
Absorb(t, hp) ==
  LET next == t.hole[hp].next
  IN  DelSlot([t EXCEPT !.hole[hp].len = @ + t.hole[next].len], hp, next)

MergeOnce(t, hp) == IF Absorbs(t, hp) THEN Absorb(t, hp) ELSE t   \* faulty: one step only

Merge(t, hp) ==
  IF t.hole[hp].next = NULL THEN t
  ELSE LET first  == IF Absorbs(t, hp) THEN Absorb(t, hp) ELSE t
           second == IF Absorbs(t, hp) THEN hp ELSE t.hole[hp].next
       IN  IF Absorbs(first, second) THEN Absorb(first, second) ELSE first

(* free_mem once a slot is there: prev is the last of the leading holes below base. *)
FreeMem(t, base, clicks) ==
  LET new   == t.free
      below == {i \in DOMAIN Holes(t) : \A j \in 1 .. i : t.hole[Holes(t)[j]].base < base}
      taken == [t EXCEPT !.hole[new].base = base, !.hole[new].len = clicks,
                         !.free = t.hole[new].next]
  IN  IF below = {}
      THEN Merge([taken EXCEPT !.hole[new].next = t.head, !.head = new], new)
      ELSE LET prev == Holes(t)[Cardinality(below)]
           IN  Merge([taken EXCEPT !.hole[new].next = t.hole[prev].next,
                                   !.hole[prev].next = new], prev)

(* alloc_mem: the places in the list of the holes that are big enough ... *)
BigStrictly(t, clicks) ==   \* faulty: a hole of the exact size is passed over
  {i \in DOMAIN Holes(t) : t.hole[Holes(t)[i]].len > clicks}
Big(t, clicks) == {i \in DOMAIN Holes(t) : t.hole[Holes(t)[i]].len >= clicks}
First(S) == CHOOSE i \in S : \A j \in S : i <= j

(* ... and a piece bitten off the hole at place i. *)
BiteEnd(t, i, clicks) ==   \* faulty: the piece comes off the other end
  LET hp == Holes(t)[i]
      bitten == [t EXCEPT !.hole[hp].len = @ - clicks]
  IN  IF bitten.hole[hp].len = 0
      THEN DelSlot(bitten, IF i = 1 THEN NULL ELSE Holes(t)[i - 1], hp) ELSE bitten

Bite(t, i, clicks) ==
  LET hp == Holes(t)[i]
      bitten == [t EXCEPT !.hole[hp].base = @ + clicks, !.hole[hp].len = @ - clicks]
  IN  IF bitten.hole[hp].len = 0
      THEN DelSlot(bitten, IF i = 1 THEN NULL ELSE Holes(t)[i - 1], hp) ELSE bitten

-----------------------------------------------------------------------------
(* mem_init: the chunks are freed from the last to the first. *)
Empty ==
  [hole |-> [s \in Slots |-> [next |-> IF s = NrHoles THEN NULL ELSE s + 1,
                              base |-> 0, len |-> 0]],
   head |-> NULL, free |-> 1]
Booted ==
  LET After[i \in 0 .. Len(Chunks)] ==
        IF i = 0 THEN Empty
        ELSE LET c == Chunks[Len(Chunks) + 1 - i]
             IN  IF c.size > 0 THEN FreeMem(After[i - 1], c.base, c.size) ELSE After[i - 1]
  IN  After[Len(Chunks)]

Init ==
  /\ table = Booted
  /\ held = {} /\ lost = {} /\ answer = NO_MEM /\ panicked = FALSE

Panic == panicked' = TRUE /\ UNCHANGED <<table, held, lost, answer>>

Give(base, clicks) ==
  /\ held' = held \cup {[base |-> base, len |-> clicks]}
  /\ answer' = base /\ UNCHANGED panicked

(* alloc_mem without PAF_ALIGN64K. *)
Alloc(clicks) ==
  /\ ~panicked /\ Big(table, clicks) # {}
  /\ LET i == First(Big(table, clicks))
     IN  /\ table' = Bite(table, i, clicks)
         /\ Give(table.hole[Holes(table)[i]].base, clicks)
  /\ UNCHANGED lost

(* alloc_mem with PAF_ALIGN64K: the clicks in front of the boundary go back
   through free_mem, those behind the block stay allocated. *)
AllocAligned(clicks) ==
  /\ ~panicked /\ Big(table, clicks + Align) # {}
  /\ LET i     == First(Big(table, clicks + Align))
         start == table.hole[Holes(table)[i]].base
         t     == Bite(table, i, clicks + Align)
         skip  == IF start % Align = 0 THEN 0 ELSE Align - (start % Align)
         base  == start + skip
     IN  IF skip > 0 /\ t.free = NULL THEN Panic
         ELSE /\ table' = IF skip = 0 THEN t ELSE FreeMem(t, start, skip)
              /\ lost' = lost \cup Clicks(base + clicks, Align - skip)
              /\ Give(base, clicks)

(* alloc_mem finds no hole; padded is the request with its alignment added. *)
Fail(padded) ==
  /\ ~panicked /\ Big(table, padded) = {}
  /\ answer' = NO_MEM /\ UNCHANGED <<table, held, lost, panicked>>

(* free_mem of a block obtained from alloc_mem. *)
Free(b) ==
  /\ ~panicked
  /\ IF table.free = NULL THEN Panic
     ELSE /\ table' = FreeMem(table, b.base, b.len)
          /\ held' = held \ {b}
          /\ UNCHANGED <<lost, answer, panicked>>

Next ==
  \/ \E n \in Sizes : Alloc(n) \/ AllocAligned(n) \/ Fail(n) \/ Fail(n + Align)
  \/ \E b \in held : Free(b)

Spec == Init /\ [][Next]_vars

-----------------------------------------------------------------------------
(* Type invariant. *)
TypeOK ==
  /\ table.hole \in [Slots -> [next : Slots \cup {NULL}, base : Nat, len : Nat]]
  /\ table.head \in Slots \cup {NULL} /\ table.free \in Slots \cup {NULL}
  /\ \A b \in held : Clicks(b.base, b.len) \subseteq Memory
  /\ lost \subseteq Memory
  /\ panicked \in BOOLEAN

(* holes_sanity_f, which alloc.c runs at every CHECKHOLES: each slot is on one
   list and once, and the holes are in order, apart and coalesced. *)
HolesSane ==
  /\ TypeOK
  /\ LET used == Holes(table)  spare == From(table, table.free)
     IN  /\ Len(used) + Len(spare) = NrHoles
         /\ {used[i] : i \in DOMAIN used} \cup {spare[i] : i \in DOMAIN spare} = Slots
         /\ \A i \in 1 .. Len(used) - 1 :
              table.hole[used[i]].base + table.hole[used[i]].len
                < table.hole[used[i + 1]].base

HoleClicks ==
  UNION {Clicks(table.hole[s].base, table.hole[s].len) :
           s \in {Holes(table)[i] : i \in DOMAIN Holes(table)}}

(* Memory is neither given out twice nor mislaid: every click of the chunks is
   in a hole, in one block that somebody holds, or in the padding of an aligned
   block, through any sequence of alloc_mem and free_mem. *)
ClicksPartitioned ==
  /\ \A b, c \in held : b # c => Clicks(b.base, b.len) \cap Clicks(c.base, c.len) = {}
  /\ LET given == UNION {Clicks(b.base, b.len) : b \in held}
     IN  /\ HoleClicks \cap given = {} /\ (HoleClicks \cup given) \cap lost = {}
         /\ HoleClicks \cup given \cup lost = Memory

(* "hole table full" strikes only when something keeps the holes apart: with
   as many slots as blocks, padding clicks and chunks there is always a slot. *)
PanicsOnlyWhenFull ==
  panicked => NrHoles <= Cardinality(held) + Cardinality(lost) + Len(Chunks)

(* The hole table implements first fit on the set of free clicks. *)
Abstract == INSTANCE FirstFit WITH free <- HoleClicks
ImplementsFirstFit == Abstract!FSpec
=============================================================================

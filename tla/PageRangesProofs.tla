---------------------------- MODULE PageRangesProofs ----------------------------
(* Proofs about PageRanges for any memory, any sizes and any alignment: the    *)
(* ranges stay sorted, apart and coalesced, and no page is given out twice or  *)
(* mislaid.                                                                    *)
EXTENDS PageRanges, FiniteSetTheorems, WellFoundedInduction, TLAPS

\* Where the ranges r lie, and what holds of them between two calls.
FreeIn(r) == UNION {Pages(b, r[b]) : b \in DOMAIN r}
IsRanges(r) == DOMAIN r \subseteq Nat /\ r \in [DOMAIN r -> Nat \ {0}]
Apart(r) == \A a, b \in DOMAIN r : a < b => a + r[a] < b
Sane(r) == IsRanges(r) /\ Apart(r)

-----------------------------------------------------------------------------
(* The least and the largest element. *)
Before == OpToRel(<, Nat)

LEMMA BeforeIs ==
  ASSUME NEW x \in Nat, NEW y \in Nat
  PROVE  <<x, y>> \in Before <=> x < y
BY DEF Before, OpToRel

LEMMA Least ==
  ASSUME NEW S, S \subseteq Nat, S # {}
  PROVE  \E x \in S : \A y \in S : x <= y
<1>1. IsWellFoundedOn(Before, Nat)
  BY NatLessThanWellFounded DEF Before
<1>2. PICK x \in S : \A y \in S : ~ (<<y, x>> \in Before)
  BY <1>1, WFMin
<1>3. ASSUME NEW y \in S PROVE x <= y
  <2>1. x \in Nat /\ y \in Nat /\ ~ (y < x)
    BY <1>2, BeforeIs
  <2> QED BY <2>1
<1> QED BY <1>3

LEMMA MinIsLeast ==
  ASSUME NEW S, S \subseteq Nat, S # {}
  PROVE  Min(S) \in S /\ \A y \in S : Min(S) <= y
BY Least DEF Min

LEMMA MaxIsLargest ==
  ASSUME NEW S, NEW top \in Nat, S \subseteq 0 .. top, S # {}
  PROVE  Max(S) \in S /\ \A y \in S : y <= Max(S)
<1> DEFINE T == {top - x : x \in S}
<1>0. \A x \in S : x \in Nat /\ top - x \in Nat
  OBVIOUS
<1>1. T \subseteq Nat /\ T # {}
  BY <1>0
<1>2. PICK t \in T : \A u \in T : t <= u
  BY <1>1, Least
<1>3. PICK x \in S : t = top - x
  BY <1>2
<1>4. ASSUME NEW y \in S PROVE x >= y
  <2>1. top - x <= top - y
    BY <1>2, <1>3
  <2> QED BY <2>1
<1>5. Max(S) \in S /\ \A y \in S : Max(S) >= y
  BY <1>3, <1>4 DEF Max
<1> QED BY <1>5

-----------------------------------------------------------------------------
(* The operations on ranges. *)
LEMMA FreeInIs ==
  ASSUME NEW r, IsRanges(r), NEW p
  PROVE  p \in FreeIn(r) <=> p \in Nat /\ \E b \in DOMAIN r : b <= p /\ p < b + r[b]
BY DEF FreeIn, Pages, IsRanges

\* Taking n pages off the end of a range.
LEMMA CutKeeps ==
  ASSUME NEW r, Sane(r), NEW b \in DOMAIN r, NEW n \in 1 .. r[b]
  PROVE  /\ Sane(Cut(r, b, n))
         /\ FreeIn(Cut(r, b, n)) = FreeIn(r) \ Pages(b + r[b] - n, n)
         /\ Pages(b + r[b] - n, n) \subseteq FreeIn(r)
<1> DEFINE c == Cut(r, b, n)
<1>0. /\ b \in Nat /\ r[b] \in Nat \ {0} /\ n \in Nat \ {0}
      /\ r \in [DOMAIN r -> Nat \ {0}] /\ DOMAIN r \subseteq Nat
  BY DEF Sane, IsRanges
<1>1. CASE r[b] = n
  <2>1. /\ DOMAIN c = DOMAIN r \ {b} /\ \A a \in DOMAIN c : c[a] = r[a]
        /\ c \in [DOMAIN c -> Nat \ {0}]
    BY <1>0, <1>1 DEF Cut, Without
  <2>2. Sane(c)
    BY <2>1 DEF Sane, IsRanges, Apart
  <2>3. \A p \in Nat : p \in FreeIn(c) <=> p \in FreeIn(r) /\ ~ (b <= p /\ p < b + r[b])
    <3> SUFFICES ASSUME NEW p \in Nat
                 PROVE  p \in FreeIn(c) <=> p \in FreeIn(r) /\ ~ (b <= p /\ p < b + r[b])
      OBVIOUS
    <3>1. \A a \in DOMAIN r \ {b} : a <= p /\ p < a + r[a] => ~ (b <= p /\ p < b + r[b])
      BY <1>0 DEF Sane, Apart
    <3> HIDE DEF c
    <3> QED BY <2>1, <2>2, <3>1, FreeInIs DEF Sane
  <2>4. FreeIn(c) \subseteq Nat /\ FreeIn(r) \subseteq Nat
    BY <2>2, FreeInIs DEF Sane
  <2>5. Pages(b + r[b] - n, n) = {p \in Nat : b <= p /\ p < b + r[b]}
    BY <1>0, <1>1 DEF Pages
  <2> HIDE DEF c
  <2>6. FreeIn(c) = FreeIn(r) \ Pages(b + r[b] - n, n)
    BY <2>3, <2>4, <2>5
  <2>7. Pages(b + r[b] - n, n) \subseteq FreeIn(r)
    BY <2>5, FreeInIs DEF Sane
  <2> QED BY <2>2, <2>6, <2>7 DEF c
<1>2. CASE r[b] # n
  <2>1. /\ DOMAIN c = DOMAIN r /\ c[b] = r[b] - n /\ \A a \in DOMAIN r \ {b} : c[a] = r[a]
        /\ c \in [DOMAIN c -> Nat \ {0}]
    BY <1>0, <1>2 DEF Cut
  <2>2. Sane(c)
    <3>1. \A x, y \in DOMAIN c : x < y => x + c[x] < y
      BY <1>0, <2>1 DEF Sane, Apart
    <3> QED BY <1>0, <2>1, <3>1 DEF Sane, IsRanges, Apart
  <2>3. ASSUME NEW p \in Nat
        PROVE  p \in FreeIn(c) <=> p \in FreeIn(r) /\ ~ (b + r[b] - n <= p /\ p < b + r[b])
    <3>1. \A a \in DOMAIN r \ {b} : a <= p /\ p < a + r[a] => ~ (b <= p /\ p < b + r[b])
      BY <1>0 DEF Sane, Apart
    <3>2. /\ b <= p /\ p < b + c[b] <=> (b <= p /\ p < b + r[b]) /\ ~ (b + r[b] - n <= p)
          /\ b + r[b] - n <= p => b <= p
      BY <1>0, <2>1
    <3> HIDE DEF c
    <3>3. p \in FreeIn(c) <=> \E a \in DOMAIN r : a <= p /\ p < a + c[a]
      BY <2>1, <2>2, FreeInIs DEF Sane
    <3>4. p \in FreeIn(r) <=> \E a \in DOMAIN r : a <= p /\ p < a + r[a]
      BY FreeInIs DEF Sane
    <3> QED BY <2>1, <3>1, <3>2, <3>3, <3>4
  <2>4. FreeIn(c) \subseteq Nat /\ FreeIn(r) \subseteq Nat
    BY <2>2, FreeInIs DEF Sane
  <2>5. Pages(b + r[b] - n, n) = {p \in Nat : b + r[b] - n <= p /\ p < b + r[b]}
    BY <1>0 DEF Pages
  <2> HIDE DEF c
  <2>6. FreeIn(c) = FreeIn(r) \ Pages(b + r[b] - n, n)
    BY <2>3, <2>4, <2>5
  <2>7. Pages(b + r[b] - n, n) \subseteq FreeIn(r)
    <3>1. \A p \in Nat : b + r[b] - n <= p => b <= p
      BY <1>0
    <3> QED BY <2>5, <3>1, FreeInIs DEF Sane
  <2> QED BY <2>2, <2>6, <2>7 DEF c
<1> QED BY <1>1, <1>2

\* A range joins its lower neighbour: nothing else can touch it.
LEMMA MergedLowerKeeps ==
  ASSUME NEW r, IsRanges(r), NEW base \in DOMAIN r,
         \A a, b \in DOMAIN r : a < b => a + r[a] < b \/ (b = base /\ a + r[a] = b)
  PROVE  Sane(MergedLower(r, base)) /\ FreeIn(MergedLower(r, base)) = FreeIn(r)
<1> DEFINE below == {b \in DOMAIN r : b < base}
           low == Max(below)
           m == MergedLower(r, base)
<1>0. /\ base \in Nat /\ r[base] \in Nat \ {0} /\ DOMAIN r \subseteq Nat
      /\ r \in [DOMAIN r -> Nat \ {0}]
  BY DEF IsRanges
<1>1. below # {} => low \in below /\ \A y \in below : y <= low
  <2>1. below \subseteq 0 .. base
    BY <1>0
  <2> QED BY <1>0, <2>1, MaxIsLargest
<1>2. CASE below # {} /\ low + r[low] = base
  <2>1. m = Put(Without(r, base), low, r[low] + r[base])
    BY <1>2 DEF MergedLower
  <2>2. low \in DOMAIN r \ {base} /\ low \in Nat /\ r[low] \in Nat \ {0} /\ low < base
    BY <1>0, <1>1, <1>2
  <2>3. \A y \in DOMAIN r \ {base} : low < y => base < y
    BY <1>0, <1>1, <1>2
  <2> HIDE DEF low, below
  <2>4. /\ DOMAIN m = DOMAIN r \ {base} /\ m[low] = r[low] + r[base]
        /\ \A a \in DOMAIN m \ {low} : m[a] = r[a]
        /\ m \in [DOMAIN m -> Nat \ {0}]
    BY <1>0, <2>1, <2>2 DEF Put, Without
  <2> HIDE DEF m
  <2>5. ASSUME NEW a \in DOMAIN m, NEW b \in DOMAIN m, a < b PROVE a + m[a] < b
    <3>1. CASE a = low
      <4>1. base < b /\ base \in DOMAIN r /\ b \in DOMAIN r
        BY <2>3, <2>4, <2>5, <3>1
      <4>2. base + r[base] < b
        BY <4>1
      <4> QED BY <1>0, <1>2, <2>2, <2>4, <3>1, <4>2
    <3>2. CASE a # low
      BY <2>4, <2>5, <3>2
    <3> QED BY <3>1, <3>2
  <2>6. Sane(m)
    BY <1>0, <2>4, <2>5 DEF Sane, IsRanges, Apart
  <2>7. ASSUME NEW p PROVE p \in FreeIn(m) <=> p \in FreeIn(r)
    <3>1. p \in FreeIn(m) <=> p \in Nat /\ \E b \in DOMAIN m : b <= p /\ p < b + m[b]
      BY <2>6, FreeInIs DEF Sane
    <3>2. p \in FreeIn(r) <=> p \in Nat /\ \E b \in DOMAIN r : b <= p /\ p < b + r[b]
      BY FreeInIs
    <3>3. p \in Nat => (low <= p /\ p < low + m[low] <=>
                           \/ low <= p /\ p < low + r[low]
                           \/ base <= p /\ p < base + r[base])
      BY <1>0, <1>2, <2>2, <2>4
    <3>4. \A b \in DOMAIN r : b = low \/ b = base \/ (b \in DOMAIN m \ {low})
      BY <2>4
    <3>5. low \in DOMAIN m
      BY <2>2, <2>4
    <3> QED BY <2>2, <2>4, <3>1, <3>2, <3>3, <3>4, <3>5
  <2> QED BY <2>6, <2>7 DEF m
<1>3. CASE ~ (below # {} /\ low + r[low] = base)
  <2>1. m = r
    BY <1>3 DEF MergedLower
  <2>2. ASSUME NEW a \in DOMAIN r, a < base PROVE a + r[a] < base
    <3>1. a \in below /\ a <= low /\ low \in DOMAIN r /\ low < base
      BY <1>1, <2>2
    <3>2. CASE a = low
      BY <1>3, <2>2, <3>1, <3>2
    <3>3. CASE a # low
      <4> HIDE DEF low, below
      <4>1. a < low
        BY <1>0, <3>1, <3>3
      <4>2. a + r[a] < low
        BY <1>0, <3>1, <4>1
      <4> QED BY <1>0, <3>1, <4>2
    <3> QED BY <3>2, <3>3
  <2>3. Sane(r)
    BY <2>2 DEF Sane, Apart
  <2> QED BY <2>1, <2>3
<1> QED BY <1>2, <1>3

\* What is freed into r: the block alone, or with its higher neighbour, which it
\* then replaces; and then joined to the lower one.
LEMMA FreedAlone ==
  ASSUME NEW r, Sane(r), NEW base \in Nat, NEW n \in Nat \ {0},
         Pages(base, n) \cap FreeIn(r) = {}, base + n \notin DOMAIN r
  PROVE  /\ Sane(MergedLower(Put(r, base, n), base))
         /\ FreeIn(MergedLower(Put(r, base, n), base)) = FreeIn(r) \cup Pages(base, n)
<1> DEFINE q == Put(r, base, n)
<1>0. r \in [DOMAIN r -> Nat \ {0}] /\ DOMAIN r \subseteq Nat
  BY DEF Sane, IsRanges
<1>1. \A p \in Nat, b \in DOMAIN r :
         b <= p /\ p < b + r[b] => ~ (base <= p /\ p < base + n)
  BY FreeInIs DEF Sane, Pages
<1>2. \A b \in DOMAIN r : (b < base \/ base + n < b) /\ (b < base => b + r[b] <= base)
  BY <1>0, <1>1
<1>3. /\ DOMAIN q = DOMAIN r \cup {base} /\ q[base] = n
      /\ \A b \in DOMAIN r : q[b] = r[b]
      /\ q \in [DOMAIN q -> Nat \ {0}]
  BY <1>0, <1>2 DEF Put
<1> HIDE DEF q
<1>4. IsRanges(q)
  BY <1>0, <1>3 DEF IsRanges
<1>5. ASSUME NEW a \in DOMAIN q, NEW b \in DOMAIN q, a < b
      PROVE  a + q[a] < b \/ (b = base /\ a + q[a] = b)
  <2>1. CASE a = base
    BY <1>0, <1>2, <1>3, <1>5, <2>1
  <2>2. CASE b = base
    BY <1>0, <1>2, <1>3, <1>5, <2>2
  <2>3. CASE a # base /\ b # base
    BY <1>0, <1>3, <1>5, <2>3 DEF Sane, Apart
  <2> QED BY <2>1, <2>2, <2>3
<1>6. base \in DOMAIN q
  BY <1>3
<1>7. Sane(MergedLower(q, base)) /\ FreeIn(MergedLower(q, base)) = FreeIn(q)
  BY <1>4, <1>5, <1>6, MergedLowerKeeps
<1>8. FreeIn(q) = FreeIn(r) \cup Pages(base, n)
  <2>1. ASSUME NEW p PROVE p \in FreeIn(q) <=> p \in FreeIn(r) \cup Pages(base, n)
    <3>1. p \in FreeIn(q) <=> p \in Nat /\ \E b \in DOMAIN q : b <= p /\ p < b + q[b]
      BY <1>4, FreeInIs
    <3>2. p \in FreeIn(r) <=> p \in Nat /\ \E b \in DOMAIN r : b <= p /\ p < b + r[b]
      BY FreeInIs DEF Sane
    <3>3. p \in Pages(base, n) <=> p \in Nat /\ base <= p /\ p < base + n
      BY DEF Pages
    <3> QED BY <1>3, <3>1, <3>2, <3>3
  <2> QED BY <2>1
<1> QED BY <1>7, <1>8 DEF q

LEMMA FreedBelow ==
  ASSUME NEW r, Sane(r), NEW base \in Nat, NEW n \in Nat \ {0},
         Pages(base, n) \cap FreeIn(r) = {}, base + n \in DOMAIN r
  PROVE  LET q == Put(Without(r, base + n), base, n + r[base + n])
         IN  /\ Sane(MergedLower(q, base))
             /\ FreeIn(MergedLower(q, base)) = FreeIn(r) \cup Pages(base, n)
<1> DEFINE above == base + n
           q == Put(Without(r, above), base, n + r[above])
<1>0. /\ r \in [DOMAIN r -> Nat \ {0}] /\ DOMAIN r \subseteq Nat
      /\ above \in DOMAIN r /\ r[above] \in Nat \ {0}
  BY DEF Sane, IsRanges
<1>1. \A p \in Nat, b \in DOMAIN r :
         b <= p /\ p < b + r[b] => ~ (base <= p /\ p < base + n)
  BY FreeInIs DEF Sane, Pages
<1>2. \A b \in DOMAIN r : /\ b < base \/ above <= b
                          /\ b < base => b + r[b] <= base
                          /\ above < b => above + r[above] < b
  BY <1>0, <1>1 DEF Sane, Apart
<1>3. /\ DOMAIN q = (DOMAIN r \ {above}) \cup {base} /\ q[base] = n + r[above]
      /\ \A b \in DOMAIN r \ {above} : q[b] = r[b]
      /\ q \in [DOMAIN q -> Nat \ {0}]
  BY <1>0, <1>2 DEF Put, Without
<1> HIDE DEF q
<1>4. IsRanges(q)
  BY <1>0, <1>3 DEF IsRanges
<1>5. ASSUME NEW a \in DOMAIN q, NEW b \in DOMAIN q, a < b
      PROVE  a + q[a] < b \/ (b = base /\ a + q[a] = b)
  <2>1. CASE a = base
    BY <1>0, <1>2, <1>3, <1>5, <2>1
  <2>2. CASE b = base
    BY <1>0, <1>2, <1>3, <1>5, <2>2
  <2>3. CASE a # base /\ b # base
    BY <1>0, <1>3, <1>5, <2>3 DEF Sane, Apart
  <2> QED BY <2>1, <2>2, <2>3
<1>6. base \in DOMAIN q
  BY <1>3
<1>7. Sane(MergedLower(q, base)) /\ FreeIn(MergedLower(q, base)) = FreeIn(q)
  BY <1>4, <1>5, <1>6, MergedLowerKeeps
<1>8. FreeIn(q) = FreeIn(r) \cup Pages(base, n)
  <2>1. ASSUME NEW p PROVE p \in FreeIn(q) <=> p \in FreeIn(r) \cup Pages(base, n)
    <3>1. p \in FreeIn(q) <=> p \in Nat /\ \E b \in DOMAIN q : b <= p /\ p < b + q[b]
      BY <1>4, FreeInIs
    <3>2. p \in FreeIn(r) <=> p \in Nat /\ \E b \in DOMAIN r : b <= p /\ p < b + r[b]
      BY FreeInIs DEF Sane
    <3>3. p \in Pages(base, n) <=> p \in Nat /\ base <= p /\ p < base + n
      BY DEF Pages
    <3>4. p \in Nat => (base <= p /\ p < base + q[base] <=>
                           \/ base <= p /\ p < base + n
                           \/ above <= p /\ p < above + r[above])
      BY <1>0, <1>3
    <3> HIDE DEF above
    <3> QED BY <1>0, <1>3, <3>1, <3>2, <3>3, <3>4
  <2> QED BY <2>1
<1> QED BY <1>7, <1>8 DEF q

-----------------------------------------------------------------------------
(* The calls on the state. *)

\* The memory has a last page.
LEMMA Topped == \E top \in Nat : Memory \subseteq 0 .. top
<1>1. PICK top \in Memory : Memory \subseteq 0 .. top
  BY PagesAssumption
<1>2. top \in Nat
  <2>1. PICK b \in DOMAIN Chunks : top \in Pages(b, Chunks[b])
    BY DEF Memory
  <2>2. b \in Nat /\ Chunks[b] \in Nat
    BY PagesAssumption
  <2> QED BY <2>1, <2>2 DEF Pages
<1> QED BY <1>1, <1>2

\* The slab allocator takes free pages or none.
LEMMA SlabAllocKeeps ==
  ASSUME NEW r, Sane(r), FreeIn(r) \subseteq Memory, NEW s \in SlabAlloc(r)
  PROVE  /\ s.ok \in BOOLEAN
         /\ Sane(s.ranges) /\ DOMAIN s.ranges \subseteq DOMAIN r
         /\ \E X \in SUBSET FreeIn(r) : /\ s.slab = slab \cup X
                                        /\ FreeIn(s.ranges) = FreeIn(r) \ X
         /\ ~s.ok => s.ranges = r /\ s.slab = slab
<1> DEFINE asItIs(ok) == [ok |-> ok, ranges |-> r, slab |-> slab]
<1>1. ASSUME NEW ok \in BOOLEAN, s = asItIs(ok)
      PROVE  /\ s.ok \in BOOLEAN /\ s.ranges = r /\ s.slab = slab
             /\ {} \in SUBSET FreeIn(r) /\ s.slab = slab \cup {}
             /\ FreeIn(s.ranges) = FreeIn(r) \ {}
  BY <1>1
<1>2. CASE s # asItIs(TRUE) /\ s # asItIs(FALSE)
  <2> DEFINE b == Max(DOMAIN r)
  <2>1. /\ DOMAIN r # {}
        /\ s = [ok |-> TRUE, ranges |-> Cut(r, b, 1), slab |-> slab \cup {b + r[b] - 1}]
    BY <1>2 DEF SlabAlloc
  <2>2. PICK top \in Nat : Memory \subseteq 0 .. top
    BY Topped
  <2>3. DOMAIN r \subseteq 0 .. top
    <3>1. \A d \in DOMAIN r : d \in Nat /\ d < d + r[d]
      BY DEF Sane, IsRanges
    <3>2. \A d \in DOMAIN r : d \in FreeIn(r)
      BY <3>1, FreeInIs DEF Sane
    <3> QED BY <2>2, <3>2
  <2>4. b \in DOMAIN r
    BY <2>1, <2>2, <2>3, MaxIsLargest
  <2> HIDE DEF b
  <2>5. b \in Nat /\ r[b] \in Nat \ {0} /\ 1 \in 1 .. r[b]
    BY <2>4 DEF Sane, IsRanges
  <2>6. /\ Sane(Cut(r, b, 1))
        /\ FreeIn(Cut(r, b, 1)) = FreeIn(r) \ Pages(b + r[b] - 1, 1)
        /\ Pages(b + r[b] - 1, 1) \subseteq FreeIn(r)
    BY <2>4, <2>5, CutKeeps
  <2>7. Pages(b + r[b] - 1, 1) = {b + r[b] - 1}
    BY <2>5 DEF Pages
  <2>8. DOMAIN Cut(r, b, 1) \subseteq DOMAIN r
    BY DEF Cut, Without
  <2> QED BY <2>1, <2>6, <2>7, <2>8
<1> HIDE DEF asItIs
<1>3. CASE s = asItIs(TRUE) \/ s = asItIs(FALSE)
  BY <1>1, <1>3
<1> QED BY <1>2, <1>3

\* free_pages adds the block to the ranges, whatever the slab allocator has taken
\* of them in between, or panics.
LEMMA FreePagesKeeps ==
  ASSUME Sane(ranges), Free \subseteq Memory, NEW base \in Nat, NEW n \in Nat \ {0},
         Pages(base, n) \cap Free = {}, ~panicked, panicked \in BOOLEAN,
         free_pages(base, n)
  PROVE  /\ Sane(ranges')
         /\ panicked' \in BOOLEAN
         /\ panicked' => Free' = Free /\ slab' = slab
         /\ ~panicked' => \E X \in SUBSET Free : /\ slab' = slab \cup X
                                                 /\ Free' = (Free \ X) \cup Pages(base, n)
<1>0. Free = FreeIn(ranges) /\ Free' = FreeIn(ranges')
  BY DEF Free, FreeIn
<1>1. CASE base + n \in DOMAIN ranges
  <2>1. /\ ranges' = MergedLower(Put(Without(ranges, base + n), base, n + ranges[base + n]), base)
        /\ slab' = slab /\ panicked' = panicked
    BY <1>1 DEF free_pages
  <2>2. Sane(ranges') /\ FreeIn(ranges') = FreeIn(ranges) \cup Pages(base, n)
    BY <1>0, <1>1, <2>1, FreedBelow
  <2>3. {} \in SUBSET Free /\ slab' = slab \cup {} /\ Free' = (Free \ {}) \cup Pages(base, n)
    BY <1>0, <2>1, <2>2
  <2> QED BY <2>1, <2>2, <2>3
<1>2. CASE base + n \notin DOMAIN ranges
  <2>1. PICK s \in SlabAlloc(ranges) :
           /\ ranges' = IF s.ok THEN MergedLower(Put(s.ranges, base, n), base) ELSE ranges
           /\ slab' = s.slab
           /\ panicked' = ~s.ok
    BY <1>2 DEF free_pages
  <2>2. /\ s.ok \in BOOLEAN
        /\ Sane(s.ranges) /\ DOMAIN s.ranges \subseteq DOMAIN ranges
        /\ \E X \in SUBSET FreeIn(ranges) : /\ s.slab = slab \cup X
                                            /\ FreeIn(s.ranges) = FreeIn(ranges) \ X
        /\ ~s.ok => s.ranges = ranges /\ s.slab = slab
    BY <1>0, SlabAllocKeeps
  <2>3. CASE s.ok
    <3>1. PICK X \in SUBSET FreeIn(ranges) : /\ s.slab = slab \cup X
                                             /\ FreeIn(s.ranges) = FreeIn(ranges) \ X
      BY <2>2
    <3>2. Pages(base, n) \cap FreeIn(s.ranges) = {} /\ base + n \notin DOMAIN s.ranges
      BY <1>0, <1>2, <2>2, <3>1
    <3>3. /\ Sane(MergedLower(Put(s.ranges, base, n), base))
          /\ FreeIn(MergedLower(Put(s.ranges, base, n), base))
                = FreeIn(s.ranges) \cup Pages(base, n)
      BY <2>2, <3>2, FreedAlone
    <3>4. ranges' = MergedLower(Put(s.ranges, base, n), base) /\ ~panicked'
      BY <2>1, <2>3
    <3> QED BY <1>0, <2>1, <2>3, <3>1, <3>3, <3>4
  <2>4. CASE ~s.ok
    <3>1. ranges' = ranges /\ slab' = slab /\ panicked' = TRUE
      BY <2>1, <2>2, <2>4
    <3> QED BY <1>0, <3>1
  <2> QED BY <2>2, <2>3, <2>4
<1> QED BY <1>1, <1>2

\* What alloc_pages finds is the end of a range; the block has the size asked for
\* unless the first range will do.
LEMMA BlockIsFree ==
  ASSUME Sane(ranges), Free \subseteq Memory, NEW n \in Nat \ {0}, NEW flags,
         ~NoMem(n, flags)
  PROVE  /\ Found(n, flags) \in DOMAIN ranges
         /\ Got(n, flags) \in 1 .. ranges[Found(n, flags)] /\ Got(n, flags) <= n
         /\ "FIRSTBLOCK" \notin flags => Got(n, flags) = n
         /\ Block(n, flags) \in Nat \X (Nat \ {0})
         /\ Block(n, flags) = <<Found(n, flags) + ranges[Found(n, flags)] - Got(n, flags),
                                Got(n, flags)>>
<1> DEFINE b == Found(n, flags)
           got == Got(n, flags)
<1>0. /\ Fits(n, flags) # {} /\ Fits(n, flags) \subseteq DOMAIN ranges
      /\ DOMAIN ranges \subseteq Nat /\ ranges \in [DOMAIN ranges -> Nat \ {0}]
  BY DEF NoMem, Fits, Sane, IsRanges
<1>1. PICK top \in Nat : Memory \subseteq 0 .. top
  BY Topped
<1>2. DOMAIN ranges \subseteq 0 .. top
  <2>1. \A d \in DOMAIN ranges : d \in FreeIn(ranges)
    BY FreeInIs DEF Sane, IsRanges
  <2> QED BY <1>1, <2>1 DEF Free, FreeIn
<1>3. b \in Fits(n, flags)
  <2>1. Min(Fits(n, flags)) \in Fits(n, flags)
    BY <1>0, MinIsLeast
  <2>2. Max(Fits(n, flags)) \in Fits(n, flags)
    <3>1. Fits(n, flags) \subseteq 0 .. top
      BY <1>0, <1>2
    <3> QED BY <1>0, <1>1, <3>1, MaxIsLargest
  <2> QED BY <2>1, <2>2 DEF Found
<1> HIDE DEF b
<1>4. b \in DOMAIN ranges /\ b \in Nat /\ ranges[b] \in Nat \ {0}
      /\ ("FIRSTBLOCK" \in flags \/ ranges[b] >= n)
  BY <1>0, <1>3 DEF Fits
<1>5. got \in {n, ranges[b]} /\ \A y \in {n, ranges[b]} : got <= y
  <2>1. {n, ranges[b]} \subseteq Nat /\ {n, ranges[b]} # {}
    BY <1>4
  <2>2. got = Min({n, ranges[b]})
    BY DEF Got, b
  <2> HIDE DEF got
  <2> QED BY <2>1, <2>2, MinIsLeast
<1> HIDE DEF got
<1>6. /\ got \in 1 .. ranges[b] /\ got <= n /\ got \in Nat \ {0}
      /\ "FIRSTBLOCK" \notin flags => got = n
  BY <1>4, <1>5
<1>7. Block(n, flags) = <<b + ranges[b] - got, got>>
  BY DEF Block, b, got
<1>8. b + ranges[b] - got \in Nat
  BY <1>4, <1>6
<1> QED BY <1>4, <1>6, <1>7, <1>8 DEF b, got

-----------------------------------------------------------------------------
(* The inductive invariant. *)
Blocks == Nat \X (Nat \ {0})
FlagNames == {"CONTIG", "ALIGN64K", "LOWER16MB", "LOWER1MB", "FIRSTBLOCK"}
Trying == {"alloc", "last", "yield"}

Calls == [pc : Trying \cup {"idle", "align", "done", "undo"}, list : BOOLEAN,
          want : Nat, rem : Nat, flags : SUBSET FlagNames, head : Seq(Blocks),
          freed : Nat, failed : {"no", "memory", "node"}]

\* What the call under way knows of its request. Only a list may take the first
\* range, and only a list has blocks in its hands while it asks for more.
CallOK ==
    /\ call \in Calls
    /\ call.pc = "idle" => call.head = <<>>
    /\ call.pc \in Trying => call.want # 0 /\ call.rem # 0
    /\ call.pc \in Trying /\ ~call.list =>
          /\ call.head = <<>> /\ "FIRSTBLOCK" \notin call.flags
          /\ call.rem = IF "ALIGN64K" \in call.flags THEN call.want + Align ELSE call.want

PagesIn(b) == Pages(b[1], b[2])

\* No two blocks share a page.
HeldApart(h) == \A a, b \in h : a # b => PagesIn(a) \cap PagesIn(b) = {}
ListApart(l) == \A i, j \in 1 .. Len(l) : i # j => PagesIn(l[i]) \cap PagesIn(l[j]) = {}

BlocksOK ==
    /\ held \subseteq Blocks /\ yielded \subseteq held
    /\ HeldApart(held) /\ ListApart(call.head)

Within ==
    /\ Free \subseteq Memory /\ slab \subseteq Memory /\ lost \subseteq Memory
    /\ PagesOf(held) \subseteq Memory /\ PagesOf(InHand) \subseteq Memory

Partition(F, S, H, I, L) ==
    /\ F \cap S = {} /\ F \cap H = {} /\ F \cap I = {} /\ F \cap L = {}
    /\ S \cap H = {} /\ S \cap I = {} /\ S \cap L = {}
    /\ H \cap I = {} /\ H \cap L = {} /\ I \cap L = {}
    /\ F \cup S \cup H \cup I \cup L = Memory

Partitioned == ~panicked => Partition(Free, slab, PagesOf(held), PagesOf(InHand), lost)

Inv ==
    /\ panicked \in BOOLEAN /\ CallOK /\ BlocksOK
    /\ Sane(ranges) /\ Within /\ Partitioned

-----------------------------------------------------------------------------
(* Blocks and the lists of them. *)
LEMMA BlockRemoved ==
  ASSUME NEW h \in SUBSET Blocks, HeldApart(h), NEW blk \in h
  PROVE  /\ blk[1] \in Nat /\ blk[2] \in Nat \ {0}
         /\ HeldApart(h \ {blk})
         /\ PagesOf(h \ {blk}) = PagesOf(h) \ Pages(blk[1], blk[2])
         /\ Pages(blk[1], blk[2]) \subseteq PagesOf(h)
<1>1. blk[1] \in Nat /\ blk[2] \in Nat \ {0}
  BY DEF Blocks
<1>2. HeldApart(h \ {blk})
  BY DEF HeldApart
<1>3. \A b \in h \ {blk} : Pages(b[1], b[2]) \cap Pages(blk[1], blk[2]) = {}
  BY DEF HeldApart, PagesIn
<1>4. ASSUME NEW p
      PROVE  p \in PagesOf(h \ {blk}) <=> p \in PagesOf(h) \ Pages(blk[1], blk[2])
  <2>1. p \in PagesOf(h \ {blk}) <=> \E b \in h \ {blk} : p \in Pages(b[1], b[2])
    BY DEF PagesOf
  <2>2. p \in PagesOf(h) <=> \E b \in h : p \in Pages(b[1], b[2])
    BY DEF PagesOf
  <2> QED BY <1>3, <2>1, <2>2
<1>5. Pages(blk[1], blk[2]) \subseteq PagesOf(h)
  BY DEF PagesOf
<1> QED BY <1>1, <1>2, <1>4, <1>5

LEMMA BlocksJoined ==
  ASSUME NEW h, NEW k
  PROVE  PagesOf(h \cup k) = PagesOf(h) \cup PagesOf(k)
<1>1. ASSUME NEW p PROVE p \in PagesOf(h \cup k) <=> p \in PagesOf(h) \cup PagesOf(k)
  <2>1. \A s : p \in PagesOf(s) <=> \E b \in s : p \in Pages(b[1], b[2])
    BY DEF PagesOf
  <2> HIDE DEF PagesOf
  <2> QED BY <2>1
<1> QED BY <1>1

LEMMA BlocksApart ==
  ASSUME NEW h, NEW k, HeldApart(h), HeldApart(k), PagesOf(h) \cap PagesOf(k) = {}
  PROVE  HeldApart(h \cup k)
<1>1. \A s : \A b \in s : PagesIn(b) \subseteq PagesOf(s)
  BY DEF PagesOf, PagesIn
<1> QED BY <1>1 DEF HeldApart

LEMMA OneBlock ==
  ASSUME NEW base, NEW n
  PROVE  PagesOf({<<base, n>>}) = Pages(base, n) /\ HeldApart({<<base, n>>})
BY DEF PagesOf, HeldApart

LEMMA EmptyList ==
  /\ Range(<<>>) = {} /\ PagesOf(Range(<<>>)) = {} /\ ListApart(<<>>)
  /\ <<>> \in Seq(Blocks)
<1>1. Range(<<>>) = {}
  BY DEF Range
<1> QED BY <1>1 DEF PagesOf, ListApart

\* The blocks of a list, as a set.
LEMMA ListIsSet ==
  ASSUME NEW l \in Seq(Blocks), ListApart(l)
  PROVE  Range(l) \subseteq Blocks /\ HeldApart(Range(l))
<1>1. Range(l) = {l[i] : i \in 1 .. Len(l)}
  BY DEF Range
<1>2. \A i \in 1 .. Len(l) : l[i] \in Blocks
  OBVIOUS
<1>3. Range(l) \subseteq Blocks
  BY <1>1, <1>2
<1>4. ASSUME NEW a \in Range(l), NEW b \in Range(l), a # b
      PROVE  PagesIn(a) \cap PagesIn(b) = {}
  <2>1. PICK i \in 1 .. Len(l) : l[i] = a
    BY <1>1
  <2>2. PICK j \in 1 .. Len(l) : l[j] = b
    BY <1>1
  <2> QED BY <1>4, <2>1, <2>2 DEF ListApart
<1> QED BY <1>3, <1>4 DEF HeldApart

LEMMA ListHas ==
  ASSUME NEW l \in Seq(Blocks), NEW p
  PROVE  p \in PagesOf(Range(l)) <=> \E i \in 1 .. Len(l) : p \in PagesIn(l[i])
<1>1. Range(l) = {l[i] : i \in 1 .. Len(l)}
  BY DEF Range
<1> QED BY <1>1 DEF PagesOf, PagesIn

LEMMA ListTail ==
  ASSUME NEW l \in Seq(Blocks), ListApart(l), l # <<>>
  PROVE  /\ l[1][1] \in Nat /\ l[1][2] \in Nat \ {0}
         /\ Tail(l) \in Seq(Blocks) /\ ListApart(Tail(l))
         /\ PagesOf(Range(Tail(l))) = PagesOf(Range(l)) \ Pages(l[1][1], l[1][2])
         /\ Pages(l[1][1], l[1][2]) \subseteq PagesOf(Range(l))
<1> DEFINE t == Tail(l)
<1>1. /\ t \in Seq(Blocks) /\ Len(l) \in Nat \ {0} /\ Len(t) = Len(l) - 1
      /\ \A i \in 1 .. Len(t) : t[i] = l[i + 1] /\ i + 1 \in 1 .. Len(l)
      /\ l[1] \in Blocks /\ 1 \in 1 .. Len(l)
  OBVIOUS
<1> HIDE DEF t
<1>2. ListApart(t)
  <2>1. ASSUME NEW i \in 1 .. Len(t), NEW j \in 1 .. Len(t), i # j
        PROVE  PagesIn(t[i]) \cap PagesIn(t[j]) = {}
    <3>1. i + 1 # j + 1
      BY <1>1, <2>1
    <3> QED BY <1>1, <3>1 DEF ListApart
  <2> QED BY <2>1 DEF ListApart
<1>3. ASSUME NEW p
      PROVE  p \in PagesOf(Range(t)) <=> p \in PagesOf(Range(l)) /\ p \notin PagesIn(l[1])
  <2>1. (\E i \in 1 .. Len(t) : p \in PagesIn(t[i])) <=>
           \E k \in 2 .. Len(l) : p \in PagesIn(l[k])
    <3>1. ASSUME NEW k \in 2 .. Len(l)
          PROVE  k - 1 \in 1 .. Len(t) /\ t[k - 1] = l[k]
      <4>1. k - 1 \in 1 .. Len(t) /\ (k - 1) + 1 = k
        BY <1>1
      <4> QED BY <1>1, <4>1
    <3>2. \A i \in 1 .. Len(t) : i + 1 \in 2 .. Len(l) /\ t[i] = l[i + 1]
      BY <1>1
    <3> QED BY <3>1, <3>2
  <2>2. \A k \in 2 .. Len(l) : k \in 1 .. Len(l) /\ k # 1
    BY <1>1
  <2>3. \A k \in 2 .. Len(l) : p \in PagesIn(l[k]) => p \notin PagesIn(l[1])
    BY <1>1, <2>2 DEF ListApart
  <2>4. \A k \in 1 .. Len(l) : k = 1 \/ k \in 2 .. Len(l)
    BY <1>1
  <2> QED BY <1>1, <2>1, <2>2, <2>3, <2>4, ListHas
<1>4. PagesIn(l[1]) \subseteq PagesOf(Range(l))
  BY <1>1, ListHas
<1>5. l[1][1] \in Nat /\ l[1][2] \in Nat \ {0}
  BY <1>1 DEF Blocks
<1> QED BY <1>1, <1>2, <1>3, <1>4, <1>5 DEF t, PagesIn

LEMMA ListCons ==
  ASSUME NEW l \in Seq(Blocks), ListApart(l), NEW blk \in Blocks,
         PagesIn(blk) \cap PagesOf(Range(l)) = {}
  PROVE  /\ <<blk>> \o l \in Seq(Blocks) /\ ListApart(<<blk>> \o l)
         /\ PagesOf(Range(<<blk>> \o l)) = PagesOf(Range(l)) \cup PagesIn(blk)
<1> DEFINE c == <<blk>> \o l
<1>1. /\ c \in Seq(Blocks) /\ Len(l) \in Nat /\ Len(c) = Len(l) + 1 /\ c[1] = blk
      /\ 1 \in 1 .. Len(c)
      /\ \A i \in 1 .. Len(c) : i # 1 => c[i] = l[i - 1] /\ i - 1 \in 1 .. Len(l)
  OBVIOUS
<1> HIDE DEF c
<1>2. \A i \in 1 .. Len(c) : i # 1 => PagesIn(blk) \cap PagesIn(c[i]) = {}
  <2>1. \A i \in 1 .. Len(l) : PagesIn(l[i]) \subseteq PagesOf(Range(l))
    BY ListHas
  <2> QED BY <1>1, <2>1
<1>3. ListApart(c)
  <2>1. ASSUME NEW i \in 1 .. Len(c), NEW j \in 1 .. Len(c), i # j
        PROVE  PagesIn(c[i]) \cap PagesIn(c[j]) = {}
    <3>1. i # 1 /\ j # 1 => i - 1 # j - 1
      BY <2>1
    <3> QED BY <1>1, <1>2, <2>1, <3>1 DEF ListApart
  <2> QED BY <2>1 DEF ListApart
<1>4. ASSUME NEW p
      PROVE  p \in PagesOf(Range(c)) <=> p \in PagesOf(Range(l)) \/ p \in PagesIn(blk)
  <2>1. \A k \in 1 .. Len(l) : k + 1 \in 1 .. Len(c) /\ c[k + 1] = l[k]
    <3>1. \A k \in 1 .. Len(l) : k + 1 \in 1 .. Len(c) /\ k + 1 # 1 /\ (k + 1) - 1 = k
      BY <1>1
    <3> QED BY <1>1, <3>1
  <2>2. p \in PagesOf(Range(c)) <=> \E i \in 1 .. Len(c) : p \in PagesIn(c[i])
    BY <1>1, ListHas
  <2>3. p \in PagesOf(Range(l)) <=> \E i \in 1 .. Len(l) : p \in PagesIn(l[i])
    BY ListHas
  <2>4. \A i \in 1 .. Len(c) : i = 1 \/ (i - 1 \in 1 .. Len(l) /\ c[i] = l[i - 1])
    BY <1>1
  <2> QED BY <1>1, <2>1, <2>2, <2>3, <2>4
<1> QED BY <1>1, <1>3, <1>4 DEF c

LEMMA ListAppend ==
  ASSUME NEW l \in Seq(Blocks), ListApart(l), NEW blk \in Blocks,
         PagesIn(blk) \cap PagesOf(Range(l)) = {}
  PROVE  /\ Append(l, blk) \in Seq(Blocks) /\ ListApart(Append(l, blk))
         /\ PagesOf(Range(Append(l, blk))) = PagesOf(Range(l)) \cup PagesIn(blk)
<1> DEFINE c == Append(l, blk)
           n == Len(l) + 1
<1>1. /\ c \in Seq(Blocks) /\ Len(l) \in Nat /\ Len(c) = n /\ c[n] = blk
      /\ n \in 1 .. Len(c)
      /\ \A i \in 1 .. Len(c) : i # n => c[i] = l[i] /\ i \in 1 .. Len(l)
      /\ \A i \in 1 .. Len(l) : i \in 1 .. Len(c) /\ i # n
  OBVIOUS
<1> HIDE DEF c, n
<1>2. \A i \in 1 .. Len(c) : i # n => PagesIn(blk) \cap PagesIn(c[i]) = {}
  <2>1. \A i \in 1 .. Len(l) : PagesIn(l[i]) \subseteq PagesOf(Range(l))
    BY ListHas
  <2> QED BY <1>1, <2>1
<1>3. ListApart(c)
  BY <1>1, <1>2 DEF ListApart
<1>4. ASSUME NEW p
      PROVE  p \in PagesOf(Range(c)) <=> p \in PagesOf(Range(l)) \/ p \in PagesIn(blk)
  BY <1>1, ListHas
<1> QED BY <1>1, <1>3, <1>4 DEF c

-----------------------------------------------------------------------------
(* The steps. *)

\* Pages P move between the parts, and the slab allocator takes pages X.
LEMMA Moves ==
  ASSUME NEW F, NEW S, NEW H, NEW I, NEW L, Partition(F, S, H, I, L),
         NEW X \in SUBSET F
  PROVE  /\ \A P : P \subseteq H => Partition((F \ X) \cup P, S \cup X, H \ P, I, L)
         /\ \A P : P \subseteq I => Partition((F \ X) \cup P, S \cup X, H, I \ P, L)
         /\ Partition(F, S, H \cup I, {}, L)
<1>1. ASSUME NEW P, P \subseteq H
      PROVE  Partition((F \ X) \cup P, S \cup X, H \ P, I, L)
  BY <1>1 DEF Partition
<1>2. ASSUME NEW P, P \subseteq I
      PROVE  Partition((F \ X) \cup P, S \cup X, H, I \ P, L)
  BY <1>2 DEF Partition
<1>3. Partition(F, S, H \cup I, {}, L)
  BY DEF Partition
<1> QED BY <1>1, <1>2, <1>3

LEMMA Moves2 ==
  ASSUME NEW F, NEW S, NEW H, NEW I, NEW L, Partition(F, S, H, I, L),
         NEW P, P \subseteq F, NEW X \in SUBSET (F \ P)
  PROVE  Partition((F \ P) \ X, S \cup X, H, I \cup P, L)
BY DEF Partition

LEMMA Moves3 ==
  ASSUME NEW F, NEW S, NEW H, NEW L, Partition(F, S, H, {}, L),
         NEW P, NEW Q, NEW R, P \cup Q \cup R \subseteq F,
         P \cap Q = {}, P \cap R = {}, Q \cap R = {}
  PROVE  Partition(F \ (P \cup Q \cup R), S, H \cup Q, P, L \cup R)
BY DEF Partition

LEMMA PartsWithin ==
  ASSUME NEW F, NEW S, NEW H, NEW I, NEW L, Partition(F, S, H, I, L)
  PROVE  F \subseteq Memory /\ S \subseteq Memory /\ H \subseteq Memory
         /\ I \subseteq Memory /\ L \subseteq Memory
BY DEF Partition

LEMMA InvInit == Init => Inv
<1> SUFFICES ASSUME Init PROVE Inv
  OBVIOUS
<1>1. call = Idle /\ call.head = <<>> /\ call.pc = "idle"
  BY DEF Init, Idle
<1>2. CallOK
  <2>1. Idle \in Calls
    BY EmptyList DEF Idle, Calls, Trying
  <2> QED BY <1>1, <2>1 DEF CallOK, Trying
<1>3. BlocksOK
  BY <1>1, EmptyList DEF Init, BlocksOK, HeldApart
<1>4. Sane(ranges)
  BY PagesAssumption DEF Init, Sane, IsRanges, Apart
<1>5. Free = Memory
  BY DEF Init, Free, Memory
<1>6. PagesOf(held) = {} /\ PagesOf(InHand) = {} /\ slab = {} /\ lost = {}
  BY <1>1, EmptyList DEF Init, PagesOf, InHand
<1>7. Partitioned /\ Within
  BY <1>5, <1>6 DEF Partitioned, Partition, Within
<1> QED BY <1>2, <1>3, <1>4, <1>7 DEF Inv, Init

\* The parts of the state between which an action moves nothing.
LEMMA OnlyTheCall ==
  ASSUME Inv, CallOK', UNCHANGED <<ranges, slab, held, lost, panicked>>,
         call'.head = call.head, yielded' \subseteq held'
  PROVE  Inv'
<1>1. Free' = Free /\ PagesOf(held)' = PagesOf(held) /\ PagesOf(InHand)' = PagesOf(InHand)
  BY DEF Free, PagesOf, InHand
<1> QED BY <1>1 DEF Inv, BlocksOK, Within, Partitioned, Partition

LEMMA FreeMemKeeps ==
  ASSUME Inv, NEW blk \in held, free_pages(blk[1], blk[2]), ~panicked,
         held' = held \ {blk}, yielded' \subseteq held',
         CallOK', call'.head = call.head, UNCHANGED lost
  PROVE  Inv'
<1> DEFINE P == Pages(blk[1], blk[2])
<1>1. /\ blk[1] \in Nat /\ blk[2] \in Nat \ {0}
      /\ HeldApart(held')
      /\ PagesOf(held)' = PagesOf(held) \ P
      /\ P \subseteq PagesOf(held)
  BY BlockRemoved DEF Inv, BlocksOK, PagesOf
<1>2. Partition(Free, slab, PagesOf(held), PagesOf(InHand), lost)
  BY DEF Inv, Partitioned
<1>3. P \cap Free = {}
  BY <1>1, <1>2 DEF Partition
<1>4. /\ Sane(ranges') /\ panicked' \in BOOLEAN
      /\ panicked' => Free' = Free /\ slab' = slab
      /\ ~panicked' => \E X \in SUBSET Free : /\ slab' = slab \cup X
                                              /\ Free' = (Free \ X) \cup P
  BY <1>1, <1>3, FreePagesKeeps DEF Inv, Within
<1>5. PagesOf(InHand)' = PagesOf(InHand) /\ lost' = lost
  BY DEF PagesOf, InHand
<1>6. BlocksOK'
  BY <1>1 DEF Inv, BlocksOK
<1> HIDE DEF P
<1>7. CASE panicked'
  <2>1. Within' /\ Partitioned'
    BY <1>1, <1>4, <1>5, <1>7 DEF Inv, Within, Partitioned
  <2> QED BY <1>4, <1>6, <2>1 DEF Inv
<1>8. CASE ~panicked'
  <2>1. PICK X \in SUBSET Free : slab' = slab \cup X /\ Free' = (Free \ X) \cup P
    BY <1>4, <1>8
  <2>2. Partition((Free \ X) \cup P, slab \cup X, PagesOf(held) \ P, PagesOf(InHand), lost)
    BY <1>1, <1>2, Moves
  <2>3. Partition(Free', slab', PagesOf(held)', PagesOf(InHand)', lost')
    BY <1>1, <1>5, <2>1, <2>2
  <2>4. Within'
    BY <2>3, PartsWithin DEF Within
  <2>5. Partitioned'
    BY <2>3 DEF Partitioned, Partition
  <2> QED BY <1>4, <1>6, <2>4, <2>5 DEF Inv
<1> QED BY <1>7, <1>8

LEMMA UndoKeeps ==
  ASSUME Inv, Undo
  PROVE  Inv'
<1> DEFINE h == call.head
           P == Pages(h[1][1], h[1][2])
<1>0. /\ ~panicked /\ h # <<>> /\ free_pages(h[1][1], h[1][2])
      /\ call' = [call EXCEPT !.head = Tail(@)]
      /\ UNCHANGED <<held, yielded, lost>> /\ call.pc \in {"undo", "align"}
      /\ call \in Calls /\ h \in Seq(Blocks) /\ ListApart(h)
  BY DEF Inv, Undo, At, CallOK, Calls, BlocksOK
<1>1. /\ h[1][1] \in Nat /\ h[1][2] \in Nat \ {0}
      /\ Tail(h) \in Seq(Blocks) /\ ListApart(Tail(h))
      /\ PagesOf(Range(Tail(h))) = PagesOf(Range(h)) \ P
      /\ P \subseteq PagesOf(Range(h))
  BY <1>0, ListTail
<1>2. call' \in Calls /\ call'.head = Tail(h) /\ call'.pc = call.pc
  BY <1>0, <1>1 DEF Calls
<1>3. CallOK'
  BY <1>0, <1>2 DEF CallOK, Trying
<1>4. PagesOf(InHand)' = PagesOf(InHand) \ P /\ P \subseteq PagesOf(InHand)
      /\ PagesOf(held)' = PagesOf(held) /\ lost' = lost
  BY <1>0, <1>1, <1>2 DEF PagesOf, InHand
<1>5. Partition(Free, slab, PagesOf(held), PagesOf(InHand), lost)
  BY <1>0 DEF Inv, Partitioned
<1>6. P \cap Free = {}
  BY <1>4, <1>5 DEF Partition
<1>7. /\ Sane(ranges') /\ panicked' \in BOOLEAN
      /\ panicked' => Free' = Free /\ slab' = slab
      /\ ~panicked' => \E X \in SUBSET Free : /\ slab' = slab \cup X
                                              /\ Free' = (Free \ X) \cup P
  BY <1>0, <1>1, <1>6, FreePagesKeeps DEF Inv, Within
<1>8. BlocksOK'
  BY <1>0, <1>1, <1>2 DEF Inv, BlocksOK
<1> HIDE DEF P
<1>9. CASE panicked'
  <2>1. Within' /\ Partitioned'
    BY <1>4, <1>7, <1>9 DEF Inv, Within, Partitioned
  <2> QED BY <1>3, <1>7, <1>8, <2>1 DEF Inv
<1>10. CASE ~panicked'
  <2>1. PICK X \in SUBSET Free : slab' = slab \cup X /\ Free' = (Free \ X) \cup P
    BY <1>7, <1>10
  <2>2. Partition((Free \ X) \cup P, slab \cup X, PagesOf(held), PagesOf(InHand) \ P, lost)
    BY <1>4, <1>5, Moves
  <2>3. Partition(Free', slab', PagesOf(held)', PagesOf(InHand)', lost')
    BY <1>4, <2>1, <2>2
  <2>4. Within'
    BY <2>3, PartsWithin DEF Within
  <2>5. Partitioned'
    BY <2>3 DEF Partitioned, Partition
  <2> QED BY <1>3, <1>7, <1>8, <2>4, <2>5 DEF Inv
<1> QED BY <1>9, <1>10

LEMMA ReturnedKeeps ==
  ASSUME Inv, Returned
  PROVE  Inv'
<1>0. /\ ~panicked /\ held' = held \cup Range(call.head) /\ call' = Idle
      /\ UNCHANGED <<ranges, slab, yielded, lost, panicked>>
      /\ call.head \in Seq(Blocks) /\ ListApart(call.head)
      /\ Partition(Free, slab, PagesOf(held), PagesOf(InHand), lost)
  BY DEF Inv, Returned, At, CallOK, Calls, BlocksOK, Partitioned
<1>1. Range(call.head) \subseteq Blocks /\ HeldApart(Range(call.head))
  BY <1>0, ListIsSet
<1>2. PagesOf(held) \cap PagesOf(Range(call.head)) = {}
  BY <1>0 DEF Partition, InHand
<1>3. HeldApart(held')
  BY <1>0, <1>1, <1>2, BlocksApart DEF Inv, BlocksOK
<1>4. call'.head = <<>> /\ CallOK'
  BY <1>0, EmptyList DEF CallOK, Calls, Idle, Trying
<1>5. BlocksOK'
  BY <1>0, <1>1, <1>3, <1>4, EmptyList DEF Inv, BlocksOK
<1>6. PagesOf(held)' = PagesOf(held) \cup PagesOf(InHand) /\ PagesOf(InHand)' = {}
      /\ Free' = Free
  <2>1. PagesOf(held') = PagesOf(held) \cup PagesOf(Range(call.head))
    BY <1>0, BlocksJoined
  <2> QED BY <1>0, <1>4, <2>1, EmptyList DEF PagesOf, InHand, Free
<1>7. Partition(Free', slab', PagesOf(held)', PagesOf(InHand)', lost')
  <2>1. {} \in SUBSET Free
    OBVIOUS
  <2>2. Partition(Free, slab, PagesOf(held) \cup PagesOf(InHand), {}, lost)
    BY <1>0, <2>1, Moves
  <2> QED BY <1>0, <1>6, <2>2
<1>8. Within'
  BY <1>7, PartsWithin DEF Within
<1>9. Partitioned'
  BY <1>7 DEF Partitioned, Partition
<1> QED BY <1>0, <1>4, <1>5, <1>8, <1>9 DEF Inv

\* Where an aligned block begins in a block that is larger by Align.
LEMMA FirstAlignedIs ==
  ASSUME NEW base \in Nat
  PROVE  /\ FirstAligned(base) \in Nat /\ base <= FirstAligned(base)
         /\ "ALIGN64K" \notin call.flags => FirstAligned(base) = base
         /\ FirstAligned(base) < base + Align
<1>1. base % Align \in 0 .. Align - 1 /\ Align \in Nat \ {0}
  BY PagesAssumption
<1> QED BY <1>1 DEF FirstAligned

\* The parts of a block: in front of first, the w pages from there, and the rest.
LEMMA BlockParts ==
  ASSUME NEW base \in Nat, NEW n \in Nat, NEW first \in Nat, NEW w \in Nat,
         base <= first, first + w <= base + n
  PROVE  LET P == Pages(base, first - base)
             Q == Pages(first, w)
             R == Pages(base, n) \ (base .. first + w - 1)
         IN  /\ Pages(base, n) = P \cup Q \cup R
             /\ P \cap Q = {} /\ P \cap R = {} /\ Q \cap R = {}
<1> DEFINE P == Pages(base, first - base)
           Q == Pages(first, w)
           R == Pages(base, n) \ (base .. first + w - 1)
<1>1. \A p : p \in P <=> p \in Nat /\ base <= p /\ p < first
  BY DEF Pages
<1>2. \A p : p \in Q <=> p \in Nat /\ first <= p /\ p < first + w
  BY DEF Pages
<1>3. \A p : p \in Pages(base, n) <=> p \in Nat /\ base <= p /\ p < base + n
  BY DEF Pages
<1>4. \A p : p \in R <=> p \in Nat /\ first + w <= p /\ p < base + n
  BY <1>3
<1> HIDE DEF P, Q, R
<1>5. Pages(base, n) = P \cup Q \cup R
  BY <1>1, <1>2, <1>3, <1>4
<1>6. P \cap Q = {} /\ P \cap R = {} /\ Q \cap R = {}
  BY <1>1, <1>2, <1>4
<1> QED BY <1>5, <1>6 DEF P, Q, R

LEMMA TakenKeeps ==
  ASSUME Inv, Taken
  PROVE  Inv'
<1> DEFINE n == call.rem
           b == Found(n, call.flags)
           blk == Block(n, call.flags)
           base == blk[1]
           first == FirstAligned(base)
           w == call.want
           P == Pages(base, first - base)
           Q == Pages(first, w)
           R == Pages(base, n) \ (base .. first + w - 1)
<1>0. /\ ~panicked /\ ~NoMem(n, call.flags)
      /\ call \in Calls /\ call.pc \in Trying /\ ~call.list
      /\ call.head = <<>> /\ "FIRSTBLOCK" \notin call.flags
      /\ n = IF "ALIGN64K" \in call.flags THEN w + Align ELSE w
      /\ n \in Nat \ {0} /\ w \in Nat \ {0}
      /\ ranges' = Cut(ranges, b, blk[2])
      /\ held' = held \cup {<<first, w>>}
      /\ lost' = lost \cup (Pages(base, blk[2]) \ (base .. first + w - 1))
      /\ call' = IF first = base THEN Idle
                 ELSE [call EXCEPT !.pc = "align", !.head = <<<<base, first - base>>>>]
      /\ UNCHANGED <<slab, yielded, panicked>>
  BY DEF Inv, Taken, At, CallOK, Calls, Trying
<1>1. /\ b \in DOMAIN ranges /\ blk[2] = n /\ n \in 1 .. ranges[b]
      /\ base \in Nat /\ base = b + ranges[b] - n
  BY <1>0, BlockIsFree DEF Inv, Within, Blocks
<1>2. /\ first \in Nat /\ base <= first /\ first + w <= base + n
      /\ first - base \in Nat
  <2>1. /\ first \in Nat /\ base <= first /\ first < base + Align
        /\ "ALIGN64K" \notin call.flags => first = base
    BY <1>1, FirstAlignedIs
  <2> QED BY <1>0, <1>1, <2>1, PagesAssumption
<1>3. /\ Sane(ranges') /\ Free' = Free \ Pages(base, n) /\ Pages(base, n) \subseteq Free
  <2>1. Sane(Cut(ranges, b, n)) /\ FreeIn(Cut(ranges, b, n)) = FreeIn(ranges) \ Pages(base, n)
        /\ Pages(base, n) \subseteq FreeIn(ranges)
    BY <1>1, CutKeeps DEF Inv
  <2>2. ranges' = Cut(ranges, b, n)
    BY <1>0, <1>1
  <2> HIDE DEF b, blk, base
  <2> QED BY <2>1, <2>2 DEF Free, FreeIn
<1> HIDE DEF b, blk, base, first
<1>4. /\ Pages(base, n) = P \cup Q \cup R
      /\ P \cap Q = {} /\ P \cap R = {} /\ Q \cap R = {}
  <2> HIDE DEF n, w
  <2> QED BY <1>0, <1>1, <1>2, BlockParts
<1>5. /\ call'.head \in Seq(Blocks) /\ ListApart(call'.head)
      /\ PagesOf(Range(call'.head)) = P
      /\ CallOK'
  <2>1. CASE first = base
    <3>1. P = {}
      BY <1>1, <2>1 DEF Pages
    <3>2. call' = Idle /\ call'.head = <<>>
      BY <1>0, <2>1 DEF Idle
    <3>3. CallOK'
      BY <3>2, EmptyList DEF CallOK, Calls, Idle, Trying
    <3> QED BY <3>1, <3>2, <3>3, EmptyList
  <2>2. CASE first # base
    <3> DEFINE c == <<base, first - base>>
    <3>1. c \in Blocks
      BY <1>1, <1>2, <2>2 DEF Blocks
    <3>2. <<c>> \in Seq(Blocks) /\ Range(<<c>>) = {c} /\ ListApart(<<c>>)
      <4>1. <<c>> \in Seq(Blocks) /\ DOMAIN <<c>> = {1} /\ <<c>>[1] = c /\ Len(<<c>>) = 1
        BY <3>1
      <4> HIDE DEF c
      <4>2. Range(<<c>>) = {c}
        BY <4>1 DEF Range
      <4>3. \A i, j \in 1 .. 1 : i = j
        OBVIOUS
      <4> QED BY <4>1, <4>2, <4>3 DEF ListApart
    <3>3. call' = [call EXCEPT !.pc = "align", !.head = <<c>>]
      BY <1>0, <2>2
    <3>4. PagesOf({c}) = P
      BY OneBlock
    <3>5. call' \in Calls /\ call'.pc = "align" /\ call'.head = <<c>>
      BY <1>0, <3>2, <3>3 DEF Calls
    <3>6. CallOK'
      BY <3>5 DEF CallOK, Trying
    <3> QED BY <3>2, <3>4, <3>5, <3>6
  <2> QED BY <2>1, <2>2
<1>6. Partition(Free, slab, PagesOf(held), {}, lost)
  BY <1>0, EmptyList DEF Inv, Partitioned, InHand
<1>7. PagesOf({<<first, w>>}) = Q /\ HeldApart({<<first, w>>})
  BY OneBlock
<1> HIDE DEF P, Q, w
<1>8. PagesOf(held') = PagesOf(held) \cup Q
  BY <1>0, <1>7, BlocksJoined
<1>9. HeldApart(held')
  <2>1. PagesOf(held) \cap Q = {}
    BY <1>3, <1>4, <1>6 DEF Partition
  <2> QED BY <1>0, <1>7, <2>1, BlocksApart DEF Inv, BlocksOK
<1>10. held' \subseteq Blocks
  <2>1. <<first, w>> \in Blocks
    BY <1>0, <1>2 DEF Blocks, w
  <2> QED BY <1>0, <2>1 DEF Inv, BlocksOK
<1>11. lost' = lost \cup R
  BY <1>0, <1>1 DEF w
<1> HIDE DEF R
<1>12. Partition(Free', slab', PagesOf(held)', PagesOf(InHand)', lost')
  <2>1. Partition(Free \ (P \cup Q \cup R), slab, PagesOf(held) \cup Q, P, lost \cup R)
    BY <1>3, <1>4, <1>6, Moves3
  <2>2. PagesOf(held)' = PagesOf(held') /\ PagesOf(InHand)' = PagesOf(Range(call'.head))
    BY DEF PagesOf, InHand
  <2> QED BY <1>0, <1>3, <1>4, <1>5, <1>8, <1>11, <2>1, <2>2
<1>13. BlocksOK'
  BY <1>0, <1>5, <1>9, <1>10 DEF Inv, BlocksOK
<1>14. Within'
  BY <1>12, PartsWithin DEF Within
<1>15. Partitioned'
  BY <1>12 DEF Partitioned, Partition
<1> QED BY <1>0, <1>3, <1>5, <1>13, <1>14, <1>15 DEF Inv

LEMMA PieceKeeps ==
  ASSUME Inv, Piece
  PROVE  Inv'
<1> DEFINE b == Found(call.rem, call.flags)
           blk == Block(call.rem, call.flags)
           P == Pages(blk[1], blk[2])
           left == call.rem - blk[2]
<1>0. /\ ~panicked /\ ~NoMem(call.rem, call.flags) /\ call.pc = "alloc" /\ call.list
      /\ call \in Calls /\ call.head \in Seq(Blocks) /\ ListApart(call.head)
      /\ call.rem \in Nat \ {0} /\ call.want # 0
      /\ UNCHANGED <<held, yielded, lost, panicked>>
  BY DEF Inv, Piece, At, CallOK, Calls, Trying, BlocksOK
<1>1. PICK s \in SlabAlloc(Cut(ranges, b, blk[2])) :
         /\ ranges' = s.ranges /\ slab' = s.slab
         /\ call' = IF s.ok
               THEN [call EXCEPT !.rem = left, !.head = <<blk>> \o @,
                                 !.pc = IF left = 0 THEN "done" ELSE @]
               ELSE [call EXCEPT !.pc = "undo", !.failed = "node",
                                 !.head = Append(@, blk)]
  BY DEF Piece
<1>2. /\ b \in DOMAIN ranges /\ blk \in Blocks
      /\ blk[2] \in 1 .. ranges[b] /\ blk[2] <= call.rem
      /\ blk[1] = b + ranges[b] - blk[2]
  BY <1>0, BlockIsFree DEF Inv, Within, Blocks
<1>3. left \in Nat
  BY <1>0, <1>2
<1>4. /\ Sane(Cut(ranges, b, blk[2])) /\ P \subseteq Free
      /\ FreeIn(Cut(ranges, b, blk[2])) = Free \ P
  BY <1>2, CutKeeps DEF Inv, Free, FreeIn
<1>5. FreeIn(Cut(ranges, b, blk[2])) \subseteq Memory
  BY <1>4 DEF Inv, Within
<1> HIDE DEF b, blk, left
<1>6. /\ s.ok \in BOOLEAN /\ Sane(s.ranges)
      /\ \E X \in SUBSET (Free \ P) : s.slab = slab \cup X /\ FreeIn(s.ranges) = (Free \ P) \ X
  BY <1>4, <1>5, SlabAllocKeeps
<1>7. Partition(Free, slab, PagesOf(held), PagesOf(InHand), lost)
  BY <1>0 DEF Inv, Partitioned
<1>8. PagesIn(blk) \cap PagesOf(Range(call.head)) = {}
  BY <1>4, <1>7 DEF Partition, InHand, PagesIn
<1>9. /\ call'.head \in Seq(Blocks) /\ ListApart(call'.head) /\ CallOK'
      /\ PagesOf(Range(call'.head)) = PagesOf(InHand) \cup P
  <2>1. CASE s.ok
    <3>1. call' = [call EXCEPT !.rem = left, !.head = <<blk>> \o call.head,
                               !.pc = IF left = 0 THEN "done" ELSE call.pc]
      BY <1>1, <2>1
    <3>2. /\ <<blk>> \o call.head \in Seq(Blocks) /\ ListApart(<<blk>> \o call.head)
          /\ PagesOf(Range(<<blk>> \o call.head)) = PagesOf(Range(call.head)) \cup PagesIn(blk)
      BY <1>0, <1>2, <1>8, ListCons
    <3> DEFINE h == <<blk>> \o call.head
    <3> HIDE DEF h
    <3>3. call'.head = h /\ call'.rem = left /\ call'.list /\ call'.want = call.want
          /\ call'.pc = (IF left = 0 THEN "done" ELSE "alloc") /\ call' \in Calls
      BY <1>0, <1>3, <3>1, <3>2 DEF Calls, Trying, h
    <3>4. CallOK'
      BY <1>0, <3>3 DEF CallOK, Trying
    <3> QED BY <3>2, <3>3, <3>4 DEF h, InHand, PagesIn
  <2>2. CASE ~s.ok
    <3>1. call' = [call EXCEPT !.pc = "undo", !.failed = "node",
                               !.head = Append(call.head, blk)]
      BY <1>1, <2>2
    <3>2. /\ Append(call.head, blk) \in Seq(Blocks) /\ ListApart(Append(call.head, blk))
          /\ PagesOf(Range(Append(call.head, blk)))
                = PagesOf(Range(call.head)) \cup PagesIn(blk)
      BY <1>0, <1>2, <1>8, ListAppend
    <3> DEFINE h == Append(call.head, blk)
    <3> HIDE DEF h
    <3>3. call'.head = h /\ call'.pc = "undo" /\ call' \in Calls
      BY <1>0, <3>1, <3>2 DEF Calls, Trying, h
    <3>4. CallOK'
      BY <3>3 DEF CallOK, Trying
    <3> QED BY <3>2, <3>3, <3>4 DEF h, InHand, PagesIn
  <2> QED BY <1>6, <2>1, <2>2
<1>10. Partition(Free', slab', PagesOf(held)', PagesOf(InHand)', lost')
  <2>1. PICK X \in SUBSET (Free \ P) :
           s.slab = slab \cup X /\ FreeIn(s.ranges) = (Free \ P) \ X
    BY <1>6
  <2>2. Partition((Free \ P) \ X, slab \cup X, PagesOf(held), PagesOf(InHand) \cup P, lost)
    BY <1>4, <1>7, <2>1, Moves2
  <2>3. Free' = FreeIn(s.ranges) /\ PagesOf(held)' = PagesOf(held)
        /\ PagesOf(InHand)' = PagesOf(Range(call'.head))
    BY <1>0, <1>1 DEF Free, FreeIn, PagesOf, InHand
  <2> QED BY <1>0, <1>1, <1>9, <2>1, <2>2, <2>3
<1>11. BlocksOK'
  BY <1>0, <1>9 DEF Inv, BlocksOK
<1>12. Within'
  BY <1>10, PartsWithin DEF Within
<1>13. Partitioned'
  BY <1>10 DEF Partitioned, Partition
<1> QED BY <1>0, <1>1, <1>6, <1>9, <1>11, <1>12, <1>13 DEF Inv

LEMMA InvNext == Inv /\ [Next]_vars => Inv'
<1> SUFFICES ASSUME Inv, [Next]_vars PROVE Inv'
  OBVIOUS
<1>0. CallOK /\ call \in Calls /\ yielded \subseteq held /\ held \subseteq Blocks
  BY DEF Inv, CallOK, BlocksOK
<1>1. ASSUME NEW blk \in held, free_mem(blk) PROVE Inv'
  <2>1. yielded' \subseteq held'
    BY <1>0, <1>1 DEF free_mem
  <2>2. CallOK' /\ call'.head = call.head
    BY <1>0, <1>1 DEF free_mem, CallOK
  <2> QED BY <1>1, <2>1, <2>2, FreeMemKeeps DEF free_mem, Ready
<1>2. ASSUME NEW blk \in held, YieldBlock(blk) PROVE Inv'
  <2>1. CallOK' /\ yielded' \subseteq held'
    BY <1>0, <1>2 DEF YieldBlock, CallOK
  <2> QED BY <1>2, <2>1, OnlyTheCall DEF YieldBlock
<1>3. ASSUME NEW n \in Sizes, NEW flags \in Flags, alloc_mem(n, flags) PROVE Inv'
  <2>1. /\ n \in Nat \ {0} /\ n + Align \in Nat \ {0}
        /\ flags \in SUBSET FlagNames /\ "FIRSTBLOCK" \notin flags
    BY PagesAssumption DEF FlagNames
  <2> DEFINE rem == IF "ALIGN64K" \in flags THEN n + Align ELSE n
  <2>2. call' = [pc |-> "alloc", list |-> FALSE, want |-> n, rem |-> rem, flags |-> flags,
                 head |-> <<>>, freed |-> 0, failed |-> "no"]
    BY <1>3 DEF alloc_mem, Idle
  <2>3. rem \in Nat \ {0}
    BY <2>1
  <2>4. call' \in Calls
    <3> HIDE DEF rem
    <3> QED BY <2>1, <2>2, <2>3, EmptyList DEF Calls, Trying
  <2>5. CallOK'
    BY <2>1, <2>2, <2>3, <2>4 DEF CallOK, Trying
  <2>6. call'.head = call.head
    <3> HIDE DEF rem
    <3>1. call'.head = <<>>
      BY <2>2
    <3>2. call.head = <<>>
      BY <1>0, <1>3 DEF alloc_mem, Ready, CallOK
    <3> QED BY <3>1, <3>2
  <2> QED BY <1>0, <1>3, <2>5, <2>6, OnlyTheCall DEF alloc_mem
<1>4. ASSUME NEW n \in Sizes, NEW flags \in Flags, alloc_mem_in_list(n, flags) PROVE Inv'
  <2> DEFINE f == IF "CONTIG" \in flags THEN flags ELSE flags \cup {"FIRSTBLOCK"}
  <2>1. n \in Nat \ {0} /\ f \in SUBSET FlagNames
    BY PagesAssumption DEF FlagNames
  <2>2. call' = [pc |-> "alloc", list |-> TRUE, want |-> n, rem |-> n, flags |-> f,
                 head |-> <<>>, freed |-> 0, failed |-> "no"]
    BY <1>4 DEF alloc_mem_in_list, Idle
  <2>3. CallOK'
    <3> HIDE DEF f
    <3> QED BY <2>1, <2>2, EmptyList DEF CallOK, Calls, Trying
  <2>4. call'.head = call.head
    <3> HIDE DEF f
    <3>1. call'.head = <<>>
      BY <2>2
    <3>2. call.head = <<>>
      BY <1>0, <1>4 DEF alloc_mem_in_list, Ready, CallOK
    <3> QED BY <3>1, <3>2
  <2> QED BY <1>0, <1>4, <2>3, <2>4, OnlyTheCall DEF alloc_mem_in_list
<1>5. CASE Refused
  <2>1. call' = IF call.pc = "alloc" THEN [call EXCEPT !.pc = "yield", !.freed = 0]
                ELSE [call EXCEPT !.pc = "undo", !.failed = "memory"]
    BY <1>5 DEF Refused
  <2>2. call' \in Calls /\ call'.head = call.head /\ call.pc \in Trying
    <3>1. CASE call.pc = "alloc"
      BY <1>0, <2>1, <3>1 DEF Calls, Trying
    <3>2. CASE call.pc = "last"
      BY <1>0, <2>1, <3>2 DEF Calls, Trying
    <3> QED BY <1>5, <3>1, <3>2 DEF Refused, At
  <2>3. CallOK'
    BY <1>0, <2>1, <2>2 DEF CallOK, Calls, Trying
  <2> QED BY <1>0, <1>5, <2>2, <2>3, OnlyTheCall DEF Refused
<1>6. CASE FreeYielded
  <2>1. PICK blk \in yielded :
           /\ free_pages(blk[1], blk[2])
           /\ held' = held \ {blk} /\ yielded' = yielded \ {blk}
           /\ call' = [call EXCEPT !.freed = @ + blk[2]]
    BY <1>6 DEF FreeYielded
  <2>2. blk \in held /\ blk[2] \in Nat /\ yielded' \subseteq held'
    BY <1>0, <2>1 DEF Blocks
  <2>3. call' \in Calls /\ call'.head = call.head
    <3>1. call.freed \in Nat /\ call.freed + blk[2] \in Nat
      BY <1>0, <2>2 DEF Calls
    <3> DEFINE freed == call.freed + blk[2]
    <3>2. call' = [call EXCEPT !.freed = freed]
      BY <2>1
    <3> HIDE DEF freed
    <3> QED BY <1>0, <3>1, <3>2 DEF Calls, freed
  <2>4. CallOK'
    BY <1>0, <2>1, <2>3 DEF CallOK, Calls
  <2> QED BY <1>6, <2>1, <2>2, <2>3, <2>4, FreeMemKeeps DEF FreeYielded, At
<1>7. CASE Yielded
  <2>1. call.pc = "yield"
        /\ call' = IF ~call.list THEN [call EXCEPT !.pc = "last"]
                   ELSE IF call.freed > 0 THEN [call EXCEPT !.pc = "alloc"]
                   ELSE [call EXCEPT !.pc = "undo", !.failed = "memory"]
    BY <1>7 DEF Yielded, At
  <2>2. call' \in Calls /\ call'.head = call.head
    <3>1. CASE ~call.list
      BY <1>0, <2>1, <3>1 DEF Calls, Trying
    <3>2. CASE call.list /\ call.freed > 0
      BY <1>0, <2>1, <3>2 DEF Calls, Trying
    <3>3. CASE call.list /\ ~ (call.freed > 0)
      BY <1>0, <2>1, <3>3 DEF Calls, Trying
    <3> QED BY <3>1, <3>2, <3>3
  <2>3. CallOK'
    BY <1>0, <2>1, <2>2 DEF CallOK, Calls, Trying
  <2> QED BY <1>0, <1>7, <2>2, <2>3, OnlyTheCall DEF Yielded
<1>8. CASE Undone
  <2>1. call' = Idle /\ call.head = <<>>
    BY <1>8 DEF Undone
  <2>2. CallOK' /\ call'.head = <<>>
    BY <2>1, EmptyList DEF CallOK, Calls, Idle, Trying
  <2> QED BY <1>0, <1>8, <2>1, <2>2, OnlyTheCall DEF Undone
<1>9. CASE UNCHANGED vars
  BY <1>0, <1>9, OnlyTheCall DEF vars, CallOK
<1> QED
  BY <1>1, <1>2, <1>3, <1>4, <1>5, <1>6, <1>7, <1>8, <1>9,
     TakenKeeps, PieceKeeps, ReturnedKeeps, UndoKeeps DEF Next, Step

\* The invariant holds in every state that the calls of the page allocator lead to.
THEOREM Invariance == Spec => []Inv
BY InvInit, InvNext, PTL DEF Spec

-----------------------------------------------------------------------------
(* What follows. *)

\* The tree of free ranges stays sorted and coalesced through every sequence of
\* allocations and frees, whatever the slab allocator takes in between.
THEOREM RangesStaySane == Spec => []RangesSane
<1>1. Inv => RangesSane
  <2> SUFFICES ASSUME Inv PROVE RangesSane
    OBVIOUS
  <2>1. DOMAIN ranges \subseteq Memory
    <3>1. \A d \in DOMAIN ranges : d \in FreeIn(ranges)
      BY FreeInIs DEF Inv, Sane, IsRanges
    <3> QED BY <3>1 DEF Inv, Within, Free, FreeIn
  <2>2. \A d \in DOMAIN ranges : ranges[d] \in Nat \ {0}
    BY DEF Inv, Sane, IsRanges
  <2>3. \A blk \in held : blk[2] \in Nat \ {0} /\ Pages(blk[1], blk[2]) \subseteq Memory
    BY BlockRemoved DEF Inv, BlocksOK, Within
  <2>4. TypeOK
    BY <2>1, <2>2, <2>3 DEF Inv, CallOK, Calls, BlocksOK, Within, TypeOK, Trying
  <2> QED BY <2>4 DEF RangesSane, Inv, Sane, Apart
<1> QED BY <1>1, Invariance, PTL

\* No page is given out twice or mislaid, whatever is allocated, aligned, yielded,
\* taken back or given up half way.
THEOREM PagesStayPartitioned == Spec => []PagesPartitioned
<1>1. Inv => PagesPartitioned
  <2> SUFFICES ASSUME Inv, ~panicked PROVE
         LET parts == <<Free, slab, PagesOf(held), PagesOf(InHand), lost>>
         IN  /\ \A i, j \in DOMAIN parts : i # j => parts[i] \cap parts[j] = {}
             /\ UNION Range(parts) = Memory
             /\ \A a, c \in held \cup InHand :
                   a # c => Pages(a[1], a[2]) \cap Pages(c[1], c[2]) = {}
    BY DEF PagesPartitioned
  <2> DEFINE F == Free
             H == PagesOf(held)
             I == PagesOf(InHand)
             parts == <<F, slab, H, I, lost>>
  <2>1. Partition(F, slab, H, I, lost)
    BY DEF Inv, Partitioned
  <2>2. HeldApart(held) /\ HeldApart(InHand) /\ InHand \subseteq Blocks
    BY ListIsSet DEF Inv, BlocksOK, CallOK, Calls, InHand
  <2>3. HeldApart(held \cup InHand)
    BY <2>1, <2>2, BlocksApart DEF Partition
  <2> HIDE DEF F, H, I
  <2>4. \A i, j \in DOMAIN parts : i # j => parts[i] \cap parts[j] = {}
    BY <2>1 DEF Partition
  <2>5. UNION Range(parts) = Memory
    <3>1. Range(parts) = {F, slab, H, I, lost}
      <4>1. DOMAIN parts = {1, 2, 3, 4, 5}
        OBVIOUS
      <4> QED BY <4>1 DEF Range
    <3> QED BY <2>1, <3>1 DEF Partition
  <2> QED BY <2>3, <2>4, <2>5 DEF HeldApart, PagesIn, F, H, I
<1> QED BY <1>1, Invariance, PTL

-----------------------------------------------------------------------------
(* A call that is refused found nothing. *)

\* While free_yielded has freed nothing, nothing fits.
NothingFits == call.pc = "yield" /\ call.freed = 0 => NoMem(call.rem, call.flags)

LEMMA NothingFitsNext == Inv /\ NothingFits /\ [Next]_vars => NothingFits'
<1> SUFFICES ASSUME Inv, NothingFits, [Next]_vars, (call.pc = "yield")', (call.freed = 0)'
             PROVE  NoMem(call.rem, call.flags)'
  BY DEF NothingFits
<1>0. CallOK /\ call \in Calls /\ yielded \subseteq held /\ held \subseteq Blocks
  BY DEF Inv, CallOK, BlocksOK
<1>1. ASSUME call' = call, ranges' = ranges PROVE NoMem(call.rem, call.flags)'
  BY <1>1 DEF NothingFits, NoMem, Fits, Found, TooHigh
<1>2. ASSUME NEW blk \in held, free_mem(blk) PROVE FALSE
  BY <1>2 DEF free_mem, Ready
<1>3. ASSUME NEW blk \in held, YieldBlock(blk) PROVE NoMem(call.rem, call.flags)'
  BY <1>1, <1>3 DEF YieldBlock
<1>4. ASSUME NEW n \in Sizes, NEW flags \in Flags,
             alloc_mem(n, flags) \/ alloc_mem_in_list(n, flags)
      PROVE  FALSE
  BY <1>4 DEF alloc_mem, alloc_mem_in_list, Idle
<1>5. CASE Refused
  <2>1. call.pc = "alloc" /\ call' = [call EXCEPT !.pc = "yield", !.freed = 0]
    BY <1>0, <1>5 DEF Refused, Calls
  <2>2. call'.rem = call.rem /\ call'.flags = call.flags /\ ranges' = ranges
    BY <1>0, <1>5, <2>1 DEF Calls, Refused
  <2> QED BY <1>5, <2>2 DEF Refused, NoMem, Fits, Found, TooHigh
<1>6. CASE FreeYielded
  <2>1. PICK blk \in yielded : call' = [call EXCEPT !.freed = @ + blk[2]]
    BY <1>6 DEF FreeYielded
  <2>2. blk[2] \in Nat \ {0} /\ call.freed \in Nat
    BY <1>0, <2>1 DEF Blocks, Calls
  <2>3. call'.freed = call.freed + blk[2]
    BY <1>0, <2>1 DEF Calls
  <2> QED BY <2>2, <2>3
<1>7. CASE Yielded
  BY <1>0, <1>7 DEF Yielded, Calls
<1>8. CASE Taken
  BY <1>0, <1>8 DEF Taken, Calls, Idle
<1>9. CASE Piece
  <2>1. call.pc = "alloc"
    BY <1>9 DEF Piece, At
  <2>2. call'.pc \in {"alloc", "done", "undo"}
    BY <1>0, <1>9, <2>1 DEF Piece, Calls
  <2> QED BY <2>2
<1>10. CASE Returned \/ Undone
  BY <1>10 DEF Returned, Undone, Idle
<1>11. CASE Undo
  BY <1>0, <1>11 DEF Undo, At, Calls
<1>12. CASE UNCHANGED vars
  BY <1>1, <1>12 DEF vars
<1> QED
  BY <1>2, <1>3, <1>4, <1>5, <1>6, <1>7, <1>8, <1>9, <1>10, <1>11, <1>12 DEF Next, Step

\* The ranges are coalesced: a run of free pages lies in one of them.
LEMMA RunIsInRange ==
  ASSUME NEW r, Sane(r), NEW p \in Nat, NEW n \in Nat \ {0}, Pages(p, n) \subseteq FreeIn(r)
  PROVE  \E b \in DOMAIN r : r[b] >= n
<1>1. p \in Pages(p, n)
  BY DEF Pages
<1>2. PICK b \in DOMAIN r : b <= p /\ p < b + r[b]
  BY <1>1, FreeInIs DEF Sane
<1>3. b \in Nat /\ r[b] \in Nat \ {0} /\ DOMAIN r \subseteq Nat
      /\ \A c \in DOMAIN r : r[c] \in Nat \ {0}
  BY DEF Sane, IsRanges
<1>4. b + r[b] \notin FreeIn(r)
  <2> SUFFICES ASSUME NEW c \in DOMAIN r, c <= b + r[b], b + r[b] < c + r[c] PROVE FALSE
    BY FreeInIs DEF Sane
  <2>1. CASE c < b
    <3>1. c + r[c] < b
      BY <2>1 DEF Sane, Apart
    <3> QED BY <1>3, <3>1
  <2>2. CASE b < c
    <3>1. b + r[b] < c
      BY <2>2 DEF Sane, Apart
    <3> QED BY <1>3, <3>1
  <2> QED BY <1>3, <2>1, <2>2
<1>5. b + r[b] \notin Pages(p, n)
  BY <1>4
<1>6. p + n <= b + r[b]
  BY <1>2, <1>3, <1>5 DEF Pages
<1> QED BY <1>2, <1>3, <1>6

LEMMA RefusedForNothing ==
  ASSUME Inv, call.pc \in Trying, NoMem(call.rem, call.flags),
         call.flags \cap {"LOWER16MB", "LOWER1MB"} = {}
  PROVE  IF "FIRSTBLOCK" \in call.flags THEN Free = {}
         ELSE \A p \in Free : ~(Pages(p, call.rem) \subseteq Free)
<1>1. Fits(call.rem, call.flags) = {}
  BY DEF NoMem, TooHigh
<1>2. CASE "FIRSTBLOCK" \in call.flags
  BY <1>1, <1>2 DEF Fits, Free
<1>3. CASE "FIRSTBLOCK" \notin call.flags
  <2>1. \A b \in DOMAIN ranges : ~ (ranges[b] >= call.rem)
    BY <1>1, <1>3 DEF Fits
  <2>2. call.rem \in Nat \ {0} /\ Sane(ranges) /\ Free = FreeIn(ranges)
    BY DEF Inv, CallOK, Calls, Free, FreeIn
  <2>3. \A p \in Free : p \in Nat
    BY <2>2, FreeInIs DEF Sane
  <2> QED BY <1>3, <2>1, <2>2, <2>3, RunIsInRange
<1> QED BY <1>2, <1>3

\* An allocation that fails for want of memory, in alloc_mem after its second
\* attempt or in alloc_mem_in_list after free_yielded found nothing, fails rightly:
\* because the ranges are coalesced, no run of free pages would have done.
THEOREM FailuresAreHonest == Spec => FailsOnlyWithoutMemory
<1>1. Init => NothingFits
  BY DEF Init, Idle, NothingFits
<1>2. Spec => [](Inv /\ NothingFits)
  BY <1>1, InvInit, InvNext, NothingFitsNext, PTL DEF Spec
<1>3. ASSUME Inv, NothingFits, [Next]_vars, call'.failed = "memory", call.failed = "no",
             call.flags \cap {"LOWER16MB", "LOWER1MB"} = {}
      PROVE  IF "FIRSTBLOCK" \in call.flags THEN Free = {}
             ELSE \A p \in Free : ~(Pages(p, call.rem) \subseteq Free)
  <2>0. CallOK /\ call \in Calls
    BY <1>3 DEF Inv, CallOK
  <2>1. CASE Refused
    <3>1. call.pc \in Trying /\ NoMem(call.rem, call.flags)
      BY <2>1 DEF Refused, At, Trying
    <3> QED BY <1>3, <3>1, RefusedForNothing
  <2>2. CASE Yielded
    <3>1. call.pc = "yield" /\ call.freed = 0
      BY <1>3, <2>0, <2>2 DEF Yielded, At, Calls
    <3> QED BY <1>3, <3>1, RefusedForNothing DEF NothingFits, Trying
  <2>3. ASSUME call'.failed = call.failed \/ call'.failed = "no" \/ call'.failed = "node"
        PROVE  FALSE
    BY <1>3, <2>3
  <2>4. ASSUME NEW blk \in held, free_mem(blk) \/ YieldBlock(blk) PROVE call' = call
    BY <2>4 DEF free_mem, YieldBlock
  <2>5. ASSUME NEW n \in Sizes, NEW flags \in Flags,
               alloc_mem(n, flags) \/ alloc_mem_in_list(n, flags)
        PROVE  call'.failed = "no"
    BY <2>5 DEF alloc_mem, alloc_mem_in_list, Idle
  <2>6. CASE FreeYielded \/ Undo
    BY <2>0, <2>3, <2>6 DEF FreeYielded, Undo, Calls
  <2>7. CASE Taken
    BY <2>0, <2>3, <2>7 DEF Taken, Idle, Calls
  <2>8. CASE Piece
    <3>1. call'.failed = call.failed \/ call'.failed = "node"
      BY <2>0, <2>8 DEF Piece, Calls
    <3> QED BY <2>3, <3>1
  <2>9. CASE Returned \/ Undone
    BY <2>3, <2>9 DEF Returned, Undone, Idle
  <2>10. CASE UNCHANGED vars
    BY <2>3, <2>10 DEF vars
  <2> QED
    BY <1>3, <2>1, <2>2, <2>3, <2>4, <2>5, <2>6, <2>7, <2>8, <2>9, <2>10 DEF Next, Step
<1>4. Inv /\ NothingFits /\ [Next]_vars =>
        [call'.failed = "memory" /\ call.failed = "no"
          /\ call.flags \cap {"LOWER16MB", "LOWER1MB"} = {} =>
          IF "FIRSTBLOCK" \in call.flags THEN Free = {}
          ELSE \A p \in Free : ~(Pages(p, call.rem) \subseteq Free)]_vars
  BY <1>3
<1> QED BY <1>2, <1>4, PTL DEF Spec, FailsOnlyWithoutMemory

-----------------------------------------------------------------------------
(* A list adds up. *)
InList == PagesOf(Range(call.head))

\* What a list allocation has and what it still wants make up the request.
Sums ==
    call.list /\ call.failed = "no" =>
        /\ call.pc \notin {"undo", "align"}
        /\ IsFiniteSet(InList) /\ call.rem + Cardinality(InList) = call.want
        /\ call.pc = "done" => call.rem = 0

\* A piece is as many pages as it says, and none of them is in the list yet.
LEMMA PieceCounts ==
  ASSUME NEW S, IsFiniteSet(S), NEW base \in Nat, NEW n \in Nat \ {0},
         Pages(base, n) \cap S = {}
  PROVE  /\ IsFiniteSet(S \cup Pages(base, n))
         /\ Cardinality(S \cup Pages(base, n)) = Cardinality(S) + n
<1> DEFINE P == Pages(base, n)
           last == base + n - 1
<1>1. IsFiniteSet(P) /\ Cardinality(P) = n
  <2>1. base \in Int /\ last \in Int /\ ~ (base > last) /\ last - base + 1 = n
    OBVIOUS
  <2>2. P = base .. last
    BY DEF Pages
  <2> HIDE DEF P, last
  <2> QED BY <2>1, <2>2, FS_Interval
<1> HIDE DEF P
<1>2. S \cap P = {} /\ Cardinality(S) \in Nat
  BY FS_CardinalityType DEF P
<1>3. /\ IsFiniteSet(S \cup P)
      /\ Cardinality(S \cup P) = Cardinality(S) + Cardinality(P) - Cardinality(S \cap P)
  BY <1>1, FS_Union
<1>4. Cardinality(S \cap P) = 0
  BY <1>2, FS_EmptySet
<1>5. IsFiniteSet(S \cup P) /\ Cardinality(S \cup P) = Cardinality(S) + n
  BY <1>1, <1>2, <1>3, <1>4
<1> QED BY <1>5 DEF P

LEMMA SumsNext == Inv /\ Sums /\ [Next]_vars => Sums'
<1> SUFFICES ASSUME Inv, Sums, [Next]_vars, call'.list, call'.failed = "no" PROVE Sums'
  BY DEF Sums
<1>0. call \in Calls
  BY DEF Inv, CallOK
<1>1. ASSUME call'.list = call.list, call'.failed = call.failed, call'.head = call.head,
             call'.rem = call.rem, call'.want = call.want,
             call'.pc \in {call.pc, "alloc", "yield"}
      PROVE  Sums'
  BY <1>1 DEF Sums, InList, PagesOf
<1>2. ASSUME call' = call PROVE Sums'
  BY <1>2 DEF Sums, InList, PagesOf
<1>3. ASSUME NEW blk \in held, free_mem(blk) \/ YieldBlock(blk) PROVE Sums'
  BY <1>2, <1>3 DEF free_mem, YieldBlock
<1>4. ASSUME NEW n \in Sizes, NEW flags \in Flags, alloc_mem(n, flags) PROVE FALSE
  BY <1>4 DEF alloc_mem, Idle
<1>5. ASSUME NEW n \in Sizes, NEW flags \in Flags, alloc_mem_in_list(n, flags) PROVE Sums'
  <2>1. call'.head = <<>> /\ call'.rem = n /\ call'.want = n /\ call'.pc = "alloc"
    BY <1>5 DEF alloc_mem_in_list, Idle
  <2>2. InList' = {}
    BY <2>1, EmptyList DEF InList, PagesOf
  <2> QED BY <2>1, <2>2, FS_EmptySet, PagesAssumption DEF Sums
<1>6. CASE Refused
  <2>1. call' = [call EXCEPT !.pc = "yield", !.freed = 0]
    BY <1>0, <1>6 DEF Refused, Calls
  <2> QED BY <1>0, <1>1, <2>1 DEF Calls
<1>7. CASE FreeYielded
  <2>1. PICK blk \in yielded : call' = [call EXCEPT !.freed = @ + blk[2]]
    BY <1>7 DEF FreeYielded
  <2> QED BY <1>0, <1>1, <2>1 DEF Calls
<1>8. CASE Yielded
  <2>1. call' = [call EXCEPT !.pc = "alloc"]
    BY <1>0, <1>8 DEF Yielded, Calls
  <2> QED BY <1>0, <1>1, <2>1 DEF Calls
<1>9. CASE Taken
  BY <1>0, <1>9 DEF Taken, Idle, Calls
<1>10. CASE Returned \/ Undone
  BY <1>10 DEF Returned, Undone, Idle
<1>11. CASE Undo
  <2>1. call.pc \in {"undo", "align"}
    BY <1>11 DEF Undo, At
  <2>2. call'.list = call.list /\ call'.failed = call.failed
    BY <1>0, <1>11 DEF Undo, Calls
  <2> QED BY <2>1, <2>2 DEF Sums
<1>12. CASE Piece
  <2> DEFINE b == Found(call.rem, call.flags)
             blk == Block(call.rem, call.flags)
             left == call.rem - blk[2]
  <2>1. /\ ~panicked /\ ~NoMem(call.rem, call.flags) /\ call.pc = "alloc" /\ call.list
        /\ call.head \in Seq(Blocks) /\ ListApart(call.head)
        /\ call.rem \in Nat \ {0} /\ call.want \in Nat
    BY <1>0, <1>12 DEF Inv, Piece, At, CallOK, Calls, Trying, BlocksOK
  <2>2. /\ b \in DOMAIN ranges /\ blk \in Blocks /\ blk[2] \in 1 .. ranges[b]
        /\ blk[2] <= call.rem /\ blk[1] = b + ranges[b] - blk[2]
    BY <2>1, BlockIsFree DEF Inv, Within, Blocks
  <2>3. PagesIn(blk) \subseteq Free
    BY <2>2, CutKeeps DEF Inv, Free, FreeIn, PagesIn
  <2> HIDE DEF blk
  <2>4. PagesIn(blk) \cap InList = {}
    BY <2>1, <2>3 DEF Inv, Partitioned, Partition, InHand, InList
  <2>5. call' = [call EXCEPT !.rem = left, !.head = <<blk>> \o call.head,
                             !.pc = IF left = 0 THEN "done" ELSE call.pc]
    <3>1. PICK s \in SlabAlloc(Cut(ranges, b, blk[2])) :
             call' = IF s.ok
               THEN [call EXCEPT !.rem = left, !.head = <<blk>> \o @,
                                 !.pc = IF left = 0 THEN "done" ELSE @]
               ELSE [call EXCEPT !.pc = "undo", !.failed = "node",
                                 !.head = Append(@, blk)]
      BY <1>12 DEF Piece, blk
    <3>2. s.ok
      BY <1>0, <3>1 DEF Calls
    <3> QED BY <3>1, <3>2
  <2>6. InList' = InList \cup PagesIn(blk)
    <3>1. PagesOf(Range(<<blk>> \o call.head)) = PagesOf(Range(call.head)) \cup PagesIn(blk)
      BY <2>1, <2>2, <2>4, ListCons DEF InList
    <3>2. call'.head = <<blk>> \o call.head
      BY <1>0, <2>5 DEF Calls
    <3> QED BY <3>1, <3>2 DEF InList, PagesOf
  <2>7. call.failed = "no" /\ call'.rem = left /\ call'.want = call.want
        /\ call'.pc = (IF left = 0 THEN "done" ELSE "alloc")
    BY <1>0, <2>1, <2>5 DEF Calls
  <2>8. IsFiniteSet(InList) /\ call.rem + Cardinality(InList) = call.want
    BY <2>1, <2>7 DEF Sums
  <2>9. blk[1] \in Nat /\ blk[2] \in Nat \ {0} /\ PagesIn(blk) = Pages(blk[1], blk[2])
    BY <2>2 DEF Blocks, PagesIn
  <2>10. /\ IsFiniteSet(InList') /\ Cardinality(InList') = Cardinality(InList) + blk[2]
    BY <2>4, <2>6, <2>8, <2>9, PieceCounts
  <2>11. Cardinality(InList) \in Nat
    BY <2>8, FS_CardinalityType
  <2>12. call'.rem + Cardinality(InList') = call'.want
    BY <2>1, <2>2, <2>7, <2>8, <2>9, <2>10, <2>11
  <2> QED BY <2>7, <2>10, <2>12 DEF Sums
<1>13. CASE UNCHANGED vars
  BY <1>2, <1>13 DEF vars
<1> QED
  BY <1>3, <1>4, <1>5, <1>6, <1>7, <1>8, <1>9, <1>10, <1>11, <1>12, <1>13 DEF Next, Step

\* alloc_mem_in_list returns exactly the pages it was asked for: at each moment
\* those on its list and those it still wants make up the request.
THEOREM ListsAddUp == Spec => []ListAddsUp
<1>1. Init => Sums
  BY DEF Init, Idle, Sums
<1>2. Sums => ListAddsUp
  BY DEF Sums, ListAddsUp, InList
<1> QED BY <1>1, <1>2, InvInit, InvNext, SumsNext, PTL DEF Spec
=============================================================================

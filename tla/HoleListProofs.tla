---------------------------- MODULE HoleListProofs ----------------------------
(***************************************************************************)
(* Proofs about HoleList: holes_sanity_f's invariant, the partition of the *)
(* clicks, the bound behind "hole table full", and first fit.              *)
(* The two lists of the table are carried through the proof as sequences:  *)
(* used, the slots of the holes from hole_head on, and spare, those from   *)
(* free_slots on.                                                          *)
(***************************************************************************)
EXTENDS HoleList, SequenceTheorems, FiniteSetTheorems, WellFoundedInduction, TLAPS

-----------------------------------------------------------------------------
(* Induction, by sets of numbers. *)

(* A set of natural numbers that is not empty has a least element. *)
LEMMA LeastNumber ==
  ASSUME NEW S \in SUBSET Nat, S # {}
  PROVE  \E n \in S : \A m \in S : n <= m
<1> DEFINE R == OpToRel(<, Nat)
<1>1. IsWellFoundedOn(R, Nat)
  BY NatLessThanWellFounded
<1>2. \E n \in S : \A m \in S : ~(<<m, n>> \in R)
  <2> HIDE DEF R
  <2> QED BY <1>1, WFMin
<1>3. PICK n \in S : \A m \in S : <<m, n>> \notin OpToRel(<, Nat)
  BY <1>2
<1>4. \A m \in S : ~(m < n)
  BY <1>3 DEF OpToRel
<1> QED BY <1>4

(* A set with 0 and with the successor of each of its elements is all of Nat. *)
LEMMA SetInduction ==
  ASSUME NEW S \in SUBSET Nat, 0 \in S, \A n \in S : n + 1 \in S
  PROVE  \A n \in Nat : n \in S
<1> SUFFICES ASSUME Nat \ S # {} PROVE FALSE
  OBVIOUS
<1>1. PICK n \in Nat \ S : \A m \in Nat \ S : n <= m
  BY LeastNumber
<1>2. n # 0 /\ n - 1 \in Nat
  BY <1>1
<1>3. n - 1 \in S
  BY <1>1, <1>2
<1> QED BY <1>1, <1>2, <1>3

-----------------------------------------------------------------------------
(* Sequences of slots. *)

Nth(w, i) == IF i \in 1 .. Len(w) THEN w[i] ELSE NULL
InsertAfter(w, k, s) ==
  [i \in 1 .. Len(w) + 1 |-> IF i <= k THEN w[i] ELSE IF i = k + 1 THEN s ELSE w[i - 1]]
Without(w, k) == [i \in 1 .. Len(w) - 1 |-> IF i < k THEN w[i] ELSE w[i + 1]]

Distinct(w) == \A i, j \in 1 .. Len(w) : w[i] = w[j] => i = j

Tables == [hole : [Slots -> [next : Slots \cup {NULL}, base : Nat, len : Nat]],
           head : Slots \cup {NULL}, free : Slots \cup {NULL}]

(* w lists, from slot p on and along h_next, slots of table t. *)
Linked(t, p, w) ==
  /\ p = Nth(w, 1)
  /\ \A i \in 1 .. Len(w) : t.hole[w[i]].next = Nth(w, i + 1)

(* used and spare are the two lists of table t, and each slot is on one of them. *)
Lists(t, used, spare) ==
  /\ t \in Tables
  /\ used \in Seq(Slots) /\ spare \in Seq(Slots)
  /\ Len(used) + Len(spare) = NrHoles
  /\ Distinct(used) /\ Distinct(spare)
  /\ \A i \in 1 .. Len(used), j \in 1 .. Len(spare) : used[i] # spare[j]
  /\ \A s \in Slots : \/ \E i \in 1 .. Len(used) : s = used[i]
                      \/ \E j \in 1 .. Len(spare) : s = spare[j]
  /\ Linked(t, t.head, used)
  /\ Linked(t, t.free, spare)

LEMMA ListType ==
  ASSUME NEW S, NEW n \in Nat, NEW w \in [1 .. n -> S]
  PROVE  w \in Seq(S) /\ Len(w) = n
OBVIOUS

LEMMA InsertAfterType ==
  ASSUME NEW w \in Seq(Slots), NEW k \in 0 .. Len(w), NEW s \in Slots
  PROVE  /\ InsertAfter(w, k, s) \in Seq(Slots)
         /\ Len(InsertAfter(w, k, s)) = Len(w) + 1
<1>1. InsertAfter(w, k, s) \in [1 .. Len(w) + 1 -> Slots]
  BY DEF InsertAfter
<1>2. Len(w) + 1 \in Nat
  OBVIOUS
<1> QED BY <1>1, <1>2, ListType

LEMMA WithoutType ==
  ASSUME NEW w \in Seq(Slots), NEW k \in 1 .. Len(w)
  PROVE  /\ Without(w, k) \in Seq(Slots)
         /\ Len(Without(w, k)) = Len(w) - 1
<1>1. Without(w, k) \in [1 .. Len(w) - 1 -> Slots]
  BY DEF Without
<1>2. Len(w) - 1 \in Nat
  OBVIOUS
<1> QED BY <1>1, <1>2, ListType

(* A function that satisfies the recursion of From, for the slots of t. *)
Chains(t, f) ==
  f = [q \in Slots \cup {NULL} |-> IF q = NULL THEN <<>> ELSE <<q>> \o f[t.hole[q].next]]

LEMMA FromChains ==
  ASSUME NEW t, NEW g, Chains(t, g)
  PROVE  \E f : Chains(t, f) /\ \A p : From(t, p) = f[p]
<1>1. Chains(t, CHOOSE f : Chains(t, f))
  OBVIOUS
<1> QED BY <1>1 DEF From, Chains

(* The part of a list from place i on. *)
Rest(w, i) == SubSeq(w, i, Len(w))

LEMMA RestStep ==
  ASSUME NEW w \in Seq(Slots), NEW i \in 1 .. Len(w)
  PROVE  /\ Rest(w, i) = <<w[i]>> \o Rest(w, i + 1)
         /\ Rest(w, Len(w) + 1) = <<>>
<1>1. Rest(w, i) = <<w[i]>> \o Rest(w, i + 1)
  BY SubSeqRecursiveFirst DEF Rest
<1>2. Rest(w, Len(w) + 1) = <<>>
  BY SubSeqEmpty DEF Rest
<1> QED BY <1>1, <1>2

(* What satisfies the recursion of From gives, for each slot of a list, the
   part of the list from there on. *)
LEMMA ChainsGiveRest ==
  ASSUME NEW t, NEW f, Chains(t, f), NEW w \in Seq(Slots), NEW p, Linked(t, p, w)
  PROVE  f[p] = w
<1> DEFINE n == Len(w)
           S  == {k \in Nat : k < n => f[w[n - k]] = Rest(w, n - k)}
<1>1. NULL \notin Slots
  BY HoleAssumption DEF Slots
<1>2. f[NULL] = <<>>
  BY DEF Chains
<1>3. \A i \in 1 .. n : w[i] \in Slots /\ f[w[i]] = <<w[i]>> \o f[Nth(w, i + 1)]
  <2>1. \A q \in Slots : f[q] = <<q>> \o f[t.hole[q].next]
    BY <1>1 DEF Chains
  <2>2. \A i \in 1 .. n : w[i] \in Slots /\ t.hole[w[i]].next = Nth(w, i + 1)
    BY DEF Linked
  <2> QED BY <2>1, <2>2
<1>4. 0 \in S
  <2>1. CASE n > 0
    <3>1. n \in 1 .. n /\ Nth(w, n + 1) = NULL
      BY <2>1 DEF Nth
    <3>2. f[w[n]] = <<w[n]>> \o <<>>
      BY <1>2, <1>3, <3>1
    <3>3. Rest(w, n) = <<w[n]>> \o <<>>
      BY <3>1, RestStep
    <3> QED BY <3>2, <3>3
  <2> QED BY <2>1
<1>5. ASSUME NEW k \in S PROVE k + 1 \in S
  <2> SUFFICES ASSUME k + 1 < n PROVE f[w[n - (k + 1)]] = Rest(w, n - (k + 1))
    OBVIOUS
  <2> DEFINE i == n - (k + 1)
  <2>1. i \in 1 .. n /\ i + 1 \in 1 .. n /\ i + 1 = n - k
    OBVIOUS
  <2>2. f[w[i + 1]] = Rest(w, i + 1)
    BY <2>1
  <2>3. f[w[i]] = <<w[i]>> \o Rest(w, i + 1)
    BY <1>3, <2>1, <2>2 DEF Nth
  <2> QED BY <2>1, <2>3, RestStep
<1>6. \A k \in Nat : k \in S
  BY <1>4, <1>5, SetInduction
<1>7. CASE n = 0
  BY <1>2, <1>7 DEF Linked, Nth
<1>8. CASE n > 0
  <2>1. n - 1 \in S /\ n - (n - 1) = 1
    BY <1>6, <1>8
  <2>2. f[w[1]] = Rest(w, 1) /\ p = w[1]
    BY <2>1, <1>8 DEF Linked, Nth
  <2> QED BY <2>2, SubSeqFull DEF Rest
<1> QED BY <1>7, <1>8

(* The links are what From follows: the two lists are what it computes. *)
LEMMA FromLists ==
  ASSUME NEW t, NEW used, NEW spare, Lists(t, used, spare)
  PROVE  Holes(t) = used /\ From(t, t.free) = spare
<1> DEFINE At(w, q) == CHOOSE i \in 1 .. Len(w) : w[i] = q
           g == [q \in Slots \cup {NULL} |->
                   IF q = NULL THEN <<>>
                   ELSE IF \E i \in 1 .. Len(used) : q = used[i]
                        THEN Rest(used, At(used, q)) ELSE Rest(spare, At(spare, q))]
<1> USE DEF Lists
<1>0. NULL \notin Slots
  BY HoleAssumption DEF Slots
<1>1. /\ \A i \in 1 .. Len(used) : g[used[i]] = Rest(used, i)
      /\ \A i \in 1 .. Len(spare) : g[spare[i]] = Rest(spare, i)
      /\ g[NULL] = <<>>
  <2>1. \A i \in 1 .. Len(used) : At(used, used[i]) = i
    BY DEF Distinct
  <2>2. \A i \in 1 .. Len(spare) : At(spare, spare[i]) = i
    BY DEF Distinct
  <2> HIDE DEF At
  <2> QED BY <1>0, <2>1, <2>2
<1>2. ASSUME NEW w \in Seq(Slots), NEW i \in 1 .. Len(w), g[NULL] = <<>>,
             \A j \in 1 .. Len(w) : g[w[j]] = Rest(w, j)
      PROVE  g[w[i]] = <<w[i]>> \o g[Nth(w, i + 1)]
  <2> HIDE DEF g
  <2>1. g[Nth(w, i + 1)] = Rest(w, i + 1)
    <3>1. CASE i = Len(w)
      <4>1. Nth(w, i + 1) = NULL
        BY <3>1 DEF Nth
      <4>2. Rest(w, i + 1) = <<>>
        BY <3>1, RestStep
      <4> QED BY <4>1, <4>2, <1>2
    <3>2. CASE i # Len(w)
      <4>1. i + 1 \in 1 .. Len(w)
        BY <3>2
      <4> QED BY <4>1, <1>2 DEF Nth
    <3> QED BY <3>1, <3>2
  <2> HIDE DEF Lists
  <2>2. Rest(w, i) = <<w[i]>> \o Rest(w, i + 1)
    BY RestStep
  <2>3. g[w[i]] = Rest(w, i)
    BY <1>2
  <2> QED BY <2>1, <2>2, <2>3
<1>3. Chains(t, g)
  <2>1. \A q \in Slots : g[q] = <<q>> \o g[t.hole[q].next]
    <3> HIDE DEF g
    <3>1. \A i \in 1 .. Len(used) : g[used[i]] = <<used[i]>> \o g[t.hole[used[i]].next]
      <4>1. \A i \in 1 .. Len(used) : t.hole[used[i]].next = Nth(used, i + 1)
        BY DEF Linked
      <4>2. used \in Seq(Slots)
        OBVIOUS
      <4> HIDE DEF Lists
      <4> QED BY <1>1, <1>2, <4>1, <4>2
    <3>2. \A i \in 1 .. Len(spare) : g[spare[i]] = <<spare[i]>> \o g[t.hole[spare[i]].next]
      <4>1. \A i \in 1 .. Len(spare) : t.hole[spare[i]].next = Nth(spare, i + 1)
        BY DEF Linked
      <4>2. spare \in Seq(Slots)
        OBVIOUS
      <4> HIDE DEF Lists
      <4> QED BY <1>1, <1>2, <4>1, <4>2
    <3>3. \A s \in Slots : \/ \E i \in 1 .. Len(used) : s = used[i]
                          \/ \E j \in 1 .. Len(spare) : s = spare[j]
      OBVIOUS
    <3> HIDE DEF Lists
    <3>4. ASSUME NEW q \in Slots PROVE g[q] = <<q>> \o g[t.hole[q].next]
      <4>1. ASSUME NEW i \in 1 .. Len(used), q = used[i]
            PROVE  g[q] = <<q>> \o g[t.hole[q].next]
        BY <3>1, <4>1
      <4>2. ASSUME NEW i \in 1 .. Len(spare), q = spare[i]
            PROVE  g[q] = <<q>> \o g[t.hole[q].next]
        BY <3>2, <4>2
      <4> QED BY <3>3, <4>1, <4>2
    <3> QED BY <3>4
  <2>2. DOMAIN g = Slots \cup {NULL} /\ g = [q \in DOMAIN g |-> g[q]]
    OBVIOUS
  <2> HIDE DEF g
  <2> QED BY <1>0, <1>1, <2>1, <2>2 DEF Chains
<1>4. PICK f : Chains(t, f) /\ \A p : From(t, p) = f[p]
  BY <1>3, FromChains
<1> QED BY <1>4, ChainsGiveRest DEF Holes

-----------------------------------------------------------------------------
(* What the operations do to the two lists. *)

(* d is t with slot hp, that follows prev, gone from its list to the unused slots. *)
Deleted(t, prev, hp, d) ==
  /\ d \in Tables
  /\ d.free = hp
  /\ d.head = IF hp = t.head THEN t.hole[hp].next ELSE t.head
  /\ \A s \in Slots :
       /\ d.hole[s].next = IF s = hp THEN t.free
                           ELSE IF hp # t.head /\ s = prev THEN t.hole[hp].next
                           ELSE t.hole[s].next
       /\ s # hp => d.hole[s].base = t.hole[s].base /\ d.hole[s].len = t.hole[s].len

LEMMA DelSlotFields ==
  ASSUME NEW t \in Tables, NEW hp \in Slots, NEW prev,
         hp # t.head => prev \in Slots /\ prev # hp
  PROVE  Deleted(t, prev, hp, DelSlot(t, prev, hp))
<1> DEFINE next == t.hole[hp].next
           cut  == IF hp = t.head THEN [t EXCEPT !.head = next]
                   ELSE [t EXCEPT !.hole[prev].next = next]
<1>1. /\ cut \in Tables /\ cut.free = t.free
      /\ cut.head = IF hp = t.head THEN next ELSE t.head
      /\ \A s \in Slots :
           /\ cut.hole[s].next = IF hp # t.head /\ s = prev THEN next ELSE t.hole[s].next
           /\ cut.hole[s].base = t.hole[s].base
           /\ cut.hole[s].len = t.hole[s].len
  <2>1. CASE hp = t.head
    BY <2>1 DEF Tables
  <2>2. CASE hp # t.head
    <3>1. prev \in Slots /\ next \in Slots \cup {NULL}
      BY <2>2 DEF Tables
    <3>2. cut = [t EXCEPT !.hole = [t.hole EXCEPT ![prev] = [t.hole[prev] EXCEPT !.next = next]]]
      BY <2>2, <3>1 DEF Tables
    <3> QED BY <2>2, <3>1, <3>2 DEF Tables
  <2> QED BY <2>1, <2>2
<1> DEFINE d == DelSlot(t, prev, hp)
           clear == [cut.hole EXCEPT ![hp] = [next |-> t.free, base |-> 0, len |-> 0]]
<1>2. d = [cut EXCEPT !.hole = clear, !.free = hp]
  BY DEF DelSlot
<1>3. t.free \in Slots \cup {NULL}
  BY DEF Tables
<1> HIDE DEF cut
<1>4. /\ clear \in [Slots -> [next : Slots \cup {NULL}, base : Nat, len : Nat]]
      /\ clear[hp].next = t.free
      /\ \A s \in Slots \ {hp} : clear[s] = cut.hole[s]
  BY <1>1, <1>3 DEF Tables
<1> HIDE DEF clear, d
<1>5. d \in Tables /\ d.head = cut.head /\ d.free = hp /\ d.hole = clear
  BY <1>1, <1>2, <1>4 DEF Tables
<1> QED BY <1>1, <1>4, <1>5 DEF Deleted, d

(* In d the k-th slot of the hole list has gone to the front of the unused ones. *)
SlotGone(t, used, spare, k, d) ==
  /\ Lists(d, Without(used, k), InsertAfter(spare, 0, used[k]))
  /\ \A i \in 1 .. Len(used) \ {k} : /\ d.hole[used[i]].base = t.hole[used[i]].base
                                       /\ d.hole[used[i]].len = t.hole[used[i]].len

LEMMA DelSlotLists ==
  ASSUME NEW t, NEW used, NEW spare, Lists(t, used, spare), NEW k \in 1 .. Len(used),
         NEW prev, k > 1 => prev = used[k - 1]
  PROVE  SlotGone(t, used, spare, k, DelSlot(t, prev, used[k]))
<1> DEFINE hp == used[k]
           u  == Without(used, k)
           v  == InsertAfter(spare, 0, hp)
           n  == Len(used)
           m  == Len(spare)
           d  == DelSlot(t, prev, hp)
<1>1. /\ t \in Tables /\ used \in Seq(Slots) /\ spare \in Seq(Slots)
      /\ n \in Nat /\ m \in Nat /\ n + m = NrHoles /\ hp \in Slots
      /\ \A i \in 1 .. n : used[i] \in Slots
      /\ \A i \in 1 .. m : spare[i] \in Slots
  BY DEF Lists
<1>2. /\ \A i, j \in 1 .. n : used[i] = used[j] => i = j
      /\ \A i, j \in 1 .. m : spare[i] = spare[j] => i = j
      /\ \A i \in 1 .. n, j \in 1 .. m : used[i] # spare[j]
  BY DEF Lists, Distinct
<1>3. /\ t.head = used[1]
      /\ \A i \in 1 .. n : t.hole[used[i]].next = IF i < n THEN used[i + 1] ELSE NULL
      /\ t.free = IF m > 0 THEN spare[1] ELSE NULL
      /\ \A i \in 1 .. m : t.hole[spare[i]].next = IF i < m THEN spare[i + 1] ELSE NULL
  BY <1>1 DEF Lists, Linked, Nth
<1>4. hp = t.head <=> k = 1
  BY <1>1, <1>2, <1>3
<1>5. hp # t.head => prev = used[k - 1] /\ prev \in Slots /\ prev # hp
  BY <1>1, <1>2, <1>4
<1>6. /\ d \in Tables
      /\ d.free = hp
      /\ d.head = IF hp = t.head THEN t.hole[hp].next ELSE t.head
      /\ \A s \in Slots :
           /\ d.hole[s].next = IF s = hp THEN t.free
                               ELSE IF hp # t.head /\ s = prev THEN t.hole[hp].next
                               ELSE t.hole[s].next
           /\ s # hp => d.hole[s].base = t.hole[s].base /\ d.hole[s].len = t.hole[s].len
  <2>1. Deleted(t, prev, hp, d)
    BY <1>1, <1>5, DelSlotFields
  <2> QED BY <2>1 DEF Deleted
<1>7. /\ u \in Seq(Slots) /\ Len(u) = n - 1
      /\ \A i \in 1 .. n - 1 : u[i] = IF i < k THEN used[i] ELSE used[i + 1]
  BY <1>1, WithoutType DEF Without
<1>8. /\ v \in Seq(Slots) /\ Len(v) = m + 1
      /\ \A i \in 1 .. m + 1 : v[i] = IF i = 1 THEN hp ELSE spare[i - 1]
  <2>1. 0 \in 0 .. m
    BY <1>1
  <2> QED BY <1>1, <2>1, InsertAfterType DEF InsertAfter
<1> HIDE DEF hp, u, v, n, m, d
<1>9. k \in 1 .. n /\ hp = used[k]
  BY DEF n, hp
<1>10. Distinct(u) /\ Distinct(v)
  <2>1. Distinct(u)
    BY <1>1, <1>2, <1>7, <1>9 DEF Distinct
  <2>2. Distinct(v)
    <3> SUFFICES ASSUME NEW i \in 1 .. m + 1, NEW j \in 1 .. m + 1, v[i] = v[j]
                 PROVE  i = j
      BY <1>8 DEF Distinct
    <3>1. \A l \in 1 .. m + 1 : l # 1 => l - 1 \in 1 .. m /\ v[l] = spare[l - 1] /\ v[l] # hp
      BY <1>1, <1>2, <1>8, <1>9
    <3>2. v[1] = hp
      BY <1>1, <1>8
    <3>3. CASE i # 1 /\ j # 1
      BY <1>2, <3>1, <3>3
    <3> QED BY <3>1, <3>2, <3>3
  <2> QED BY <2>1, <2>2
<1>11. \A i \in 1 .. Len(u), j \in 1 .. Len(v) : u[i] # v[j]
  <2> SUFFICES ASSUME NEW i \in 1 .. n - 1, NEW j \in 1 .. m + 1 PROVE u[i] # v[j]
    BY <1>7, <1>8
  <2>1. PICK l \in 1 .. n : l # k /\ u[i] = used[l]
    BY <1>1, <1>7, <1>9
  <2>2. CASE j = 1
    BY <1>2, <1>8, <1>9, <2>1, <2>2
  <2>3. CASE j # 1
    <3>1. j - 1 \in 1 .. m /\ v[j] = spare[j - 1]
      BY <1>1, <1>8, <2>3
    <3> QED BY <1>2, <2>1, <3>1
  <2> QED BY <2>2, <2>3
<1>12. ASSUME NEW s \in Slots
       PROVE  \/ \E i \in 1 .. Len(u) : s = u[i]
              \/ \E j \in 1 .. Len(v) : s = v[j]
  <2>1. ASSUME NEW i \in 1 .. n, s = used[i], i # k
        PROVE  \E l \in 1 .. Len(u) : s = u[l]
    <3>1. CASE i < k
      BY <1>1, <1>7, <1>9, <2>1, <3>1
    <3>2. CASE i > k
      <4>1. i - 1 \in 1 .. Len(u) /\ u[i - 1] = used[i]
        BY <1>1, <1>7, <1>9, <2>1, <3>2
      <4> QED BY <4>1, <2>1
    <3> QED BY <1>1, <1>9, <2>1, <3>1, <3>2
  <2>2. ASSUME s = hp
        PROVE  \E j \in 1 .. Len(v) : s = v[j]
    <3>1. 1 \in 1 .. Len(v) /\ v[1] = hp
      BY <1>1, <1>8
    <3> QED BY <2>2, <3>1
  <2>3. ASSUME NEW j \in 1 .. m, s = spare[j]
        PROVE  \E l \in 1 .. Len(v) : s = v[l]
    <3>1. j + 1 \in 1 .. Len(v) /\ v[j + 1] = spare[j]
      BY <1>1, <1>8
    <3> QED BY <2>3, <3>1
  <2> QED BY <2>1, <2>2, <2>3, <1>9 DEF Lists, n, m
<1>13. Linked(d, d.head, u)
  <2>1. d.head = Nth(u, 1)
    BY <1>1, <1>3, <1>4, <1>6, <1>7, <1>9 DEF Nth
  <2>2. ASSUME NEW i \in 1 .. Len(u)
        PROVE  d.hole[u[i]].next = Nth(u, i + 1)
    <3>1. CASE i < k - 1
      <4>1. i \in 1 .. n /\ i + 1 \in 1 .. n - 1 /\ u[i] = used[i] /\ u[i + 1] = used[i + 1]
        BY <1>1, <1>7, <1>9, <3>1
      <4>2. used[i] # hp /\ (hp # t.head => used[i] # prev)
        BY <1>1, <1>2, <1>4, <1>5, <1>9, <3>1, <4>1
      <4>3. d.hole[used[i]].next = t.hole[used[i]].next
        BY <1>1, <1>6, <4>1, <4>2
      <4>4. d.hole[u[i]].next = used[i + 1]
        BY <1>1, <1>3, <1>9, <3>1, <4>1, <4>3
      <4> QED BY <1>7, <4>1, <4>4 DEF Nth
    <3>2. CASE i = k - 1
      <4>1. /\ i \in 1 .. n /\ k > 1 /\ i \in 1 .. n - 1 /\ i < k /\ i + 1 = k
            /\ k \in 1 .. n
        BY <1>1, <1>7, <1>9, <3>2
      <4>2. u[i] = prev /\ prev \in Slots /\ prev # hp /\ hp # t.head
        BY <1>4, <1>5, <1>7, <4>1
      <4>3. d.hole[u[i]].next = t.hole[hp].next
        BY <1>6, <4>2
      <4>4. t.hole[hp].next = IF k < n THEN used[k + 1] ELSE NULL
        BY <1>3, <1>9, <4>1
      <4>5. k < n => k \in 1 .. n - 1 /\ u[k] = used[k + 1]
        BY <1>1, <1>7, <4>1
      <4> QED BY <1>1, <1>7, <4>1, <4>3, <4>4, <4>5 DEF Nth
    <3>3. CASE i > k - 1
      <4>1. i + 1 \in 1 .. n /\ u[i] = used[i + 1]
        BY <1>1, <1>7, <1>9, <3>3
      <4>2. used[i + 1] # hp /\ (hp # t.head => used[i + 1] # prev)
        BY <1>1, <1>2, <1>4, <1>5, <1>9, <3>3, <4>1
      <4>3. d.hole[used[i + 1]].next = t.hole[used[i + 1]].next
        BY <1>1, <1>6, <4>1, <4>2
      <4>4. d.hole[u[i]].next = IF i + 1 < n THEN used[i + 2] ELSE NULL
        <5>1. t.hole[used[i + 1]].next = IF i + 1 < n THEN used[(i + 1) + 1] ELSE NULL
          BY <1>3, <4>1
        <5> QED BY <4>1, <4>3, <5>1
      <4>5. i + 1 < n => i + 1 \in 1 .. n - 1 /\ u[i + 1] = used[i + 2]
        BY <1>1, <1>7, <1>9, <3>3, <4>1
      <4> QED BY <1>1, <1>7, <4>1, <4>4, <4>5 DEF Nth
    <3> QED BY <1>1, <1>7, <1>9, <3>1, <3>2, <3>3
  <2> QED BY <2>1, <2>2 DEF Linked
<1>14. Linked(d, d.free, v)
  <2>1. d.free = Nth(v, 1)
    BY <1>1, <1>6, <1>8 DEF Nth
  <2>2. ASSUME NEW i \in 1 .. Len(v)
        PROVE  d.hole[v[i]].next = Nth(v, i + 1)
    <3>1. CASE i = 1
      BY <1>1, <1>3, <1>6, <1>8, <3>1 DEF Nth
    <3>2. CASE i > 1
      <4>1. i - 1 \in 1 .. m /\ v[i] = spare[i - 1]
        BY <1>1, <1>8, <3>2
      <4>0. v[i] # hp
        BY <1>2, <1>9, <4>1
      <4>2. hp # t.head => v[i] # prev
        BY <1>1, <1>2, <1>4, <1>5, <1>9, <4>1, <4>0
      <4>3. d.hole[v[i]].next = t.hole[spare[i - 1]].next
        BY <1>1, <1>6, <4>1, <4>2, <4>0
      <4>4. d.hole[v[i]].next = IF i - 1 < m THEN spare[i] ELSE NULL
        BY <1>3, <4>1, <4>3
      <4>5. i - 1 < m => i + 1 \in 1 .. m + 1 /\ v[i + 1] = spare[i]
        BY <1>1, <1>8, <3>2, <4>1
      <4> QED BY <1>1, <1>8, <4>1, <4>4, <4>5 DEF Nth
    <3> QED BY <1>1, <1>8, <3>1, <3>2
  <2> QED BY <2>1, <2>2 DEF Linked
<1>15. Lists(d, u, v)
  <2>1. Len(u) + Len(v) = NrHoles
    BY <1>1, <1>7, <1>8
  <2> QED BY <1>6, <1>7, <1>8, <1>10, <1>11, <1>12, <1>13, <1>14, <2>1 DEF Lists
<1>16. \A i \in 1 .. n \ {k} : /\ d.hole[used[i]].base = t.hole[used[i]].base
                               /\ d.hole[used[i]].len = t.hole[used[i]].len
  BY <1>1, <1>2, <1>6, <1>9
<1> QED BY <1>15, <1>16 DEF u, v, n, hp, d, SlotGone

(* d is t with the first unused slot taken for a hole and put on the hole list,
   behind slot prev or, if first, in front. *)
Inserted(t, first, prev, base, len, d) ==
  LET new == t.free
  IN  /\ d \in Tables
      /\ d.free = t.hole[new].next
      /\ d.head = IF first THEN new ELSE t.head
      /\ \A s \in Slots :
           /\ d.hole[s].next = IF s = new THEN IF first THEN t.head ELSE t.hole[prev].next
                               ELSE IF ~first /\ s = prev THEN new
                               ELSE t.hole[s].next
           /\ d.hole[s].base = IF s = new THEN base ELSE t.hole[s].base
           /\ d.hole[s].len = IF s = new THEN len ELSE t.hole[s].len

(* The table free_mem makes before it merges. *)
PutIn(t, first, prev, base, len) ==
  LET new   == t.free
      taken == [t EXCEPT !.hole[new].base = base, !.hole[new].len = len,
                         !.free = t.hole[new].next]
  IN  IF first THEN [taken EXCEPT !.hole[new].next = t.head, !.head = new]
      ELSE [taken EXCEPT !.hole[new].next = t.hole[prev].next, !.hole[prev].next = new]

LEMMA PutInFields ==
  ASSUME NEW t \in Tables, NEW first \in BOOLEAN, NEW prev, NEW base \in Nat, NEW len \in Nat,
         t.free \in Slots, ~first => prev \in Slots /\ prev # t.free
  PROVE  Inserted(t, first, prev, base, len, PutIn(t, first, prev, base, len))
<1> DEFINE new   == t.free
           Hole  == [next : Slots \cup {NULL}, base : Nat, len : Nat]
           h1    == [t.hole EXCEPT ![new] = [next |-> t.hole[new].next, base |-> base, len |-> len]]
           taken == [t EXCEPT !.hole[new].base = base, !.hole[new].len = len,
                              !.free = t.hole[new].next]
           h2    == [h1 EXCEPT ![new].next = IF first THEN t.head ELSE t.hole[prev].next]
           h3    == IF first THEN h2 ELSE [h2 EXCEPT ![prev].next = new]
           d     == PutIn(t, first, prev, base, len)
<1>1. /\ t.hole \in [Slots -> Hole] /\ t.head \in Slots \cup {NULL}
      /\ new \in Slots /\ t.hole[new].next \in Slots \cup {NULL}
      /\ ~first => t.hole[prev].next \in Slots \cup {NULL}
  BY DEF Tables
<1>2. /\ h1 \in [Slots -> Hole]
      /\ h1[new] = [next |-> t.hole[new].next, base |-> base, len |-> len]
      /\ \A s \in Slots : s # new => h1[s] = t.hole[s]
  BY <1>1
<1>3. taken = [hole |-> h1, head |-> t.head, free |-> t.hole[new].next]
  <2> DEFINE hb == [t.hole EXCEPT ![new].base = base]
             hl == [hb EXCEPT ![new].len = len]
  <2>1. taken = [t EXCEPT !.hole = hl, !.free = t.hole[new].next]
    BY DEF Tables
  <2>2. /\ hb \in [Slots -> Hole]
        /\ hb[new] = [next |-> t.hole[new].next, base |-> base, len |-> t.hole[new].len]
        /\ \A s \in Slots : s # new => hb[s] = t.hole[s]
    BY <1>1
  <2> HIDE DEF hb
  <2>3. /\ hl \in [Slots -> Hole]
        /\ hl[new] = [next |-> t.hole[new].next, base |-> base, len |-> len]
        /\ \A s \in Slots : s # new => hl[s] = t.hole[s]
    BY <1>1, <2>2
  <2> HIDE DEF hl, h1, taken
  <2>4. hl = h1
    <3>1. \A s \in Slots : hl[s] = h1[s]
      BY <1>2, <2>3
    <3> QED BY <1>2, <2>3, <3>1
  <2>5. t = [hole |-> t.hole, head |-> t.head, free |-> t.free]
    BY DEF Tables
  <2> QED BY <2>1, <2>4, <2>5
<1> HIDE DEF h1
<1>4. /\ h2 \in [Slots -> Hole]
      /\ h2[new] = [next |-> IF first THEN t.head ELSE t.hole[prev].next, base |-> base, len |-> len]
      /\ \A s \in Slots : s # new => h2[s] = t.hole[s]
  BY <1>1, <1>2
<1>5. d = [hole |-> h3, head |-> IF first THEN new ELSE t.head, free |-> t.hole[new].next]
  <2>0. d = IF first THEN [taken EXCEPT !.hole[new].next = t.head, !.head = new]
            ELSE [taken EXCEPT !.hole[new].next = t.hole[prev].next, !.hole[prev].next = new]
    BY DEF PutIn
  <2> HIDE DEF taken, d
  <2>1. CASE first
    BY <1>1, <1>2, <1>3, <2>0, <2>1
  <2>2. CASE ~first
    BY <1>1, <1>2, <1>3, <2>0, <2>2
  <2> QED BY <2>1, <2>2
<1> HIDE DEF h2
<1>6. /\ h3 \in [Slots -> Hole]
      /\ \A s \in Slots : ~first /\ s = prev => h3[s] = [h2[s] EXCEPT !.next = new]
      /\ \A s \in Slots : ~(~first /\ s = prev) => h3[s] = h2[s]
  BY <1>1, <1>4
<1> HIDE DEF h3, d
<1>7. /\ d \in Tables /\ d.hole = h3
      /\ d.head = IF first THEN new ELSE t.head
      /\ d.free = t.hole[new].next
  BY <1>1, <1>5, <1>6 DEF Tables
<1>8. ASSUME NEW s \in Slots
      PROVE  /\ h3[s].next = IF s = new THEN IF first THEN t.head ELSE t.hole[prev].next
                             ELSE IF ~first /\ s = prev THEN new
                             ELSE t.hole[s].next
             /\ h3[s].base = IF s = new THEN base ELSE t.hole[s].base
             /\ h3[s].len = IF s = new THEN len ELSE t.hole[s].len
  <2>1. t.hole[s] \in Hole /\ h2[s] \in Hole
    BY <1>1, <1>4
  <2> QED BY <1>1, <1>4, <1>6, <2>1
<1> QED BY <1>7, <1>8 DEF Inserted, d

(* In d the first unused slot is on the hole list, behind the k-th. *)
SlotTaken(t, used, spare, k, base, len, d) ==
  /\ Lists(d, InsertAfter(used, k, t.free), Without(spare, 1))
  /\ t.free \in Slots
  /\ d.hole[t.free].base = base /\ d.hole[t.free].len = len
  /\ \A i \in 1 .. Len(used) : /\ d.hole[used[i]].base = t.hole[used[i]].base
                                /\ d.hole[used[i]].len = t.hole[used[i]].len

LEMMA PutInLists ==
  ASSUME NEW t, NEW used, NEW spare, Lists(t, used, spare), Len(spare) > 0,
         NEW k \in 0 .. Len(used), NEW prev, k > 0 => prev = used[k],
         NEW base \in Nat, NEW len \in Nat
  PROVE  SlotTaken(t, used, spare, k, base, len, PutIn(t, k = 0, prev, base, len))
<1> DEFINE new == t.free
           u   == InsertAfter(used, k, new)
           v   == Without(spare, 1)
           n   == Len(used)
           m   == Len(spare)
           first == k = 0
           d   == PutIn(t, k = 0, prev, base, len)
<1>1. /\ t \in Tables /\ used \in Seq(Slots) /\ spare \in Seq(Slots)
      /\ n \in Nat /\ m \in Nat /\ n + m = NrHoles /\ m > 0
      /\ \A i \in 1 .. n : used[i] \in Slots
      /\ \A i \in 1 .. m : spare[i] \in Slots
  BY DEF Lists
<1>2. /\ \A i, j \in 1 .. n : used[i] = used[j] => i = j
      /\ \A i, j \in 1 .. m : spare[i] = spare[j] => i = j
      /\ \A i \in 1 .. n, j \in 1 .. m : used[i] # spare[j]
  BY DEF Lists, Distinct
<1>3. /\ t.head = IF n > 0 THEN used[1] ELSE NULL
      /\ \A i \in 1 .. n : t.hole[used[i]].next = IF i < n THEN used[i + 1] ELSE NULL
      /\ new = spare[1] /\ new \in Slots
      /\ \A i \in 1 .. m : t.hole[spare[i]].next = IF i < m THEN spare[i + 1] ELSE NULL
  BY <1>1 DEF Lists, Linked, Nth
<1>4. \A i \in 1 .. n : used[i] # new
  BY <1>1, <1>2, <1>3
<1>5. k \in 1 .. n => prev = used[k] /\ prev \in Slots /\ prev # new
  BY <1>1, <1>4
<1>6. /\ d \in Tables
      /\ d.free = t.hole[new].next
      /\ d.head = IF k = 0 THEN new ELSE t.head
      /\ \A s \in Slots :
           /\ d.hole[s].next = IF s = new THEN IF k = 0 THEN t.head ELSE t.hole[prev].next
                               ELSE IF k # 0 /\ s = prev THEN new
                               ELSE t.hole[s].next
           /\ d.hole[s].base = IF s = new THEN base ELSE t.hole[s].base
           /\ d.hole[s].len = IF s = new THEN len ELSE t.hole[s].len
  <2>1. first \in BOOLEAN /\ (~first => prev \in Slots /\ prev # new)
    BY <1>5
  <2>2. Inserted(t, first, prev, base, len, d)
    <3> HIDE DEF first
    <3>1. d = PutIn(t, first, prev, base, len)
      BY DEF first
    <3>2. t \in Tables /\ t.free \in Slots
      BY <1>1, <1>3
    <3>3. Inserted(t, first, prev, base, len, PutIn(t, first, prev, base, len))
      BY <2>1, <3>2, PutInFields
    <3> QED BY <3>1, <3>3
  <2> QED BY <2>2 DEF Inserted
<1>7. /\ u \in Seq(Slots) /\ Len(u) = n + 1
      /\ \A i \in 1 .. n + 1 : u[i] = IF i <= k THEN used[i]
                                      ELSE IF i = k + 1 THEN new ELSE used[i - 1]
  BY <1>1, <1>3, InsertAfterType DEF InsertAfter
<1>8. /\ v \in Seq(Slots) /\ Len(v) = m - 1
      /\ \A i \in 1 .. m - 1 : v[i] = spare[i + 1]
  <2>1. 1 \in 1 .. m
    BY <1>1
  <2> QED BY <1>1, <2>1, WithoutType DEF Without
<1> HIDE DEF new, u, v, n, m, d
<1>9. k \in 0 .. n
  BY DEF n
<1>10. \A i \in 1 .. n + 1 : \/ i = k + 1 /\ u[i] = new
                             \/ i <= k /\ i \in 1 .. n /\ u[i] = used[i]
                             \/ i > k + 1 /\ i - 1 \in 1 .. n /\ u[i] = used[i - 1]
  BY <1>1, <1>7, <1>9
<1>11. Distinct(u)
  <2> SUFFICES ASSUME NEW i \in 1 .. n + 1, NEW j \in 1 .. n + 1, u[i] = u[j]
               PROVE  i = j
    BY <1>7 DEF Distinct
  <2>1. CASE i = k + 1
    BY <1>4, <1>10, <2>1
  <2>2. CASE i <= k
    BY <1>2, <1>4, <1>10, <2>2
  <2>3. CASE i > k + 1
    BY <1>2, <1>4, <1>10, <2>3
  <2> QED BY <2>1, <2>2, <2>3, <1>9
<1>12. Distinct(v)
  <2> SUFFICES ASSUME NEW i \in 1 .. m - 1, NEW j \in 1 .. m - 1, v[i] = v[j]
               PROVE  i = j
    BY <1>8 DEF Distinct
  <2>1. /\ i + 1 \in 1 .. m /\ v[i] = spare[i + 1]
        /\ j + 1 \in 1 .. m /\ v[j] = spare[j + 1]
    BY <1>1, <1>8
  <2>2. i + 1 = j + 1
    BY <1>2, <2>1
  <2> QED BY <2>2
<1>13. \A i \in 1 .. Len(u), j \in 1 .. Len(v) : u[i] # v[j]
  <2> SUFFICES ASSUME NEW i \in 1 .. n + 1, NEW j \in 1 .. m - 1 PROVE u[i] # v[j]
    BY <1>7, <1>8
  <2>1. j + 1 \in 1 .. m /\ v[j] = spare[j + 1] /\ 1 \in 1 .. m /\ j + 1 # 1
    BY <1>1, <1>8
  <2> QED BY <1>2, <1>3, <1>10, <2>1
<1>14. ASSUME NEW s \in Slots
       PROVE  \/ \E i \in 1 .. Len(u) : s = u[i]
              \/ \E j \in 1 .. Len(v) : s = v[j]
  <2>1. ASSUME NEW i \in 1 .. n, s = used[i]
        PROVE  \E l \in 1 .. Len(u) : s = u[l]
    <3>1. CASE i <= k
      BY <1>1, <1>7, <2>1, <3>1
    <3>2. CASE i > k
      <4>1. i + 1 \in 1 .. n + 1 /\ u[i + 1] = used[i]
        BY <1>1, <1>7, <1>9, <3>2
      <4> QED BY <1>7, <4>1, <2>1
    <3> QED BY <1>9, <3>1, <3>2
  <2>2. ASSUME s = new
        PROVE  \E l \in 1 .. Len(u) : s = u[l]
    <3>1. k + 1 \in 1 .. n + 1 /\ u[k + 1] = new
      BY <1>1, <1>7, <1>9
    <3> QED BY <1>7, <2>2, <3>1
  <2>3. ASSUME NEW j \in 1 .. m, s = spare[j], j # 1
        PROVE  \E l \in 1 .. Len(v) : s = v[l]
    <3>1. j - 1 \in 1 .. m - 1 /\ v[j - 1] = spare[j]
      BY <1>1, <1>8, <2>3
    <3> QED BY <1>8, <2>3, <3>1
  <2> QED BY <1>3, <2>1, <2>2, <2>3 DEF Lists, n, m
<1>15. Linked(d, d.head, u)
  <2>1. d.head = Nth(u, 1)
    BY <1>1, <1>3, <1>6, <1>7, <1>9 DEF Nth
  <2>2. ASSUME NEW i \in 1 .. Len(u)
        PROVE  d.hole[u[i]].next = Nth(u, i + 1)
    <3>0. i \in 1 .. n + 1
      BY <1>7
    <3>1. CASE i < k
      <4>1. /\ i \in 1 .. n /\ i + 1 \in 1 .. n /\ k \in 1 .. n
            /\ u[i] = used[i] /\ u[i + 1] = used[i + 1] /\ i # k
        BY <1>1, <1>7, <1>9, <3>0, <3>1
      <4>2. used[i] # new /\ used[i] # prev
        BY <1>2, <1>4, <1>5, <4>1
      <4>3. d.hole[used[i]].next = t.hole[used[i]].next
        BY <1>1, <1>6, <4>1, <4>2
      <4>4. t.hole[used[i]].next = used[i + 1]
        BY <1>1, <1>3, <1>9, <3>1, <4>1
      <4> QED BY <1>1, <1>7, <4>1, <4>3, <4>4 DEF Nth
    <3>2. CASE i = k
      <4>1. /\ i \in 1 .. n /\ u[i] = used[i] /\ u[i + 1] = new /\ i + 1 \in 1 .. n + 1
            /\ k # 0
        BY <1>1, <1>7, <1>9, <3>0, <3>2
      <4>2. u[i] = prev /\ prev \in Slots /\ prev # new
        BY <1>5, <3>2, <4>1
      <4>3. d.hole[u[i]].next = new
        BY <1>6, <4>1, <4>2
      <4> QED BY <1>7, <4>1, <4>3 DEF Nth
    <3>3. CASE i = k + 1
      <4>1. u[i] = new
        BY <1>10, <3>0, <3>3
      <4>2. d.hole[u[i]].next = IF k = 0 THEN t.head ELSE t.hole[prev].next
        BY <1>3, <1>6, <4>1
      <4>3. IF k < n THEN i + 1 \in 1 .. n + 1 /\ u[i + 1] = used[k + 1] ELSE i = n + 1
        <5> DEFINE j == i + 1
        <5>1. CASE k < n
          <6>1. j \in 1 .. n + 1 /\ j > k + 1 /\ j - 1 = k + 1
            BY <1>1, <1>9, <3>3, <5>1
          <6> HIDE DEF j
          <6>2. u[j] = used[j - 1]
            BY <1>10, <6>1
          <6> QED BY <5>1, <6>1, <6>2 DEF j
        <5> QED BY <1>1, <1>9, <3>3, <5>1
      <4>4. CASE k = 0
        BY <1>1, <1>3, <1>7, <4>2, <4>3, <4>4, <3>3 DEF Nth
      <4>5. CASE k # 0
        <5>1. k \in 1 .. n
          BY <1>1, <1>9, <4>5
        <5>2. t.hole[prev].next = IF k < n THEN used[k + 1] ELSE NULL
          BY <1>3, <1>5, <5>1
        <5> QED BY <1>1, <1>7, <4>2, <4>3, <4>5, <5>2, <3>3, <5>1 DEF Nth
      <4> QED BY <4>4, <4>5
    <3>4. CASE i > k + 1
      <4>1. /\ i - 1 \in 1 .. n /\ u[i] = used[i - 1] /\ i - 1 # k
        <5>1. i \in 1 .. n + 1 /\ ~(i = k + 1) /\ ~(i <= k) /\ i - 1 # k
          BY <1>1, <1>9, <3>0, <3>4
        <5> QED BY <1>10, <5>1
      <4>2. used[i - 1] # new /\ (k # 0 => used[i - 1] # prev)
        <5>1. k # 0 => k \in 1 .. n
          BY <1>9, <1>1
        <5> QED BY <1>2, <1>4, <1>5, <4>1, <5>1
      <4>3. d.hole[used[i - 1]].next = t.hole[used[i - 1]].next
        BY <1>1, <1>6, <4>1, <4>2
      <4>4. t.hole[used[i - 1]].next = IF i - 1 < n THEN used[i] ELSE NULL
        <5>1. t.hole[used[i - 1]].next = IF i - 1 < n THEN used[(i - 1) + 1] ELSE NULL
          BY <1>3, <4>1
        <5> QED BY <3>0, <5>1
      <4>5. i - 1 < n => i + 1 \in 1 .. n + 1 /\ u[i + 1] = used[i]
        BY <1>1, <1>7, <1>9, <3>0, <3>4
      <4> QED BY <1>1, <1>7, <3>0, <4>1, <4>3, <4>4, <4>5 DEF Nth
    <3> QED BY <1>9, <3>0, <3>1, <3>2, <3>3, <3>4
  <2> QED BY <2>1, <2>2 DEF Linked
<1>16. Linked(d, d.free, v)
  <2>1. d.free = Nth(v, 1)
    BY <1>1, <1>3, <1>6, <1>8 DEF Nth
  <2>2. ASSUME NEW i \in 1 .. Len(v)
        PROVE  d.hole[v[i]].next = Nth(v, i + 1)
    <3>1. i + 1 \in 1 .. m /\ v[i] = spare[i + 1] /\ i \in 1 .. m - 1
      BY <1>1, <1>8
    <3>2. v[i] # new /\ (k # 0 => v[i] # prev)
      <4>1. k # 0 => k \in 1 .. n
        BY <1>1, <1>9
      <4>2. 1 \in 1 .. m /\ i + 1 # 1
        BY <1>1, <3>1
      <4> QED BY <1>2, <1>3, <1>5, <3>1, <4>1, <4>2
    <3>3. d.hole[spare[i + 1]].next = t.hole[spare[i + 1]].next
      BY <1>1, <1>6, <3>1, <3>2
    <3>4. t.hole[spare[i + 1]].next = IF i + 1 < m THEN spare[i + 2] ELSE NULL
      <4>1. t.hole[spare[i + 1]].next = IF i + 1 < m THEN spare[(i + 1) + 1] ELSE NULL
        BY <1>3, <3>1
      <4> QED BY <3>1, <4>1
    <3>5. i + 1 < m => i + 1 \in 1 .. m - 1 /\ v[i + 1] = spare[i + 2]
      <4> SUFFICES ASSUME i + 1 < m PROVE i + 1 \in 1 .. m - 1 /\ v[i + 1] = spare[i + 2]
        OBVIOUS
      <4>1. i + 1 \in 1 .. m - 1 /\ (i + 1) + 1 = i + 2
        BY <1>1, <3>1
      <4>2. v[i + 1] = spare[(i + 1) + 1]
        BY <1>8, <4>1
      <4> QED BY <4>1, <4>2
    <3> QED BY <1>1, <1>8, <3>1, <3>3, <3>4, <3>5 DEF Nth
  <2> QED BY <2>1, <2>2 DEF Linked
<1>17. Lists(d, u, v)
  <2>1. Len(u) + Len(v) = NrHoles
    BY <1>1, <1>7, <1>8
  <2> QED BY <1>6, <1>7, <1>8, <1>11, <1>12, <1>13, <1>14, <1>15, <1>16, <2>1 DEF Lists
<1>18. /\ d.hole[new].base = base /\ d.hole[new].len = len
       /\ \A i \in 1 .. n : /\ d.hole[used[i]].base = t.hole[used[i]].base
                            /\ d.hole[used[i]].len = t.hole[used[i]].len
  BY <1>1, <1>3, <1>4, <1>6
<1> QED BY <1>3, <1>17, <1>18 DEF u, v, n, new, d, SlotTaken

(* A change of the sizes of the holes leaves the lists alone. *)
LEMMA SameLinks ==
  ASSUME NEW t, NEW used, NEW spare, Lists(t, used, spare), NEW d \in Tables,
         d.head = t.head, d.free = t.free, \A s \in Slots : d.hole[s].next = t.hole[s].next
  PROVE  Lists(d, used, spare)
<1>1. used \in Seq(Slots) /\ spare \in Seq(Slots)
  BY DEF Lists
<1>2. Linked(t, t.head, used) /\ Linked(t, t.free, spare)
  BY DEF Lists
<1>3. Linked(d, d.head, used)
  BY <1>1, <1>2 DEF Linked
<1>4. Linked(d, d.free, spare)
  BY <1>1, <1>2 DEF Linked
<1> QED BY <1>3, <1>4 DEF Lists

-----------------------------------------------------------------------------
(* The holes as stretches of clicks: n stretches, the i-th from b[i] on l[i] long. *)

(* No stretch is empty; each ends before the next begins, and with a click
   between them except behind the places in K. *)
Apart(n, b, l, K) ==
  /\ \A i \in 1 .. n : b[i] \in Nat /\ l[i] \in Nat /\ l[i] > 0
  /\ \A i, j \in 1 .. n : i < j => b[i] + l[i] <= b[j]
  /\ \A i, j \in 1 .. n : i < j /\ i \notin K => b[i] + l[i] < b[j]

Clicked(n, b, l) == {y \in Nat : \E i \in 1 .. n : b[i] <= y /\ y < b[i] + l[i]}

(* c and m are b and l with the stretches k and k + 1 joined, ... *)
Joined(n, b, l, k, c, m) ==
  /\ b[k] + l[k] = b[k + 1] /\ c[k] = b[k] /\ m[k] = l[k] + l[k + 1]
  /\ \A i \in 1 .. n - 1 : i < k => c[i] = b[i] /\ m[i] = l[i]
  /\ \A i \in 1 .. n - 1 : i > k => c[i] = b[i + 1] /\ m[i] = l[i + 1]

(* ... with one from x on, a long, put in behind the k-th, ... *)
Put(n, b, l, k, x, a, c, m) ==
  /\ c[k + 1] = x /\ m[k + 1] = a
  /\ \A i \in 1 .. n : i <= k => c[i] = b[i] /\ m[i] = l[i]
  /\ \A i \in 1 .. n + 1 : i > k + 1 => c[i] = b[i - 1] /\ m[i] = l[i - 1]

(* ... with a clicks off the front of the k-th, ... *)
Bitten(n, b, l, k, a, c, m) ==
  /\ c[k] = b[k] + a /\ m[k] = l[k] - a
  /\ \A i \in 1 .. n : i # k => c[i] = b[i] /\ m[i] = l[i]

(* ... without the k-th. *)
Removed(n, b, l, k, c, m) ==
  /\ \A i \in 1 .. n - 1 : i < k => c[i] = b[i] /\ m[i] = l[i]
  /\ \A i \in 1 .. n - 1 : i >= k => c[i] = b[i + 1] /\ m[i] = l[i + 1]

(* The first k stretches begin below x, the others do not. *)
Below(n, b, k, x) == \A i \in 1 .. n : IF i <= k THEN b[i] < x ELSE x <= b[i]

(* The stretches c, m are apart and have the clicks S. *)
Stretches(n, c, m, K, S) == Apart(n, c, m, K) /\ Clicked(n, c, m) = S

LEMMA ApartFacts ==
  ASSUME NEW n, NEW b, NEW l, NEW K, Apart(n, b, l, K)
  PROVE  /\ \A i \in 1 .. n : b[i] \in Nat /\ l[i] \in Nat /\ l[i] > 0
         /\ \A i, j \in 1 .. n : i < j => b[i] + l[i] <= b[j]
         /\ \A i, j \in 1 .. n : i < j /\ i \notin K => b[i] + l[i] < b[j]
BY DEF Apart

LEMMA JoinStretches ==
  ASSUME NEW n \in Nat, NEW k \in 1 .. n - 1, NEW b, NEW l, NEW c, NEW m,
         Joined(n, b, l, k, c, m), NEW K, NEW L, Apart(n, b, l, K),
         \A i \in 1 .. n : i < k /\ i \in K => i \in L,
         \A i \in 1 .. n : i > k /\ i \in K => i - 1 \in L
  PROVE  Apart(n - 1, c, m, L) /\ Clicked(n - 1, c, m) = Clicked(n, b, l)
<1>1. \A i \in 1 .. n : b[i] \in Nat /\ l[i] \in Nat /\ l[i] > 0
  BY DEF Apart
<1>2. \A i, j \in 1 .. n : i < j => b[i] + l[i] <= b[j]
  BY DEF Apart
<1>3. \A i, j \in 1 .. n : i < j /\ i \notin K => b[i] + l[i] < b[j]
  BY DEF Apart
<1>4. /\ k \in 1 .. n - 1 /\ k \in 1 .. n /\ k + 1 \in 1 .. n
      /\ c[k] = b[k] /\ m[k] = l[k] + l[k + 1] /\ b[k] + l[k] = b[k + 1]
  BY DEF Joined
<1>5. ASSUME NEW i \in 1 .. n - 1
      PROVE  /\ i \in 1 .. n /\ i + 1 \in 1 .. n /\ c[i] \in Nat /\ m[i] \in Nat /\ m[i] > 0
             /\ c[i] + m[i] = IF i < k THEN b[i] + l[i] ELSE b[i + 1] + l[i + 1]
             /\ c[i] = IF i <= k THEN b[i] ELSE b[i + 1]
  <2>1. i \in 1 .. n /\ i + 1 \in 1 .. n
    OBVIOUS
  <2>2. CASE i = k
    BY <1>1, <1>4, <2>1, <2>2
  <2>3. CASE i < k
    <3>1. c[i] = b[i] /\ m[i] = l[i]
      BY <2>3 DEF Joined
    <3> QED BY <1>1, <2>1, <2>3, <3>1
  <2>4. CASE i > k
    <3>1. c[i] = b[i + 1] /\ m[i] = l[i + 1]
      BY <2>4 DEF Joined
    <3> QED BY <1>1, <2>1, <2>4, <3>1
  <2> QED BY <2>2, <2>3, <2>4
<1>6. ASSUME NEW i \in 1 .. n - 1, NEW j \in 1 .. n - 1, i < j
      PROVE  c[i] + m[i] <= c[j] /\ (i \notin L => c[i] + m[i] < c[j])
  <2>1. CASE j <= k
    <3>1. c[i] + m[i] = b[i] + l[i] /\ c[j] = b[j] /\ i < k /\ i \in 1 .. n /\ j \in 1 .. n
      BY <1>5, <1>6, <2>1
    <3> QED BY <1>2, <1>3, <1>6, <3>1
  <2>2. CASE i < k /\ j > k
    <3>1. /\ c[i] + m[i] = b[i] + l[i] /\ c[j] = b[j + 1]
          /\ i \in 1 .. n /\ j + 1 \in 1 .. n /\ i < j + 1
      BY <1>5, <2>2
    <3>2. b[i] + l[i] <= b[j + 1] /\ (i \notin K => b[i] + l[i] < b[j + 1])
      BY <1>2, <1>3, <3>1
    <3> QED BY <2>2, <3>1, <3>2
  <2>3. CASE i >= k
    <3>1. /\ c[i] + m[i] = b[i + 1] + l[i + 1] /\ c[j] = b[j + 1]
          /\ i + 1 \in 1 .. n /\ j + 1 \in 1 .. n /\ i + 1 < j + 1 /\ i + 1 > k
      BY <1>5, <1>6, <2>3
    <3>2. b[i + 1] + l[i + 1] <= b[j + 1] /\ (i + 1 \notin K => b[i + 1] + l[i + 1] < b[j + 1])
      BY <1>2, <1>3, <3>1
    <3>3. i + 1 \in K => i \in L
      BY <3>1
    <3> QED BY <3>1, <3>2, <3>3
  <2> QED BY <1>6, <2>1, <2>2, <2>3
<1>7. Apart(n - 1, c, m, L)
  BY <1>5, <1>6 DEF Apart
<1>8. ASSUME NEW y \in Nat, NEW i \in 1 .. n - 1, c[i] <= y, y < c[i] + m[i]
      PROVE  \E j \in 1 .. n : b[j] <= y /\ y < b[j] + l[j]
  <2>1. CASE i < k
    BY <1>5, <1>8, <2>1
  <2>2. CASE i = k
    <3>1. \/ b[k] <= y /\ y < b[k] + l[k]
          \/ b[k + 1] <= y /\ y < b[k + 1] + l[k + 1]
      BY <1>1, <1>4, <1>5, <1>8, <2>2
    <3> QED BY <1>4, <3>1
  <2>3. CASE i > k
    BY <1>5, <1>8, <2>3
  <2> QED BY <2>1, <2>2, <2>3
<1>9. ASSUME NEW y \in Nat, NEW j \in 1 .. n, b[j] <= y, y < b[j] + l[j]
      PROVE  \E i \in 1 .. n - 1 : c[i] <= y /\ y < c[i] + m[i]
  <2>1. CASE j < k
    <3>1. j \in 1 .. n - 1 /\ c[j] = b[j] /\ c[j] + m[j] = b[j] + l[j]
      BY <1>5, <2>1
    <3> QED BY <1>9, <3>1
  <2>2. CASE j = k \/ j = k + 1
    <3>1. c[k] <= y /\ y < c[k] + m[k]
      <4>1. CASE j = k
        BY <1>1, <1>4, <1>9, <4>1
      <4>2. CASE j = k + 1
        BY <1>1, <1>4, <1>9, <4>2
      <4> QED BY <2>2, <4>1, <4>2
    <3> QED BY <1>4, <3>1
  <2>3. CASE j > k + 1
    <3> DEFINE i == j - 1
    <3>1. i \in 1 .. n - 1 /\ i > k /\ i + 1 = j
      BY <2>3
    <3>2. c[i] = b[i + 1] /\ c[i] + m[i] = b[i + 1] + l[i + 1]
      BY <1>5, <3>1
    <3> QED BY <1>9, <3>1, <3>2
  <2> QED BY <2>1, <2>2, <2>3
<1>10. Clicked(n - 1, c, m) = Clicked(n, b, l)
  BY <1>8, <1>9 DEF Clicked
<1> QED BY <1>7, <1>10

(* A stretch that meets none of the others goes in behind those below it. *)
LEMMA PutStretch ==
  ASSUME NEW n \in Nat, NEW k \in 0 .. n, NEW b, NEW l, NEW c, NEW m,
         NEW x \in Nat, NEW a \in Nat, a > 0,
         Put(n, b, l, k, x, a, c, m), Apart(n, b, l, {}),
         Below(n, b, k, x),
         (x .. x + a - 1) \cap Clicked(n, b, l) = {}
  PROVE  Stretches(n + 1, c, m, {k, k + 1}, Clicked(n, b, l) \cup (x .. x + a - 1))
<1>1. \A i \in 1 .. n : b[i] \in Nat /\ l[i] \in Nat /\ l[i] > 0
  BY DEF Apart
<1>2. \A i, j \in 1 .. n : i < j => b[i] + l[i] < b[j]
  BY DEF Apart
<1>3. \A i \in 1 .. n : i <= k => b[i] + l[i] <= x
  <2> SUFFICES ASSUME NEW i \in 1 .. n, i <= k, b[i] + l[i] > x PROVE FALSE
    BY <1>1
  <2>1. b[i] <= x /\ x < b[i] + l[i]
    BY <1>1 DEF Below
  <2>2. x \in Clicked(n, b, l) /\ x \in x .. x + a - 1
    BY <2>1 DEF Clicked
  <2> QED BY <2>2
<1>4. \A i \in 1 .. n : i > k => x + a <= b[i]
  <2> SUFFICES ASSUME NEW i \in 1 .. n, i > k, b[i] < x + a PROVE FALSE
    BY <1>1
  <2>1. b[i] \in Nat /\ b[i] <= b[i] /\ b[i] < b[i] + l[i] /\ b[i] \in x .. x + a - 1
    BY <1>1 DEF Below
  <2>2. b[i] \in Clicked(n, b, l)
    BY <2>1 DEF Clicked
  <2> QED BY <2>1, <2>2
<1>5. k + 1 \in 1 .. n + 1 /\ c[k + 1] = x /\ m[k + 1] = a
  BY DEF Put
<1>6. ASSUME NEW i \in 1 .. n, i <= k
      PROVE  i \in 1 .. n + 1 /\ c[i] = b[i] /\ m[i] = l[i]
  BY <1>6 DEF Put
<1>7. ASSUME NEW i \in 1 .. n + 1, i > k + 1
      PROVE  i - 1 \in 1 .. n /\ c[i] = b[i - 1] /\ m[i] = l[i - 1]
  BY <1>7 DEF Put
<1>8. ASSUME NEW i \in 1 .. n + 1
      PROVE  c[i] \in Nat /\ m[i] \in Nat /\ m[i] > 0
  <2>1. CASE i <= k
    BY <1>1, <1>6, <2>1
  <2>2. CASE i = k + 1
    BY <1>5, <2>2
  <2>3. CASE i > k + 1
    <3>1. i - 1 \in 1 .. n /\ c[i] = b[i - 1] /\ m[i] = l[i - 1]
      BY <1>7, <2>3
    <3> QED BY <1>1, <3>1
  <2> QED BY <2>1, <2>2, <2>3
<1>9. ASSUME NEW i \in 1 .. n + 1, NEW j \in 1 .. n + 1, i < j
      PROVE  c[i] + m[i] <= c[j] /\ (i \notin {k, k + 1} => c[i] + m[i] < c[j])
  <2>1. CASE j <= k
    <3>1. i \in 1 .. n /\ j \in 1 .. n /\ i <= k
      BY <1>9, <2>1
    <3>2. c[i] = b[i] /\ m[i] = l[i] /\ c[j] = b[j]
      BY <1>6, <2>1, <3>1
    <3>3. b[i] + l[i] < b[j] /\ b[i] \in Nat /\ l[i] \in Nat /\ b[j] \in Nat
      BY <1>1, <1>2, <1>9, <3>1
    <3> QED BY <3>2, <3>3
  <2>2. CASE j = k + 1
    <3>1. i \in 1 .. n /\ i <= k
      BY <1>9, <2>2
    <3>2. c[i] = b[i] /\ m[i] = l[i] /\ c[j] = x
      BY <1>5, <1>6, <2>2, <3>1
    <3>3. i < k => k \in 1 .. n /\ b[i] + l[i] < b[k] /\ b[k] < x
      BY <1>2, <3>1 DEF Below
    <3>4. b[i] + l[i] <= x /\ b[i] \in Nat /\ l[i] \in Nat /\ \A j1 \in 1 .. n : b[j1] \in Nat
      BY <1>1, <1>3, <3>1
    <3>5. i # k => b[i] + l[i] < x
      BY <3>1, <3>3, <3>4
    <3> QED BY <3>2, <3>4, <3>5
  <2>3. CASE j > k + 1 /\ i <= k
    <3> DEFINE h == j - 1
    <3>1. i \in 1 .. n /\ i <= k /\ h \in 1 .. n /\ i < h
      BY <1>9, <2>3
    <3>2. c[i] = b[i] /\ m[i] = l[i] /\ c[j] = b[h]
      BY <1>6, <1>7, <2>3, <3>1
    <3> HIDE DEF h
    <3>3. b[i] + l[i] < b[h] /\ b[i] \in Nat /\ l[i] \in Nat /\ b[h] \in Nat
      BY <1>1, <1>2, <3>1
    <3> QED BY <3>2, <3>3
  <2>4. CASE j > k + 1 /\ i = k + 1
    <3> DEFINE h == j - 1
    <3>1. h \in 1 .. n /\ h > k
      BY <1>9, <2>4
    <3>2. c[i] = x /\ m[i] = a /\ c[j] = b[h]
      BY <1>5, <1>7, <2>4
    <3> HIDE DEF h
    <3>3. x + a <= b[h]
      BY <1>4, <3>1
    <3> QED BY <2>4, <3>2, <3>3
  <2>5. CASE i > k + 1
    <3> DEFINE g == i - 1
               h == j - 1
    <3>1. g \in 1 .. n /\ h \in 1 .. n /\ g < h
      BY <1>9, <2>5
    <3>2. c[i] = b[g] /\ m[i] = l[g] /\ c[j] = b[h]
      BY <1>7, <1>9, <2>5
    <3> HIDE DEF g, h
    <3>3. b[g] + l[g] < b[h] /\ b[g] \in Nat /\ l[g] \in Nat /\ b[h] \in Nat
      BY <1>1, <1>2, <3>1
    <3> QED BY <3>2, <3>3
  <2> QED BY <1>9, <2>1, <2>2, <2>3, <2>4, <2>5
<1>10. Apart(n + 1, c, m, {k, k + 1})
  BY <1>8, <1>9 DEF Apart
<1>11. ASSUME NEW y \in Nat, NEW i \in 1 .. n + 1, c[i] <= y, y < c[i] + m[i]
       PROVE  \/ \E j \in 1 .. n : b[j] <= y /\ y < b[j] + l[j]
              \/ y \in x .. x + a - 1
  <2>1. CASE i <= k
    BY <1>6, <1>11, <2>1
  <2>2. CASE i = k + 1
    BY <1>5, <1>11, <2>2
  <2>3. CASE i > k + 1
    BY <1>7, <1>11, <2>3
  <2> QED BY <2>1, <2>2, <2>3
<1>12. ASSUME NEW y \in Nat, NEW j \in 1 .. n, b[j] <= y, y < b[j] + l[j]
       PROVE  \E i \in 1 .. n + 1 : c[i] <= y /\ y < c[i] + m[i]
  <2>1. CASE j <= k
    BY <1>6, <1>12, <2>1
  <2>2. CASE j > k
    <3> DEFINE i == j + 1
    <3>1. i \in 1 .. n + 1 /\ i > k + 1 /\ i - 1 = j
      BY <2>2
    <3>2. c[i] = b[j] /\ m[i] = l[j]
      BY <1>7, <3>1
    <3> QED BY <1>12, <3>1, <3>2
  <2> QED BY <2>1, <2>2
<1>13. ASSUME NEW y \in x .. x + a - 1
       PROVE  y \in Nat /\ \E i \in 1 .. n + 1 : c[i] <= y /\ y < c[i] + m[i]
  <2>1. c[k + 1] <= y /\ y < c[k + 1] + m[k + 1]
    BY <1>5
  <2> QED BY <1>5, <2>1
<1>14. Clicked(n + 1, c, m) = Clicked(n, b, l) \cup (x .. x + a - 1)
  BY <1>11, <1>12, <1>13 DEF Clicked
<1> QED BY <1>10, <1>14 DEF Stretches

(* Clicks come off the front of a stretch that is longer. *)
LEMMA BiteStretch ==
  ASSUME NEW n \in Nat, NEW k \in 1 .. n, NEW b, NEW l, NEW c, NEW m,
         NEW a \in Nat, a > 0, a < l[k],
         Bitten(n, b, l, k, a, c, m), Apart(n, b, l, {})
  PROVE  Stretches(n, c, m, {}, Clicked(n, b, l) \ (b[k] .. b[k] + a - 1))
<1>1. \A i \in 1 .. n : b[i] \in Nat /\ l[i] \in Nat /\ l[i] > 0
  BY DEF Apart
<1>2. \A i, j \in 1 .. n : i < j => b[i] + l[i] < b[j]
  BY DEF Apart
<1>3. ASSUME NEW i \in 1 .. n
      PROVE  /\ c[i] \in Nat /\ m[i] \in Nat /\ m[i] > 0
             /\ c[i] + m[i] = b[i] + l[i]
             /\ c[i] = IF i = k THEN b[k] + a ELSE b[i]
             /\ b[i] <= c[i]
  <2>1. CASE i = k
    <3>1. c[k] = b[k] + a /\ m[k] = l[k] - a
      BY DEF Bitten
    <3> QED BY <1>1, <2>1, <3>1
  <2>2. CASE i # k
    <3>1. c[i] = b[i] /\ m[i] = l[i]
      BY <2>2 DEF Bitten
    <3> QED BY <1>1, <2>2, <3>1
  <2> QED BY <2>1, <2>2
<1>4. ASSUME NEW i \in 1 .. n, NEW j \in 1 .. n, i < j
      PROVE  c[i] + m[i] < c[j]
  <2>1. b[i] + l[i] < b[j]
    BY <1>2, <1>4
  <2> QED BY <1>1, <1>3, <2>1
<1>5. Apart(n, c, m, {})
  <2>1. \A i, j \in 1 .. n : i < j => c[i] + m[i] <= c[j]
    BY <1>3, <1>4
  <2> QED BY <1>3, <1>4, <2>1 DEF Apart
<1>6. ASSUME NEW y \in Nat, NEW i \in 1 .. n, c[i] <= y, y < c[i] + m[i]
      PROVE  b[i] <= y /\ y < b[i] + l[i] /\ y \notin b[k] .. b[k] + a - 1
  <2>1. CASE i = k
    BY <1>1, <1>3, <1>6, <2>1
  <2>2. CASE i < k
    <3>1. b[i] + l[i] < b[k]
      BY <1>2, <2>2
    <3> QED BY <1>1, <1>3, <1>6, <2>2, <3>1
  <2>3. CASE i > k
    <3>1. b[k] + l[k] < b[i]
      BY <1>2, <2>3
    <3> QED BY <1>1, <1>3, <1>6, <2>3, <3>1
  <2> QED BY <2>1, <2>2, <2>3
<1>7. ASSUME NEW y \in Nat, NEW i \in 1 .. n, b[i] <= y, y < b[i] + l[i],
             y \notin b[k] .. b[k] + a - 1
      PROVE  c[i] <= y /\ y < c[i] + m[i]
  <2>1. CASE i = k
    BY <1>1, <1>3, <1>7, <2>1
  <2>2. CASE i # k
    BY <1>1, <1>3, <1>7, <2>2
  <2> QED BY <2>1, <2>2
<1>8. Clicked(n, c, m) = Clicked(n, b, l) \ (b[k] .. b[k] + a - 1)
  BY <1>6, <1>7 DEF Clicked
<1> QED BY <1>5, <1>8 DEF Stretches

(* A whole stretch goes. *)
LEMMA RemoveStretch ==
  ASSUME NEW n \in Nat, NEW k \in 1 .. n, NEW b, NEW l, NEW c, NEW m,
         Removed(n, b, l, k, c, m), Apart(n, b, l, {})
  PROVE  Stretches(n - 1, c, m, {}, Clicked(n, b, l) \ (b[k] .. b[k] + l[k] - 1))
<1>1. \A i \in 1 .. n : b[i] \in Nat /\ l[i] \in Nat /\ l[i] > 0
  BY DEF Apart
<1>2. \A i, j \in 1 .. n : i < j => b[i] + l[i] < b[j]
  BY DEF Apart
<1>3. ASSUME NEW i \in 1 .. n - 1
      PROVE  \/ i < k /\ i \in 1 .. n /\ c[i] = b[i] /\ m[i] = l[i]
             \/ i >= k /\ i + 1 \in 1 .. n /\ c[i] = b[i + 1] /\ m[i] = l[i + 1]
  BY DEF Removed
<1>4. ASSUME NEW i \in 1 .. n - 1
      PROVE  c[i] \in Nat /\ m[i] \in Nat /\ m[i] > 0
  BY <1>1, <1>3
<1>5. ASSUME NEW i \in 1 .. n - 1, NEW j \in 1 .. n - 1, i < j
      PROVE  c[i] + m[i] < c[j]
  <2>1. CASE j < k
    BY <1>2, <1>3, <1>5, <2>1
  <2>2. CASE i < k /\ j >= k
    <3>1. c[i] = b[i] /\ m[i] = l[i] /\ c[j] = b[j + 1] /\ i \in 1 .. n /\ j + 1 \in 1 .. n
          /\ i < j + 1
      BY <1>3, <1>5, <2>2
    <3> QED BY <1>2, <3>1
  <2>3. CASE i >= k
    <3>1. /\ c[i] = b[i + 1] /\ m[i] = l[i + 1] /\ c[j] = b[j + 1]
          /\ i + 1 \in 1 .. n /\ j + 1 \in 1 .. n /\ i + 1 < j + 1
      BY <1>3, <1>5, <2>3
    <3> QED BY <1>2, <3>1
  <2> QED BY <1>5, <2>1, <2>2, <2>3
<1>6. Apart(n - 1, c, m, {})
  <2>1. \A i, j \in 1 .. n - 1 : i < j => c[i] + m[i] <= c[j]
    BY <1>4, <1>5
  <2> QED BY <1>4, <1>5, <2>1 DEF Apart
<1>7. ASSUME NEW y \in Nat, NEW i \in 1 .. n - 1, c[i] <= y, y < c[i] + m[i]
      PROVE  /\ \E j \in 1 .. n : b[j] <= y /\ y < b[j] + l[j]
             /\ y \notin b[k] .. b[k] + l[k] - 1
  <2>1. PICK j \in 1 .. n : j # k /\ b[j] <= y /\ y < b[j] + l[j]
    BY <1>3, <1>7
  <2>2. CASE j < k
    <3>1. b[j] + l[j] < b[k]
      BY <1>2, <2>2
    <3> QED BY <1>1, <2>1, <3>1
  <2>3. CASE j > k
    <3>1. b[k] + l[k] < b[j]
      BY <1>2, <2>3
    <3> QED BY <1>1, <2>1, <3>1
  <2> QED BY <2>1, <2>2, <2>3
<1>8. ASSUME NEW y \in Nat, NEW j \in 1 .. n, b[j] <= y, y < b[j] + l[j],
             y \notin b[k] .. b[k] + l[k] - 1
      PROVE  \E i \in 1 .. n - 1 : c[i] <= y /\ y < c[i] + m[i]
  <2>1. j # k
    BY <1>1, <1>8
  <2>2. CASE j < k
    BY <1>3, <1>8, <2>2
  <2>3. CASE j > k
    <3> DEFINE i == j - 1
    <3>1. i \in 1 .. n - 1 /\ i >= k /\ i + 1 = j
      BY <2>3
    <3>2. c[i] = b[j] /\ m[i] = l[j]
      BY <1>3, <3>1
    <3> QED BY <1>8, <3>1, <3>2
  <2> QED BY <2>1, <2>2, <2>3
<1>9. Clicked(n - 1, c, m) = Clicked(n, b, l) \ (b[k] .. b[k] + l[k] - 1)
  BY <1>7, <1>8 DEF Clicked
<1> QED BY <1>6, <1>9 DEF Stretches

-----------------------------------------------------------------------------
(* The holes of a table, as stretches. *)

Bases(t, w) == [i \in 1 .. Len(w) |-> t.hole[w[i]].base]
Lens(t, w)  == [i \in 1 .. Len(w) |-> t.hole[w[i]].len]
Ordered(t, w, K) == Apart(Len(w), Bases(t, w), Lens(t, w), K)
Cover(t, w) == Clicked(Len(w), Bases(t, w), Lens(t, w))

LEMMA ListsFacts ==
  ASSUME NEW t, NEW used, NEW spare, Lists(t, used, spare)
  PROVE  /\ t \in Tables /\ used \in Seq(Slots) /\ Len(used) \in Nat
         /\ spare \in Seq(Slots) /\ Len(spare) \in Nat /\ Len(used) + Len(spare) = NrHoles
         /\ \A i \in 1 .. Len(used) : /\ used[i] \in Slots
                                      /\ t.hole[used[i]].base \in Nat
                                      /\ t.hole[used[i]].len \in Nat
         /\ \A i, j \in 1 .. Len(used) : used[i] = used[j] => i = j
         /\ \A i \in 1 .. Len(used) : t.hole[used[i]].next = Nth(used, i + 1)
         /\ t.head = Nth(used, 1) /\ t.free = Nth(spare, 1)
BY DEF Lists, Tables, Distinct, Linked

(* merge's step: a hole takes over its successor, which it touches. *)
Merged(t, used, spare, k, L, d) ==
  LET u == Without(used, k + 1)
  IN  /\ Len(u) = Len(used) - 1 /\ u[k] = used[k]
      /\ Lists(d, u, InsertAfter(spare, 0, used[k + 1]))
      /\ Ordered(d, u, L)
      /\ Cover(d, u) = Cover(t, used)

LEMMA AbsorbLists ==
  ASSUME NEW t, NEW used, NEW spare, Lists(t, used, spare),
         NEW k \in 1 .. Len(used) - 1,
         NEW K, NEW L, Ordered(t, used, K), Absorbs(t, used[k]),
         \A i \in 1 .. Len(used) : i < k /\ i \in K => i \in L,
         \A i \in 1 .. Len(used) : i > k /\ i \in K => i - 1 \in L
  PROVE  Merged(t, used, spare, k, L, Absorb(t, used[k]))
<1> DEFINE n    == Len(used)
           hp   == used[k]
           next == used[k + 1]
           grown == [t EXCEPT !.hole[hp].len = @ + t.hole[next].len]
           u     == Without(used, k + 1)
           d     == Absorb(t, used[k])
<1>1. /\ t \in Tables /\ used \in Seq(Slots) /\ n \in Nat
      /\ \A i \in 1 .. n : /\ used[i] \in Slots
                           /\ t.hole[used[i]].base \in Nat /\ t.hole[used[i]].len \in Nat
      /\ \A i, j \in 1 .. n : used[i] = used[j] => i = j
      /\ \A i \in 1 .. n : t.hole[used[i]].next = Nth(used, i + 1)
  <2> HIDE DEF grown, u, d
  <2> QED BY ListsFacts
<1>0. k \in 1 .. n /\ k + 1 \in 1 .. n
  BY <1>1
<1>2. hp \in Slots /\ next \in Slots /\ hp # next /\ t.hole[hp].next = next
  BY <1>0, <1>1 DEF Nth
<1>3. t.hole[hp].base + t.hole[hp].len = t.hole[next].base /\ d = DelSlot(grown, hp, next)
  BY <1>2 DEF Absorbs, Absorb
<1>4. /\ grown \in Tables /\ grown.head = t.head /\ grown.free = t.free
      /\ \A s \in Slots :
           /\ grown.hole[s].next = t.hole[s].next
           /\ grown.hole[s].base = t.hole[s].base
           /\ grown.hole[s].len = IF s = hp THEN t.hole[hp].len + t.hole[next].len
                                  ELSE t.hole[s].len
  <2> DEFINE sum == t.hole[hp].len + t.hole[next].len
  <2>1. sum \in Nat
    <3> DEFINE p == t.hole[hp].len
               q == t.hole[next].len
    <3>1. p \in Nat /\ q \in Nat
      BY <1>0, <1>1
    <3> HIDE DEF p, q
    <3>2. p + q \in Nat
      BY <3>1
    <3> QED BY <3>2 DEF p, q
  <2>2. grown = [t EXCEPT !.hole = [t.hole EXCEPT ![hp] = [t.hole[hp] EXCEPT !.len = sum]]]
    BY <1>2 DEF Tables
  <2> HIDE DEF sum, grown
  <2> DEFINE h == [t.hole EXCEPT ![hp] = [t.hole[hp] EXCEPT !.len = sum]]
  <2>3. /\ h \in [Slots -> [next : Slots \cup {NULL}, base : Nat, len : Nat]]
        /\ \A s \in Slots : /\ h[s].next = t.hole[s].next
                             /\ h[s].base = t.hole[s].base
                             /\ h[s].len = IF s = hp THEN sum ELSE t.hole[s].len
    BY <1>1, <1>2, <2>1 DEF Tables
  <2> HIDE DEF h
  <2>4. grown \in Tables /\ grown.head = t.head /\ grown.free = t.free /\ grown.hole = h
    BY <1>1, <2>2, <2>3 DEF Tables, h
  <2> QED BY <2>3, <2>4 DEF sum
<1> HIDE DEF grown, u, d
<1>5. Lists(grown, used, spare)
  BY <1>4, SameLinks
<1>6. /\ Lists(d, u, InsertAfter(spare, 0, next))
      /\ \A i \in 1 .. n \ {k + 1} : /\ d.hole[used[i]].base = grown.hole[used[i]].base
                                     /\ d.hole[used[i]].len = grown.hole[used[i]].len
  <2> DEFINE j == k + 1
  <2>1. j \in 1 .. Len(used) /\ (j > 1 => hp = used[j - 1])
    BY <1>0, <1>1
  <2>2. d = DelSlot(grown, hp, used[j])
    BY <1>3
  <2> HIDE DEF j, hp
  <2>3. SlotGone(grown, used, spare, j, d)
    BY <1>5, <2>1, <2>2, DelSlotLists
  <2> QED BY <2>3 DEF j, u, SlotGone
<1>7. Len(u) = n - 1 /\ \A i \in 1 .. n - 1 : u[i] = IF i < k + 1 THEN used[i] ELSE used[i + 1]
  BY <1>0, <1>1, WithoutType DEF Without, u
<1> DEFINE b == Bases(t, used)
           l == Lens(t, used)
           c == Bases(d, u)
           m == Lens(d, u)
<1>8. Joined(n, b, l, k, c, m)
  <2>1. /\ \A i \in 1 .. n : b[i] = t.hole[used[i]].base /\ l[i] = t.hole[used[i]].len
        /\ \A i \in 1 .. n - 1 : c[i] = d.hole[u[i]].base /\ m[i] = d.hole[u[i]].len
    BY <1>7 DEF Bases, Lens
  <2> HIDE DEF b, l, c, m
  <2>2. ASSUME NEW i \in 1 .. n - 1, i < k
        PROVE  c[i] = b[i] /\ m[i] = l[i]
    <3>1. i \in 1 .. n /\ i # k + 1 /\ u[i] = used[i] /\ used[i] # hp
      BY <1>0, <1>1, <1>7, <2>2
    <3>2. used[i] \in Slots
      BY <1>0, <1>1, <3>1
    <3>3. d.hole[used[i]].base = t.hole[used[i]].base /\ d.hole[used[i]].len = t.hole[used[i]].len
      BY <1>4, <1>6, <3>1, <3>2
    <3> QED BY <2>1, <3>1, <3>3
  <2>3. ASSUME NEW i \in 1 .. n - 1, i > k
        PROVE  c[i] = b[i + 1] /\ m[i] = l[i + 1]
    <3>1. i + 1 \in 1 .. n /\ i + 1 # k + 1 /\ i + 1 # k /\ u[i] = used[i + 1]
      BY <1>0, <1>1, <1>7, <2>3
    <3>2. used[i + 1] # hp /\ used[i + 1] \in Slots
      BY <1>0, <1>1, <3>1
    <3>3. /\ d.hole[used[i + 1]].base = t.hole[used[i + 1]].base
          /\ d.hole[used[i + 1]].len = t.hole[used[i + 1]].len
      BY <1>4, <1>6, <3>1, <3>2
    <3> QED BY <2>1, <3>1, <3>3
  <2>4. c[k] = b[k] /\ m[k] = l[k] + l[k + 1]
    <3>1. k \in 1 .. n - 1 /\ k # k + 1 /\ u[k] = hp
      BY <1>0, <1>1, <1>7
    <3>2. d.hole[hp].base = t.hole[hp].base /\ d.hole[hp].len = t.hole[hp].len + t.hole[next].len
      BY <1>0, <1>1, <1>2, <1>4, <1>6, <3>1
    <3> QED BY <1>0, <1>1, <2>1, <3>1, <3>2
  <2>5. b[k] + l[k] = b[k + 1]
    BY <1>0, <1>1, <1>3, <2>1
  <2> QED BY <2>2, <2>3, <2>4, <2>5 DEF Joined
<1>9. Apart(n, b, l, K)
  BY DEF Ordered
<1>10. Apart(n - 1, c, m, L) /\ Clicked(n - 1, c, m) = Clicked(n, b, l)
  <2> HIDE DEF b, l, c, m, n
  <2>1. n \in Nat /\ k \in 1 .. n - 1
    BY <1>1 DEF n
  <2>2. /\ \A i \in 1 .. n : i < k /\ i \in K => i \in L
        /\ \A i \in 1 .. n : i > k /\ i \in K => i - 1 \in L
    BY DEF n
  <2> QED BY <1>8, <1>9, <2>1, <2>2, JoinStretches
<1>11. Len(u) = n - 1 /\ u[k] = used[k]
  BY <1>0, <1>1, <1>7
<1>12. Ordered(d, u, L) /\ Cover(d, u) = Cover(t, used)
  BY <1>10, <1>11 DEF Ordered, Cover
<1> QED BY <1>6, <1>11, <1>12 DEF Merged, u, d

(* Stretches that do not touch are a click apart. *)
LEMMA NotTouching ==
  ASSUME NEW n \in Nat, NEW b, NEW l, NEW K, NEW L, Apart(n, b, l, K),
         \A i \in 1 .. n : i \in K /\ i \notin L /\ i < n => b[i] + l[i] # b[i + 1]
  PROVE  Apart(n, b, l, L)
<1>1. /\ \A i \in 1 .. n : b[i] \in Nat /\ l[i] \in Nat /\ l[i] > 0
      /\ \A i, j \in 1 .. n : i < j => b[i] + l[i] <= b[j]
      /\ \A i, j \in 1 .. n : i < j /\ i \notin K => b[i] + l[i] < b[j]
  BY ApartFacts
<1>2. ASSUME NEW i \in 1 .. n, NEW j \in 1 .. n, i < j, i \notin L
      PROVE  b[i] + l[i] < b[j]
  <2>1. CASE i \notin K
    BY <1>1, <1>2, <2>1
  <2>2. CASE i \in K
    <3> DEFINE h == i + 1
    <3>1. h \in 1 .. n /\ h <= j /\ i < h
      BY <1>2
    <3>2. b[i] + l[i] <= b[h] /\ b[i] + l[i] # b[h]
      BY <1>1, <1>2, <2>2, <3>1
    <3> HIDE DEF h
    <3>3. h < j => b[h] + l[h] <= b[j]
      BY <1>1, <3>1
    <3>4. b[i] \in Nat /\ l[i] \in Nat /\ b[h] \in Nat /\ l[h] \in Nat /\ b[j] \in Nat
      BY <1>1, <3>1
    <3>5. h \in Nat /\ j \in Nat
      BY <3>1
    <3> QED BY <3>1, <3>2, <3>3, <3>4, <3>5
  <2> QED BY <2>1, <2>2
<1> QED BY <1>1, <1>2 DEF Apart

LEMMA NotAbsorbed ==
  ASSUME NEW t, NEW used, NEW spare, Lists(t, used, spare), NEW k \in 1 .. Len(used),
         NEW K, NEW L, Ordered(t, used, K), ~Absorbs(t, used[k]),
         \A i \in 1 .. Len(used) : i \in K /\ i # k /\ i < Len(used) => i \in L
  PROVE  Ordered(t, used, L)
<1> DEFINE n == Len(used)
           b == Bases(t, used)
           l == Lens(t, used)
<1>1. n \in Nat /\ \A i \in 1 .. n : t.hole[used[i]].next = Nth(used, i + 1) /\ used[i] \in Slots
  BY ListsFacts
<1>2. \A i \in 1 .. n : b[i] = t.hole[used[i]].base /\ l[i] = t.hole[used[i]].len
  BY DEF Bases, Lens
<1>3. k < n => b[k] + l[k] # b[k + 1]
  <2> SUFFICES ASSUME k < n PROVE b[k] + l[k] # b[k + 1]
    OBVIOUS
  <2>1. k + 1 \in 1 .. n
    BY <1>1
  <2>2. t.hole[used[k]].next = used[k + 1] /\ used[k + 1] \in Slots
    BY <1>1, <2>1 DEF Nth
  <2>3. used[k + 1] # NULL
    BY <2>2, HoleAssumption DEF Slots
  <2> QED BY <1>2, <2>1, <2>2, <2>3 DEF Absorbs
<1> HIDE DEF b, l
<1>4. Apart(n, b, l, K)
  BY DEF Ordered, b, l
<1>5. Apart(n, b, l, L)
  BY <1>1, <1>3, <1>4, NotTouching
<1> QED BY <1>5 DEF Ordered, b, l

(* Table d is sane: its holes, at most most of them, are in order, apart and
   coalesced, and have the given clicks. *)
Sane(d, clicks, most) ==
  \E u, v : /\ Lists(d, u, v)
            /\ Ordered(d, u, {})
            /\ Cover(d, u) = clicks
            /\ Len(u) <= most

LEMMA AbsorbsInside ==
  ASSUME NEW t, NEW used, NEW spare, Lists(t, used, spare), NEW k \in 1 .. Len(used),
         Absorbs(t, used[k])
  PROVE  k \in 1 .. Len(used) - 1
<1>1. Len(used) \in Nat /\ t.hole[used[k]].next = Nth(used, k + 1)
  BY ListsFacts
<1>2. Nth(used, k + 1) # NULL
  BY <1>1 DEF Absorbs
<1> QED BY <1>1, <1>2 DEF Nth

(* The second step of merge. *)
LEMMA MergeStep ==
  ASSUME NEW t, NEW used, NEW spare, Lists(t, used, spare), NEW k \in 1 .. Len(used),
         NEW hp, hp = used[k], Ordered(t, used, {k})
  PROVE  Sane(IF Absorbs(t, hp) THEN Absorb(t, hp) ELSE t, Cover(t, used), Len(used))
<1>1. Len(used) \in Nat
  BY ListsFacts
<1>2. CASE Absorbs(t, hp)
  <2> DEFINE u == Without(used, k + 1)
             d == Absorb(t, used[k])
  <2>1. k \in 1 .. Len(used) - 1
    BY <1>2, AbsorbsInside
  <2>2. /\ \A i \in 1 .. Len(used) : i < k /\ i \in {k} => i \in {}
        /\ \A i \in 1 .. Len(used) : i > k /\ i \in {k} => i - 1 \in {}
    OBVIOUS
  <2> HIDE DEF u, d
  <2>3. u = Without(used, k + 1) /\ d = Absorb(t, used[k]) /\ Absorbs(t, used[k])
    BY <1>2 DEF u, d
  <2>4. /\ Len(u) = Len(used) - 1
        /\ Lists(d, u, InsertAfter(spare, 0, used[k + 1]))
        /\ Ordered(d, u, {})
        /\ Cover(d, u) = Cover(t, used)
    <3>1. Merged(t, used, spare, k, {}, Absorb(t, used[k]))
      BY <2>1, <2>2, <2>3, AbsorbLists
    <3> QED BY <2>3, <3>1 DEF Merged
  <2> QED BY <1>1, <1>2, <2>3, <2>4 DEF Sane
<1>3. CASE ~Absorbs(t, hp)
  <2>1. Ordered(t, used, {})
    BY <1>3, NotAbsorbed
  <2> QED BY <1>1, <1>3, <2>1 DEF Sane
<1> QED BY <1>2, <1>3

(* merge leaves the holes coalesced, when only the hole it is given and its
   successor can touch the next. *)
LEMMA MergeLists ==
  ASSUME NEW t, NEW used, NEW spare, Lists(t, used, spare), NEW k \in 1 .. Len(used),
         NEW hp, hp = used[k], Ordered(t, used, {k, k + 1})
  PROVE  Sane(Merge(t, hp), Cover(t, used), Len(used))
<1> DEFINE n    == Len(used)
           next == t.hole[hp].next
<1>1. n \in Nat /\ next = Nth(used, k + 1)
  BY ListsFacts
<1>2. CASE next = NULL
  <2>1. ~Absorbs(t, used[k])
    BY <1>2 DEF Absorbs
  <2>2. k = n
    <3>1. k < n => k + 1 \in 1 .. n /\ used[k + 1] \in Slots
      BY <1>1, ListsFacts
    <3> QED BY <1>1, <1>2, <3>1, HoleAssumption DEF Nth, Slots
  <2>3. \A i \in 1 .. n : i \in {k, k + 1} /\ i # k /\ i < n => i \in {}
    BY <1>1, <2>2
  <2>4. Ordered(t, used, {})
    BY <2>1, <2>3, NotAbsorbed
  <2> QED BY <1>1, <1>2, <2>4 DEF Sane, Merge
<1>3. CASE next # NULL
  <2>1. k \in 1 .. n - 1 /\ k + 1 \in 1 .. n /\ next = used[k + 1]
    BY <1>1, <1>3 DEF Nth
  <2>2. CASE Absorbs(t, hp)
    <3> DEFINE u == Without(used, k + 1)
               d == Absorb(t, used[k])
    <3>1. /\ \A i \in 1 .. Len(used) : i < k /\ i \in {k, k + 1} => i \in {k}
          /\ \A i \in 1 .. Len(used) : i > k /\ i \in {k, k + 1} => i - 1 \in {k}
      BY <1>1
    <3> HIDE DEF u, d
    <3>2. u = Without(used, k + 1) /\ d = Absorb(t, used[k]) /\ Absorbs(t, used[k])
      BY <2>2 DEF u, d
    <3>3. /\ Len(u) = Len(used) - 1 /\ u[k] = used[k]
          /\ Lists(d, u, InsertAfter(spare, 0, used[k + 1]))
          /\ Ordered(d, u, {k})
          /\ Cover(d, u) = Cover(t, used)
      <4>1. Merged(t, used, spare, k, {k}, Absorb(t, used[k]))
        BY <2>1, <3>1, <3>2, AbsorbLists
      <4> QED BY <3>2, <4>1 DEF Merged
    <3>4. k \in 1 .. Len(u) /\ hp = u[k]
      BY <1>1, <2>1, <3>3
    <3>5. Sane(IF Absorbs(d, hp) THEN Absorb(d, hp) ELSE d, Cover(d, u), Len(u))
      BY <3>3, <3>4, MergeStep
    <3>6. Merge(t, hp) = IF Absorbs(d, hp) THEN Absorb(d, hp) ELSE d
      BY <1>3, <2>2 DEF Merge, d
    <3>7. Sane(Merge(t, hp), Cover(t, used), Len(u))
      BY <3>3, <3>5, <3>6
    <3>8. \A j \in Nat : j <= Len(u) => j <= Len(used)
      BY <1>1, <3>3
    <3>9. PICK w, v : /\ Lists(Merge(t, hp), w, v) /\ Ordered(Merge(t, hp), w, {})
                      /\ Cover(Merge(t, hp), w) = Cover(t, used) /\ Len(w) <= Len(u)
      BY <3>7 DEF Sane
    <3>10. Len(w) \in Nat
      BY <3>9, ListsFacts
    <3> QED BY <3>8, <3>9, <3>10 DEF Sane
  <2>3. CASE ~Absorbs(t, hp)
    <3>1. \A i \in 1 .. n : i \in {k, k + 1} /\ i # k /\ i < n => i \in {k + 1}
      OBVIOUS
    <3>2. Ordered(t, used, {k + 1})
      BY <2>3, <3>1, NotAbsorbed
    <3>3. Sane(IF Absorbs(t, next) THEN Absorb(t, next) ELSE t, Cover(t, used), n)
      BY <2>1, <3>2, MergeStep
    <3>4. Merge(t, hp) = IF Absorbs(t, next) THEN Absorb(t, next) ELSE t
      BY <1>3, <2>3 DEF Merge
    <3> QED BY <3>3, <3>4
  <2> QED BY <2>2, <2>3
<1> QED BY <1>2, <1>3

(* The leading holes below an address are the first ones: the others begin at it
   or above. *)
LEMMA LeadingHoles ==
  ASSUME NEW n \in Nat, NEW b, \A i \in 1 .. n : b[i] \in Nat,
         \A i, j \in 1 .. n : i < j => b[i] < b[j], NEW x \in Nat
  PROVE  \E k \in 0 .. n :
           /\ {i \in 1 .. n : \A j \in 1 .. i : b[j] < x} = 1 .. k
           /\ Below(n, b, k, x)
<1> DEFINE S == {i \in Nat : i \in 1 .. n /\ x <= b[i]}
<1>1. CASE S = {}
  <2>1. \A i \in 1 .. n : b[i] < x
    BY <1>1
  <2> QED BY <2>1 DEF Below
<1>2. CASE S # {}
  <2>1. PICK h \in S : \A i \in S : h <= i
    <3> HIDE DEF S
    <3>1. S \in SUBSET Nat
      BY DEF S
    <3> QED BY <1>2, <3>1, LeastNumber
  <2>2. \A i \in 1 .. n : i < h => b[i] < x
    BY <2>1
  <2>3. \A i \in 1 .. n : i >= h => x <= b[i]
    BY <2>1
  <2>4. h - 1 \in 0 .. n
    BY <2>1
  <2>5. {i \in 1 .. n : \A j \in 1 .. i : b[j] < x} = 1 .. (h - 1)
    <3>1. ASSUME NEW i \in 1 .. n, \A j \in 1 .. i : b[j] < x PROVE i \in 1 .. (h - 1)
      <4>1. b[i] < x
        BY <3>1
      <4> QED BY <2>1, <2>3, <4>1
    <3>2. ASSUME NEW i \in 1 .. (h - 1) PROVE i \in 1 .. n /\ \A j \in 1 .. i : b[j] < x
      BY <2>1, <2>2
    <3> QED BY <3>1, <3>2
  <2> QED BY <2>1, <2>2, <2>3, <2>4, <2>5 DEF Below
<1> QED BY <1>1, <1>2

(* free_mem puts in clicks that no hole has: the table stays sane, whichever of
   the neighbours the new hole touches. *)
LEMMA FreeMemSane ==
  ASSUME NEW t, NEW used, NEW spare, Lists(t, used, spare), Ordered(t, used, {}),
         t.free # NULL, NEW base \in Nat, NEW clicks \in Nat, clicks > 0,
         (base .. base + clicks - 1) \cap Cover(t, used) = {}
  PROVE  Sane(FreeMem(t, base, clicks), Cover(t, used) \cup (base .. base + clicks - 1),
              Len(used) + 1)
<1> DEFINE n == Len(used)
           b == Bases(t, used)
           l == Lens(t, used)
           new == t.free
<1>1. /\ t \in Tables /\ used \in Seq(Slots) /\ n \in Nat /\ Len(spare) > 0
      /\ \A i \in 1 .. n : used[i] \in Slots
  <2>1. t.free = Nth(spare, 1) /\ Len(spare) \in Nat
    BY ListsFacts
  <2>2. Len(spare) > 0
    BY <2>1 DEF Nth
  <2> QED BY <2>2, ListsFacts
<1>2. Holes(t) = used /\ DOMAIN used = 1 .. n
  BY <1>1, FromLists
<1>3. /\ \A i \in 1 .. n : b[i] = t.hole[used[i]].base /\ l[i] = t.hole[used[i]].len
      /\ Apart(n, b, l, {})
  BY DEF Bases, Lens, Ordered
<1> HIDE DEF b, l
<1>4. PICK k \in 0 .. n :
        /\ {i \in 1 .. n : \A j \in 1 .. i : b[j] < base} = 1 .. k
        /\ Below(n, b, k, base)
  <2>1. /\ \A i \in 1 .. n : b[i] \in Nat
        /\ \A i, j \in 1 .. n : i < j => b[i] < b[j]
    <3>1. /\ \A i \in 1 .. n : b[i] \in Nat /\ l[i] \in Nat /\ l[i] > 0
          /\ \A i, j \in 1 .. n : i < j => b[i] + l[i] <= b[j]
      BY <1>3, ApartFacts
    <3> QED BY <3>1
  <2> QED BY <1>1, <2>1, LeadingHoles
<1> DEFINE below == {i \in DOMAIN Holes(t) : \A j \in 1 .. i : t.hole[Holes(t)[j]].base < base}
           prev  == used[k]
           d     == PutIn(t, k = 0, prev, base, clicks)
           hp    == IF k = 0 THEN new ELSE prev
           u     == InsertAfter(used, k, new)
<1>5. below = 1 .. k /\ Cardinality(below) = k /\ (below = {} <=> k = 0)
  <2>1. below = {i \in 1 .. n : \A j \in 1 .. i : b[j] < base}
    BY <1>2, <1>3
  <2>2. below = 1 .. k
    BY <1>4, <2>1
  <2>3. Cardinality(1 .. k) = k
    BY <1>4, FS_Interval
  <2> HIDE DEF below
  <2> QED BY <1>4, <2>2, <2>3
<1>6. FreeMem(t, base, clicks) = Merge(d, hp)
  <2> HIDE DEF below
  <2> DEFINE taken == [t EXCEPT !.hole[new].base = base, !.hole[new].len = clicks,
                                !.free = t.hole[new].next]
             front == [taken EXCEPT !.hole[new].next = t.head, !.head = new]
             inner(p) == [taken EXCEPT !.hole[new].next = t.hole[p].next, !.hole[p].next = new]
             found == Holes(t)[Cardinality(below)]
  <2>1. d = IF k = 0 THEN front ELSE inner(prev)
    BY DEF PutIn
  <2>2. FreeMem(t, base, clicks) = IF below = {} THEN Merge(front, new)
                                   ELSE Merge(inner(found), found)
    BY DEF FreeMem, below
  <2>3. k # 0 => found = prev
    BY <1>2, <1>5
  <2> HIDE DEF front, inner, found, d
  <2> QED BY <1>5, <2>1, <2>2, <2>3
<1> HIDE DEF d, below
<1>7. /\ Lists(d, u, Without(spare, 1))
      /\ new \in Slots
      /\ d.hole[new].base = base /\ d.hole[new].len = clicks
      /\ \A i \in 1 .. n : /\ d.hole[used[i]].base = t.hole[used[i]].base
                           /\ d.hole[used[i]].len = t.hole[used[i]].len
  <2>1. SlotTaken(t, used, spare, k, base, clicks, PutIn(t, k = 0, prev, base, clicks))
    BY <1>1, PutInLists
  <2> QED BY <2>1 DEF SlotTaken, d
<1>8. /\ Len(u) = n + 1
      /\ \A i \in 1 .. n + 1 : u[i] = IF i <= k THEN used[i]
                                      ELSE IF i = k + 1 THEN new ELSE used[i - 1]
  BY <1>1, <1>7, InsertAfterType DEF InsertAfter
<1> HIDE DEF u
<1> DEFINE c == Bases(d, u)
           m == Lens(d, u)
<1>9. Put(n, b, l, k, base, clicks, c, m)
  <2>1. \A i \in 1 .. n + 1 : c[i] = d.hole[u[i]].base /\ m[i] = d.hole[u[i]].len
    BY <1>8 DEF Bases, Lens
  <2> HIDE DEF c, m
  <2>2. c[k + 1] = base /\ m[k + 1] = clicks
    <3>1. k + 1 \in 1 .. n + 1 /\ u[k + 1] = new
      BY <1>1, <1>8
    <3> QED BY <1>7, <2>1, <3>1
  <2>3. ASSUME NEW i \in 1 .. n, i <= k
        PROVE  c[i] = b[i] /\ m[i] = l[i]
    <3>1. i \in 1 .. n + 1 /\ u[i] = used[i]
      BY <1>1, <1>8, <2>3
    <3> QED BY <1>3, <1>7, <2>1, <3>1
  <2>4. ASSUME NEW i \in 1 .. n + 1, i > k + 1
        PROVE  c[i] = b[i - 1] /\ m[i] = l[i - 1]
    <3> DEFINE h == i - 1
    <3>1. h \in 1 .. n /\ u[i] = used[h]
      BY <1>1, <1>8, <2>4
    <3> HIDE DEF h
    <3>2. c[i] = b[h] /\ m[i] = l[h]
      BY <1>3, <1>7, <2>1, <3>1
    <3> QED BY <3>2 DEF h
  <2>5. \A i \in 1 .. n : i <= k => c[i] = b[i] /\ m[i] = l[i]
    BY <2>3
  <2>6. \A i \in 1 .. n + 1 : i > k + 1 => c[i] = b[i - 1] /\ m[i] = l[i - 1]
    BY <2>4
  <2> HIDE DEF n
  <2> QED BY <2>2, <2>5, <2>6 DEF Put
<1>10. /\ Apart(n + 1, c, m, {k, k + 1})
       /\ Clicked(n + 1, c, m) = Cover(t, used) \cup (base .. base + clicks - 1)
  <2> HIDE DEF c, m, n
  <2>1. Cover(t, used) = Clicked(n, b, l)
    BY DEF Cover, b, l, n
  <2>2. (base .. base + clicks - 1) \cap Clicked(n, b, l) = {}
    BY <2>1
  <2>3. n \in Nat /\ k \in 0 .. n /\ clicks > 0
    BY <1>1 DEF n
  <2>4. Below(n, b, k, base)
    BY <1>4 DEF n
  <2>5. Apart(n, b, l, {})
    BY <1>3
  <2>6. Stretches(n + 1, c, m, {k, k + 1}, Clicked(n, b, l) \cup (base .. base + clicks - 1))
    BY <1>9, <2>2, <2>3, <2>4, <2>5, PutStretch
  <2> QED BY <2>1, <2>6 DEF Stretches
<1>11. /\ Ordered(d, u, {k, k + 1})
       /\ Cover(d, u) = Cover(t, used) \cup (base .. base + clicks - 1)
  BY <1>8, <1>10 DEF Ordered, Cover
<1>12. CASE k = 0
  <2>1. 1 \in 1 .. Len(u) /\ hp = u[1]
    BY <1>1, <1>8, <1>12
  <2>2. Apart(n + 1, c, m, {1, 1 + 1})
    <3> HIDE DEF c, m
    <3>1. \A i \in 1 .. n + 1 : i \in {k, k + 1} /\ i \notin {1, 1 + 1} /\ i < n + 1
                                => c[i] + m[i] # c[i + 1]
      BY <1>12
    <3> QED BY <1>1, <1>10, <3>1, NotTouching
  <2>3. Ordered(d, u, {1, 1 + 1})
    BY <1>8, <2>2 DEF Ordered
  <2>4. Sane(Merge(d, hp), Cover(d, u), Len(u))
    BY <1>7, <2>1, <2>3, MergeLists
  <2> QED BY <1>6, <1>8, <1>11, <2>4
<1>13. CASE k # 0
  <2>1. k \in 1 .. Len(u) /\ hp = u[k]
    BY <1>1, <1>8, <1>13
  <2>2. Sane(Merge(d, hp), Cover(d, u), Len(u))
    BY <1>7, <1>11, <2>1, MergeLists
  <2> QED BY <1>6, <1>8, <1>11, <2>2
<1> QED BY <1>12, <1>13
-----------------------------------------------------------------------------
(* alloc_mem takes its piece off the front of a hole. *)

(* The piece goes and nothing else changes; free_slots is not used up. *)
BiteResult(t, used, i, clicks, d) ==
  /\ Sane(d, Cover(t, used) \ Clicks(t.hole[used[i]].base, clicks), Len(used))
  /\ d.free = NULL => t.free = NULL

LEMMA BiteSane ==
  ASSUME NEW t, NEW used, NEW spare, Lists(t, used, spare), Ordered(t, used, {}),
         NEW i \in 1 .. Len(used),
         NEW clicks \in Nat, clicks > 0, clicks <= t.hole[used[i]].len
  PROVE  BiteResult(t, used, i, clicks, Bite(t, i, clicks))
<1> DEFINE n == Len(used)
           b == Bases(t, used)
           l == Lens(t, used)
           hp == used[i]
           prev == IF i = 1 THEN NULL ELSE used[i - 1]
           bitten == [t EXCEPT !.hole[hp].base = @ + clicks, !.hole[hp].len = @ - clicks]
           taken == Clicks(t.hole[hp].base, clicks)
<1>1. /\ t \in Tables /\ used \in Seq(Slots) /\ n \in Nat /\ hp \in Slots
      /\ \A j \in 1 .. n : used[j] \in Slots
      /\ \A j \in 1 .. n : j # i => used[j] # hp
      /\ t.hole[hp].base \in Nat /\ t.hole[hp].len \in Nat
  BY ListsFacts
<1>2. Holes(t) = used
  BY FromLists
<1>3. \A j \in 1 .. n : b[j] = t.hole[used[j]].base /\ l[j] = t.hole[used[j]].len
  BY DEF Bases, Lens
<1>4. Apart(n, b, l, {}) /\ Clicked(n, b, l) = Cover(t, used)
  BY DEF Ordered, Cover
<1> HIDE DEF b, l
<1>5. /\ bitten \in Tables /\ bitten.head = t.head /\ bitten.free = t.free
      /\ bitten.hole[hp].base = t.hole[hp].base + clicks
      /\ bitten.hole[hp].len = t.hole[hp].len - clicks
      /\ \A s \in Slots : bitten.hole[s].next = t.hole[s].next
      /\ \A s \in Slots : s # hp => bitten.hole[s] = t.hole[s]
  <2> DEFINE Hole == [next : Slots \cup {NULL}, base : Nat, len : Nat]
             hb == [t.hole EXCEPT ![hp].base = @ + clicks]
             hl == [hb EXCEPT ![hp].len = @ - clicks]
  <2>1. bitten = [t EXCEPT !.hole = hl]
    BY DEF Tables
  <2>2. /\ hb \in [Slots -> Hole] /\ hb[hp].next = t.hole[hp].next
        /\ hb[hp].base = t.hole[hp].base + clicks /\ hb[hp].len = t.hole[hp].len
        /\ \A s \in Slots : s # hp => hb[s] = t.hole[s]
    <3> DEFINE up == t.hole[hp].base + clicks
    <3>1. t.hole \in [Slots -> Hole] /\ t.hole[hp] \in Hole /\ up \in Nat
      BY <1>1 DEF Tables
    <3> HIDE DEF up
    <3>2. [t.hole[hp] EXCEPT !.base = up] \in Hole
      BY <3>1
    <3>3. hb = [t.hole EXCEPT ![hp] = [t.hole[hp] EXCEPT !.base = up]]
      BY DEF up
    <3> HIDE DEF hb
    <3>4. /\ hb \in [Slots -> Hole] /\ hb[hp] = [t.hole[hp] EXCEPT !.base = up]
          /\ \A s \in Slots : s # hp => hb[s] = t.hole[s]
      BY <1>1, <3>1, <3>2, <3>3
    <3> QED BY <3>1, <3>4 DEF up
  <2> HIDE DEF hb
  <2>3. /\ hl \in [Slots -> Hole] /\ hl[hp].next = hb[hp].next
        /\ hl[hp].base = hb[hp].base /\ hl[hp].len = hb[hp].len - clicks
        /\ \A s \in Slots : s # hp => hl[s] = hb[s]
    <3> DEFINE rest == hb[hp].len - clicks
    <3>1. hb[hp] \in Hole /\ rest \in Nat
      BY <1>1, <2>2
    <3> HIDE DEF rest
    <3>2. [hb[hp] EXCEPT !.len = rest] \in Hole
      BY <3>1
    <3>3. hl = [hb EXCEPT ![hp] = [hb[hp] EXCEPT !.len = rest]]
      BY DEF rest
    <3> HIDE DEF hl
    <3>4. /\ hl \in [Slots -> Hole] /\ hl[hp] = [hb[hp] EXCEPT !.len = rest]
          /\ \A s \in Slots : s # hp => hl[s] = hb[s]
      BY <1>1, <2>2, <3>2, <3>3
    <3> QED BY <3>1, <3>4 DEF rest
  <2> HIDE DEF hl, bitten
  <2>4. /\ bitten \in Tables /\ bitten.hole = hl
        /\ bitten.head = t.head /\ bitten.free = t.free
    BY <1>1, <2>1, <2>3 DEF Tables
  <2> QED BY <1>1, <2>2, <2>3, <2>4
<1>6. Bite(t, i, clicks) = IF bitten.hole[hp].len = 0 THEN DelSlot(bitten, prev, hp) ELSE bitten
  BY <1>2 DEF Bite
<1> HIDE DEF bitten
<1>7. Lists(bitten, used, spare)
  BY <1>5, SameLinks
<1>8. CASE bitten.hole[hp].len # 0
  <2> DEFINE c == Bases(bitten, used)
             m == Lens(bitten, used)
  <2>1. \A j \in 1 .. n : c[j] = bitten.hole[used[j]].base /\ m[j] = bitten.hole[used[j]].len
    BY DEF Bases, Lens
  <2> HIDE DEF c, m
  <2>2. clicks < l[i] /\ b[i] = t.hole[hp].base
    BY <1>1, <1>3, <1>5, <1>8
  <2>3. Bitten(n, b, l, i, clicks, c, m)
    <3>1. c[i] = b[i] + clicks /\ m[i] = l[i] - clicks
      BY <1>3, <1>5, <2>1
    <3>2. \A j \in 1 .. n : j # i => c[j] = b[j] /\ m[j] = l[j]
      BY <1>1, <1>3, <1>5, <2>1
    <3> QED BY <3>1, <3>2 DEF Bitten
  <2>4. Stretches(n, c, m, {}, Clicked(n, b, l) \ (b[i] .. b[i] + clicks - 1))
    BY <1>1, <1>4, <2>2, <2>3, BiteStretch
  <2>5. Ordered(bitten, used, {}) /\ Cover(bitten, used) = Cover(t, used) \ taken
    BY <1>4, <2>2, <2>4 DEF Stretches, Ordered, Cover, c, m, Clicks
  <2>6. Sane(bitten, Cover(t, used) \ taken, Len(used))
    BY <1>1, <1>7, <2>5 DEF Sane
  <2> QED BY <1>5, <1>6, <1>8, <2>6 DEF BiteResult
<1>9. CASE bitten.hole[hp].len = 0
  <2> DEFINE d == DelSlot(bitten, prev, hp)
             u == Without(used, i)
             v == InsertAfter(spare, 0, hp)
             c == Bases(d, u)
             m == Lens(d, u)
  <2>1. SlotGone(bitten, used, spare, i, d)
    <3>1. i > 1 => prev = used[i - 1]
      OBVIOUS
    <3> HIDE DEF prev
    <3> QED BY <1>7, <3>1, DelSlotLists
  <2> HIDE DEF d
  <2>2. /\ Lists(d, u, v)
        /\ \A j \in 1 .. n \ {i} : /\ d.hole[used[j]].base = bitten.hole[used[j]].base
                                    /\ d.hole[used[j]].len = bitten.hole[used[j]].len
    BY <2>1 DEF SlotGone
  <2>3. /\ Len(u) = n - 1
        /\ \A j \in 1 .. n - 1 : u[j] = IF j < i THEN used[j] ELSE used[j + 1]
    BY <1>1, WithoutType DEF Without
  <2> HIDE DEF u
  <2>4. \A j \in 1 .. n - 1 : c[j] = d.hole[u[j]].base /\ m[j] = d.hole[u[j]].len
    BY <2>3 DEF Bases, Lens
  <2> HIDE DEF c, m
  <2>5. \A j \in 1 .. n : j # i => d.hole[used[j]].base = b[j] /\ d.hole[used[j]].len = l[j]
    BY <1>1, <1>3, <1>5, <2>2
  <2>6. Removed(n, b, l, i, c, m)
    <3>1. ASSUME NEW j \in 1 .. n - 1, j < i
          PROVE  c[j] = b[j] /\ m[j] = l[j]
      <4>1. j \in 1 .. n /\ j # i /\ u[j] = used[j]
        BY <1>1, <2>3, <3>1
      <4> QED BY <2>4, <2>5, <4>1
    <3>2. ASSUME NEW j \in 1 .. n - 1, j >= i
          PROVE  c[j] = b[j + 1] /\ m[j] = l[j + 1]
      <4>1. j + 1 \in 1 .. n /\ j + 1 # i /\ u[j] = used[j + 1]
        BY <1>1, <2>3, <3>2
      <4> QED BY <2>4, <2>5, <4>1
    <3> QED BY <3>1, <3>2 DEF Removed
  <2>7. Stretches(n - 1, c, m, {}, Clicked(n, b, l) \ (b[i] .. b[i] + l[i] - 1))
    BY <1>1, <1>4, <2>6, RemoveStretch
  <2>8. l[i] = clicks /\ b[i] = t.hole[hp].base
    BY <1>1, <1>3, <1>5, <1>9
  <2>9. Ordered(d, u, {}) /\ Cover(d, u) = Cover(t, used) \ taken
    BY <1>4, <2>3, <2>7, <2>8 DEF Stretches, Ordered, Cover, c, m, Clicks
  <2>10. Sane(d, Cover(t, used) \ taken, Len(used))
    <3>1. Len(u) <= Len(used)
      BY <1>1, <2>3
    <3> QED BY <2>2, <2>9, <3>1 DEF Sane
  <2>11. d.free # NULL
    <3>1. spare \in Seq(Slots) /\ Len(spare) \in Nat
      BY ListsFacts
    <3>2. 0 \in 0 .. Len(spare) /\ Len(v) = Len(spare) + 1
      <4>1. 0 \in 0 .. Len(spare)
        BY <3>1
      <4> QED BY <1>1, <3>1, <4>1, InsertAfterType
    <3>3. d.free = v[1] /\ v[1] = hp
      BY <2>2, <3>1, <3>2, ListsFacts DEF Nth, InsertAfter
    <3> QED BY <1>1, <3>3, HoleAssumption DEF Slots
  <2>12. Bite(t, i, clicks) = d
    BY <1>6, <1>9 DEF d
  <2> QED BY <2>10, <2>11, <2>12 DEF BiteResult
<1> QED BY <1>8, <1>9

-----------------------------------------------------------------------------
(* mem_init. *)

(* All slots are unused to begin with. *)
LEMMA EmptySane == Sane(Empty, {}, 0)
<1> DEFINE u == <<>>
           v == [i \in 1 .. NrHoles |-> i]
<1>1. NrHoles \in Nat /\ NrHoles > 0
  BY HoleAssumption
<1>2. u \in Seq(Slots) /\ Len(u) = 0
  OBVIOUS
<1>3. v \in Seq(Slots) /\ Len(v) = NrHoles /\ \A i \in 1 .. NrHoles : v[i] = i
  <2>1. v \in [1 .. NrHoles -> Slots]
    BY DEF Slots
  <2> QED BY <1>1, <2>1, ListType
<1> HIDE DEF u, v
<1>4. /\ Empty \in Tables /\ Empty.head = NULL /\ Empty.free = 1
      /\ \A s \in Slots : Empty.hole[s].next = IF s = NrHoles THEN NULL ELSE s + 1
  BY <1>1 DEF Empty, Tables, Slots
<1>5. Linked(Empty, Empty.head, u)
  BY <1>2, <1>4 DEF Linked, Nth
<1>6. Linked(Empty, Empty.free, v)
  BY <1>1, <1>3, <1>4 DEF Linked, Nth, Slots
<1>7. Distinct(u) /\ Distinct(v)
  BY <1>2, <1>3 DEF Distinct
<1>8. \A s \in Slots : \E j \in 1 .. Len(v) : s = v[j]
  BY <1>3 DEF Slots
<1>9. Lists(Empty, u, v)
  BY <1>1, <1>2, <1>3, <1>4, <1>5, <1>6, <1>7, <1>8 DEF Lists
<1>10. Ordered(Empty, u, {}) /\ Cover(Empty, u) = {}
  BY <1>2 DEF Ordered, Cover, Apart, Clicked
<1> QED BY <1>2, <1>9, <1>10 DEF Sane

LEMMA ChunksType ==
  /\ Len(Chunks) \in Nat /\ DOMAIN Chunks = 1 .. Len(Chunks)
  /\ \A j \in 1 .. Len(Chunks) : /\ Chunks[j].base \in Nat /\ Chunks[j].size \in Nat
                                 /\ Clicks(Chunks[j].base, Chunks[j].size) \subseteq Nat
<1>1. Chunks \in Seq([base : Nat, size : Nat])
  BY HoleAssumption
<1>2. Len(Chunks) \in Nat /\ DOMAIN Chunks = 1 .. Len(Chunks)
  BY <1>1
<1>3. ASSUME NEW j \in 1 .. Len(Chunks)
      PROVE  /\ Chunks[j].base \in Nat /\ Chunks[j].size \in Nat
             /\ Clicks(Chunks[j].base, Chunks[j].size) \subseteq Nat
  <2>1. Chunks[j] \in [base : Nat, size : Nat]
    BY <1>1, ElementOfSeq
  <2>2. Chunks[j].base \in Nat /\ Chunks[j].size \in Nat
    BY <2>1
  <2> QED BY <2>2 DEF Clicks
<1> QED BY <1>2, <1>3

(* A step of mem_init: the i-th chunk from the end is freed. *)
BootStep(t, i) ==
  LET c == Chunks[Len(Chunks) + 1 - i]
  IN  IF c.size > 0 THEN FreeMem(t, c.base, c.size) ELSE t

(* A function that satisfies the recursion of Booted as far as k. *)
Boots(f, k) == f = [i \in 0 .. k |-> IF i = 0 THEN Empty ELSE BootStep(f[i - 1], i)]

LEMMA BootsExist == \E f : Boots(f, Len(Chunks))
<1> DEFINE S == {k \in Nat : \E f : Boots(f, k)}
<1>1. 0 \in S
  <2>1. Boots([i \in 0 .. 0 |-> Empty], 0)
    BY DEF Boots
  <2> QED BY <2>1
<1>2. ASSUME NEW k \in S PROVE k + 1 \in S
  <2>1. PICK f : Boots(f, k)
    OBVIOUS
  <2> DEFINE g == [i \in 0 .. k + 1 |-> IF i = k + 1 THEN BootStep(f[k], k + 1) ELSE f[i]]
             h == [i \in 0 .. k + 1 |-> IF i = 0 THEN Empty ELSE BootStep(g[i - 1], i)]
  <2>2. ASSUME NEW i \in 0 .. k + 1 PROVE g[i] = h[i]
    <3>1. CASE i = k + 1
      BY <3>1
    <3>2. CASE i # k + 1
      <4>1. i \in 0 .. k /\ g[i] = f[i]
        BY <3>2
      <4>2. f[i] = IF i = 0 THEN Empty ELSE BootStep(f[i - 1], i)
        BY <2>1, <4>1 DEF Boots
      <4>3. i # 0 => g[i - 1] = f[i - 1]
        BY <4>1
      <4>4. h[i] = IF i = 0 THEN Empty ELSE BootStep(g[i - 1], i)
        OBVIOUS
      <4> HIDE DEF g, h
      <4> QED BY <4>1, <4>2, <4>3, <4>4
    <3> QED BY <3>1, <3>2
  <2>3. g = h
    <3>1. /\ g = [i \in 0 .. k + 1 |-> g[i]]
          /\ h = [i \in 0 .. k + 1 |-> h[i]]
      OBVIOUS
    <3> HIDE DEF g, h
    <3> QED BY <2>2, <3>1
  <2> HIDE DEF g
  <2> QED BY <2>3 DEF Boots
<1>3. Len(Chunks) \in S
  <2>1. \A k \in Nat : k \in S
    BY <1>1, <1>2, SetInduction
  <2> QED BY <2>1, ChunksType
<1> QED BY <1>3

LEMMA BootedSteps ==
  \E f : /\ Booted = f[Len(Chunks)] /\ f[0] = Empty
         /\ \A i \in 1 .. Len(Chunks) : f[i] = BootStep(f[i - 1], i)
<1> DEFINE f == CHOOSE f : Boots(f, Len(Chunks))
<1>1. Boots(f, Len(Chunks))
  BY BootsExist
<1>2. Booted = f[Len(Chunks)]
  BY DEF Booted, Boots, BootStep
<1> HIDE DEF f
<1>3. Len(Chunks) \in Nat
  BY HoleAssumption
<1>4. \A i \in 0 .. Len(Chunks) : f[i] = IF i = 0 THEN Empty ELSE BootStep(f[i - 1], i)
  BY <1>1 DEF Boots
<1> QED BY <1>2, <1>3, <1>4

(* The clicks of the last i chunks. *)
Freed(i) ==
  {y \in Nat : \E j \in 1 .. Len(Chunks) :
                 j > Len(Chunks) - i /\ y \in Clicks(Chunks[j].base, Chunks[j].size)}

LEMMA FreedStep ==
  ASSUME NEW i \in Nat, i < Len(Chunks), NEW c, c = Chunks[Len(Chunks) - i]
  PROVE  /\ c.base \in Nat /\ c.size \in Nat
         /\ Freed(i + 1) = Freed(i) \cup Clicks(c.base, c.size)
         /\ Clicks(c.base, c.size) \cap Freed(i) = {}
<1> DEFINE n == Len(Chunks)
           k == n - i
<1>1. n \in Nat /\ \A j \in 1 .. n : Chunks[j].base \in Nat /\ Chunks[j].size \in Nat
  BY ChunksType
<1>2. k \in 1 .. n /\ c = Chunks[k]
  BY <1>1
<1>3. \A j \in 1 .. n : (j > n - (i + 1) <=> j = k \/ j > n - i) /\ (j = k => ~(j > n - i))
  BY <1>1
<1>4. c.base \in Nat /\ c.size \in Nat
  BY <1>1, <1>2
<1>5. Clicks(c.base, c.size) \subseteq Nat
  BY <1>4 DEF Clicks
<1>6. \A j \in 1 .. n : j # k => Clicks(Chunks[k].base, Chunks[k].size)
                                  \cap Clicks(Chunks[j].base, Chunks[j].size) = {}
  BY <1>2, HoleAssumption
<1> HIDE DEF n, k
<1>7. Freed(i + 1) = Freed(i) \cup Clicks(c.base, c.size)
  BY <1>2, <1>3, <1>5 DEF Freed, n
<1>8. Clicks(c.base, c.size) \cap Freed(i) = {}
  BY <1>2, <1>3, <1>6 DEF Freed, n
<1> QED BY <1>4, <1>7, <1>8

LEMMA SaneMore ==
  ASSUME NEW d, NEW clicks, NEW m \in Nat, Sane(d, clicks, m), NEW n \in Nat, m <= n
  PROVE  Sane(d, clicks, n)
<1>1. PICK u, v : Lists(d, u, v) /\ Ordered(d, u, {}) /\ Cover(d, u) = clicks /\ Len(u) <= m
  BY DEF Sane
<1>2. Len(u) \in Nat
  BY <1>1, ListsFacts
<1>3. Len(u) <= n
  BY <1>1, <1>2
<1> QED BY <1>1, <1>3 DEF Sane

(* mem_init makes a sane table with the clicks of all chunks: each chunk finds
   an unused slot and meets no chunk freed before it. *)
LEMMA BootedSane == Sane(Booted, Memory, Len(Chunks))
<1> DEFINE n == Len(Chunks)
<1>1. PICK f : /\ Booted = f[n] /\ f[0] = Empty
               /\ \A i \in 1 .. n : f[i] = BootStep(f[i - 1], i)
  BY BootedSteps
<1>2. n \in Nat /\ NrHoles \in Nat /\ n < NrHoles
  BY HoleAssumption
<1> DEFINE S == {i \in Nat : i <= n => Sane(f[i], Freed(i), i)}
<1>3. 0 \in S
  <2>1. Freed(0) = {}
    BY <1>2 DEF Freed
  <2> QED BY <1>1, <2>1, EmptySane
<1>4. ASSUME NEW i \in S PROVE i + 1 \in S
  <2> SUFFICES ASSUME i + 1 <= n PROVE Sane(f[i + 1], Freed(i + 1), i + 1)
    OBVIOUS
  <2> DEFINE c == Chunks[n - i]
  <2>0. i \in Nat /\ i < n /\ i + 1 \in 1 .. n /\ n + 1 - (i + 1) = n - i /\ (i + 1) - 1 = i
    BY <1>2
  <2>1. f[i + 1] = IF c.size > 0 THEN FreeMem(f[i], c.base, c.size) ELSE f[i]
    BY <1>1, <2>0 DEF BootStep
  <2>2. /\ c.base \in Nat /\ c.size \in Nat
        /\ Freed(i + 1) = Freed(i) \cup Clicks(c.base, c.size)
        /\ Clicks(c.base, c.size) \cap Freed(i) = {}
    <3> HIDE DEF c
    <3>1. c = Chunks[n - i]
      BY DEF c
    <3> QED BY <2>0, <3>1, FreedStep
  <2> HIDE DEF c
  <2>3. PICK u, v : /\ Lists(f[i], u, v) /\ Ordered(f[i], u, {})
                    /\ Cover(f[i], u) = Freed(i) /\ Len(u) <= i
    BY <1>2, <2>0 DEF Sane
  <2>4. Len(u) \in Nat
    BY <2>3, ListsFacts
  <2>5. CASE c.size > 0
    <3>1. f[i].free # NULL
      <4>1. /\ v \in Seq(Slots) /\ Len(v) \in Nat /\ Len(u) + Len(v) = NrHoles
            /\ f[i].free = Nth(v, 1)
        BY <2>3, ListsFacts
      <4>2. Len(v) > 0
        BY <1>2, <2>0, <2>3, <2>4, <4>1
      <4>3. 1 \in 1 .. Len(v) /\ v[1] \in Slots
        BY <4>1, <4>2
      <4>4. NULL \notin Slots
        BY HoleAssumption DEF Slots
      <4> QED BY <4>1, <4>3, <4>4 DEF Nth
    <3>2. Sane(FreeMem(f[i], c.base, c.size),
               Cover(f[i], u) \cup (c.base .. c.base + c.size - 1), Len(u) + 1)
      <4>1. (c.base .. c.base + c.size - 1) \cap Cover(f[i], u) = {}
        BY <2>2, <2>3 DEF Clicks
      <4> QED BY <2>2, <2>3, <2>5, <3>1, <4>1, FreeMemSane
    <3>3. Sane(f[i + 1], Freed(i + 1), Len(u) + 1)
      BY <2>1, <2>2, <2>3, <2>5, <3>2 DEF Clicks
    <3>4. Len(u) + 1 \in Nat /\ i + 1 \in Nat /\ Len(u) + 1 <= i + 1
      BY <2>0, <2>3, <2>4
    <3> QED BY <3>3, <3>4, SaneMore
  <2>6. CASE c.size = 0
    <3>1. Clicks(c.base, c.size) = {}
      BY <2>2, <2>6 DEF Clicks
    <3>2. f[i + 1] = f[i] /\ Freed(i + 1) = Freed(i)
      <4>1. ~(c.size > 0)
        BY <2>6
      <4>2. f[i + 1] = f[i]
        BY <2>1, <4>1
      <4>3. Freed(i + 1) = Freed(i) \cup {}
        BY <2>2, <3>1
      <4> QED BY <4>2, <4>3
    <3>3. Sane(f[i + 1], Freed(i + 1), i)
      BY <1>2, <2>0, <3>2
    <3> QED BY <2>0, <3>3, SaneMore
  <2> QED BY <2>2, <2>5, <2>6
<1>5. Sane(Booted, Freed(n), n)
  <2>1. \A i \in Nat : i \in S
    BY <1>3, <1>4, SetInduction
  <2> QED BY <1>1, <1>2, <2>1
<1>6. Freed(n) = Memory
  <2>1. \A j \in 1 .. n : j > n - n /\ Clicks(Chunks[j].base, Chunks[j].size) \subseteq Nat
    BY <1>2, ChunksType
  <2>2. DOMAIN Chunks = 1 .. n
    BY ChunksType
  <2> QED BY <2>1, <2>2 DEF Freed, Memory
<1> QED BY <1>5, <1>6

-----------------------------------------------------------------------------
(* First fit: what Holes and Big say of a table that is sane. *)

(* HoleClicks, of a table t. *)
ClicksOf(t) ==
  UNION {Clicks(t.hole[s].base, t.hole[s].len) :
           s \in {Holes(t)[i] : i \in DOMAIN Holes(t)}}

LEMMA CoverClicks ==
  ASSUME NEW t, NEW used, NEW spare, Lists(t, used, spare)
  PROVE  ClicksOf(t) = Cover(t, used)
<1>1. /\ Len(used) \in Nat /\ used \in Seq(Slots)
      /\ \A i \in 1 .. Len(used) : t.hole[used[i]].base \in Nat /\ t.hole[used[i]].len \in Nat
  BY ListsFacts
<1>2. Holes(t) = used /\ DOMAIN used = 1 .. Len(used)
  BY <1>1, FromLists
<1>3. ClicksOf(t) = UNION {Clicks(t.hole[used[i]].base, t.hole[used[i]].len) :
                            i \in 1 .. Len(used)}
  BY <1>2 DEF ClicksOf
<1>4. ASSUME NEW i \in 1 .. Len(used), NEW y
      PROVE  y \in Clicks(t.hole[used[i]].base, t.hole[used[i]].len)
               <=> /\ y \in Nat
                   /\ Bases(t, used)[i] <= y /\ y < Bases(t, used)[i] + Lens(t, used)[i]
  <2> DEFINE b == t.hole[used[i]].base
             l == t.hole[used[i]].len
  <2>1. b \in Nat /\ l \in Nat
    BY <1>1
  <2>2. Bases(t, used)[i] = b /\ Lens(t, used)[i] = l
    BY DEF Bases, Lens
  <2> HIDE DEF b, l
  <2>3. y \in Clicks(b, l) <=> y \in Nat /\ b <= y /\ y < b + l
    BY <2>1 DEF Clicks
  <2> QED BY <2>2, <2>3 DEF b, l
<1>5. \A y : y \in ClicksOf(t) <=>
         \E i \in 1 .. Len(used) : y \in Clicks(t.hole[used[i]].base, t.hole[used[i]].len)
  BY <1>3
<1>6. \A y : y \in Cover(t, used) <=>
         \E i \in 1 .. Len(used) : /\ y \in Nat
                                  /\ Bases(t, used)[i] <= y
                                  /\ y < Bases(t, used)[i] + Lens(t, used)[i]
  BY DEF Cover, Clicked
<1> QED BY <1>4, <1>5, <1>6

LEMMA SaneClicks ==
  ASSUME NEW t, NEW clicks, NEW most, Sane(t, clicks, most)
  PROVE  ClicksOf(t) = clicks
BY CoverClicks DEF Sane

(* A run of free clicks lies in one hole: between two holes there is a click
   that no hole has. *)
LEMMA RunInHole ==
  ASSUME NEW n \in Nat, NEW b, NEW l, Apart(n, b, l, {}),
         NEW x, NEW a \in Nat, a > 0, x .. x + a - 1 \subseteq Clicked(n, b, l), x \in Nat
  PROVE  \E i \in 1 .. n : b[i] <= x /\ x + a <= b[i] + l[i]
<1>1. /\ \A i \in 1 .. n : b[i] \in Nat /\ l[i] \in Nat /\ l[i] > 0
      /\ \A i, j \in 1 .. n : i < j => b[i] + l[i] < b[j]
  BY DEF Apart
<1>2. x \in Clicked(n, b, l)
  BY DEF Clicked
<1>3. PICK i \in 1 .. n : b[i] <= x /\ x < b[i] + l[i]
  BY <1>2 DEF Clicked
<1>4. ASSUME x + a > b[i] + l[i] PROVE FALSE
  <2> DEFINE y == b[i] + l[i]
  <2>1. y \in x .. x + a - 1 /\ y \in Nat
    BY <1>1, <1>3, <1>4
  <2>2. PICK j \in 1 .. n : b[j] <= y /\ y < b[j] + l[j]
    BY <2>1 DEF Clicked
  <2>3. CASE j = i
    BY <1>1, <2>2, <2>3
  <2>4. CASE j < i
    <3>1. b[j] + l[j] < b[i]
      BY <1>1, <2>4
    <3> QED BY <1>1, <2>2, <3>1
  <2>5. CASE j > i
    <3>1. b[i] + l[i] < b[j]
      BY <1>1, <2>5
    <3> QED BY <1>1, <2>2, <3>1
  <2> QED BY <2>3, <2>4, <2>5
<1> QED BY <1>1, <1>3, <1>4

(* x is the lowest place for n clicks in the set F. *)
Place(F, n, x) == x \in F /\ Clicks(x, n) \subseteq F
LowestPlace(F, n, x) == Place(F, n, x) /\ \A y \in F : Place(F, n, y) => x <= y

(* The hole that alloc_mem finds. *)
Found(t, used, n, i) ==
  /\ i \in 1 .. Len(used) /\ n <= t.hole[used[i]].len
  /\ LowestPlace(Cover(t, used), n, t.hole[used[i]].base)

LEMMA FirstFits ==
  ASSUME NEW t, NEW used, NEW spare, Lists(t, used, spare), Ordered(t, used, {}),
         NEW n \in Nat, n > 0
  PROVE  /\ Big(t, n) # {} => Found(t, used, n, First(Big(t, n)))
         /\ Big(t, n) = {} => \A x \in Cover(t, used) : ~Place(Cover(t, used), n, x)
<1> DEFINE m == Len(used)
           b == Bases(t, used)
           l == Lens(t, used)
           F == Cover(t, used)
<1>1. m \in Nat /\ used \in Seq(Slots) /\ DOMAIN used = 1 .. m
  BY ListsFacts
<1>2. Holes(t) = used
  BY FromLists
<1>3. \A j \in 1 .. m : b[j] = t.hole[used[j]].base /\ l[j] = t.hole[used[j]].len
  BY DEF Bases, Lens
<1>4. Apart(m, b, l, {}) /\ F = Clicked(m, b, l)
  BY DEF Ordered, Cover
<1>5. Big(t, n) = {j \in 1 .. m : l[j] >= n}
  BY <1>1, <1>2, <1>3 DEF Big
<1> HIDE DEF b, l, m, F
<1>6. /\ \A i \in 1 .. m : b[i] \in Nat /\ l[i] \in Nat /\ l[i] > 0
      /\ \A i, j \in 1 .. m : i < j => b[i] + l[i] < b[j]
  BY <1>4 DEF Apart
<1>7. ASSUME NEW x \in F, Place(F, n, x)
      PROVE  x \in Nat /\ \E j \in Big(t, n) : b[j] <= x
  <2>1. x \in Nat /\ x .. x + n - 1 \subseteq Clicked(m, b, l)
    BY <1>4, <1>7 DEF Place, Clicks, Clicked
  <2>2. PICK j \in 1 .. m : b[j] <= x /\ x + n <= b[j] + l[j]
    BY <1>1, <1>4, <2>1, RunInHole
  <2>3. l[j] >= n
    BY <1>6, <2>1, <2>2
  <2> QED BY <1>5, <2>1, <2>2, <2>3
<1>8. ASSUME Big(t, n) # {}
      PROVE  Found(t, used, n, First(Big(t, n)))
  <2> DEFINE i == First(Big(t, n))
  <2>1. i \in Big(t, n) /\ \A j \in Big(t, n) : i <= j
    <3>1. Big(t, n) \in SUBSET Nat
      BY <1>1, <1>5
    <3>2. \E k \in Big(t, n) : \A j \in Big(t, n) : k <= j
      BY <1>8, <3>1, LeastNumber
    <3> QED BY <3>2 DEF First
  <2> HIDE DEF i
  <2>2. i \in 1 .. m /\ l[i] >= n
    BY <1>5, <2>1
  <2>3. b[i] \in F /\ Clicks(b[i], n) \subseteq F
    <3>1. \A y \in b[i] .. b[i] + n - 1 : y \in Nat /\ b[i] <= y /\ y < b[i] + l[i]
      BY <1>6, <2>2
    <3>2. b[i] \in b[i] .. b[i] + n - 1
      BY <1>6, <2>2
    <3> QED BY <1>4, <2>2, <3>1, <3>2 DEF Clicked, Clicks
  <2>4. ASSUME NEW x \in F, Place(F, n, x) PROVE b[i] <= x
    <3>1. PICK j \in Big(t, n) : b[j] <= x /\ x \in Nat
      BY <1>7, <2>4
    <3>2. i <= j /\ j \in 1 .. m
      BY <1>5, <2>1, <3>1
    <3>3. b[i] <= b[j]
      BY <1>1, <1>6, <2>2, <3>2
    <3> QED BY <1>6, <2>2, <3>1, <3>2, <3>3
  <2>5. LowestPlace(F, n, b[i])
    BY <2>3, <2>4 DEF LowestPlace, Place
  <2>6. b[i] = t.hole[used[i]].base /\ n <= t.hole[used[i]].len
    BY <1>3, <1>6, <2>2
  <2> QED BY <2>2, <2>5, <2>6 DEF Found, F, i, m
<1>9. ASSUME Big(t, n) = {}, NEW x \in F PROVE ~Place(F, n, x)
  BY <1>7, <1>9
<1> QED BY <1>8, <1>9 DEF F

-----------------------------------------------------------------------------
(* Where the clicks are. *)

Given(h) == UNION {Clicks(b.base, b.len) : b \in h}

(* The free clicks F, the blocks h and the lost clicks l share out the memory. *)
Parts(F, h, l) ==
  /\ h \subseteq [base : Nat, len : Nat \ {0}] /\ IsFiniteSet(h) /\ IsFiniteSet(l)
  /\ \A b, c \in h : b # c => Clicks(b.base, b.len) \cap Clicks(c.base, c.len) = {}
  /\ F \cap Given(h) = {} /\ F \cap l = {} /\ Given(h) \cap l = {}
  /\ F \cup Given(h) \cup l = Memory

LEMMA ClicksMembers ==
  ASSUME NEW s \in Nat, NEW n \in Nat
  PROVE  /\ \A y : y \in Clicks(s, n) <=> y \in Nat /\ s <= y /\ y < s + n
         /\ IsFiniteSet(Clicks(s, n))
<1>1. s \in Int /\ s + n - 1 \in Int
  OBVIOUS
<1>2. IsFiniteSet(s .. s + n - 1)
  BY <1>1, FS_Interval
<1> QED BY <1>2 DEF Clicks

LEMMA GivenMembers ==
  ASSUME NEW h
  PROVE  \A y : y \in Given(h) <=> \E b \in h : y \in Clicks(b.base, b.len)
BY DEF Given

(* Clicks from s on are cut into three: skip clicks stay free, n become a block
   and pad are lost. *)
LEMMA TakeParts ==
  ASSUME NEW F, NEW h, NEW l, Parts(F, h, l),
         NEW s \in Nat, NEW skip \in Nat, NEW n \in Nat, n > 0, NEW pad \in Nat,
         Clicks(s, skip + n + pad) \subseteq F
  PROVE  Parts((F \ Clicks(s, skip + n + pad)) \cup Clicks(s, skip),
               h \cup {[base |-> s + skip, len |-> n]}, l \cup Clicks(s + skip + n, pad))
<1> DEFINE all   == Clicks(s, skip + n + pad)
           front == Clicks(s, skip)
           block == Clicks(s + skip, n)
           back  == Clicks(s + skip + n, pad)
           new   == [base |-> s + skip, len |-> n]
           G     == (F \ all) \cup front
           h2    == h \cup {new}
           l2    == l \cup back
<1>1. s + skip \in Nat /\ s + skip + n \in Nat /\ skip + n + pad \in Nat
  OBVIOUS
<1>2. /\ \A y : y \in all <=> y \in Nat /\ s <= y /\ y < s + (skip + n + pad)
      /\ \A y : y \in front <=> y \in Nat /\ s <= y /\ y < s + skip
      /\ \A y : y \in block <=> y \in Nat /\ s + skip <= y /\ y < s + skip + n
      /\ \A y : y \in back <=> y \in Nat /\ s + skip + n <= y /\ y < s + skip + n + pad
      /\ IsFiniteSet(back)
  BY <1>1, ClicksMembers
<1> HIDE DEF all, front, block, back
<1>3. /\ all = front \cup block \cup back
      /\ front \cap block = {} /\ front \cap back = {} /\ block \cap back = {}
  BY <1>2
<1>4. all \subseteq F
  BY DEF all
<1>5. /\ F \cap Given(h) = {} /\ F \cap l = {} /\ Given(h) \cap l = {}
      /\ F \cup Given(h) \cup l = Memory
  BY DEF Parts
<1>6. Given(h2) = Given(h) \cup block
  <2>1. Clicks(new.base, new.len) = block
    BY DEF block
  <2>2. \A y : (\E b \in h2 : y \in Clicks(b.base, b.len))
                <=> (\E b \in h : y \in Clicks(b.base, b.len)) \/ y \in block
    <3> HIDE DEF new
    <3> QED BY <2>1
  <2> HIDE DEF h2, new
  <2> QED BY <2>2, GivenMembers
<1>7. /\ G \cap Given(h2) = {} /\ G \cap l2 = {} /\ Given(h2) \cap l2 = {}
      /\ G \cup Given(h2) \cup l2 = Memory
  <2> HIDE DEF h2
  <2> QED BY <1>3, <1>4, <1>5, <1>6
<1>8. \A b \in h : Clicks(b.base, b.len) \cap block = {}
  BY <1>3, <1>4, <1>5 DEF Given
<1>9. \A b, c \in h2 : b # c => Clicks(b.base, b.len) \cap Clicks(c.base, c.len) = {}
  <2>1. Clicks(new.base, new.len) = block
    BY DEF block
  <2>2. \A b, c \in h : b # c => Clicks(b.base, b.len) \cap Clicks(c.base, c.len) = {}
    BY DEF Parts
  <2> HIDE DEF new
  <2> QED BY <1>8, <2>1, <2>2
<1>10. h2 \subseteq [base : Nat, len : Nat \ {0}]
  BY <1>1 DEF Parts
<1>11. IsFiniteSet(h2) /\ IsFiniteSet(l2)
  <2>1. IsFiniteSet(h) /\ IsFiniteSet(l)
    BY DEF Parts
  <2>2. IsFiniteSet(h2)
    BY <2>1, FS_AddElement
  <2>3. IsFiniteSet(l2)
    BY <1>2, <2>1, FS_Union
  <2> QED BY <2>2, <2>3
<1>12. Parts(G, h2, l2)
  <2> HIDE DEF G, h2, l2
  <2> QED BY <1>7, <1>9, <1>10, <1>11 DEF Parts
<1> QED BY <1>12 DEF G, h2, l2, new, all, front, back

LEMMA GiveBackParts ==
  ASSUME NEW F, NEW h, NEW l, Parts(F, h, l), NEW b \in h
  PROVE  /\ Parts(F \cup Clicks(b.base, b.len), h \ {b}, l)
         /\ Clicks(b.base, b.len) \cap F = {}
         /\ b.base \in Nat /\ b.len \in Nat /\ b.len > 0
<1> DEFINE c == Clicks(b.base, b.len)
           g == h \ {b}
<1>1. b.base \in Nat /\ b.len \in Nat /\ b.len > 0
  BY DEF Parts
<1>2. /\ F \cap Given(h) = {} /\ F \cap l = {} /\ Given(h) \cap l = {}
      /\ F \cup Given(h) \cup l = Memory
      /\ \A a \in h : a # b => Clicks(a.base, a.len) \cap c = {}
  BY DEF Parts
<1>3. Given(h) = Given(g) \cup c
  BY DEF Given
<1>4. Given(g) \cap c = {}
  BY <1>2 DEF Given
<1>5. IsFiniteSet(g)
  BY FS_RemoveElement DEF Parts
<1>6. g \subseteq h
  OBVIOUS
<1> HIDE DEF c, g
<1>7. /\ (F \cup c) \cap Given(g) = {} /\ (F \cup c) \cap l = {} /\ Given(g) \cap l = {}
      /\ (F \cup c) \cup Given(g) \cup l = Memory
      /\ c \cap F = {}
  BY <1>2, <1>3, <1>4
<1>8. Parts(F \cup c, g, l)
  BY <1>5, <1>6, <1>7 DEF Parts
<1> QED BY <1>1, <1>7, <1>8 DEF c, g

-----------------------------------------------------------------------------
(* The distance to the next multiple of the alignment. *)

Skip(b) == IF b % Align = 0 THEN 0 ELSE Align - (b % Align)

LEMMA SkipType ==
  ASSUME NEW b \in Nat
  PROVE  Skip(b) \in Nat /\ Skip(b) < Align
<1>1. Align \in Nat \ {0}
  BY HoleAssumption
<1>2. b % Align \in 0 .. Align - 1
  BY <1>1
<1> QED BY <1>1, <1>2 DEF Skip

(* q and r are the quotient and the remainder when a divides x. *)
LEMMA Division ==
  ASSUME NEW x \in Nat, NEW a \in Nat \ {0}
  PROVE  /\ x = (x \div a) * a + (x % a)
         /\ x % a \in 0 .. a - 1 /\ x \div a \in Nat
OBVIOUS

LEMMA NextMultiple ==
  ASSUME NEW b \in Nat
  PROVE  ((b + Align - 1) \div Align) * Align = b + Skip(b)
<1> DEFINE a == Align
           x == b + a - 1
           q == b \div a
           r == b % a
           p == x \div a
           e == x % a
<1>1. a \in Nat \ {0} /\ x \in Nat
  BY HoleAssumption
<1>2. b = q * a + r /\ r \in 0 .. a - 1 /\ q \in Nat
  BY <1>1, Division
<1>3. x = p * a + e /\ e \in 0 .. a - 1 /\ p \in Nat
  BY <1>1, Division
<1>4. Skip(b) = IF r = 0 THEN 0 ELSE a - r
  BY DEF Skip
<1>5. x = b + a - 1
  OBVIOUS
<1> HIDE DEF a, x, q, r, p, e
<1>6. CASE r = 0
  <2>1. q * a + (a - 1) = p * a + e
    BY <1>1, <1>2, <1>3, <1>5, <1>6
  <2>2. p = q
    <3>1. CASE p > q
      <4>1. p * a >= (q + 1) * a
        BY <1>1, <1>2, <1>3, <3>1
      <4>2. (q + 1) * a = q * a + a
        BY <1>1, <1>2
      <4>3. q * a \in Nat /\ p * a \in Nat
        BY <1>1, <1>2, <1>3
      <4> QED BY <1>1, <1>3, <2>1, <4>1, <4>2, <4>3
    <3>2. CASE p < q
      <4>1. q * a >= (p + 1) * a
        BY <1>1, <1>2, <1>3, <3>2
      <4>2. (p + 1) * a = p * a + a
        BY <1>1, <1>3
      <4>3. q * a \in Nat /\ p * a \in Nat
        BY <1>1, <1>2, <1>3
      <4> QED BY <1>1, <1>3, <2>1, <4>1, <4>2, <4>3
    <3> QED BY <1>2, <1>3, <3>1, <3>2
  <2>3. p * a = b + Skip(b)
    BY <1>1, <1>2, <1>4, <1>6, <2>2
  <2> QED BY <2>3 DEF a, p, x
<1>7. CASE r # 0
  <2>1. (q + 1) * a + (r - 1) = p * a + e
    <3>1. (q + 1) * a = q * a + a /\ q * a \in Nat /\ p * a \in Nat
      BY <1>1, <1>2, <1>3
    <3> QED BY <1>1, <1>2, <1>3, <1>5, <3>1
  <2>2. p = q + 1
    <3> DEFINE k == q + 1
    <3>0. k \in Nat /\ k * a + (r - 1) = p * a + e
      BY <1>2, <2>1
    <3> HIDE DEF k
    <3>1. CASE p > k
      <4>1. p * a >= (k + 1) * a
        BY <1>1, <1>3, <3>0, <3>1
      <4>2. (k + 1) * a = k * a + a
        BY <1>1, <3>0
      <4>3. k * a \in Nat /\ p * a \in Nat
        BY <1>1, <1>3, <3>0
      <4> QED BY <1>1, <1>2, <1>3, <3>0, <4>1, <4>2, <4>3
    <3>2. CASE p < k
      <4>1. k * a >= (p + 1) * a
        BY <1>1, <1>3, <3>0, <3>2
      <4>2. (p + 1) * a = p * a + a
        BY <1>1, <1>3
      <4>3. k * a \in Nat /\ p * a \in Nat
        BY <1>1, <1>3, <3>0
      <4> QED BY <1>1, <1>2, <1>3, <1>7, <3>0, <4>1, <4>2, <4>3
    <3> QED BY <1>3, <3>0, <3>1, <3>2 DEF k
  <2>3. p * a = b + Skip(b)
    <3>1. (q + 1) * a = q * a + a /\ q * a \in Nat
      BY <1>1, <1>2
    <3> QED BY <1>1, <1>2, <1>4, <1>7, <2>2, <3>1
  <2> QED BY <2>3 DEF a, p, x
<1> QED BY <1>6, <1>7

-----------------------------------------------------------------------------
(* The inductive invariant, and what each action does to the clicks. *)

HInv ==
  /\ Sane(table, HoleClicks, NrHoles)
  /\ Parts(HoleClicks, held, lost)
  /\ panicked \in BOOLEAN
  /\ panicked => table.free = NULL

LEMMA SaneAll ==
  ASSUME NEW d, NEW clicks, NEW most, Sane(d, clicks, most)
  PROVE  Sane(d, clicks, NrHoles)
<1>1. PICK u, v : Lists(d, u, v) /\ Ordered(d, u, {}) /\ Cover(d, u) = clicks
  BY DEF Sane
<1>2. Len(u) \in Nat /\ Len(v) \in Nat /\ Len(u) + Len(v) = NrHoles
  BY <1>1, ListsFacts
<1>3. Len(u) <= NrHoles
  BY <1>2
<1> QED BY <1>1, <1>3 DEF Sane

LEMMA FreeMemClicks ==
  ASSUME NEW t, NEW F, NEW most, Sane(t, F, most), t.free # NULL,
         NEW base \in Nat, NEW clicks \in Nat, clicks > 0, Clicks(base, clicks) \cap F = {}
  PROVE  Sane(FreeMem(t, base, clicks), F \cup Clicks(base, clicks), NrHoles)
<1>1. PICK u, v : Lists(t, u, v) /\ Ordered(t, u, {}) /\ Cover(t, u) = F
  BY DEF Sane
<1>2. (base .. base + clicks - 1) \cap Cover(t, u) = {}
  BY <1>1 DEF Clicks
<1>3. Sane(FreeMem(t, base, clicks), Cover(t, u) \cup (base .. base + clicks - 1), Len(u) + 1)
  BY <1>1, <1>2, FreeMemSane
<1>4. Sane(FreeMem(t, base, clicks), F \cup Clicks(base, clicks), Len(u) + 1)
  BY <1>1, <1>3 DEF Clicks
<1> QED BY <1>4, SaneAll

(* alloc_mem's piece, whose base is s: n clicks that were free, the lowest that could be. *)
Piece(t, F, n, s, d) ==
  /\ s \in Nat /\ LowestPlace(F, n, s)
  /\ Sane(d, F \ Clicks(s, n), NrHoles)
  /\ d.free = NULL => t.free = NULL

LEMMA BitePiece ==
  ASSUME NEW t, NEW F, NEW most, Sane(t, F, most), NEW n \in Nat, n > 0, Big(t, n) # {}
  PROVE  Piece(t, F, n, t.hole[Holes(t)[First(Big(t, n))]].base, Bite(t, First(Big(t, n)), n))
<1>1. PICK u, v : Lists(t, u, v) /\ Ordered(t, u, {}) /\ Cover(t, u) = F
  BY DEF Sane
<1> DEFINE i == First(Big(t, n))
           s == t.hole[u[i]].base
<1>2. Holes(t) = u
  BY <1>1, FromLists
<1>3. Found(t, u, n, i)
  BY <1>1, FirstFits
<1> HIDE DEF i
<1>4. i \in 1 .. Len(u) /\ n <= t.hole[u[i]].len /\ LowestPlace(F, n, s)
  BY <1>1, <1>3 DEF Found
<1>5. BiteResult(t, u, i, n, Bite(t, i, n))
  BY <1>1, <1>4, BiteSane
<1>6. Sane(Bite(t, i, n), F \ Clicks(s, n), NrHoles)
  BY <1>1, <1>5, SaneAll DEF BiteResult
<1>7. s \in Nat
  BY <1>1, <1>4, ListsFacts
<1>8. Bite(t, i, n).free = NULL => t.free = NULL
  BY <1>5 DEF BiteResult
<1>9. Piece(t, F, n, s, Bite(t, i, n))
  BY <1>4, <1>6, <1>7, <1>8 DEF Piece
<1> QED BY <1>2, <1>9 DEF i

(* The step gives n clicks from s + skip on to a caller; skip in front of them
   stay free and pad behind them are lost. *)
Took(s, skip, n, pad) ==
  /\ s \in Nat /\ LowestPlace(HoleClicks, skip + n + pad, s)
  /\ HoleClicks' = (HoleClicks \ Clicks(s, skip + n + pad)) \cup Clicks(s, skip)
  /\ Sane(table', HoleClicks', NrHoles)
  /\ held' = held \cup {[base |-> s + skip, len |-> n]}
  /\ lost' = lost \cup Clicks(s + skip + n, pad)
  /\ answer' = s + skip /\ panicked' = panicked

LEMMA SaneNext ==
  ASSUME NEW F, Sane(table', F, NrHoles)
  PROVE  HoleClicks' = F
<1>1. HoleClicks' = ClicksOf(table')
  BY DEF HoleClicks, ClicksOf
<1> QED BY <1>1, SaneClicks

LEMMA SizesType ==
  ASSUME NEW n \in Sizes
  PROVE  n \in Nat /\ n > 0 /\ n + Align \in Nat /\ n + Align > 0
BY HoleAssumption

LEMMA AllocTook ==
  ASSUME HInv, NEW n \in Sizes, Alloc(n)
  PROVE  ~panicked /\ \E s : Took(s, 0, n, 0)
<1> DEFINE i == First(Big(table, n))
           s == table.hole[Holes(table)[i]].base
<1>1. ~panicked /\ n \in Nat /\ n > 0
  BY SizesType DEF Alloc
<1>2. /\ Big(table, n) # {} /\ table' = Bite(table, i, n)
      /\ Give(s, n) /\ lost' = lost
  BY DEF Alloc
<1>3. Piece(table, HoleClicks, n, s, table')
  BY <1>1, <1>2, BitePiece DEF HInv
<1> HIDE DEF s, i
<1>4. /\ s \in Nat /\ LowestPlace(HoleClicks, n, s)
      /\ Sane(table', HoleClicks \ Clicks(s, n), NrHoles)
  BY <1>3 DEF Piece
<1>5. HoleClicks' = HoleClicks \ Clicks(s, n)
  BY <1>4, SaneNext
<1>6. Clicks(s, 0) = {} /\ Clicks(s + 0 + n, 0) = {} /\ 0 + n + 0 = n /\ s + 0 = s
  BY <1>1, <1>4 DEF Clicks
<1>7. Took(s, 0, n, 0)
  BY <1>2, <1>4, <1>5, <1>6 DEF Took, Give
<1> QED BY <1>1, <1>7

LEMMA AlignedTook ==
  ASSUME HInv, NEW n \in Sizes, AllocAligned(n)
  PROVE  /\ ~panicked
         /\ \/ Panic /\ table.free = NULL
            \/ \E s : Took(s, Skip(s), n, Align - Skip(s))
<1> DEFINE all == n + Align
           i == First(Big(table, all))
           s == table.hole[Holes(table)[i]].base
           t == Bite(table, i, all)
           skip == Skip(s)
           base == s + skip
<1>1. /\ ~panicked /\ n \in Nat /\ n > 0 /\ all \in Nat /\ all > 0
      /\ Align \in Nat
  BY SizesType, HoleAssumption DEF AllocAligned
<1>2. /\ Big(table, all) # {}
      /\ IF skip > 0 /\ t.free = NULL THEN Panic
         ELSE /\ table' = IF skip = 0 THEN t ELSE FreeMem(t, s, skip)
              /\ lost' = lost \cup Clicks(base + n, Align - skip)
              /\ Give(base, n)
  BY DEF AllocAligned, Skip
<1>3. Piece(table, HoleClicks, all, s, t)
  BY <1>1, <1>2, BitePiece DEF HInv
<1> HIDE DEF s, i, t
<1>4. /\ s \in Nat /\ LowestPlace(HoleClicks, all, s)
      /\ Sane(t, HoleClicks \ Clicks(s, all), NrHoles)
      /\ t.free = NULL => table.free = NULL
  BY <1>3 DEF Piece
<1>5. skip \in Nat /\ skip < Align
  BY <1>4, SkipType
<1> HIDE DEF skip
<1>6. skip + n + (Align - skip) = all /\ Align - skip \in Nat
  BY <1>1, <1>5
<1> HIDE DEF all
<1>7. CASE skip > 0 /\ t.free = NULL
  BY <1>1, <1>2, <1>4, <1>7
<1>8. CASE ~(skip > 0 /\ t.free = NULL)
  <2>1. /\ table' = IF skip = 0 THEN t ELSE FreeMem(t, s, skip)
        /\ lost' = lost \cup Clicks(base + n, Align - skip)
        /\ Give(base, n)
    BY <1>2, <1>8
  <2>2. Sane(table', (HoleClicks \ Clicks(s, all)) \cup Clicks(s, skip), NrHoles)
    <3>1. CASE skip = 0
      <4>1. Clicks(s, skip) = {}
        BY <1>4, <3>1 DEF Clicks
      <4>2. (HoleClicks \ Clicks(s, all)) \cup Clicks(s, skip) = HoleClicks \ Clicks(s, all)
        BY <4>1
      <4>3. table' = t
        BY <2>1, <3>1
      <4> QED BY <1>4, <4>2, <4>3
    <3>2. CASE skip # 0
      <4>1. skip > 0 /\ t.free # NULL /\ table' = FreeMem(t, s, skip)
        BY <1>5, <1>8, <2>1, <3>2
      <4>2. Clicks(s, skip) \subseteq Clicks(s, all)
        BY <1>1, <1>4, <1>5 DEF Clicks, all
      <4>3. Clicks(s, skip) \cap (HoleClicks \ Clicks(s, all)) = {}
        BY <4>2
      <4> QED BY <1>4, <1>5, <4>1, <4>3, FreeMemClicks
    <3> QED BY <3>1, <3>2
  <2>3. HoleClicks' = (HoleClicks \ Clicks(s, all)) \cup Clicks(s, skip)
    BY <2>2, SaneNext
  <2>4. Took(s, skip, n, Align - skip)
    BY <1>4, <1>6, <2>1, <2>2, <2>3 DEF Took, Give
  <2> QED BY <1>1, <2>4 DEF skip
<1> QED BY <1>7, <1>8

LEMMA TookInv ==
  ASSUME HInv, ~panicked, NEW s, NEW skip \in Nat, NEW n \in Nat, n > 0, NEW pad \in Nat,
         Took(s, skip, n, pad)
  PROVE  HInv'
<1>1. /\ s \in Nat /\ Clicks(s, skip + n + pad) \subseteq HoleClicks
      /\ panicked' = panicked
  BY DEF Took, LowestPlace, Place
<1>2. Parts(HoleClicks', held', lost')
  <2>1. Parts(HoleClicks, held, lost)
    BY DEF HInv
  <2>2. Parts((HoleClicks \ Clicks(s, skip + n + pad)) \cup Clicks(s, skip),
              held \cup {[base |-> s + skip, len |-> n]},
              lost \cup Clicks(s + skip + n, pad))
    BY <1>1, <2>1, TakeParts
  <2> QED BY <2>2 DEF Took
<1>3. Sane(table', HoleClicks', NrHoles)
  BY DEF Took
<1> QED BY <1>1, <1>2, <1>3 DEF HInv

(* free_mem puts the block's clicks back. *)
Returned(b) ==
  /\ HoleClicks' = HoleClicks \cup Clicks(b.base, b.len)
  /\ held' = held \ {b} /\ answer' = answer

LEMMA FreeReturned ==
  ASSUME HInv, NEW b \in held, Free(b)
  PROVE  /\ HInv'
         /\ \/ Panic /\ table.free = NULL
            \/ Returned(b)
<1>1. /\ Parts(HoleClicks \cup Clicks(b.base, b.len), held \ {b}, lost)
      /\ Clicks(b.base, b.len) \cap HoleClicks = {}
      /\ b.base \in Nat /\ b.len \in Nat /\ b.len > 0
  BY GiveBackParts DEF HInv
<1>2. CASE table.free = NULL
  <2>1. Panic
    BY <1>2 DEF Free
  <2>2. HoleClicks' = HoleClicks
    BY <2>1 DEF Panic, HoleClicks, Holes, From
  <2>3. HInv'
    BY <1>2, <2>1, <2>2 DEF HInv, Panic
  <2> QED BY <1>2, <2>1, <2>3
<1>3. CASE table.free # NULL
  <2>1. /\ table' = FreeMem(table, b.base, b.len)
        /\ held' = held \ {b} /\ lost' = lost /\ answer' = answer
        /\ ~panicked /\ panicked' = panicked
    BY <1>3 DEF Free
  <2>2. Sane(table', HoleClicks \cup Clicks(b.base, b.len), NrHoles)
    BY <1>1, <1>3, <2>1, FreeMemClicks DEF HInv
  <2>3. HoleClicks' = HoleClicks \cup Clicks(b.base, b.len)
    BY <2>2, SaneNext
  <2>4. HInv'
    BY <1>1, <2>1, <2>2, <2>3 DEF HInv
  <2> QED BY <2>1, <2>3, <2>4 DEF Returned
<1> QED BY <1>2, <1>3

LEMMA SameClicks ==
  ASSUME table' = table
  PROVE  HoleClicks' = HoleClicks
BY DEF HoleClicks, Holes, From

LEMMA HInvInit == Init => HInv
<1> SUFFICES ASSUME Init PROVE HInv
  OBVIOUS
<1>1. /\ table = Booted /\ held = {} /\ lost = {} /\ panicked = FALSE
  BY DEF Init
<1>2. Sane(table, Memory, NrHoles)
  BY <1>1, BootedSane, SaneAll
<1>3. HoleClicks = Memory
  <2>1. HoleClicks = ClicksOf(table)
    BY DEF HoleClicks, ClicksOf
  <2> QED BY <1>2, <2>1, SaneClicks
<1>4. Parts(Memory, {}, {})
  BY FS_EmptySet DEF Parts, Given
<1> QED BY <1>1, <1>2, <1>3, <1>4 DEF HInv

LEMMA HInvNext == HInv /\ [Next]_vars => HInv'
<1> SUFFICES ASSUME HInv, [Next]_vars PROVE HInv'
  OBVIOUS
<1>1. ASSUME NEW n \in Sizes, Alloc(n) PROVE HInv'
  <2>1. n \in Nat /\ n > 0 /\ 0 \in Nat
    BY SizesType
  <2>2. PICK s : Took(s, 0, n, 0)
    BY <1>1, AllocTook
  <2> QED BY <1>1, <2>1, <2>2, AllocTook, TookInv
<1>2. ASSUME NEW n \in Sizes, AllocAligned(n) PROVE HInv'
  <2>1. ~panicked
    BY <1>2, AlignedTook
  <2>2. CASE Panic /\ table.free = NULL
    <3>1. HoleClicks' = HoleClicks
      BY <2>2, SameClicks DEF Panic
    <3> QED BY <2>2, <3>1 DEF HInv, Panic
  <2>3. ASSUME NEW s, Took(s, Skip(s), n, Align - Skip(s)) PROVE HInv'
    <3>1. Skip(s) \in Nat /\ Align - Skip(s) \in Nat
      <4>1. s \in Nat /\ Align \in Nat
        BY <2>3, HoleAssumption DEF Took
      <4>2. Skip(s) \in Nat /\ Skip(s) < Align
        BY <4>1, SkipType
      <4> QED BY <4>1, <4>2
    <3>2. n \in Nat /\ n > 0
      BY SizesType
    <3> QED BY <2>1, <2>3, <3>1, <3>2, TookInv
  <2> QED BY <1>2, <2>2, <2>3, AlignedTook
<1>3. ASSUME NEW n, Fail(n) PROVE HInv'
  <2>1. HoleClicks' = HoleClicks
    BY <1>3, SameClicks DEF Fail
  <2> QED BY <1>3, <2>1 DEF HInv, Fail
<1>4. ASSUME NEW b \in held, Free(b) PROVE HInv'
  BY <1>4, FreeReturned
<1>5. CASE UNCHANGED vars
  <2>1. HoleClicks' = HoleClicks
    BY <1>5, SameClicks DEF vars
  <2> QED BY <1>5, <2>1 DEF HInv, vars
<1> QED BY <1>1, <1>2, <1>3, <1>4, <1>5 DEF Next

LEMMA HInvHolds == Spec => []HInv
BY HInvInit, HInvNext, PTL DEF Spec

-----------------------------------------------------------------------------
(* What the invariant gives. *)

LEMMA HInvSane == HInv => HolesSane
<1> SUFFICES ASSUME HInv PROVE HolesSane
  OBVIOUS
<1>1. PICK u, v : Lists(table, u, v) /\ Ordered(table, u, {})
  BY DEF HInv, Sane
<1>2. /\ table \in Tables /\ u \in Seq(Slots) /\ v \in Seq(Slots)
      /\ Len(u) + Len(v) = NrHoles
      /\ \A s \in Slots : \/ \E i \in 1 .. Len(u) : s = u[i]
                          \/ \E j \in 1 .. Len(v) : s = v[j]
  <2>1. \A s \in Slots : \/ \E i \in 1 .. Len(u) : s = u[i]
                         \/ \E j \in 1 .. Len(v) : s = v[j]
    BY <1>1 DEF Lists
  <2>2. /\ table \in Tables /\ u \in Seq(Slots) /\ v \in Seq(Slots)
        /\ Len(u) + Len(v) = NrHoles
    BY <1>1, ListsFacts
  <2> QED BY <2>1, <2>2
<1>3. Holes(table) = u /\ From(table, table.free) = v
  BY <1>1, FromLists
<1>4. TypeOK
  <2>1. \A b \in held : Clicks(b.base, b.len) \subseteq Memory
    BY DEF HInv, Parts, Given
  <2>2. lost \subseteq Memory
    BY DEF HInv, Parts
  <2>3. panicked \in BOOLEAN
    BY DEF HInv
  <2> QED BY <1>2, <2>1, <2>2, <2>3 DEF TypeOK, Tables
<1>5. {u[i] : i \in DOMAIN u} \cup {v[i] : i \in DOMAIN v} = Slots
  <2>1. DOMAIN u = 1 .. Len(u) /\ DOMAIN v = 1 .. Len(v)
    BY <1>2
  <2>2. /\ \A i \in DOMAIN u : u[i] \in Slots
        /\ \A i \in DOMAIN v : v[i] \in Slots
    BY <1>2
  <2> QED BY <1>2, <2>1, <2>2
<1>6. ASSUME NEW i \in 1 .. Len(u) - 1
      PROVE  table.hole[u[i]].base + table.hole[u[i]].len < table.hole[u[i + 1]].base
  <2>1. i \in 1 .. Len(u) /\ i + 1 \in 1 .. Len(u) /\ i < i + 1
    BY <1>2
  <2>2. Bases(table, u)[i] + Lens(table, u)[i] < Bases(table, u)[i + 1]
    <3>1. \A j, k \in 1 .. Len(u) : j < k => Bases(table, u)[j] + Lens(table, u)[j] < Bases(table, u)[k]
      BY <1>1 DEF Ordered, Apart
    <3> QED BY <2>1, <3>1
  <2> QED BY <2>1, <2>2 DEF Bases, Lens
<1> QED BY <1>2, <1>3, <1>4, <1>5, <1>6 DEF HolesSane

(* holes_sanity_f's conditions hold at every CHECKHOLES: whatever alloc_mem and
   free_mem did to the table, each slot is on one list, and the holes are
   in order of their addresses with a click between them. *)
THEOREM HoleTableSane == Spec => []HolesSane
BY HInvHolds, HInvSane, PTL

(* The fields of the table stay slots and clicks, and no block leaves memory. *)
THEOREM HoleTypeCorrect == Spec => []TypeOK
<1>1. HolesSane => TypeOK
  BY DEF HolesSane
<1> QED BY <1>1, HoleTableSane, PTL

(* alloc_mem and free_mem give no click to two callers and mislay none,
   whatever the chunks, the requests and the alignment are. *)
THEOREM ClicksStayPartitioned == Spec => []ClicksPartitioned
<1>1. HInv => ClicksPartitioned
  <2> SUFFICES ASSUME HInv PROVE ClicksPartitioned
    OBVIOUS
  <2>1. Parts(HoleClicks, held, lost)
    BY DEF HInv
  <2> QED BY <2>1 DEF Parts, Given, ClicksPartitioned
<1> QED BY <1>1, HInvHolds, PTL

-----------------------------------------------------------------------------
(* "hole table full". *)

LEMMA CountInjected ==
  ASSUME NEW I, NEW T, IsFiniteSet(T), NEW f \in [I -> T],
         \A i, j \in I : f[i] = f[j] => i = j
  PROVE  IsFiniteSet(I) /\ Cardinality(I) <= Cardinality(T)
         /\ Cardinality(I) \in Nat /\ Cardinality(T) \in Nat
<1>1. f \in Injection(I, T)
  BY DEF Injection, IsInjective
<1>2. IsFiniteSet(I) /\ Cardinality(I) <= Cardinality(T)
  BY <1>1, FS_Injection
<1> QED BY <1>2, FS_CardinalityType

(* Where a hole's first click is x: at the beginning of a chunk, behind a
   block or behind a lost click. *)
Begins(x, j) == j \in 1 .. Len(Chunks) /\ x = Chunks[j].base /\ Chunks[j].size > 0
LEMMA HoleBegins ==
  ASSUME NEW n \in Nat, NEW b, NEW l, Apart(n, b, l, {}),
         NEW h, NEW g, Parts(Clicked(n, b, l), h, g), NEW i \in 1 .. n
  PROVE  \/ \E j : Begins(b[i], j)
         \/ \E c \in h : b[i] = c.base + c.len
         \/ \E y \in g : b[i] = y + 1
<1> DEFINE F == Clicked(n, b, l)
           x == b[i]
<1>1. /\ \A k \in 1 .. n : b[k] \in Nat /\ l[k] \in Nat /\ l[k] > 0
      /\ \A j, k \in 1 .. n : j < k => b[j] + l[j] < b[k]
  BY DEF Apart
<1>2. x \in Nat /\ x \in F
  <2>1. b[i] <= b[i] /\ b[i] < b[i] + l[i]
    BY <1>1
  <2> QED BY <1>1, <2>1 DEF Clicked
<1>3. /\ F \cap Given(h) = {} /\ F \cap g = {}
      /\ F \cup Given(h) \cup g = Memory
      /\ h \subseteq [base : Nat, len : Nat \ {0}]
  BY DEF Parts
<1>4. PICK j \in 1 .. Len(Chunks) : x \in Clicks(Chunks[j].base, Chunks[j].size)
  BY <1>2, <1>3, ChunksType DEF Memory
<1>5. Chunks[j].base \in Nat /\ Chunks[j].size \in Nat
  BY <1>4, ChunksType
<1>6. x >= Chunks[j].base /\ x < Chunks[j].base + Chunks[j].size /\ Chunks[j].size > 0
  BY <1>2, <1>4, <1>5 DEF Clicks
<1>7. CASE x = Chunks[j].base
  BY <1>4, <1>6, <1>7 DEF Begins
<1>8. CASE x # Chunks[j].base
  <2> DEFINE y == x - 1
  <2>1. y \in Nat /\ y + 1 = x /\ y \in Clicks(Chunks[j].base, Chunks[j].size)
    <3> DEFINE p == Chunks[j].base
               q == Chunks[j].size
    <3>1. p \in Nat /\ q \in Nat /\ x >= p /\ x < p + q /\ x # p /\ x \in Nat
      BY <1>2, <1>5, <1>6, <1>8
    <3> HIDE DEF p, q, x
    <3>2. y \in Nat /\ y + 1 = x /\ y \in p .. p + q - 1
      BY <3>1
    <3> QED BY <3>2 DEF Clicks, p, q
  <2>2. y \in Memory
    BY <1>4, <2>1, ChunksType DEF Memory
  <2>3. y \notin F
    <3> SUFFICES ASSUME NEW k \in 1 .. n, b[k] <= y, y < b[k] + l[k] PROVE FALSE
      BY DEF Clicked
    <3>1. CASE k = i
      BY <1>1, <2>1, <3>1
    <3>2. CASE k < i
      <4>1. b[k] + l[k] < b[i]
        BY <1>1, <3>2
      <4> QED BY <1>1, <2>1, <4>1
    <3>3. CASE k > i
      <4>1. b[i] + l[i] < b[k]
        BY <1>1, <3>3
      <4> QED BY <1>1, <2>1, <4>1
    <3> QED BY <3>1, <3>2, <3>3
  <2> HIDE DEF y
  <2>4. CASE y \in g
    BY <2>1, <2>4
  <2>5. CASE y \in Given(h)
    <3>1. PICK c \in h : y \in Clicks(c.base, c.len)
      BY <2>5 DEF Given
    <3>2. c.base \in Nat /\ c.len \in Nat
      BY <1>3, <3>1
    <3>3. c.base <= y /\ y < c.base + c.len
      BY <2>1, <3>1, <3>2 DEF Clicks
    <3>4. x \notin Clicks(c.base, c.len)
      BY <1>2, <1>3, <3>1 DEF Given
    <3>5. ~(c.base <= x /\ x < c.base + c.len)
      BY <1>2, <3>2, <3>4 DEF Clicks
    <3>6. x = c.base + c.len
      BY <1>2, <2>1, <3>2, <3>3, <3>5
    <3> QED BY <3>1, <3>6
  <2> QED BY <1>3, <2>2, <2>3, <2>4, <2>5
<1> QED BY <1>7, <1>8

(* No two holes begin a chunk, or lie behind a block or a lost click, for the
   same reason: there are at most as many holes as reasons. *)
LEMMA CountHoles ==
  ASSUME NEW n \in Nat, NEW b, NEW l, Apart(n, b, l, {}),
         NEW h, NEW g, Parts(Clicked(n, b, l), h, g)
  PROVE  n <= Cardinality(h) + Cardinality(g) + Len(Chunks)
<1>1. IsFiniteSet(h) /\ IsFiniteSet(g) /\ Len(Chunks) \in Nat
  BY ChunksType DEF Parts
<1>2. \A i, j \in 1 .. n : b[i] = b[j] => i = j
  <2> SUFFICES ASSUME NEW i \in 1 .. n, NEW j \in 1 .. n, i # j PROVE b[i] # b[j]
    OBVIOUS
  <2>1. /\ \A k \in 1 .. n : b[k] \in Nat /\ l[k] \in Nat
        /\ \A p, q \in 1 .. n : p < q => b[p] + l[p] < b[q]
    BY DEF Apart
  <2>2. CASE i < j
    <3>1. b[i] + l[i] < b[j]
      BY <2>1, <2>2
    <3> QED BY <2>1, <3>1
  <2>3. CASE j < i
    <3>1. b[j] + l[j] < b[i]
      BY <2>1, <2>3
    <3> QED BY <2>1, <3>1
  <2> QED BY <2>2, <2>3
<1> DEFINE A == {i \in 1 .. n : \E j : Begins(b[i], j)}
           B == {i \in 1 .. n : \E c \in h : b[i] = c.base + c.len}
           C == {i \in 1 .. n : \E y \in g : b[i] = y + 1}
<1>3. 1 .. n = A \cup B \cup C
  BY HoleBegins
<1>4. IsFiniteSet(A) /\ Cardinality(A) \in Nat /\ Cardinality(A) <= Len(Chunks)
  <2> DEFINE f == [i \in A |-> CHOOSE j : Begins(b[i], j)]
  <2>1. \A i \in A : Begins(b[i], f[i])
    OBVIOUS
  <2>2. f \in [A -> 1 .. Len(Chunks)]
    BY <2>1 DEF Begins
  <2>3. \A i, j \in A : f[i] = f[j] => i = j
    <3> HIDE DEF f
    <3> QED BY <1>2, <2>1 DEF Begins
  <2>4. IsFiniteSet(1 .. Len(Chunks)) /\ Cardinality(1 .. Len(Chunks)) = Len(Chunks)
    <3> DEFINE m == Len(Chunks)
    <3>1. m \in Nat
      BY <1>1
    <3> HIDE DEF m
    <3>2. /\ IsFiniteSet(1 .. m)
          /\ Cardinality(1 .. m) = IF 1 > m THEN 0 ELSE m - 1 + 1
      BY <3>1, FS_Interval
    <3>3. Cardinality(1 .. m) = m
      BY <3>1, <3>2
    <3> QED BY <3>2, <3>3 DEF m
  <2> HIDE DEF f, A
  <2>5. /\ IsFiniteSet(A) /\ Cardinality(A) <= Cardinality(1 .. Len(Chunks))
        /\ Cardinality(A) \in Nat
    BY <2>2, <2>3, <2>4, CountInjected
  <2> QED BY <2>4, <2>5
<1>5. IsFiniteSet(B) /\ Cardinality(B) \in Nat /\ Cardinality(B) <= Cardinality(h)
  <2> DEFINE f == [i \in B |-> CHOOSE c \in h : b[i] = c.base + c.len]
  <2>1. \A i \in B : f[i] \in h /\ b[i] = f[i].base + f[i].len
    OBVIOUS
  <2>2. f \in [B -> h]
    BY <2>1
  <2>3. \A i, j \in B : f[i] = f[j] => i = j
    <3> HIDE DEF f
    <3> QED BY <1>2, <2>1
  <2> HIDE DEF f, B
  <2> QED BY <1>1, <2>2, <2>3, CountInjected
<1>6. IsFiniteSet(C) /\ Cardinality(C) \in Nat /\ Cardinality(C) <= Cardinality(g)
  <2> DEFINE f == [i \in C |-> CHOOSE y \in g : b[i] = y + 1]
  <2>1. \A i \in C : f[i] \in g /\ b[i] = f[i] + 1
    OBVIOUS
  <2>2. f \in [C -> g]
    BY <2>1
  <2>3. \A i, j \in C : f[i] = f[j] => i = j
    <3> HIDE DEF f
    <3> QED BY <1>2, <2>1
  <2> HIDE DEF f, C
  <2> QED BY <1>1, <2>2, <2>3, CountInjected
<1>7. Cardinality(1 .. n) = n
  BY FS_Interval
<1> HIDE DEF A, B, C
<1>8. /\ IsFiniteSet(A \cup B) /\ Cardinality(A \cup B) \in Nat
      /\ Cardinality(A \cup B) <= Cardinality(A) + Cardinality(B)
  <2>1. /\ IsFiniteSet(A \cup B)
        /\ Cardinality(A \cup B) = Cardinality(A) + Cardinality(B) - Cardinality(A \cap B)
    BY <1>4, <1>5, FS_Union
  <2>2. Cardinality(A \cap B) \in Nat /\ Cardinality(A \cup B) \in Nat
    BY <1>4, <2>1, FS_Intersection, FS_CardinalityType
  <2> QED BY <1>4, <1>5, <2>1, <2>2
<1>9. n <= Cardinality(A \cup B) + Cardinality(C)
  <2>1. Cardinality((A \cup B) \cup C)
          = Cardinality(A \cup B) + Cardinality(C) - Cardinality((A \cup B) \cap C)
    BY <1>6, <1>8, FS_Union
  <2>2. Cardinality((A \cup B) \cap C) \in Nat
    BY <1>8, FS_Intersection, FS_CardinalityType
  <2>3. Cardinality((A \cup B) \cup C) = n
    BY <1>3, <1>7
  <2> QED BY <1>6, <1>8, <2>1, <2>2, <2>3
<1>10. Cardinality(h) \in Nat /\ Cardinality(g) \in Nat
  BY <1>1, FS_CardinalityType
<1> QED BY <1>1, <1>4, <1>5, <1>6, <1>8, <1>9, <1>10

(* alloc_mem and free_mem panic with "hole table full" only when the holes are
   as many as the slots, which takes as many chunks, blocks and lost clicks
   between them. *)
THEOREM PanicsOnlyWhenTableFull == Spec => []PanicsOnlyWhenFull
<1>1. HInv => PanicsOnlyWhenFull
  <2> SUFFICES ASSUME HInv, panicked
               PROVE  NrHoles <= Cardinality(held) + Cardinality(lost) + Len(Chunks)
    BY DEF PanicsOnlyWhenFull
  <2>1. PICK u, v : /\ Lists(table, u, v) /\ Ordered(table, u, {})
                    /\ Cover(table, u) = HoleClicks
    BY DEF HInv, Sane
  <2>2. Len(v) = 0
    <3>1. table.free = NULL
      BY DEF HInv
    <3>2. v \in Seq(Slots) /\ Len(v) \in Nat /\ table.free = Nth(v, 1)
      BY <2>1, ListsFacts
    <3>3. Len(v) > 0 => v[1] \in Slots /\ 1 \in 1 .. Len(v)
      BY <3>2
    <3> QED BY <3>1, <3>2, <3>3, HoleAssumption DEF Nth, Slots
  <2>3. Len(u) \in Nat /\ Len(u) = NrHoles
    BY <2>1, <2>2, ListsFacts
  <2>4. /\ Apart(Len(u), Bases(table, u), Lens(table, u), {})
        /\ Parts(Clicked(Len(u), Bases(table, u), Lens(table, u)), held, lost)
    BY <2>1 DEF Ordered, Cover, HInv
  <2>5. Len(u) <= Cardinality(held) + Cardinality(lost) + Len(Chunks)
    BY <2>3, <2>4, CountHoles
  <2> QED BY <2>3, <2>5
<1> QED BY <1>1, HInvHolds, PTL

-----------------------------------------------------------------------------
(* The table implements first fit. *)

LEMMA LowestFits ==
  ASSUME NEW n \in Nat, NEW x, x \in Nat, HoleClicks \subseteq Nat,
         LowestPlace(HoleClicks, n, x)
  PROVE  /\ Abstract!Fits(n) # {} /\ Abstract!Lowest(Abstract!Fits(n)) = x
         /\ Abstract!Run(x, n) = Clicks(x, n)
<1>1. \A y : y \in Abstract!Fits(n) <=> y \in HoleClicks /\ Place(HoleClicks, n, y)
  BY DEF Abstract!Fits, Abstract!Run, Place, Clicks
<1>2. x \in Abstract!Fits(n) /\ \A y \in Abstract!Fits(n) : x <= y /\ y \in Nat
  BY <1>1 DEF LowestPlace, Place
<1>3. \A y \in Abstract!Fits(n) : (\A z \in Abstract!Fits(n) : y <= z) => y = x
  <2> SUFFICES ASSUME NEW y \in Abstract!Fits(n), \A z \in Abstract!Fits(n) : y <= z
               PROVE  y = x
    OBVIOUS
  <2>1. y <= x /\ x <= y /\ y \in Nat
    BY <1>2
  <2> QED BY <2>1
<1>4. Abstract!Lowest(Abstract!Fits(n)) = x
  BY <1>2, <1>3 DEF Abstract!Lowest
<1> QED BY <1>2, <1>4 DEF Abstract!Run, Clicks

LEMMA FreeClicksType == HInv => HoleClicks \subseteq Nat
<1> SUFFICES ASSUME HInv PROVE HoleClicks \subseteq Nat
  OBVIOUS
<1>1. \A y \in Memory : y \in Nat
  BY ChunksType DEF Memory
<1>2. HoleClicks \subseteq Memory
  BY DEF HInv, Parts
<1> QED BY <1>1, <1>2

LEMMA FailRefuses ==
  ASSUME HInv, NEW n \in Nat, n > 0, Fail(n)
  PROVE  Abstract!Refuse(n)
<1>1. Big(table, n) = {} /\ answer' = NO_MEM /\ table' = table /\ held' = held
  BY DEF Fail
<1>2. PICK u, v : /\ Lists(table, u, v) /\ Ordered(table, u, {})
                  /\ Cover(table, u) = HoleClicks
  BY DEF HInv, Sane
<1>3. \A x \in HoleClicks : ~Place(HoleClicks, n, x)
  BY <1>1, <1>2, FirstFits
<1>4. Abstract!Fits(n) = {}
  BY <1>3 DEF Abstract!Fits, Abstract!Run, Place, Clicks
<1>5. HoleClicks' = HoleClicks
  BY <1>1, SameClicks
<1> QED BY <1>1, <1>4, <1>5 DEF Abstract!Refuse

LEMMA AllocGets ==
  ASSUME HInv, NEW n \in Sizes, Alloc(n)
  PROVE  Abstract!Get(n)
<1>1. PICK s : Took(s, 0, n, 0)
  BY AllocTook
<1>2. n \in Nat /\ n > 0 /\ 0 + n + 0 = n
  BY SizesType
<1>3. s \in Nat /\ LowestPlace(HoleClicks, n, s) /\ s + 0 = s /\ Clicks(s, 0) = {}
  BY <1>1, <1>2 DEF Took, Clicks
<1>4. /\ Abstract!Fits(n) # {} /\ Abstract!Lowest(Abstract!Fits(n)) = s
      /\ Abstract!Run(s, n) = Clicks(s, n)
  BY <1>2, <1>3, LowestFits, FreeClicksType
<1>5. /\ HoleClicks' = HoleClicks \ Clicks(s, n)
      /\ held' = held \cup {[base |-> s, len |-> n]} /\ answer' = s
  BY <1>1, <1>2, <1>3 DEF Took
<1> QED BY <1>4, <1>5 DEF Abstract!Get, Abstract!Give

LEMMA AlignedGets ==
  ASSUME HInv, NEW n \in Sizes, NEW s, Took(s, Skip(s), n, Align - Skip(s))
  PROVE  Abstract!GetAligned(n)
<1> DEFINE skip == Skip(s)
           all == n + Align
<1>1. n \in Nat /\ n > 0 /\ Align \in Nat /\ all \in Nat
  BY SizesType, HoleAssumption
<1>2. s \in Nat
  BY DEF Took
<1>3. skip \in Nat /\ skip < Align /\ Abstract!Up(s) = s + skip
  BY <1>2, SkipType, NextMultiple DEF Abstract!Up
<1> HIDE DEF skip
<1>4. /\ LowestPlace(HoleClicks, skip + n + (Align - skip), s)
      /\ HoleClicks' = (HoleClicks \ Clicks(s, skip + n + (Align - skip))) \cup Clicks(s, skip)
      /\ held' = held \cup {[base |-> s + skip, len |-> n]} /\ answer' = s + skip
  BY DEF Took, skip
<1>5. skip + n + (Align - skip) = all
  BY <1>1, <1>3
<1> HIDE DEF all
<1>6. /\ LowestPlace(HoleClicks, all, s)
      /\ HoleClicks' = (HoleClicks \ Clicks(s, all)) \cup Clicks(s, skip)
  BY <1>4, <1>5
<1>7. Abstract!Fits(all) # {} /\ Abstract!Lowest(Abstract!Fits(all)) = s
  BY <1>1, <1>2, <1>6, LowestFits, FreeClicksType
<1>8. HoleClicks' = HoleClicks \ (Abstract!Up(s) .. (s + n + Align - 1))
  <2>1. Clicks(s, all) \subseteq HoleClicks
    BY <1>6 DEF LowestPlace, Place
  <2>2. Clicks(s, all) \ Clicks(s, skip) = (s + skip) .. (s + n + Align - 1)
    BY <1>1, <1>2, <1>3 DEF Clicks, all
  <2>3. Clicks(s, skip) \subseteq Clicks(s, all)
    BY <1>1, <1>2, <1>3 DEF Clicks, all
  <2>4. (HoleClicks \ Clicks(s, all)) \cup Clicks(s, skip)
          = HoleClicks \ (Clicks(s, all) \ Clicks(s, skip))
    BY <2>1, <2>3
  <2> QED BY <1>3, <1>6, <2>2, <2>4
<1>9. Abstract!Give(s + skip, n)
  BY <1>4 DEF Abstract!Give
<1> QED BY <1>3, <1>7, <1>8, <1>9 DEF Abstract!GetAligned, all

LEMMA Stutters ==
  ASSUME table' = table, held' = held, answer' = answer
  PROVE  UNCHANGED Abstract!fvars
BY SameClicks DEF Abstract!fvars

LEMMA InitFirstFit == Init => Abstract!FInit
<1> SUFFICES ASSUME Init PROVE Abstract!FInit
  OBVIOUS
<1>1. Parts(HoleClicks, held, lost)
  BY HInvInit DEF HInv
<1>2. held = {} /\ lost = {} /\ answer = NO_MEM
  BY DEF Init
<1>3. HoleClicks = Memory
  BY <1>1, <1>2 DEF Parts, Given
<1> QED BY <1>2, <1>3 DEF Abstract!FInit

LEMMA StepFirstFit == HInv /\ [Next]_vars => [Abstract!FNext]_(Abstract!fvars)
<1> SUFFICES ASSUME HInv, [Next]_vars PROVE Abstract!FNext \/ UNCHANGED Abstract!fvars
  OBVIOUS
<1>1. ASSUME NEW n \in Sizes, Alloc(n) PROVE Abstract!FNext
  BY <1>1, AllocGets DEF Abstract!FNext
<1>2. ASSUME NEW n \in Sizes, AllocAligned(n)
      PROVE  Abstract!FNext \/ UNCHANGED Abstract!fvars
  <2>1. CASE Panic
    BY <2>1, Stutters DEF Panic
  <2>2. ASSUME NEW s, Took(s, Skip(s), n, Align - Skip(s)) PROVE Abstract!FNext
    BY <2>2, AlignedGets DEF Abstract!FNext
  <2> QED BY <1>2, <2>1, <2>2, AlignedTook
<1>3. ASSUME NEW n \in Sizes, Fail(n) \/ Fail(n + Align) PROVE Abstract!FNext
  <2>1. n \in Nat /\ n > 0 /\ n + Align \in Nat /\ n + Align > 0
    BY SizesType
  <2>2. Abstract!Refuse(n) \/ Abstract!Refuse(n + Align)
    BY <1>3, <2>1, FailRefuses
  <2> QED BY <2>2 DEF Abstract!FNext
<1>4. ASSUME NEW b \in held, Free(b)
      PROVE  Abstract!FNext \/ UNCHANGED Abstract!fvars
  <2>1. CASE Panic
    BY <2>1, Stutters DEF Panic
  <2>2. CASE Returned(b)
    <3>1. Abstract!PutBack(b)
      BY <2>2 DEF Returned, Abstract!PutBack, Abstract!Run, Clicks
    <3> QED BY <3>1 DEF Abstract!FNext
  <2> QED BY <1>4, <2>1, <2>2, FreeReturned
<1>5. CASE UNCHANGED vars
  BY <1>5, Stutters DEF vars
<1> QED BY <1>1, <1>2, <1>3, <1>4, <1>5 DEF Next

(* alloc_mem's walk over hole_head and free_mem's insertion and merging give
   and take the clicks that first fit on the bare set of free clicks would: a
   request gets the lowest place that holds it and is refused only when there
   is none, an aligned one the next boundary in that place. *)
THEOREM HoleTableIsFirstFit == Spec => ImplementsFirstFit
<1>1. Spec => Abstract!FInit
  BY InitFirstFit DEF Spec
<1>2. Spec => [][Abstract!FNext]_(Abstract!fvars)
  BY HInvHolds, StepFirstFit, PTL DEF Spec
<1> QED BY <1>1, <1>2, PTL DEF ImplementsFirstFit, Abstract!FSpec

===============================================================================

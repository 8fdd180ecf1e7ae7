---------------------------- MODULE PoolRingProofs ----------------------------
(* The ring of pools is one ring through every pool, for any set of pools.      *)
EXTENDS PoolRing, TLAPS

\* Types and ring together are inductive; neither is by itself: unlinking keeps
\* the pointers inside the ring because it is one, and the ring is one because
\* the pools in order are all the pools there are.
Inv == TypeOK /\ OneRing

LEMMA InitInvariant == Init => Inv
  BY RingAssumption DEF Init, Inv, TypeOK, OneRing, Linked, After, Before

Next1(i, n) == IF i = n THEN 1 ELSE i + 1
Prev1(i, n) == IF i = 1 THEN n ELSE i - 1

\* Places 1..n in a ring without place k, renumbered: the neighbours of a place are
\* its old ones, except that those of k become neighbours of each other.
Skip(i, k) == IF i < k THEN i ELSE i + 1

LEMMA Renumber ==
  ASSUME NEW n \in Nat, NEW k \in 1..n, NEW i \in 1..n - 1
  PROVE  /\ Skip(i, k) \in 1..n /\ Skip(i, k) # k
         /\ Next1(i, n - 1) \in 1..n - 1 /\ Prev1(i, n - 1) \in 1..n - 1
         /\ Skip(Next1(i, n - 1), k) = IF Skip(i, k) = Prev1(k, n)
                                       THEN Next1(k, n) ELSE Next1(Skip(i, k), n)
         /\ Skip(Prev1(i, n - 1), k) = IF Skip(i, k) = Next1(k, n)
                                       THEN Prev1(k, n) ELSE Prev1(Skip(i, k), n)
  BY DEF Skip, Next1, Prev1

LEMMA NeighboursInRange ==
  ASSUME NEW n \in Nat, NEW i \in 1..n
  PROVE  Next1(i, n) \in 1..n /\ Prev1(i, n) \in 1..n
  BY DEF Next1, Prev1

\* thr_pool_create puts the new pool between the last and the first.
LEMMA CreateInvariant ==
  ASSUME Inv, NEW pool \in Pools, thr_pool_create(pool)
  PROVE  Inv'
<1> DEFINE n == Len(order)
<1>1. /\ order \in Seq(Pools) /\ n \in Nat
      /\ \A i \in 1..n : order[i] \in Linked
      /\ \A p \in Linked : \E i \in 1..n : p = order[i]
  BY DEF Inv, TypeOK
<1>2. /\ order' \in Seq(Pools)
      /\ Len(order') = n + 1
      /\ order'[n + 1] = pool
      /\ \A i \in 1..n : order'[i] = order[i]
  BY <1>1 DEF thr_pool_create
<1>3. pool \notin Linked /\ \A i \in 1..n : order[i] # pool
  BY <1>1 DEF thr_pool_create
<1>4. \A i, j \in 1..n + 1 : order'[i] = order'[j] => i = j
  BY <1>1, <1>2, <1>3 DEF Inv, OneRing
<1>5. CASE thr_pools = NULL
  <2>1. n = 0 /\ Linked = {}
    <3>1. order = <<>>
      BY <1>5, RingAssumption, <1>1 DEF Inv, OneRing, TypeOK
    <3> QED BY <3>1, <1>1
  <2>2. /\ Linked' = {pool} /\ thr_pools' = pool
        /\ forw' = [p \in {pool} |-> pool] /\ back' = [p \in {pool} |-> pool]
    BY <1>5 DEF thr_pool_create, Linked
  <2>3. TypeOK'
    BY <1>2, <2>1, <2>2 DEF TypeOK
  <2>4. OneRing'
    BY <1>2, <1>4, <2>1, <2>2 DEF OneRing, After, Before
  <2> QED BY <2>3, <2>4 DEF Inv
<1>6. CASE thr_pools # NULL
  <2>1. /\ n > 0 /\ thr_pools = order[1] /\ thr_pools \in Linked
        /\ back[thr_pools] = order[n] /\ back[thr_pools] \in Linked
    <3>1. order # <<>> /\ thr_pools = order[1]
      BY <1>6 DEF Inv, OneRing
    <3>2. n > 0
      BY <3>1, <1>1
    <3> QED BY <3>1, <3>2, <1>1 DEF Inv, OneRing, Before
  <2>2. /\ forw' = [p \in Linked \cup {pool} |->
                        IF p = pool THEN thr_pools
                        ELSE IF p = back[thr_pools] THEN pool ELSE forw[p]]
        /\ back' = [p \in Linked \cup {pool} |->
                        IF p = thr_pools THEN pool
                        ELSE IF p = pool THEN back[thr_pools] ELSE back[p]]
        /\ thr_pools' = thr_pools
        /\ Linked' = Linked \cup {pool}
    BY <1>6 DEF thr_pool_create, Linked
  <2>3. TypeOK'
    <3>1. Linked' = {order'[i] : i \in 1..Len(order')}
      BY <1>1, <1>2, <2>2
    <3>2. forw' \in [Linked' -> Linked'] /\ back' \in [Linked' -> Linked']
      BY <2>1, <2>2 DEF Inv, TypeOK
    <3> QED BY <1>2, <2>1, <2>2, <3>1, <3>2 DEF TypeOK
  <2>4. \A i \in 1..n + 1 : /\ forw'[order'[i]] = order'[IF i = n + 1 THEN 1 ELSE i + 1]
                            /\ back'[order'[i]] = order'[IF i = 1 THEN n + 1 ELSE i - 1]
    <3> TAKE i \in 1..n + 1
    <3>1. CASE i = n + 1
      BY <3>1, <1>2, <1>3, <2>1, <2>2
    <3>2. CASE i \in 1..n
      <4>1. order'[i] = order[i] /\ order[i] \in Linked /\ order[i] # pool
        BY <3>2, <1>1, <1>2, <1>3
      <4>2. order[i] = order[n] <=> i = n
        BY <3>2, <2>1, <1>1 DEF Inv, OneRing
      <4>3. order[i] = order[1] <=> i = 1
        BY <3>2, <2>1, <1>1 DEF Inv, OneRing
      <4>4. forw[order[i]] = order[IF i = n THEN 1 ELSE i + 1]
        BY <3>2 DEF Inv, OneRing, After
      <4>5. back[order[i]] = order[IF i = 1 THEN n ELSE i - 1]
        BY <3>2 DEF Inv, OneRing, Before
      <4>6. forw'[order'[i]] = order'[IF i = n + 1 THEN 1 ELSE i + 1]
        BY <3>2, <1>1, <1>2, <2>1, <2>2, <4>1, <4>2, <4>4
      <4>7. back'[order'[i]] = order'[IF i = 1 THEN n + 1 ELSE i - 1]
        BY <3>2, <1>1, <1>2, <2>1, <2>2, <4>1, <4>3, <4>5
      <4> QED BY <4>6, <4>7
    <3> QED BY <3>1, <3>2, <1>1
  <2>5. OneRing'
    <3>1. order' # <<>> /\ thr_pools' = order'[1]
      BY <1>1, <1>2, <2>1, <2>2
    <3> QED BY <3>1, <1>2, <1>4, <2>4 DEF OneRing, After, Before
  <2> QED BY <2>3, <2>5 DEF Inv
<1> QED BY <1>5, <1>6

\* thr_pool_destroy joins the neighbours of the kth pool.
LEMMA DestroyInvariant ==
  ASSUME Inv, NEW k \in 1..Len(order), thr_pool_destroy(k)
  PROVE  Inv'
<1> DEFINE n == Len(order)
<1> DEFINE pool == order[k]
<1>1. /\ order \in Seq(Pools) /\ n \in Nat /\ k \in 1..n
      /\ \A i \in 1..n : order[i] \in Linked
      /\ \A p \in Linked : \E i \in 1..n : p = order[i]
      /\ \A i, j \in 1..n : order[i] = order[j] => i = j
  BY DEF Inv, TypeOK, OneRing
<1>2. /\ \A i \in 1..n : forw[order[i]] = order[Next1(i, n)]
      /\ \A i \in 1..n : back[order[i]] = order[Prev1(i, n)]
      /\ thr_pools = order[1]
  BY <1>1 DEF Inv, OneRing, After, Before, Next1, Prev1
<1>3. /\ order' \in Seq(Pools) /\ Len(order') = n - 1
      /\ \A i \in 1..n - 1 : order'[i] = IF i < k THEN order[i] ELSE order[i + 1]
  <2>1. order' = [i \in 1..n - 1 |-> IF i < k THEN order[i] ELSE order[i + 1]]
    BY DEF thr_pool_destroy, OrderWithout
  <2>2. \A i \in 1..n - 1 : (IF i < k THEN order[i] ELSE order[i + 1]) \in Pools
    BY <1>1
  <2>3. n - 1 \in Nat
    BY <1>1
  <2> QED BY <2>1, <2>2, <2>3
<1>4. /\ forw' = [p \in Linked \ {pool} |-> IF p = back[pool] THEN forw[pool] ELSE forw[p]]
      /\ back' = [p \in Linked \ {pool} |-> IF p = forw[pool] THEN back[pool] ELSE back[p]]
      /\ Linked' = Linked \ {pool}
      /\ thr_pools' = FirstAfter(pool)
  BY DEF thr_pool_destroy, Unlinked, Linked
<1>5. Linked' = {order'[i] : i \in 1..n - 1}
  <2>1. ASSUME NEW i \in 1..n - 1
        PROVE  order'[i] \in Linked \ {pool}
    BY <1>1, <1>3
  <2>2. ASSUME NEW p \in Linked \ {pool}
        PROVE  \E i \in 1..n - 1 : p = order'[i]
    <3>1. PICK i \in 1..n : p = order[i]
      BY <1>1
    <3>2. i # k
      BY <3>1
    <3>3. CASE i < k
      <4>1. i \in 1..n - 1 /\ order'[i] = order[i]
        BY <3>3, <1>1, <1>3
      <4> QED BY <4>1, <3>1
    <3>4. CASE i > k
      <4>1. i - 1 \in 1..n - 1 /\ order'[i - 1] = order[i]
        BY <3>4, <1>1, <1>3
      <4> QED BY <4>1, <3>1
    <3> QED BY <3>2, <3>3, <3>4, <1>1
  <2> QED BY <2>1, <2>2, <1>4
<1>6. \A i, j \in 1..n - 1 : order'[i] = order'[j] => i = j
  BY <1>1, <1>3
<1>7. thr_pools' = IF order' = <<>> THEN NULL ELSE order'[1]
  <2>1. CASE n = 1
    <3>1. order' = <<>>
      BY <2>1, <1>3
    <3>2. pool = thr_pools /\ forw[pool] = pool
      BY <2>1, <1>1, <1>2 DEF Next1
    <3> QED BY <3>1, <3>2, <1>4 DEF FirstAfter
  <2>2. CASE n > 1
    <3>1. order' # <<>>
      BY <2>2, <1>1, <1>3
    <3>2. CASE k = 1
      <4>1. pool = thr_pools /\ forw[pool] = order[2] /\ order[2] # pool
        BY <3>2, <2>2, <1>1, <1>2 DEF Next1
      <4>2. order'[1] = order[2]
        BY <3>2, <2>2, <1>1, <1>3
      <4> QED BY <3>1, <4>1, <4>2, <1>4 DEF FirstAfter
    <3>3. CASE k > 1
      <4>1. pool # thr_pools
        BY <3>3, <1>1, <1>2
      <4>2. order'[1] = order[1]
        BY <3>3, <2>2, <1>1, <1>3
      <4> QED BY <3>1, <4>1, <4>2, <1>2, <1>4 DEF FirstAfter
    <3> QED BY <3>2, <3>3, <1>1
  <2> QED BY <2>1, <2>2, <1>1
<1>8. ASSUME NEW i \in 1..n - 1
      PROVE  /\ forw'[order'[i]] = order'[Next1(i, n - 1)]
             /\ back'[order'[i]] = order'[Prev1(i, n - 1)]
  <2> DEFINE m == Skip(i, k)
  <2>1. /\ m \in 1..n /\ m # k /\ order'[i] = order[m]
        /\ Next1(m, n) \in 1..n /\ Prev1(m, n) \in 1..n
        /\ Next1(k, n) \in 1..n /\ Prev1(k, n) \in 1..n
    <3>1. m \in 1..n /\ m # k
      BY <1>1, Renumber
    <3>2. order'[i] = order[m]
      BY <1>3 DEF Skip
    <3> QED BY <3>1, <3>2, <1>1, NeighboursInRange
  <2>2. /\ forw[order[m]] = order[Next1(m, n)] /\ back[order[m]] = order[Prev1(m, n)]
        /\ forw[pool] = order[Next1(k, n)] /\ back[pool] = order[Prev1(k, n)]
    BY <1>1, <1>2, <2>1
  <2>3. order[m] \in Linked \ {pool}
    BY <1>1, <2>1
  <2>4. forw'[order[m]] = order[IF m = Prev1(k, n) THEN Next1(k, n) ELSE Next1(m, n)]
    <3>1. forw'[order[m]] = IF order[m] = back[pool] THEN forw[pool] ELSE forw[order[m]]
      BY <1>4, <2>3
    <3>2. order[m] = order[Prev1(k, n)] <=> m = Prev1(k, n)
      BY <1>1, <2>1
    <3> QED BY <3>1, <3>2, <2>2
  <2>5. back'[order[m]] = order[IF m = Next1(k, n) THEN Prev1(k, n) ELSE Prev1(m, n)]
    <3>1. back'[order[m]] = IF order[m] = forw[pool] THEN back[pool] ELSE back[order[m]]
      BY <1>4, <2>3
    <3>2. order[m] = order[Next1(k, n)] <=> m = Next1(k, n)
      BY <1>1, <2>1
    <3> QED BY <3>1, <3>2, <2>2
  <2>6. ASSUME NEW j \in 1..n - 1
        PROVE  order'[j] = order[Skip(j, k)]
    BY <1>3 DEF Skip
  <2>7. /\ Next1(i, n - 1) \in 1..n - 1 /\ Prev1(i, n - 1) \in 1..n - 1
        /\ Skip(Next1(i, n - 1), k) = IF m = Prev1(k, n) THEN Next1(k, n) ELSE Next1(m, n)
        /\ Skip(Prev1(i, n - 1), k) = IF m = Next1(k, n) THEN Prev1(k, n) ELSE Prev1(m, n)
    BY <1>1, Renumber
  <2> HIDE DEF m
  <2>8. forw'[order'[i]] = order'[Next1(i, n - 1)]
    BY <2>1, <2>4, <2>6, <2>7
  <2>9. back'[order'[i]] = order'[Prev1(i, n - 1)]
    BY <2>1, <2>5, <2>6, <2>7
  <2> QED BY <2>8, <2>9
<1>9. TypeOK'
  <2>1. thr_pools' \in Linked' \cup {NULL}
    <3>1. CASE order' = <<>>
      BY <3>1, <1>7
    <3>2. CASE order' # <<>>
      <4>1. 1 \in 1..n - 1
        BY <3>2, <1>1, <1>3
      <4> QED BY <4>1, <3>2, <1>5, <1>7
    <3> QED BY <3>1, <3>2
  <2>2. ASSUME NEW p \in Linked'
        PROVE  forw'[p] \in Linked' /\ back'[p] \in Linked'
    <3>1. PICK i \in 1..n - 1 : p = order'[i]
      BY <1>5
    <3>2. Next1(i, n - 1) \in 1..n - 1 /\ Prev1(i, n - 1) \in 1..n - 1
      BY <1>1, Renumber
    <3> QED BY <3>1, <3>2, <1>5, <1>8
  <2>3. forw' \in [Linked' -> Linked'] /\ back' \in [Linked' -> Linked']
    <3>1. /\ forw' = [p \in Linked' |-> forw'[p]]
          /\ back' = [p \in Linked' |-> back'[p]]
      BY <1>4
    <3> QED BY <3>1, <2>2
  <2> QED BY <1>3, <1>5, <2>1, <2>3 DEF TypeOK
<1>10. OneRing'
  <2>1. ASSUME NEW i \in 1..Len(order')
        PROVE  After(i)' = Next1(i, n - 1) /\ Before(i)' = Prev1(i, n - 1)
    BY <1>3 DEF After, Before, Next1, Prev1
  <2> QED BY <2>1, <1>3, <1>6, <1>7, <1>8 DEF OneRing
<1> QED BY <1>9, <1>10 DEF Inv

\* However pools come and go, thr_pools and pool_forw lead through each of them once
\* and to none that has been freed.
THEOREM RingThroughAllPools == Spec => [](TypeOK /\ OneRing)
<1>1. Inv /\ [Next]_vars => Inv'
  <2> SUFFICES ASSUME Inv, [Next]_vars PROVE Inv'
    OBVIOUS
  <2>1. CASE \E pool \in Pools : thr_pool_create(pool)
    BY <2>1, CreateInvariant
  <2>2. CASE \E k \in 1..Len(order) : thr_pool_destroy(k)
    BY <2>2, DestroyInvariant
  <2>3. CASE UNCHANGED vars
    <3>1. /\ thr_pools' = thr_pools /\ forw' = forw /\ back' = back /\ order' = order
          /\ Linked' = Linked
      BY <2>3 DEF vars, Linked
    <3>2. TypeOK'
      BY <3>1 DEF Inv, TypeOK
    <3>3. OneRing'
      BY <3>1 DEF Inv, OneRing, After, Before
    <3> QED BY <3>2, <3>3 DEF Inv
  <2> QED BY <2>1, <2>2, <2>3 DEF Next
<1>2. Inv => TypeOK /\ OneRing
  BY DEF Inv
<1> QED BY InitInvariant, <1>1, <1>2, PTL DEF Spec
=============================================================================

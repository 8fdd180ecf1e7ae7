------------------------------- MODULE PoolRing -------------------------------
(* The ring of all pools in pthreads/thr_pool.c: thr_pools points to one pool,  *)
(* and each pool to its neighbours. thr_pool_create links a pool behind the     *)
(* last, thr_pool_destroy unlinks it and frees it, each under thr_pool_lock, so *)
(* the section of either is one step, whichever threads make the calls.         *)
EXTENDS Naturals, Sequences

CONSTANTS Pools, NULL

ASSUME RingAssumption == NULL \notin Pools

VARIABLES
    thr_pools,
    forw, back, \* pool_forw and pool_back of the pools that exist
    order       \* history: the pools that exist, oldest first
vars == <<thr_pools, forw, back, order>>

Linked == DOMAIN forw

Init ==
    /\ thr_pools = NULL
    /\ forw = [p \in {} |-> p]
    /\ back = [p \in {} |-> p]
    /\ order = <<>>

\* The last section of thr_pool_create.
thr_pool_create(pool) ==
    /\ pool \notin Linked
    /\ order' = Append(order, pool)
    /\ IF thr_pools = NULL
       THEN /\ forw' = [p \in {pool} |-> pool]
            /\ back' = [p \in {pool} |-> pool]
            /\ thr_pools' = pool
       ELSE /\ forw' = [p \in Linked \cup {pool} |->
                            IF p = pool THEN thr_pools
                            ELSE IF p = back[thr_pools] THEN pool ELSE forw[p]]
            /\ back' = [p \in Linked \cup {pool} |->
                            IF p = thr_pools THEN pool
                            ELSE IF p = pool THEN back[thr_pools] ELSE back[p]]
            /\ UNCHANGED thr_pools

\* The order without its kth pool.
OrderWithout(k) ==
    [i \in 1..Len(order) - 1 |-> IF i < k THEN order[i] ELSE order[i + 1]]

\* What thr_pools becomes when pool goes.
FirstAfter(pool) ==
    IF thr_pools # pool THEN thr_pools
    ELSE IF forw[pool] # pool THEN forw[pool] ELSE NULL

\* Faulty: the neighbours are only told of when pool is not the first.
UnlinkedUnlessFirst(neighbour, other, pool) ==
    [p \in Linked \ {pool} |-> IF p = other[pool] /\ thr_pools # pool
                               THEN neighbour[pool] ELSE neighbour[p]]

\* The pointers neighbour when pool is taken out between its neighbours.
Unlinked(neighbour, other, pool) ==
    [p \in Linked \ {pool} |-> IF p = other[pool] THEN neighbour[pool] ELSE neighbour[p]]

\* The section of thr_pool_destroy under thr_pool_lock, and free.
thr_pool_destroy(k) ==
    /\ forw' = Unlinked(forw, back, order[k])
    /\ back' = Unlinked(back, forw, order[k])
    /\ thr_pools' = FirstAfter(order[k])
    /\ order' = OrderWithout(k)

Next ==
    \/ \E pool \in Pools : thr_pool_create(pool)
    \/ \E k \in 1..Len(order) : thr_pool_destroy(k)

Spec == Init /\ [][Next]_vars

-----------------------------------------------------------------------------
(* Properties *)

\* No pointer leads to a pool that has been freed.
TypeOK ==
    /\ order \in Seq(Pools)
    /\ Linked = {order[i] : i \in 1..Len(order)}
    /\ thr_pools \in Linked \cup {NULL}
    /\ forw \in [Linked -> Linked]
    /\ back \in [Linked -> Linked]

After(i) == IF i = Len(order) THEN 1 ELSE i + 1
Before(i) == IF i = 1 THEN Len(order) ELSE i - 1

\* From thr_pools on, pool_forw visits every pool once, oldest first, and comes
\* back to the start; pool_back goes the same way in reverse. So pools that come
\* and go at either end or in the middle leave one ring.
OneRing ==
    /\ \A i, j \in 1..Len(order) : order[i] = order[j] => i = j
    /\ thr_pools = IF order = <<>> THEN NULL ELSE order[1]
    /\ \A i \in 1..Len(order) : /\ forw[order[i]] = order[After(i)]
                                /\ back[order[i]] = order[Before(i)]
=============================================================================

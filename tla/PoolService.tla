----------------------------- MODULE PoolService -----------------------------
(***************************************************************************)
(* What pthreads/thr_pool.h promises the clients of a thread pool, without *)
(* threads, mutexes or condition variables: submitted jobs are started in  *)
(* the order of submission, at most Maximum at a time, each once and none  *)
(* after thr_pool_destroy was called; thr_pool_wait returns only when the  *)
(* jobs it found have ended; when thr_pool_destroy returns nothing runs    *)
(* and the jobs left are gone.                                             *)
(***************************************************************************)
EXTENDS Naturals, Sequences, FiniteSets

CONSTANTS Clients, Jobs, Maximum

VARIABLES
  pending,    \* submitted jobs in the order they will start
  running,    \* jobs whose function is being executed
  ended,      \* jobs whose function is over
  discarded,  \* jobs that will never run
  client,     \* "out", "waiting" in thr_pool_wait, or "gone"
  owed,       \* the jobs a waiting client waits for
  state       \* "open", "closing" once thr_pool_destroy is called, "freed"

svars == <<pending, running, ended, discarded, client, owed, state>>

Pending == {pending[i] : i \in DOMAIN pending}

SInit ==
  /\ pending = <<>> /\ running = {} /\ ended = {} /\ discarded = {}
  /\ client = [c \in Clients |-> "out"]
  /\ owed = [c \in Clients |-> {}]
  /\ state = "open"

Submit(j) ==
  /\ state # "freed"
  /\ j \notin Pending \cup running \cup ended \cup discarded
  /\ pending' = Append(pending, j)
  /\ UNCHANGED <<running, ended, discarded, client, owed, state>>

Begin ==
  /\ state = "open" /\ pending # <<>> /\ Cardinality(running) < Maximum
  /\ running' = running \cup {Head(pending)}
  /\ pending' = Tail(pending)
  /\ UNCHANGED <<ended, discarded, client, owed, state>>

End(j) ==
  /\ j \in running
  /\ running' = running \ {j} /\ ended' = ended \cup {j}
  /\ UNCHANGED <<pending, discarded, client, owed, state>>

Ask(c) ==
  /\ state # "freed" /\ client[c] = "out"
  /\ client' = [client EXCEPT ![c] = "waiting"]
  /\ owed' = [owed EXCEPT ![c] = Pending \cup running]
  /\ UNCHANGED <<pending, running, ended, discarded, state>>

Answer(c) ==
  /\ client[c] = "waiting" /\ owed[c] \subseteq ended
  /\ client' = [client EXCEPT ![c] = "out"]
  /\ UNCHANGED <<pending, running, ended, discarded, owed, state>>

Leave(c) ==
  /\ client[c] = "waiting" \/ state = "closing"
  /\ client' = [client EXCEPT ![c] = "gone"]
  /\ UNCHANGED <<pending, running, ended, discarded, owed, state>>

Close ==
  /\ state = "open"
  /\ state' = "closing"
  /\ UNCHANGED <<pending, running, ended, discarded, client, owed>>

Free ==
  /\ state = "closing" /\ running = {}
  /\ state' = "freed" /\ pending' = <<>> /\ discarded' = discarded \cup Pending
  /\ UNCHANGED <<running, ended, client, owed>>

SNext ==
  \/ \E j \in Jobs : Submit(j) \/ End(j)
  \/ \E c \in Clients : Ask(c) \/ Answer(c) \/ Leave(c)
  \/ Begin \/ Close \/ Free

SSpec == SInit /\ [][SNext]_svars
=============================================================================

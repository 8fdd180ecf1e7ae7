------------------------------ MODULE Workcrew ------------------------------
(***************************************************************************)
(* The accept / process / respond pipeline of                              *)
(* pthreads/workcrew/workcrew-log8.c, over queue.c and control.c, from a   *)
(* started server to stop_server.                                          *)
(*                                                                         *)
(* acceptors --(aq)--> processors --(rq)--> responders, and every thread   *)
(* that stops puts itself on cq for join_threads.                          *)
(*                                                                         *)
(* The mutexes are default ones: unlocking one that another thread holds   *)
(* is undefined and with NPTL simply frees it, which the processors do to  *)
(* rq on their way out.  So holding a mutex is no guarantee, and each read *)
(* and write of a queue is a step of its own.                              *)
(***************************************************************************)
EXTENDS Integers, Sequences, FiniteSets

CONSTANTS
  Acceptors, Processors, Responders,
  MaxJobs,        \* bound: the connections the acceptors make
  MallocMayFail,  \* whether malloc may return NULL in acceptor
  NULL

Threads == Acceptors \cup Processors \cup Responders
Nodes == 1 .. MaxJobs
Q == {"aq", "rq"}

ASSUME CrewAssumption ==
  /\ IsFiniteSet(Threads)
  /\ Acceptors \cap Processors = {}
  /\ Responders \cap (Acceptors \cup Processors) = {}
  /\ MaxJobs \in Nat
  /\ MallocMayFail \in BOOLEAN
  /\ NULL \notin Nodes \cup Threads

VARIABLES
  active,       \* control.active of aq and rq
  owner,        \* holder of control.mutex, as far as NPTL knows
  asleep,       \* threads blocked on control.cond
  head,         \* work.head; work.tail stays NULL for good
  next,         \* the link of each node
  freed,        \* nodes given to free
  numconnects,  \* nodes allocated so far
  pc, node,     \* each thread's next step and the node its pointer is at
  crashed,      \* a null or freed node was dereferenced, or freed again
  cleanup,      \* cq.cleanup, newest first
  cqAsleep,     \* stop_server sleeps on cq.control.cond
  ctl,          \* where stop_server is
  joining,      \* the thread it has taken off cq
  numthreads,
  failed        \* history: a malloc has failed

queues == <<active, owner, asleep, head, next, freed>>
ctlv   == <<cleanup, cqAsleep, ctl, joining, numthreads, failed>>
vars   == <<queues, numconnects, pc, node, crashed, ctlv>>

InQ(t)  == IF t \in Responders THEN "rq" ELSE "aq"    \* the queue of t's main loop
OutQ(t) == IF t \in Acceptors THEN "aq" ELSE "rq"     \* the queue t puts nodes on
(* The flag of the main loop: the processors' loop asks rq, not aq. *)
LoopFlag(t) == IF t \in Acceptors THEN "aq" ELSE "rq"

Init ==
  /\ active = [q \in Q |-> TRUE]
  /\ owner = [q \in Q |-> NULL]
  /\ asleep = [q \in Q |-> {}]
  /\ head = [q \in Q |-> NULL]
  /\ next = [n \in Nodes |-> NULL]
  /\ freed = {} /\ numconnects = 0
  /\ pc = [t \in Threads |-> "lock"]
  /\ node = [t \in Threads |-> NULL]
  /\ crashed = FALSE
  /\ cleanup = <<>> /\ cqAsleep = FALSE
  /\ ctl = "run" /\ joining = NULL
  /\ failed = FALSE
  /\ numthreads = Cardinality(Threads)   \* reset, then counted by create_threads

-----------------------------------------------------------------------------
At(t, place) == ~crashed /\ pc[t] = place
Goto(t, place) == pc' = [pc EXCEPT ![t] = place]
Crash == crashed' = TRUE /\ UNCHANGED <<queues, numconnects, pc, node, ctlv>>

Acquire(t, q) == owner[q] = NULL /\ owner' = [owner EXCEPT ![q] = t]
Release(q) == owner' = [owner EXCEPT ![q] = NULL]

(* pthread_cond_signal and pthread_cond_broadcast. *)
Signal(q) ==
  IF asleep[q] = {} THEN UNCHANGED asleep
  ELSE \E t \in asleep[q] : asleep' = [asleep EXCEPT ![q] = @ \ {t}]
Broadcast(q) == asleep' = [asleep EXCEPT ![q] = {}]

(* pthread_mutex_lock before the main loop and at the end of its body. *)
Lock(t) ==
  /\ At(t, "lock") /\ Acquire(t, InQ(t))
  /\ t \in Acceptors => numconnects < MaxJobs \/ ~active["aq"]   \* MaxJobs bounds the load
  /\ Goto(t, "top")
  /\ UNCHANGED <<active, asleep, head, next, freed, numconnects, node, crashed, ctlv>>

(* The test of the main loop. *)
Top(t) ==
  /\ At(t, "top")
  /\ Goto(t, IF ~active[LoopFlag(t)] THEN "exit"
             ELSE IF t \in Acceptors THEN "alloc" ELSE "test")
  /\ UNCHANGED <<queues, numconnects, node, crashed, ctlv>>

(* processor, responder: the inner while and the if behind it. *)
Test(t) ==
  /\ At(t, "test")
  /\ Goto(t, IF ~active[InQ(t)] THEN "exit"
             ELSE IF head[InQ(t)] = NULL THEN "wait" ELSE "get")
  /\ UNCHANGED <<queues, numconnects, node, crashed, ctlv>>

(* pthread_cond_wait: falls asleep as it gives up the mutex ... *)
CondWait(t) ==
  /\ At(t, "wait") /\ Release(InQ(t))
  /\ asleep' = [asleep EXCEPT ![InQ(t)] = @ \cup {t}]
  /\ Goto(t, "asleep")
  /\ UNCHANGED <<active, head, next, freed, numconnects, node, crashed, ctlv>>

(* Faulty: takes the wait to be over when the mutex is free. *)
RelockEarly(t) ==
  /\ At(t, "asleep") /\ Acquire(t, InQ(t))
  /\ Goto(t, "test")
  /\ UNCHANGED <<active, asleep, head, next, freed, numconnects, node, crashed, ctlv>>

(* ... and takes it again once woken. *)
Relock(t) ==
  /\ At(t, "asleep") /\ t \notin asleep[InQ(t)] /\ Acquire(t, InQ(t))
  /\ Goto(t, "test")
  /\ UNCHANGED <<active, asleep, head, next, freed, numconnects, node, crashed, ctlv>>

(* queue_get: mynode=myroot->head ... *)
Get(t) ==
  /\ At(t, "get")
  /\ IF head[InQ(t)] = NULL THEN Crash
     ELSE /\ node' = [node EXCEPT ![t] = head[InQ(t)]]
          /\ Goto(t, "unlink")
          /\ UNCHANGED <<queues, numconnects, crashed, ctlv>>

(* ... myroot->head=myroot->head->next, and the caller's write to the node. *)
Unlink(t) ==
  /\ At(t, "unlink")
  /\ IF head[InQ(t)] \in freed \cup {NULL} \/ node[t] \in freed THEN Crash
     ELSE /\ head' = [head EXCEPT ![InQ(t)] = next[@]]
          /\ Goto(t, "unlock")
          /\ UNCHANGED <<active, owner, asleep, next, freed, numconnects, node, crashed, ctlv>>

UnlockIn(t) ==
  /\ At(t, "unlock") /\ Release(InQ(t))
  /\ Goto(t, IF t \in Processors THEN "lock_out" ELSE "respond")
  /\ UNCHANGED <<active, asleep, head, next, freed, numconnects, node, crashed, ctlv>>

(* responder: free(myresponse). *)
Respond(t) ==
  /\ At(t, "respond")
  /\ IF node[t] \in freed THEN Crash
     ELSE /\ freed' = freed \cup {node[t]}
          /\ node' = [node EXCEPT ![t] = NULL]
          /\ Goto(t, "lock")
          /\ UNCHANGED <<active, owner, asleep, head, next, numconnects, crashed, ctlv>>

(* processor: pthread_mutex_lock(&rq.control.mutex). *)
LockOut(t) ==
  /\ At(t, "lock_out") /\ Acquire(t, OutQ(t))
  /\ Goto(t, "link")
  /\ UNCHANGED <<active, asleep, head, next, freed, numconnects, node, crashed, ctlv>>

(* acceptor: malloc, under the mutex; on failure the mutex is unlocked and the
   loop goes on without it. *)
Alloc(t) ==
  /\ At(t, "alloc") /\ numconnects < MaxJobs
  /\ node' = [node EXCEPT ![t] = numconnects + 1]
  /\ numconnects' = numconnects + 1
  /\ Goto(t, "link")
  /\ UNCHANGED <<queues, crashed, ctlv>>
AllocFails(t) ==
  /\ At(t, "alloc") /\ MallocMayFail
  /\ Release("aq") /\ Goto(t, "top") /\ failed' = TRUE
  /\ UNCHANGED <<active, asleep, head, next, freed, numconnects, node, crashed,
                 cleanup, cqAsleep, ctl, joining, numthreads>>

(* Faulty: the link of the queue_put that is commented out, without its tail. *)
LinkForgets(t) ==
  /\ At(t, "link") /\ Goto(t, "publish")
  /\ next' = [next EXCEPT ![node[t]] = NULL]
  /\ UNCHANGED <<active, owner, asleep, head, freed, numconnects, node, crashed, ctlv>>

(* queue_put: mynode->next=myroot->head ... *)
Link(t) ==
  /\ At(t, "link")
  /\ IF node[t] \in freed THEN Crash
     ELSE /\ next' = [next EXCEPT ![node[t]] = head[OutQ(t)]]
          /\ Goto(t, "publish")
          /\ UNCHANGED <<active, owner, asleep, head, freed, numconnects, node, crashed, ctlv>>

(* ... myroot->head=mynode; the caller's pointer stays where it is. *)
Publish(t) ==
  /\ At(t, "publish")
  /\ head' = [head EXCEPT ![OutQ(t)] = node[t]]
  /\ Goto(t, "unlock_out")
  /\ UNCHANGED <<active, owner, asleep, next, freed, numconnects, node, crashed, ctlv>>

UnlockOut(t) ==
  /\ At(t, "unlock_out") /\ Release(OutQ(t))
  /\ Goto(t, "signal")
  /\ UNCHANGED <<active, asleep, head, next, freed, numconnects, node, crashed, ctlv>>

SignalIn(t) ==   \* faulty: signals the condition variable of the other queue
  /\ At(t, "signal") /\ Signal(InQ(t)) /\ Goto(t, "report")
  /\ UNCHANGED <<active, owner, head, next, freed, numconnects, node, crashed, ctlv>>
SignalOut(t) ==
  /\ At(t, "signal") /\ Signal(OutQ(t))
  /\ Goto(t, "report")
  /\ UNCHANGED <<active, owner, head, next, freed, numconnects, node, crashed, ctlv>>

(* processor, acceptor: the message about the node that was passed on.  The
   responder may have freed it by now: the message is then made of whatever the
   memory holds, and nothing else depends on it. *)
Report(t) ==
  /\ At(t, "report")
  /\ node' = [node EXCEPT ![t] = NULL]
  /\ Goto(t, "lock")
  /\ UNCHANGED <<queues, numconnects, crashed, ctlv>>

(* The unlock after the main loop; the processors have a second one, of the rq
   mutex they do not hold. *)
Exit(t) ==
  /\ At(t, "exit") /\ Release(InQ(t))
  /\ Goto(t, IF t \in Processors THEN "exit_rq" ELSE "stop")
  /\ UNCHANGED <<active, asleep, head, next, freed, numconnects, node, crashed, ctlv>>
ExitRqOfAq(t) ==   \* faulty: the second unlock is of aq again
  /\ At(t, "exit_rq") /\ Release("aq")
  /\ Goto(t, "stop")
  /\ UNCHANGED <<active, asleep, head, next, freed, numconnects, node, crashed, ctlv>>
ExitRq(t) ==
  /\ At(t, "exit_rq") /\ Release("rq")
  /\ Goto(t, "stop")
  /\ UNCHANGED <<active, asleep, head, next, freed, numconnects, node, crashed, ctlv>>

(* Faulty: no pthread_cond_signal at the end of stop_thread. *)
StopSilently(t) ==
  /\ At(t, "stop") /\ cleanup' = <<t>> \o cleanup /\ Goto(t, "dead")
  /\ UNCHANGED <<queues, numconnects, node, crashed, cqAsleep, ctl, joining, numthreads, failed>>

(* stop_thread; cq's mutex is used properly, so its section is one step. *)
Stop(t) ==
  /\ At(t, "stop")
  /\ cleanup' = <<t>> \o cleanup
  /\ Goto(t, "stop_signal")
  /\ UNCHANGED <<queues, numconnects, node, crashed, cqAsleep, ctl, joining, numthreads, failed>>
StopSignal(t) ==
  /\ At(t, "stop_signal")
  /\ cqAsleep' = FALSE
  /\ Goto(t, "dead")
  /\ UNCHANGED <<queues, numconnects, node, crashed, cleanup, ctl, joining, numthreads, failed>>

SpuriousWakeup ==
  /\ ~crashed
  /\ \/ \E q \in Q : \E t \in asleep[q] :
          asleep' = [asleep EXCEPT ![q] = @ \ {t}] /\ UNCHANGED cqAsleep
     \/ cqAsleep /\ cqAsleep' = FALSE /\ UNCHANGED asleep
  /\ UNCHANGED <<active, owner, head, next, freed, numconnects, pc, node, crashed,
                 cleanup, ctl, joining, numthreads, failed>>

-----------------------------------------------------------------------------
(* stop_server, run by the signalhandler thread on SIGUSR1.  The sleeps between
   its calls order nothing. *)
CtlAt(place) == ~crashed /\ ctl = place

Deactivate(q, from, to) ==   \* control_deactivate up to its unlock
  /\ CtlAt(from) /\ owner[q] = NULL
  /\ active' = [active EXCEPT ![q] = FALSE]
  /\ ctl' = to
  /\ UNCHANGED <<owner, asleep, head, next, freed, numconnects, pc, node, crashed,
                 cleanup, cqAsleep, joining, numthreads, failed>>

WakeOne(q, from, to) ==      \* faulty: a signal where the broadcast is
  /\ CtlAt(from) /\ Signal(q)
  /\ ctl' = to
  /\ UNCHANGED <<active, owner, head, next, freed, numconnects, pc, node, crashed,
                 cleanup, cqAsleep, joining, numthreads, failed>>
WakeAll(q, from, to) ==      \* its broadcast
  /\ CtlAt(from) /\ Broadcast(q)
  /\ ctl' = to
  /\ UNCHANGED <<active, owner, head, next, freed, numconnects, pc, node, crashed,
                 cleanup, cqAsleep, joining, numthreads, failed>>

DeactivateAq == Deactivate("aq", "run", "wake_aq")
WakeAq == WakeAll("aq", "wake_aq", "deact_rq")
DeactivateRq == Deactivate("rq", "deact_rq", "wake_rq")
WakeRq == WakeAll("rq", "wake_rq", "deact_cq")

(* cq is deactivated, which nobody looks at, and join_threads begins. *)
BeginJoin ==
  /\ CtlAt("deact_cq")
  /\ ctl' = "join" /\ numthreads' = numthreads - 1
  /\ UNCHANGED <<queues, numconnects, pc, node, crashed, cleanup, cqAsleep, joining, failed>>

JoinSleep ==
  /\ CtlAt("join") /\ numthreads + 2 # 0 /\ cleanup = <<>> /\ ~cqAsleep
  /\ cqAsleep' = TRUE
  /\ UNCHANGED <<queues, numconnects, pc, node, crashed, cleanup, ctl, joining, numthreads, failed>>

JoinTakeKeeps ==   \* faulty: looks at the head of cq without taking it off
  /\ CtlAt("join") /\ numthreads + 2 # 0 /\ cleanup # <<>> /\ ~cqAsleep
  /\ joining' = Head(cleanup) /\ ctl' = "joining"
  /\ UNCHANGED <<queues, numconnects, pc, node, crashed, cqAsleep, cleanup, numthreads, failed>>
JoinTake ==
  /\ CtlAt("join") /\ numthreads + 2 # 0 /\ cleanup # <<>> /\ ~cqAsleep
  /\ joining' = Head(cleanup) /\ cleanup' = Tail(cleanup)
  /\ ctl' = "joining"
  /\ UNCHANGED <<queues, numconnects, pc, node, crashed, cqAsleep, numthreads, failed>>

Joined ==   \* pthread_join returns
  /\ CtlAt("joining") /\ pc[joining] = "dead"
  /\ joining' = NULL /\ numthreads' = numthreads - 1 /\ ctl' = "join"
  /\ UNCHANGED <<queues, numconnects, pc, node, crashed, cleanup, cqAsleep, failed>>

(* The loop of join_threads never ends (JoinReturns below), so neither its
   return nor cleanup_structs is an action. *)
-----------------------------------------------------------------------------
Produce(t) == Alloc(t) \/ AllocFails(t)
Enqueue(t) ==
  LockOut(t) \/ Link(t) \/ Publish(t) \/ UnlockOut(t) \/ SignalOut(t) \/ Report(t)
Dequeue(t) == Test(t) \/ CondWait(t) \/ Relock(t) \/ Get(t) \/ Unlink(t) \/ UnlockIn(t)
Terminate(t) == Exit(t) \/ ExitRq(t) \/ Stop(t) \/ StopSignal(t)
ThreadStep(t) ==
  Lock(t) \/ Top(t) \/ Produce(t) \/ Dequeue(t) \/ Respond(t) \/ Enqueue(t) \/ Terminate(t)

StopServer == DeactivateAq \/ WakeAq \/ DeactivateRq \/ WakeRq
JoinThreads == BeginJoin \/ JoinSleep \/ JoinTake \/ Joined

Crew == (\E t \in Threads : ThreadStep(t)) \/ SpuriousWakeup
Next == Crew \/ StopServer \/ JoinThreads
Spec == Init /\ [][Next]_vars

(* Threads are scheduled and spurious wakeups do not go on for ever; nothing
   forces SIGUSR1. *)
CrewFairness ==
  (\A t \in Threads : WF_vars(ThreadStep(t))) /\ <>[][~SpuriousWakeup]_vars
StopFairness ==
  WF_vars(WakeAq) /\ WF_vars(DeactivateRq) /\ WF_vars(WakeRq) /\ WF_vars(JoinThreads)
FairSpec == Spec /\ CrewFairness /\ StopFairness

-----------------------------------------------------------------------------
(* Type invariant: the queues' links stay inside the allocated nodes, a sleeper
   is a thread inside pthread_cond_wait on its own queue, and numthreads never
   runs below the value join_threads would stop at. *)
TypeOK ==
  /\ active \in [Q -> BOOLEAN]
  /\ owner \in [Q -> Threads \cup {NULL}]
  /\ \A q \in Q : \A t \in asleep[q] : pc[t] = "asleep" /\ InQ(t) = q
  /\ numconnects \in 0 .. MaxJobs
  /\ freed \subseteq 1 .. numconnects
  /\ head \in [Q -> (1 .. numconnects) \cup {NULL}]
  /\ next \in [Nodes -> Nodes \cup {NULL}]
  /\ node \in [Threads -> (1 .. numconnects) \cup {NULL}]
  /\ numthreads \in -1 .. Cardinality(Threads)
  /\ Len(cleanup) <= Cardinality(Threads)

(* The threads between a lock and an unlock of q's mutex, by their own code. *)
InSection(q) ==
  {t \in Threads :
     \/ q = InQ(t) /\ pc[t] \in {"top", "test", "wait", "get", "unlink", "unlock", "alloc", "exit"}
     \/ q = OutQ(t) /\ t \notin Responders /\ pc[t] \in {"link", "publish", "unlock_out"}}

(* A processor has run the unlock of rq it has no lock for. *)
Intruded == \E t \in Processors : pc[t] \in {"stop", "stop_signal", "dead"}

(* The aq mutex keeps acceptors and processors apart for good (control.c:8-12),
   whatever happens to rq's, unless a failed malloc has sent an acceptor round
   its loop without it; and so does rq's mutex until a processor leaves, failed
   mallocs or not. *)
QueuesExclusive ==
  /\ failed \/ Cardinality(InSection("aq")) <= 1
  /\ Intruded \/ Cardinality(InSection("rq")) <= 1

(* The nodes of a list: the least set that holds the first one and the link of
   each of its members. *)
LinksClosed(first, link, S) ==
  first \in S \cup {NULL} /\ \A n \in S : link[n] \in S \cup {NULL}
Reached(first, link) ==
  {n \in Nodes : \A S \in SUBSET Nodes : LinksClosed(first, link, S) => n \in S}
Listed(q) == Reached(head[q], next)
Carriers ==
  {t \in Threads : pc[t] \in {"unlock", "lock_out", "respond", "link", "publish"}}

(* No connection is lost or served twice: until a processor leaves or a malloc
   fails, each node allocated is in aq, in rq, in the hands of one thread, or
   freed; queue_get, queue_put and the responder dereference no null or freed
   node; and the one pointer that may be left dangling is that of an acceptor or
   processor that has passed its node on, once it has unlocked the queue: the
   messages of l.252 and l.287 are made through it. *)
JobInOnePlace ==
  Intruded \/ failed \/
    /\ ~crashed
    /\ Listed("aq") \cap Listed("rq") = {}
    /\ \A s, t \in Carriers : s # t => node[s] # node[t]
    /\ \A t \in Threads : node[t] \in freed => pc[t] \in {"signal", "report"}
    /\ LET held == {node[t] : t \in Carriers}
           queued == Listed("aq") \cup Listed("rq")
       IN  /\ held \cap queued = {} /\ (held \cup queued) \cap freed = {}
           /\ held \cup queued \cup freed = 1 .. numconnects

(* The joiner never sleeps on cq beside a stopped thread unless the signal that
   will wake it is still to come (stop_thread against join_threads). *)
NoLostStop ==
  cqAsleep /\ cleanup # <<>> => \E t \in Threads : pc[t] = "stop_signal"

(* join_threads takes each stopped thread once, so it counts down by exactly the
   threads that stopped. *)
Stopped == {t \in Threads : pc[t] \in {"stop_signal", "dead"}}
Joins == Cardinality(Stopped) - Len(cleanup) - (IF joining = NULL THEN 0 ELSE 1)
StoppedOnce ==
  ctl \in {"join", "joining"} => numthreads = Cardinality(Threads) - 1 - Joins

(* Every connection is responded to and freed while nobody stops the server: the
   signals that acceptors and processors send after unlocking do not get lost. *)
LoadDrains == \A n \in Nodes : numconnects >= n ~> (n \in freed \/ ctl # "run")

(* control.c:21-24: deactivating aq ends every acceptor and processor, the
   sleeping ones included. *)
CrewStops ==
  (ctl # "run") ~> (crashed \/ \A t \in Acceptors \cup Processors : pc[t] = "dead")

(* workcrew-log8.c:475: with every acceptor, processor and responder stopped,
   join_threads comes to its end. *)
JoinReturns ==
  (\A t \in Threads : pc[t] = "dead") ~> (crashed \/ ctl \notin {"join", "joining"} \/ numthreads + 2 = 0)
=============================================================================

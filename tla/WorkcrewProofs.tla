----------------------------- MODULE WorkcrewProofs -----------------------------
(***************************************************************************)
(* Proofs about Workcrew for any numbers of acceptors, processors and      *)
(* responders and any load: the mutexes keep the threads apart as long as  *)
(* nobody unlocks one without holding it; until then each connection is in *)
(* one place; and the hand-over of stopped threads to join_threads neither *)
(* sleeps through one nor counts one twice.                                *)
(***************************************************************************)
EXTENDS Workcrew, FiniteSetTheorems, TLAPS

Places == {"lock", "top", "test", "wait", "asleep", "get", "unlink", "unlock", "lock_out",
           "respond", "alloc", "link", "publish", "unlock_out", "signal", "report", "exit",
           "exit_rq", "stop", "stop_signal", "dead"}
CtlPlaces == {"run", "wake_aq", "deact_rq", "wake_rq", "deact_cq", "join", "joining"}

(* The places of the threads and what the mutexes and stop_server keep. *)
Types ==
  /\ owner \in [Q -> Threads \cup {NULL}]
  /\ pc \in [Threads -> Places]
  /\ cleanup \in Seq(Threads)
  /\ ctl \in CtlPlaces /\ joining \in Threads \cup {NULL}
  /\ numthreads \in Int

(* Each kind of thread stays inside its own function. *)
Roles ==
  /\ \A t \in Acceptors :
       pc[t] \notin {"test", "wait", "asleep", "get", "unlink", "unlock", "lock_out",
                    "respond", "exit_rq"}
  /\ \A t \in Processors : pc[t] \notin {"alloc", "respond"}
  /\ \A t \in Responders :
       pc[t] \notin {"lock_out", "alloc", "link", "publish", "unlock_out", "signal", "report",
                    "exit_rq"}

(* Whoever is between a lock and an unlock of a mutex holds it. *)
Owned ==
  /\ failed \/ \A t \in InSection("aq") : owner["aq"] = t
  /\ Intruded \/ \A t \in InSection("rq") : owner["rq"] = t

(* join_threads has counted the stopped threads that are not on cq any more. *)
Counted ==
  /\ joining # NULL <=> ctl = "joining"
  /\ IF ctl \in {"join", "joining"}
       THEN numthreads = Cardinality(Threads) - 1 - Joins /\ Joins \in Nat
       ELSE numthreads = Cardinality(Threads) /\ Joins = 0

-----------------------------------------------------------------------------
(***************************************************************************)
(* The mutexes.                                                            *)
(***************************************************************************)
(* pthread_mutex_lock, and the end of pthread_cond_wait. *)
LEMMA LockStep ==
  ASSUME Types, Roles, Owned, NEW t \in Threads, Lock(t) \/ Relock(t) \/ LockOut(t)
  PROVE  Types' /\ Roles' /\ Owned'
BY CrewAssumption DEF Lock, Relock, LockOut, At, Goto, Acquire, Types, Roles, Owned, InSection,
   Intruded, InQ, OutQ, Q, Threads, Places, ctlv

(* pthread_mutex_unlock, pthread_cond_wait, and the unlock after a failed malloc. *)
LEMMA UnlockStep ==
  ASSUME Types, Roles, Owned, NEW t \in Threads,
         UnlockIn(t) \/ UnlockOut(t) \/ CondWait(t) \/ Exit(t) \/ ExitRq(t) \/ AllocFails(t)
  PROVE  Types' /\ Roles' /\ Owned'
<1>1. CASE UnlockIn(t)
  BY <1>1, CrewAssumption DEF UnlockIn, At, Goto, Release, Types, Roles, Owned, InSection,
     Intruded, InQ, OutQ, Q, Threads, Places, ctlv
<1>2. CASE UnlockOut(t)
  BY <1>2, CrewAssumption DEF UnlockOut, At, Goto, Release, Types, Roles, Owned, InSection,
     Intruded, InQ, OutQ, Q, Threads, Places, ctlv
<1>3. CASE CondWait(t)
  BY <1>3, CrewAssumption DEF CondWait, At, Goto, Release, Types, Roles, Owned, InSection,
     Intruded, InQ, OutQ, Q, Threads, Places, ctlv
<1>4. CASE Exit(t)
  BY <1>4, CrewAssumption DEF Exit, At, Goto, Release, Types, Roles, Owned, InSection,
     Intruded, InQ, OutQ, Q, Threads, Places, ctlv
<1>5. CASE ExitRq(t)
  BY <1>5, CrewAssumption DEF ExitRq, At, Goto, Release, Types, Roles, Owned, InSection,
     Intruded, InQ, OutQ, Q, Threads, Places, ctlv
<1>6. CASE AllocFails(t)
  BY <1>6, CrewAssumption DEF AllocFails, At, Goto, Release, Types, Roles, Owned, InSection,
     Intruded, InQ, OutQ, Q, Threads, Places
<1> QED BY <1>1, <1>2, <1>3, <1>4, <1>5, <1>6

(* The steps that take and give up no mutex. *)
LEMMA QuietStep ==
  ASSUME Types, Roles, Owned, NEW t \in Threads,
         \/ Top(t) \/ Test(t) \/ Get(t) \/ Unlink(t) \/ Respond(t) \/ Alloc(t)
         \/ Link(t) \/ Publish(t) \/ SignalOut(t) \/ Report(t) \/ Stop(t) \/ StopSignal(t)
  PROVE  Types' /\ Roles' /\ Owned'
<1>1. CASE Top(t)
  BY <1>1, CrewAssumption DEF Top, At, Goto, Types, Roles, Owned, InSection,
     Intruded, InQ, OutQ, Q, Threads, Places, ctlv, queues
<1>2. CASE Test(t) \/ Get(t)
  BY <1>2, CrewAssumption DEF Test, Get, At, Goto, Crash, Types, Roles, Owned, InSection,
     Intruded, InQ, OutQ, Q, Threads, Places, ctlv, queues
<1>3. CASE Unlink(t) \/ Respond(t)
  BY <1>3, CrewAssumption DEF Unlink, Respond, At, Goto, Crash, Types, Roles, Owned, InSection,
     Intruded, InQ, OutQ, Q, Threads, Places, ctlv, queues
<1>4. CASE Alloc(t)
  BY <1>4, CrewAssumption DEF Alloc, At, Goto, Types, Roles, Owned, InSection,
     Intruded, InQ, OutQ, Q, Threads, Places, ctlv, queues
<1>7. CASE Link(t)
  BY <1>7, CrewAssumption DEF Link, At, Goto, Crash, Types, Roles, Owned, InSection,
     Intruded, InQ, OutQ, Q, Threads, Places, ctlv, queues
<1>5. CASE Publish(t) \/ SignalOut(t) \/ Report(t)
  BY <1>5, CrewAssumption DEF Publish, SignalOut, Report, At, Goto, Types, Roles, Owned, InSection,
     Intruded, InQ, OutQ, Q, Threads, Places, ctlv, queues
<1>6. CASE Stop(t) \/ StopSignal(t)
  <2>1. /\ owner' = owner /\ failed' = failed
        /\ pc[t] \in {"stop", "stop_signal"}
        /\ pc' = [pc EXCEPT ![t] = IF pc[t] = "stop" THEN "stop_signal" ELSE "dead"]
        /\ cleanup' \in Seq(Threads)
        /\ UNCHANGED <<ctl, joining, numthreads>>
    <3>1. CASE Stop(t)
      BY <3>1 DEF Stop, At, Goto, Types, queues
    <3>2. CASE StopSignal(t)
      BY <3>2 DEF StopSignal, At, Goto, Types, queues
    <3> QED BY <1>6, <3>1, <3>2
  <2> QED BY <2>1 DEF Types, Roles, Owned, InSection, Intruded, InQ, OutQ, Q, Threads, Places
<1> QED BY <1>1, <1>2, <1>3, <1>4, <1>5, <1>6, <1>7

(* stop_server, join_threads and unasked wakeups leave the mutexes alone. *)
LEMMA ServerStep ==
  ASSUME Types, Roles, Owned, StopServer \/ JoinThreads \/ SpuriousWakeup
  PROVE  Types' /\ Roles' /\ Owned'
<1>1. /\ UNCHANGED <<owner, pc, failed>>
      /\ cleanup' \in Seq(Threads)
      /\ ctl' \in CtlPlaces /\ joining' \in Threads \cup {NULL} /\ numthreads' \in Int
  <2>1. CASE StopServer
    BY <2>1 DEF StopServer, DeactivateAq, WakeAq, DeactivateRq, WakeRq, Deactivate, WakeAll,
       Types, CtlPlaces
  <2>2. CASE JoinThreads
    <3>1. CASE BeginJoin \/ JoinSleep \/ Joined
      <4>1. /\ UNCHANGED <<owner, pc, failed, cleanup>>
            /\ ctl' = ctl \/ ctl' = "join"
            /\ joining' = joining \/ joining' = NULL
            /\ numthreads' = numthreads \/ numthreads' = numthreads - 1
        BY <3>1 DEF BeginJoin, JoinSleep, Joined, queues
      <4> QED BY <4>1 DEF Types, CtlPlaces
    <3>2. CASE JoinTake
      <4>1. /\ UNCHANGED <<owner, pc, failed, numthreads>>
            /\ cleanup # <<>> /\ joining' = Head(cleanup) /\ cleanup' = Tail(cleanup)
            /\ ctl' = "joining"
        BY <3>2 DEF JoinTake, queues
      <4>2. Head(cleanup) \in Threads /\ Tail(cleanup) \in Seq(Threads)
        BY <4>1 DEF Types
      <4> QED BY <4>1, <4>2 DEF Types, CtlPlaces
    <3> QED BY <2>2, <3>1, <3>2 DEF JoinThreads
  <2>3. CASE SpuriousWakeup
    BY <2>3 DEF SpuriousWakeup, Types
  <2> QED BY <2>1, <2>2, <2>3
<1> QED BY <1>1 DEF Types, Roles, Owned, InSection, Intruded

(* At most one thread is in a section whose threads all hold its mutex. *)
LEMMA OwnedExcludes ==
  ASSUME Owned
  PROVE  QueuesExclusive
<1>1. ASSUME NEW q \in Q, \A t \in InSection(q) : owner[q] = t
      PROVE  Cardinality(InSection(q)) <= 1
  <2>1. InSection(q) \subseteq {owner[q]}
    BY <1>1
  <2>2. IsFiniteSet({owner[q]}) /\ Cardinality({owner[q]}) = 1
    BY FS_Singleton
  <2>3. Cardinality(InSection(q)) <= Cardinality({owner[q]})
    BY <2>1, <2>2, FS_Subset
  <2> QED BY <2>2, <2>3
<1> QED BY <1>1 DEF Owned, QueuesExclusive, Q

-----------------------------------------------------------------------------
(***************************************************************************)
(* The stopped threads.                                                    *)
(***************************************************************************)
LEMMA StoppedCount ==
  ASSUME Types
  PROVE  /\ Cardinality(Stopped) \in Nat /\ Cardinality(Threads) \in Nat
         /\ \A t \in Threads \ Stopped :
              Cardinality(Stopped \cup {t}) = Cardinality(Stopped) + 1
         /\ Len(cleanup) \in Nat
<1>1. IsFiniteSet(Threads) /\ Stopped \subseteq Threads
  BY CrewAssumption DEF Stopped
<1>2. IsFiniteSet(Stopped)
  BY <1>1, FS_Subset
<1>3. ASSUME NEW t \in Threads \ Stopped
      PROVE  Cardinality(Stopped \cup {t}) = Cardinality(Stopped) + 1
  BY <1>2, <1>3, FS_AddElement
<1> QED BY <1>1, <1>2, <1>3, FS_CardinalityType DEF Types

(* The steps of a thread that is not stopping do not concern join_threads. *)
LEMMA BusyThread ==
  ASSUME Types, NEW t \in Threads, ThreadStep(t), ~Stop(t), ~StopSignal(t)
  PROVE  /\ UNCHANGED <<cleanup, cqAsleep, ctl, joining, numthreads>>
         /\ \A u \in Threads : \A p \in {"stop_signal", "dead"} : pc'[u] = p <=> pc[u] = p
<1>1. CASE Lock(t) \/ Top(t) \/ Alloc(t) \/ AllocFails(t)
  BY <1>1 DEF Lock, Top, Alloc, AllocFails, At, Goto, Types, ctlv
<1>2. CASE Dequeue(t) \/ Respond(t)
  BY <1>2 DEF Dequeue, Test, CondWait, Relock, Get, Unlink, UnlockIn, Respond, At, Goto, Crash,
     Types, ctlv
<1>3. CASE Enqueue(t)
  BY <1>3 DEF Enqueue, LockOut, Link, Publish, UnlockOut, SignalOut, Report, At, Goto, Crash,
     Types, ctlv
<1>4. CASE Exit(t) \/ ExitRq(t)
  BY <1>4 DEF Exit, ExitRq, At, Goto, Types, ctlv
<1> QED BY <1>1, <1>2, <1>3, <1>4 DEF ThreadStep, Produce, Terminate

LEMMA SameCount ==
  ASSUME Counted, UNCHANGED <<cleanup, ctl, joining, numthreads>>, Stopped' = Stopped
  PROVE  Counted'
BY DEF Counted, Joins

LEMMA ThreadCounts ==
  ASSUME Types, Types', NoLostStop, Counted, NEW t \in Threads, ThreadStep(t)
  PROVE  NoLostStop' /\ Counted'
<1>1. CASE ~Stop(t) /\ ~StopSignal(t)
  <2>1. /\ UNCHANGED <<cleanup, cqAsleep, ctl, joining, numthreads>>
        /\ \A u \in Threads : \A p \in {"stop_signal", "dead"} : pc'[u] = p <=> pc[u] = p
    BY <1>1, BusyThread
  <2>2. Stopped' = Stopped
    BY <2>1 DEF Stopped
  <2>3. NoLostStop'
    BY <2>1 DEF NoLostStop
  <2> QED BY <2>1, <2>2, <2>3, SameCount
<1>2. CASE Stop(t)
  <2>1. /\ pc[t] = "stop" /\ pc' = [pc EXCEPT ![t] = "stop_signal"]
        /\ cleanup' = <<t>> \o cleanup /\ UNCHANGED <<ctl, joining, numthreads>>
    BY <1>2 DEF Stop, At, Goto
  <2>2. Stopped' = Stopped \cup {t} /\ t \notin Stopped /\ pc'[t] = "stop_signal"
    BY <2>1 DEF Stopped, Types
  <2>3. Len(cleanup') = Len(cleanup) + 1
    BY <2>1 DEF Types
  <2>4. Cardinality(Stopped') = Cardinality(Stopped) + 1
    BY <2>2, StoppedCount
  <2>5. Joins' = Joins
    BY <2>1, <2>3, <2>4, StoppedCount DEF Joins
  <2> QED BY <2>1, <2>2, <2>5 DEF Counted, NoLostStop
<1>3. CASE StopSignal(t)
  <2>1. /\ pc[t] = "stop_signal" /\ pc' = [pc EXCEPT ![t] = "dead"] /\ cqAsleep' = FALSE
        /\ UNCHANGED <<cleanup, ctl, joining, numthreads>>
    BY <1>3 DEF StopSignal, At, Goto
  <2>2. Stopped' = Stopped
    BY <2>1 DEF Stopped, Types
  <2> QED BY <2>1, <2>2, SameCount DEF NoLostStop
<1> QED BY <1>1, <1>2, <1>3

LEMMA ServerCounts ==
  ASSUME Types, Types', NoLostStop, Counted, StopServer \/ JoinThreads \/ SpuriousWakeup
  PROVE  NoLostStop' /\ Counted'
<1>0. pc' = pc /\ Stopped' = Stopped
  BY DEF StopServer, DeactivateAq, WakeAq, DeactivateRq, WakeRq, Deactivate, WakeAll,
     JoinThreads, BeginJoin, JoinSleep, JoinTake, Joined, SpuriousWakeup, Stopped
<1>1. CASE StopServer
  <2>1. /\ UNCHANGED <<cleanup, cqAsleep, joining, numthreads>>
        /\ ctl \notin {"join", "joining"} /\ ctl' \notin {"join", "joining"}
    BY <1>1 DEF StopServer, DeactivateAq, WakeAq, DeactivateRq, WakeRq, Deactivate, WakeAll, CtlAt
  <2>2. Joins' = Joins
    BY <1>0, <2>1 DEF Joins
  <2> QED BY <1>0, <2>1, <2>2 DEF Counted, NoLostStop
<1>2. CASE BeginJoin
  <2>1. /\ ctl = "deact_cq" /\ ctl' = "join" /\ numthreads' = numthreads - 1
        /\ UNCHANGED <<cleanup, cqAsleep, joining>>
    BY <1>2 DEF BeginJoin, CtlAt
  <2>2. Joins' = Joins /\ Joins = 0
    BY <1>0, <2>1 DEF Joins, Counted
  <2> QED BY <1>0, <2>1, <2>2, StoppedCount DEF Counted, NoLostStop
<1>3. CASE JoinSleep
  BY <1>0, <1>3, SameCount DEF JoinSleep, NoLostStop
<1>4. CASE JoinTake
  <2>1. /\ ctl = "join" /\ ctl' = "joining" /\ cleanup # <<>> /\ ~cqAsleep /\ ~cqAsleep'
        /\ cleanup' = Tail(cleanup) /\ joining' = Head(cleanup) /\ numthreads' = numthreads
    BY <1>4 DEF JoinTake, CtlAt
  <2>2. joining = NULL /\ joining' # NULL /\ Len(cleanup') = Len(cleanup) - 1
    BY <2>1, CrewAssumption DEF Counted, Types
  <2>3. Joins' = Joins
    BY <1>0, <2>1, <2>2, StoppedCount DEF Joins
  <2> QED BY <2>1, <2>2, <2>3 DEF Counted, NoLostStop
<1>5. CASE Joined
  <2>1. /\ ctl = "joining" /\ ctl' = "join" /\ joining' = NULL /\ numthreads' = numthreads - 1
        /\ UNCHANGED <<cleanup, cqAsleep>>
    BY <1>5 DEF Joined, CtlAt
  <2>2. joining # NULL
    BY <2>1 DEF Counted
  <2>3. Joins' = Joins + 1 /\ Joins \in Int
    BY <1>0, <2>1, <2>2, StoppedCount DEF Joins
  <2> QED BY <1>0, <2>1, <2>3, StoppedCount DEF Counted, NoLostStop
<1>6. CASE SpuriousWakeup
  <2>1. UNCHANGED <<cleanup, ctl, joining, numthreads>> /\ (cqAsleep' => cqAsleep)
    BY <1>6 DEF SpuriousWakeup
  <2> QED BY <1>0, <2>1, SameCount DEF NoLostStop
<1> QED BY <1>1, <1>2, <1>3, <1>4, <1>5, <1>6 DEF JoinThreads

-----------------------------------------------------------------------------
(***************************************************************************)
(* The memory of the crew.                                                 *)
(***************************************************************************)
(* A thread has a node in its hands between these places, ... *)
CarrierPlaces == {"unlock", "lock_out", "respond", "link", "publish"}
(* ... and points at one while it takes it off its queue and until it has made
   its message. *)
HandPlaces == CarrierPlaces \cup {"unlink", "unlock_out", "signal", "report"}

Issued == 1 .. numconnects
Heap ==
  /\ numconnects \in 0 .. MaxJobs
  /\ freed \subseteq Issued
  /\ head \in [Q -> Issued \cup {NULL}]
  /\ next \in [Nodes -> Issued \cup {NULL}]
  /\ node \in [Threads -> Issued \cup {NULL}]
  /\ \A t \in Threads : node[t] # NULL <=> pc[t] \in HandPlaces

LEMMA IssuedNodes == Heap => Issued \subseteq Nodes /\ NULL \notin Nodes
  BY CrewAssumption DEF Heap, Issued, Nodes

Sleepers ==
  /\ active \in [Q -> BOOLEAN]
  /\ asleep \in [Q -> SUBSET Threads]
  /\ \A q \in Q : \A t \in asleep[q] : pc[t] = "asleep" /\ InQ(t) = q

(* The steps that work on nodes. *)
NodeStep(t) == Get(t) \/ Unlink(t) \/ Respond(t) \/ Alloc(t) \/ Link(t) \/ Publish(t)
               \/ Report(t)

(* The others leave the heap alone, and stay on one side of HandPlaces. *)
LEMMA NoNodeStep ==
  ASSUME Types, Roles, NEW t \in Threads, ThreadStep(t), ~NodeStep(t)
  PROVE  /\ UNCHANGED <<head, next, freed, numconnects, node, crashed>> /\ ~crashed
         /\ \A u \in Threads :
              /\ u # t => pc'[u] = pc[u]
              /\ pc'[u] \in HandPlaces <=> pc[u] \in HandPlaces
              /\ pc'[u] = "unlink" <=> pc[u] = "unlink"
              /\ pc'[u] \in CarrierPlaces <=> pc[u] \in CarrierPlaces
              /\ pc'[u] = "publish" <=> pc[u] = "publish"
              /\ pc'[u] = "unlock_out" => pc[u] = "unlock_out"
              /\ pc[u] = "get" => pc'[u] = "get"
              /\ pc[u] # "get" /\ pc'[u] = "get" => u = t /\ head[InQ(t)] # NULL
<1>1. CASE Lock(t)
  BY <1>1 DEF Lock, At, Goto, Types, HandPlaces, CarrierPlaces
<1>2. CASE Top(t)
  BY <1>2 DEF Top, At, Goto, Types, HandPlaces, CarrierPlaces, queues
<1>3. CASE Test(t)
  BY <1>3 DEF Test, At, Goto, Types, HandPlaces, CarrierPlaces, queues
<1>4. CASE CondWait(t)
  BY <1>4 DEF CondWait, At, Goto, Types, HandPlaces, CarrierPlaces
<1>5. CASE Relock(t)
  BY <1>5 DEF Relock, At, Goto, Types, HandPlaces, CarrierPlaces
<1>6. CASE UnlockIn(t)
  BY <1>6 DEF UnlockIn, At, Goto, Types, HandPlaces, CarrierPlaces
<1>7. CASE LockOut(t)
  BY <1>7 DEF LockOut, At, Goto, Types, HandPlaces, CarrierPlaces
<1>8. CASE UnlockOut(t) \/ SignalOut(t)
  BY <1>8 DEF UnlockOut, SignalOut, At, Goto, Types, HandPlaces, CarrierPlaces
<1>9. CASE Exit(t) \/ ExitRq(t)
  BY <1>9 DEF Exit, ExitRq, At, Goto, Types, HandPlaces, CarrierPlaces
<1>10. CASE Stop(t) \/ StopSignal(t)
  BY <1>10 DEF Stop, StopSignal, At, Goto, Types, HandPlaces, CarrierPlaces, queues
<1>11. CASE AllocFails(t)
  BY <1>11 DEF AllocFails, At, Goto, Types, HandPlaces, CarrierPlaces
<1> QED
  BY <1>1, <1>2, <1>3, <1>4, <1>5, <1>6, <1>7, <1>8, <1>9, <1>10, <1>11
     DEF ThreadStep, NodeStep, Produce, Dequeue, Enqueue, Terminate

LEMMA HeapKept ==
  ASSUME Types, Roles, Heap, NEW t \in Threads, ThreadStep(t)
  PROVE  Heap'
<1>0. Issued \subseteq Nodes /\ NULL \notin Nodes
  BY IssuedNodes
<1>1. CASE ~NodeStep(t)
  <2>1. UNCHANGED <<head, next, freed, numconnects, node>>
    BY <1>1, NoNodeStep
  <2>2. Issued' = Issued
    BY <2>1 DEF Issued
  <2>3. \A u \in Threads : pc'[u] \in HandPlaces <=> pc[u] \in HandPlaces
    BY <1>1, NoNodeStep
  <2> QED BY <2>1, <2>2, <2>3 DEF Heap
<1>2. CASE Get(t) \/ Unlink(t) \/ Respond(t) \/ Link(t) \/ Publish(t)
            \/ Report(t)
  <2>1. Issued' = Issued /\ numconnects' = numconnects
    BY <1>2 DEF Get, Unlink, Respond, Link, Publish, Report, Crash, queues, Issued
  <2>2. CASE Get(t)
    BY <1>0, <2>1, <2>2 DEF Get, At, Goto, Crash, Types, Heap, HandPlaces, CarrierPlaces, queues, InQ, Q
  <2>3. CASE Unlink(t)
    BY <1>0, <2>1, <2>3 DEF Unlink, At, Goto, Crash, Types, Heap, HandPlaces, CarrierPlaces, queues, InQ, Q
  <2>4. CASE Respond(t)
    BY <1>0, <2>1, <2>4 DEF Respond, At, Goto, Crash, Types, Heap, HandPlaces, CarrierPlaces, queues
  <2>5. CASE Link(t)
    BY <1>0, <2>1, <2>5 DEF Link, At, Goto, Crash, Types, Heap, HandPlaces, CarrierPlaces, queues, OutQ, Q
  <2>6. CASE Publish(t)
    BY <1>0, <2>1, <2>6 DEF Publish, At, Goto, Types, Heap, HandPlaces, CarrierPlaces, OutQ, Q
  <2>7. CASE Report(t)
    BY <1>0, <2>1, <2>7 DEF Report, At, Goto, Types, Heap, HandPlaces, CarrierPlaces, queues
  <2> QED BY <1>2, <2>2, <2>3, <2>4, <2>5, <2>6, <2>7
<1>3. CASE Alloc(t)
  <2>1. /\ Issued \subseteq Issued' /\ numconnects' \in 0 .. MaxJobs
        /\ numconnects' \in Issued' /\ numconnects' \in Nodes
    <3>1. numconnects \in Nat /\ numconnects < MaxJobs /\ numconnects' = numconnects + 1
      BY <1>3, CrewAssumption DEF Alloc, Heap
    <3> QED BY <3>1, CrewAssumption DEF Issued, Nodes
  <2>2. /\ node' = [node EXCEPT ![t] = numconnects']
        /\ pc' = [pc EXCEPT ![t] = "link"] /\ pc[t] = "alloc" /\ UNCHANGED <<head, next, freed>>
    BY <1>3 DEF Alloc, At, Goto, Heap, queues
  <2>3. node' \in [Threads -> Issued' \cup {NULL}]
    BY <2>1, <2>2 DEF Heap
  <2>4. \A u \in Threads : node'[u] # NULL <=> pc'[u] \in HandPlaces
    BY <1>0, <2>1, <2>2 DEF Types, Heap, HandPlaces, CarrierPlaces
  <2>5. head' \in [Q -> Issued' \cup {NULL}] /\ next' \in [Nodes -> Issued' \cup {NULL}]
    BY <2>1, <2>2 DEF Heap
  <2> QED
    BY <2>1, <2>2, <2>3, <2>4, <2>5 DEF Heap
<1> QED
  BY <1>1, <1>2, <1>3 DEF NodeStep

(* Only pthread_cond_wait puts a thread to sleep, and only a woken one leaves. *)
LEMMA SleepersKept ==
  ASSUME Types, Sleepers, NEW t \in Threads, ThreadStep(t)
  PROVE  Sleepers'
<1> SUFFICES /\ asleep' \in [Q -> SUBSET Threads] /\ active' = active
             /\ \A q \in Q : \A u \in asleep'[q] : pc'[u] = "asleep" /\ InQ(u) = q
  BY DEF Sleepers, InQ
<1>1. CASE Lock(t) \/ Top(t) \/ Test(t)
  BY <1>1 DEF Lock, Top, Test, At, Goto, Types, Sleepers, queues
<1>2. CASE CondWait(t)
  BY <1>2 DEF CondWait, At, Goto, Types, Sleepers, InQ, Q
<1>3. CASE Relock(t) \/ Get(t) \/ Unlink(t)
  BY <1>3 DEF Relock, Get, Unlink, At, Goto, Crash, Types, Sleepers, queues, InQ, Q
<1>4. CASE UnlockIn(t) \/ Respond(t) \/ LockOut(t)
  BY <1>4 DEF UnlockIn, Respond, LockOut, At, Goto, Crash, Types, Sleepers, queues
<1>5. CASE Alloc(t) \/ AllocFails(t)
  BY <1>5 DEF Alloc, AllocFails, At, Goto, Types, Sleepers, queues
<1>6. CASE Link(t) \/ Publish(t) \/ UnlockOut(t)
  BY <1>6 DEF Link, Publish, UnlockOut, At, Goto, Crash, Types, Sleepers, queues
<1>7. CASE SignalOut(t) \/ Report(t)
  BY <1>7 DEF SignalOut, Report, Signal, At, Goto, Types, Sleepers, queues, OutQ, Q
<1>8. CASE Exit(t) \/ ExitRq(t)
  BY <1>8 DEF Exit, ExitRq, At, Goto, Types, Sleepers
<1>9. CASE Stop(t) \/ StopSignal(t)
  BY <1>9 DEF Stop, StopSignal, At, Goto, Types, Sleepers, queues
<1> QED
  BY <1>1, <1>2, <1>3, <1>4, <1>5, <1>6, <1>7, <1>8, <1>9
     DEF ThreadStep, Produce, Dequeue, Enqueue, Terminate

LEMMA ServerKeeps ==
  ASSUME Types, Heap, Sleepers, StopServer \/ JoinThreads \/ SpuriousWakeup
  PROVE  /\ Heap' /\ Sleepers'
         /\ UNCHANGED <<owner, head, next, freed, numconnects, pc, node, crashed, failed>>
         /\ ~crashed
<1>1. /\ UNCHANGED <<owner, head, next, freed, numconnects, pc, node, crashed, failed>>
      /\ ~crashed
  BY DEF StopServer, DeactivateAq, WakeAq, DeactivateRq, WakeRq, Deactivate, WakeAll,
     JoinThreads, BeginJoin, JoinSleep, JoinTake, Joined, SpuriousWakeup, CtlAt, queues
<1>2. Heap'
  BY <1>1 DEF Heap, Issued
<1>3. Sleepers'
  <2> SUFFICES
        /\ active' \in [Q -> BOOLEAN] /\ asleep' \in [Q -> SUBSET Threads]
        /\ \A q \in Q : asleep'[q] \subseteq asleep[q]
    BY <1>1 DEF Sleepers, InQ
  <2>1. CASE StopServer
    BY <2>1 DEF StopServer, DeactivateAq, WakeAq, DeactivateRq, WakeRq, Deactivate, WakeAll,
       Broadcast, Sleepers, Q
  <2>2. CASE JoinThreads
    BY <2>2 DEF JoinThreads, BeginJoin, JoinSleep, JoinTake, Joined, Sleepers, queues
  <2>3. CASE SpuriousWakeup
    BY <2>3 DEF SpuriousWakeup, Sleepers
  <2> QED BY <2>1, <2>2, <2>3
<1> QED BY <1>1, <1>2, <1>3

-----------------------------------------------------------------------------
(***************************************************************************)
(* Lists of nodes.                                                         *)
(***************************************************************************)
(* A list is closed under its links, and in every set that is. *)
LEMMA ReachedLeast ==
  ASSUME NEW first \in Nodes \cup {NULL}, NEW link \in [Nodes -> Nodes \cup {NULL}]
  PROVE  /\ Reached(first, link) \subseteq Nodes
         /\ LinksClosed(first, link, Reached(first, link))
         /\ \A S \in SUBSET Nodes :
              LinksClosed(first, link, S) => Reached(first, link) \subseteq S
<1>0. NULL \notin Nodes
  BY CrewAssumption
<1>1. first \in Reached(first, link) \cup {NULL}
  BY <1>0 DEF Reached, LinksClosed
<1>2. ASSUME NEW n \in Reached(first, link)
      PROVE  link[n] \in Reached(first, link) \cup {NULL}
  BY <1>0, <1>2 DEF Reached, LinksClosed
<1> QED BY <1>1, <1>2 DEF Reached, LinksClosed

(* A link outside the list does not change it. *)
LEMMA ReachedFrame ==
  ASSUME NEW first \in Nodes \cup {NULL},
         NEW link \in [Nodes -> Nodes \cup {NULL}], NEW new \in [Nodes -> Nodes \cup {NULL}],
         \A n \in Reached(first, link) : new[n] = link[n]
  PROVE  Reached(first, new) = Reached(first, link)
<1> DEFINE R == Reached(first, link)  T == Reached(first, new)
<1>1. /\ R \subseteq Nodes /\ LinksClosed(first, link, R)
      /\ \A S \in SUBSET Nodes : LinksClosed(first, link, S) => R \subseteq S
  BY ReachedLeast
<1>2. /\ T \subseteq Nodes /\ LinksClosed(first, new, T)
      /\ \A S \in SUBSET Nodes : LinksClosed(first, new, S) => T \subseteq S
  BY ReachedLeast
<1> HIDE DEF R, T
<1>3. LinksClosed(first, new, R)
  BY <1>1 DEF LinksClosed, R
<1>4. LinksClosed(first, link, R \cap T)
  BY <1>1, <1>2, CrewAssumption DEF LinksClosed, R
<1>5. T \subseteq R /\ R \subseteq R \cap T
  BY <1>1, <1>2, <1>3, <1>4
<1> QED BY <1>5 DEF R, T

(* queue_put: a node in front whose link is the old first node. *)
LEMMA ReachedPush ==
  ASSUME NEW link \in [Nodes -> Nodes \cup {NULL}], NEW n \in Nodes
  PROVE  Reached(n, link) = {n} \cup Reached(link[n], link)
<1> DEFINE R == Reached(link[n], link)  T == Reached(n, link)
<1>0. NULL \notin Nodes /\ link[n] \in Nodes \cup {NULL}
  BY CrewAssumption
<1>1. /\ R \subseteq Nodes /\ LinksClosed(link[n], link, R)
      /\ \A S \in SUBSET Nodes : LinksClosed(link[n], link, S) => R \subseteq S
  BY <1>0, ReachedLeast
<1>2. /\ T \subseteq Nodes /\ LinksClosed(n, link, T)
      /\ \A S \in SUBSET Nodes : LinksClosed(n, link, S) => T \subseteq S
  BY ReachedLeast
<1> HIDE DEF R, T
<1>3. LinksClosed(n, link, {n} \cup R)
  BY <1>1 DEF LinksClosed
<1>4. n \in T /\ LinksClosed(link[n], link, T)
  BY <1>0, <1>2 DEF LinksClosed
<1>5. T \subseteq {n} \cup R
  BY <1>1, <1>2, <1>3
<1>6. R \subseteq T
  BY <1>1, <1>2, <1>4
<1> QED BY <1>4, <1>5, <1>6 DEF R, T

(* queue_get: without a cycle the first node is not among those behind it. *)
LEMMA ReachedPop ==
  ASSUME NEW link \in [Nodes -> Nodes \cup {NULL}], NEW n \in Nodes, NEW rank \in [Nodes -> Nat],
         \A m \in Reached(n, link) : link[m] # NULL => rank[link[m]] < rank[m]
  PROVE  Reached(link[n], link) = Reached(n, link) \ {n}
<1> DEFINE R == Reached(link[n], link)  T == Reached(n, link)
           B == {m \in T : rank[m] < rank[n]}
<1>0. NULL \notin Nodes /\ link[n] \in Nodes \cup {NULL}
  BY CrewAssumption
<1>1. T = {n} \cup R
  BY ReachedPush
<1>2. /\ T \subseteq Nodes /\ LinksClosed(n, link, T)
      /\ R \subseteq Nodes /\ LinksClosed(link[n], link, R)
      /\ \A S \in SUBSET Nodes : LinksClosed(link[n], link, S) => R \subseteq S
  BY <1>0, ReachedLeast
<1>3. \A m \in T : link[m] # NULL => rank[link[m]] < rank[m]
  OBVIOUS
<1> HIDE DEF R, T
<1>4. LinksClosed(link[n], link, B)
  <2>1. n \in T
    BY <1>1
  <2>2. link[n] \in B \cup {NULL}
    BY <1>2, <1>3, <2>1 DEF LinksClosed
  <2>3. ASSUME NEW m \in B PROVE link[m] \in B \cup {NULL}
    <3>1. m \in T /\ m \in Nodes /\ rank[m] < rank[n]
      BY <1>2, <2>3
    <3>2. CASE link[m] # NULL
      <4>1. link[m] \in T /\ link[m] \in Nodes /\ rank[link[m]] < rank[m]
        BY <1>2, <1>3, <3>1, <3>2 DEF LinksClosed
      <4>2. rank[link[m]] \in Nat /\ rank[m] \in Nat /\ rank[n] \in Nat
        BY <3>1, <4>1
      <4> QED BY <3>1, <4>1, <4>2
    <3> QED BY <3>2
  <2> QED BY <2>2, <2>3 DEF LinksClosed
<1>5. n \notin B
  <2>1. rank[n] \in Nat
    OBVIOUS
  <2> QED BY <2>1
<1>6. R \subseteq B
  BY <1>2, <1>4
<1> QED BY <1>1, <1>5, <1>6 DEF R, T

-----------------------------------------------------------------------------
(***************************************************************************)
(* The connections.                                                        *)
(***************************************************************************)
(* Each node is in one place. *)
Apart ==
  /\ Listed("aq") \cap Listed("rq") = {}
  /\ \A s, t \in Carriers : s # t => node[s] # node[t]
  /\ \A q \in Q : \A t \in Carriers : node[t] \notin Listed(q)
  /\ \A q \in Q : Listed(q) \subseteq Issued \ freed
  /\ \A t \in Carriers : node[t] \notin freed
  /\ Issued \subseteq Listed("aq") \cup Listed("rq") \cup freed \cup {node[t] : t \in Carriers}

(* What a thread inside queue_get or queue_put relies on. *)
Halfway ==
  \A t \in Threads :
    /\ pc[t] = "get" => head[InQ(t)] # NULL
    /\ pc[t] = "unlink" => node[t] = head[InQ(t)]
    /\ pc[t] = "publish" => next[node[t]] = head[OutQ(t)]
    /\ pc[t] = "unlock_out" => node[t] = head[OutQ(t)]

(* The lists have no cycles. *)
Ranks(rank) ==
  \A q \in Q : \A n \in Listed(q) : next[n] # NULL => rank[next[n]] < rank[n]
Ranked == \E rank \in [Nodes -> Nat] : Ranks(rank)

Lists == ~crashed /\ Apart /\ Halfway /\ Ranked
Conserved == Intruded \/ failed \/ Lists

LEMMA ListedLeast ==
  ASSUME Heap, NEW q \in Q
  PROVE  /\ next \in [Nodes -> Nodes \cup {NULL}] /\ head[q] \in Nodes \cup {NULL}
         /\ Listed(q) \subseteq Nodes
         /\ LinksClosed(head[q], next, Listed(q))
         /\ NULL \notin Nodes
<1>1. next \in [Nodes -> Nodes \cup {NULL}] /\ head[q] \in Nodes \cup {NULL} /\ NULL \notin Nodes
  BY IssuedNodes DEF Heap
<1> QED BY <1>1, ReachedLeast DEF Listed

(* The mutex keeps everybody else out of the queue. *)
LEMMA Alone ==
  ASSUME Owned, ~Intruded, ~failed, NEW q \in Q, NEW t \in InSection(q), NEW u \in InSection(q)
  PROVE  u = t
BY DEF Owned, Q

(* Once a processor has left its loop, or a malloc has failed, that stays so. *)
LEMMA SinceForGood ==
  ASSUME Types, NEW t \in Threads, ThreadStep(t)
  PROVE  /\ Intruded => Intruded'
         /\ failed => failed'
<1>1. CASE Lock(t) \/ Top(t) \/ Produce(t)
  BY <1>1 DEF Lock, Top, Produce, Alloc, AllocFails, At, Goto, Types, Intruded, ctlv, Threads
<1>2. CASE Dequeue(t) \/ Respond(t)
  BY <1>2 DEF Dequeue, Test, CondWait, Relock, Get, Unlink, UnlockIn, Respond, At, Goto, Crash,
     Types, Intruded, ctlv, Threads
<1>3. CASE Enqueue(t)
  BY <1>3 DEF Enqueue, LockOut, Link, Publish, UnlockOut, SignalOut, Report, At, Goto, Crash,
     Types, Intruded, ctlv, Threads
<1>4. CASE Terminate(t)
  BY <1>4 DEF Terminate, Exit, ExitRq, Stop, StopSignal, At, Goto, Types, Intruded, ctlv, Threads
<1> QED BY <1>1, <1>2, <1>3, <1>4 DEF ThreadStep

(* Steps that leave the heap alone. *)
LEMMA ListsUntouched ==
  ASSUME Lists, UNCHANGED <<head, next, freed, numconnects, node, crashed>>, pc' \in [Threads -> Places],
         \A u \in Threads :
              /\ pc'[u] = "unlink" <=> pc[u] = "unlink"
              /\ pc'[u] \in CarrierPlaces <=> pc[u] \in CarrierPlaces
              /\ pc'[u] = "publish" <=> pc[u] = "publish"
              /\ pc'[u] = "unlock_out" => pc[u] = "unlock_out"
              /\ pc[u] # "get" /\ pc'[u] = "get" => head[InQ(u)] # NULL
  PROVE  Lists'
<1>1. Listed("aq")' = Listed("aq") /\ Listed("rq")' = Listed("rq")
  BY DEF Listed
<1>2. Carriers' = Carriers
  BY DEF Carriers, CarrierPlaces
<1>3. Issued' = Issued
  BY DEF Issued
<1>4. Apart'
  BY <1>1, <1>2, <1>3 DEF Lists, Apart, Q
<1>5. Halfway'
  BY DEF Lists, Halfway, InQ, OutQ
<1>6. Ranked'
  BY <1>1 DEF Lists, Ranked, Ranks, Q
<1> QED BY <1>4, <1>5, <1>6 DEF Lists

(* queue_get reads the first node. *)
LEMMA GetKeepsLists ==
  ASSUME Types, Roles, Heap, Lists, NEW t \in Threads, Get(t)
  PROVE  Lists'
<1>1. pc[t] = "get" /\ head[InQ(t)] # NULL
  BY DEF Get, At, Lists, Halfway
<1>2. /\ node' = [node EXCEPT ![t] = head[InQ(t)]] /\ pc' = [pc EXCEPT ![t] = "unlink"]
      /\ UNCHANGED <<head, next, freed, numconnects, crashed>>
  BY <1>1 DEF Get, Goto, queues
<1>3. Listed("aq")' = Listed("aq") /\ Listed("rq")' = Listed("rq") /\ Issued' = Issued
  BY <1>2 DEF Listed, Issued
<1>4. t \notin Carriers /\ t \notin Carriers'
  BY <1>1, <1>2 DEF Carriers, CarrierPlaces, Heap, HandPlaces, Types
<1>5. Carriers' = Carriers /\ \A u \in Carriers : node'[u] = node[u]
  BY <1>2, <1>4 DEF Carriers, CarrierPlaces, Heap, Types
<1>6. Apart'
  <2>1. Apart /\ freed' = freed
    BY <1>2 DEF Lists
  <2>2. {node'[u] : u \in Carriers'} = {node[u] : u \in Carriers}
    BY <1>5
  <2> QED BY <1>3, <1>5, <2>1, <2>2 DEF Apart, Q
<1>7. Halfway'
  BY <1>1, <1>2 DEF Lists, Halfway, Heap, Types, InQ, OutQ
<1>8. Ranked'
  BY <1>2, <1>3 DEF Lists, Ranked, Ranks, Q
<1> QED BY <1>2, <1>6, <1>7, <1>8 DEF Lists

(* free takes a node that is in no list. *)
LEMMA RespondKeepsLists ==
  ASSUME Types, Roles, Heap, Lists, NEW t \in Threads, Respond(t)
  PROVE  Lists'
<1>1. pc[t] = "respond" /\ t \in Carriers /\ node[t] \notin freed
  BY DEF Respond, At, Lists, Apart, Carriers, Heap, HandPlaces, CarrierPlaces
<1>2. /\ node' = [node EXCEPT ![t] = NULL] /\ pc' = [pc EXCEPT ![t] = "lock"]
      /\ freed' = freed \cup {node[t]}
      /\ UNCHANGED <<head, next, numconnects, crashed>>
  BY <1>1 DEF Respond, Goto
<1>3. Listed("aq")' = Listed("aq") /\ Listed("rq")' = Listed("rq") /\ Issued' = Issued
  BY <1>2 DEF Listed, Issued
<1>4. Carriers' = Carriers \ {t} /\ \A u \in Carriers' : node'[u] = node[u]
  BY <1>1, <1>2 DEF Carriers, CarrierPlaces, Heap, Types
<1>6. Apart'
  <2>1. Apart
    BY DEF Lists
  <2>2. \A q \in Q : node[t] \notin Listed(q)
    BY <1>1, <2>1 DEF Apart
  <2>3. \A u \in Carriers' : node'[u] \notin freed'
    BY <1>1, <1>2, <1>4, <2>1 DEF Apart
  <2>4. \A q \in Q : Listed(q)' \subseteq Issued' \ freed'
    BY <1>2, <1>3, <2>1, <2>2 DEF Apart, Q
  <2>5. Issued' \subseteq Listed("aq")' \cup Listed("rq")' \cup freed' \cup {node'[u] : u \in Carriers'}
    BY <1>2, <1>3, <1>4, <2>1 DEF Apart
  <2>6. /\ \A u, v \in Carriers' : u # v => node'[u] # node'[v]
        /\ \A q \in Q : \A u \in Carriers' : node'[u] \notin Listed(q)'
    BY <1>3, <1>4, <2>1 DEF Apart, Q
  <2> QED BY <1>3, <2>1, <2>3, <2>4, <2>5, <2>6 DEF Apart
<1>7. Halfway'
  BY <1>1, <1>2 DEF Lists, Halfway, Heap, Types, InQ, OutQ
<1>8. Ranked'
  BY <1>2, <1>3 DEF Lists, Ranked, Ranks, Q
<1> QED BY <1>2, <1>6, <1>7, <1>8 DEF Lists

(* malloc gives a node that nobody had. *)
LEMMA AllocKeepsLists ==
  ASSUME Types, Roles, Heap, Lists, NEW t \in Threads, Alloc(t)
  PROVE  Lists'
<1> DEFINE n == numconnects'
<1>1. /\ node' = [node EXCEPT ![t] = n] /\ pc[t] = "alloc" /\ pc' = [pc EXCEPT ![t] = "link"]
      /\ UNCHANGED <<head, next, freed, crashed>>
  BY DEF Alloc, At, Goto, queues
<1>2. Issued' = Issued \cup {n} /\ n \notin Issued /\ n # NULL
  <2>1. numconnects \in Nat /\ numconnects < MaxJobs /\ n = numconnects + 1
    BY CrewAssumption DEF Alloc, Heap
  <2>2. n \in Nodes
    BY <2>1, CrewAssumption DEF Nodes
  <2> QED BY <2>1, <2>2, CrewAssumption DEF Issued
<1> HIDE DEF n
<1>3. Listed("aq")' = Listed("aq") /\ Listed("rq")' = Listed("rq")
  BY <1>1 DEF Listed
<1>4. /\ t \notin Carriers /\ Carriers' = Carriers \cup {t}
      /\ node'[t] = n /\ \A u \in Carriers : node'[u] = node[u]
  BY <1>1, <1>2 DEF Carriers, CarrierPlaces, Heap, HandPlaces, Types
<1>5. Apart'
  <2>1. Apart
    BY DEF Lists
  <2>2. \A u \in Carriers : node[u] \in Issued
    BY DEF Carriers, HandPlaces, CarrierPlaces, Heap
  <2>3. \A u \in Carriers : node'[u] # n
    BY <1>2, <1>4, <2>2
  <2>4. \A q \in Q : Listed(q)' \subseteq Issued' \ freed' /\ n \notin Listed(q)'
    BY <1>1, <1>2, <1>3, <2>1 DEF Apart, Q
  <2>5. n \notin freed'
    BY <1>1, <1>2 DEF Heap
  <2>6. Issued' \subseteq Listed("aq")' \cup Listed("rq")' \cup freed' \cup {node'[u] : u \in Carriers'}
    BY <1>1, <1>2, <1>3, <1>4, <2>1 DEF Apart
  <2>7. \A u, v \in Carriers' : u # v => node'[u] # node'[v]
    BY <1>4, <2>1, <2>3 DEF Apart
  <2>8. \A u \in Carriers' : node'[u] \notin freed' /\ \A q \in Q : node'[u] \notin Listed(q)'
    BY <1>1, <1>3, <1>4, <2>1, <2>4, <2>5 DEF Apart, Q
  <2> QED BY <1>3, <2>1, <2>4, <2>6, <2>7, <2>8 DEF Apart
<1>6. Halfway'
  BY <1>1 DEF Lists, Halfway, Types, InQ, OutQ
<1>7. Ranked'
  BY <1>1, <1>3 DEF Lists, Ranked, Ranks, Q
<1> QED BY <1>1, <1>5, <1>6, <1>7 DEF Lists

(* queue_put links a node that is in no list. *)
LEMMA LinkKeepsLists ==
  ASSUME Types, Roles, Heap, Lists, NEW t \in Threads, Link(t)
  PROVE  Lists'
<1>1. pc[t] = "link" /\ t \in Carriers /\ node[t] \in Nodes
  BY IssuedNodes DEF Link, At, Carriers, Heap, HandPlaces, CarrierPlaces
<1>2. node[t] \notin freed /\ \A q \in Q : node[t] \notin Listed(q)
  BY <1>1 DEF Lists, Apart
<1>3. /\ next' = [next EXCEPT ![node[t]] = head[OutQ(t)]] /\ pc' = [pc EXCEPT ![t] = "publish"]
      /\ UNCHANGED <<head, freed, numconnects, node, crashed>>
  BY <1>2 DEF Link, Goto
<1>4. ASSUME NEW q \in Q
      PROVE  Listed(q)' = Listed(q) /\ \A m \in Listed(q) : next'[m] = next[m]
  <2>1. \A m \in Listed(q) : next'[m] = next[m]
    <3>1. next \in [Nodes -> Nodes \cup {NULL}] /\ Listed(q) \subseteq Nodes /\ node[t] \notin Listed(q)
      BY <1>2, ListedLeast
    <3> QED BY <1>3, <3>1
  <2>2. next' \in [Nodes -> Nodes \cup {NULL}]
    <3>1. head[OutQ(t)] \in Nodes \cup {NULL} /\ next \in [Nodes -> Nodes \cup {NULL}]
      BY ListedLeast DEF OutQ, Q
    <3> QED BY <1>3, <3>1
  <2>3. Reached(head[q], next') = Reached(head[q], next)
    <3>1. head[q] \in Nodes \cup {NULL} /\ next \in [Nodes -> Nodes \cup {NULL}]
      BY ListedLeast
    <3>2. \A m \in Reached(head[q], next) : next'[m] = next[m]
      BY <2>1 DEF Listed
    <3> QED BY <2>2, <3>1, <3>2, ReachedFrame
  <2> QED BY <1>3, <2>1, <2>3 DEF Listed
<1>5. Carriers' = Carriers /\ Issued' = Issued
  BY <1>1, <1>3 DEF Carriers, Types, Issued
<1>6. Apart'
  BY <1>3, <1>4, <1>5 DEF Lists, Apart, Q
<1>7. Halfway'
  <2>1. pc'[t] = "publish" /\ next'[node[t]] = head[OutQ(t)]
    BY <1>1, <1>3 DEF Types, Heap
  <2>2. ASSUME NEW u \in Threads, u # t, pc[u] = "publish"
        PROVE  next'[node[u]] = next[node[u]]
    <3>1. u \in Carriers
      BY <2>2 DEF Carriers, CarrierPlaces, Heap, HandPlaces
    <3>2. node[u] # node[t]
      BY <1>1, <2>2, <3>1 DEF Lists, Apart
    <3> QED BY <1>3, <3>2, <3>1, IssuedNodes DEF Heap, Carriers
  <2>3. \A u \in Threads : u # t => pc'[u] = pc[u]
    BY <1>3
  <2> QED BY <1>3, <2>1, <2>2, <2>3 DEF Lists, Halfway, InQ, OutQ
<1>8. Ranked'
  <2>1. PICK rank \in [Nodes -> Nat] : Ranks(rank)
    BY DEF Lists, Ranked
  <2>2. Ranks(rank)'
    BY <1>4, <2>1 DEF Ranks
  <2> QED BY <2>2 DEF Ranked
<1> QED BY <1>3, <1>6, <1>7, <1>8 DEF Lists

(* queue_put puts its node in front of one list. *)
LEMMA PublishKeepsLists ==
  ASSUME Types, Roles, Heap, Owned, ~Intruded, ~failed, Lists, NEW t \in Threads, Publish(t)
  PROVE  Lists'
<1> DEFINE o == OutQ(t)  n == node[t]
<1>1. /\ pc[t] = "publish" /\ t \in Carriers /\ n \in Nodes /\ o \in Q /\ t \in InSection(o)
  BY IssuedNodes DEF Publish, At, Carriers, Heap, HandPlaces, CarrierPlaces, OutQ, Q, InSection, Roles
<1>2. /\ head' = [head EXCEPT ![o] = n] /\ pc' = [pc EXCEPT ![t] = "unlock_out"]
      /\ UNCHANGED <<next, freed, numconnects, node, crashed>>
  BY DEF Publish, Goto
<1>3. /\ next[n] = head[o] /\ n \notin freed /\ \A q \in Q : n \notin Listed(q)
  BY <1>1 DEF Lists, Apart, Halfway
<1> HIDE DEF o, n
<1>4. Listed(o)' = {n} \cup Listed(o)
  <2>1. head'[o] = n
    BY <1>1, <1>2 DEF Heap
  <2>2. Reached(n, next) = {n} \cup Reached(next[n], next)
    BY <1>1, ListedLeast, ReachedPush
  <2> QED BY <1>2, <1>3, <2>1, <2>2 DEF Listed
<1>5. ASSUME NEW q \in Q, q # o PROVE Listed(q)' = Listed(q)
  BY <1>2, <1>5 DEF Listed, Heap
<1>6. Carriers' = Carriers \ {t} /\ Issued' = Issued /\ \A u \in Carriers' : node'[u] = node[u]
  BY <1>1, <1>2 DEF Carriers, CarrierPlaces, Types, Heap, Issued
<1>7. Apart'
  <2>1. Apart /\ n \in Issued
    BY <1>1 DEF Lists, Heap, n, HandPlaces, CarrierPlaces, Carriers
  <2>2. \A u \in Carriers' : u \in Carriers /\ node[u] # n
    BY <1>1, <1>6, <2>1 DEF Apart, n
  <2>3. Listed("aq")' \cap Listed("rq")' = {}
    BY <1>1, <1>3, <1>4, <1>5, <2>1 DEF Apart, Q
  <2>4. \A q \in Q : \A u \in Carriers' : node'[u] \notin Listed(q)'
    BY <1>4, <1>5, <1>6, <2>1, <2>2 DEF Apart
  <2>5. \A q \in Q : Listed(q)' \subseteq Issued' \ freed'
    BY <1>2, <1>3, <1>4, <1>5, <1>6, <2>1 DEF Apart
  <2>6. Issued' \subseteq Listed("aq")' \cup Listed("rq")' \cup freed' \cup {node'[u] : u \in Carriers'}
    <3>1. Issued \subseteq Listed("aq") \cup Listed("rq") \cup freed \cup {n} \cup {node[u] : u \in Carriers'}
      BY <1>6, <2>1 DEF Apart, n
    <3>2. /\ Listed("aq") \subseteq Listed("aq")' /\ Listed("rq") \subseteq Listed("rq")'
          /\ n \in Listed("aq")' \cup Listed("rq")'
      BY <1>1, <1>4, <1>5 DEF Q
    <3> QED BY <1>2, <1>6, <3>1, <3>2
  <2>7. \A u, v \in Carriers' : u # v => node'[u] # node'[v]
    BY <1>6, <2>1 DEF Apart
  <2>8. \A u \in Carriers' : node'[u] \notin freed'
    BY <1>2, <1>6, <2>1 DEF Apart
  <2> QED BY <2>3, <2>4, <2>5, <2>6, <2>7, <2>8 DEF Apart
<1>8. Halfway'
  <2> SUFFICES ASSUME NEW u \in Threads, u # t,
                      pc[u] \in {"get", "unlink", "publish", "unlock_out"}
               PROVE  /\ pc[u] = "get" => head'[InQ(u)] # NULL
                      /\ pc[u] = "unlink" => node[u] = head'[InQ(u)]
                      /\ pc[u] = "publish" => next[node[u]] = head'[OutQ(u)]
                      /\ pc[u] = "unlock_out" => node[u] = head'[OutQ(u)]
    <3>1. pc'[t] = "unlock_out" /\ node'[t] = head'[OutQ(t)]
      BY <1>1, <1>2 DEF Types, Heap, n, o
    <3> QED BY <1>2, <3>1 DEF Halfway, InQ, OutQ
  <2>1. /\ pc[u] \in {"get", "unlink"} => u \in InSection(InQ(u)) /\ InQ(u) \in Q
        /\ pc[u] \in {"publish", "unlock_out"} => u \in InSection(OutQ(u)) /\ OutQ(u) \in Q
    BY DEF InSection, InQ, OutQ, Q, Roles
  <2>2. /\ pc[u] \in {"get", "unlink"} => InQ(u) # o
        /\ pc[u] \in {"publish", "unlock_out"} => OutQ(u) # o
    BY <1>1, <2>1, Alone
  <2>3. \A q \in Q : q # o => head'[q] = head[q]
    BY <1>2 DEF Heap
  <2>4. Halfway
    BY DEF Lists
  <2> QED BY <2>1, <2>2, <2>3, <2>4 DEF Halfway
<1>9. Ranked'
  <2>1. PICK rank \in [Nodes -> Nat] : Ranks(rank)
    BY DEF Lists, Ranked
  <2>2. next[n] # NULL => next[n] \in Listed(o) /\ next[n] \in Nodes
    BY <1>1, <1>3, ListedLeast DEF LinksClosed
  <2>3. PICK new \in [Nodes -> Nat] :
          /\ \A m \in Nodes : m # n => new[m] = rank[m]
          /\ next[n] # NULL => new[n] = rank[next[n]] + 1
    <3> DEFINE top == IF next[n] = NULL THEN 0 ELSE rank[next[n]] + 1
    <3>1. top \in Nat /\ (next[n] # NULL => top = rank[next[n]] + 1)
      BY <2>2
    <3> HIDE DEF top
    <3>2. [rank EXCEPT ![n] = top] \in [Nodes -> Nat]
      BY <3>1
    <3> QED BY <1>1, <3>1, <3>2
  <2>4. next[n] # NULL => new[next[n]] < new[n]
    <3>1. CASE next[n] # NULL
      <4>1. next[n] # n
        BY <1>1, <1>3, <2>2, <3>1
      <4>2. new[next[n]] = rank[next[n]] /\ new[n] = rank[next[n]] + 1 /\ rank[next[n]] \in Nat
        BY <1>1, <2>2, <2>3, <3>1, <4>1
      <4> QED BY <4>2
    <3> QED BY <3>1
  <2>5. ASSUME NEW q \in Q, NEW m \in Listed(q), next[m] # NULL
        PROVE  new[next[m]] < new[m]
    <3>1. m # n /\ m \in Nodes /\ next[m] # n /\ next[m] \in Nodes
      BY <1>3, <2>5, ListedLeast DEF LinksClosed
    <3> QED BY <2>1, <2>3, <2>5, <3>1 DEF Ranks
  <2>6. \A q \in Q : \A m \in Listed(q)' : m = n \/ m \in Listed(q)
    BY <1>4, <1>5
  <2>7. Ranks(new)'
    <3>1. \A q \in Q : \A m \in Listed(q)' : next'[m] # NULL => new[next'[m]] < new[m]
      BY <1>2, <2>4, <2>5, <2>6
    <3> QED BY <3>1 DEF Ranks
  <2> QED BY <2>3, <2>7 DEF Ranked
<1> QED BY <1>2, <1>7, <1>8, <1>9 DEF Lists

(* The message about a node that is in other hands by now. *)
LEMMA ReportKeepsLists ==
  ASSUME Types, Roles, Heap, Lists, NEW t \in Threads, Report(t)
  PROVE  Lists'
<1>1. /\ node' = [node EXCEPT ![t] = NULL] /\ pc[t] = "report" /\ pc' = [pc EXCEPT ![t] = "lock"]
      /\ UNCHANGED <<head, next, freed, numconnects, crashed>>
  BY DEF Report, At, Goto, queues
<1>2. Listed("aq")' = Listed("aq") /\ Listed("rq")' = Listed("rq") /\ Issued' = Issued
  BY <1>1 DEF Listed, Issued
<1>3. t \notin Carriers /\ Carriers' = Carriers
  BY <1>1 DEF Carriers, Types
<1>4. \A u \in Carriers : node'[u] = node[u]
  BY <1>1, <1>3 DEF Heap, Carriers
<1>5. Apart'
  <2>1. {node'[u] : u \in Carriers'} = {node[u] : u \in Carriers}
    BY <1>3, <1>4
  <2> QED BY <1>1, <1>2, <1>3, <1>4, <2>1 DEF Lists, Apart, Q
<1>6. Halfway'
  BY <1>1 DEF Lists, Halfway, Heap, Types, InQ, OutQ
<1>7. Ranked'
  BY <1>1, <1>2 DEF Lists, Ranked, Ranks, Q
<1> QED BY <1>1, <1>5, <1>6, <1>7 DEF Lists

(* queue_get takes the first node off. *)
LEMMA UnlinkKeepsLists ==
  ASSUME Types, Roles, Heap, Owned, ~Intruded, ~failed, Lists, NEW t \in Threads, Unlink(t)
  PROVE  Lists'
<1> DEFINE i == InQ(t)  n == node[t]
<1>1. /\ pc[t] = "unlink" /\ i \in Q /\ t \in InSection(i) /\ t \notin Carriers
      /\ n = head[i] /\ n \in Nodes /\ n \in Issued
  BY IssuedNodes DEF Unlink, At, Carriers, Heap, HandPlaces, CarrierPlaces, InQ, Q, InSection, Lists, Halfway
<1>2. n \in Listed(i) /\ n \notin freed
  BY <1>1, ListedLeast DEF LinksClosed, Lists, Apart
<1>3. /\ head' = [head EXCEPT ![i] = next[n]] /\ pc' = [pc EXCEPT ![t] = "unlock"]
      /\ UNCHANGED <<next, freed, numconnects, node, crashed>>
  BY <1>1, <1>2, IssuedNodes DEF Unlink, Goto, Heap
<1> HIDE DEF i, n
<1>4. PICK rank \in [Nodes -> Nat] : Ranks(rank)
  BY DEF Lists, Ranked
<1>5. Listed(i)' = Listed(i) \ {n}
  <2>1. head'[i] = next[n] /\ next' = next
    BY <1>1, <1>3 DEF Heap
  <2>2. \A m \in Reached(n, next) : next[m] # NULL => rank[next[m]] < rank[m]
    BY <1>1, <1>4 DEF Ranks, Listed
  <2>3. Reached(next[n], next) = Reached(n, next) \ {n}
    BY <1>1, <2>2, ListedLeast, ReachedPop
  <2> QED BY <1>1, <2>1, <2>3 DEF Listed
<1>6. ASSUME NEW q \in Q, q # i PROVE Listed(q)' = Listed(q)
  BY <1>3, <1>6 DEF Listed, Heap
<1>7. Carriers' = Carriers \cup {t} /\ Issued' = Issued
  BY <1>1, <1>3, IssuedNodes DEF Carriers, Types, Issued, n
<1>8. Apart'
  <2>1. Apart
    BY DEF Lists
  <2>2. \A q \in Q : n \notin Listed(q)' /\ Listed(q)' \subseteq Listed(q)
    <3>1. \A q \in Q : q # i => n \notin Listed(q)
      BY <1>1, <1>2, <2>1 DEF Apart, Q
    <3> QED BY <1>5, <1>6, <3>1
  <2>3. \A u \in Carriers : node[u] # n
    BY <1>1, <1>2, <2>1 DEF Apart
  <2>4. \A u \in Carriers' : (u = t /\ node[u] = n) \/ (u \in Carriers /\ u # t)
    BY <1>1, <1>7 DEF n
  <2>5. \A u, v \in Carriers' : u # v => node[u] # node[v]
    BY <2>1, <2>3, <2>4 DEF Apart
  <2>6. \A q \in Q : \A u \in Carriers' : node[u] \notin Listed(q)'
    BY <2>1, <2>2, <2>4 DEF Apart
  <2>7. \A u \in Carriers' : node[u] \notin freed
    BY <1>2, <2>1, <2>4 DEF Apart
  <2>8. Issued \subseteq Listed("aq")' \cup Listed("rq")' \cup freed \cup {node[u] : u \in Carriers'}
    <3>1. Listed("aq") \cup Listed("rq") \subseteq Listed("aq")' \cup Listed("rq")' \cup {n}
      BY <1>1, <1>5, <1>6 DEF Q
    <3>2. n \in {node[u] : u \in Carriers'} /\ {node[u] : u \in Carriers} \subseteq {node[u] : u \in Carriers'}
      BY <1>7 DEF n
    <3> QED BY <2>1, <3>1, <3>2 DEF Apart
  <2>9. Listed("aq")' \cap Listed("rq")' = {} /\ \A q \in Q : Listed(q)' \subseteq Issued \ freed
    BY <2>1, <2>2 DEF Apart, Q
  <2> QED BY <1>3, <1>7, <2>5, <2>6, <2>7, <2>8, <2>9 DEF Apart
<1>9. Halfway'
  <2> SUFFICES ASSUME NEW u \in Threads, u # t,
                      pc[u] \in {"get", "unlink", "publish", "unlock_out"}
               PROVE  /\ pc[u] = "get" => head'[InQ(u)] # NULL
                      /\ pc[u] = "unlink" => node[u] = head'[InQ(u)]
                      /\ pc[u] = "publish" => next[node[u]] = head'[OutQ(u)]
                      /\ pc[u] = "unlock_out" => node[u] = head'[OutQ(u)]
    BY <1>1, <1>3 DEF Halfway, Types, InQ, OutQ
  <2>1. /\ pc[u] \in {"get", "unlink"} => u \in InSection(InQ(u)) /\ InQ(u) \in Q
        /\ pc[u] \in {"publish", "unlock_out"} => u \in InSection(OutQ(u)) /\ OutQ(u) \in Q
    BY DEF InSection, InQ, OutQ, Q, Roles
  <2>2. /\ pc[u] \in {"get", "unlink"} => InQ(u) # i
        /\ pc[u] \in {"publish", "unlock_out"} => OutQ(u) # i
    BY <1>1, <2>1, Alone
  <2>3. \A q \in Q : q # i => head'[q] = head[q]
    BY <1>3 DEF Heap
  <2>4. Halfway
    BY DEF Lists
  <2> QED BY <2>1, <2>2, <2>3, <2>4 DEF Halfway
<1>10. Ranked'
  <2>1. \A q \in Q : Listed(q)' \subseteq Listed(q)
    BY <1>5, <1>6
  <2>2. Ranks(rank)'
    BY <1>3, <1>4, <2>1 DEF Ranks
  <2> QED BY <2>2 DEF Ranked
<1> QED BY <1>3, <1>8, <1>9, <1>10 DEF Lists

LEMMA ConservedKept ==
  ASSUME Types, Types', Roles, Heap, Owned, Conserved, NEW t \in Threads, ThreadStep(t)
  PROVE  Conserved'
<1>1. CASE Intruded \/ failed
  BY <1>1, SinceForGood DEF Conserved
<1>2. CASE ~Intruded /\ ~failed /\ Lists
  <2>1. CASE ~NodeStep(t)
    <3>1. pc' \in [Threads -> Places]
      BY DEF Types
    <3>2. Lists'
      BY <1>2, <2>1, <3>1, NoNodeStep, ListsUntouched
    <3> QED BY <3>2 DEF Conserved
  <2>2. CASE NodeStep(t)
    BY <1>2, <2>2, GetKeepsLists, UnlinkKeepsLists, RespondKeepsLists, AllocKeepsLists,
       LinkKeepsLists, PublishKeepsLists, ReportKeepsLists DEF NodeStep, Conserved
  <2> QED BY <2>1, <2>2
<1> QED BY <1>1, <1>2 DEF Conserved

-----------------------------------------------------------------------------
Inv ==
  /\ Types /\ Roles /\ Owned
  /\ NoLostStop /\ Counted
  /\ Heap /\ Sleepers /\ Conserved

LEMMA InitInvariant == Init => Inv
<1> SUFFICES ASSUME Init PROVE Inv
  OBVIOUS
<1>1. Types /\ Roles /\ Owned
  <2>1. Cardinality(Threads) \in Nat
    BY CrewAssumption, FS_CardinalityType
  <2>2. Types
    <3>1. <<>> \in Seq(Threads)
      OBVIOUS
    <3>2. /\ owner = [q \in Q |-> NULL] /\ pc = [t \in Threads |-> "lock"]
          /\ cleanup = <<>> /\ ctl = "run" /\ joining = NULL
          /\ numthreads = Cardinality(Threads)
      BY DEF Init
    <3> QED BY <2>1, <3>1, <3>2 DEF Types, Places, CtlPlaces
  <2>3. \A t \in Threads : pc[t] = "lock"
    BY DEF Init
  <2> QED BY <2>2, <2>3 DEF Roles, Owned, InSection, Threads
<1>2. Stopped = {} /\ Cardinality({}) = 0 /\ Len(cleanup) = 0
  BY FS_EmptySet DEF Init, Stopped
<1>3. Joins = 0
  <2>1. joining = NULL
    BY DEF Init
  <2> QED BY <1>2, <2>1 DEF Joins
<1>4. Heap
  <2>1. 0 \in 0 .. MaxJobs
    BY CrewAssumption
  <2> QED BY <2>1 DEF Init, Heap, HandPlaces, CarrierPlaces
<1>5. Sleepers
  BY DEF Init, Sleepers
<1>6. Lists
  <2>1. Issued = {} /\ Carriers = {} /\ freed = {} /\ ~crashed
    BY DEF Init, Issued, Carriers
  <2>2. Listed("aq") = {} /\ Listed("rq") = {}
    <3>1. head["aq"] = NULL /\ head["rq"] = NULL
      BY DEF Init, Q
    <3>2. Reached(NULL, next) = {}
      <4>1. LinksClosed(NULL, next, {})
        BY DEF LinksClosed
      <4> QED BY <4>1 DEF Reached
    <3> QED BY <3>1, <3>2 DEF Listed
  <2>3. Apart
    BY <2>1, <2>2 DEF Apart, Q
  <2>4. Ranks([n \in Nodes |-> 0])
    BY <2>2 DEF Ranks, Q
  <2>5. Halfway
    BY DEF Init, Halfway
  <2> QED BY <2>1, <2>3, <2>4, <2>5 DEF Lists, Ranked
<1> QED BY <1>1, <1>3, <1>4, <1>5, <1>6 DEF Init, Inv, Counted, NoLostStop, Conserved

LEMMA NextInvariant == Inv /\ [Next]_vars => Inv'
<1> SUFFICES ASSUME Inv, [Next]_vars PROVE Inv'
  OBVIOUS
<1>1. ASSUME NEW t \in Threads, ThreadStep(t) PROVE Inv'
  <2>1. Types' /\ Roles' /\ Owned'
    BY <1>1, LockStep, UnlockStep, QuietStep
       DEF Inv, ThreadStep, Produce, Dequeue, Enqueue, Terminate
  <2> QED BY <1>1, <2>1, ThreadCounts, HeapKept, SleepersKept, ConservedKept DEF Inv
<1>2. CASE StopServer \/ JoinThreads \/ SpuriousWakeup
  <2>1. Types' /\ Roles' /\ Owned'
    BY <1>2, ServerStep DEF Inv
  <2>2. Conserved'
    <3>1. UNCHANGED <<head, next, freed, numconnects, pc, node, crashed, failed>>
      BY <1>2, ServerKeeps DEF Inv
    <3>2. Intruded => Intruded'
      BY <3>1 DEF Intruded
    <3>3. Lists => Lists'
      BY <3>1, ListsUntouched DEF Inv, Types
    <3> QED BY <3>1, <3>2, <3>3 DEF Inv, Conserved
  <2> QED BY <1>2, <2>1, <2>2, ServerCounts, ServerKeeps DEF Inv
<1>3. CASE UNCHANGED vars
  <2>1. Conserved'
    <3>1. UNCHANGED <<head, next, freed, numconnects, pc, node, crashed, failed>>
      BY <1>3 DEF vars, queues, ctlv
    <3>2. Lists => Lists'
      BY <3>1, ListsUntouched DEF Inv, Types
    <3> QED BY <3>1, <3>2 DEF Inv, Conserved, Intruded
  <2> QED
    BY <1>3, <2>1 DEF vars, queues, ctlv, Inv, Types, Roles, Owned, InSection, Intruded,
       NoLostStop, Counted, Joins, Stopped, Heap, Issued, Sleepers
<1> QED BY <1>1, <1>2, <1>3 DEF Next, Crew

THEOREM Invariance == Spec => []Inv
BY InitInvariant, NextInvariant, PTL DEF Spec

(* aq's mutex keeps the threads apart as long as no malloc fails, rq's as long as
   no processor has left its loop, however many threads and jobs there are. *)
THEOREM MutexesExclude == Spec => []QueuesExclusive
<1>1. Inv => QueuesExclusive
  BY OwnedExcludes DEF Inv
<1> QED BY <1>1, Invariance, PTL

(* join_threads never sleeps beside a thread that stop_thread has put on cq,
   without a signal to come. *)
THEOREM StopsAreNoticed == Spec => []NoLostStop
<1>1. Inv => NoLostStop
  BY DEF Inv
<1> QED BY <1>1, Invariance, PTL

(* join_threads counts each stopped thread once. *)
THEOREM StopsAreCounted == Spec => []StoppedOnce
<1>1. Inv => StoppedOnce
  BY DEF Inv, Counted, StoppedOnce
<1> QED BY <1>1, Invariance, PTL

(* The types: sleepers wait on their own queue, links stay inside the nodes that
   were allocated, and join_threads does not count below what is possible. *)
THEOREM TypesKept == Spec => []TypeOK
<1>1. Inv => TypeOK
  <2> SUFFICES ASSUME Inv PROVE TypeOK
    OBVIOUS
  <2>1. Cardinality(Stopped) <= Cardinality(Threads)
    BY CrewAssumption, FS_Subset DEF Stopped
  <2>2. /\ Cardinality(Stopped) \in Nat /\ Cardinality(Threads) \in Nat
        /\ Len(cleanup) \in Nat
    BY StoppedCount DEF Inv
  <2>3. Joins \in Nat /\ Joins <= Cardinality(Stopped) - Len(cleanup)
    BY <2>2 DEF Inv, Counted, Joins
  <2>4. numthreads \in -1 .. Cardinality(Threads) /\ Len(cleanup) <= Cardinality(Threads)
    BY <2>1, <2>2, <2>3 DEF Inv, Counted
  <2>5. next \in [Nodes -> Nodes \cup {NULL}]
    BY IssuedNodes DEF Inv, Heap
  <2> QED BY <2>4, <2>5 DEF Inv, Types, Heap, Issued, Sleepers, TypeOK
<1> QED BY <1>1, Invariance, PTL

(* No connection is lost or served twice before the server is stopped, however
   many threads work on however many connections: each is in one of the lists,
   in the hands of one thread, or freed. *)
THEOREM ConnectionsAreConserved == Spec => []JobInOnePlace
<1>1. Inv => JobInOnePlace
  <2> SUFFICES ASSUME Heap, Lists
               PROVE  /\ ~crashed
                      /\ Listed("aq") \cap Listed("rq") = {}
                      /\ \A s, t \in Carriers : s # t => node[s] # node[t]
                      /\ \A t \in Threads : node[t] \in freed => pc[t] \in {"signal", "report"}
                      /\ LET held == {node[t] : t \in Carriers}
                             queued == Listed("aq") \cup Listed("rq")
                         IN  /\ held \cap queued = {} /\ (held \cup queued) \cap freed = {}
                             /\ held \cup queued \cup freed = 1 .. numconnects
    BY DEF Inv, Conserved, JobInOnePlace
  <2> DEFINE held == {node[t] : t \in Carriers}
             queued == Listed("aq") \cup Listed("rq")
  <2>1. Apart /\ ~crashed
    BY DEF Lists
  <2>2. held \subseteq Issued
    BY DEF Carriers, HandPlaces, CarrierPlaces, Heap
  <2>3. queued \subseteq Issued \ freed /\ freed \subseteq Issued
    BY <2>1 DEF Apart, Q, Heap
  <2>4. held \cap queued = {} /\ held \cap freed = {}
    BY <2>1 DEF Apart, Q
  <2>5. Issued \subseteq held \cup queued \cup freed
    BY <2>1 DEF Apart
  <2> HIDE DEF held, queued
  <2>6. /\ held \cap queued = {} /\ (held \cup queued) \cap freed = {}
        /\ held \cup queued \cup freed = Issued
    BY <2>2, <2>3, <2>4, <2>5
  <2>7. \A t \in Threads : node[t] \in freed => pc[t] \in {"signal", "report"}
    <3> SUFFICES ASSUME NEW t \in Threads, node[t] \in freed, pc[t] \notin {"signal", "report"}
                 PROVE  FALSE
      OBVIOUS
    <3>1. node[t] # NULL /\ pc[t] \in HandPlaces
      BY IssuedNodes DEF Heap
    <3>2. t \notin Carriers
      BY <2>1 DEF Apart
    <3>3. pc[t] \in {"unlink", "unlock_out"}
      BY <3>1, <3>2 DEF HandPlaces, CarrierPlaces, Carriers
    <3>4. PICK q \in Q : node[t] = head[q]
      BY <3>3 DEF Lists, Halfway, InQ, OutQ, Q
    <3>5. node[t] \in Listed(q)
      BY <3>1, <3>4, ListedLeast DEF LinksClosed
    <3> QED BY <2>1, <3>5 DEF Apart
  <2> QED BY <2>1, <2>6, <2>7 DEF Apart, held, queued, Issued
<1> QED BY <1>1, Invariance, PTL
=============================================================================

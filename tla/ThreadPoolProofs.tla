-------------------------- MODULE ThreadPoolProofs --------------------------
(***************************************************************************)
(* Proofs about ThreadPool for any finite set of workers, any bounds       *)
(* Minimum <= Maximum, any jobs and clients: the threads and the counters, *)
(* the callers, and then the jobs, with the refinement of PoolService.     *)
(***************************************************************************)
EXTENDS ThreadPool, FiniteSetTheorems, TLAPS

IdleStates == {"waiting", "lingering", "timedout"}
BusyStates == {"running", "returned", "exited"}

(* The threads in existence, the idle ones, the ones in pool_active. *)
Live(th)   == {w \in Workers : th[w] # "none"}
IdleOf(th) == {w \in Workers : th[w] \in IdleStates}
BusyOf(th) == {w \in Workers : th[w] \in BusyStates}

-----------------------------------------------------------------------------
(* A finite set grows or shrinks by one. *)
LEMMA CountStep ==
  ASSUME NEW S, IsFiniteSet(S), NEW x
  PROVE  /\ Cardinality(S) \in Nat
         /\ x \notin S => Cardinality(S \cup {x}) = Cardinality(S) + 1
         /\ x \in S => Cardinality(S \cup {x}) = Cardinality(S)
         /\ x \in S => Cardinality(S \ {x}) = Cardinality(S) - 1
         /\ x \notin S => Cardinality(S \ {x}) = Cardinality(S)
         /\ Cardinality(S \ {x}) \in Nat
         /\ Cardinality(S \cup {x}) = Cardinality(S \ {x}) + 1
<1>1. Cardinality(S \cup {x}) = IF x \in S THEN Cardinality(S) ELSE Cardinality(S) + 1
  BY FS_AddElement
<1>2. Cardinality(S \ {x}) = IF x \in S THEN Cardinality(S) - 1 ELSE Cardinality(S)
  BY FS_RemoveElement
<1>3. IsFiniteSet(S \ {x})
  BY FS_RemoveElement
<1>4. Cardinality(S) \in Nat /\ Cardinality(S \ {x}) \in Nat
  BY <1>3, FS_CardinalityType
<1> QED BY <1>1, <1>2, <1>4

(* The sets of threads are finite. *)
LEMMA ThreadSetsFinite ==
  ASSUME NEW th
  PROVE  IsFiniteSet(Live(th)) /\ IsFiniteSet(IdleOf(th))
BY PoolAssumption, FS_Subset DEF Live, IdleOf

(* pthread_create: one thread more. *)
LEMMA NewThread ==
  ASSUME NEW th \in [Workers -> ThreadState], NEW w \in Workers, th[w] = "none",
         NEW th2, th2 = [th EXCEPT ![w] = "starting"]
  PROVE  /\ th2 \in [Workers -> ThreadState]
         /\ Cardinality(Live(th2)) = Cardinality(Live(th)) + 1
         /\ Cardinality(IdleOf(th2)) = Cardinality(IdleOf(th))
         /\ BusyOf(th2) = BusyOf(th)
         /\ \A v \in Workers : th[v] # "none" => th2[v] = th[v]
<1>1. th2 \in [Workers -> ThreadState] /\ \A v \in Workers : th[v] # "none" => th2[v] = th[v]
  BY DEF ThreadState
<1>2. /\ Live(th2) = Live(th) \cup {w} /\ w \notin Live(th)
      /\ IdleOf(th2) = IdleOf(th)
      /\ BusyOf(th2) = BusyOf(th)
  BY DEF Live, IdleOf, BusyOf, IdleStates, BusyStates
<1>3. Cardinality(Live(th) \cup {w}) = Cardinality(Live(th)) + 1
  BY <1>2, ThreadSetsFinite, CountStep
<1> QED BY <1>1, <1>2, <1>3

(* A thread dies: one thread less, and one idle thread less if it was idle. *)
LEMMA ThreadDies ==
  ASSUME NEW th \in [Workers -> ThreadState], NEW w \in Workers, th[w] # "none",
         NEW th2, th2 = [th EXCEPT ![w] = "none"]
  PROVE  /\ th2 \in [Workers -> ThreadState]
         /\ Cardinality(Live(th)) \in Nat /\ Cardinality(Live(th)) # 0
         /\ Cardinality(Live(th2)) = Cardinality(Live(th)) - 1
         /\ IdleOf(th2) = IdleOf(th) \ {w}
         /\ BusyOf(th2) = BusyOf(th) \ {w}
<1>1. th2 \in [Workers -> ThreadState]
  BY DEF ThreadState
<1>2. /\ Live(th2) = Live(th) \ {w} /\ w \in Live(th)
      /\ IdleOf(th2) = IdleOf(th) \ {w}
      /\ BusyOf(th2) = BusyOf(th) \ {w}
  BY DEF Live, IdleOf, BusyOf, IdleStates, BusyStates
<1>3. Cardinality(Live(th) \ {w}) = Cardinality(Live(th)) - 1
  BY <1>2, ThreadSetsFinite, CountStep
<1>4. Cardinality(Live(th)) \in Nat /\ Cardinality(Live(th) \ {w}) \in Nat
  BY ThreadSetsFinite, CountStep
<1>5. Cardinality(Live(th)) # 0
  BY <1>3, <1>4
<1>6. Cardinality(Live(th2)) = Cardinality(Live(th)) - 1
  BY <1>2, <1>3
<1> QED BY <1>1, <1>2, <1>4, <1>5, <1>6

(* create_worker and its increment keep pool_nthreads exact and disturb no
   worker that is idle or busy, whether or not pthread_create succeeds. *)
LEMMA CreateWorkerCounts ==
  ASSUME NEW th \in [Workers -> ThreadState], NEW n \in Nat,
         n = Cardinality(Live(th)), n < Maximum, CreateWorker(th, n)
  PROVE  /\ thread' \in [Workers -> ThreadState]
         /\ nthreads' \in Nat /\ nthreads' = Cardinality(Live(thread'))
         /\ nthreads' >= n /\ nthreads' <= Maximum
         /\ Cardinality(IdleOf(thread')) = Cardinality(IdleOf(th))
         /\ BusyOf(thread') = BusyOf(th)
         /\ \A w \in Workers : th[w] # "none" => thread'[w] = th[w]
<1>1. CASE thread' = th /\ nthreads' = n
  BY <1>1, PoolAssumption
<1>2. ASSUME NEW v \in Workers, th[v] = "none",
             thread' = [th EXCEPT ![v] = "starting"], nthreads' = n + 1
      PROVE  /\ thread' \in [Workers -> ThreadState]
             /\ nthreads' = Cardinality(Live(thread'))
             /\ Cardinality(IdleOf(thread')) = Cardinality(IdleOf(th))
             /\ BusyOf(thread') = BusyOf(th)
             /\ \A w \in Workers : th[w] # "none" => thread'[w] = th[w]
  BY <1>2, NewThread
<1> QED BY <1>1, <1>2, PoolAssumption DEF CreateWorker

-----------------------------------------------------------------------------
(* The invariant's parts about threads in the vocabulary of the lemmas. *)
LEMMA Vocabulary ==
  /\ CountersOK <=> /\ nthreads = Cardinality(Live(thread))
                    /\ idle = Cardinality(IdleOf(thread))
                    /\ nthreads <= Maximum
  /\ ActiveOK <=> active = BusyOf(thread) /\ \A w \in active : job[w] # None
BY DEF CountersOK, ActiveOK, In, Live, IdleOf, BusyOf, IdleStates, BusyStates

(* The death of a worker, and of the thread that may replace it. *)
LEMMA WorkerCleanupEffect ==
  ASSUME IInv, NEW w \in Workers, thread[w] # "none", WorkerCleanup(w)
  PROVE  /\ thread' \in [Workers -> ThreadState]
         /\ nthreads # 0
         /\ nthreads' \in Nat /\ nthreads' <= Maximum
         /\ nthreads' = Cardinality(Live(thread'))
         /\ Cardinality(IdleOf(thread')) = Cardinality(IdleOf(thread) \ {w})
         /\ BusyOf(thread') = BusyOf(thread) \ {w}
         /\ \A v \in Workers \ {w} : thread[v] # "none" => thread'[v] = thread[v]
         /\ cancelled' \subseteq Workers
         /\ busycv' \subseteq busycv
         /\ busycv' # {} => nthreads' # 0
<1> DEFINE th == [thread EXCEPT ![w] = "none"]
           n == nthreads - 1
<1>1. /\ thread \in [Workers -> ThreadState]
      /\ nthreads \in Nat /\ nthreads = Cardinality(Live(thread)) /\ nthreads <= Maximum
      /\ cancelled \subseteq Workers
      /\ busycv # {} => Destroying
  BY Vocabulary DEF IInv, TypeOK, LastWorkerWakes
<1>2. /\ th \in [Workers -> ThreadState]
      /\ nthreads # 0 /\ n \in Nat /\ n < Maximum
      /\ n = Cardinality(Live(th))
      /\ IdleOf(th) = IdleOf(thread) \ {w}
      /\ BusyOf(th) = BusyOf(thread) \ {w}
      /\ \A v \in Workers \ {w} : th[v] = thread[v]
  <2>1. /\ th \in [Workers -> ThreadState]
        /\ Cardinality(Live(thread)) \in Nat /\ Cardinality(Live(thread)) # 0
        /\ Cardinality(Live(th)) = Cardinality(Live(thread)) - 1
        /\ IdleOf(th) = IdleOf(thread) \ {w}
        /\ BusyOf(th) = BusyOf(thread) \ {w}
    BY <1>1, ThreadDies
  <2>2. \A v \in Workers \ {w} : th[v] = thread[v]
    BY <1>1
  <2>3. nthreads # 0 /\ n \in Nat /\ n < Maximum /\ n = Cardinality(Live(th))
    <3> HIDE DEF th
    <3> QED BY <1>1, <2>1, PoolAssumption
  <2> HIDE DEF n
  <2> QED BY <2>1, <2>2, <2>3
<1>3. /\ cancelled' = cancelled \ {w}
      /\ busycv' = IF Destroying /\ n = 0 THEN {} ELSE busycv
      /\ CreateWorker(th, n) \/ (thread' = th /\ nthreads' = n)
      /\ Destroying => thread' = th /\ nthreads' = n
  BY DEF WorkerCleanup
<1> HIDE DEF th, n
<1>4. CASE thread' = th /\ nthreads' = n
  BY <1>1, <1>2, <1>3, <1>4, PoolAssumption
<1>5. CASE CreateWorker(th, n)
  BY <1>1, <1>2, <1>3, <1>5, CreateWorkerCounts
<1> QED BY <1>3, <1>4, <1>5

-----------------------------------------------------------------------------
(* What a step of worker w on the way to or from the job queue must establish
   for the invariant: exact counters, an exact active list, sleepers where they
   belong, and wakeups that are still to come. *)
LEMMA WorkerEffect ==
  ASSUME IInv, NEW w \in Workers, thread[w] # "none",
         queue' \in Seq(Jobs),
         job' \in [Workers -> Jobs \cup {None}],
         cancelled' \subseteq Workers,
         thread' \in [Workers -> ThreadState],
         \A v \in Workers \ {w} : thread[v] # "none" => thread'[v] = thread[v],
         nthreads' \in Nat, nthreads' <= Maximum, nthreads' = Cardinality(Live(thread')),
         idle' \in Nat, idle' = Cardinality(IdleOf(thread')),
         active' = BusyOf(thread'), \A v \in active' : job'[v] # None,
         Destroying => active' \subseteq active,
         flags' \subseteq flags, "POOL_DESTROY" \in flags' <=> Destroying,
         waitcv' \subseteq waitcv,
         waitcv' # {} /\ ~Freed => "POOL_WAIT" \in flags' /\ Outstanding(queue', active'),
         workcv' \subseteq (workcv \ {w}) \cup
                             (IF thread'[w] \in {"waiting", "lingering"} THEN {w} ELSE {}),
         busycv' \subseteq busycv, busycv' # {} => nthreads' # 0,
         call' = call, owed' = owed, ended' \subseteq Jobs, discarded' = discarded,
         late' = late, Destroying /\ idle = 0 => idle' = 0
  PROVE  IInv'
<1> USE DEF IInv
<1>1. TypeOK'
  <2>1. active' \subseteq Workers
    BY DEF BusyOf
  <2>2. workcv' \subseteq Workers /\ waitcv' \subseteq Clients /\ busycv' \subseteq Clients
        /\ flags' \subseteq {"POOL_WAIT", "POOL_DESTROY"}
    BY DEF TypeOK
  <2>3. call' \in [Clients -> CallState] /\ owed' \in [Clients -> SUBSET Jobs]
        /\ ended' \subseteq Jobs /\ discarded' \subseteq Jobs
    BY DEF TypeOK
  <2> QED BY <2>1, <2>2, <2>3 DEF TypeOK
<1>2. CountersOK'
  BY DEF CountersOK, In, Live, IdleOf, IdleStates
<1>3. ActiveOK'
  BY DEF ActiveOK, In, BusyOf, BusyStates
<1>4. nthreads # 0
  <2>1. w \in Live(thread)
    BY DEF Live
  <2>2. Cardinality(Live(thread)) # 0
    BY <2>1, ThreadSetsFinite, FS_EmptySet
  <2> QED BY <2>2, Vocabulary
<1>5. CallsOK'
  <2>1. (workcv \subseteq In({"waiting", "lingering"}))'
    BY DEF CallsOK, In, TypeOK
  <2>2. /\ waitcv' \subseteq {c \in Clients : call[c] \in {"wait", "destroy_active"}}
        /\ busycv' \subseteq {c \in Clients : call[c] = "destroy_threads"}
    BY DEF CallsOK
  <2>3. \A c \in Clients :
          /\ call[c] \notin {"out", "wait", "gone"} =>
               Destroying /\ \A d \in Clients \ {c} : call[d] \in {"out", "wait", "gone"}
          /\ call[c] \in {"destroy_threads", "unlink", "freed"} => active' = {}
          /\ call[c] \in {"unlink", "freed"} => idle = 0 /\ late /\ Destroying
    BY <1>4 DEF CallsOK
  <2>4. (Destroying' <=> Destroying) /\ (Destroying /\ idle = 0 => idle' = 0)
    <3>1. Destroying /\ idle = 0 => idle' = 0
      OBVIOUS
    <3> QED BY <3>1 DEF Destroying
  <2> QED BY <2>1, <2>2, <2>3, <2>4 DEF CallsOK
<1>6. NoLostNotify'
  BY DEF NoLostNotify, Outstanding, Freed
<1>7. LastWorkerWakes'
  BY DEF LastWorkerWakes, Destroying
<1> QED BY <1>1, <1>2, <1>3, <1>5, <1>6, <1>7

(* One pass of worker_thread's loop preserves the invariant, provided the
   notification that preceded it dealt with the waiters. *)
LEMMA WorkerLoopEffect ==
  ASSUME IInv, NEW w \in Workers, thread[w] # "none", w \notin workcv,
         NEW act, act = active \ {w},
         NEW i \in Nat, i = Cardinality(IdleOf(thread) \cup {w}),
         NEW linger \in BOOLEAN, WorkerLoop(w, act, i, linger),
         flags' \subseteq flags, "POOL_DESTROY" \in flags' <=> Destroying,
         waitcv' \subseteq waitcv,
         waitcv' # {} /\ ~Freed => "POOL_WAIT" \in flags' /\ Outstanding(queue, act),
         call' = call, owed' = owed, ended' = ended, discarded' = discarded, late' = late
  PROVE  IInv'
<1>1. /\ queue \in Seq(Jobs) /\ thread \in [Workers -> ThreadState]
      /\ job \in [Workers -> Jobs \cup {None}] /\ cancelled \subseteq Workers
      /\ nthreads \in Nat /\ nthreads = Cardinality(Live(thread)) /\ nthreads <= Maximum
      /\ active = BusyOf(thread) /\ \A v \in active : job[v] # None
      /\ busycv # {} => nthreads # 0
      /\ ended \subseteq Jobs /\ idle = Cardinality(IdleOf(thread))
  BY Vocabulary DEF IInv, TypeOK, LastWorkerWakes
<1>2. /\ Cardinality(IdleOf(thread) \ {w}) \in Nat
      /\ i = Cardinality(IdleOf(thread) \ {w}) + 1
      /\ Cardinality(IdleOf(thread) \ {w}) <= idle
  <2>1. /\ Cardinality(IdleOf(thread) \ {w}) \in Nat /\ Cardinality(IdleOf(thread)) \in Nat
        /\ i = Cardinality(IdleOf(thread) \ {w}) + 1
    BY ThreadSetsFinite, CountStep
  <2>2. \/ Cardinality(IdleOf(thread) \ {w}) = Cardinality(IdleOf(thread))
        \/ Cardinality(IdleOf(thread) \ {w}) = Cardinality(IdleOf(thread)) - 1
    BY ThreadSetsFinite, CountStep
  <2> QED BY <1>1, <2>1, <2>2
<1>3. i - 1 = Cardinality(IdleOf(thread) \ {w}) /\ i - 1 \in Nat
  BY <1>2
<1>4. CASE LeaveLoop(w, act, i)
  <2>1. /\ thread' \in [Workers -> ThreadState]
        /\ nthreads' \in Nat /\ nthreads' <= Maximum /\ nthreads' = Cardinality(Live(thread'))
        /\ Cardinality(IdleOf(thread')) = Cardinality(IdleOf(thread) \ {w})
        /\ BusyOf(thread') = BusyOf(thread) \ {w}
        /\ \A v \in Workers \ {w} : thread[v] # "none" => thread'[v] = thread[v]
        /\ cancelled' \subseteq Workers
        /\ busycv' \subseteq busycv /\ (busycv' # {} => nthreads' # 0)
    BY <1>4, WorkerCleanupEffect DEF LeaveLoop
  <2>2. /\ queue' = queue /\ workcv' = workcv /\ active' = act /\ idle' = i - 1
        /\ job' = [job EXCEPT ![w] = None]
    BY <1>4 DEF LeaveLoop
  <2>3. /\ idle' \in Nat /\ idle' = Cardinality(IdleOf(thread'))
        /\ active' = BusyOf(thread') /\ active' \subseteq active
        /\ job' \in [Workers -> Jobs \cup {None}]
        /\ \A v \in active' : job'[v] # None
        /\ waitcv' # {} /\ ~Freed => "POOL_WAIT" \in flags' /\ Outstanding(queue', active')
        /\ workcv' \subseteq workcv \ {w} /\ (idle = 0 => idle' = 0)
    BY <1>1, <1>2, <1>3, <2>1, <2>2
  <2> QED BY <1>1, <2>1, <2>2, <2>3, WorkerEffect
<1>5. CASE ~Destroying /\ queue # <<>> /\ TakeJob(w, act, i)
  <2>1. /\ thread' = [thread EXCEPT ![w] = "running"]
        /\ job' = [job EXCEPT ![w] = Head(queue)] /\ queue' = Tail(queue)
        /\ active' = act \cup {w} /\ idle' = i - 1
        /\ UNCHANGED <<nthreads, workcv, busycv, cancelled>>
    BY <1>5 DEF TakeJob
  <2>2. Head(queue) \in Jobs /\ queue' \in Seq(Jobs)
    BY <1>1, <1>5, <2>1
  <2>3. /\ thread' \in [Workers -> ThreadState]
        /\ \A v \in Workers \ {w} : thread'[v] = thread[v]
        /\ job' \in [Workers -> Jobs \cup {None}]
        /\ \A v \in active' : job'[v] # None
    BY <1>1, <2>1, <2>2, PoolAssumption DEF ThreadState, BusyOf
  <2>4. /\ Live(thread') = Live(thread)
        /\ IdleOf(thread') = IdleOf(thread) \ {w}
        /\ BusyOf(thread') = BusyOf(thread) \cup {w}
    BY <1>1, <2>1 DEF Live, IdleOf, BusyOf, IdleStates, BusyStates
  <2>5. /\ nthreads' = Cardinality(Live(thread')) /\ nthreads' \in Nat /\ nthreads' <= Maximum
        /\ idle' = Cardinality(IdleOf(thread')) /\ idle' \in Nat
    BY <1>1, <1>3, <2>1, <2>4
  <2>6. /\ active' = BusyOf(thread') /\ Outstanding(queue', active')
        /\ workcv' \subseteq workcv \ {w}
    BY <1>1, <2>1, <2>4 DEF Outstanding
  <2> QED BY <1>1, <1>5, <2>1, <2>2, <2>3, <2>5, <2>6, WorkerEffect
<1>6. ASSUME NEW state \in {"waiting", "lingering"}, ~Destroying, Sleep(w, act, i, state)
      PROVE  IInv'
  <2>1. /\ thread' = [thread EXCEPT ![w] = state]
        /\ job' = [job EXCEPT ![w] = None]
        /\ workcv' = workcv \cup {w} /\ active' = act /\ idle' = i
        /\ UNCHANGED <<queue, nthreads, busycv, cancelled>>
    BY <1>6 DEF Sleep
  <2>2. /\ thread' \in [Workers -> ThreadState]
        /\ \A v \in Workers \ {w} : thread'[v] = thread[v]
        /\ thread'[w] \in {"waiting", "lingering"}
        /\ job' \in [Workers -> Jobs \cup {None}]
    BY <1>1, <1>6, <2>1 DEF ThreadState
  <2>3. /\ Live(thread') = Live(thread)
        /\ IdleOf(thread') = IdleOf(thread) \cup {w}
        /\ BusyOf(thread') = BusyOf(thread) \ {w}
    BY <1>1, <1>6, <2>1 DEF Live, IdleOf, BusyOf, IdleStates, BusyStates
  <2>4. /\ nthreads' = Cardinality(Live(thread')) /\ nthreads' \in Nat /\ nthreads' <= Maximum
        /\ idle' = Cardinality(IdleOf(thread')) /\ idle' \in Nat
    BY <1>1, <2>1, <2>3
  <2>5. /\ active' = BusyOf(thread') /\ active' \subseteq active
        /\ waitcv' # {} /\ ~Freed => "POOL_WAIT" \in flags' /\ Outstanding(queue', active')
        /\ workcv' \subseteq (workcv \ {w}) \cup {w}
    BY <1>1, <2>1, <2>3
  <2>6. \A v \in active' : v \in Workers /\ job'[v] # None
    BY <1>1, <2>1 DEF BusyOf
  <2> QED BY <1>1, <1>6, <2>1, <2>2, <2>4, <2>5, <2>6, WorkerEffect
<1> QED BY <1>4, <1>5, <1>6 DEF WorkerLoop

(* notify_waiters leaves asleep only waiters that still have to wait. *)
LEMMA NotifyEffect ==
  ASSUME IInv, NEW act, NotifyWaiters(act)
  PROVE  /\ flags' \subseteq flags /\ ("POOL_DESTROY" \in flags' <=> Destroying)
         /\ waitcv' \subseteq waitcv
         /\ waitcv' # {} /\ ~Freed => "POOL_WAIT" \in flags' /\ Outstanding(queue, act)
BY DEF NotifyWaiters, IInv, NoLostNotify, Destroying

(* What the invariant says of one worker. *)
LEMMA WorkerFacts ==
  ASSUME IInv, NEW w \in Workers
  PROVE  /\ idle \in Nat
         /\ thread[w] \in {"starting", "running", "returned", "exited"} =>
              w \notin workcv /\ idle + 1 = Cardinality(IdleOf(thread) \cup {w})
         /\ thread[w] \in IdleStates => idle = Cardinality(IdleOf(thread) \cup {w})
         /\ thread[w] = "timedout" => w \notin workcv
         /\ thread[w] \notin BusyStates => active \ {w} = active
<1>1. /\ idle = Cardinality(IdleOf(thread)) /\ active = BusyOf(thread)
      /\ workcv \subseteq In({"waiting", "lingering"})
  BY Vocabulary DEF IInv, CallsOK
<1>2. /\ Cardinality(IdleOf(thread)) \in Nat
      /\ w \notin IdleOf(thread) =>
           Cardinality(IdleOf(thread) \cup {w}) = Cardinality(IdleOf(thread)) + 1
  BY ThreadSetsFinite, CountStep
<1>3. w \in IdleOf(thread) => IdleOf(thread) \cup {w} = IdleOf(thread)
  OBVIOUS
<1> QED BY <1>1, <1>2, <1>3 DEF IdleOf, BusyOf, In, IdleStates, BusyStates

-----------------------------------------------------------------------------
(* The workers' actions. *)
LEMMA StartStep ==
  ASSUME IInv, NEW w \in Workers, Start(w)
  PROVE  IInv'
<1>1. /\ thread[w] # "none" /\ w \notin workcv /\ active = active \ {w}
      /\ idle + 1 \in Nat /\ idle + 1 = Cardinality(IdleOf(thread) \cup {w})
  BY WorkerFacts DEF Start, BusyStates
<1>2. NotifyWaiters(active) /\ WorkerLoop(w, active, idle + 1, ~LingerZero)
      /\ UNCHANGED <<call, owed, ended, discarded, late>>
  BY DEF Start, hist
<1> QED BY <1>1, <1>2, NotifyEffect, WorkerLoopEffect

LEMMA ResumeStep ==
  ASSUME IInv, NEW w \in Workers, Resume(w)
  PROVE  IInv'
<1>1. /\ thread[w] # "none" /\ w \notin workcv /\ active = active \ {w}
      /\ idle \in Nat /\ idle = Cardinality(IdleOf(thread) \cup {w})
  BY WorkerFacts DEF Resume, BusyStates, IdleStates
<1>2. WorkerLoop(w, active, idle, ~LingerZero)
      /\ UNCHANGED <<flags, waitcv, call, owed, ended, discarded, late>>
  BY DEF Resume, hist
<1>3. waitcv' # {} /\ ~Freed => "POOL_WAIT" \in flags' /\ Outstanding(queue, active)
  BY <1>2 DEF IInv, NoLostNotify
<1> QED BY <1>1, <1>2, <1>3, WorkerLoopEffect DEF Destroying

LEMMA TimedOutStep ==
  ASSUME IInv, NEW w \in Workers, TimedOut(w)
  PROVE  IInv'
<1>1. /\ thread[w] # "none" /\ w \notin workcv /\ active = active \ {w}
      /\ idle \in Nat /\ idle = Cardinality(IdleOf(thread) \cup {w})
  BY WorkerFacts DEF TimedOut, BusyStates, IdleStates
<1>2. /\ WorkerLoop(w, active, idle, FALSE)
      /\ NotifyWaiters(active) \/ UNCHANGED <<flags, waitcv>>
      /\ UNCHANGED <<call, owed, ended, discarded, late>>
  BY DEF TimedOut, hist
<1>3. /\ flags' \subseteq flags /\ ("POOL_DESTROY" \in flags' <=> Destroying)
      /\ waitcv' \subseteq waitcv
      /\ waitcv' # {} /\ ~Freed => "POOL_WAIT" \in flags' /\ Outstanding(queue, active)
  BY <1>2, NotifyEffect DEF IInv, NoLostNotify, Destroying
<1> QED BY <1>1, <1>2, <1>3, WorkerLoopEffect

LEMMA JobCleanupStep ==
  ASSUME IInv, NEW w \in Workers, JobCleanup(w)
  PROVE  IInv'
<1>1. /\ thread[w] # "none" /\ w \notin workcv
      /\ idle + 1 \in Nat /\ idle + 1 = Cardinality(IdleOf(thread) \cup {w})
  BY WorkerFacts DEF JobCleanup
<1>2. NotifyWaiters(active \ {w}) /\ WorkerLoop(w, active \ {w}, idle + 1, ~LingerZero)
      /\ UNCHANGED <<call, owed, ended, discarded, late>>
  BY DEF JobCleanup, hist
<1> QED BY <1>1, <1>2, NotifyEffect, WorkerLoopEffect

LEMMA ExitCleanupStep ==
  ASSUME IInv, NEW w \in Workers, ExitCleanup(w)
  PROVE  IInv'
<1>1. /\ queue \in Seq(Jobs) /\ thread \in [Workers -> ThreadState]
      /\ job \in [Workers -> Jobs \cup {None}] /\ ended \subseteq Jobs
      /\ active = BusyOf(thread) /\ \A v \in active : job[v] # None
      /\ idle = Cardinality(IdleOf(thread)) /\ idle \in Nat
      /\ thread[w] # "none" /\ w \notin workcv /\ w \notin IdleOf(thread)
  BY Vocabulary, WorkerFacts DEF IInv, TypeOK, ExitCleanup, IdleOf, IdleStates
<1>2. /\ NotifyWaiters(active \ {w}) /\ active' = active \ {w} /\ WorkerCleanup(w)
      /\ job' = [job EXCEPT ![w] = None]
      /\ UNCHANGED <<queue, idle, workcv, call, owed, ended, discarded, late>>
  BY DEF ExitCleanup, hist
<1>3. /\ thread' \in [Workers -> ThreadState]
      /\ nthreads' \in Nat /\ nthreads' <= Maximum /\ nthreads' = Cardinality(Live(thread'))
      /\ Cardinality(IdleOf(thread')) = Cardinality(IdleOf(thread) \ {w})
      /\ BusyOf(thread') = BusyOf(thread) \ {w}
      /\ \A v \in Workers \ {w} : thread[v] # "none" => thread'[v] = thread[v]
      /\ cancelled' \subseteq Workers
      /\ busycv' \subseteq busycv /\ (busycv' # {} => nthreads' # 0)
  BY <1>1, <1>2, WorkerCleanupEffect
<1>4. IdleOf(thread) \ {w} = IdleOf(thread)
  BY <1>1
<1>5. /\ idle' = Cardinality(IdleOf(thread')) /\ idle' \in Nat
      /\ active' = BusyOf(thread') /\ active' \subseteq active
      /\ job' \in [Workers -> Jobs \cup {None}]
      /\ workcv' \subseteq workcv \ {w} /\ queue' \in Seq(Jobs)
  BY <1>1, <1>2, <1>3, <1>4
<1>6. \A v \in active' : job'[v] # None
  BY <1>1, <1>2 DEF BusyOf
<1>7. /\ flags' \subseteq flags /\ ("POOL_DESTROY" \in flags' <=> Destroying)
      /\ waitcv' \subseteq waitcv
      /\ waitcv' # {} /\ ~Freed => "POOL_WAIT" \in flags' /\ Outstanding(queue', active')
      /\ idle' = idle
  BY <1>2, NotifyEffect
<1> QED BY <1>1, <1>2, <1>3, <1>5, <1>6, <1>7, WorkerEffect

(* A worker that only moves between states of the same kind, in the function
   it runs or in its timed wait, disturbs nothing. *)
LEMMA QuietWorkerStep ==
  ASSUME IInv, NEW w \in Workers, LingerOver(w) \/ Return(w) \/ Exit(w) \/ Cancel(w)
  PROVE  IInv'
<1>1. /\ queue \in Seq(Jobs) /\ thread \in [Workers -> ThreadState]
      /\ job \in [Workers -> Jobs \cup {None}] /\ ended \subseteq Jobs
      /\ cancelled \subseteq Workers
      /\ active = BusyOf(thread) /\ \A v \in active : job[v] # None
      /\ nthreads = Cardinality(Live(thread)) /\ nthreads \in Nat /\ nthreads <= Maximum
      /\ idle = Cardinality(IdleOf(thread)) /\ idle \in Nat
      /\ waitcv # {} /\ ~Freed => "POOL_WAIT" \in flags /\ Outstanding(queue, active)
      /\ busycv # {} => nthreads # 0
      /\ thread[w] = "running" => w \notin workcv
  BY Vocabulary, WorkerFacts DEF IInv, TypeOK, NoLostNotify, LastWorkerWakes
<1>2. ASSUME NEW state \in {"returned", "exited"}, JobOver(w, state)
      PROVE  IInv'
  <2>1. /\ thread[w] = "running" /\ thread' = [thread EXCEPT ![w] = state]
        /\ ended' = ended \cup {job[w]}
        /\ UNCHANGED <<queue, active, flags, nthreads, idle, workcv, waitcv, busycv,
                       job, cancelled, call, owed, discarded, late>>
    BY <1>2 DEF JobOver, pool, cvs
  <2>2. /\ Live(thread') = Live(thread) /\ IdleOf(thread') = IdleOf(thread)
        /\ BusyOf(thread') = BusyOf(thread)
    BY <1>1, <1>2, <2>1 DEF Live, IdleOf, BusyOf, IdleStates, BusyStates
  <2>3. thread' \in [Workers -> ThreadState] /\ \A v \in Workers \ {w} : thread'[v] = thread[v]
    BY <1>1, <1>2, <2>1 DEF ThreadState
  <2>4. ended' \subseteq Jobs
    BY <1>1, <2>1 DEF BusyOf, BusyStates
  <2> QED BY <1>1, <2>1, <2>2, <2>3, <2>4, WorkerEffect DEF Destroying
<1>3. CASE LingerOver(w)
  <2>1. /\ thread[w] = "lingering" /\ thread' = [thread EXCEPT ![w] = "timedout"]
        /\ workcv' = workcv \ {w}
        /\ UNCHANGED <<queue, active, flags, nthreads, idle, waitcv, busycv,
                       job, cancelled, call, owed, ended, discarded, late>>
    BY <1>3 DEF LingerOver, pool, hist
  <2>2. /\ Live(thread') = Live(thread) /\ IdleOf(thread') = IdleOf(thread)
        /\ BusyOf(thread') = BusyOf(thread)
    BY <1>1, <2>1 DEF Live, IdleOf, BusyOf, IdleStates, BusyStates
  <2>3. thread' \in [Workers -> ThreadState] /\ \A v \in Workers \ {w} : thread'[v] = thread[v]
    BY <1>1, <2>1 DEF ThreadState
  <2> QED BY <1>1, <2>1, <2>2, <2>3, WorkerEffect DEF Destroying
<1> QED BY <1>2, <1>3 DEF Return, Exit, Cancel

-----------------------------------------------------------------------------
(* The interface. *)
LEMMA QueueStep ==
  ASSUME IInv, NEW j \in Jobs, Queue(j)
  PROVE  IInv'
<1>1. /\ TypeOK /\ CallsOK /\ LastWorkerWakes /\ NoLostNotify
      /\ queue \in Seq(Jobs) /\ thread \in [Workers -> ThreadState]
      /\ active = BusyOf(thread) /\ \A v \in active : job[v] # None
      /\ nthreads = Cardinality(Live(thread)) /\ nthreads \in Nat /\ nthreads <= Maximum
      /\ idle = Cardinality(IdleOf(thread)) /\ idle \in Nat
  BY Vocabulary DEF IInv, TypeOK
<1>2. /\ queue' = Append(queue, j) /\ WakeOrCreate
      /\ late' = (late \/ \E c \in Clients : call[c] = "unlink") /\ ~Freed
      /\ UNCHANGED <<active, flags, idle, waitcv, busycv, job, cancelled, call,
                     owed, ended, discarded>>
  BY DEF Queue
<1>3. queue' \in Seq(Jobs) /\ queue' # <<>>
  BY <1>1, <1>2
<1>4. /\ workcv' \subseteq workcv
      /\ \/ thread' = thread /\ nthreads' = nthreads
         \/ nthreads < Maximum /\ CreateWorker(thread, nthreads)
  BY <1>2 DEF WakeOrCreate, Signal
<1>5. /\ thread' \in [Workers -> ThreadState]
      /\ nthreads' \in Nat /\ nthreads' = Cardinality(Live(thread'))
      /\ nthreads' >= nthreads /\ nthreads' <= Maximum
      /\ Cardinality(IdleOf(thread')) = Cardinality(IdleOf(thread))
      /\ BusyOf(thread') = BusyOf(thread)
      /\ \A w \in Workers : thread[w] # "none" => thread'[w] = thread[w]
  <2>1. CASE thread' = thread /\ nthreads' = nthreads
    BY <1>1, <2>1
  <2>2. CASE nthreads < Maximum /\ CreateWorker(thread, nthreads)
    BY <1>1, <2>2, CreateWorkerCounts
  <2> QED BY <1>4, <2>1, <2>2
<1>6. TypeOK'
  BY <1>1, <1>2, <1>3, <1>4, <1>5 DEF TypeOK
<1>7. CountersOK' /\ ActiveOK'
  <2>1. CountersOK'
    BY <1>1, <1>2, <1>5 DEF CountersOK, In, Live, IdleOf, IdleStates
  <2>2. ActiveOK'
    BY <1>1, <1>2, <1>5 DEF ActiveOK, In, BusyOf, BusyStates
  <2> QED BY <2>1, <2>2
<1>8. \A c \in Clients : call[c] \in {"unlink", "freed"} => idle = 0 /\ late'
  BY <1>1, <1>2 DEF CallsOK, Freed
<1>9. CallsOK'
  <2>1. (workcv \subseteq In({"waiting", "lingering"}))'
    BY <1>1, <1>4, <1>5 DEF CallsOK, In
  <2> QED BY <1>1, <1>2, <1>8, <2>1 DEF CallsOK, Destroying
<1>10. NoLostNotify'
  BY <1>1, <1>2, <1>3 DEF NoLostNotify, Outstanding, Freed
<1>11. LastWorkerWakes'
  BY <1>1, <1>2, <1>5 DEF LastWorkerWakes, Destroying
<1> QED BY <1>6, <1>7, <1>9, <1>10, <1>11 DEF IInv

(* Where no worker is left, none is idle. *)
LEMMA NoneIdle ==
  ASSUME IInv, nthreads = 0
  PROVE  idle = 0 /\ Live(thread) = {}
<1>1. nthreads = Cardinality(Live(thread)) /\ idle = Cardinality(IdleOf(thread))
  BY Vocabulary DEF IInv
<1>2. Live(thread) = {}
  BY <1>1, ThreadSetsFinite, FS_EmptySet
<1>3. IdleOf(thread) = {}
  BY <1>2 DEF Live, IdleOf, IdleStates
<1> QED BY <1>1, <1>2, <1>3, FS_EmptySet

(* What a step of a client must establish for the invariant: the workers are
   left alone, except that they may be woken or cancelled. *)
LEMMA ClientEffect ==
  ASSUME IInv, UNCHANGED <<active, nthreads, idle, thread, job>>,
         queue' \in Seq(Jobs), flags' \subseteq {"POOL_WAIT", "POOL_DESTROY"},
         workcv' \subseteq workcv, waitcv' \subseteq Clients, busycv' \subseteq Clients,
         cancelled' \subseteq Workers, call' \in [Clients -> CallState],
         owed' \in [Clients -> SUBSET Jobs], ended' = ended, discarded' \subseteq Jobs,
         late' = late,
         \A c \in waitcv' : call'[c] \in {"wait", "destroy_active"},
         \A c \in busycv' : call'[c] = "destroy_threads",
         \A c \in Clients :
           /\ call'[c] \notin {"out", "wait", "gone"} =>
                /\ "POOL_DESTROY" \in flags'
                /\ \A d \in Clients \ {c} : call'[d] \in {"out", "wait", "gone"}
           /\ call'[c] \in {"destroy_threads", "unlink", "freed"} => active = {}
           /\ call'[c] \in {"unlink", "freed"} => nthreads = 0 \/ (idle = 0 /\ late),
         waitcv' # {} /\ ~Freed' => "POOL_WAIT" \in flags' /\ Outstanding(queue', active),
         busycv' # {} => "POOL_DESTROY" \in flags' /\ nthreads # 0
  PROVE  IInv'
<1>1. TypeOK'
  BY DEF IInv, TypeOK
<1>2. CountersOK' /\ ActiveOK'
  BY DEF IInv, CountersOK, ActiveOK, In
<1>3. CallsOK'
  <2>1. (workcv \subseteq In({"waiting", "lingering"}))'
    BY DEF IInv, CallsOK, In
  <2>2. nthreads = 0 => idle = 0
    BY NoneIdle
  <2> QED BY <2>1, <2>2 DEF CallsOK, Destroying
<1>4. NoLostNotify' /\ LastWorkerWakes'
  BY DEF NoLostNotify, LastWorkerWakes, Outstanding, Destroying
<1> QED BY <1>1, <1>2, <1>3, <1>4 DEF IInv

(* The invariant restated for the client steps. *)
LEMMA ClientFacts ==
  ASSUME IInv
  PROVE  /\ TypeOK
         /\ waitcv \subseteq {c \in Clients : call[c] \in {"wait", "destroy_active"}}
         /\ busycv \subseteq {c \in Clients : call[c] = "destroy_threads"}
         /\ \A c \in Clients :
              /\ call[c] \notin {"out", "wait", "gone"} =>
                   Destroying /\ \A d \in Clients \ {c} : call[d] \in {"out", "wait", "gone"}
              /\ call[c] \in {"destroy_threads", "unlink", "freed"} => active = {}
              /\ call[c] \in {"unlink", "freed"} => idle = 0 /\ (nthreads = 0 \/ late)
         /\ waitcv # {} /\ ~Freed => "POOL_WAIT" \in flags /\ Outstanding(queue, active)
         /\ busycv # {} => Destroying /\ nthreads # 0
BY DEF IInv, CallsOK, NoLostNotify, LastWorkerWakes

LEMMA WaitLoopStep ==
  ASSUME IInv, NEW c \in Clients, call[c] \in {"out", "wait"}, WaitLoop(c),
         owed' \in [Clients -> SUBSET Jobs], ~Freed,
         c \notin waitcv,
         UNCHANGED <<queue, active, nthreads, idle, workcv, busycv, thread, job,
                     cancelled, ended, discarded, late>>
  PROVE  IInv'
<1>1. \A st \in {"out", "wait"} : call' = [call EXCEPT ![c] = st] =>
        /\ call' \in [Clients -> CallState]
        /\ \A d \in Clients \ {c} : call'[d] = call[d]
        /\ call'[c] = st
  BY ClientFacts DEF TypeOK, CallState
<1>2. c \notin busycv
  BY ClientFacts
<1>3. CASE Outstanding(queue, active)
  <2>1. /\ flags' = flags \cup {"POOL_WAIT"} /\ waitcv' = waitcv \cup {c}
        /\ call' = [call EXCEPT ![c] = "wait"]
    BY <1>3 DEF WaitLoop
  <2>2. ASSUME NEW d \in Clients
        PROVE  /\ call'[d] \notin {"out", "wait", "gone"} =>
                    /\ "POOL_DESTROY" \in flags'
                    /\ \A e \in Clients \ {d} : call'[e] \in {"out", "wait", "gone"}
               /\ call'[d] \in {"destroy_threads", "unlink", "freed"} => active = {}
               /\ call'[d] \in {"unlink", "freed"} => nthreads = 0 \/ (idle = 0 /\ late)
    BY <1>1, <2>1, ClientFacts DEF Destroying
  <2>3. /\ \A d \in waitcv' : call'[d] \in {"wait", "destroy_active"}
        /\ \A d \in busycv' : call'[d] = "destroy_threads"
        /\ busycv' # {} => "POOL_DESTROY" \in flags' /\ nthreads # 0
    BY <1>1, <1>2, <2>1, ClientFacts DEF TypeOK, Destroying
  <2>4. waitcv' \subseteq Clients /\ busycv' \subseteq Clients
        /\ flags' \subseteq {"POOL_WAIT", "POOL_DESTROY"}
    BY <2>1, ClientFacts DEF TypeOK
  <2>5. waitcv' # {} /\ ~Freed' => "POOL_WAIT" \in flags' /\ Outstanding(queue', active)
    BY <1>3, <2>1 DEF Outstanding
  <2> QED BY <1>1, <2>1, <2>2, <2>3, <2>4, <2>5, ClientFacts, ClientEffect DEF TypeOK
<1>4. CASE ~Outstanding(queue, active)
  <2>1. call' = [call EXCEPT ![c] = "out"] /\ flags' = flags /\ waitcv' = waitcv
    BY <1>4 DEF WaitLoop
  <2>2. ASSUME NEW d \in Clients
        PROVE  /\ call'[d] \notin {"out", "wait", "gone"} =>
                    /\ "POOL_DESTROY" \in flags'
                    /\ \A e \in Clients \ {d} : call'[e] \in {"out", "wait", "gone"}
               /\ call'[d] \in {"destroy_threads", "unlink", "freed"} => active = {}
               /\ call'[d] \in {"unlink", "freed"} => nthreads = 0 \/ (idle = 0 /\ late)
    BY <1>1, <2>1, ClientFacts DEF Destroying
  <2>3. waitcv' = {}
    BY <1>4, <2>1, ClientFacts
  <2>4. /\ \A d \in busycv' : call'[d] = "destroy_threads"
        /\ busycv' # {} => "POOL_DESTROY" \in flags' /\ nthreads # 0
    BY <1>1, <1>2, <2>1, ClientFacts DEF TypeOK, Destroying
  <2> QED BY <1>1, <2>1, <2>2, <2>3, <2>4, ClientFacts, ClientEffect DEF TypeOK
<1> QED BY <1>3, <1>4

LEMMA WaitStep ==
  ASSUME IInv, NEW c \in Clients, Wait(c) \/ ResumeWait(c)
  PROVE  IInv'
<1>1. CASE Wait(c)
  <2>1. Elems(queue) \cup RunningJobs \subseteq Jobs
    <3>1. Elems(queue) \subseteq Jobs
      BY ClientFacts DEF TypeOK, Elems
    <3>2. \A w \in In({"running"}) : job[w] \in Jobs
      BY ClientFacts, Vocabulary DEF IInv, TypeOK, In, BusyOf, BusyStates
    <3> QED BY <3>1, <3>2 DEF RunningJobs
  <2>2. owed' \in [Clients -> SUBSET Jobs]
    BY <1>1, <2>1, ClientFacts DEF Wait, TypeOK
  <2>3. c \notin waitcv
    BY <1>1, ClientFacts DEF Wait
  <2> QED BY <1>1, <2>2, <2>3, WaitLoopStep DEF Wait
<1>2. CASE ResumeWait(c)
  BY <1>2, ClientFacts, WaitLoopStep DEF ResumeWait, hist, TypeOK
<1> QED BY <1>1, <1>2

(* The destroyer moves on while every other client is out, waiting or gone:
   fl is pool_flags at the test of the loop. *)
LEMMA DestroyLoopStep ==
  ASSUME IInv, NEW c \in Clients, NEW fl, DestroyLoop(c, fl),
         fl \subseteq {"POOL_WAIT", "POOL_DESTROY"}, "POOL_DESTROY" \in fl,
         flags \subseteq fl,
         \A d \in Clients \ {c} : call[d] \in {"out", "wait", "gone"},
         call[c] \in {"out", "destroy_active"}, c \notin waitcv,
         workcv' \subseteq workcv, cancelled' \subseteq Workers,
         UNCHANGED <<queue, active, nthreads, idle, thread, job, owed, ended, discarded, late>>
  PROVE  IInv'
<1>1. TypeOK /\ busycv = {} /\ ~Freed
  BY ClientFacts DEF Freed
<1>2. \A st \in {"destroy_active", "destroy_threads", "unlink"} :
        call' = [call EXCEPT ![c] = st] =>
          /\ call' \in [Clients -> CallState] /\ ~Freed'
          /\ \A d \in Clients \ {c} : call'[d] = call[d] /\ call'[d] \in {"out", "wait", "gone"}
          /\ call'[c] = st
  BY <1>1 DEF TypeOK, CallState, Freed
<1>3. waitcv # {} => "POOL_WAIT" \in fl /\ Outstanding(queue, active)
  BY <1>1, ClientFacts
<1>4. \A d \in waitcv : call[d] = "wait" /\ d # c
  BY ClientFacts
<1>5. CASE active # {}
  <2>1. /\ flags' = fl \cup {"POOL_WAIT"} /\ waitcv' = waitcv \cup {c} /\ busycv' = {}
        /\ call' = [call EXCEPT ![c] = "destroy_active"]
    BY <1>1, <1>5 DEF DestroyLoop
  <2>2. \A d \in waitcv' : call'[d] \in {"wait", "destroy_active"}
    BY <1>2, <1>4, <2>1, <1>1 DEF TypeOK
  <2> QED BY <1>1, <1>2, <1>5, <2>1, <2>2, ClientEffect DEF TypeOK, Outstanding
<1>6. CASE active = {} /\ nthreads # 0
  <2>1. /\ flags' = fl /\ waitcv' = waitcv /\ busycv' = {c}
        /\ call' = [call EXCEPT ![c] = "destroy_threads"]
    BY <1>1, <1>6 DEF DestroyLoop
  <2>2. \A d \in waitcv' : call'[d] \in {"wait", "destroy_active"}
    BY <1>2, <1>4, <1>6, <2>1, <1>1 DEF TypeOK
  <2> QED BY <1>1, <1>2, <1>3, <1>6, <2>1, <2>2, ClientEffect DEF TypeOK
<1>7. CASE active = {} /\ nthreads = 0
  <2>1. /\ flags' = fl /\ waitcv' = waitcv /\ busycv' = {}
        /\ call' = [call EXCEPT ![c] = "unlink"]
    BY <1>1, <1>7 DEF DestroyLoop
  <2>2. \A d \in waitcv' : call'[d] \in {"wait", "destroy_active"}
    BY <1>2, <1>4, <1>7, <2>1, <1>1 DEF TypeOK
  <2> QED BY <1>1, <1>2, <1>3, <1>7, <2>1, <2>2, ClientEffect DEF TypeOK
<1> QED BY <1>5, <1>6, <1>7

LEMMA DestroyStep ==
  ASSUME IInv, NEW c \in Clients,
         Destroy(c) \/ ResumeDestroyActive(c) \/ ResumeDestroyThreads(c) \/ FreePool(c)
  PROVE  IInv'
<1>1. CASE Destroy(c)
  <2>1. /\ call[c] = "out" /\ ~Destroying
        /\ DestroyLoop(c, flags \cup {"POOL_DESTROY"})
        /\ workcv' = {} /\ cancelled' = active
        /\ UNCHANGED <<queue, active, nthreads, idle, thread, job, owed, ended, discarded, late>>
    BY <1>1 DEF Destroy, ToCancel, hist
  <2>2. c \notin waitcv /\ \A d \in Clients : call[d] \in {"out", "wait", "gone"}
    BY <2>1, ClientFacts
  <2>3. /\ flags \cup {"POOL_DESTROY"} \subseteq {"POOL_WAIT", "POOL_DESTROY"}
        /\ cancelled' \subseteq Workers
    BY <2>1, ClientFacts DEF TypeOK
  <2> QED BY <2>1, <2>2, <2>3, DestroyLoopStep
<1>2. CASE ResumeDestroyActive(c)
  <2>1. /\ call[c] = "destroy_active" /\ c \notin waitcv /\ DestroyLoop(c, flags)
        /\ UNCHANGED <<queue, active, nthreads, idle, workcv, thread, job, cancelled,
                       owed, ended, discarded, late>>
    BY <1>2 DEF ResumeDestroyActive, hist
  <2>2. Destroying /\ \A d \in Clients \ {c} : call[d] \in {"out", "wait", "gone"}
    BY <2>1, ClientFacts
  <2> QED BY <2>1, <2>2, ClientFacts, DestroyLoopStep DEF TypeOK, Destroying
<1>3. CASE ResumeDestroyThreads(c)
  <2>1. /\ call[c] = "destroy_threads" /\ c \notin busycv
        /\ UNCHANGED <<queue, active, flags, nthreads, idle, workcv, waitcv, thread, job,
                       cancelled, owed, ended, discarded, late>>
    BY <1>3 DEF ResumeDestroyThreads, pool, hist
  <2>2. /\ Destroying /\ active = {}
        /\ \A d \in Clients \ {c} : call[d] \in {"out", "wait", "gone"}
        /\ busycv = {} /\ \A d \in waitcv : d # c /\ call[d] \in {"wait", "destroy_active"}
    BY <2>1, ClientFacts
  <2>3. ~Freed
    BY <2>1, <2>2 DEF Freed
  <2>4. CASE nthreads # 0
    <3>1. busycv' = {c} /\ call' = call
      BY <1>3, <2>2, <2>4 DEF ResumeDestroyThreads
    <3>2. ~Freed'
      BY <2>3, <3>1 DEF Freed
    <3> QED BY <2>1, <2>2, <2>3, <2>4, <3>1, <3>2, ClientFacts, ClientEffect
            DEF TypeOK, Destroying
  <2>5. CASE nthreads = 0
    <3>1. busycv' = {} /\ call' = [call EXCEPT ![c] = "unlink"]
      BY <1>3, <2>2, <2>5 DEF ResumeDestroyThreads
    <3>2. call' \in [Clients -> CallState] /\ call'[c] = "unlink"
          /\ \A d \in Clients \ {c} : call'[d] = call[d]
      BY <2>2, <3>1, ClientFacts DEF TypeOK, CallState
    <3> QED BY <2>1, <2>2, <2>3, <2>5, <3>1, <3>2, ClientFacts, ClientEffect
            DEF TypeOK, Destroying
  <2> QED BY <2>4, <2>5
<1>4. CASE FreePool(c)
  <2>1. /\ call[c] = "unlink" /\ queue' = <<>> /\ discarded' = discarded \cup Elems(queue)
        /\ call' = [call EXCEPT ![c] = "freed"]
        /\ UNCHANGED <<active, flags, nthreads, idle, workcv, waitcv, busycv, thread, job,
                       cancelled, owed, ended, late>>
    BY <1>4 DEF FreePool, cvs
  <2>2. /\ Destroying /\ active = {} /\ idle = 0 /\ (nthreads = 0 \/ late)
        /\ \A d \in Clients \ {c} : call[d] \in {"out", "wait", "gone"}
        /\ busycv = {} /\ \A d \in waitcv : d # c /\ call[d] \in {"wait", "destroy_active"}
    BY <2>1, ClientFacts
  <2>3. queue' \in Seq(Jobs) /\ discarded' \subseteq Jobs
    BY <2>1, ClientFacts DEF TypeOK, Elems
  <2>4. call' \in [Clients -> CallState] /\ call'[c] = "freed" /\ Freed'
        /\ \A d \in Clients \ {c} : call'[d] = call[d]
    BY <2>1, <2>2, ClientFacts DEF TypeOK, CallState, Freed
  <2> QED BY <2>1, <2>2, <2>3, <2>4, ClientFacts, ClientEffect DEF TypeOK, Destroying
<1> QED BY <1>1, <1>2, <1>3, <1>4

LEMMA CancelCallStep ==
  ASSUME IInv, NEW c \in Clients, CancelCall(c)
  PROVE  IInv'
<1>1. /\ waitcv' = waitcv \ {c} /\ busycv' = busycv \ {c} /\ ~Freed
      /\ call' = [call EXCEPT ![c] = "gone"]
      /\ UNCHANGED <<queue, active, flags, nthreads, idle, workcv, thread, job,
                     cancelled, owed, ended, discarded, late>>
  BY DEF CancelCall, pool, hist
<1>2. call' \in [Clients -> CallState] /\ call'[c] = "gone"
      /\ \A d \in Clients \ {c} : call'[d] = call[d]
  BY <1>1, ClientFacts DEF TypeOK, CallState
<1> QED BY <1>1, <1>2, ClientFacts, ClientEffect DEF TypeOK, Destroying

LEMMA SpuriousWakeupStep ==
  ASSUME IInv, SpuriousWakeup
  PROVE  IInv'
<1>1. /\ workcv' \subseteq workcv /\ waitcv' \subseteq waitcv /\ busycv' \subseteq busycv
      /\ ~Freed
      /\ UNCHANGED <<queue, active, flags, nthreads, idle, thread, job, cancelled, call,
                     owed, ended, discarded, late>>
  BY DEF SpuriousWakeup, pool, hist
<1> QED BY <1>1, ClientFacts, ClientEffect DEF TypeOK, Destroying

-----------------------------------------------------------------------------
(* The invariant holds in every reachable state of the pool. *)
LEMMA InitInvariant == Init => IInv
<1> SUFFICES ASSUME Init PROVE IInv
  OBVIOUS
<1>1. Live(thread) = {} /\ IdleOf(thread) = {} /\ BusyOf(thread) = {}
  BY DEF Init, Live, IdleOf, BusyOf, IdleStates, BusyStates
<1>2. Cardinality({}) = 0
  BY FS_EmptySet
<1>3. CountersOK /\ ActiveOK
  <2>1. nthreads = Cardinality(Live(thread)) /\ idle = Cardinality(IdleOf(thread))
    BY <1>1, <1>2 DEF Init
  <2>2. nthreads <= Maximum
    BY PoolAssumption DEF Init
  <2>3. active = BusyOf(thread) /\ \A w \in active : job[w] # None
    BY <1>1 DEF Init
  <2> QED BY <2>1, <2>2, <2>3, Vocabulary
<1>4. TypeOK
  <2>1. late \in BOOLEAN
    BY DEF Init
  <2> QED BY <2>1 DEF Init, TypeOK, ThreadState, CallState
<1> QED BY <1>3, <1>4 DEF Init, IInv, CallsOK, NoLostNotify, LastWorkerWakes

LEMMA NextInvariant == IInv /\ [Next]_vars => IInv'
<1> SUFFICES ASSUME IInv, [Next]_vars PROVE IInv'
  OBVIOUS
<1>1. ASSUME NEW w \in Workers, WorkerStep(w) PROVE IInv'
  BY <1>1, StartStep, ResumeStep, TimedOutStep, JobCleanupStep, ExitCleanupStep DEF WorkerStep
<1>2. ASSUME NEW w \in Workers, LingerOver(w) \/ Return(w) \/ Exit(w) \/ Cancel(w) PROVE IInv'
  BY <1>2, QuietWorkerStep
<1>3. ASSUME NEW j \in Jobs, Queue(j) PROVE IInv'
  BY <1>3, QueueStep
<1>4. ASSUME NEW c \in Clients, Wait(c) \/ Destroy(c) \/ ClientStep(c) \/ CancelCall(c) PROVE IInv'
  BY <1>4, WaitStep, DestroyStep, CancelCallStep DEF ClientStep
<1>5. CASE SpuriousWakeup
  BY <1>5, SpuriousWakeupStep
<1>6. CASE UNCHANGED vars
  BY <1>6 DEF vars, pool, cvs, hist, IInv, TypeOK, CountersOK, ActiveOK, CallsOK, In,
              NoLostNotify, LastWorkerWakes, Outstanding, Destroying, Freed
<1> QED BY <1>1, <1>2, <1>3, <1>4, <1>5, <1>6 DEF Next

THEOREM Invariance == Spec => []IInv
BY InitInvariant, NextInvariant, PTL DEF Spec

(* Every variable of the pool keeps its type. *)
THEOREM TypesKept == Spec => []TypeOK
<1>1. IInv => TypeOK
  BY DEF IInv
<1> QED BY <1>1, Invariance, PTL

(* The counters of struct thr_pool are exact, whether pthread_create fails or
   not: thr_pool_queue and thr_pool_destroy decide by them. *)
THEOREM CountersExact == Spec => []CountersOK
<1>1. IInv => CountersOK
  BY DEF IInv
<1> QED BY <1>1, Invariance, PTL

(* The active list holds exactly the workers inside a job. *)
THEOREM ActiveListExact == Spec => []ActiveOK
<1>1. IInv => ActiveOK
  BY DEF IInv
<1> QED BY <1>1, Invariance, PTL

(* No wakeup is lost on pool_waitcv or pool_busycv, for any number of threads
   and clients and in spite of spurious wakeups and cancelled waiters. *)
THEOREM WaitersAreWoken == Spec => []CallersAreWoken
<1>1. IInv => CallersAreWoken
  BY DEF IInv, CallersAreWoken
<1> QED BY <1>1, Invariance, PTL

(* When thr_pool_destroy gives up the mutex for good every worker it could have
   known of is dead, whatever calls other clients are in; a worker alive then or
   later was created by a thr_pool_queue that came after that. *)
THEOREM FreedIsQuiet == Spec => []FreedMeansQuiet
<1>1. IInv => FreedMeansQuiet
  <2> SUFFICES ASSUME IInv, NEW c \in Clients, call[c] \in {"unlink", "freed"}
               PROVE  /\ In(ThreadState \ {"none", "starting"}) = {}
                      /\ In({"starting"}) # {} => late
    BY DEF FreedMeansQuiet
  <2>1. active = {} /\ idle = 0 /\ (nthreads = 0 \/ late)
    BY ClientFacts
  <2>2. IdleOf(thread) = {} /\ BusyOf(thread) = {}
    <3>1. idle = Cardinality(IdleOf(thread)) /\ active = BusyOf(thread)
      BY Vocabulary DEF IInv
    <3> QED BY <2>1, <3>1, ThreadSetsFinite, FS_EmptySet
  <2>3. In(ThreadState \ {"none", "starting"}) = {}
    BY <2>2 DEF In, IdleOf, BusyOf, IdleStates, BusyStates, ThreadState
  <2>4. CASE nthreads = 0
    BY <2>3, <2>4, NoneIdle DEF In, Live
  <2> QED BY <2>1, <2>3, <2>4
<1> QED BY <1>1, Invariance, PTL

-----------------------------------------------------------------------------
(***************************************************************************)
(* The thread pool implements PoolService and overlooks no queued job.     *)
(***************************************************************************)
Running == In({"running"})
Awake   == In({"starting", "timedout"}) \cup (In({"waiting", "lingering"}) \ workcv)

(* A job is in one place: once in the queue, or with one worker. *)
JobsOnce ==
  /\ \A i, k \in DOMAIN queue : queue[i] = queue[k] => i = k
  /\ Elems(queue) \cap RunningJobs = {}
  /\ \A v, w \in Running : job[v] = job[w] => v = w

(* What a caller of thr_pool_wait waits for is still to come or over, until
   thr_pool_destroy discards it. *)
OwedOK ==
  ~Freed => \A c \in Clients :
    call[c] = "wait" => owed[c] \subseteq Elems(queue) \cup RunningJobs \cup ended

(* thr_pool_destroy's broadcast leaves nobody asleep, and nobody goes to sleep
   after it. *)
NobodySleepsOn == Destroying => workcv = {}

(* The inductive invariant. *)
JInv == IInv /\ JobsOnce /\ OwedOK /\ NobodySleepsOn /\ NoLostJobSignal

-----------------------------------------------------------------------------
(* The elements of a queue when a job is appended, and when the first is taken. *)
LEMMA Appended ==
  ASSUME NEW q \in Seq(Jobs), NEW j \in Jobs
  PROVE  /\ Elems(Append(q, j)) = Elems(q) \cup {j}
         /\ Len(Append(q, j)) = Len(q) + 1
         /\ (\A i, k \in DOMAIN q : q[i] = q[k] => i = k) /\ j \notin Elems(q) =>
              \A i, k \in DOMAIN Append(q, j) : Append(q, j)[i] = Append(q, j)[k] => i = k
<1> DEFINE a == Append(q, j)
<1>1. /\ DOMAIN q = 1..Len(q) /\ Len(q) \in Nat
      /\ DOMAIN a = 1..Len(q) + 1 /\ Len(a) = Len(q) + 1
      /\ \A i \in 1..Len(q) : a[i] = q[i]
      /\ a[Len(q) + 1] = j
  OBVIOUS
<1> HIDE DEF a
<1>2. Elems(a) = Elems(q) \cup {j}
  <2>1. \A i \in DOMAIN a : a[i] \in Elems(q) \cup {j}
    BY <1>1 DEF Elems
  <2>2. \A i \in DOMAIN q : q[i] \in Elems(a)
    BY <1>1 DEF Elems
  <2>3. j \in Elems(a)
    BY <1>1 DEF Elems
  <2> QED BY <2>1, <2>2, <2>3 DEF Elems
<1>3. ASSUME \A i, k \in DOMAIN q : q[i] = q[k] => i = k, j \notin Elems(q),
             NEW i \in DOMAIN a, NEW k \in DOMAIN a, a[i] = a[k]
      PROVE  i = k
  BY <1>1, <1>3 DEF Elems
<1> QED BY <1>1, <1>2, <1>3 DEF a

LEMMA Taken ==
  ASSUME NEW q \in Seq(Jobs), q # <<>>
  PROVE  /\ Tail(q) \in Seq(Jobs) /\ Head(q) \in Jobs
         /\ Len(q) \in Nat /\ Len(Tail(q)) = Len(q) - 1
         /\ Elems(q) = Elems(Tail(q)) \cup {Head(q)}
         /\ (\A i, k \in DOMAIN q : q[i] = q[k] => i = k) =>
              /\ \A i, k \in DOMAIN Tail(q) : Tail(q)[i] = Tail(q)[k] => i = k
              /\ Head(q) \notin Elems(Tail(q))
<1> DEFINE t == Tail(q)
<1>1. /\ Len(q) \in Nat \ {0} /\ DOMAIN q = 1..Len(q)
      /\ t \in Seq(Jobs) /\ Head(q) \in Jobs /\ Head(q) = q[1]
      /\ Len(t) = Len(q) - 1 /\ DOMAIN t = 1..Len(q) - 1
      /\ \A i \in 1..Len(q) - 1 : t[i] = q[i + 1]
  OBVIOUS
<1> HIDE DEF t
<1>2. Elems(q) = Elems(t) \cup {Head(q)}
  <2>1. \A i \in DOMAIN q : q[i] \in Elems(t) \cup {q[1]}
    <3> SUFFICES ASSUME NEW i \in DOMAIN q, i # 1 PROVE q[i] \in Elems(t)
      OBVIOUS
    <3>1. i - 1 \in DOMAIN t /\ t[i - 1] = q[i]
      BY <1>1
    <3> QED BY <3>1 DEF Elems
  <2>2. \A i \in DOMAIN t : t[i] \in Elems(q)
    BY <1>1 DEF Elems
  <2>3. q[1] \in Elems(q)
    BY <1>1 DEF Elems
  <2> QED BY <1>1, <2>1, <2>2, <2>3 DEF Elems
<1>3. ASSUME \A i, k \in DOMAIN q : q[i] = q[k] => i = k
      PROVE  /\ \A i, k \in DOMAIN t : t[i] = t[k] => i = k
             /\ Head(q) \notin Elems(t)
  <2>1. ASSUME NEW i \in DOMAIN t, NEW k \in DOMAIN t, t[i] = t[k] PROVE i = k
    <3>1. i + 1 = k + 1
      BY <1>1, <1>3, <2>1
    <3> QED BY <1>1, <3>1
  <2>2. ASSUME NEW i \in DOMAIN t, t[i] = Head(q) PROVE FALSE
    <3>1. i + 1 = 1
      BY <1>1, <1>3, <2>2
    <3> QED BY <1>1, <3>1
  <2> QED BY <2>1, <2>2 DEF Elems
<1> QED BY <1>1, <1>2, <1>3 DEF t

(* Sets of awake workers are finite and grow with their elements. *)
LEMMA AwakeCounts ==
  ASSUME NEW S \in SUBSET Workers, NEW T \in SUBSET Workers
  PROVE  /\ Cardinality(S) \in Nat
         /\ S \subseteq T => Cardinality(S) <= Cardinality(T)
         /\ \A w : w \in S => Cardinality(S \ {w}) = Cardinality(S) - 1
         /\ \A w : w \notin S => Cardinality(S \cup {w}) = Cardinality(S) + 1
<1>1. IsFiniteSet(S) /\ IsFiniteSet(T)
  BY PoolAssumption, FS_Subset
<1>2. Cardinality(S) \in Nat
  BY <1>1, FS_CardinalityType
<1>3. S \subseteq T => Cardinality(S) <= Cardinality(T)
  BY <1>1, FS_Subset
<1> QED BY <1>1, <1>2, <1>3, CountStep

-----------------------------------------------------------------------------
(* The steps of a worker, as the queue and the running jobs see them: it begins
   the first job, or it begins nothing. *)
BeginsJob(w) ==
  /\ ~Destroying /\ queue # <<>>
  /\ queue' = Tail(queue)
  /\ job' = [job EXCEPT ![w] = Head(queue)]
  /\ thread' = [thread EXCEPT ![w] = "running"]
  /\ workcv' = workcv

BeginsNothing ==
  /\ queue' = queue /\ Running' = Running
  /\ \A v \in Running : job'[v] = job[v]
  /\ \/ Destroying /\ workcv' = workcv
     \/ ~Destroying /\ queue = <<>>
     \/ ~Destroying /\ Awake \subseteq Awake' /\ workcv' = workcv

LEMMA WorkerLoopKinds ==
  ASSUME TypeOK, NEW w \in Workers, thread[w] \notin {"none", "running"},
         NEW act, NEW i, NEW linger, WorkerLoop(w, act, i, linger)
  PROVE  BeginsJob(w) \/ BeginsNothing
<1>1. CASE ~Destroying /\ queue # <<>> /\ TakeJob(w, act, i)
  BY <1>1 DEF TakeJob, BeginsJob
<1>2. CASE LeaveLoop(w, act, i) /\ (Destroying \/ queue = <<>>)
  <2>1. /\ queue' = queue /\ workcv' = workcv /\ job' = [job EXCEPT ![w] = None]
        /\ WorkerCleanup(w)
    BY <1>2 DEF LeaveLoop
  <2>2. \A v \in Workers : thread'[v] = "running" <=> thread[v] = "running"
    BY <2>1 DEF WorkerCleanup, CreateWorker, TypeOK
  <2> QED BY <1>2, <2>1, <2>2 DEF BeginsNothing, Running, In, TypeOK
<1>3. ASSUME ~Destroying, queue = <<>>, NEW state \in {"waiting", "lingering"},
             Sleep(w, act, i, state)
      PROVE  BeginsNothing
  BY <1>3 DEF Sleep, BeginsNothing, Running, In, TypeOK
<1> QED BY <1>1, <1>2, <1>3 DEF WorkerLoop

LEMMA WorkerKinds ==
  ASSUME TypeOK, NEW w \in Workers, WorkerStep(w)
  PROVE  /\ \/ BeginsJob(w) /\ thread[w] \in {"starting", "timedout", "returned"}
            \/ BeginsJob(w) /\ thread[w] \in {"waiting", "lingering"} /\ w \notin workcv
            \/ BeginsNothing
         /\ Destroying' = Destroying
         /\ UNCHANGED <<call, owed, ended, discarded>>
<1>1. CASE ExitCleanup(w)
  <2>1. /\ thread[w] = "exited" /\ WorkerCleanup(w) /\ NotifyWaiters(active \ {w})
        /\ job' = [job EXCEPT ![w] = None]
        /\ UNCHANGED <<queue, workcv, call, owed, ended, discarded>>
    BY <1>1 DEF ExitCleanup, hist
  <2>2. \A v \in Workers : /\ thread'[v] = "running" <=> thread[v] = "running"
                           /\ thread[v] \notin {"none", "exited"} => thread'[v] = thread[v]
    BY <2>1 DEF WorkerCleanup, CreateWorker, TypeOK
  <2>3. BeginsNothing
    BY <2>1, <2>2 DEF BeginsNothing, Running, Awake, In, TypeOK
  <2> QED BY <2>1, <2>3 DEF NotifyWaiters, Destroying
<1>2. CASE Start(w)
  BY <1>2, WorkerLoopKinds DEF Start, hist, NotifyWaiters, Destroying
<1>3. CASE Resume(w)
  BY <1>3, WorkerLoopKinds DEF Resume, hist, Destroying
<1>4. CASE TimedOut(w)
  <2>1. /\ thread[w] = "timedout" /\ WorkerLoop(w, active, idle, FALSE)
        /\ NotifyWaiters(active) \/ flags' = flags
        /\ UNCHANGED <<call, owed, ended, discarded>>
    BY <1>4 DEF TimedOut, hist
  <2>2. Destroying' = Destroying
    BY <2>1 DEF NotifyWaiters, Destroying
  <2> QED BY <2>1, <2>2, WorkerLoopKinds
<1>5. CASE JobCleanup(w)
  BY <1>5, WorkerLoopKinds DEF JobCleanup, hist, NotifyWaiters, Destroying
<1> QED BY <1>1, <1>2, <1>3, <1>4, <1>5 DEF WorkerStep

-----------------------------------------------------------------------------
(* A worker that begins the first job of the queue. *)
LEMMA BeginsJobFacts ==
  ASSUME TypeOK, JobsOnce, NEW w \in Workers, thread[w] # "running", BeginsJob(w)
  PROVE  /\ Running' = Running \cup {w} /\ w \notin Running
         /\ RunningJobs' = RunningJobs \cup {Head(queue)}
         /\ Head(queue) \notin RunningJobs
         /\ Elems(queue) = Elems(queue') \cup {Head(queue)}
         /\ JobsOnce'
<1>1. /\ queue' = Tail(queue) /\ queue \in Seq(Jobs) /\ queue # <<>>
      /\ job' = [job EXCEPT ![w] = Head(queue)] /\ job \in [Workers -> Jobs \cup {None}]
      /\ thread' = [thread EXCEPT ![w] = "running"] /\ thread \in [Workers -> ThreadState]
  BY DEF BeginsJob, TypeOK
<1>2. /\ Elems(queue) = Elems(queue') \cup {Head(queue)}
      /\ \A i, k \in DOMAIN queue' : queue'[i] = queue'[k] => i = k
      /\ Head(queue) \notin Elems(queue')
  BY <1>1, Taken DEF JobsOnce
<1>3. /\ Running' = Running \cup {w} /\ w \notin Running
      /\ job'[w] = Head(queue) /\ \A v \in Running : job'[v] = job[v]
  BY <1>1 DEF Running, In
<1>4. RunningJobs' = RunningJobs \cup {Head(queue)}
  BY <1>3 DEF RunningJobs, Running
<1>5. Head(queue) \notin RunningJobs
  BY <1>2 DEF JobsOnce
<1>6. JobsOnce'
  <2>1. (Elems(queue) \cap RunningJobs)' = {}
    BY <1>2, <1>4 DEF JobsOnce
  <2>2. \A u, v \in Running' : job'[u] = job'[v] => u = v
    BY <1>3, <1>5 DEF JobsOnce, RunningJobs, Running
  <2> QED BY <1>2, <2>1, <2>2 DEF JobsOnce
<1> QED BY <1>2, <1>3, <1>4, <1>5, <1>6

LEMMA BeginsNothingFacts ==
  ASSUME BeginsNothing
  PROVE  /\ queue' = queue /\ Running' = Running /\ RunningJobs' = RunningJobs
         /\ JobsOnce => JobsOnce'
<1>1. /\ queue' = queue /\ Running' = Running /\ \A v \in Running : job'[v] = job[v]
  BY DEF BeginsNothing
<1>2. RunningJobs' = RunningJobs
  BY <1>1 DEF RunningJobs, Running
<1> QED BY <1>1, <1>2 DEF JobsOnce

(* The end of a job function. *)
LEMMA JobOverFacts ==
  ASSUME TypeOK, JobsOnce, NEW w \in Workers, NEW state \in {"returned", "exited"},
         JobOver(w, state)
  PROVE  /\ queue' = queue /\ w \in Running
         /\ RunningJobs' = RunningJobs \ {job[w]}
         /\ ended' = ended \cup {job[w]} /\ job[w] \in RunningJobs
         /\ JobsOnce' /\ Awake' = Awake
         /\ UNCHANGED <<flags, workcv, call, owed, discarded>>
<1>1. /\ thread[w] = "running" /\ thread' = [thread EXCEPT ![w] = state]
      /\ ended' = ended \cup {job[w]}
      /\ UNCHANGED <<queue, flags, workcv, job, call, owed, discarded>>
  BY DEF JobOver, pool, cvs
<1>2. Running' = Running \ {w} /\ w \in Running /\ Awake' = Awake
  BY <1>1 DEF Running, Awake, In, TypeOK
<1>3. RunningJobs' = RunningJobs \ {job[w]}
  BY <1>1, <1>2 DEF RunningJobs, Running, JobsOnce
<1>4. JobsOnce'
  BY <1>1, <1>2, <1>3 DEF JobsOnce
<1> QED BY <1>1, <1>2, <1>3, <1>4 DEF RunningJobs, Running

(* thr_pool_queue adds a job that is nowhere yet, and sees to it that one more
   worker is on its way if any worker sleeps. *)
LEMMA QueueFacts ==
  ASSUME IInv, JobsOnce, NEW j \in Jobs, Queue(j)
  PROVE  /\ queue' = Append(queue, j) /\ Elems(queue') = Elems(queue) \cup {j}
         /\ j \notin Elems(queue) \cup RunningJobs \cup ended \cup discarded
         /\ Running' = Running /\ RunningJobs' = RunningJobs
         /\ JobsOnce'
         /\ UNCHANGED <<flags, call, owed, ended, discarded>>
<1>1. /\ Fresh(j) /\ queue' = Append(queue, j) /\ WakeOrCreate
      /\ UNCHANGED <<flags, job, call, owed, ended, discarded>>
      /\ queue \in Seq(Jobs) /\ thread \in [Workers -> ThreadState]
  BY DEF Queue, hist, IInv, TypeOK
<1>2. Running' = Running
  BY <1>1 DEF WakeOrCreate, CreateWorker, Running, In
<1>3. RunningJobs' = RunningJobs
  BY <1>1, <1>2 DEF RunningJobs, Running
<1>4. j \notin Elems(queue) \cup RunningJobs \cup ended \cup discarded
  BY <1>1 DEF Fresh, RunningJobs, Running, In
<1>5. Elems(queue') = Elems(queue) \cup {j}
  BY <1>1, Appended
<1>6. \A i, k \in DOMAIN queue' : queue'[i] = queue'[k] => i = k
  BY <1>1, <1>4, Appended DEF JobsOnce
<1>7. JobsOnce'
  BY <1>1, <1>2, <1>3, <1>4, <1>5, <1>6 DEF JobsOnce
<1> QED BY <1>1, <1>2, <1>3, <1>4, <1>5, <1>7

(* The other steps leave queue, running jobs and worker threads alone. *)
LEMMA ClientLeavesJobs ==
  ASSUME UNCHANGED <<queue, thread, job>>
  PROVE  /\ Running' = Running /\ RunningJobs' = RunningJobs
         /\ JobsOnce => JobsOnce'
BY DEF Running, RunningJobs, JobsOnce, In

-----------------------------------------------------------------------------
(* Two ways to keep a part of the invariant: no more workers asleep, no fewer
   awake; and no job lost from what the waiters wait for. *)
LEMMA SleepersKept ==
  ASSUME TypeOK, NoLostJobSignal, thread' \in [Workers -> ThreadState],
         queue' = queue, workcv' \subseteq workcv, Awake \subseteq Awake'
  PROVE  NoLostJobSignal'
<1> SUFFICES ASSUME workcv' # {} PROVE Len(queue) <= Cardinality(Awake')
  BY DEF NoLostJobSignal, Awake
<1>1. Len(queue) \in Nat /\ Len(queue) <= Cardinality(Awake)
  BY DEF NoLostJobSignal, Awake, TypeOK
<1>2. Awake \subseteq Workers /\ Awake' \subseteq Workers
  BY DEF Awake, In
<1>3. Cardinality(Awake) <= Cardinality(Awake')
  BY <1>2, AwakeCounts
<1>4. Cardinality(Awake) \in Nat /\ Cardinality(Awake') \in Nat
  BY <1>2, AwakeCounts
<1> QED BY <1>1, <1>3, <1>4

LEMMA OwedKept ==
  ASSUME OwedOK, owed' = owed, ~Freed' => ~Freed,
         \A c \in Clients : call'[c] = "wait" => call[c] = "wait",
         Elems(queue) \cup RunningJobs \cup ended
           \subseteq Elems(queue') \cup RunningJobs' \cup ended'
  PROVE  OwedOK'
BY DEF OwedOK

-----------------------------------------------------------------------------
LEMMA WorkerServes ==
  ASSUME JInv, IInv', NEW w \in Workers, WorkerStep(w)
  PROVE  JInv'
<1>1. /\ TypeOK /\ TypeOK' /\ JobsOnce /\ OwedOK /\ NobodySleepsOn /\ NoLostJobSignal
      /\ Destroying' = Destroying /\ UNCHANGED <<call, owed, ended, discarded>>
  BY WorkerKinds DEF JInv, IInv
<1>2. CASE BeginsNothing
  <2>1. /\ queue' = queue /\ RunningJobs' = RunningJobs /\ JobsOnce'
    BY <1>1, <1>2, BeginsNothingFacts
  <2>2. OwedOK'
    BY <1>1, <2>1, OwedKept DEF Freed
  <2>3. NobodySleepsOn'
    BY <1>1, <1>2 DEF NobodySleepsOn, BeginsNothing
  <2>4. NoLostJobSignal'
    <3>1. CASE Destroying
      BY <1>1, <2>3, <3>1 DEF NobodySleepsOn, NoLostJobSignal
    <3>2. CASE queue = <<>>
      <4>1. Awake' \subseteq Workers
        BY DEF Awake, In
      <4>2. Cardinality(Awake') \in Nat
        BY <4>1, AwakeCounts
      <4>3. Len(queue') = 0
        BY <2>1, <3>2
      <4> QED BY <4>2, <4>3 DEF NoLostJobSignal, Awake
    <3>3. CASE Awake \subseteq Awake' /\ workcv' = workcv
      BY <1>1, <2>1, <3>3, SleepersKept DEF TypeOK
    <3> QED BY <1>2, <3>1, <3>2, <3>3 DEF BeginsNothing
  <2> QED BY <2>1, <2>2, <2>3, <2>4 DEF JInv
<1>3. CASE /\ BeginsJob(w)
           /\ \/ thread[w] \in {"starting", "timedout", "returned"}
              \/ thread[w] \in {"waiting", "lingering"} /\ w \notin workcv
  <2>1. /\ RunningJobs' = RunningJobs \cup {Head(queue)} /\ JobsOnce'
        /\ Elems(queue) = Elems(queue') \cup {Head(queue)}
    BY <1>1, <1>3, BeginsJobFacts
  <2>2. OwedOK'
    BY <1>1, <2>1, OwedKept DEF Freed
  <2>3. NobodySleepsOn'
    BY <1>1, <1>3 DEF NobodySleepsOn, BeginsJob
  <2>4. NoLostJobSignal'
    <3>1. SUFFICES ASSUME workcv # {} PROVE Len(queue') <= Cardinality(Awake')
      BY <1>3 DEF NoLostJobSignal, Awake, BeginsJob
    <3>2. Awake \subseteq Workers /\ Awake' = Awake \ {w}
      BY <1>1, <1>3 DEF Awake, In, BeginsJob, TypeOK
    <3>3. Cardinality(Awake') >= Cardinality(Awake) - 1 /\ Cardinality(Awake) \in Nat
      <4>1. CASE w \in Awake
        BY <3>2, <4>1, AwakeCounts
      <4>2. CASE w \notin Awake
        <5>1. Awake' = Awake
          BY <3>2, <4>2
        <5> QED BY <3>2, <5>1, AwakeCounts
      <4> QED BY <4>1, <4>2
    <3>4. Cardinality(Awake') \in Nat
      BY <3>2, AwakeCounts
    <3>5. Len(queue) <= Cardinality(Awake)
      BY <1>1, <3>1 DEF NoLostJobSignal, Awake
    <3>6. Len(queue) \in Nat /\ Len(queue') = Len(queue) - 1
      BY <1>1, <1>3, Taken DEF BeginsJob, TypeOK
    <3> QED BY <3>3, <3>4, <3>5, <3>6
  <2> QED BY <2>1, <2>2, <2>3, <2>4 DEF JInv
<1> QED BY <1>1, <1>2, <1>3, WorkerKinds

LEMMA QuietWorkerServes ==
  ASSUME JInv, IInv', NEW w \in Workers, LingerOver(w) \/ Return(w) \/ Exit(w) \/ Cancel(w)
  PROVE  JInv'
<1>1. /\ TypeOK /\ TypeOK' /\ JobsOnce /\ OwedOK /\ NobodySleepsOn /\ NoLostJobSignal
  BY DEF JInv, IInv
<1>2. CASE LingerOver(w)
  <2>1. /\ thread[w] = "lingering" /\ w \in workcv
        /\ thread' = [thread EXCEPT ![w] = "timedout"] /\ workcv' = workcv \ {w}
        /\ UNCHANGED <<queue, flags, job, call, owed, ended>>
    BY <1>2 DEF LingerOver, pool, hist
  <2>2. Running' = Running /\ Awake \subseteq Awake'
    BY <1>1, <2>1 DEF Running, Awake, In, TypeOK
  <2>3. RunningJobs' = RunningJobs
    BY <2>1, <2>2 DEF RunningJobs, Running
  <2>4. JobsOnce'
    BY <1>1, <2>1, <2>2, <2>3 DEF JobsOnce
  <2>5. OwedOK'
    BY <1>1, <2>1, <2>3, OwedKept DEF Freed
  <2>6. NobodySleepsOn' /\ NoLostJobSignal'
    BY <1>1, <2>1, <2>2, SleepersKept DEF NobodySleepsOn, Destroying, TypeOK
  <2> QED BY <2>4, <2>5, <2>6 DEF JInv
<1>3. ASSUME NEW state \in {"returned", "exited"}, JobOver(w, state) PROVE JInv'
  <2>1. /\ queue' = queue /\ RunningJobs' = RunningJobs \ {job[w]}
        /\ ended' = ended \cup {job[w]} /\ JobsOnce' /\ Awake' = Awake
        /\ UNCHANGED <<flags, workcv, call, owed>>
    BY <1>1, <1>3, JobOverFacts
  <2>2. OwedOK'
    BY <1>1, <2>1, OwedKept DEF Freed
  <2>3. NobodySleepsOn' /\ NoLostJobSignal'
    BY <1>1, <2>1, SleepersKept DEF NobodySleepsOn, Destroying, TypeOK
  <2> QED BY <2>1, <2>2, <2>3 DEF JInv
<1> QED BY <1>2, <1>3 DEF Return, Exit, Cancel

LEMMA QueueServes ==
  ASSUME JInv, IInv', NEW j \in Jobs, Queue(j)
  PROVE  JInv'
<1>1. /\ IInv /\ TypeOK /\ TypeOK' /\ JobsOnce /\ OwedOK /\ NobodySleepsOn /\ NoLostJobSignal
      /\ workcv \subseteq In({"waiting", "lingering"})
  BY DEF JInv, IInv, CallsOK
<1>2. /\ queue' = Append(queue, j) /\ Elems(queue') = Elems(queue) \cup {j}
      /\ RunningJobs' = RunningJobs /\ JobsOnce'
      /\ UNCHANGED <<flags, call, owed, ended>>
  BY <1>1, QueueFacts
<1>3. WakeOrCreate /\ workcv' \subseteq workcv
  BY DEF Queue, WakeOrCreate, Signal
<1>4. OwedOK'
  BY <1>1, <1>2, OwedKept DEF Freed
<1>5. NobodySleepsOn'
  BY <1>1, <1>2, <1>3 DEF NobodySleepsOn, Destroying
<1>6. NoLostJobSignal'
  <2> SUFFICES ASSUME workcv' # {} PROVE Len(queue') <= Cardinality(Awake')
    BY DEF NoLostJobSignal, Awake
  <2>1. idle # 0
    <3>1. SUFFICES ASSUME idle = 0 PROVE FALSE
      OBVIOUS
    <3>2. IdleOf(thread) = {}
      BY <1>1, <3>1, Vocabulary, ThreadSetsFinite, FS_EmptySet DEF IInv
    <3> QED BY <1>1, <1>3, <3>2 DEF In, IdleOf, IdleStates
  <2>2. PICK t \in workcv : workcv' = workcv \ {t}
    BY <1>1, <1>3, <2>1 DEF WakeOrCreate, Signal, TypeOK
  <2>3. thread' = thread /\ t \in Workers
    BY <1>1, <1>3, <2>1 DEF WakeOrCreate, TypeOK
  <2>4. Awake' = Awake \cup {t} /\ t \notin Awake /\ Awake \subseteq Workers
    BY <1>1, <2>2, <2>3 DEF Awake, In
  <2>5. Cardinality(Awake') = Cardinality(Awake) + 1 /\ Cardinality(Awake) \in Nat
    BY <2>4, AwakeCounts
  <2>6. Len(queue') = Len(queue) + 1 /\ Len(queue) \in Nat
    BY <1>1, <1>2, Appended DEF TypeOK
  <2>7. Len(queue) <= Cardinality(Awake)
    BY <1>1, <2>2 DEF NoLostJobSignal, Awake
  <2> QED BY <2>5, <2>6, <2>7
<1> QED BY <1>2, <1>4, <1>5, <1>6 DEF JInv

LEMMA ClientServes ==
  ASSUME JInv, IInv', NEW c \in Clients, Wait(c) \/ Destroy(c) \/ ClientStep(c) \/ CancelCall(c)
  PROVE  JInv'
<1>1. /\ IInv /\ TypeOK /\ TypeOK' /\ JobsOnce /\ OwedOK /\ NobodySleepsOn /\ NoLostJobSignal
  BY DEF JInv, IInv
<1>2. CASE Destroy(c)
  <2>1. /\ DestroyLoop(c, flags \cup {"POOL_DESTROY"}) /\ workcv' = {}
        /\ ~Destroying /\ UNCHANGED <<queue, thread, job, owed, ended>>
    BY <1>2 DEF Destroy, hist
  <2>2. JobsOnce' /\ RunningJobs' = RunningJobs
    BY <1>1, <2>1, ClientLeavesJobs
  <2>3. \A d \in Clients : call'[d] = "wait" => call[d] = "wait"
    BY <1>1, <2>1 DEF DestroyLoop, TypeOK
  <2>4. ~Freed
    BY <1>1, <2>1, ClientFacts DEF Freed
  <2>5. OwedOK'
    BY <1>1, <2>1, <2>2, <2>3, <2>4, OwedKept
  <2> QED BY <2>1, <2>2, <2>5 DEF JInv, NobodySleepsOn, NoLostJobSignal
<1>3. CASE FreePool(c)
  <2>1. /\ call[c] = "unlink" /\ queue' = <<>> /\ call' = [call EXCEPT ![c] = "freed"]
        /\ UNCHANGED <<flags, workcv, thread, job, owed, ended>>
    BY <1>3 DEF FreePool, cvs
  <2>2. Freed'
    BY <1>1, <2>1 DEF TypeOK, Freed
  <2>3. Running' = Running /\ RunningJobs' = RunningJobs
    BY <2>1 DEF Running, RunningJobs, In
  <2>4. JobsOnce'
    BY <1>1, <2>1, <2>3 DEF JobsOnce, Elems
  <2>5. NobodySleepsOn' /\ workcv = {}
    BY <1>1, <2>1, ClientFacts DEF NobodySleepsOn, Destroying
  <2> QED BY <2>1, <2>2, <2>4, <2>5 DEF JInv, OwedOK, NoLostJobSignal
<1>4. CASE Wait(c) \/ ResumeWait(c) \/ ResumeDestroyActive(c) \/ ResumeDestroyThreads(c) \/ CancelCall(c)
  <2>1. UNCHANGED <<queue, workcv, thread, job, ended>> /\ Destroying' = Destroying
    <3>1. CASE Wait(c) \/ ResumeWait(c)
      BY <3>1 DEF Wait, ResumeWait, WaitLoop, Destroying, hist
    <3>2. CASE ResumeDestroyActive(c)
      BY <3>2 DEF ResumeDestroyActive, DestroyLoop, Destroying, hist
    <3>3. CASE ResumeDestroyThreads(c) \/ CancelCall(c)
      BY <3>3 DEF ResumeDestroyThreads, CancelCall, Destroying, pool, hist
    <3> QED BY <1>4, <3>1, <3>2, <3>3
  <2>2. JobsOnce' /\ RunningJobs' = RunningJobs /\ Awake' = Awake
    BY <1>1, <2>1, ClientLeavesJobs DEF Awake, In
  <2>3. OwedOK'
    <3> USE DEF Freed
    <3>1. CASE Wait(c)
      <4>1. /\ owed' = [owed EXCEPT ![c] = Elems(queue) \cup RunningJobs]
            /\ \A d \in Clients \ {c} : call'[d] = "wait" => call[d] = "wait"
        BY <1>1, <3>1 DEF Wait, WaitLoop, TypeOK
      <4>2. owed'[c] = Elems(queue) \cup RunningJobs /\ \A d \in Clients \ {c} : owed'[d] = owed[d]
        BY <1>1, <4>1 DEF TypeOK
      <4>3. ~Freed
        BY <3>1 DEF Wait
      <4> HIDE DEF Freed
      <4> QED BY <1>1, <2>1, <2>2, <4>1, <4>2, <4>3 DEF OwedOK
    <3>2. CASE ~Wait(c)
      <4>1. /\ owed' = owed
            /\ \A d \in Clients : /\ call'[d] = "wait" => call[d] = "wait"
                                  /\ call[d] = "freed" => call'[d] = "freed"
        <5>1. CASE ResumeWait(c)
          BY <1>1, <5>1 DEF ResumeWait, WaitLoop, hist, TypeOK
        <5>2. CASE ResumeDestroyActive(c)
          BY <1>1, <5>2 DEF ResumeDestroyActive, DestroyLoop, hist, TypeOK
        <5>3. CASE ResumeDestroyThreads(c) \/ CancelCall(c)
          BY <1>1, <5>3 DEF ResumeDestroyThreads, CancelCall, hist, TypeOK
        <5> QED BY <1>4, <3>2, <5>1, <5>2, <5>3
      <4>2. ~Freed' => ~Freed
        BY <4>1
      <4> HIDE DEF Freed
      <4> QED BY <1>1, <2>1, <2>2, <4>1, <4>2, OwedKept
    <3> QED BY <3>1, <3>2
  <2>4. NobodySleepsOn'
    BY <1>1, <2>1 DEF NobodySleepsOn
  <2>5. NoLostJobSignal'
    BY <1>1, <2>1, <2>2, SleepersKept DEF TypeOK
  <2> QED BY <2>2, <2>3, <2>4, <2>5 DEF JInv
<1> QED BY <1>2, <1>3, <1>4 DEF ClientStep

LEMMA SpuriousWakeupServes ==
  ASSUME JInv, IInv', SpuriousWakeup
  PROVE  JInv'
<1>1. /\ TypeOK /\ TypeOK' /\ JobsOnce /\ OwedOK /\ NobodySleepsOn /\ NoLostJobSignal
  BY DEF JInv, IInv
<1>2. /\ workcv' \subseteq workcv
      /\ UNCHANGED <<queue, flags, thread, job, call, owed, ended>>
  BY DEF SpuriousWakeup, pool, hist
<1>3. JobsOnce' /\ RunningJobs' = RunningJobs /\ Awake \subseteq Awake'
  BY <1>1, <1>2, ClientLeavesJobs DEF Awake, In
<1>4. OwedOK'
  BY <1>1, <1>2, <1>3, OwedKept DEF Freed
<1>5. NobodySleepsOn' /\ NoLostJobSignal'
  BY <1>1, <1>2, <1>3, SleepersKept DEF NobodySleepsOn, Destroying, TypeOK
<1> QED BY <1>3, <1>4, <1>5 DEF JInv

LEMMA InitServes == Init => JInv
<1> SUFFICES ASSUME Init PROVE JInv
  OBVIOUS
<1>1. queue = <<>> /\ Running = {} /\ RunningJobs = {} /\ Elems(queue) = {}
  BY DEF Init, Running, RunningJobs, In, Elems
<1>2. JobsOnce
  BY <1>1 DEF JobsOnce
<1>3. OwedOK /\ NobodySleepsOn /\ NoLostJobSignal
  BY DEF Init, OwedOK, NobodySleepsOn, NoLostJobSignal
<1> QED BY <1>2, <1>3, InitInvariant DEF JInv

LEMMA NextServes == JInv /\ [Next]_vars => JInv'
<1> SUFFICES ASSUME JInv, [Next]_vars PROVE JInv'
  OBVIOUS
<1>1. IInv'
  BY NextInvariant DEF JInv
<1>2. ASSUME NEW w \in Workers, WorkerStep(w) PROVE JInv'
  BY <1>1, <1>2, WorkerServes
<1>3. ASSUME NEW w \in Workers, LingerOver(w) \/ Return(w) \/ Exit(w) \/ Cancel(w) PROVE JInv'
  BY <1>1, <1>3, QuietWorkerServes
<1>4. ASSUME NEW j \in Jobs, Queue(j) PROVE JInv'
  BY <1>1, <1>4, QueueServes
<1>5. ASSUME NEW c \in Clients, Wait(c) \/ Destroy(c) \/ ClientStep(c) \/ CancelCall(c) PROVE JInv'
  BY <1>1, <1>5, ClientServes
<1>6. CASE SpuriousWakeup
  BY <1>1, <1>6, SpuriousWakeupServes
<1>7. CASE UNCHANGED vars
  <2>1. UNCHANGED <<queue, flags, workcv, thread, job, call, owed, ended>>
    BY <1>7 DEF vars, pool, cvs, hist
  <2>2. JobsOnce' /\ RunningJobs' = RunningJobs
    BY <2>1, ClientLeavesJobs DEF JInv
  <2> QED BY <1>1, <2>1, <2>2 DEF JInv, OwedOK, NobodySleepsOn, NoLostJobSignal, Destroying, Freed, In
<1> QED BY <1>2, <1>3, <1>4, <1>5, <1>6, <1>7 DEF Next

(* No queued job is overlooked: while a worker sleeps, every queued job has a
   worker of its own awake, whatever wakeups come unasked or time out. *)
THEOREM JobsAreNotOverlooked == Spec => []NoLostJobSignal
<1>1. JInv => NoLostJobSignal
  BY DEF JInv
<1> QED BY <1>1, InitServes, NextServes, PTL DEF Spec

-----------------------------------------------------------------------------
(***************************************************************************)
(* The steps of the pool as steps of the service, one lemma per operation  *)
(* of the service.                                                         *)
(***************************************************************************)
LEMMA SameCardinality == \A S : Service!Cardinality(S) = Cardinality(S)
BY DEF Service!Cardinality, Cardinality

LEMMA BeginIsBegin ==
  ASSUME JInv, JInv', NEW w \in Workers, WorkerStep(w)
  PROVE  Service!Begin \/ UNCHANGED Service!svars
<1>1. /\ IInv /\ TypeOK /\ JobsOnce
      /\ Destroying' = Destroying /\ UNCHANGED <<call, owed, ended, discarded>>
  BY WorkerKinds DEF JInv, IInv
<1>2. ClientView' = ClientView /\ StateView' = StateView
  BY <1>1 DEF ClientView, StateView, Freed
<1>3. CASE BeginsNothing
  BY <1>1, <1>2, <1>3, BeginsNothingFacts DEF Service!svars
<1>4. CASE BeginsJob(w) /\ thread[w] \in {"starting", "timedout", "returned", "waiting", "lingering"}
  <2>1. /\ queue # <<>> /\ queue' = Tail(queue) /\ RunningJobs' = RunningJobs \cup {Head(queue)}
        /\ ~Destroying
    BY <1>1, <1>4, BeginsJobFacts DEF BeginsJob
  <2>2. StateView = "open"
    BY <1>1, <2>1, ClientFacts DEF StateView, Freed
  <2>3. Cardinality(RunningJobs) < Maximum
    <3>1. /\ Running \subseteq Live(thread) \ {w} /\ w \in Live(thread)
          /\ IsFiniteSet(Live(thread) \ {w}) /\ IsFiniteSet(Running)
      <4>1. Running \subseteq Live(thread) \ {w} /\ w \in Live(thread)
        BY <1>4 DEF Running, In, Live
      <4>2. IsFiniteSet(Live(thread) \ {w})
        BY ThreadSetsFinite, FS_RemoveElement
      <4> QED BY <4>1, <4>2, FS_Subset
    <3>2. Cardinality(Running) <= Cardinality(Live(thread) \ {w})
      BY <3>1, FS_Subset
    <3>3. Cardinality(Live(thread) \ {w}) = nthreads - 1 /\ nthreads \in Nat /\ nthreads <= Maximum
      BY <1>1, <3>1, CountStep, ThreadSetsFinite, Vocabulary DEF IInv, TypeOK
    <3>4. [v \in Running |-> job[v]] \in Surjection(Running, RunningJobs)
      BY DEF RunningJobs, Running, Surjection
    <3>5. Cardinality(RunningJobs) <= Cardinality(Running) /\ IsFiniteSet(RunningJobs)
      BY <3>1, <3>4, FS_Surjection
    <3>6. Cardinality(RunningJobs) \in Nat /\ Cardinality(Running) \in Nat /\ Maximum \in Nat
      BY <3>1, <3>5, FS_CardinalityType, PoolAssumption
    <3> QED BY <3>2, <3>3, <3>5, <3>6
  <2> QED BY <1>1, <1>2, <2>1, <2>2, <2>3, SameCardinality DEF Service!Begin
<1> QED BY <1>1, <1>3, <1>4, WorkerKinds

LEMMA JobOverIsEnd ==
  ASSUME JInv, NEW w \in Workers, LingerOver(w) \/ Return(w) \/ Exit(w) \/ Cancel(w)
  PROVE  (\E j \in Jobs : Service!End(j)) \/ UNCHANGED Service!svars
<1>1. /\ IInv /\ TypeOK /\ JobsOnce
  BY DEF JInv, IInv
<1>2. CASE LingerOver(w)
  <2>1. /\ UNCHANGED <<queue, flags, job, call, owed, ended, discarded>> /\ In({"running"})' = In({"running"})
    BY <1>1, <1>2 DEF LingerOver, pool, hist, In, TypeOK
  <2> QED BY <2>1 DEF Service!svars, RunningJobs, ClientView, StateView, Destroying, Freed
<1>3. ASSUME NEW state \in {"returned", "exited"}, JobOver(w, state)
      PROVE  \E j \in Jobs : Service!End(j)
  <2>1. /\ queue' = queue /\ RunningJobs' = RunningJobs \ {job[w]} /\ ended' = ended \cup {job[w]}
        /\ job[w] \in RunningJobs /\ UNCHANGED <<flags, call, owed, discarded>>
    BY <1>1, <1>3, JobOverFacts
  <2>2. job[w] \in Jobs
    BY <1>1, <1>3, Vocabulary DEF IInv, TypeOK, JobOver, BusyOf, BusyStates
  <2>3. ClientView' = ClientView /\ StateView' = StateView
    BY <2>1 DEF ClientView, StateView, Destroying, Freed
  <2> QED BY <2>1, <2>2, <2>3 DEF Service!End
<1> QED BY <1>2, <1>3 DEF Return, Exit, Cancel

LEMMA QueueIsSubmit ==
  ASSUME JInv, NEW j \in Jobs, Queue(j)
  PROVE  Service!Submit(j)
<1>1. IInv /\ JobsOnce
  BY DEF JInv
<1>2. /\ queue' = Append(queue, j)
      /\ j \notin Elems(queue) \cup RunningJobs \cup ended \cup discarded
      /\ RunningJobs' = RunningJobs
      /\ UNCHANGED <<flags, call, owed, ended, discarded>>
  BY <1>1, QueueFacts
<1>3. ~Freed
  BY DEF Queue
<1>4. StateView # "freed" /\ ClientView' = ClientView /\ StateView' = StateView
  BY <1>2, <1>3 DEF ClientView, StateView, Destroying, Freed
<1> QED BY <1>2, <1>4 DEF Service!Submit, Service!Pending, Elems

LEMMA WaitIsAskOrAnswer ==
  ASSUME JInv, NEW c \in Clients, Wait(c) \/ ResumeWait(c)
  PROVE  Service!Ask(c) \/ Service!Answer(c) \/ UNCHANGED Service!svars
<1>1. /\ IInv /\ TypeOK /\ OwedOK
  BY DEF JInv, IInv
<1>2. /\ UNCHANGED <<queue, thread, job, ended, discarded>> /\ Destroying' = Destroying
      /\ RunningJobs' = RunningJobs
  BY DEF Wait, ResumeWait, WaitLoop, Destroying, hist, RunningJobs, In
<1>3. \A d \in Clients : call'[d] = "freed" <=> call[d] = "freed"
  BY <1>1 DEF Wait, ResumeWait, WaitLoop, TypeOK
<1>4. StateView' = StateView
  BY <1>2, <1>3 DEF StateView, Freed
<1>5. CASE Wait(c)
  <2>1. /\ call[c] = "out" /\ ~Freed /\ call' = [call EXCEPT ![c] = "wait"]
        /\ owed' = [owed EXCEPT ![c] = Elems(queue) \cup RunningJobs]
    BY <1>5 DEF Wait, WaitLoop
  <2>2. StateView # "freed"
    BY <2>1 DEF StateView
  <2>3. ClientView[c] = "out" /\ ClientView' = [ClientView EXCEPT ![c] = "waiting"]
    BY <1>1, <2>1 DEF ClientView, TypeOK
  <2> QED BY <1>2, <1>4, <2>1, <2>2, <2>3 DEF Service!Ask, Service!Pending, Elems
<1>6. CASE ResumeWait(c) /\ Outstanding(queue, active)
  <2>1. call' = [call EXCEPT ![c] = "wait"] /\ call[c] = "wait" /\ owed' = owed
    BY <1>6 DEF ResumeWait, WaitLoop, hist
  <2>2. ClientView' = ClientView
    BY <1>1, <2>1 DEF ClientView, TypeOK
  <2> QED BY <1>2, <1>4, <2>1, <2>2 DEF Service!svars
<1>7. CASE ResumeWait(c) /\ ~Outstanding(queue, active)
  <2>1. call' = [call EXCEPT ![c] = "out"] /\ call[c] = "wait" /\ owed' = owed
    BY <1>7 DEF ResumeWait, WaitLoop, hist
  <2>2. ClientView[c] = "waiting" /\ ClientView' = [ClientView EXCEPT ![c] = "out"]
    BY <1>1, <2>1 DEF ClientView, TypeOK
  <2>3. Elems(queue) = {} /\ RunningJobs = {}
    BY <1>1, <1>7 DEF IInv, ActiveOK, Outstanding, Elems, RunningJobs, In
  <2>4. owed[c] \subseteq ended
    BY <1>1, <1>7, <2>1, <2>3 DEF OwedOK, ResumeWait
  <2> QED BY <1>2, <1>4, <2>1, <2>2, <2>4 DEF Service!Answer
<1> QED BY <1>5, <1>6, <1>7

LEMMA DestroyIsClose ==
  ASSUME JInv, NEW c \in Clients, Destroy(c)
  PROVE  Service!Close
<1>1. IInv /\ TypeOK
  BY DEF JInv, IInv
<1>2. /\ call[c] = "out" /\ ~Destroying
      /\ DestroyLoop(c, flags \cup {"POOL_DESTROY"})
      /\ UNCHANGED <<queue, thread, job, owed, ended, discarded>>
  BY DEF Destroy, hist
<1>3. \E st \in {"destroy_active", "destroy_threads", "unlink"} :
        call' = [call EXCEPT ![c] = st] /\ Destroying'
  BY <1>2 DEF DestroyLoop, Destroying
<1>4. ClientView' = ClientView
  BY <1>1, <1>2, <1>3 DEF ClientView, TypeOK
<1>5. StateView = "open" /\ StateView' = "closing"
  BY <1>1, <1>2, <1>3, ClientFacts DEF StateView, TypeOK, Freed
<1>6. RunningJobs' = RunningJobs
  BY <1>2 DEF RunningJobs, In
<1> QED BY <1>2, <1>4, <1>5, <1>6 DEF Service!Close

LEMMA FreePoolIsFree ==
  ASSUME JInv, NEW c \in Clients, FreePool(c)
  PROVE  Service!Free
<1>1. IInv /\ TypeOK
  BY DEF JInv, IInv
<1>2. /\ call[c] = "unlink" /\ call' = [call EXCEPT ![c] = "freed"]
      /\ queue' = <<>> /\ discarded' = discarded \cup Elems(queue)
      /\ UNCHANGED <<flags, thread, job, owed, ended>>
  BY DEF FreePool, cvs
<1>3. /\ Destroying /\ active = {}
      /\ \A d \in Clients \ {c} : call[d] \in {"out", "wait", "gone"}
  BY <1>1, <1>2, ClientFacts
<1>4. BusyOf(thread) = {}
  BY <1>1, <1>3, Vocabulary DEF IInv
<1>5. RunningJobs = {} /\ RunningJobs' = {}
  BY <1>2, <1>4 DEF RunningJobs, In, BusyOf, BusyStates
<1>6. StateView = "closing" /\ StateView' = "freed"
  BY <1>1, <1>2, <1>3 DEF StateView, TypeOK, Freed
<1>7. ClientView' = ClientView
  BY <1>1, <1>2 DEF ClientView, TypeOK
<1> QED BY <1>2, <1>5, <1>6, <1>7 DEF Service!Free, Service!Pending, Elems

LEMMA CancelCallIsLeave ==
  ASSUME JInv, NEW c \in Clients, CancelCall(c)
  PROVE  Service!Leave(c)
<1>1. IInv /\ TypeOK
  BY DEF JInv, IInv
<1>2. /\ call[c] \in {"wait", "destroy_active", "destroy_threads"}
      /\ call' = [call EXCEPT ![c] = "gone"]
      /\ UNCHANGED <<queue, flags, thread, job, owed, ended, discarded>>
  BY DEF CancelCall, pool, hist
<1>3. \A d \in Clients : call'[d] = "freed" <=> call[d] = "freed"
  BY <1>1, <1>2 DEF TypeOK
<1>4. StateView' = StateView /\ RunningJobs' = RunningJobs
  BY <1>2, <1>3 DEF StateView, RunningJobs, In, Destroying, Freed
<1>5. ClientView' = [ClientView EXCEPT ![c] = "gone"]
  BY <1>1, <1>2 DEF ClientView, TypeOK
<1>6. ClientView[c] = "waiting" \/ StateView = "closing"
  <2>1. CASE call[c] = "wait"
    BY <2>1 DEF ClientView
  <2>2. CASE call[c] # "wait"
    <3>1. Destroying /\ ~Freed
      BY <1>1, <1>2, <2>2, ClientFacts DEF CancelCall
    <3> QED BY <3>1 DEF StateView
  <2> QED BY <2>1, <2>2
<1> QED BY <1>2, <1>4, <1>5, <1>6 DEF Service!Leave

LEMMA DestroyerWaits ==
  ASSUME JInv, NEW c \in Clients, ResumeDestroyActive(c) \/ ResumeDestroyThreads(c)
  PROVE  UNCHANGED Service!svars
<1>1. TypeOK
  BY DEF JInv, IInv
<1>2. /\ UNCHANGED <<queue, thread, job, owed, ended, discarded>> /\ Destroying' = Destroying
  <2>1. CASE ResumeDestroyActive(c)
    BY <2>1 DEF ResumeDestroyActive, DestroyLoop, Destroying, hist
  <2>2. CASE ResumeDestroyThreads(c)
    BY <2>2 DEF ResumeDestroyThreads, Destroying, pool, hist
  <2> QED BY <2>1, <2>2
<1>3. /\ call[c] \in {"destroy_active", "destroy_threads"}
      /\ \E st \in {"destroy_active", "destroy_threads", "unlink"} : call' = [call EXCEPT ![c] = st]
  BY <1>1 DEF ResumeDestroyActive, ResumeDestroyThreads, DestroyLoop, TypeOK
<1>4. ClientView' = ClientView /\ StateView' = StateView
  BY <1>1, <1>2, <1>3 DEF ClientView, StateView, TypeOK, Freed
<1> QED BY <1>2, <1>4 DEF Service!svars, RunningJobs, In

(* thr_pool.c implements the service that thr_pool.h describes, for any number
   of workers, jobs and clients: every step of the pool is a step of the service
   or changes nothing a client can see. *)
THEOREM PoolImplementsService == Spec => ImplementsService
<1>1. Init => Service!SInit
  <2> SUFFICES ASSUME Init PROVE Service!SInit
    OBVIOUS
  <2>1. RunningJobs = {} /\ StateView = "open" /\ ClientView = [c \in Clients |-> "out"]
    BY DEF Init, RunningJobs, In, StateView, ClientView, Destroying, Freed
  <2> QED BY <2>1 DEF Init, Service!SInit
<1>2. JInv /\ JInv' /\ [Next]_vars => [Service!SNext]_(Service!svars)
  <2> SUFFICES ASSUME JInv, JInv', [Next]_vars PROVE [Service!SNext]_(Service!svars)
    OBVIOUS
  <2>1. ASSUME NEW w \in Workers, WorkerStep(w) PROVE [Service!SNext]_(Service!svars)
    BY <2>1, BeginIsBegin DEF Service!SNext
  <2>2. ASSUME NEW w \in Workers, LingerOver(w) \/ Return(w) \/ Exit(w) \/ Cancel(w)
        PROVE  [Service!SNext]_(Service!svars)
    BY <2>2, JobOverIsEnd DEF Service!SNext
  <2>3. ASSUME NEW j \in Jobs, Queue(j) PROVE [Service!SNext]_(Service!svars)
    BY <2>3, QueueIsSubmit DEF Service!SNext
  <2>4. ASSUME NEW c \in Clients, Wait(c) \/ Destroy(c) \/ ClientStep(c) \/ CancelCall(c)
        PROVE  [Service!SNext]_(Service!svars)
    BY <2>4, WaitIsAskOrAnswer, DestroyIsClose, FreePoolIsFree, CancelCallIsLeave, DestroyerWaits
       DEF ClientStep, Service!SNext
  <2>5. CASE SpuriousWakeup \/ UNCHANGED vars
    <3>1. UNCHANGED <<queue, flags, thread, job, call, owed, ended, discarded>>
      BY <2>5 DEF SpuriousWakeup, vars, pool, hist
    <3> QED BY <3>1 DEF Service!svars, RunningJobs, In, ClientView, StateView, Destroying, Freed
  <2> QED BY <2>1, <2>2, <2>3, <2>4, <2>5 DEF Next
<1> QED BY <1>1, <1>2, InitServes, NextServes, PTL DEF Spec, ImplementsService, Service!SSpec
=============================================================================

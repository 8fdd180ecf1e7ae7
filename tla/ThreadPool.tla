------------------------------ MODULE ThreadPool ------------------------------
(***************************************************************************)
(* The worker-thread pool of pthreads/thr_pool.c.                          *)
(*                                                                         *)
(* Every field of struct thr_pool is protected by pool_mutex, so a step of *)
(* this module is what a thread does between taking the mutex and giving   *)
(* it up, in pthread_mutex_unlock or in pthread_cond_wait.  A condition    *)
(* variable is the set of threads asleep on it: a signal takes one thread  *)
(* out of the set, a broadcast empties it, and a thread outside the set is *)
(* one that competes for the mutex again.                                  *)
(***************************************************************************)
EXTENDS Integers, Sequences, FiniteSets

CONSTANTS
  Workers,        \* identities of worker threads (reused once a thread has died)
  Clients,        \* threads outside the pool that call its interface
  Jobs,           \* work requests; each is queued at most once
  Minimum,        \* pool_minimum
  Maximum,        \* pool_maximum
  LingerZero,     \* whether pool_linger is 0
  CreateMayFail,  \* whether pthread_create may fail
  None            \* no job

ASSUME PoolAssumption ==
  /\ Minimum \in Nat
  /\ Maximum \in Nat \ {0}
  /\ Minimum <= Maximum            \* thr_pool_create refuses anything else
  /\ IsFiniteSet(Workers)
  /\ Maximum < Cardinality(Workers)
  /\ LingerZero \in BOOLEAN
  /\ CreateMayFail \in BOOLEAN
  /\ None \notin Jobs

VARIABLES
  queue,      \* pool_head .. pool_tail: the FIFO of queued jobs
  active,     \* pool_active: the workers linked in the active list
  flags,      \* pool_flags
  nthreads,   \* pool_nthreads
  idle,       \* pool_idle
  workcv,     \* workers asleep on pool_workcv
  waitcv,     \* clients asleep on pool_waitcv
  busycv,     \* clients asleep on pool_busycv
  thread,     \* where each worker thread is
  job,        \* the job whose function a worker was given
  cancelled,  \* workers with a cancellation request pending
  call,       \* the interface call each client is in
  owed,       \* history: the jobs a client's thr_pool_wait was called for
  ended,      \* history: jobs whose function is over
  discarded,  \* history: jobs thr_pool_destroy freed unrun
  late        \* history: a job was queued once thr_pool_destroy had done waiting

pool  == <<queue, active, flags, nthreads, idle>>
cvs   == <<workcv, waitcv, busycv>>
hist  == <<owed, ended, discarded, late>>
vars  == <<pool, cvs, thread, job, cancelled, call, hist>>

(***************************************************************************)
(* A worker thread is "starting" until it first gets the mutex, "waiting"  *)
(* in pthread_cond_wait, "lingering" in pthread_cond_timedwait, "timedout" *)
(* once that returned ETIMEDOUT, "running" inside the job function,        *)
(* "returned" after it, "exited" when the function ended in pthread_exit   *)
(* or was cancelled.                                                       *)
(***************************************************************************)
ThreadState == {"none", "starting", "waiting", "lingering", "timedout",
                "running", "returned", "exited"}
CallState == {"out", "wait", "destroy_active", "destroy_threads", "unlink",
              "freed", "gone"}

Elems(s) == {s[i] : i \in DOMAIN s}
In(states) == {w \in Workers : thread[w] \in states}
RunningJobs == {job[w] : w \in In({"running"})}

Destroying == "POOL_DESTROY" \in flags
Freed      == \E c \in Clients : call[c] = "freed"
Outstanding(q, act) == q # <<>> \/ act # {}
Fresh(j) == j \notin Elems(queue) \cup {job[w] : w \in Workers} \cup ended \cup discarded

Init ==
  /\ queue = <<>> /\ active = {} /\ flags = {} /\ nthreads = 0 /\ idle = 0
  /\ workcv = {} /\ waitcv = {} /\ busycv = {}
  /\ thread = [w \in Workers |-> "none"]
  /\ job = [w \in Workers |-> None]
  /\ cancelled = {}
  /\ call = [c \in Clients |-> "out"]
  /\ owed = [c \in Clients |-> {}]
  /\ ended = {} /\ discarded = {} /\ late = FALSE

-----------------------------------------------------------------------------
(***************************************************************************)
(* The static functions of thr_pool.c.                                     *)
(***************************************************************************)

(* notify_waiters under its callers' test of POOL_WAIT: act is the active
   list at the time of the call. *)
NotifyWaitersEarly(act) ==   \* faulty: POOL_WAIT is cleared before the test
  IF "POOL_WAIT" \in flags
    THEN /\ flags' = flags \ {"POOL_WAIT"}
         /\ waitcv' = IF Outstanding(queue, act) THEN waitcv ELSE {}
    ELSE UNCHANGED <<flags, waitcv>>

NotifyWaiters(act) ==
  IF "POOL_WAIT" \in flags /\ ~Outstanding(queue, act)
    THEN flags' = flags \ {"POOL_WAIT"} /\ waitcv' = {}
    ELSE UNCHANGED <<flags, waitcv>>

(* create_worker and the increment that follows it: th and n are the thread
   states and pool_nthreads at the call.  pthread_create may fail. *)
CreateWorkerUnchecked(th, n) ==   \* faulty: counts a thread that was not created
  \/ \E new \in {w \in Workers : th[w] = "none" /\ thread[w] = "none"} :
       thread' = [th EXCEPT ![new] = "starting"] /\ nthreads' = n + 1
  \/ CreateMayFail /\ thread' = th /\ nthreads' = n + 1

CreateWorker(th, n) ==
  \/ \E new \in {w \in Workers : th[w] = "none" /\ thread[w] = "none"} :
       thread' = [th EXCEPT ![new] = "starting"] /\ nthreads' = n + 1
  \/ CreateMayFail /\ thread' = th /\ nthreads' = n

(* worker_cleanup: worker w dies. *)
WorkerCleanupLate(w) ==   \* faulty: tests pool_nthreads before decrementing it
  LET th == [thread EXCEPT ![w] = "none"]
      n  == nthreads - 1
  IN /\ cancelled' = cancelled \ {w}
     /\ busycv' = IF Destroying /\ nthreads = 0 THEN {} ELSE busycv
     /\ IF ~Destroying /\ queue # <<>> /\ n < Maximum
          THEN CreateWorker(th, n)
          ELSE thread' = th /\ nthreads' = n

WorkerCleanupNoRespawn(w) ==   \* faulty: never replaces the thread
  /\ cancelled' = cancelled \ {w}
  /\ busycv' = IF Destroying /\ nthreads = 1 THEN {} ELSE busycv
  /\ thread' = [thread EXCEPT ![w] = "none"] /\ nthreads' = nthreads - 1

WorkerCleanup(w) ==
  LET th == [thread EXCEPT ![w] = "none"]
      n  == nthreads - 1
  IN /\ cancelled' = cancelled \ {w}
     /\ busycv' = IF Destroying /\ n = 0 THEN {} ELSE busycv
     /\ IF ~Destroying /\ queue # <<>> /\ n < Maximum
          THEN CreateWorker(th, n)
          ELSE thread' = th /\ nthreads' = n

(* pthread_cond_signal: wakes one of the threads asleep, if there is one. *)
Signal(cv) == IF cv = {} THEN {cv} ELSE {cv \ {t} : t \in cv}

-----------------------------------------------------------------------------
(***************************************************************************)
(* worker_thread: one pass from the test of the inner while loop to the    *)
(* next release of the mutex.  act is the active list, i is pool_idle with *)
(* this worker counted, linger says whether a worker in excess of the      *)
(* minimum may go to sleep (not when pool_linger is 0 or it timed out).    *)
(***************************************************************************)
LeaveLoop(w, act, i) ==
  /\ WorkerCleanup(w)
  /\ active' = act /\ idle' = i - 1
  /\ job' = [job EXCEPT ![w] = None]
  /\ UNCHANGED <<queue, workcv>>

TakeJob(w, act, i) ==
  /\ job' = [job EXCEPT ![w] = Head(queue)]
  /\ queue' = Tail(queue)
  /\ active' = act \cup {w} /\ idle' = i - 1
  /\ thread' = [thread EXCEPT ![w] = "running"]
  /\ UNCHANGED <<nthreads, workcv, busycv, cancelled>>

Sleep(w, act, i, state) ==
  /\ thread' = [thread EXCEPT ![w] = state]
  /\ job' = [job EXCEPT ![w] = None]
  /\ workcv' = workcv \cup {w}
  /\ active' = act /\ idle' = i
  /\ UNCHANGED <<queue, nthreads, busycv, cancelled>>

WorkerLoopDrains(w, act, i, linger) ==   \* faulty: looks at the queue before POOL_DESTROY
  \/ queue # <<>> /\ TakeJob(w, act, i)
  \/ Destroying /\ queue = <<>> /\ LeaveLoop(w, act, i)
  \/ /\ ~Destroying /\ queue = <<>>
     /\ \/ nthreads <= Minimum /\ Sleep(w, act, i, "waiting")
        \/ nthreads > Minimum /\ linger /\ Sleep(w, act, i, "lingering")
        \/ nthreads > Minimum /\ ~linger /\ LeaveLoop(w, act, i)

WorkerLoop(w, act, i, linger) ==
  \/ Destroying /\ LeaveLoop(w, act, i)
  \/ ~Destroying /\ queue # <<>> /\ TakeJob(w, act, i)
  \/ /\ ~Destroying /\ queue = <<>>
     /\ \/ nthreads <= Minimum /\ Sleep(w, act, i, "waiting")
        \/ nthreads > Minimum /\ linger /\ Sleep(w, act, i, "lingering")
        \/ nthreads > Minimum /\ ~linger /\ LeaveLoop(w, act, i)

(* A new worker gets the mutex: the top of the loop. *)
StartUncounted(w) ==   \* faulty: pool_idle++ is missing
  /\ thread[w] = "starting" /\ ~Freed
  /\ NotifyWaiters(active)
  /\ WorkerLoop(w, active, idle, ~LingerZero)
  /\ UNCHANGED <<call, hist>>

Start(w) ==
  /\ thread[w] = "starting" /\ ~Freed
  /\ NotifyWaiters(active)
  /\ WorkerLoop(w, active, idle + 1, ~LingerZero)
  /\ UNCHANGED <<call, hist>>

(* pthread_cond_wait or pthread_cond_timedwait returns 0. *)
Resume(w) ==
  /\ thread[w] \in {"waiting", "lingering"} /\ w \notin workcv
  /\ WorkerLoop(w, active, idle, ~LingerZero)
  /\ UNCHANGED <<flags, waitcv, call, hist>>

(* pthread_cond_timedwait runs out of time; the mutex is still to be taken. *)
LingerOver(w) ==
  /\ thread[w] = "lingering" /\ w \in workcv
  /\ thread' = [thread EXCEPT ![w] = "timedout"]
  /\ workcv' = workcv \ {w}
  /\ UNCHANGED <<pool, waitcv, busycv, job, cancelled, call, hist>>

(* pthread_cond_timedwait returns ETIMEDOUT.  A worker the minimum needs goes
   round the outer loop, which notifies the waiters again. *)
TimedOut(w) ==
  /\ thread[w] = "timedout"
  /\ IF ~Destroying /\ queue = <<>> /\ nthreads <= Minimum
       THEN NotifyWaiters(active)
       ELSE UNCHANGED <<flags, waitcv>>
  /\ WorkerLoop(w, active, idle, FALSE)
  /\ UNCHANGED <<call, hist>>

(* The job function returns, calls pthread_exit, or reaches a cancellation
   point with thr_pool_destroy's request pending. *)
JobOver(w, state) ==
  /\ thread[w] = "running"
  /\ thread' = [thread EXCEPT ![w] = state]
  /\ ended' = ended \cup {job[w]}
  /\ UNCHANGED <<pool, cvs, job, cancelled, call, owed, discarded, late>>

Return(w) == JobOver(w, "returned")
Exit(w)   == JobOver(w, "exited")
Cancel(w) == w \in cancelled /\ JobOver(w, "exited")

(* job_cleanup on return from the job, and the next turn of the loop: the two
   notifications of that path see the same queue and active list. *)
JobCleanup(w) ==
  /\ thread[w] = "returned"
  /\ NotifyWaiters(active \ {w})
  /\ WorkerLoop(w, active \ {w}, idle + 1, ~LingerZero)
  /\ UNCHANGED <<call, hist>>

(* job_cleanup and worker_cleanup run by pthread_exit or by cancellation. *)
ExitCleanup(w) ==
  /\ thread[w] = "exited"
  /\ NotifyWaiters(active \ {w})
  /\ active' = active \ {w}
  /\ WorkerCleanup(w)
  /\ job' = [job EXCEPT ![w] = None]
  /\ UNCHANGED <<queue, idle, workcv, call, hist>>

-----------------------------------------------------------------------------
(***************************************************************************)
(* The interface.  A pool is destroyed once; apart from that any client    *)
(* may be in any call at any time, beside thr_pool_destroy too, until the  *)
(* pool is freed.  What a thread does that takes the mutex of a freed pool *)
(* is undefined and not followed: the steps it could still take, Start,    *)
(* Queue, Wait, ResumeWait, CancelCall and SpuriousWakeup, ask for ~Freed. *)
(***************************************************************************)

(* thr_pool_queue once the job is linked: wake an idle worker, or create one
   below the maximum. *)
WakeOrCreateIfEmpty ==   \* faulty: signals only when the queue was empty
  IF idle > 0
    THEN /\ workcv' \in (IF queue = <<>> THEN Signal(workcv) ELSE {workcv})
         /\ UNCHANGED <<thread, nthreads>>
    ELSE /\ UNCHANGED workcv
         /\ IF nthreads < Maximum
              THEN CreateWorker(thread, nthreads)
              ELSE UNCHANGED <<thread, nthreads>>

WakeOrCreate ==
  IF idle > 0
    THEN workcv' \in Signal(workcv) /\ UNCHANGED <<thread, nthreads>>
    ELSE /\ UNCHANGED workcv
         /\ IF nthreads < Maximum
              THEN CreateWorker(thread, nthreads)
              ELSE UNCHANGED <<thread, nthreads>>

(* thr_pool_queue, called by a client or by a running job. *)
Queue(j) ==
  /\ Fresh(j) /\ ~Freed
  /\ (\E c \in Clients : call[c] = "out") \/ In({"running"}) # {}
  /\ queue' = Append(queue, j)
  /\ WakeOrCreate
  /\ late' = (late \/ \E c \in Clients : call[c] = "unlink")
  /\ UNCHANGED <<active, flags, idle, waitcv, busycv, job, cancelled, call,
                 owed, ended, discarded>>

(* thr_pool_wait: the while loop, entered or resumed.  A call that finds
   nothing outstanding returns at once and changes nothing. *)
WaitLoop(c) ==
  IF Outstanding(queue, active)
    THEN /\ flags' = flags \cup {"POOL_WAIT"}
         /\ waitcv' = waitcv \cup {c}
         /\ call' = [call EXCEPT ![c] = "wait"]
    ELSE call' = [call EXCEPT ![c] = "out"] /\ UNCHANGED <<flags, waitcv>>

Wait(c) ==
  /\ call[c] = "out" /\ ~Freed /\ Outstanding(queue, active)
  /\ WaitLoop(c)
  /\ owed' = [owed EXCEPT ![c] = Elems(queue) \cup RunningJobs]
  /\ UNCHANGED <<queue, active, nthreads, idle, workcv, busycv, thread, job,
                 cancelled, ended, discarded, late>>

ResumeWait(c) ==
  /\ call[c] = "wait" /\ c \notin waitcv /\ ~Freed
  /\ WaitLoop(c)
  /\ UNCHANGED <<queue, active, nthreads, idle, workcv, busycv, thread, job,
                 cancelled, hist>>

(* thr_pool_destroy, first to last loop; fl is pool_flags at the test. *)
DestroyLoop(c, fl) ==
  \/ /\ active # {}
     /\ flags' = fl \cup {"POOL_WAIT"} /\ waitcv' = waitcv \cup {c}
     /\ call' = [call EXCEPT ![c] = "destroy_active"]
     /\ UNCHANGED busycv
  \/ /\ active = {} /\ nthreads # 0
     /\ flags' = fl /\ busycv' = busycv \cup {c}
     /\ call' = [call EXCEPT ![c] = "destroy_threads"]
     /\ UNCHANGED waitcv
  \/ /\ active = {} /\ nthreads = 0
     /\ flags' = fl /\ call' = [call EXCEPT ![c] = "unlink"]
     /\ UNCHANGED <<waitcv, busycv>>

ToCancelNone == {}   \* faulty: the active workers are not cancelled
ToCancel == active

Destroy(c) ==
  /\ call[c] = "out" /\ ~Destroying
  /\ workcv' = {}
  /\ cancelled' = ToCancel
  /\ DestroyLoop(c, flags \cup {"POOL_DESTROY"})
  /\ UNCHANGED <<queue, active, nthreads, idle, thread, job, hist>>

ResumeDestroyActive(c) ==
  /\ call[c] = "destroy_active" /\ c \notin waitcv
  /\ DestroyLoop(c, flags)
  /\ UNCHANGED <<queue, active, nthreads, idle, workcv, thread, job, cancelled, hist>>

ResumeDestroyThreadsOnce(c) ==   \* faulty: "if" instead of "while"
  /\ call[c] = "destroy_threads" /\ c \notin busycv
  /\ call' = [call EXCEPT ![c] = "unlink"]
  /\ UNCHANGED <<pool, cvs, thread, job, cancelled, hist>>

ResumeDestroyThreads(c) ==
  /\ call[c] = "destroy_threads" /\ c \notin busycv
  /\ IF nthreads # 0
       THEN busycv' = busycv \cup {c} /\ UNCHANGED call
       ELSE call' = [call EXCEPT ![c] = "unlink"] /\ UNCHANGED busycv
  /\ UNCHANGED <<pool, workcv, waitcv, thread, job, cancelled, hist>>

(* The end of thr_pool_destroy: the jobs left are freed, then the pool. *)
FreePool(c) ==
  /\ call[c] = "unlink"
  /\ discarded' = discarded \cup Elems(queue)
  /\ queue' = <<>>
  /\ call' = [call EXCEPT ![c] = "freed"]
  /\ UNCHANGED <<active, flags, nthreads, idle, cvs, thread, job, cancelled,
                 owed, ended, late>>

(* A client is cancelled inside pthread_cond_wait: the handler pushed by
   thr_pool_wait and thr_pool_destroy only unlocks the mutex. *)
CancelCall(c) ==
  /\ call[c] \in {"wait", "destroy_active", "destroy_threads"} /\ ~Freed
  /\ waitcv' = waitcv \ {c} /\ busycv' = busycv \ {c}
  /\ call' = [call EXCEPT ![c] = "gone"]
  /\ UNCHANGED <<pool, workcv, thread, job, cancelled, hist>>

(* POSIX allows pthread_cond_wait to return unsignalled. *)
SpuriousWakeup ==
  /\ ~Freed
  /\ \/ \E w \in workcv : workcv' = workcv \ {w} /\ UNCHANGED <<waitcv, busycv>>
     \/ \E c \in waitcv : waitcv' = waitcv \ {c} /\ UNCHANGED <<workcv, busycv>>
     \/ \E c \in busycv : busycv' = busycv \ {c} /\ UNCHANGED <<workcv, waitcv>>
  /\ UNCHANGED <<pool, thread, job, cancelled, call, hist>>

-----------------------------------------------------------------------------
WorkerStep(w) == Start(w) \/ Resume(w) \/ TimedOut(w) \/ JobCleanup(w) \/ ExitCleanup(w)
ClientStep(c) == ResumeWait(c) \/ ResumeDestroyActive(c) \/ ResumeDestroyThreads(c) \/ FreePool(c)

Next ==
  \/ \E w \in Workers : WorkerStep(w) \/ LingerOver(w) \/ Return(w) \/ Exit(w) \/ Cancel(w)
  \/ \E j \in Jobs : Queue(j)
  \/ \E c \in Clients : Wait(c) \/ Destroy(c) \/ ClientStep(c) \/ CancelCall(c)
  \/ SpuriousWakeup

Spec == Init /\ [][Next]_vars

(***************************************************************************)
(* Fairness.  A thread that can take the mutex eventually does, a timed    *)
(* wait eventually times out, and a job asked to cancel reaches a          *)
(* cancellation point.  Jobs need not end by themselves: what depends on   *)
(* it says so with JobsEnd.                                                *)
(***************************************************************************)
FairSpec ==
  /\ Spec
  /\ \A w \in Workers : WF_vars(WorkerStep(w)) /\ WF_vars(LingerOver(w)) /\ WF_vars(Cancel(w))
  /\ \A c \in Clients : WF_vars(ClientStep(c))

JobsEnd == \A w \in Workers : WF_vars(Return(w) \/ Exit(w))

-----------------------------------------------------------------------------
(* The type of every variable. *)
TypeOK ==
  /\ queue \in Seq(Jobs)
  /\ active \subseteq Workers
  /\ flags \subseteq {"POOL_WAIT", "POOL_DESTROY"}
  /\ nthreads \in Nat /\ idle \in Nat
  /\ workcv \subseteq Workers /\ waitcv \subseteq Clients /\ busycv \subseteq Clients
  /\ thread \in [Workers -> ThreadState]
  /\ job \in [Workers -> Jobs \cup {None}]
  /\ cancelled \subseteq Workers
  /\ call \in [Clients -> CallState]
  /\ owed \in [Clients -> SUBSET Jobs]
  /\ ended \subseteq Jobs /\ discarded \subseteq Jobs /\ late \in BOOLEAN

(* The counters of struct thr_pool agree with what the threads are doing: this
   is what thr_pool_queue relies on when it chooses between waking an idle
   worker and creating one, and thr_pool_destroy when it waits for the last. *)
CountersOK ==
  /\ nthreads = Cardinality({w \in Workers : thread[w] # "none"})
  /\ idle = Cardinality(In({"waiting", "lingering", "timedout"}))
  /\ nthreads <= Maximum

(* The active list holds exactly the threads that are inside a job function or
   have yet to run job_cleanup for it, each with its job. *)
ActiveOK ==
  /\ active = In({"running", "returned", "exited"})
  /\ \A w \in active : job[w] # None

(* No lost wakeup of a worker: while a worker sleeps, every queued job has a
   worker of its own awake and on its way to the queue. *)
NoLostJobSignal ==
  workcv # {} =>
    Len(queue) <= Cardinality(In({"starting", "timedout"})
                              \cup (In({"waiting", "lingering"}) \ workcv))

(* No lost wakeup of a waiter: a thread asleep on pool_waitcv has POOL_WAIT
   posted and something to wait for, so some job_cleanup will notify it, as
   long as there is a pool to be notified of. *)
NoLostNotify ==
  waitcv # {} /\ ~Freed => "POOL_WAIT" \in flags /\ Outstanding(queue, active)

(* The last worker to die wakes thr_pool_destroy ("the last worker to terminate
   will wake us up"): nobody sleeps on pool_busycv once they are all gone. *)
LastWorkerWakes == busycv # {} => Destroying /\ nthreads # 0

(* Nobody sleeps on pool_waitcv or pool_busycv whom nothing will wake any more. *)
CallersAreWoken == NoLostNotify /\ LastWorkerWakes

(* Once thr_pool_destroy has seen pool_nthreads at 0 and given the mutex up for
   good, no worker is inside the pool any more, whatever mix of cancelled,
   exiting and leaving workers it waited for, and none comes unless a client
   queues a job at that very time: then thr_pool_queue, which does not look at
   POOL_DESTROY, creates a worker for a pool about to be freed.  Of the callers
   it says nothing: one that is in thr_pool_wait may still be there. *)
FreedMeansQuiet ==
  \A c \in Clients : call[c] \in {"unlink", "freed"} =>
    /\ In(ThreadState \ {"none", "starting"}) = {}
    /\ In({"starting"}) # {} => late

(* Where callers and sleepers can be, and what thr_pool_destroy has established
   at each of its stages: the strengthening that makes the invariants above
   inductive. *)
CallsOK ==
  /\ workcv \subseteq In({"waiting", "lingering"})
  /\ waitcv \subseteq {c \in Clients : call[c] \in {"wait", "destroy_active"}}
  /\ busycv \subseteq {c \in Clients : call[c] = "destroy_threads"}
  /\ \A c \in Clients :
       /\ call[c] \notin {"out", "wait", "gone"} =>
            Destroying /\ \A d \in Clients \ {c} : call[d] \in {"out", "wait", "gone"}
       /\ call[c] \in {"destroy_threads", "unlink", "freed"} => active = {}
       /\ call[c] \in {"unlink", "freed"} => idle = 0 /\ (nthreads = 0 \/ late)

IInv ==
  /\ TypeOK
  /\ CountersOK
  /\ ActiveOK
  /\ CallsOK
  /\ NoLostNotify
  /\ LastWorkerWakes

-----------------------------------------------------------------------------
(***************************************************************************)
(* The pool seen as the service of PoolService.                            *)
(***************************************************************************)
ClientView ==
  [c \in Clients |-> CASE call[c] = "wait" -> "waiting"
                       [] call[c] = "gone" -> "gone"
                       [] OTHER            -> "out"]

StateView ==
  IF Freed THEN "freed"
  ELSE IF Destroying THEN "closing" ELSE "open"

Service == INSTANCE PoolService WITH
  pending <- queue, running <- RunningJobs, client <- ClientView, state <- StateView

(* The pool implements the service: jobs start once, in order, no more than
   Maximum at a time, none after thr_pool_destroy, and waiters get their due. *)
ImplementsService == Service!SSpec

-----------------------------------------------------------------------------
(* When jobs end, a queued job is started unless the pool is destroyed first,
   whatever mix of returning, exiting and timing-out workers the pool goes
   through. *)
JobsServed ==
  JobsEnd => \A j \in Jobs : j \in Elems(queue) ~> (j \notin Elems(queue) \/ Destroying)

(* thr_pool_wait returns when jobs end: they are finite in number, so each wait
   ends, beside a thr_pool_destroy too, unless that leaves jobs in the queue or
   frees the pool first. *)
WaitReturns ==
  JobsEnd => \A c \in Clients :
    call[c] = "wait" ~> call[c] # "wait" \/ (Destroying /\ queue # <<>>) \/ Freed

(* With no job left in the queue thr_pool_destroy returns, even if no running
   job would ever end by itself: the cancellations end them. *)
InDestroy(c) == call[c] \in {"destroy_active", "destroy_threads", "unlink"}
DestroyReturnsIfEmpty ==
  \A c \in Clients : InDestroy(c) ~> (queue # <<>> \/ call[c] \in {"freed", "gone"})

(* thr_pool.h:53 "Cancel all queued jobs and destroy the pool": the destroyer
   gets through.  It does not when jobs are queued: notify_waiters wants an
   empty queue, and nobody empties it any more. *)
DestroyReturns ==
  JobsEnd => \A c \in Clients : InDestroy(c) ~> call[c] \in {"freed", "gone"}
=============================================================================

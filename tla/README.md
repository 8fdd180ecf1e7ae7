# Models and proofs for TCP-and-parallel

The repository is a collection of C programs about threads, sockets, operating
systems and signal processing. This directory holds TLA+ models of the parts
that carry state and behaviour of their own, the TLC runs that check them and
the TLAPS proofs about them. `PROJECT.json` maps every definition to its source
lines.

To run one check: `tlc -config ThreadPoolSafety.cfg MCThreadPool.tla`.
To check the proofs of a module: `tlapm ThreadPoolProofs.tla`.

## 1. Inventory

### Thread pool: pthreads/thr_pool.c, thr_pool.h (modelled)

*State.* One `struct thr_pool` per pool: the job FIFO, the list of active
workers, the flags `POOL_WAIT` and `POOL_DESTROY`, `pool_nthreads`, `pool_idle`,
a mutex and three condition variables (`pool_workcv` for idle workers,
`pool_waitcv` for `thr_pool_wait` and the first stage of `thr_pool_destroy`,
`pool_busycv` for its second stage). A global ring `thr_pools` links all pools.

*Operations.* `thr_pool_create`, `thr_pool_queue`, `thr_pool_wait`,
`thr_pool_destroy`, and the worker threads' loop with its two cleanup handlers.

*Interactions.* Clients and jobs call `thr_pool_queue`; workers run the jobs'
functions outside the mutex; a job may end its thread with `pthread_exit`, and
`thr_pool_destroy` cancels the threads of running jobs.

*Hard.* Signals against workers that are about to sleep, timing out or only just
signalled; `POOL_WAIT` cleared for all waiters at once; thread creation failing
half way; freeing the pool under its last workers and beside callers that are
still inside; cancellation of the callers.

*Correct means.* Jobs start once and in order, at most `pool_maximum` at a time;
nobody sleeps through the event waited for; the counters are exact;
`thr_pool_wait` waits for what it should; no worker that was there survives its
pool; the ring leads through the pools that exist and no others.

### Work crew: pthreads/workcrew/workcrew-log8.c, queue.c, control.c (from a started server to stop_server)

*State.* Two work queues `aq` and `rq` and a queue `cq` of stopped threads, each a
linked list (`queue.c`) with a mutex, a condition variable and an `active` flag
(`control.c`); `numthreads` and `numconnects`; the heap nodes.

*Operations.* The loops of `acceptor`, `processor` and `responder`;
`control_deactivate`; `stop_thread`; `stop_server` with `join_threads`.

*Interactions.* Acceptors put connections on `aq`, processors move them to `rq`,
responders take and free them; threads that stop go to `cq`, where the signal
handler thread, in `join_threads`, collects them.

*Hard.* A processor unlocks `rq`'s mutex on the way out without holding it; signals
and broadcasts come after the unlock; a failed `malloc` loses the mutex;
the processors' loop tests one queue's flag and sleeps on the other's; the
countdown of `join_threads`.

*Correct means.* One thread at a time in each queue; each connection in one
place; the load drains; deactivation ends every thread; the joiner counts right.

### Bounded buffer: pthreads/pc-9.c (modelled)

*State.* A ring of ten slots with `head`, `tail` and the flags `full` and `empty`,
one mutex, the condition variables `notFull` and `notEmpty`.

*Operations.* `queueAdd`, `queueDel`, the loops of `producer` and `consumer`, and
the two `pthread_join` of `main`.

*Hard.* `full` and `empty` are set and cleared by different functions; the producer
signals after it has unlocked; `head = tail` means two things.

*Correct means.* Flags, indices and contents agree; items arrive in order, once
each; neither thread sleeps through what it waits for.

### MINIX hole table: minix/alloc.c, unpaged (modelled but for PAF_CLEAR)

*State.* `hole[_NR_HOLES]`, each slot on the sorted list of holes or on `free_slots`.

*Operations.* `mem_init`, `alloc_mem` with and without `PAF_ALIGN64K`, `free_mem`,
with `merge` and `del_slot`. Sequential: each call runs to its end.

*Hard.* Exact fits at the head and inside the list, three-way merges, padding given
back piecemeal, a full table.

*Correct means.* The list is sorted, apart and coalesced; no click is given out
twice or mislaid; the answers are those of first fit.

### MINIX page ranges: minix/alloc.c, paged (modelled but for the DMA table)

*State.* The AVL tree `addravl` of free ranges, by address; the pages the slab
allocator has; for a call under way its list and what it still wants.

*Operations.* `mem_init`, `alloc_pages`, `free_pages`, `alloc_mem`, `free_mem`,
`alloc_mem_in_list`, `free_mem_list`, and `free_yielded` as they use it.

*Interactions.* `free_pages` takes its node from the slab allocator, which takes a
page of the very ranges that are being changed; `alloc_mem` and
`alloc_mem_in_list` call `free_yielded`, which calls `free_mem`.

*Hard.* The page of the slab allocator leaves the tree between the two merges;
a list fails with half of its pieces allocated; the retry goes on where it was;
an aligned block is cut out of a larger one.

*Correct means.* The ranges are sorted, apart and coalesced; every page is in one
place; a call fails only without memory, and ends.

### MINIX scheduler: minix/schedule.c (modelled)

*State.* `schedproc[NR_PROCS]` and the default slice `DUTS`. The kernel's queue of
each process and the messages on their way belong to its environment.

*Operations.* `do_noquantum`, `do_start_scheduling`, `do_stop_scheduling`, `do_nice`
with its roll-back, `balance_queues` on its timer.

*Interactions.* Messages from PM and from the kernel; `sys_schedule` and
`sys_schedctl`, which may fail.

*Hard.* Failures that only `do_nice` rolls back; messages about processes whose
slot belongs to another by now; children that start above their best queue.

*Correct means.* Table and kernel agree but for failures nobody rolls back; a
process without a quantum is not forgotten; none is pulled above its best queue.

### sefdm tables: sefdm/algorythms/test.list.161.c (modelled but for norms and sigma)

*State.* Eight tables, each an array of linked lists of complex numbers.

*Operations.* The pipeline of `main`: create, correlate, modulate, add noise,
invert by elimination, multiply to check.

*Hard.* Functions walk two lists in step and rely on their dimensions; from its
second round on `invert` reads a table that it also writes; products with the
sign of one term wrong; quotients rounded up to 10^-6, so that a table does not stay
Hermitian; an unsequenced pointer update.

*Correct means.* Every table is empty until its stage and complete in its dimensions
from then on; each round has eliminated its column; the augmented half followed.

### Parts that are not modelled

| part | state and operations | why not |
|---|---|---|
| workcrew message queue and logger (message.c) | `message_send` with IPC_NOWAIT, `message_read` | log lines only: nothing in the crew depends on them |
| workcrew variants (workcrew.c, workcrew-server.c, semaphore/, pthread_cancel/) | the same crew in earlier stages | workcrew-log8.c stands for them; workcrew-server.c lacks a closing brace |
| workcrew sockets (setup_socket.c, server1.c, client-line-1.c) | socket set-up, client I/O | pure I/O |
| job queue and test server (job-queue-2.c, test.c) | a list of jobs with a mutex | unfinished: the first leaves `main` before it queues a job, the second waits on a condition variable without its mutex |
| small thread exercises (cvsimple.c, cs2106-\*.c, join.c and others) | a counter and one mutex or condition variable | `BoundedBuffer` and `ThreadPool` have the same constructs in earnest |
| pipes and FIFOs | fork, one read or write, wait | no state that outlives a statement |
| other MINIX allocators (bestfit-alloc.c, 3.1.7-bestfit-alloc.c, quickfit-alloc.c) | assignment versions of alloc.c | two best-fit loops that read `best_ptr` uninitialised when nothing fits, and an unfinished quick fit with undeclared names |
| socket echo programs | one request, one answer | pure I/O |
| sequential exercises (cellular_automata.c, bubbleSort.c, prime.c and others) | local variables | no state to speak of |
| MPI, PVM, openMP | numerical exercises | no protocol; the PVM master lacks a brace, the MPI matrix product sends pointers |
| the other files of sefdm | about 40 successive versions of one program and of its parts | test.list.161.c is the newest and stands for them |
| Cpp | Java and C++ coursework | user interface |

About 25 thousand of the 42 thousand lines of C are the successive versions of
the one sefdm program; most of the rest are variants of programs modelled here,
programs that do not compile, and exercises without state. A definition can
stand for one place in the source only, so these copies stay uncovered, and
modelling them again would say nothing new.

## 2. Modules

| module | role |
|---|---|
| `PoolService` | what `thr_pool.h` promises: an abstract service without threads |
| `ThreadPool`, `MCThreadPool` | `thr_pool.c` in detail, refining `PoolService`; symmetry for TLC |
| `ThreadPoolProofs` | all the safety of `ThreadPool`, and the refinement of `PoolService`, proved |
| `PoolRing`, `PoolRingProofs` | the global ring of pools, and its proof |
| `Workcrew`, `MCWorkcrew` | the crew over its queues, and its shutdown; symmetry and a state constraint |
| `WorkcrewProofs` | mutual exclusion, conservation of connections and the hand-over of stopped threads proved |
| `BoundedFifo` | a bounded first-in first-out buffer |
| `BoundedBuffer`, `BoundedBufferProofs` | pc-9.c, refining `BoundedFifo`; all its safety proved |
| `FirstFit` | what alloc.c's comments promise: first fit on a set of clicks |
| `HoleList`, `MCHoleList` | alloc.c's hole table, refining `FirstFit`; the chunks TLC uses |
| `HoleListProofs` | all the safety of `HoleList`, and the refinement of `FirstFit`, proved |
| `PageRanges`, `MCPageRanges` | alloc.c's page ranges and the allocations from them; the chunks TLC uses |
| `PageRangesProofs` | all the safety of `PageRanges` proved |
| `Scheduler`, `SchedulerProofs` | schedule.c with what it can see of PM and the kernel; all its safety proved |
| `SefdmTables`, `MCSefdmTables` | the tables of test.list.161.c over a finite ring; the samples TLC uses |
| `SefdmTablesProofs` | all the safety of `SefdmTables`, and the outcome of `invert` for two carriers, proved |

Operators marked *faulty* in a comment are variants of the definition below them,
kept to show that each property can fail. No specification uses them.

### ThreadPool and the code

Every field of `struct thr_pool` is read and written under `pool_mutex`, so one
action is what a thread does between taking the mutex and giving it up. A
condition variable is the set of threads asleep on it. A worker that was
signalled, or whose timed wait ran out, is out of the set and competes for
the mutex; the two events are separate steps because other threads may run
between them.

| action | code |
|---|---|
| `Start`, `Resume`, `TimedOut` | `worker_thread` from getting the mutex to the next unlock or wait |
| `LingerOver` | `pthread_cond_timedwait` runs out (mutex not yet taken) |
| `Return`, `Exit`, `Cancel` | the job function ends: by return, by `pthread_exit`, by cancellation |
| `JobCleanup`, `ExitCleanup` | `job_cleanup` and the loop, or `job_cleanup` and `worker_cleanup` |
| `Queue` | `thr_pool_queue`, from a client or from a running job |
| `Wait`, `ResumeWait` | `thr_pool_wait` |
| `Destroy`, `ResumeDestroyActive`, `ResumeDestroyThreads`, `FreePool` | `thr_pool_destroy`, from one wait to the next |
| `CancelCall` | a caller is cancelled in `pthread_cond_wait`; the handler only unlocks |
| `SpuriousWakeup` | POSIX allows it on each of the three condition variables |

`WorkerCleanup`, `CreateWorker`, `NotifyWaiters` are the static functions of the
same names. A pool is destroyed once; but for that any client may enter any call
at any time, beside `thr_pool_destroy` too, which tests for nobody, and running
jobs may queue as well. Only at the end of `FreePool`, when the memory is gone, do
those that are still inside, or would enter, stop: what they do to it is undefined.
`owed`, `ended`, `discarded` and `late` are history variables; `late` says that a
job was queued after `thr_pool_destroy` had done waiting. Thread identities are
reused after a thread has died, as thread ids are.

In `PoolRing` the sections of `thr_pool_create` and `thr_pool_destroy` under
`thr_pool_lock` are the two actions; pointers are functions on the pools that
exist, so a pointer to a freed pool would be outside its domain.

### Workcrew and the code

The mutexes are default ones. NPTL lets a thread unlock one that another holds,
and processors do so to `rq` on their way out (l.257). A lock is then no guarantee,
so every read and write of a queue is a step of its own (`Get` and `Unlink` for
`queue_get`, `Link` and `Publish` for `queue_put`), and `Release` frees a mutex
whoever holds it. `pc` names the statement a thread is about to run; `ctl` does
so for `stop_server`. The access to `cq` is properly locked, so each of its
sections is one step. A dereference of NULL or of a freed node sets `crashed`,
after which nothing moves. The `sleep` calls order nothing. Freed nodes are not
used again by a later `malloc`. `Report` is what an acceptor or processor does with
its node after the signal: it makes a message from it (l.252, l.287), though the
node has been passed on and a responder may have freed it. What it reads then goes
into the message and nowhere else, so the step has no other effect, and is no
crash; until it `node` keeps the pointer.

### BoundedBuffer and the code

An action is a thread's section under the mutex: `Produce`, `Consume`, or going to
sleep (`AwaitSpace`, `AwaitItem`). The producer's `pthread_cond_signal` comes after
its unlock and is a step of its own, `Announce`; the consumer signals before it
unlocks. The items are the numbers the producer makes. The program makes four
and has ten slots; the model takes any number of both.

### HoleList and the code

A table is a value `[hole, head, free]`, and `DelSlot`, `Merge`, `FreeMem`, `Bite` and
`Booted` are the functions of alloc.c on it. `Alloc`, `AllocAligned`, `Fail`
and `Free` are calls to `alloc_mem` and `free_mem`. Callers release blocks they
were given, with the length they asked for. `held` and `lost` are history
variables: the blocks out there, and the padding of aligned blocks that went to
nobody. `PAF_CLEAR` only writes to the memory handed out and is left out.

### PageRanges and the code

The tree is a function from the first page of a range to its size: the AVL tree
itself is another file, and its insertions and removals are external. The server
is one thread, so a call of `alloc_pages` or `free_pages` is one step, and the
calls above them are sequences of steps kept in `call`:

| action | code |
|---|---|
| `alloc_mem`, `alloc_mem_in_list` | entry, with the flags and the size with padding |
| `Taken`, `Piece` | `alloc_pages` succeeds: `alloc_mem` goes on to the alignment; the list gets a node from the slab allocator, or gives up |
| `Refused` | `alloc_pages` finds nothing |
| `FreeYielded`, `Yielded` | one turn of `free_yielded`; its return, and the decision to try again |
| `Undo`, `Undone` | `free_mem_list` of what was allocated, or `free_mem` in front of an aligned block; the return |
| `Returned` | the list goes to the caller |
| `free_mem`, `YieldBlock` | a caller releases a block, or leaves it to the cache |

`SlabAlloc` is what the slab allocator may do: use a page it has, take one of
the ranges, or fail. A failure inside `free_pages` is a panic, as in the code.
The sanity bitmap (`usedpages`) is compiled in for debugging only and left out.
The DMA table shares the file and nothing else, and `release_dma`, which would
set its flags, panics on entry ("not done").

### Scheduler and the code

Each handler is one action, with a choice for every answer of `sys_schedule` and
`sys_schedctl`. Of PM and the kernel there is what the handlers can observe: PM
creates, starts, renices and stops processes; the kernel keeps a queue and a
quantum per process, sends a message when a quantum runs out, and forgets a
process PM has had stopped. Messages may arrive after their process has gone and
its slot has a new one; endpoints carry a generation for that. A nice value is
the queue `nice_to_priority` makes of it, or one outside its range.

### SefdmTables and the code

A double is a residue modulo a prime, a complex number a pair of residues: sums
and products are exact, and what the elimination does for the doubles
but for rounding it does for the residues. A sum over a row or column is `Total` of a
function on `0..n - 1`, added up from the front as the loops do. Every function runs to its end in one
step; a round of `invert` is a step. Samples of sin and cos come from a small
set. `Anode[j] = Anode[j++]->next` in `modulate` is not sequenced, so both
outcomes are taken. `divide_array_by_double` rounds what it divides up to a multiple
of 10^-6; residues have no order, so `ceil6` is any function on them that keeps 0
and 1, chosen once for an execution. Where it is the identity the quotients are
exact (`Exact`). Norms (`sqrt`) and sigma are left out.

## 3. Runs

### What each run checks

| run | instance | distinct states | what it shows |
|---|---|---|---|
| `pool_safety` | 4 thread identities, at most 3 workers, minimum 1; 2 clients, 4 jobs; `pthread_create` may fail | 219 thousand | counters, sleepers, destruction, and the refinement of `PoolService` |
| `pool_live` | 2 identities, at most 1 worker; 2 clients, 3 jobs | 154 thousand | queued jobs start, waits return, beside a destroy too, an empty pool can always be destroyed |
| `pool_ring` | 5 pools | 326 | the ring links the pools that exist, both ways round |
| `crew_safety` | 1 acceptor, 2 processors, 1 responder; 2 connections; `malloc` may fail any number of times | 2.0 million | exclusion on the queues, each connection in one place, the hand-over of stopped threads |
| `crew_live` | the same threads, 1 connection | 331 thousand | the load drains; deactivation ends the threads of `aq` |
| `buffer` | 12 items, 3 slots | 147 | flags, order, no lost wakeup; the refinement of `BoundedFifo`; all items arrive |
| `alloc_holes` | 3 slots; chunks of 5 and 3 clicks with a gap; sizes 1 and 2; alignment 2 | 162 thousand | the table stays sane, no click lost or given twice, panics are honest, the refinement of `FirstFit` |
| `pages` | 5 pages in two chunks; sizes 1 to 3; alignment 3; limits at pages 5 and 4 | 271 thousand | the ranges stay sane, no page lost or given twice, lists add up, failures are honest, calls end |
| `sched` | 2 slots, 3 queues, 2 processes per slot | 93 thousand | table and kernel agree, nobody is forgotten, processes return to their best queue, in the kernel unless it refused |
| `tables` | 3 carriers of 4 samples out of two values; prime 19; quotients kept, or all but 0 and 1 changed | 162 thousand | tables empty, then complete, columns eliminated, the augment follows |

Two runs check what the repository says of itself, and find it violated:

- `pool_destroy_hangs`: `thr_pool.h:53` says that `thr_pool_destroy` cancels all
  queued jobs and destroys the pool. With a job queued behind a running one it
  never returns: `notify_waiters` broadcasts only when the queue is empty, and a
  worker that sees `POOL_DESTROY` leaves the queue alone. `pool_live` checks what
  is left of the promise (`DestroyReturnsIfEmpty`).
- `crew_join`: `workcrew-log8.c:475` says that `numthreads` is the number of
  acceptors, processors and responders, but it is reset after two more threads
  were counted, and `while (numthreads+2)` waits for one thread too many.

Met while modelling, and not the subject of a run:

- `pool_idle` still counts a worker that has been signalled and has not run yet. A
  second job queued then gets no worker of its own and waits behind the first,
  although one could be created (`thr_pool.h:32-34`).
- `thr_pool_destroy` waits for the workers and for nobody else. A caller of
  `thr_pool_wait` that the same broadcast woke may take the mutex of a freed pool,
  and a `thr_pool_queue` at that time, which does not look at `POOL_DESTROY`, may
  create a worker for it. `thr_pool.h` does not tell callers to keep out.
  `FreedMeansQuiet` is about the workers that were there.
- Processors and acceptors make their message from a node after they have passed
  it on (`workcrew-log8.c:252`, `287`). A responder may have freed it by then
  (l.218). `JobInOnePlace` says that these are the only dangling pointers.
- A processor looks at the flag of `aq` before it looks at the queue, so
  connections that are still in `aq` at shutdown stay there
  (`workcrew-log8.c:468`).
- A leaving processor unlocks `rq` without holding it. `QueuesExclusive` therefore
  claims exclusion on `rq` only until a processor has left its loop.
- The padding of a block allocated with `PAF_ALIGN64K` is cut out with the block,
  and `alloc_mem` releases only the part in front of it. Callers release what
  they asked for, and the rest is nobody's (`alloc.c:179-182`). `lost` keeps it.
- `alloc_pages` compares the start of a range with the 16 MB or 1 MB limit and
  then takes pages from its end.
- `do_noquantum` and `balance_queues` leave the table changed when the kernel
  refused: only `do_nice` takes its changes back. When the last pull is refused,
  the table says that the process is in its best queue, `balance_queues` asks no
  more, and the kernel keeps it in the worse queue for good (`schedule.c:253`).
  `ReturnsToMax` and `TableAgrees` except these processes (`behind`).
- `balance_queues` adapts `DUTS` to the number of processes, but every process
  inherits the slice `init` started with (`OneTimeSlice`).
- `divide_array_by_double` rounds quotients up to 10^-6 (l.140-141). A complex
  correlation is then no longer Hermitian after the first round, and the second
  pivot has an imaginary part: the row is multiplied by the pivot itself (l.839),
  not by the conjugate of the comment in l.832-834, and what is left in the pivot's
  place is not the 1 of l.894-896.
- `addition` of test.list.161.c reads behind its array of noise lists.

### Bounds, and why they are enough

*Pool.* Four identities for three workers let a thread die and its identity be
used again while others run. Four jobs are one more than the workers, so a job
waits in the queue while all of them run; two clients can be in `thr_pool_wait`
and `thr_pool_destroy` at once, or both wait. With `pool_live`'s one worker at a time
the second identity is that of the thread that replaces it. The linger time is never zero in
the runs (`LingerZero = FALSE`); the theorems cover both.
*Crew.* Two processors make the leaving one and the working one differ; two
connections make a queue of more than one node. After a failed `malloc`
`FailureBound` follows the server, through any number of further failures, until it
is told to stop, and no further: the shutdown is explored in full without a failure. What it cuts off is proved:
`WorkcrewProofs` has no such bound.
*Ring.* Five pools have two ends, a middle, a ring of two and a ring of one.
*Buffer.* Twelve items go four times round the three slots. Three slots tell
full, empty and between apart.
*Holes.* Three slots can be used up by two chunks and one release between them;
chunks with a gap show that merging does not bridge it; alignment 2 makes
padding.
*Pages.* Three pages and an alignment of three make padding on both sides; the two
limits separate the ranges into below, between and above; a list of up to three
pages takes up to three pieces.
*Scheduler.* `MaxGen` 2 lets a slot be used again while messages about the first
process are on their way. Three queues have a best, a worst and one between.
*Tables.* Three carriers have two rounds of elimination in which a round reads
what the one before has written. Of the two roundings one keeps every
quotient, and the other changes all it may, so that a complex correlation gets a
second pivot with an imaginary part. The invariants allow for a singular matrix:
the code divides by zero there, and the model goes no further.

Deadlock is checked in `pool_ring`. In the other runs the system may rightly
stop: the jobs, connections, items or processes of the instance are used up, the
memory is, or the program has panicked; in `buffer` the consumer sleeps for good
after the last item.

### Fairness, and why the code justifies it

- `ThreadPool!FairSpec`: weak fairness of each worker's step, of the end of its
  linger time, of its cancellation once requested, and of each client inside a
  call. A thread that can take the mutex gets it in the end, and
  `pthread_cond_timedwait` times out. Nothing forces spurious wakeups, new
  calls, or the end of a job: where a property needs jobs to end it says so
  (`JobsEnd`).
- `Workcrew!FairSpec`: weak fairness of each thread and of the steps of
  `stop_server`, and spurious wakeups that stop in the end. No fairness for
  SIGUSR1 or for arriving connections.
- `BoundedBuffer!FairSpec`: weak fairness of the two threads.
- `Scheduler!FairSpec`: weak fairness of the receipt of each message by
  `do_noquantum` and of `balance_queues`, whose timer is set again at each run.
- `PageRanges!FairSpec`: weak fairness of the step of a call under way. The server
  runs to the end of the function it is in.

## 4. Proofs

The theorems hold for every value of the constants. They assume what the
`ASSUME`s of the modules say: limits the code itself enforces
(`Minimum <= Maximum`), finite sets of threads, more thread identities than
workers, chunks that do not touch (`PageRanges`) or overlap (`HoleList`), more
slots than chunks. For `SefdmTables` it is what makes residues stand for doubles:
every residue but zero can be divided by, that is, `Prime` is an odd prime; that the
roundings keep 0 and 1, as rounding up to a multiple of 10^-6 does; and that
there are two carriers at least and no more carriers than blocks, on which `invert` and
`modulate` rely. TLC evaluates these assumptions in every run.

- **ThreadPoolProofs.** `IInv` is the conjunction of the types, the counters
  (`CountersOK`), the active list (`ActiveOK`), the state of callers (`CallsOK`),
  `NoLostNotify` and `LastWorkerWakes`. The last two carry `CallersAreWoken`: a
  caller asleep in `thr_pool_wait` or `thr_pool_destroy` has somebody left who
  will broadcast. `FreedMeansQuiet` needs `CountersOK` and `CallsOK`: when the
  call reaches the freeing, `pool_nthreads` is zero and so no worker is left, and
  from there on it counts only those that a late `thr_pool_queue` created.
  The second half is about the jobs: `JInv` adds to `IInv` that a job is in one place
  (`JobsOnce`), that what a waiting caller waits for is queued, running or over
  (`OwedOK`), that a pool being
  destroyed has no sleeping workers (`NobodySleepsOn`), and `NoLostJobSignal`,
  which is inductive with them. With `JInv` every step of `ThreadPool` is
  a step of `PoolService` or a stutter.
- **PoolRingProofs.** The ring is a sequence of pools without repetition that both
  pointer functions follow. Inserting is shown on the sequence extended at
  the end, and removal on the sequence with one place skipped and the rest
  renumbered.
- **WorkcrewProofs.** `Owned` is the key: the code between a lock and its unlock
  is run by the owner only. It holds for `aq` until a `malloc` fails and for
  `rq` until a processor leaves, which is what `QueuesExclusive` claims. `Counted`
  relates `numthreads` to the threads collected and gives `StoppedOnce`.
  `Conserved` gives `JobInOnePlace`: each node is in one place (`Apart`), a thread
  in the middle of `queue_get` or `queue_put` can rely on what it has read
  (`Halfway`), a pointer to a freed node is that of a thread past its unlock, and the lists have no cycles (`Ranked`). A list is the least set
  closed under its links, so what pushing and popping do to it (`ReachedPush`,
  `ReachedPop`) needs no induction.
- **BoundedBufferProofs.** `RingHoldsBacklog` says that the k-th slot from `head`
  holds item `Len(received) + k`. With it and the agreement of flags and indices, order,
  lost wakeups and the refinement of `BoundedFifo` follow.
- **SchedulerProofs.** The conjuncts of the invariant are inductive only together:
  a slot in use belongs to the process that PM and the kernel have there now
  (`TakenOver`), the queues agree unless an error was passed over
  (`KernelAgrees`), nice values match the best queues (`NiceMatches`; the two are
  `TableAgrees`), a process
  without a quantum has its message under way (`NobodyForgotten`), and init comes
  first (`InitFirst`), with the slice all others inherit (`OneTimeSlice`).
- **HoleListProofs.** `From` and `mem_init` are recursive functions. `SetInduction`,
  a consequence of the library's theorem that `<` is well-founded on `Nat`, gives
  induction over sets of numbers, and with it both: a function that
  satisfies the recursion exists, and what it computes is the list. From there on
  a table is carried as two sequences, `used` and `spare` (`Lists`): the slots of the
  holes and the others, each slot once, linked as the sequences say. What
  `del_slot` and `free_mem` do is removing and inserting a place in them
  (`DelSlotLists`, `PutInLists`). The holes are a sequence of stretches of clicks, in order
  and apart except behind the places `merge` still has to look at
  (`Ordered(t, used, K)`): `free_mem` inserts behind the last hole below and leaves `K`
  two places at most, and each of `merge`'s two steps takes one of them away
  (`MergeLists`). The inductive invariant `HInv` says that such sequences exist
  (`Sane`), that the clicks of holes, blocks and padding are shared out (`Parts`), and
  that a panic leaves no unused slot. The bound behind "hole table full" maps each hole to
  what is in front of it, a chunk's beginning, a block or a lost click, no two
  to the same (`HoleBegins`, `CountHoles`). First fit: a run of free clicks lies in one
  hole (`RunInHole`), so the first hole that is big enough is the lowest place.
- **PageRangesProofs.** The invariant says that the ranges are sane (apart,
  coalesced, inside the memory), that the pages are partitioned among ranges,
  slab allocator, holders and the call under way, and what each `call` may
  hold. The hardest step is `free_pages`, where the slab allocator may take a page
  of the very neighbour; `FreedAlone` and `FreedBelow` take the merge with the
  upper and the lower neighbour apart. `FailuresAreHonest` needs no induction over
  sizes: in coalesced ranges a run of free pages lies inside one range
  (`RunIsInRange`), so when no range is big enough nothing fits.

- **SefdmTablesProofs.** First the arithmetic: `Plus` and `Times` on pairs of residues form
  a commutative ring, `Conj` respects both, and `Over` multiplies by a real number and
  rounds (`Divides`, `OverTimes`). From `SetInduction` follow the laws of `Total`: sums of sums, factors
  taken out, terms exchanged. On top of these lies what each function makes of a table,
  its shape (`Sized`, `Whole`, `Blank`, `HasValues`) and its entries (`Entry`). The inductive
  invariant `SInv` says which tables each stage has made and which are still blank
  (`Shapes`), and, inside `invert`, where the elimination stands after `r` rounds
  (`Halfway`). Its parts need
  each other: the columns done are those of the identity (`Cleared`); what is left is its own
  conjugate transpose (`Hermitian`), so that the next pivot is real. That survives a
  round only if nothing is rounded (`Exact`); a real correlation stays real all the
  same, and otherwise only the first column is done (`Through`). Further, the augment
  has not been touched from column `r` on (`Untouched`), which is why it does no harm
  that it is only subtracted from up to that column; and the augment times the
  correlation is `A` (`Solves`). For the augment `invert` multiplies with the sign of one
  term wrong (`Crossed`). In the first round that product is with an entry of the
  augment that is still zero or one; in the second it is right only if the numbers
  are real, so `Real` is carried along and `AugmentFollows` asks for it. The second
  round with a complex correlation is wrong in the code, and nothing is claimed of it. With two carriers
  the two rounds are all it takes, and `TwoCarriersInvert` says so: what `CopyResult`
  puts into INVERSE is the inverse. The program has four carriers, and there the columns
  behind the second are left as they are.

*Only model-checked.* Liveness and everything else under fairness is beyond the
prover: `JobsServed`, `WaitReturns`, `DestroyReturnsIfEmpty`, `LoadDrains`,
`CrewStops`, `EverythingArrives`, `ReturnsToMax` and `CallsEnd`. The two runs that find
a violation show a behaviour, which is nothing to prove. Every safety invariant and
action property of the other runs is a theorem. Where a proof needs induction
over numbers it goes through sets (`SetInduction`), as the library's induction
theorems take an operator that the provers do not instantiate.

## 5. What the models leave out

*Thread pool.* The attributes of threads (`clone_attributes`), signal masks, and a
failing `calloc` or `malloc` in `thr_pool_create` and `thr_pool_queue`, which leave
everything as it was. What a thread does that takes the mutex of a freed pool, and
a second `thr_pool_destroy` of the same pool.

*Crew.* Start-up, the message queue and the logger, the end of `stop_server` behind
`join_threads`, which is never reached, and the new start three seconds after
SIGUSR1: it initialises mutexes and condition variables that are in use, whose
behaviour is undefined from there on.

*alloc.c.* `PAF_CLEAR`, the width of integers, the sanity bitmap, the table for
`do_adddma`, `do_deldma` and `do_getdma`.

*sefdm.* Norms and sigma; which way `ceil` rounds (it is any function that keeps 0
and 1); the rounding of sums and products of doubles; what a division by zero leaves.

*Share of the code.* The map covers about one line in twenty of the repository's C
code. About 25 thousand of the 42 thousand lines are versions of one sefdm program, and
modelling each of them would repeat `SefdmTables` thirty-odd times; the
rest is listed under "Parts that are not modelled".

*What is left to do.* The logger as a channel that may lose lines.

------------------------------ MODULE Scheduler ------------------------------
(* minix/schedule.c: the scheduling server SCHED. It keeps a queue number for  *)
(* each process, lowers it when the kernel reports a used-up quantum, raises   *)
(* it again from a timer, and tells the kernel with sys_schedule, which may    *)
(* fail.                                                                       *)
(*                                                                             *)
(* SCHED serves one message at a time, so a handler is one action. Around it   *)
(* are the process manager PM, which asks for a process to be started, stopped *)
(* or reniced, and the kernel, whose out-of-quantum messages are on their way  *)
(* (ooq) while SCHED does other things. Queues are numbers, the smaller the    *)
(* better.                                                                     *)
EXTENDS Naturals, FiniteSets

CONSTANTS
    Slot,                       \* indices of schedproc
    InitSlot,                   \* the slot of init, the first process
    MAX_USER_Q, MIN_USER_Q,     \* best and worst queue of user processes
    USER_Q,                     \* the queue init starts in
    MaxGen,                     \* bound: how often a slot gets a new process
    Few, Many                   \* balance_queues' limits (15 and 75 in the code)

ASSUME SchedulerAssumption ==
    /\ InitSlot \in Slot
    /\ MAX_USER_Q \in Nat /\ MIN_USER_Q \in Nat
    /\ USER_Q \in MAX_USER_Q .. MIN_USER_Q
    /\ MaxGen \in Nat
    /\ Few \in Nat \ {0} /\ Many \in Nat

VARIABLES
    schedproc,  \* the table of processes
    DUTS,       \* the time slice for processes without a parent
    pm,         \* what PM knows of the process in each slot
    kernel,     \* the kernel's view of it
    ooq,        \* out-of-quantum messages on their way to SCHED
    behind      \* history: slots whose kernel queue SCHED failed to set last

vars == <<schedproc, DUTS, pm, kernel, ooq, behind>>

UserQ == MAX_USER_Q .. MIN_USER_Q
DEFAULT_USER_TIME_SLICE == 300
SECONDARY_USER_TIME_SLICE == 150

\* A nice value stands for the queue nice_to_priority makes of it; BadNice is one
\* outside PRIO_MIN .. PRIO_MAX, for which it returns EINVAL.
BadNice == MIN_USER_Q + 1
nice_to_priority_ok(nice) == nice # BadNice

\* An endpoint is a slot and the generation of its process.
InUse(p) == schedproc[p].in_use
sched_isokendpt(p, gen) == InUse(p) /\ schedproc[p].endpoint = gen

Init ==
    /\ schedproc = [p \in Slot |-> [in_use |-> FALSE, endpoint |-> 0,
                        nice |-> MAX_USER_Q, priority |-> MAX_USER_Q,
                        max_priority |-> MAX_USER_Q, time_slice |-> 0]]
    /\ DUTS = DEFAULT_USER_TIME_SLICE
    /\ pm = [p \in Slot |-> "none"]
    /\ kernel = [p \in Slot |-> [gen |-> 0, mine |-> FALSE, quantum |-> FALSE,
                                 q |-> MAX_USER_Q]]
    /\ ooq = {}
    /\ behind = {}

-----------------------------------------------------------------------------
(* The kernel *)

\* The kernel after sys_schedule for p, with p's quantum renewed, if it agreed.
Scheduled(p, q, ok) ==
    IF ok THEN [kernel EXCEPT ![p].q = q, ![p].quantum = TRUE] ELSE kernel

\* schedule_process: sys_schedule for the endpoint, queue and slice of slot p.
\* Its failure leaves the kernel as it was.
schedule_process(p, q, ok) ==
    /\ ok => kernel[p].mine
    /\ kernel' = Scheduled(p, q, ok)
    /\ behind' = IF ok THEN behind \ {p} ELSE behind \cup {p}

\* PM and the kernel create a process. It waits for its first quantum.
Fork(p) ==
    /\ pm[p] = "none" /\ kernel[p].gen < MaxGen
    /\ p # InitSlot => pm[InitSlot] = "running"
    /\ pm' = [pm EXCEPT ![p] = "born"]
    /\ kernel' = [kernel EXCEPT ![p] = [gen |-> @.gen + 1, mine |-> FALSE,
                                        quantum |-> FALSE, q |-> MAX_USER_Q]]
    /\ UNCHANGED <<schedproc, DUTS, ooq, behind>>

\* A process uses up its quantum: it stops, and the kernel sends a message.
QuantumExpires(p) ==
    /\ pm[p] # "none" /\ kernel[p].mine /\ kernel[p].quantum
    /\ kernel' = [kernel EXCEPT ![p].quantum = FALSE]
    /\ ooq' = ooq \cup {<<p, kernel[p].gen>>}
    /\ UNCHANGED <<schedproc, DUTS, pm, behind>>

\* The kernel forgets a process that PM has had stopped, or that SCHED never took.
Clear(p) ==
    /\ pm[p] \in {"born", "leaving"} /\ ~InUse(p) /\ p # InitSlot
    /\ pm' = [pm EXCEPT ![p] = "none"]
    /\ kernel' = [kernel EXCEPT ![p].mine = FALSE, ![p].quantum = FALSE]
    /\ UNCHANGED <<schedproc, DUTS, ooq, behind>>

-----------------------------------------------------------------------------
(* The handlers *)

\* Faulty: does nothing for a process that is in the worst queue already.
do_noquantum_lazy(p, gen) ==
    /\ <<p, gen>> \in ooq
    /\ ooq' = ooq \ {<<p, gen>>}
    /\ IF sched_isokendpt(p, gen) /\ schedproc[p].priority < MIN_USER_Q
       THEN LET q == schedproc[p].priority + 1
            IN  /\ schedproc' = [schedproc EXCEPT ![p].priority = q]
                /\ \E ok \in BOOLEAN : schedule_process(p, q, ok)
       ELSE UNCHANGED <<schedproc, kernel, behind>>
    /\ UNCHANGED <<DUTS, pm>>

\* Faulty: lowers the process without looking at the worst queue.
LoweredUnbounded(q) == q + 1

\* One queue down, but not below the worst.
Lowered(q) == IF q < MIN_USER_Q THEN q + 1 ELSE q

\* Out of quantum. The message of a process that is gone is dropped.
do_noquantum(p, gen) ==
    /\ <<p, gen>> \in ooq
    /\ ooq' = ooq \ {<<p, gen>>}
    /\ IF sched_isokendpt(p, gen)
       THEN LET q == Lowered(schedproc[p].priority)
            IN  /\ schedproc' = [schedproc EXCEPT ![p].priority = q]
                /\ \E ok \in BOOLEAN : schedule_process(p, q, ok)
       ELSE UNCHANGED <<schedproc, kernel, behind>>
    /\ UNCHANGED <<DUTS, pm>>

\* PM stops a process that is about to exit.
do_stop_scheduling(p) ==
    /\ pm[p] \in {"born", "running"} /\ InUse(p) /\ p # InitSlot
    /\ schedproc' = [schedproc EXCEPT ![p].in_use = FALSE]
    /\ pm' = [pm EXCEPT ![p] = "leaving"]
    /\ UNCHANGED <<DUTS, kernel, ooq, behind>>

\* Faulty: a child gets the current default slice instead of its parent's.
FilledDefaultSlice(p, parent, nice) ==
    [schedproc[p] EXCEPT !.endpoint = kernel[p].gen, !.nice = nice,
        !.max_priority = nice,
        !.priority = IF p = parent THEN USER_Q ELSE schedproc[parent].priority,
        !.time_slice = DUTS]

\* The slot with all that do_start_scheduling copies into it, from the message,
\* from nice_to_priority and from the parent (init is its own).
Filled(p, parent, nice) ==
    [schedproc[p] EXCEPT !.endpoint = kernel[p].gen, !.nice = nice,
        !.max_priority = nice,
        !.priority = IF p = parent THEN USER_Q ELSE schedproc[parent].priority,
        !.time_slice = IF p = parent THEN DUTS ELSE schedproc[parent].time_slice]

\* PM asks for p to be started and gets an error before the process is taken over:
\* for its nice value, for its parent, or from sys_schedctl. What was written to
\* the free slot stays there.
StartRefused(p, parent, nice) ==
    /\ \/ /\ ~nice_to_priority_ok(nice)
          /\ schedproc' = [schedproc EXCEPT ![p].endpoint = kernel[p].gen,
                                            ![p].nice = nice]
       \/ /\ nice_to_priority_ok(nice) /\ p # parent /\ ~InUse(parent)
          /\ schedproc' = [schedproc EXCEPT ![p].endpoint = kernel[p].gen,
                                ![p].nice = nice, ![p].max_priority = nice]
       \/ /\ nice_to_priority_ok(nice) /\ (p = parent \/ InUse(parent))
          /\ schedproc' = [schedproc EXCEPT ![p] = Filled(p, parent, nice)]
    /\ UNCHANGED <<pm, kernel, behind>>

\* SCHED takes the process over and schedules it. When only the second fails, PM
\* gets an error although the slot is in use.
StartTaken(p, parent, nice) ==
    /\ nice_to_priority_ok(nice) /\ (p = parent \/ InUse(parent))
    /\ schedproc' = [schedproc EXCEPT ![p] =
                        [Filled(p, parent, nice) EXCEPT !.in_use = TRUE]]
    /\ \E ok \in BOOLEAN :
          /\ kernel' = [Scheduled(p, Filled(p, parent, nice).priority, ok)
                           EXCEPT ![p].mine = TRUE]
          /\ behind' = IF ok THEN behind \ {p} ELSE behind \cup {p}
          /\ pm' = [pm EXCEPT ![p] = IF ok THEN "running" ELSE "born"]

do_start_scheduling(p, parent, nice) ==
    /\ pm[p] = "born" /\ ~InUse(p)
    /\ p = InitSlot <=> p = parent
    /\ StartRefused(p, parent, nice) \/ StartTaken(p, parent, nice)
    /\ UNCHANGED <<DUTS, ooq>>

\* Faulty: the roll-back forgets the priority.
do_nice_keeps_priority(p, nice) ==
    /\ pm[p] = "running" /\ InUse(p) /\ nice_to_priority_ok(nice)
    /\ \E ok \in BOOLEAN :
          /\ ok => kernel[p].mine
          /\ kernel' = Scheduled(p, nice, ok)
          /\ schedproc' = IF ok
                THEN [schedproc EXCEPT ![p].priority = nice, ![p].max_priority = nice,
                                       ![p].nice = nice]
                ELSE [schedproc EXCEPT ![p].priority = nice]
          /\ behind' = IF ok THEN behind \ {p} ELSE behind
    /\ UNCHANGED <<DUTS, pm, ooq>>
\* PM renices a process. When sys_schedule fails everything is rolled back.
do_nice(p, nice) ==
    /\ pm[p] = "running" /\ InUse(p) /\ nice_to_priority_ok(nice)
    /\ \E ok \in BOOLEAN :
          /\ ok => kernel[p].mine
          /\ kernel' = Scheduled(p, nice, ok)
          /\ schedproc' = IF ok
                THEN [schedproc EXCEPT ![p].priority = nice, ![p].max_priority = nice,
                                       ![p].nice = nice]
                ELSE schedproc
          /\ behind' = IF ok THEN behind \ {p} ELSE behind
    /\ UNCHANGED <<DUTS, pm, ooq>>

\* Faulty: pulls every process up, also one in its best queue.
BumpedDownAny == {p \in Slot : InUse(p) /\ schedproc[p].priority > MAX_USER_Q}

\* Faulty: the test of the flag turned round.
BumpedDownNone == {p \in Slot : ~InUse(p) /\ schedproc[p].priority > schedproc[p].max_priority}

\* The processes balance_queues pulls up.
BumpedDown == {p \in Slot : InUse(p) /\ schedproc[p].priority > schedproc[p].max_priority}

\* The timer runs out: every process that was bumped down goes up one queue, in
\* the table even if the kernel refuses, and the timer is set again. The default
\* slice follows the number of processes.
balance_queues ==
    LET nr_procs == Cardinality({p \in Slot : InUse(p)})
    IN  /\ \E refused \in SUBSET BumpedDown :
              /\ kernel' = [p \in Slot |->
                    IF p \in BumpedDown \ refused
                    THEN [kernel[p] EXCEPT !.q = schedproc[p].priority - 1, !.quantum = TRUE]
                    ELSE kernel[p]]
              /\ behind' = (behind \ BumpedDown) \cup refused
        /\ schedproc' = [p \in Slot |-> IF p \in BumpedDown
                            THEN [schedproc[p] EXCEPT !.priority = @ - 1]
                            ELSE schedproc[p]]
        /\ DUTS' = IF nr_procs >= Few /\ nr_procs < Many
                   THEN SECONDARY_USER_TIME_SLICE ELSE DEFAULT_USER_TIME_SLICE
        /\ UNCHANGED <<pm, ooq>>

Next ==
    \/ \E p \in Slot :
          Fork(p) \/ QuantumExpires(p) \/ Clear(p) \/ do_stop_scheduling(p)
    \/ \E p \in Slot, gen \in 0 .. MaxGen : do_noquantum(p, gen)
    \/ \E p \in Slot, parent \in Slot, nice \in UserQ \cup {BadNice} :
          do_start_scheduling(p, parent, nice)
    \/ \E p \in Slot, nice \in UserQ \cup {BadNice} : do_nice(p, nice)
    \/ balance_queues

Spec == Init /\ [][Next]_vars

\* SCHED receives each message in the end, and the timer is always armed:
\* init_scheduling sets it and balance_queues sets it again.
FairSpec ==
    /\ Spec
    /\ \A p \in Slot, gen \in 0 .. MaxGen : WF_vars(do_noquantum(p, gen))
    /\ WF_vars(balance_queues)

-----------------------------------------------------------------------------
(* Properties *)

\* The variables keep their types; in particular every queue in the table and in
\* the kernel is a user queue.
TypeOK ==
    /\ schedproc \in [Slot -> [in_use : BOOLEAN, endpoint : 0 .. MaxGen,
                               nice : UserQ \cup {BadNice}, priority : UserQ,
                               max_priority : UserQ,
                               time_slice : {0, SECONDARY_USER_TIME_SLICE,
                                             DEFAULT_USER_TIME_SLICE}]]
    /\ DUTS \in {SECONDARY_USER_TIME_SLICE, DEFAULT_USER_TIME_SLICE}
    /\ pm \in [Slot -> {"none", "born", "running", "leaving"}]
    /\ kernel \in [Slot -> [gen : 0 .. MaxGen, mine : BOOLEAN, quantum : BOOLEAN,
                            q : UserQ]]
    /\ ooq \subseteq Slot \X (0 .. MaxGen)
    /\ behind \subseteq Slot

\* A slot is in use only for the process PM and the kernel have there now, and
\* only after sys_schedctl has made SCHED its scheduler. A process PM believes
\* started has its slot.
TakenOver == \A p \in Slot :
    /\ InUse(p) => /\ pm[p] \in {"born", "running"}
                   /\ kernel[p].mine
                   /\ schedproc[p].endpoint = kernel[p].gen
    /\ pm[p] = "running" => InUse(p)

\* The table says what the kernel does, unless the last sys_schedule of a handler
\* that does not roll back has failed. A do_nice that failed leaves no trace.
KernelAgrees == \A p \in Slot :
    InUse(p) /\ p \notin behind => kernel[p].q = schedproc[p].priority

\* The nice value of a scheduled process is the one its best queue comes from,
\* also after a do_nice that failed.
NiceMatches == \A p \in Slot : InUse(p) => schedproc[p].max_priority = schedproc[p].nice

\* The fields of a slot agree with the kernel and with each other: the three that
\* do_nice changes come back together when sys_schedule refuses, and only failures
\* of handlers that do not roll back are left behind.
TableAgrees == KernelAgrees /\ NiceMatches

\* A process without a quantum is waiting for SCHED to read the kernel's message,
\* or SCHED has failed to schedule it: no other way to be forgotten.
NobodyForgotten == \A p \in Slot :
    InUse(p) /\ ~kernel[p].quantum => <<p, kernel[p].gen>> \in ooq \/ p \in behind

\* Every process inherits init's slice, though balance_queues keeps changing the
\* default: the number of processes has no effect on anybody's slice.
OneTimeSlice == \A p \in Slot :
    InUse(p) => schedproc[p].time_slice = DEFAULT_USER_TIME_SLICE

\* No handler pulls a process above its best queue. One that started above it,
\* with its parent's priority, is not pulled up any further.
NotAboveMax ==
    [][\A p \in Slot :
          InUse(p) /\ InUse(p)' /\ schedproc'[p].endpoint = schedproc[p].endpoint =>
             \/ schedproc'[p].priority >= schedproc'[p].max_priority
             \/ schedproc'[p].priority >= schedproc[p].priority]_vars

\* A process that stops using up its quanta is back in its best queue some time
\* later: in the table whatever sys_schedule answers, and in the kernel too unless
\* the last sys_schedule about it was refused. After a refusal of the last pull
\* nobody asks again, and the kernel keeps the process in the worse queue.
ReturnsToMax ==
    \A p \in Slot :
        /\ <>[]InUse(p)
        /\ <>[][\A gen \in 0 .. MaxGen : ~do_noquantum(p, gen)]_vars
        => <>[](/\ schedproc[p].priority <= schedproc[p].max_priority
                /\ p \in behind \/ kernel[p].q <= schedproc[p].max_priority)
=============================================================================

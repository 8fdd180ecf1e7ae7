--------------------------- MODULE SchedulerProofs ---------------------------
(* For any number of slots and queues: SCHED's table and the kernel agree, no   *)
(* process is forgotten, and no handler pulls one above its best queue.        *)
EXTENDS Scheduler, FiniteSetTheorems, TLAPS

\* init comes first and stays, so the default slice is untouched when it starts.
InitFirst ==
    /\ \A p \in Slot : p # InitSlot /\ pm[p] # "none" => pm[InitSlot] = "running"
    /\ ~InUse(InitSlot) => DUTS = DEFAULT_USER_TIME_SLICE

Inv ==
    /\ TypeOK
    /\ TakenOver
    /\ KernelAgrees
    /\ NiceMatches
    /\ NobodyForgotten
    /\ OneTimeSlice
    /\ InitFirst

ProcType ==
    [in_use : BOOLEAN, endpoint : 0 .. MaxGen, nice : UserQ \cup {BadNice},
     priority : UserQ, max_priority : UserQ,
     time_slice : {0, SECONDARY_USER_TIME_SLICE, DEFAULT_USER_TIME_SLICE}]

KernelType == [gen : 0 .. MaxGen, mine : BOOLEAN, quantum : BOOLEAN, q : UserQ]

LEMMA Types ==
    ASSUME TypeOK
    PROVE  /\ schedproc \in [Slot -> ProcType]
           /\ kernel \in [Slot -> KernelType]
           /\ pm \in [Slot -> {"none", "born", "running", "leaving"}]
  BY DEF TypeOK, ProcType, KernelType

\* The queues are natural numbers, and going down one stays among them.
LEMMA Queues ==
    /\ UserQ \subseteq Nat /\ BadNice \in Nat /\ BadNice \notin UserQ
    /\ MAX_USER_Q \in UserQ /\ USER_Q \in UserQ
    /\ \A q \in UserQ : Lowered(q) \in UserQ /\ Lowered(q) >= q
    /\ \A q \in UserQ, m \in UserQ : q > m => q - 1 \in UserQ /\ q - 1 >= m
  BY SchedulerAssumption DEF SchedulerAssumption, UserQ, BadNice, Lowered

LEMMA InitInv == Init => Inv
<1>. SUFFICES ASSUME Init PROVE Inv
  OBVIOUS
<1>1. /\ \A p \in Slot : ~InUse(p)
      /\ \A p \in Slot : pm[p] = "none"
      /\ DUTS = DEFAULT_USER_TIME_SLICE
  BY DEF Init, InUse
<1>2. TypeOK
  <2>1. 0 \in 0 .. MaxGen /\ MAX_USER_Q \in UserQ
    BY Queues, SchedulerAssumption DEF SchedulerAssumption
  <2>. QED
    BY <2>1 DEF Init, TypeOK
<1>. QED
  BY <1>1, <1>2 DEF Inv, TakenOver, KernelAgrees, NiceMatches, NobodyForgotten,
     OneTimeSlice, InitFirst

\* What an action that works on the slot p alone leaves to the others.
OthersKept(p) ==
    /\ DUTS' = DUTS
    /\ \A o \in Slot : o # p =>
          /\ schedproc'[o] = schedproc[o] /\ kernel'[o] = kernel[o]
          /\ pm'[o] = pm[o] /\ (o \in behind' <=> o \in behind)
          /\ \A g : <<o, g>> \in ooq => <<o, g>> \in ooq'

\* What the invariant says of p afterwards.
SlotRight(p) ==
    /\ schedproc'[p].in_use =>
          /\ pm'[p] \in {"born", "running"}
          /\ kernel'[p].mine
          /\ schedproc'[p].endpoint = kernel'[p].gen
          /\ p \notin behind' => kernel'[p].q = schedproc'[p].priority
          /\ schedproc'[p].max_priority = schedproc'[p].nice
          /\ ~kernel'[p].quantum => <<p, kernel'[p].gen>> \in ooq' \/ p \in behind'
          /\ schedproc'[p].time_slice = DEFAULT_USER_TIME_SLICE
    /\ pm'[p] = "running" => schedproc'[p].in_use
    /\ p # InitSlot /\ pm'[p] # "none" => pm[InitSlot] = "running"
    /\ p = InitSlot => /\ pm[p] = "running" => pm'[p] = "running"
                       /\ InUse(p) => schedproc'[p].in_use

\* Such an action keeps the invariant if it keeps the types.
LEMMA OneSlot ==
    ASSUME Inv, TypeOK', NEW p \in Slot, OthersKept(p), SlotRight(p)
    PROVE  Inv'
<1>. USE DEF OthersKept, SlotRight
<1>1. TakenOver'
  BY DEF Inv, TakenOver, InUse
<1>2. KernelAgrees' /\ NiceMatches'
  BY DEF Inv, KernelAgrees, NiceMatches, InUse
<1>3. NobodyForgotten' /\ OneTimeSlice'
  BY DEF Inv, NobodyForgotten, OneTimeSlice, InUse
<1>4. InitFirst'
  BY SchedulerAssumption DEF SchedulerAssumption, Inv, InitFirst, InUse
<1>. QED
  BY <1>1, <1>2, <1>3, <1>4 DEF Inv

-----------------------------------------------------------------------------
(* The kernel and PM *)

LEMMA ForkInv == ASSUME Inv, NEW p \in Slot, Fork(p) PROVE Inv'
<1>1. /\ pm[p] = "none" /\ kernel[p].gen + 1 \in 0 .. MaxGen
      /\ p # InitSlot => pm[InitSlot] = "running"
      /\ pm' = [pm EXCEPT ![p] = "born"]
      /\ kernel' = [kernel EXCEPT ![p] = [gen |-> kernel[p].gen + 1, mine |-> FALSE,
                                          quantum |-> FALSE, q |-> MAX_USER_Q]]
      /\ schedproc' = schedproc /\ DUTS' = DUTS /\ ooq' = ooq /\ behind' = behind
  <2>1. kernel[p].gen \in 0 .. MaxGen
    BY Types DEF Inv, KernelType
  <2>. QED
    BY <2>1, SchedulerAssumption DEF SchedulerAssumption, Fork
<1>2. ~InUse(p)
  BY <1>1 DEF Inv, TakenOver
<1>3. TypeOK'
  <2>1. kernel' \in [Slot -> KernelType]
    BY <1>1, Types, Queues DEF Inv, KernelType
  <2>2. pm' \in [Slot -> {"none", "born", "running", "leaving"}]
    BY <1>1, Types DEF Inv
  <2>. QED
    BY <1>1, <2>1, <2>2 DEF Inv, TypeOK, KernelType
<1>4. \A o \in Slot : o # p => kernel'[o] = kernel[o] /\ pm'[o] = pm[o]
  BY <1>1, Types DEF Inv
<1>5. ~InUse(p)' /\ pm'[p] = "born"
  BY <1>1, <1>2, Types DEF Inv, InUse
<1>8. OthersKept(p) /\ SlotRight(p)
  BY <1>1, <1>2, <1>3, <1>4, <1>5 DEF OthersKept, SlotRight, InUse
<1>. QED
  BY <1>1, <1>2, <1>3, <1>4, <1>5, <1>8, OneSlot

LEMMA QuantumExpiresInv == ASSUME Inv, NEW p \in Slot, QuantumExpires(p) PROVE Inv'
<1>1. /\ pm[p] # "none" /\ kernel[p].mine
      /\ kernel' = [kernel EXCEPT ![p].quantum = FALSE]
      /\ ooq' = ooq \cup {<<p, kernel[p].gen>>}
      /\ schedproc' = schedproc /\ DUTS' = DUTS /\ pm' = pm /\ behind' = behind
  BY DEF QuantumExpires
<1>2. /\ kernel[p] \in KernelType /\ kernel' \in [Slot -> KernelType]
      /\ kernel'[p].gen = kernel[p].gen /\ kernel'[p].mine = kernel[p].mine
      /\ kernel'[p].q = kernel[p].q
      /\ \A o \in Slot : o # p => kernel'[o] = kernel[o]
  BY <1>1, Types DEF Inv, KernelType
<1>3. TypeOK'
  BY <1>1, <1>2 DEF Inv, TypeOK, KernelType
<1>4. InUse(p)' <=> InUse(p)
  BY <1>1 DEF InUse
<1>5. <<p, kernel'[p].gen>> \in ooq'
  BY <1>1, <1>2
<1>6. InUse(p) => /\ pm[p] \in {"born", "running"}
                  /\ schedproc[p].endpoint = kernel[p].gen
                  /\ p \notin behind => kernel[p].q = schedproc[p].priority
                  /\ schedproc[p].max_priority = schedproc[p].nice
                  /\ schedproc[p].time_slice = DEFAULT_USER_TIME_SLICE
  BY DEF Inv, TakenOver, KernelAgrees, NiceMatches, OneTimeSlice
<1>7. /\ pm[p] = "running" => InUse(p)
      /\ p # InitSlot /\ pm[p] # "none" => pm[InitSlot] = "running"
  BY DEF Inv, TakenOver, InitFirst
<1>8. OthersKept(p) /\ SlotRight(p)
  BY <1>1, <1>2, <1>3, <1>4, <1>5, <1>6, <1>7 DEF OthersKept, SlotRight, InUse
<1>. QED
  BY <1>1, <1>2, <1>3, <1>4, <1>5, <1>6, <1>7, <1>8, OneSlot

LEMMA ClearInv == ASSUME Inv, NEW p \in Slot, Clear(p) PROVE Inv'
<1>1. /\ ~InUse(p) /\ p # InitSlot
      /\ pm' = [pm EXCEPT ![p] = "none"]
      /\ kernel' = [kernel EXCEPT ![p].mine = FALSE, ![p].quantum = FALSE]
      /\ schedproc' = schedproc /\ DUTS' = DUTS /\ ooq' = ooq /\ behind' = behind
  BY DEF Clear
<1>2. /\ kernel' \in [Slot -> KernelType]
      /\ \A o \in Slot : o # p => kernel'[o] = kernel[o]
  BY <1>1, Types DEF Inv, KernelType
<1>3. /\ pm' \in [Slot -> {"none", "born", "running", "leaving"}] /\ pm'[p] = "none"
      /\ \A o \in Slot : o # p => pm'[o] = pm[o]
  BY <1>1, Types DEF Inv
<1>4. TypeOK'
  BY <1>1, <1>2, <1>3 DEF Inv, TypeOK, KernelType
<1>5. ~InUse(p)'
  BY <1>1 DEF InUse
<1>8. OthersKept(p) /\ SlotRight(p)
  BY <1>1, <1>2, <1>3, <1>4, <1>5 DEF OthersKept, SlotRight, InUse
<1>. QED
  BY <1>1, <1>2, <1>3, <1>4, <1>5, <1>8, OneSlot

-----------------------------------------------------------------------------
(* The handlers *)

LEMMA StopInv == ASSUME Inv, NEW p \in Slot, do_stop_scheduling(p) PROVE Inv'
<1>1. /\ pm[p] \in {"born", "running"} /\ p # InitSlot
      /\ schedproc' = [schedproc EXCEPT ![p].in_use = FALSE]
      /\ pm' = [pm EXCEPT ![p] = "leaving"]
      /\ DUTS' = DUTS /\ kernel' = kernel /\ ooq' = ooq /\ behind' = behind
  BY DEF do_stop_scheduling
<1>2. /\ schedproc' \in [Slot -> ProcType] /\ ~schedproc'[p].in_use
      /\ \A o \in Slot : o # p => schedproc'[o] = schedproc[o]
  BY <1>1, Types DEF Inv, ProcType
<1>3. /\ pm' \in [Slot -> {"none", "born", "running", "leaving"}] /\ pm'[p] = "leaving"
      /\ \A o \in Slot : o # p => pm'[o] = pm[o]
  BY <1>1, Types DEF Inv
<1>4. TypeOK'
  BY <1>1, <1>2, <1>3 DEF Inv, TypeOK, ProcType
<1>5. ~InUse(p)'
  BY <1>2 DEF InUse
<1>6. pm[InitSlot] = "running"
  BY <1>1 DEF Inv, InitFirst
<1>8. OthersKept(p) /\ SlotRight(p)
  BY <1>1, <1>2, <1>3, <1>4, <1>5, <1>6 DEF OthersKept, SlotRight, InUse
<1>. QED
  BY <1>1, <1>2, <1>3, <1>4, <1>5, <1>6, <1>8, OneSlot

\* What schedule_process and the new kernel record do to p, and to p only.
LEMMA ScheduledOne ==
    ASSUME TypeOK, NEW p \in Slot, NEW q \in UserQ, NEW ok \in BOOLEAN
    PROVE  /\ Scheduled(p, q, ok) \in [Slot -> KernelType]
           /\ Scheduled(p, q, ok)[p].gen = kernel[p].gen
           /\ Scheduled(p, q, ok)[p].mine = kernel[p].mine
           /\ ok => /\ Scheduled(p, q, ok)[p].q = q
                    /\ Scheduled(p, q, ok)[p].quantum
           /\ ~ok => Scheduled(p, q, ok) = kernel
           /\ \A o \in Slot : o # p => Scheduled(p, q, ok)[o] = kernel[o]
<1>1. kernel \in [Slot -> KernelType]
  BY Types
<1>. QED
  BY <1>1 DEF Scheduled, KernelType

LEMMA NoQuantumInv ==
    ASSUME Inv, NEW p \in Slot, NEW gen \in 0 .. MaxGen, do_noquantum(p, gen)
    PROVE  Inv'
<1>1. /\ ooq' = ooq \ {<<p, gen>>} /\ DUTS' = DUTS /\ pm' = pm
      /\ schedproc[p] \in ProcType
  BY Types DEF do_noquantum, Inv
<1>2. /\ pm[p] = "running" => InUse(p)
      /\ p # InitSlot /\ pm[p] # "none" => pm[InitSlot] = "running"
      /\ InUse(p) => /\ pm[p] \in {"born", "running"}
                     /\ kernel[p].mine
                     /\ schedproc[p].endpoint = kernel[p].gen
                     /\ schedproc[p].max_priority = schedproc[p].nice
                     /\ schedproc[p].time_slice = DEFAULT_USER_TIME_SLICE
  BY DEF Inv, TakenOver, NiceMatches, OneTimeSlice, InitFirst
<1>3. CASE ~sched_isokendpt(p, gen)
  <2>1. schedproc' = schedproc /\ kernel' = kernel /\ behind' = behind
    BY <1>3 DEF do_noquantum
  <2>2. InUse(p) => kernel[p].gen # gen
    BY <1>2, <1>3 DEF sched_isokendpt
  <2>3. InUse(p) => /\ p \notin behind => kernel[p].q = schedproc[p].priority
                    /\ ~kernel[p].quantum => <<p, kernel[p].gen>> \in ooq' \/ p \in behind
    BY <1>1, <2>2 DEF Inv, KernelAgrees, NobodyForgotten
  <2>4. TypeOK'
    BY <1>1, <2>1 DEF Inv, TypeOK
  <2>5. InUse(p)' <=> InUse(p)
    BY <2>1 DEF InUse
  <2>6. OthersKept(p)
    BY <1>1, <2>1 DEF OthersKept
  <2>7. SlotRight(p)
    BY <1>1, <1>2, <2>1, <2>3 DEF SlotRight, InUse
  <2>. QED
    BY <2>4, <2>6, <2>7, OneSlot
<1>4. CASE sched_isokendpt(p, gen)
  <2>. DEFINE q == Lowered(schedproc[p].priority)
  <2>1. q \in UserQ
    BY <1>1, Queues DEF ProcType
  <2>2. PICK ok \in BOOLEAN : schedule_process(p, q, ok)
    BY <1>4 DEF do_noquantum
  <2>3. schedproc' = [schedproc EXCEPT ![p].priority = q]
    BY <1>4 DEF do_noquantum
  <2>. HIDE DEF q
  <2>4. /\ schedproc' \in [Slot -> ProcType] /\ schedproc'[p].priority = q
        /\ \A o \in Slot : o # p => schedproc'[o] = schedproc[o]
        /\ schedproc'[p].in_use = schedproc[p].in_use
        /\ schedproc'[p].endpoint = schedproc[p].endpoint
        /\ schedproc'[p].nice = schedproc[p].nice
        /\ schedproc'[p].max_priority = schedproc[p].max_priority
        /\ schedproc'[p].time_slice = schedproc[p].time_slice
    BY <2>1, <2>3, Types DEF Inv, ProcType
  <2>5. kernel' = Scheduled(p, q, ok)
        /\ behind' = IF ok THEN behind \ {p} ELSE behind \cup {p}
    BY <2>2 DEF schedule_process
  <2>6. /\ kernel' \in [Slot -> KernelType]
        /\ kernel'[p].gen = kernel[p].gen /\ kernel'[p].mine = kernel[p].mine
        /\ ok => kernel'[p].q = q /\ kernel'[p].quantum
        /\ \A o \in Slot : o # p => kernel'[o] = kernel[o]
    BY <2>1, <2>5, ScheduledOne DEF Inv
  <2>7. /\ \A o \in Slot : o # p => (o \in behind' <=> o \in behind)
        /\ ok \/ p \in behind'
        /\ behind' \subseteq Slot
    BY <2>5 DEF Inv, TypeOK
  <2>8. TypeOK'
    BY <1>1, <2>4, <2>6, <2>7 DEF Inv, TypeOK, ProcType, KernelType
  <2>9. InUse(p)' <=> InUse(p)
    BY <2>4 DEF InUse
  <2>10. OthersKept(p)
    BY <1>1, <2>4, <2>6, <2>7 DEF OthersKept
  <2>11. SlotRight(p)
    BY <1>1, <1>2, <2>4, <2>6, <2>7, <2>9 DEF SlotRight, InUse
  <2>. QED
    BY <2>8, <2>10, <2>11, OneSlot
<1>. QED
  BY <1>3, <1>4

LEMMA NiceInv ==
    ASSUME Inv, NEW p \in Slot, NEW nice \in UserQ \cup {BadNice}, do_nice(p, nice)
    PROVE  Inv'
<1>1. nice \in UserQ
  BY DEF do_nice, nice_to_priority_ok
<1>2. PICK ok \in BOOLEAN :
        /\ kernel' = Scheduled(p, nice, ok)
        /\ schedproc' = IF ok
              THEN [schedproc EXCEPT ![p].priority = nice, ![p].max_priority = nice,
                                     ![p].nice = nice]
              ELSE schedproc
        /\ behind' = IF ok THEN behind \ {p} ELSE behind
  BY DEF do_nice
<1>3. pm[p] = "running" /\ InUse(p) /\ DUTS' = DUTS /\ pm' = pm /\ ooq' = ooq
  BY DEF do_nice
<1>4. /\ p # InitSlot => pm[InitSlot] = "running"
      /\ kernel[p].mine
      /\ schedproc[p].endpoint = kernel[p].gen
      /\ p \notin behind => kernel[p].q = schedproc[p].priority
      /\ schedproc[p].max_priority = schedproc[p].nice
      /\ ~kernel[p].quantum => <<p, kernel[p].gen>> \in ooq \/ p \in behind
      /\ schedproc[p].time_slice = DEFAULT_USER_TIME_SLICE
  BY <1>3 DEF Inv, TakenOver, KernelAgrees, NiceMatches, NobodyForgotten,
     OneTimeSlice, InitFirst
<1>5. CASE ~ok
  <2>1. schedproc' = schedproc /\ behind' = behind /\ kernel' = kernel
    BY <1>1, <1>2, <1>5, ScheduledOne DEF Inv
  <2>. QED
    BY <1>3, <2>1 DEF Inv, TypeOK, TakenOver, KernelAgrees, NiceMatches,
       NobodyForgotten, OneTimeSlice, InitFirst, InUse
<1>6. CASE ok
  <2>1. schedproc' = [schedproc EXCEPT ![p].priority = nice, ![p].max_priority = nice,
                                       ![p].nice = nice]
        /\ behind' = behind \ {p}
    BY <1>2, <1>6
  <2>2. /\ schedproc' \in [Slot -> ProcType] /\ schedproc'[p].priority = nice
        /\ \A o \in Slot : o # p => schedproc'[o] = schedproc[o]
        /\ schedproc'[p].in_use = schedproc[p].in_use
        /\ schedproc'[p].endpoint = schedproc[p].endpoint
        /\ schedproc'[p].nice = nice
        /\ schedproc'[p].max_priority = nice
        /\ schedproc'[p].time_slice = schedproc[p].time_slice
    BY <1>1, <2>1, Types DEF Inv, ProcType
  <2>3. /\ kernel' \in [Slot -> KernelType]
        /\ kernel'[p].gen = kernel[p].gen /\ kernel'[p].mine = kernel[p].mine
        /\ kernel'[p].q = nice /\ kernel'[p].quantum
        /\ \A o \in Slot : o # p => kernel'[o] = kernel[o]
    <3>. DEFINE k == Scheduled(p, nice, ok)
    <3>1. /\ k \in [Slot -> KernelType]
          /\ k[p].gen = kernel[p].gen /\ k[p].mine = kernel[p].mine
          /\ ok => k[p].q = nice /\ k[p].quantum
          /\ \A o \in Slot : o # p => k[o] = kernel[o]
      BY <1>1, ScheduledOne DEF Inv
    <3>2. kernel' = k
      BY <1>2
    <3>. HIDE DEF k
    <3>. QED
      BY <1>6, <3>1, <3>2
  <2>4. TypeOK'
    BY <1>3, <2>1, <2>2, <2>3 DEF Inv, TypeOK, ProcType, KernelType
  <2>5. InUse(p)'
    BY <1>3, <2>2 DEF InUse
  <2>6. OthersKept(p)
    BY <1>3, <2>1, <2>2, <2>3 DEF OthersKept
  <2>7. SlotRight(p)
    BY <1>3, <1>4, <2>1, <2>2, <2>3 DEF SlotRight, InUse
  <2>. QED
    BY <2>4, <2>6, <2>7, OneSlot
<1>. QED
  BY <1>5, <1>6

\* A start copies a queue and a slice into the slot that are in their types, and
\* the slice is the default one: init's, before balance_queues could change it.
LEMMA FilledRight ==
    ASSUME Inv, NEW p \in Slot, NEW parent \in Slot, NEW nice \in UserQ,
           ~InUse(p), p = InitSlot <=> p = parent, p = parent \/ InUse(parent)
    PROVE  /\ Filled(p, parent, nice) \in ProcType
           /\ Filled(p, parent, nice).in_use = schedproc[p].in_use
           /\ Filled(p, parent, nice).endpoint = kernel[p].gen
           /\ Filled(p, parent, nice).nice = nice
           /\ Filled(p, parent, nice).max_priority = nice
           /\ Filled(p, parent, nice).time_slice = DEFAULT_USER_TIME_SLICE
<1>1. schedproc[p] \in ProcType /\ schedproc[parent] \in ProcType
      /\ kernel[p] \in KernelType
  BY Types DEF Inv
<1>2. p = parent => DUTS = DEFAULT_USER_TIME_SLICE
  BY DEF Inv, InitFirst
<1>3. p # parent => schedproc[parent].time_slice = DEFAULT_USER_TIME_SLICE
  BY DEF Inv, OneTimeSlice
<1>. DEFINE prio == IF p = parent THEN USER_Q ELSE schedproc[parent].priority
            slice == IF p = parent THEN DUTS ELSE schedproc[parent].time_slice
<1>4. prio \in UserQ /\ slice = DEFAULT_USER_TIME_SLICE
  BY <1>1, <1>2, <1>3, Queues DEF ProcType
<1>5. Filled(p, parent, nice) =
         [schedproc[p] EXCEPT !.endpoint = kernel[p].gen, !.nice = nice,
             !.max_priority = nice, !.priority = prio, !.time_slice = slice]
  BY DEF Filled
<1>. HIDE DEF prio, slice
<1>. QED
  BY <1>1, <1>4, <1>5 DEF ProcType, KernelType

LEMMA StartInv ==
    ASSUME Inv, NEW p \in Slot, NEW parent \in Slot,
           NEW nice \in UserQ \cup {BadNice}, do_start_scheduling(p, parent, nice)
    PROVE  Inv'
<1>1. /\ pm[p] = "born" /\ ~InUse(p) /\ (p = InitSlot <=> p = parent)
      /\ DUTS' = DUTS /\ ooq' = ooq
      /\ StartRefused(p, parent, nice) \/ StartTaken(p, parent, nice)
  BY DEF do_start_scheduling
<1>2. p # InitSlot => pm[InitSlot] = "running"
  BY <1>1 DEF Inv, InitFirst
<1>3. schedproc[p] \in ProcType /\ kernel[p].gen \in 0 .. MaxGen
  BY Types DEF Inv, KernelType
<1>4. CASE StartRefused(p, parent, nice)
  <2>1. pm' = pm /\ kernel' = kernel /\ behind' = behind
    BY <1>4 DEF StartRefused
  <2>2. PICK new \in ProcType : /\ schedproc' = [schedproc EXCEPT ![p] = new]
                                /\ new.in_use = schedproc[p].in_use
    <3>1. CASE ~nice_to_priority_ok(nice)
      <4>1. schedproc' = [schedproc EXCEPT ![p] =
               [schedproc[p] EXCEPT !.endpoint = kernel[p].gen, !.nice = nice]]
        BY <1>4, <3>1, Types DEF StartRefused, Inv
      <4>2. [schedproc[p] EXCEPT !.endpoint = kernel[p].gen, !.nice = nice]
               \in ProcType
        BY <1>3 DEF ProcType
      <4>3. [schedproc[p] EXCEPT !.endpoint = kernel[p].gen, !.nice = nice].in_use
               = schedproc[p].in_use
        BY <1>3 DEF ProcType
      <4>. QED
        BY <4>1, <4>2, <4>3
    <3>2. CASE nice_to_priority_ok(nice) /\ p # parent /\ ~InUse(parent)
      <4>1. schedproc' = [schedproc EXCEPT ![p] =
               [schedproc[p] EXCEPT !.endpoint = kernel[p].gen, !.nice = nice,
                                    !.max_priority = nice]]
        BY <1>4, <3>2, Types DEF StartRefused, Inv
      <4>2. nice \in UserQ
        BY <3>2 DEF nice_to_priority_ok
      <4>3. [schedproc[p] EXCEPT !.endpoint = kernel[p].gen, !.nice = nice,
                                 !.max_priority = nice] \in ProcType
        BY <1>3, <4>2 DEF ProcType
      <4>4. [schedproc[p] EXCEPT !.endpoint = kernel[p].gen, !.nice = nice,
                !.max_priority = nice].in_use = schedproc[p].in_use
        BY <1>3 DEF ProcType
      <4>. QED
        BY <4>1, <4>3, <4>4
    <3>3. CASE nice_to_priority_ok(nice) /\ (p = parent \/ InUse(parent))
      <4>1. schedproc' = [schedproc EXCEPT ![p] = Filled(p, parent, nice)]
        BY <1>4, <3>3 DEF StartRefused
      <4>2. nice \in UserQ
        BY <3>3 DEF nice_to_priority_ok
      <4>3. /\ Filled(p, parent, nice) \in ProcType
            /\ Filled(p, parent, nice).in_use = schedproc[p].in_use
        BY <1>1, <3>3, <4>2, FilledRight
      <4>. QED
        BY <4>1, <4>3
    <3>. QED
      BY <1>4, <3>1, <3>2, <3>3 DEF StartRefused
  <2>3. /\ schedproc' \in [Slot -> ProcType] /\ ~schedproc'[p].in_use
        /\ \A o \in Slot : o # p => schedproc'[o] = schedproc[o]
    BY <1>1, <2>2, Types DEF Inv, InUse
  <2>4. TypeOK'
    BY <1>1, <2>1, <2>3 DEF Inv, TypeOK, ProcType
  <2>5. OthersKept(p) /\ SlotRight(p)
    BY <1>1, <1>2, <2>1, <2>3 DEF OthersKept, SlotRight
  <2>. QED
    BY <2>4, <2>5, OneSlot
<1>5. CASE StartTaken(p, parent, nice)
  <2>. DEFINE filled == Filled(p, parent, nice)
  <2>1. nice \in UserQ /\ (p = parent \/ InUse(parent))
    BY <1>5 DEF StartTaken, nice_to_priority_ok
  <2>2. /\ filled \in ProcType /\ filled.endpoint = kernel[p].gen
        /\ filled.nice = nice /\ filled.max_priority = nice
        /\ filled.time_slice = DEFAULT_USER_TIME_SLICE
    BY <1>1, <2>1, FilledRight
  <2>3. PICK ok \in BOOLEAN :
           /\ kernel' = [Scheduled(p, filled.priority, ok) EXCEPT ![p].mine = TRUE]
           /\ behind' = IF ok THEN behind \ {p} ELSE behind \cup {p}
           /\ pm' = [pm EXCEPT ![p] = IF ok THEN "running" ELSE "born"]
    BY <1>5 DEF StartTaken
  <2>4. schedproc' = [schedproc EXCEPT ![p] = [filled EXCEPT !.in_use = TRUE]]
    BY <1>5 DEF StartTaken
  <2>. HIDE DEF filled
  <2>5. /\ schedproc' \in [Slot -> ProcType]
        /\ \A o \in Slot : o # p => schedproc'[o] = schedproc[o]
        /\ schedproc'[p].in_use
        /\ schedproc'[p].endpoint = kernel[p].gen
        /\ schedproc'[p].priority = filled.priority
        /\ schedproc'[p].nice = nice /\ schedproc'[p].max_priority = nice
        /\ schedproc'[p].time_slice = DEFAULT_USER_TIME_SLICE
    BY <2>2, <2>4, Types DEF Inv, ProcType
  <2>6. /\ kernel' \in [Slot -> KernelType]
        /\ \A o \in Slot : o # p => kernel'[o] = kernel[o]
        /\ kernel'[p].gen = kernel[p].gen /\ kernel'[p].mine
        /\ ok => kernel'[p].q = filled.priority
    <3>. DEFINE k == Scheduled(p, filled.priority, ok)
    <3>1. filled.priority \in UserQ
      BY <2>2 DEF ProcType
    <3>2. /\ k \in [Slot -> KernelType] /\ k[p].gen = kernel[p].gen
          /\ ok => k[p].q = filled.priority
          /\ \A o \in Slot : o # p => k[o] = kernel[o]
      BY <3>1, ScheduledOne DEF Inv
    <3>3. kernel' = [k EXCEPT ![p].mine = TRUE]
      BY <2>3
    <3>. HIDE DEF k
    <3>. QED
      BY <3>2, <3>3 DEF KernelType
  <2>7. ok => kernel'[p].quantum
    <3>1. ok => Scheduled(p, filled.priority, ok)[p].quantum
      BY <2>2, ScheduledOne DEF Inv, ProcType
    <3>2. Scheduled(p, filled.priority, ok) \in [Slot -> KernelType]
      BY <2>2, ScheduledOne DEF Inv, ProcType
    <3>. QED
      BY <2>3, <3>1, <3>2 DEF KernelType
  <2>8. /\ pm' \in [Slot -> {"none", "born", "running", "leaving"}]
        /\ pm'[p] \in {"born", "running"}
        /\ \A o \in Slot : o # p => pm'[o] = pm[o]
    BY <2>3, Types DEF Inv
  <2>9. /\ behind' \subseteq Slot /\ (ok \/ p \in behind')
        /\ \A o \in Slot : o # p => (o \in behind' <=> o \in behind)
    BY <2>3 DEF Inv, TypeOK
  <2>10. TypeOK'
    BY <1>1, <2>5, <2>6, <2>8, <2>9 DEF Inv, TypeOK, ProcType, KernelType
  <2>11. OthersKept(p)
    BY <1>1, <2>5, <2>6, <2>8, <2>9 DEF OthersKept
  <2>12. SlotRight(p)
    BY <1>1, <1>2, <2>5, <2>6, <2>7, <2>8, <2>9 DEF SlotRight
  <2>. QED
    BY <2>10, <2>11, <2>12, OneSlot
<1>. QED
  BY <1>1, <1>4, <1>5

\* The timer changes several slots at once, each of them alike.
LEMMA BalanceInv == ASSUME Inv, balance_queues PROVE Inv'
<1>1. PICK refused \in SUBSET BumpedDown :
        /\ kernel' = [p \in Slot |->
              IF p \in BumpedDown \ refused
              THEN [kernel[p] EXCEPT !.q = schedproc[p].priority - 1, !.quantum = TRUE]
              ELSE kernel[p]]
        /\ behind' = (behind \ BumpedDown) \cup refused
  BY DEF balance_queues
<1>2. /\ schedproc' = [p \in Slot |-> IF p \in BumpedDown
                         THEN [schedproc[p] EXCEPT !.priority = schedproc[p].priority - 1]
                         ELSE schedproc[p]]
      /\ pm' = pm /\ ooq' = ooq
  BY DEF balance_queues
<1>3. \A p \in BumpedDown : schedproc[p].priority - 1 \in UserQ
  BY Types, Queues DEF Inv, BumpedDown, ProcType
<1>4. \A p \in Slot :
        /\ schedproc'[p] \in ProcType
        /\ schedproc'[p].in_use = schedproc[p].in_use
        /\ schedproc'[p].endpoint = schedproc[p].endpoint
        /\ schedproc'[p].nice = schedproc[p].nice
        /\ schedproc'[p].max_priority = schedproc[p].max_priority
        /\ schedproc'[p].time_slice = schedproc[p].time_slice
        /\ p \in BumpedDown => schedproc'[p].priority = schedproc[p].priority - 1
        /\ p \notin BumpedDown => schedproc'[p].priority = schedproc[p].priority
  BY <1>2, <1>3, Types DEF Inv, ProcType
<1>5. \A p \in Slot :
        /\ kernel'[p] \in KernelType
        /\ kernel'[p].gen = kernel[p].gen /\ kernel'[p].mine = kernel[p].mine
        /\ p \in BumpedDown \ refused => /\ kernel'[p].q = schedproc[p].priority - 1
                                        /\ kernel'[p].quantum
        /\ p \notin BumpedDown \ refused => kernel'[p] = kernel[p]
  BY <1>1, <1>3, Types DEF Inv, KernelType
<1>6. /\ behind' \subseteq Slot
      /\ \A p \in Slot : /\ p \in refused => p \in behind'
                         /\ p \notin BumpedDown => (p \in behind' <=> p \in behind)
  BY <1>1 DEF Inv, TypeOK, BumpedDown
<1>7. DUTS' \in {SECONDARY_USER_TIME_SLICE, DEFAULT_USER_TIME_SLICE}
  BY DEF balance_queues
<1>8. TypeOK'
  <2>1. schedproc' \in [Slot -> ProcType] /\ kernel' \in [Slot -> KernelType]
    BY <1>1, <1>2, <1>4, <1>5
  <2>. QED
    BY <1>2, <1>6, <1>7, <2>1 DEF Inv, TypeOK, ProcType, KernelType
<1>9. TakenOver'
  BY <1>2, <1>4, <1>5 DEF Inv, TakenOver, InUse
<1>10. KernelAgrees'
  BY <1>4, <1>5, <1>6 DEF Inv, KernelAgrees, InUse
<1>11. NiceMatches' /\ OneTimeSlice'
  BY <1>4 DEF Inv, NiceMatches, OneTimeSlice, InUse
<1>12. NobodyForgotten'
  BY <1>2, <1>4, <1>5, <1>6 DEF Inv, NobodyForgotten, InUse
<1>13. InitFirst'
  <2>1. ASSUME ~InUse(InitSlot) PROVE DUTS' = DEFAULT_USER_TIME_SLICE
    <3>1. \A p \in Slot : ~InUse(p)
      BY <2>1, SchedulerAssumption DEF SchedulerAssumption, Inv, TakenOver, InitFirst
    <3>2. {p \in Slot : InUse(p)} = {}
      BY <3>1
    <3>3. Cardinality({p \in Slot : InUse(p)}) = 0
      BY <3>2, FS_EmptySet
    <3>. DEFINE n == Cardinality({p \in Slot : InUse(p)})
    <3>4. DUTS' = IF n >= Few /\ n < Many
                  THEN SECONDARY_USER_TIME_SLICE ELSE DEFAULT_USER_TIME_SLICE
      BY DEF balance_queues
    <3>5. n = 0
      BY <3>3
    <3>. HIDE DEF n
    <3>. QED
      BY <3>4, <3>5, SchedulerAssumption DEF SchedulerAssumption
  <2>. QED
    BY <1>2, <1>4, <2>1, SchedulerAssumption DEF SchedulerAssumption, Inv, InitFirst, InUse
<1>. QED
  BY <1>8, <1>9, <1>10, <1>11, <1>12, <1>13 DEF Inv

-----------------------------------------------------------------------------
(* The theorems *)

LEMMA StutterInv == ASSUME Inv, UNCHANGED vars PROVE Inv'
  BY DEF vars, Inv, TypeOK, TakenOver, KernelAgrees, NiceMatches, NobodyForgotten,
     OneTimeSlice, InitFirst, InUse

LEMMA NextInv == Inv /\ [Next]_vars => Inv'
<1>. SUFFICES ASSUME Inv, [Next]_vars PROVE Inv'
  OBVIOUS
<1>1. ASSUME NEW p \in Slot,
             Fork(p) \/ QuantumExpires(p) \/ Clear(p) \/ do_stop_scheduling(p)
      PROVE  Inv'
  BY <1>1, ForkInv, QuantumExpiresInv, ClearInv, StopInv
<1>2. ASSUME NEW p \in Slot, NEW gen \in 0 .. MaxGen, do_noquantum(p, gen)
      PROVE  Inv'
  BY <1>2, NoQuantumInv
<1>3. ASSUME NEW p \in Slot, NEW parent \in Slot,
             NEW nice \in UserQ \cup {BadNice}, do_start_scheduling(p, parent, nice)
      PROVE  Inv'
  BY <1>3, StartInv
<1>4. ASSUME NEW p \in Slot, NEW nice \in UserQ \cup {BadNice}, do_nice(p, nice)
      PROVE  Inv'
  BY <1>4, NiceInv
<1>. QED
  BY <1>1, <1>2, <1>3, <1>4, BalanceInv, StutterInv DEF Next

LEMMA SpecInv == Spec => []Inv
  BY InitInv, NextInv, PTL DEF Spec

\* Every variable of SCHED, PM and the kernel keeps its type.
THEOREM TypesKept == Spec => []TypeOK
  BY SpecInv, PTL DEF Inv

\* SCHED's table, PM's knowledge and the kernel's queues agree about every slot:
\* a process in the table is PM's present one, taken over from the kernel, its
\* best queue is the one of its nice value and the kernel has it in the queue of
\* the table unless sys_schedule has failed (do_start_scheduling, do_nice).
THEOREM TableConsistent == Spec => [](TakenOver /\ TableAgrees)
<1>1. Inv => TakenOver /\ TableAgrees
  BY DEF Inv, TableAgrees
<1>. QED
  BY <1>1, SpecInv, PTL

\* A process that has used up its quantum has a message on its way to
\* do_noquantum, also across exits and reuses of its slot, or its last
\* sys_schedule has failed.
THEOREM NobodyIsForgotten == Spec => []NobodyForgotten
  BY SpecInv, PTL DEF Inv

\* The slice that balance_queues computes from the number of processes reaches no
\* process: all inherit the one init started with (do_start_scheduling).
THEOREM SliceNeverChanges == Spec => []OneTimeSlice
  BY SpecInv, PTL DEF Inv

LEMMA StepNotAboveMax ==
    ASSUME Inv, [Next]_vars, NEW p \in Slot, InUse(p),
           schedproc'[p].endpoint = schedproc[p].endpoint
    PROVE  \/ schedproc'[p].priority >= schedproc'[p].max_priority
           \/ schedproc'[p].priority >= schedproc[p].priority
<1>1. /\ schedproc[p] \in ProcType
      /\ schedproc[p].priority \in Nat /\ schedproc[p].max_priority \in Nat
  BY Types, Queues DEF Inv, ProcType
<1>2. CASE schedproc'[p] = schedproc[p]
  BY <1>1, <1>2
<1>3. CASE \E o \in Slot : Fork(o) \/ QuantumExpires(o) \/ Clear(o) \/ UNCHANGED vars
  BY <1>2, <1>3 DEF Fork, QuantumExpires, Clear, vars
<1>4. ASSUME NEW o \in Slot, do_stop_scheduling(o)
      PROVE  schedproc'[p].priority = schedproc[p].priority
  BY <1>1, <1>4, Types DEF do_stop_scheduling, Inv, ProcType
<1>5. ASSUME NEW o \in Slot, NEW gen \in 0 .. MaxGen, do_noquantum(o, gen)
      PROVE  schedproc'[p].priority >= schedproc[p].priority
  <2>. DEFINE q == Lowered(schedproc[o].priority)
  <2>1. q \in UserQ /\ q >= schedproc[o].priority
    BY Types, Queues DEF Inv, ProcType
  <2>2. schedproc' = [schedproc EXCEPT ![o].priority = q] \/ schedproc' = schedproc
    BY <1>5 DEF do_noquantum
  <2>. HIDE DEF q
  <2>. QED
    BY <1>1, <2>1, <2>2, Types DEF Inv, ProcType
<1>6. ASSUME NEW o \in Slot, NEW parent \in Slot,
             NEW nice \in UserQ \cup {BadNice}, do_start_scheduling(o, parent, nice)
      PROVE  schedproc'[p] = schedproc[p]
  <2>1. o # p
    BY <1>6 DEF do_start_scheduling
  <2>. QED
    BY <1>6, <2>1, Types DEF do_start_scheduling, StartRefused, StartTaken, Inv
<1>7. ASSUME NEW o \in Slot, NEW nice \in UserQ \cup {BadNice}, do_nice(o, nice)
      PROVE  \/ schedproc'[p].priority >= schedproc'[p].max_priority
             \/ schedproc'[p] = schedproc[p]
  <2>1. nice \in Nat
    BY <1>7, Queues
  <2>2. \/ schedproc' = schedproc
        \/ schedproc' = [schedproc EXCEPT ![o].priority = nice, ![o].max_priority = nice,
                                          ![o].nice = nice]
    BY <1>7 DEF do_nice
  <2>. QED
    BY <1>1, <2>1, <2>2, Types DEF Inv, ProcType
<1>8. CASE balance_queues
  <2>1. schedproc'[p] = IF p \in BumpedDown
                        THEN [schedproc[p] EXCEPT !.priority = schedproc[p].priority - 1]
                        ELSE schedproc[p]
    BY <1>8 DEF balance_queues
  <2>2. p \in BumpedDown => schedproc[p].priority - 1 >= schedproc[p].max_priority
    BY <1>1 DEF BumpedDown
  <2>. QED
    BY <1>1, <1>2, <2>1, <2>2 DEF ProcType
<1>. QED
  BY <1>1, <1>2, <1>3, <1>4, <1>5, <1>6, <1>7, <1>8 DEF Next

\* No handler of the server pulls a process above its best queue
\* (balance_queues, do_noquantum, do_nice).
THEOREM NeverAboveMax == Spec => NotAboveMax
<1>1. Inv /\ [Next]_vars =>
        [\A p \in Slot :
            InUse(p) /\ InUse(p)' /\ schedproc'[p].endpoint = schedproc[p].endpoint =>
               \/ schedproc'[p].priority >= schedproc'[p].max_priority
               \/ schedproc'[p].priority >= schedproc[p].priority]_vars
  BY StepNotAboveMax
<1>. QED
  BY <1>1, SpecInv, PTL DEF Spec, NotAboveMax
=============================================================================

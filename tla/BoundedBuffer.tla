---------------------------- MODULE BoundedBuffer ----------------------------
(* pc-9.c: a producer and a consumer thread over a ring of QUEUESIZE slots,    *)
(* with a mutex and the condition variables notFull and notEmpty.              *)
(*                                                                             *)
(* Everything in the queue is read and written under its mutex, so an action   *)
(* is what a thread does from taking the mutex to giving it up or to sleeping. *)
(* The producer signals notEmpty only after it has unlocked: a step of its     *)
(* own. A thread that has been woken competes for the mutex again ("lock")     *)
(* and repeats its test.                                                       *)
EXTENDS Naturals, Sequences

CONSTANTS
    QUEUESIZE,  \* slots of the ring (10 in the program)
    Items       \* how many items the producer makes (4 in the program)

ASSUME BufferAssumption == QUEUESIZE \in Nat \ {0} /\ Items \in Nat

VARIABLES
    buf, head, tail, full, empty,   \* struct queue
    i,                              \* the producer's counter, also the item it makes
    pro, con,                       \* where the two threads are
    main,                           \* the thread main waits for
    received                        \* the items the consumer has printed

queue == <<buf, head, tail, full, empty>>
vars == <<buf, head, tail, full, empty, i, pro, con, main, received>>

Slot == 0 .. QUEUESIZE - 1

\* A slot that has not been written holds whatever malloc returned; no property
\* depends on it, so it is an item.
Init ==     \* queueInit, the two pthread_create and the first pthread_join
    /\ buf = [s \in Slot |-> 0]
    /\ head = 0 /\ tail = 0
    /\ full = FALSE /\ empty = TRUE
    /\ i = 0
    /\ pro = "lock" /\ con = "lock"
    /\ main = "joinPro"
    /\ received = << >>

Advance(s) == IF s + 1 = QUEUESIZE THEN 0 ELSE s + 1

\* Faulty: forgets that the buffer is no longer empty.
queueAddStillEmpty(in) ==
    /\ buf' = [buf EXCEPT ![tail] = in]
    /\ tail' = Advance(tail)
    /\ full' = (full \/ Advance(tail) = head)
    /\ UNCHANGED <<head, empty>>

queueAdd(in) ==
    /\ buf' = [buf EXCEPT ![tail] = in]
    /\ tail' = Advance(tail)
    /\ full' = (full \/ Advance(tail) = head)
    /\ empty' = FALSE
    /\ UNCHANGED head

queueDel ==
    /\ head' = Advance(head)
    /\ empty' = (empty \/ Advance(head) = tail)
    /\ full' = FALSE
    /\ UNCHANGED <<buf, tail>>

\* Faulty: the signals left out.
SignalNotFullNone == UNCHANGED pro
SignalNotEmptyNone == UNCHANGED con

\* pthread_cond_signal wakes the one thread that may be asleep on the variable.
SignalNotFull == pro' = IF pro = "notFull" THEN "lock" ELSE pro
SignalNotEmpty == con' = IF con = "notEmpty" THEN "lock" ELSE con

\* The producer finds the queue full and waits.
AwaitSpace ==
    /\ pro = "lock" /\ i < Items /\ full
    /\ pro' = "notFull"
    /\ UNCHANGED <<queue, i, con, main, received>>

\* Faulty: does not test full again.
ProduceAnyway ==
    /\ pro = "lock" /\ i < Items
    /\ queueAdd(i)
    /\ i' = i + 1
    /\ pro' = "signal"
    /\ UNCHANGED <<con, main, received>>

\* The producer adds an item and unlocks.
Produce ==
    /\ pro = "lock" /\ i < Items /\ ~full
    /\ queueAdd(i)
    /\ i' = i + 1
    /\ pro' = "signal"
    /\ UNCHANGED <<con, main, received>>

\* The producer signals, without the mutex.
Announce ==
    /\ pro = "signal"
    /\ SignalNotEmpty
    /\ pro' = "lock"
    /\ UNCHANGED <<queue, i, main, received>>

ProducerExits ==
    /\ pro = "lock" /\ i = Items
    /\ pro' = "exited"
    /\ UNCHANGED <<queue, i, con, main, received>>

\* The consumer finds the queue empty and waits.
AwaitItem ==
    /\ con = "lock" /\ empty
    /\ con' = "notEmpty"
    /\ UNCHANGED <<queue, i, pro, main, received>>

\* Faulty: reads the slot behind the head.
ConsumeNext ==
    /\ con = "lock" /\ ~empty
    /\ queueDel
    /\ SignalNotFull
    /\ received' = Append(received, buf[Advance(head)])
    /\ UNCHANGED <<i, con, main>>

\* The consumer removes an item, signals and unlocks.
Consume ==
    /\ con = "lock" /\ ~empty
    /\ queueDel
    /\ SignalNotFull
    /\ received' = Append(received, buf[head])
    /\ UNCHANGED <<i, con, main>>

SpuriousWakeup ==
    /\ \/ pro = "notFull" /\ pro' = "lock" /\ UNCHANGED con
       \/ con = "notEmpty" /\ con' = "lock" /\ UNCHANGED pro
    /\ UNCHANGED <<queue, i, main, received>>

\* main's pthread_join (pro) returns. Its pthread_join (con) never does, as the
\* consumer has no way out, so queueDelete is not reached.
JoinProducer ==
    /\ main = "joinPro" /\ pro = "exited"
    /\ main' = "joinCon"
    /\ UNCHANGED <<queue, i, pro, con, received>>

Producer == AwaitSpace \/ Produce \/ Announce \/ ProducerExits
Consumer == AwaitItem \/ Consume

Next == Producer \/ Consumer \/ JoinProducer \/ SpuriousWakeup

Spec == Init /\ [][Next]_vars

\* Both threads run, and both get the mutex in the end: either gives it up
\* within a few statements and then sleeps in usleep.
FairSpec == Spec /\ WF_vars(Producer) /\ WF_vars(Consumer)

-----------------------------------------------------------------------------
(* Properties *)

\* How many slots are taken, from head, tail and the flag that tells full from
\* empty.
Count ==
    IF full THEN QUEUESIZE
    ELSE IF head <= tail THEN tail - head ELSE tail + QUEUESIZE - head

\* The slot of the k-th oldest item, counting from 0.
SlotOf(k) == IF head + k < QUEUESIZE THEN head + k ELSE head + k - QUEUESIZE

\* The variables keep their types; in particular head and tail stay inside buf.
TypeOK ==
    /\ buf \in [Slot -> Nat]
    /\ head \in Slot /\ tail \in Slot
    /\ full \in BOOLEAN /\ empty \in BOOLEAN
    /\ i \in 0 .. Items
    /\ pro \in {"lock", "notFull", "signal", "exited"}
    /\ con \in {"lock", "notEmpty"}
    /\ main \in {"joinPro", "joinCon"}
    /\ received \in Seq(Nat)

\* The two flags, which queueAdd and queueDel set and clear separately, and the
\* two indices always agree: with what was put in and not taken out yet, and so
\* with each other when head = tail.
FlagsAgree ==
    /\ full <=> i - Len(received) = QUEUESIZE
    /\ empty <=> i = Len(received)
    /\ (full \/ empty) <=> head = tail
    /\ Count = i - Len(received)

\* The ring holds the items between the last one received and the next one to
\* make, in order, across the wrap-around: nothing is overwritten or skipped.
RingHoldsBacklog ==
    \A k \in 0 .. (i - Len(received)) - 1 : buf[SlotOf(k)] = Len(received) + k

\* The consumer receives what was produced, in order, each item once.
ReceivedInOrder == \A k \in 1 .. Len(received) : received[k] = k - 1

\* Nobody sleeps through what it waits for, although pthread_cond_signal
\* (notEmpty) comes after the unlock: a consumer asleep beside an item has the
\* signal still ahead of it.
NoLostWakeup ==
    /\ con = "notEmpty" => empty \/ pro = "signal"
    /\ pro = "notFull" => full

\* The ring between two condition variables is a bounded first-in first-out
\* buffer: each queueAdd is a Put, each queueDel a Get, all else stutters.
Contents == [k \in 1 .. i - Len(received) |-> buf[SlotOf(k - 1)]]

Fifo == INSTANCE BoundedFifo WITH
            Capacity <- QUEUESIZE, Value <- 0 .. Items - 1,
            fifo <- Contents, taken <- Len(received)

ImplementsFifo == Fifo!Spec

\* Each item the producer makes reaches the consumer.
EverythingArrives == <>(Len(received) = Items)
=============================================================================

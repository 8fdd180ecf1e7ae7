------------------------- MODULE BoundedBufferProofs -------------------------
(* For every number of slots and of items: the ring of pc-9.c keeps its        *)
(* invariants, delivers in order and implements a bounded FIFO.                *)
EXTENDS BoundedBuffer, TLAPS

Inv ==
    /\ TypeOK
    /\ FlagsAgree
    /\ RingHoldsBacklog
    /\ ReceivedInOrder
    /\ NoLostWakeup

-----------------------------------------------------------------------------
(* Slots *)

\* An index moves inside the ring.
LEMMA AdvanceInRing ==
    ASSUME NEW s \in Slot
    PROVE  Advance(s) \in Slot
  BY BufferAssumption DEF BufferAssumption, Advance, Slot

\* The values of the indices and counters.
LEMMA Counters ==
    ASSUME TypeOK
    PROVE  /\ head \in Slot /\ tail \in Slot
           /\ i \in Nat /\ Len(received) \in Nat
           /\ full \in BOOLEAN /\ empty \in BOOLEAN
           /\ buf \in [Slot -> Nat] /\ received \in Seq(Nat)
<1>1. i \in Nat
  BY BufferAssumption DEF BufferAssumption, TypeOK
<1>2. received \in Seq(Nat) /\ Len(received) \in Nat
  BY DEF TypeOK
<1>. QED
  BY <1>1, <1>2 DEF TypeOK

\* The backlog is what Count computes, and it fits into the ring.
LEMMA Backlog ==
    ASSUME TypeOK, FlagsAgree
    PROVE  i - Len(received) \in 0 .. QUEUESIZE /\ ~(full /\ empty)
<1>. DEFINE r == Len(received)
<1>1. /\ head \in Slot /\ tail \in Slot /\ i \in Nat /\ r \in Nat
  BY Counters
<1>2. /\ full <=> i - r = QUEUESIZE
      /\ empty <=> i = r
      /\ i - r = IF full THEN QUEUESIZE ELSE IF head <= tail THEN tail - head
                 ELSE tail + QUEUESIZE - head
  BY DEF FlagsAgree, Count
<1>. HIDE DEF r
<1>3. i - r \in 0 .. QUEUESIZE /\ ~(full /\ empty)
  BY <1>1, <1>2, BufferAssumption DEF BufferAssumption, Slot
<1>. QED
  BY <1>3 DEF r

\* The slots of the backlog lie in the ring, and no two items share one.
LEMMA SlotsApart ==
    ASSUME head \in Slot,
           NEW k \in 0 .. QUEUESIZE - 1, NEW l \in 0 .. QUEUESIZE - 1
    PROVE  /\ SlotOf(k) \in Slot
           /\ k # l => SlotOf(k) # SlotOf(l)
  BY BufferAssumption DEF BufferAssumption, SlotOf, Slot

\* A queue that is not full has its tail right behind the youngest item.
LEMMA TailSlot ==
    ASSUME TypeOK, FlagsAgree, ~full
    PROVE  SlotOf(i - Len(received)) = tail
<1>1. i - Len(received) = IF head <= tail THEN tail - head
                          ELSE tail + QUEUESIZE - head
  BY DEF FlagsAgree, Count
<1>2. head \in Slot /\ tail \in Slot
  BY DEF TypeOK
<1>. QED
  BY <1>1, <1>2, BufferAssumption DEF BufferAssumption, SlotOf, Slot

-----------------------------------------------------------------------------
(* The two operations *)

\* queueAdd keeps flags, indices and backlog in step.
LEMMA AddKeepsFlags ==
    ASSUME Inv, ~full, queueAdd(i), i' = i + 1, UNCHANGED received
    PROVE  FlagsAgree'
<1>. USE BufferAssumption DEF BufferAssumption
<1>1. /\ head \in Slot /\ tail \in Slot /\ Advance(tail) \in Slot
      /\ i \in Nat /\ Len(received) \in Nat
      /\ full \in BOOLEAN /\ empty \in BOOLEAN
  BY AdvanceInRing, Counters DEF Inv
<1>2. /\ i - Len(received) = IF head <= tail THEN tail - head
                             ELSE tail + QUEUESIZE - head
      /\ (i = Len(received)) <=> head = tail
  BY DEF Inv, FlagsAgree, Count
<1>3. /\ tail' = Advance(tail) /\ head' = head /\ empty' = FALSE
      /\ full' <=> Advance(tail) = head
      /\ i' = i + 1 /\ Len(received') = Len(received)
  BY DEF queueAdd
<1>. QED
  BY <1>1, <1>2, <1>3 DEF FlagsAgree, Count, Advance, Slot

\* So does queueDel.
LEMMA DelKeepsFlags ==
    ASSUME Inv, ~empty, queueDel, UNCHANGED i, Len(received') = Len(received) + 1
    PROVE  FlagsAgree'
<1>. USE BufferAssumption DEF BufferAssumption
<1>1. /\ head \in Slot /\ tail \in Slot /\ Advance(head) \in Slot
      /\ i \in Nat /\ Len(received) \in Nat
      /\ i - Len(received) \in 0 .. QUEUESIZE
      /\ full \in BOOLEAN /\ empty \in BOOLEAN
  BY AdvanceInRing, Counters, Backlog DEF Inv
<1>2. /\ i - Len(received) = IF full THEN QUEUESIZE
                             ELSE IF head <= tail THEN tail - head
                             ELSE tail + QUEUESIZE - head
      /\ full <=> i - Len(received) = QUEUESIZE
      /\ i # Len(received)
      /\ full <=> head = tail
  BY DEF Inv, FlagsAgree, Count
<1>3. /\ head' = Advance(head) /\ tail' = tail /\ full' = FALSE
      /\ empty' <=> Advance(head) = tail
      /\ i' = i /\ Len(received') = Len(received) + 1
  BY DEF queueDel
<1>. QED
  BY <1>1, <1>2, <1>3 DEF FlagsAgree, Count, Advance, Slot

\* queueAdd puts the item behind the others and touches no other.
LEMMA AddKeepsBacklog ==
    ASSUME Inv, ~full, queueAdd(i), i' = i + 1, UNCHANGED received
    PROVE  /\ \A k \in 0 .. (i - Len(received)) - 1 : buf'[SlotOf(k)'] = buf[SlotOf(k)]
           /\ \A k : k = i - Len(received) => buf'[SlotOf(k)'] = i
           /\ RingHoldsBacklog'
<1>. USE BufferAssumption DEF BufferAssumption
<1>. DEFINE n == i - Len(received)
<1>1. /\ n \in 0 .. QUEUESIZE - 1 /\ Len(received) \in Nat /\ i \in Nat
  <2>1. n \in 0 .. QUEUESIZE /\ n # QUEUESIZE
    BY Backlog DEF Inv, FlagsAgree
  <2>. QED
    BY <2>1, Counters DEF Inv
<1>2. /\ SlotOf(n) = tail
      /\ \A k \in 0 .. n - 1 : SlotOf(k) \in Slot /\ SlotOf(k) # tail
  <2>1. SlotOf(n) = tail
    BY TailSlot DEF Inv
  <2>2. ASSUME NEW k \in 0 .. n - 1
        PROVE  SlotOf(k) \in Slot /\ SlotOf(k) # tail
    <3>1. k \in 0 .. QUEUESIZE - 1 /\ k # n
      BY <1>1
    <3>. QED
      BY <1>1, <2>1, <3>1, SlotsApart, Counters DEF Inv
  <2>. QED
    BY <2>1, <2>2
<1>3. /\ \A k : SlotOf(k)' = SlotOf(k)
      /\ buf' = [buf EXCEPT ![tail] = i]
      /\ buf \in [Slot -> Nat] /\ tail \in Slot
  BY Counters DEF queueAdd, SlotOf, Inv
<1>4. \A k \in 0 .. n - 1 : buf'[SlotOf(k)'] = buf[SlotOf(k)]
  BY <1>2, <1>3
<1>5. \A k : k = n => buf'[SlotOf(k)'] = i
  BY <1>2, <1>3
<1>6. \A k \in 0 .. n - 1 : buf[SlotOf(k)] = Len(received) + k
  BY DEF Inv, RingHoldsBacklog
<1>7. ASSUME NEW k \in 0 .. n
      PROVE  buf'[SlotOf(k)'] = Len(received) + k
  <2>1. CASE k = n
    BY <1>1, <1>5, <2>1
  <2>2. CASE k # n
    <3>1. k \in 0 .. n - 1
      BY <1>1, <2>2
    <3>. HIDE DEF n
    <3>. QED
      BY <1>4, <1>6, <3>1
  <2>. QED
    BY <2>1, <2>2
<1>8. i' - Len(received') - 1 = n /\ Len(received') = Len(received)
  BY <1>1
<1>9. RingHoldsBacklog'
  BY <1>7, <1>8 DEF RingHoldsBacklog
<1>. QED
  BY <1>4, <1>5, <1>9

\* queueDel shifts the backlog by one and leaves its items where they are.
LEMMA DelKeepsBacklog ==
    ASSUME Inv, ~empty, queueDel, UNCHANGED i, Len(received') = Len(received) + 1
    PROVE  /\ \A k \in 0 .. (i - Len(received)) - 2 :
                  buf'[SlotOf(k)'] = buf[SlotOf(k + 1)]
           /\ buf[head] = Len(received)
           /\ RingHoldsBacklog'
<1>. USE BufferAssumption DEF BufferAssumption
<1>. DEFINE n == i - Len(received)
<1>1. n \in 1 .. QUEUESIZE /\ Len(received) \in Nat /\ i \in Nat /\ head \in Slot
  <2>1. n \in 0 .. QUEUESIZE /\ n # 0
    BY Backlog, Counters DEF Inv, FlagsAgree
  <2>. QED
    BY <2>1, Counters DEF Inv
<1>2. buf' = buf /\ head' = Advance(head)
  BY DEF queueDel
<1>3. \A k \in 0 .. n - 2 : SlotOf(k)' = SlotOf(k + 1)
  BY <1>1, <1>2 DEF SlotOf, Advance, Slot
<1>4. SlotOf(0) = head
  BY <1>1 DEF SlotOf, Slot
<1>5. \A k \in 0 .. n - 1 : buf[SlotOf(k)] = Len(received) + k
  BY DEF Inv, RingHoldsBacklog
<1>6. buf[head] = Len(received)
  BY <1>1, <1>4, <1>5
<1>7. \A k \in 0 .. n - 2 : buf'[SlotOf(k)'] = buf[SlotOf(k + 1)]
  BY <1>2, <1>3
<1>8. \A k \in 0 .. n - 2 : buf'[SlotOf(k)'] = Len(received) + 1 + k
  BY <1>1, <1>5, <1>7
<1>9. i' - Len(received') - 1 = n - 2
  BY <1>1
<1>10. RingHoldsBacklog'
  BY <1>1, <1>8, <1>9 DEF RingHoldsBacklog
<1>. QED
  BY <1>6, <1>7, <1>10

-----------------------------------------------------------------------------
(* The invariant *)

LEMMA InitInv == Init => Inv
<1>. SUFFICES ASSUME Init PROVE Inv
  OBVIOUS
<1>. USE BufferAssumption DEF BufferAssumption
<1>1. received = << >> /\ received \in Seq(Nat) /\ Len(received) = 0 /\ i = 0
  BY DEF Init
<1>2. TypeOK
  <2>1. 0 \in Slot /\ 0 \in 0 .. Items
    BY DEF Slot
  <2>2. buf \in [Slot -> Nat]
    BY DEF Init
  <2>. QED
    BY <1>1, <2>1, <2>2 DEF Init, TypeOK
<1>3. FlagsAgree
  <2>1. i = Len(received) /\ i - Len(received) = 0 /\ QUEUESIZE # 0
    <3>1. i = 0 /\ Len(received) = 0
      BY <1>1
    <3>. QED
      BY <3>1, SMT
  <2>2. head = 0 /\ tail = 0 /\ full = FALSE /\ empty = TRUE
    BY DEF Init
  <2>. QED
    BY <1>1, <2>1, <2>2 DEF FlagsAgree, Count
<1>4. RingHoldsBacklog /\ ReceivedInOrder /\ NoLostWakeup
  BY <1>1 DEF Init, RingHoldsBacklog, ReceivedInOrder, NoLostWakeup
<1>. QED
  BY <1>2, <1>3, <1>4 DEF Inv

\* A step that leaves the queue, the counter and what was received alone.
LEMMA QueueUntouched ==
    ASSUME Inv, UNCHANGED <<queue, i, received>>
    PROVE  FlagsAgree' /\ RingHoldsBacklog' /\ ReceivedInOrder'
<1>1. /\ buf' = buf /\ head' = head /\ tail' = tail /\ full' = full /\ empty' = empty
      /\ i' = i /\ received' = received
  BY DEF queue
<1>. QED
  BY <1>1 DEF Inv, FlagsAgree, Count, RingHoldsBacklog, SlotOf, ReceivedInOrder

LEMMA ProduceKeepsInv == Inv /\ Produce => Inv'
<1>. SUFFICES ASSUME Inv, Produce PROVE Inv'
  OBVIOUS
<1>1. /\ ~full /\ queueAdd(i) /\ i' = i + 1 /\ UNCHANGED <<con, main, received>>
      /\ pro' = "signal" /\ i < Items
  BY DEF Produce
<1>2. FlagsAgree' /\ RingHoldsBacklog'
  BY <1>1, AddKeepsFlags, AddKeepsBacklog
<1>3. TypeOK'
  <2>1. buf' \in [Slot -> Nat] /\ tail' \in Slot /\ full' \in BOOLEAN
    BY <1>1, Counters, AdvanceInRing DEF Inv, queueAdd
  <2>2. i' \in 0 .. Items
    BY <1>1, Counters, BufferAssumption DEF BufferAssumption, Inv
  <2>. QED
    BY <1>1, <2>1, <2>2 DEF Inv, TypeOK, queueAdd
<1>4. ReceivedInOrder' /\ NoLostWakeup'
  BY <1>1 DEF Inv, ReceivedInOrder, NoLostWakeup
<1>. QED
  BY <1>2, <1>3, <1>4 DEF Inv

LEMMA ConsumeKeepsInv == Inv /\ Consume => Inv'
<1>. SUFFICES ASSUME Inv, Consume PROVE Inv'
  OBVIOUS
<1>1. /\ ~empty /\ queueDel /\ SignalNotFull /\ received' = Append(received, buf[head])
      /\ UNCHANGED <<i, con, main>> /\ con = "lock"
  BY DEF Consume
<1>2. /\ received' \in Seq(Nat)
      /\ Len(received') = Len(received) + 1
      /\ \A k \in 1 .. Len(received) : received'[k] = received[k]
      /\ received'[Len(received) + 1] = buf[head]
  <2>1. buf[head] \in Nat /\ received \in Seq(Nat)
    BY Counters DEF Inv
  <2>. QED
    BY <1>1, <2>1
<1>3. FlagsAgree' /\ RingHoldsBacklog' /\ buf[head] = Len(received)
  BY <1>1, <1>2, DelKeepsFlags, DelKeepsBacklog
<1>4. TypeOK'
  <2>1. head' \in Slot /\ empty' \in BOOLEAN
    BY <1>1, Counters, AdvanceInRing DEF Inv, queueDel
  <2>. QED
    BY <1>1, <1>2, <2>1 DEF Inv, TypeOK, queueDel, SignalNotFull
<1>5. ReceivedInOrder'
  <2>1. Len(received) \in Nat
    BY Counters DEF Inv
  <2>2. ASSUME NEW k \in 1 .. Len(received')
        PROVE  received'[k] = k - 1
    <3>1. CASE k = Len(received) + 1
      BY <1>2, <1>3, <2>1, <3>1
    <3>2. CASE k # Len(received) + 1
      <4>1. k \in 1 .. Len(received)
        BY <1>2, <2>1, <3>2
      <4>. QED
        BY <1>2, <4>1 DEF Inv, ReceivedInOrder
    <3>. QED
      BY <3>1, <3>2
  <2>. QED
    BY <2>2 DEF ReceivedInOrder
<1>6. NoLostWakeup'
  BY <1>1 DEF Inv, NoLostWakeup, SignalNotFull
<1>. QED
  BY <1>3, <1>4, <1>5, <1>6 DEF Inv

LEMMA NextInv == Inv /\ [Next]_vars => Inv'
<1>. SUFFICES ASSUME Inv, [Next]_vars PROVE Inv'
  OBVIOUS
<1>1. CASE Produce
  BY <1>1, ProduceKeepsInv
<1>2. CASE Consume
  BY <1>2, ConsumeKeepsInv
<1>3. CASE UNCHANGED <<queue, i, received>>
           /\ (AwaitSpace \/ Announce \/ ProducerExits \/ AwaitItem
                \/ JoinProducer \/ SpuriousWakeup \/ UNCHANGED vars)
  <2>1. FlagsAgree' /\ RingHoldsBacklog' /\ ReceivedInOrder'
    BY <1>3, QueueUntouched
  <2>2. /\ buf' = buf /\ head' = head /\ tail' = tail /\ full' = full /\ empty' = empty
        /\ i' = i /\ received' = received
    BY <1>3 DEF queue
  <2>3. TypeOK' /\ NoLostWakeup'
    BY <1>3, <2>2 DEF Inv, TypeOK, NoLostWakeup, AwaitSpace, Announce, SignalNotEmpty,
       ProducerExits, AwaitItem, JoinProducer, SpuriousWakeup, vars
  <2>. QED
    BY <2>1, <2>3 DEF Inv
<1>. QED
  BY <1>1, <1>2, <1>3 DEF Next, Producer, Consumer, AwaitSpace, Announce, ProducerExits,
     AwaitItem, JoinProducer, SpuriousWakeup, vars, queue

\* The indices and flags of the ring agree with each other and with what was put
\* in and taken out, whatever the interleaving (queueAdd, queueDel).
THEOREM RingConsistent == Spec => [](TypeOK /\ FlagsAgree /\ RingHoldsBacklog)
<1>1. Inv => TypeOK /\ FlagsAgree /\ RingHoldsBacklog
  BY DEF Inv
<1>. QED
  BY <1>1, InitInv, NextInv, PTL DEF Spec

\* The consumer gets the items in the order of production, each once.
THEOREM DeliversInOrder == Spec => []ReceivedInOrder
<1>1. Inv => ReceivedInOrder
  BY DEF Inv
<1>. QED
  BY <1>1, InitInv, NextInv, PTL DEF Spec

\* Neither thread sleeps through the event it waits for, although notEmpty is
\* signalled without the mutex.
THEOREM NobodySleepsThroughIt == Spec => []NoLostWakeup
<1>1. Inv => NoLostWakeup
  BY DEF Inv
<1>. QED
  BY <1>1, InitInv, NextInv, PTL DEF Spec

-----------------------------------------------------------------------------
(* The refinement *)

\* The backlog as a sequence.
ContentsListed ==
    /\ Contents \in Seq(Nat)
    /\ Len(Contents) = i - Len(received)
    /\ \A k \in 1 .. i - Len(received) : Contents[k] = buf[SlotOf(k - 1)]

LEMMA ContentsSeq == Inv => ContentsListed
<1>. SUFFICES ASSUME Inv PROVE ContentsListed
  OBVIOUS
<1>. DEFINE n == i - Len(received)
<1>1. n \in Nat /\ Len(received) \in Nat
  BY Backlog, Counters, BufferAssumption DEF BufferAssumption, Inv
<1>2. \A k \in 1 .. n : buf[SlotOf(k - 1)] \in Nat
  <2>1. ASSUME NEW k \in 1 .. n PROVE buf[SlotOf(k - 1)] \in Nat
    <3>1. k - 1 \in 0 .. n - 1
      BY <1>1
    <3>2. buf[SlotOf(k - 1)] = Len(received) + (k - 1)
      BY <3>1 DEF Inv, RingHoldsBacklog
    <3>. QED
      BY <1>1, <3>1, <3>2
  <2>. QED
    BY <2>1
<1>3. Contents = [k \in 1 .. n |-> buf[SlotOf(k - 1)]]
  BY DEF Contents
<1>. HIDE DEF n
<1>4. Contents \in Seq(Nat) /\ Len(Contents) = n
  BY <1>1, <1>2, <1>3
<1>5. \A k \in 1 .. n : Contents[k] = buf[SlotOf(k - 1)]
  BY <1>3
<1>. QED
  BY <1>4, <1>5 DEF n, ContentsListed

LEMMA ProducePuts == Inv /\ Produce => Fifo!Put(i)
<1>. SUFFICES ASSUME Inv, Produce PROVE Fifo!Put(i)
  OBVIOUS
<1>. DEFINE n == i - Len(received)
<1>1. /\ ~full /\ queueAdd(i) /\ i' = i + 1 /\ received' = received
  BY DEF Produce
<1>2. Inv'
  BY ProduceKeepsInv
<1>3. n \in 0 .. QUEUESIZE - 1 /\ i \in Nat /\ Len(received) \in Nat
  <2>1. n \in 0 .. QUEUESIZE /\ n # QUEUESIZE
    BY <1>1, Backlog DEF Inv, FlagsAgree
  <2>. QED
    BY <2>1, Counters, BufferAssumption DEF BufferAssumption, Inv
<1>4. Contents \in Seq(Nat) /\ Len(Contents) = n
      /\ \A k \in 1 .. n : Contents[k] = buf[SlotOf(k - 1)]
  BY ContentsSeq DEF ContentsListed
<1>5. Contents' \in Seq(Nat) /\ Len(Contents') = n + 1
      /\ \A k \in 1 .. n + 1 : Contents'[k] = buf'[SlotOf(k - 1)']
  <2>1. /\ Contents' \in Seq(Nat)
        /\ Len(Contents') = i' - Len(received')
        /\ \A k \in 1 .. i' - Len(received') : Contents'[k] = buf'[SlotOf(k - 1)']
    <3>1. ContentsListed'
      BY <1>2, ContentsSeq, PTL
    <3>. QED
      BY <3>1 DEF ContentsListed
  <2>2. i' - Len(received') = n + 1
    BY <1>1, <1>3
  <2>. QED
    BY <2>1, <2>2
<1>6. /\ \A k \in 0 .. n - 1 : buf'[SlotOf(k)'] = buf[SlotOf(k)]
      /\ \A k : k = n => buf'[SlotOf(k)'] = i
  BY <1>1, AddKeepsBacklog
<1>. HIDE DEF n
<1>7. ASSUME NEW k \in 1 .. n
      PROVE  Contents'[k] = Contents[k]
  <2>1. k - 1 \in 0 .. n - 1 /\ k \in 1 .. n + 1
    BY <1>3
  <2>. QED
    BY <1>4, <1>5, <1>6, <2>1
<1>8. Contents'[n + 1] = i
  BY <1>3, <1>5, <1>6
<1>9. Contents' = Append(Contents, i)
  BY <1>3, <1>4, <1>5, <1>7, <1>8
<1>10. Len(Contents) < QUEUESIZE
  BY <1>3, <1>4, BufferAssumption DEF BufferAssumption
<1>11. Len(received)' = Len(received)
  BY <1>1
<1>. QED
  BY <1>9, <1>10, <1>11 DEF Fifo!Put

LEMMA ConsumeGets == Inv /\ Consume => Fifo!Get
<1>. SUFFICES ASSUME Inv, Consume PROVE Fifo!Get
  OBVIOUS
<1>. DEFINE n == i - Len(received)
<1>1. ~empty /\ queueDel /\ i' = i /\ received' = Append(received, buf[head])
  BY DEF Consume
<1>2. Inv'
  BY ConsumeKeepsInv
<1>3. /\ n \in Nat /\ n # 0 /\ i \in Nat /\ Len(received) \in Nat
      /\ Len(received') = Len(received) + 1
  <2>1. n \in 0 .. QUEUESIZE /\ n # 0
    BY <1>1, Backlog, Counters DEF Inv, FlagsAgree
  <2>2. received \in Seq(Nat) /\ buf[head] \in Nat
    BY Counters DEF Inv
  <2>. QED
    BY <1>1, <2>1, <2>2, Counters DEF Inv
<1>4. Contents \in Seq(Nat) /\ Len(Contents) = n
      /\ \A k \in 1 .. n : Contents[k] = buf[SlotOf(k - 1)]
  BY ContentsSeq DEF ContentsListed
<1>5. Contents' \in Seq(Nat) /\ Len(Contents') = n - 1
      /\ \A k \in 1 .. n - 1 : Contents'[k] = buf'[SlotOf(k - 1)']
  <2>1. /\ Contents' \in Seq(Nat)
        /\ Len(Contents') = i' - Len(received')
        /\ \A k \in 1 .. i' - Len(received') : Contents'[k] = buf'[SlotOf(k - 1)']
    <3>1. ContentsListed'
      BY <1>2, ContentsSeq, PTL
    <3>. QED
      BY <3>1 DEF ContentsListed
  <2>2. i' - Len(received') = n - 1
    BY <1>1, <1>3
  <2>. QED
    BY <2>1, <2>2
<1>6. \A k \in 0 .. n - 2 : buf'[SlotOf(k)'] = buf[SlotOf(k + 1)]
  BY <1>1, <1>3, DelKeepsBacklog
<1>. HIDE DEF n
<1>7. ASSUME NEW k \in 1 .. n - 1
      PROVE  Contents'[k] = Contents[k + 1]
  <2>1. k - 1 \in 0 .. n - 2 /\ k + 1 \in 1 .. n /\ (k - 1) + 1 = (k + 1) - 1
    BY <1>3
  <2>. QED
    BY <1>4, <1>5, <1>6, <2>1
<1>8. Contents # << >>
  BY <1>3, <1>4
<1>9. /\ Tail(Contents) \in Seq(Nat) /\ Len(Tail(Contents)) = n - 1
      /\ \A k \in 1 .. n - 1 : Tail(Contents)[k] = Contents[k + 1]
  BY <1>3, <1>4, <1>8
<1>10. Contents' = Tail(Contents)
  <2>. DEFINE rest == Tail(Contents)
  <2>1. /\ rest \in Seq(Nat) /\ Len(rest) = n - 1
        /\ \A k \in 1 .. n - 1 : rest[k] = Contents[k + 1]
    BY <1>9
  <2>. HIDE DEF rest
  <2>2. rest = [k \in 1 .. n - 1 |-> rest[k]]
    BY <2>1
  <2>3. Contents' = [k \in 1 .. n - 1 |-> Contents'[k]]
    BY <1>5
  <2>4. Contents' = rest
    BY <1>7, <2>1, <2>2, <2>3
  <2>. QED
    BY <2>4 DEF rest
<1>. QED
  BY <1>3, <1>8, <1>10 DEF Fifo!Get

\* What the comments of pc-9.c promise, a queue between a producer and a
\* consumer, is what the ring with its flags and condition variables implements.
THEOREM RingImplementsFifo == Spec => ImplementsFifo
<1>1. Init => Fifo!Init
  <2>. SUFFICES ASSUME Init PROVE Fifo!Init
    OBVIOUS
  <2>1. Inv /\ i = 0 /\ Len(received) = 0
    BY InitInv DEF Init
  <2>2. Contents \in Seq(Nat) /\ Len(Contents) = 0
    BY <2>1, ContentsSeq DEF ContentsListed
  <2>. QED
    BY <2>1, <2>2 DEF Fifo!Init
<1>2. Inv /\ [Next]_vars => [Fifo!Next]_<<Contents, Len(received)>>
  <2>. SUFFICES ASSUME Inv, [Next]_vars
                PROVE  [Fifo!Next]_<<Contents, Len(received)>>
    OBVIOUS
  <2>1. CASE Produce
    <3>1. i \in 0 .. Items - 1
      BY <2>1, Counters, BufferAssumption DEF BufferAssumption, Inv, Produce
    <3>. QED
      BY <2>1, <3>1, ProducePuts DEF Fifo!Next
  <2>2. CASE Consume
    BY <2>2, ConsumeGets DEF Fifo!Next
  <2>3. CASE UNCHANGED <<queue, i, received>>
    BY <2>3 DEF Contents, SlotOf, queue
  <2>. QED
    BY <2>1, <2>2, <2>3 DEF Next, Producer, Consumer, AwaitSpace, Announce,
       ProducerExits, AwaitItem, JoinProducer, SpuriousWakeup, vars, queue
<1>. QED
  BY <1>1, <1>2, InitInv, NextInv, PTL DEF Spec, ImplementsFifo, Fifo!Spec
=============================================================================

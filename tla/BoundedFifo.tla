----------------------------- MODULE BoundedFifo -----------------------------
(* What the comments of pc-9.c promise: a first-in first-out buffer of bounded *)
(* capacity between a producer and a consumer, without threads, slots, flags   *)
(* or condition variables.                                                     *)
EXTENDS Naturals, Sequences

CONSTANTS
    Capacity,   \* the buffer holds at most this many items
    Value       \* what may be put into the buffer

VARIABLES
    fifo,       \* the items in the buffer, oldest first
    taken       \* how many items have been taken so far

Init == fifo = << >> /\ taken = 0

Put(v) ==
    /\ Len(fifo) < Capacity
    /\ fifo' = Append(fifo, v)
    /\ UNCHANGED taken

Get ==
    /\ fifo # << >>
    /\ fifo' = Tail(fifo)
    /\ taken' = taken + 1

Next == Get \/ \E v \in Value : Put(v)

Spec == Init /\ [][Next]_<<fifo, taken>>
=============================================================================

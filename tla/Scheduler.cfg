\* init and one more slot that two processes use in turn; three queues.
CONSTANTS
    Slot = {0, 1}
    InitSlot = 0
    MAX_USER_Q = 0
    MIN_USER_Q = 2
    USER_Q = 1
    MaxGen = 2
    Few = 1
    Many = 2
SPECIFICATION FairSpec
INVARIANTS TypeOK TableAgrees NobodyForgotten OneTimeSlice
PROPERTIES NotAboveMax ReturnsToMax
CHECK_DEADLOCK FALSE

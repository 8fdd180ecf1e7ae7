\* Twelve items through three slots; in the end the consumer sleeps for good,
\* hence no deadlock check.
CONSTANTS
    QUEUESIZE = 3
    Items = 12
SPECIFICATION FairSpec
INVARIANTS FlagsAgree ReceivedInOrder NoLostWakeup
PROPERTIES ImplementsFifo EverythingArrives
CHECK_DEADLOCK FALSE

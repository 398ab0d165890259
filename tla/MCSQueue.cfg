SPECIFICATION FairSpec
CONSTANTS
    Threads = {t1, t2, t3}
    Values = {u, v}
    Nobody = nobody
    NoResult = none
    Refused = refused
    Cap = 2
INVARIANTS OwnerHolds NoLostWakeup
PROPERTIES ImplementsFifo SleepersAreServed
CHECK_DEADLOCK FALSE

CONSTANTS
    t1 = t1
    t2 = t2
    t3 = t3
    Threads <- MCThreads
    InitCounts <- MCInitCounts
    MaxRelease <- MCMaxRelease
    MaxReleased <- MCMaxReleased
SYMMETRY MCSymmetry
SPECIFICATION Spec
INVARIANTS
    TypeOK
    NoSleepWithCount
PROPERTY
    ImplementsAbstract
\* Threads parked in acquire or wait with no release left to come really
\* block for ever: lf_semaphore_acquire has no timeout.
CHECK_DEADLOCK FALSE

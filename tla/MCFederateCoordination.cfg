CONSTANTS
    MaxTime <- MCMaxTime
    MaxPhysical <- MCMaxPhysical
    MaxMessages <- MCMaxMessages
SPECIFICATION Spec
INVARIANTS
    TypeOK
    NoLostWakeup
    PendingGrantOwed

\* With no inbound data messages and two physical actions: is any event
\* left behind the current time?
CONSTANTS
    MaxTime <- MCMaxTime
    MaxPhysical <- MCTwoPhysical
    MaxMessages <- MCNoMessages
SPECIFICATION Spec
INVARIANT NoEventInPast

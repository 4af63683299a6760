CONSTANTS
    Wrap <- MCWrap
    MaxTicks <- MCMaxTicks
    Word <- MCWord
    NsPerSec <- MCNsPerSec
    FreqHz <- MCFreqHz
    StopTime <- MCStopTime
    Durations <- MCDurations
    MaxEvents <- MCMaxEvents
SPECIFICATION Spec
INVARIANT
    ClockExact

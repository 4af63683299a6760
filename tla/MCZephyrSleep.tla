---------------------------- MODULE MCZephyrSleep ----------------------------
(* A counter of three values, so that the counter wraps twice before the  *)
(* counting stops, sleeps of one or two ticks, and two interrupts.  The   *)
(* 64-bit product of TIMER_TICKS_TO_NS is scaled down with its shape     *)
(* kept: a tick is NsPerSec / FreqHz = 2 ns, and ticks * NsPerSec wraps   *)
(* after Word / NsPerSec = 4 ticks (in the code 2^64 / 10^9, about        *)
(* 1.8 * 10^10 ticks), so the time in nanoseconds runs 0, 2, 4, 6, 0, ... *)
(* The stop time of 6 ns lies below the largest of these, so that the     *)
(* scheduler both sleeps and stops.                                       *)
EXTENDS ZephyrSleep

MCWrap == 3
MCMaxTicks == 7
MCWord == 16
MCNsPerSec == 4
MCFreqHz == 2
MCStopTime == 6
MCDurations == {2, 4}
MCMaxEvents == 2
(* No interrupt, so that what the clock does is the wrap alone.          *)
MCNoEvents == 0
=============================================================================

------------------------------ MODULE ZephyrSleep ------------------------------
(***************************************************************************)
(* The unthreaded Zephyr support of lf_zephyr_support.c: the 64-bit clock *)
(* built from a wrapping hardware cycle counter, the busy-wait            *)
(* lf_sleep_until that an interrupt may cut short, and the critical       *)
(* sections made of a flag and irq_lock.                                  *)
(*  - The main thread runs the scheduler loop: it enters a critical       *)
(*    section, looks at the event queue, and calls lf_sleep_until, which *)
(*    leaves the critical section, busy-waits on lf_clock_gettime until  *)
(*    the wake-up time or an event, and enters it again.                  *)
(*  - An interrupt handler calls lf_schedule_token: a critical section    *)
(*    around _lf_schedule, which reads physical time (lf_clock_gettime)   *)
(*    for a physical action, and lf_notify_of_event.  It runs to its end  *)
(*    once started, and only while interrupts are not locked.             *)
(* lf_clock_gettime of the main thread is four steps (read the counter,   *)
(* detect the wrap, combine and convert to nanoseconds, store), between   *)
(* which the interrupt may run.                                           *)
(***************************************************************************)
EXTENDS Integers

CONSTANTS
    Wrap,       \* the modulus of the hardware counter (2^32 in the code)
    MaxTicks,   \* bound on the ticks the counter counts (keeps the model finite)
    Word,       \* the modulus of a 64-bit product (2^64 in the code)
    NsPerSec,   \* the factor 1000000000ULL of TIMER_TICKS_TO_NS
    FreqHz,     \* _lf_timer_freq_hz, never 0 (lf_initialize_clock, line 99)
    StopTime,   \* the stop time, in nanoseconds: no sleep is asked for past it
    Durations,  \* how far ahead the scheduler may sleep, in nanoseconds
    MaxEvents   \* bound on interrupt-driven lf_schedule_token calls

ASSUME ZephyrSleepAssumption ==
    /\ Wrap \in Nat \ {0, 1}
    /\ MaxTicks \in Nat
    /\ Word \in Nat \ {0, 1} /\ Word % 2 = 0
    /\ NsPerSec \in Nat \ {0}
    /\ FreqHz \in Nat \ {0}
    /\ StopTime \in Nat
    /\ Durations \subseteq Nat \ {0}
    /\ MaxEvents \in Nat

(* TIMER_TICKS_TO_NS(ticks), line 55: ((int64_t) ticks) * 1000000000ULL   *)
(* is an unsigned 64-bit product, reduced modulo 2^64, then divided by   *)
(* the frequency; the quotient is stored in an instant_t (int64_t), which *)
(* holds values of 2^63 and above as negative ones.                       *)
TicksToNs(ticks) ==
    LET q == ((ticks * NsPerSec) % Word) \div FreqHz
    IN  IF q >= Word \div 2 THEN q - Word ELSE q

VARIABLES
    counter,     \* the hardware counter, in 0..Wrap-1
    real,        \* ghost: ticks since start
    high,        \* _lf_time_cycles_high
    lowLast,     \* _lf_time_cycles_low_last
    storedReal,  \* ghost: real at the read whose value lowLast holds
    inCs,        \* _lf_in_critical_section
    locked,      \* interrupts locked by the main thread (irq_lock)
    async,       \* _lf_async_event
    mpc,         \* the main thread's place
    cont,        \* where the main thread returns to after a critical section call
    mnow,        \* now_cycles of the main thread's lf_clock_gettime
    mreadReal,   \* ghost: real when mnow was read
    mcycles,     \* cycles_64 of the main thread's last lf_clock_gettime
    mprev,       \* ghost: cycles_64 of the main thread's previous reading
    wakeup,      \* the argument of lf_sleep_until, in nanoseconds
    wasInCs,     \* was_in_critical_section
    ret,         \* the value lf_sleep_until last returned
    unseen,      \* ghost: interrupts' events the scheduler has not looked at
    events       \* interrupts so far

clock == <<counter, real, high, lowLast, storedReal>>
main == <<mpc, cont, mnow, mreadReal, mcycles, mprev, wakeup, wasInCs, ret>>
vars == <<clock, inCs, locked, async, main, unseen, events>>

MPcs == {"idle", "enter_lock", "check", "sleep_entry", "exit_flag",
         "exit_unlock", "read", "compare", "combine", "store", "reenter",
         "final", "handle", "stopped"}

Init ==
    /\ counter = 0 /\ real = 0 /\ high = 0 /\ lowLast = 0 /\ storedReal = 0
    /\ inCs = FALSE /\ locked = FALSE /\ async = FALSE
    /\ mpc = "idle" /\ cont = "idle"
    /\ mnow = 0 /\ mreadReal = 0 /\ mcycles = 0 /\ mprev = 0 /\ wakeup = 0
    /\ wasInCs = FALSE /\ ret = 0
    /\ unseen = 0 /\ events = 0

(* lf_critical_section_enter, lines 193-197: the flag, then irq_lock.     *)
(* The scheduler calls it to start a round; lf_sleep_until calls it again *)
(* after the busy wait.                                                   *)
CsEnterFlag ==
    /\ mpc \in {"idle", "reenter"}
    /\ inCs' = TRUE
    /\ cont' = IF mpc = "idle" THEN "check" ELSE "final"
    /\ mpc' = "enter_lock"
    /\ UNCHANGED <<clock, locked, async, mnow, mreadReal, mcycles, mprev,
                   wakeup, wasInCs, ret, unseen, events>>

CsEnterLock ==
    /\ mpc = "enter_lock"
    /\ locked' = TRUE
    /\ mpc' = cont
    /\ UNCHANGED <<clock, inCs, async, cont, mnow, mreadReal, mcycles, mprev,
                   wakeup, wasInCs, ret, unseen, events>>

(* lf_critical_section_exit, lines 199-203: the flag, then irq_unlock.    *)
CsExitFlag ==
    /\ mpc = "exit_flag"
    /\ inCs' = FALSE
    /\ mpc' = "exit_unlock"
    /\ UNCHANGED <<clock, locked, async, cont, mnow, mreadReal, mcycles,
                   mprev, wakeup, wasInCs, ret, unseen, events>>

CsExitUnlock ==
    /\ mpc = "exit_unlock"
    /\ locked' = FALSE
    /\ mpc' = cont
    /\ UNCHANGED <<clock, inCs, async, cont, mnow, mreadReal, mcycles, mprev,
                   wakeup, wasInCs, ret, unseen, events>>

(* Mutant: the wake-up time not capped by the stop time.                 *)
CheckNoStop ==
    /\ mpc = "check"
    /\ unseen' = 0
    /\ \E d \in Durations : wakeup' = TicksToNs(mcycles) + d
    /\ mpc' = "sleep_entry"
    /\ UNCHANGED <<clock, inCs, locked, async, cont, mnow, mreadReal, mcycles,
                   mprev, wasInCs, ret, events>>

(* The scheduler, inside its critical section, takes in the event queue  *)
(* and picks a wake-up time ahead of its last clock reading (the time     *)
(* lf_clock_gettime returned); past the stop time it stops.               *)
Check ==
    /\ mpc = "check"
    /\ unseen' = 0
    /\ IF \E d \in Durations : TicksToNs(mcycles) + d <= StopTime
         THEN \E d \in Durations :
                 /\ TicksToNs(mcycles) + d <= StopTime
                 /\ wakeup' = TicksToNs(mcycles) + d
                 /\ mpc' = "sleep_entry"
         ELSE /\ mpc' = "stopped"
              /\ UNCHANGED wakeup
    /\ UNCHANGED <<clock, inCs, locked, async, cont, mnow, mreadReal, mcycles,
                   mprev, wasInCs, ret, events>>

(* Entry of lf_sleep_until, lines 149-159: in a critical section, ack the *)
(* events already handled and leave it.                                   *)
SleepEntry ==
    /\ mpc = "sleep_entry"
    /\ wasInCs' = inCs
    /\ IF inCs
         THEN /\ async' = FALSE
              /\ cont' = "read"
              /\ mpc' = "exit_flag"
         ELSE /\ mpc' = "read"
              /\ UNCHANGED <<async, cont>>
    /\ UNCHANGED <<clock, inCs, locked, mnow, mreadReal, mcycles, mprev,
                   wakeup, ret, unseen, events>>

(* lf_clock_gettime, line 121: counter_get_value.                         *)
Read ==
    /\ mpc = "read"
    /\ mnow' = counter
    /\ mreadReal' = real
    /\ mpc' = "compare"
    /\ UNCHANGED <<clock, inCs, locked, async, cont, mcycles, mprev, wakeup,
                   wasInCs, ret, unseen, events>>

(* Mutant: the wrap is not detected.                                      *)
CompareNoWrap ==
    /\ mpc = "compare"
    /\ mpc' = "combine"
    /\ UNCHANGED <<clock, inCs, locked, async, cont, mnow, mreadReal, mcycles,
                   mprev, wakeup, wasInCs, ret, unseen, events>>

(* Lines 128-130: a reading below the last one means the counter wrapped. *)
Compare ==
    /\ mpc = "compare"
    /\ high' = IF mnow < lowLast THEN high + 1 ELSE high
    /\ mpc' = "combine"
    /\ UNCHANGED <<counter, real, lowLast, storedReal, inCs, locked, async,
                   cont, mnow, mreadReal, mcycles, mprev, wakeup, wasInCs, ret,
                   unseen, events>>

(* Line 131: COMBINE_HI_LO(_lf_time_cycles_high, now_cycles); line 133   *)
(* converts it with TicksToNs, applied where the time is used.           *)
Combine ==
    /\ mpc = "combine"
    /\ mcycles' = high * Wrap + mnow
    /\ mpc' = "store"
    /\ UNCHANGED <<clock, inCs, locked, async, cont, mnow, mreadReal, mprev,
                   wakeup, wasInCs, ret, unseen, events>>

(* Line 135, and the loop test of lf_sleep_until (line 162), which       *)
(* compares the time in nanoseconds with the wake-up time.               *)
Store ==
    /\ mpc = "store"
    /\ lowLast' = mnow
    /\ storedReal' = mreadReal
    /\ mprev' = mcycles
    /\ mpc' = IF TicksToNs(mcycles) < wakeup /\ ~async THEN "read"
              ELSE IF wasInCs THEN "reenter" ELSE "final"
    /\ UNCHANGED <<counter, real, high, inCs, locked, async, cont, mnow,
                   mreadReal, mcycles, wakeup, wasInCs, ret, unseen, events>>

(* Mutant: the if (_lf_async_event) test dropped, always returning 0.    *)
FinalNoCheck ==
    /\ mpc = "final"
    /\ ret' = 0
    /\ async' = FALSE
    /\ mpc' = "handle"
    /\ UNCHANGED <<clock, inCs, locked, cont, mnow, mreadReal, mcycles, mprev,
                   wakeup, wasInCs, unseen, events>>

(* Lines 166-172: an event during the sleep is acked and reported.       *)
Final ==
    /\ mpc = "final"
    /\ ret' = IF async THEN -1 ELSE 0
    /\ async' = FALSE
    /\ mpc' = "handle"
    /\ UNCHANGED <<clock, inCs, locked, cont, mnow, mreadReal, mcycles, mprev,
                   wakeup, wasInCs, unseen, events>>

(* The scheduler handles the queue and leaves its critical section.       *)
Handle ==
    /\ mpc = "handle"
    /\ unseen' = 0
    /\ cont' = "idle"
    /\ mpc' = "exit_flag"
    /\ UNCHANGED <<clock, inCs, locked, async, mnow, mreadReal, mcycles,
                   mprev, wakeup, wasInCs, ret, events>>

(* An interrupt calls lf_schedule_token (schedule.c lines 100-108): a     *)
(* critical section (which leaves the flag false), _lf_schedule reading   *)
(* physical time through lf_clock_gettime, and lf_notify_of_event.        *)
Interrupt ==
    /\ ~locked
    /\ events < MaxEvents
    /\ inCs' = FALSE
    /\ high' = IF counter < lowLast THEN high + 1 ELSE high
    /\ lowLast' = counter
    /\ storedReal' = real
    /\ async' = TRUE
    /\ unseen' = unseen + 1
    /\ events' = events + 1
    /\ UNCHANGED <<counter, real, locked, main>>

(* The oldest reading lf_clock_gettime still relies on: the stored one,  *)
(* or the main thread's own while it is between its read and its store.   *)
OldestReading ==
    IF mpc \in {"compare", "combine", "store"} /\ mreadReal < storedReal
      THEN mreadReal ELSE storedReal

(* The counter counts, and lf_clock_gettime is called at least once per  *)
(* wrap (the contract in its comment), a call lasting far less than a     *)
(* wrap: the counter never passes a reading still in use.                 *)
Tick ==
    /\ real < MaxTicks
    /\ real + 1 < OldestReading + Wrap
    /\ counter' = (counter + 1) % Wrap
    /\ real' = real + 1
    /\ UNCHANGED <<high, lowLast, storedReal, inCs, locked, async, main,
                   unseen, events>>

(* The scheduler has stopped.                                             *)
Done ==
    /\ mpc = "stopped"
    /\ UNCHANGED vars

MainStep ==
    \/ CsEnterFlag \/ CsEnterLock \/ CsExitFlag \/ CsExitUnlock \/ Check
    \/ SleepEntry \/ Read \/ Compare \/ Combine \/ Store \/ Final \/ Handle

Next == MainStep \/ Interrupt \/ Tick \/ Done

(* The main thread always runs when no interrupt does, and the hardware   *)
(* counter keeps counting.  Interrupts are not forced.                    *)
Spec == Init /\ [][Next]_vars /\ WF_vars(MainStep) /\ WF_vars(Tick)
-----------------------------------------------------------------------------
TypeOK ==
    /\ counter \in 0..Wrap - 1
    /\ real \in 0..MaxTicks
    /\ high \in Nat
    /\ lowLast \in 0..Wrap - 1
    /\ storedReal \in 0..MaxTicks
    /\ inCs \in BOOLEAN /\ locked \in BOOLEAN
    /\ async \in BOOLEAN /\ wasInCs \in BOOLEAN
    /\ mpc \in MPcs
    /\ cont \in MPcs
    /\ mnow \in Nat /\ mreadReal \in Nat /\ mcycles \in Nat /\ mprev \in Nat
    /\ wakeup \in Int /\ wakeup <= StopTime
    /\ ret \in {0, -1}
    /\ unseen \in 0..MaxEvents
    /\ events \in 0..MaxEvents

(* The comment of lf_clock_gettime: called at least once per wrap, it     *)
(* returns the time elapsed: the main thread's reading is exactly the     *)
(* ticks counted when it read the counter.                                *)
ClockExact ==
    mpc = "store" => mcycles = mreadReal

(* cycles_64 never runs behind: the main thread's combined 64-bit cycle  *)
(* count is at least the ticks counted when it read the counter, whatever *)
(* an interrupt did to _lf_time_cycles_high and _lf_time_cycles_low_last  *)
(* in between (the wrap detection of lines 127-131).                      *)
CyclesNeverBehind ==
    mpc = "store" => mcycles >= mreadReal

(* cycles_64 never decreases for the main thread: each combined count is  *)
(* at least the one before, whatever interrupts read in between.          *)
CyclesMonotonic ==
    mpc = "store" => mcycles >= mprev

(* Physical time never goes backwards: the time in nanoseconds that       *)
(* lf_clock_gettime returns to the main thread is at least the one it     *)
(* returned before (the comment of lf_clock_gettime: "Return the current  *)
(* time in nanoseconds").                                                 *)
ClockMonotonic ==
    mpc = "store" => TicksToNs(mcycles) >= TicksToNs(mprev)

(* The comment of lf_sleep_until: an lf_notify_of_event is never lost.    *)
(* A sleep returns 0 (slept to the end) only if every event an interrupt  *)
(* has scheduled since the scheduler last looked at the queue was seen.   *)
NoLostNotification ==
    [][mpc = "final" /\ mpc' = "handle" /\ ret' = 0 => unseen = 0]_vars
=============================================================================

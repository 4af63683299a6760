------------------------- MODULE ZephyrSleepProofs -------------------------
(***************************************************************************)
(* Proofs that the 64-bit cycle count cycles_64 that lf_clock_gettime     *)
(* builds for the main thread never runs behind the ticks counted and     *)
(* never goes backwards, for every modulus of the hardware counter,        *)
(* however interrupts that read the clock interleave with it, as long as   *)
(* no reading in use is a whole wrap old.  The time in nanoseconds made   *)
(* from it at line 133 is another matter: its 64-bit product wraps, and   *)
(* the zephyr_clock_ns run shows that time going backwards.               *)
(*                                                                         *)
(* The argument counts ticks on the counter's circle: Dist(a, b) is the    *)
(* number of ticks from a reading b to a reading a less than a wrap later. *)
(* The stored pair (_lf_time_cycles_high, _lf_time_cycles_low_last) names  *)
(* a time at least that of the reading stored; an interrupt's reading in   *)
(* the middle of the main thread's can only push the high word up, never   *)
(* down, so the main thread's result is at least its own reading and at   *)
(* least the stored time (ClockExact fails: the result may be ahead).      *)
(***************************************************************************)
EXTENDS ZephyrSleep, TLAPS

(* The main thread is between its counter read and its store.             *)
Mid == mpc \in {"compare", "combine", "store"}

(* Ticks from counter value b to counter value a, less than a wrap apart. *)
Dist(a, b) == IF a >= b THEN a - b ELSE a + Wrap - b

ClockInv ==
    /\ mnow \in 0..Wrap - 1
    /\ real - storedReal = Dist(counter, lowLast)
    /\ storedReal <= high * Wrap + lowLast
    /\ mprev <= high * Wrap + lowLast
    /\ Mid => real - mreadReal = Dist(counter, mnow)
    /\ mpc \in {"combine", "store"} =>
           /\ mreadReal <= high * Wrap + mnow
           /\ mprev <= high * Wrap + mnow
    /\ mpc = "store" =>
           /\ mreadReal <= mcycles
           /\ mprev <= mcycles
           /\ mcycles <= high * Wrap + mnow

(* From the ack at its entry to its return, lf_sleep_until runs with     *)
(* every event an interrupt scheduled since the scheduler's check still   *)
(* flagged in _lf_async_event.                                            *)
InSleep ==
    \/ mpc \in {"read", "compare", "combine", "store", "reenter", "final"}
    \/ mpc \in {"exit_flag", "exit_unlock"} /\ cont = "read"
    \/ mpc = "enter_lock" /\ cont = "final"

NotifyInv ==
    /\ mpc = "enter_lock" => cont \in {"check", "final"}
    /\ mpc \in {"exit_flag", "exit_unlock"} => cont \in {"read", "idle"}
    /\ mpc \in {"check", "sleep_entry"} => locked
    /\ mpc = "sleep_entry" => unseen = 0
    /\ InSleep /\ unseen > 0 => async

IInv ==
    /\ TypeOK
    /\ unseen <= events
    /\ cont \in {"idle", "check", "read", "final"}
    /\ ClockInv
    /\ NotifyInv
-----------------------------------------------------------------------------
(* The hardware counter's step, (counter + 1) % Wrap, is the next value on *)
(* the circle.                                                             *)
LEMMA CounterStep ==
    ASSUME NEW c \in 0..Wrap - 1
    PROVE  (c + 1) % Wrap = IF c = Wrap - 1 THEN 0 ELSE c + 1
BY ZephyrSleepAssumption

(* Two counter values are less than a wrap apart.                        *)
LEMMA DistRange ==
    ASSUME NEW a \in 0..Wrap - 1, NEW b \in 0..Wrap - 1
    PROVE  Dist(a, b) \in 0..Wrap - 1
BY ZephyrSleepAssumption DEF Dist

(* TIMER_TICKS_TO_NS of a cycle count is an integer, the wrap and the    *)
(* cast to int64_t included.                                               *)
LEMMA TicksToNsInt ==
    ASSUME NEW c \in Nat
    PROVE  TicksToNs(c) \in Int
BY ZephyrSleepAssumption DEF TicksToNs

(* The flags of lf_zephyr_support.c and the main thread's saved flag.     *)
BoolOK ==
    /\ inCs \in BOOLEAN /\ locked \in BOOLEAN
    /\ async \in BOOLEAN /\ wasInCs \in BOOLEAN

(* The rest of TypeOK: counters, places and the model's ghosts.          *)
DataOK ==
    /\ counter \in 0..Wrap - 1
    /\ real \in 0..MaxTicks
    /\ high \in Nat
    /\ lowLast \in 0..Wrap - 1
    /\ storedReal \in 0..MaxTicks
    /\ mpc \in MPcs
    /\ cont \in MPcs
    /\ mnow \in Nat /\ mreadReal \in Nat /\ mcycles \in Nat /\ mprev \in Nat
    /\ wakeup \in Int /\ wakeup <= StopTime
    /\ ret \in {0, -1}
    /\ unseen \in 0..MaxEvents
    /\ events \in 0..MaxEvents

LEMMA TypeOKParts == TypeOK <=> BoolOK /\ DataOK
BY Zenon DEF TypeOK, BoolOK, DataOK

(* At start every variable of lf_zephyr_support.c is zero or false.       *)
LEMMA InitIInv == Init => IInv
<1> SUFFICES ASSUME Init PROVE IInv
    OBVIOUS
<1>1. BoolOK
    BY Zenon DEF Init, BoolOK
<1>2. DataOK
    BY ZephyrSleepAssumption DEF Init, DataOK, MPcs
<1>3. ClockInv
    BY ZephyrSleepAssumption DEF Init, ClockInv, Mid, Dist
<1>4. NotifyInv
    BY DEF Init, NotifyInv, InSleep
<1>5. QED
    BY <1>1, <1>2, <1>3, <1>4, TypeOKParts DEF Init, IInv

(* The variables the clock invariant is about.                            *)
ClockVars == <<counter, real, high, lowLast, storedReal, mnow, mreadReal,
               mcycles, mprev>>

(* A step that moves the main thread between places outside               *)
(* lf_clock_gettime and leaves the clock alone keeps the clock invariant. *)
LEMMA ControlStep ==
    ASSUME ClockInv, UNCHANGED ClockVars, ~Mid, ~Mid'
    PROVE  ClockInv'
BY DEF ClockInv, ClockVars, Mid, Dist

(* Every step keeps the flags Boolean.                                    *)
LEMMA NextBoolOK == BoolOK /\ [Next]_vars => BoolOK'
BY Zenon DEF BoolOK, Next, MainStep, vars, clock, main, CsEnterFlag,
   CsEnterLock, CsExitFlag, CsExitUnlock, Check, SleepEntry, Read, Compare,
   Combine, Store, Final, Handle, Interrupt, Tick, Done

(* The non-clock part of IInv without the flags.                         *)
DataInv ==
    /\ DataOK
    /\ unseen <= events
    /\ cont \in {"idle", "check", "read", "final"}

(* IInv without the flags, which Zenon handles apart.                     *)
RestInv == DataInv /\ ClockInv

LEMMA IInvParts == IInv <=> BoolOK /\ RestInv /\ NotifyInv
BY TypeOKParts DEF IInv, RestInv, DataInv

(* Every step keeps the events an interrupt scheduled during a sleep     *)
(* flagged until lf_sleep_until returns.                                  *)
LEMMA NextNotifyInv ==
    ASSUME IInv, [Next]_vars
    PROVE  NotifyInv'
<1>0. NotifyInv /\ DataInv
    BY IInvParts DEF RestInv
<1>1. CASE UNCHANGED vars
    BY <1>0, <1>1 DEF NotifyInv, InSleep, vars, main
<1>2. CASE CsEnterFlag
    BY <1>0, <1>2 DEF CsEnterFlag, NotifyInv, InSleep, DataInv,
       clock, main
<1>3. CASE CsEnterLock
    BY <1>0, <1>3 DEF CsEnterLock, NotifyInv, InSleep, DataInv,
       clock, main
<1>4. CASE CsExitFlag
    BY <1>0, <1>4 DEF CsExitFlag, NotifyInv, InSleep, DataInv,
       clock, main
<1>5. CASE CsExitUnlock
    BY <1>0, <1>5 DEF CsExitUnlock, NotifyInv, InSleep, DataInv,
       clock, main
<1>6. CASE Check
    BY <1>0, <1>6 DEF Check, NotifyInv, InSleep, DataInv,
       clock, main
<1>7. CASE SleepEntry
    BY <1>0, <1>7 DEF SleepEntry, NotifyInv, InSleep, DataInv,
       clock, main
<1>8. CASE Read
    BY <1>0, <1>8 DEF Read, NotifyInv, InSleep, DataInv,
       clock, main
<1>9. CASE Compare
    BY <1>0, <1>9 DEF Compare, NotifyInv, InSleep, DataInv,
       clock, main
<1>10. CASE Combine
    BY <1>0, <1>10 DEF Combine, NotifyInv, InSleep, DataInv,
       clock, main
<1>11. CASE Store
    BY <1>0, <1>11 DEF Store, NotifyInv, InSleep, DataInv,
       clock, main
<1>12. CASE Final
    BY <1>0, <1>12 DEF Final, NotifyInv, InSleep, DataInv,
       clock, main
<1>13. CASE Handle
    BY <1>0, <1>13 DEF Handle, NotifyInv, InSleep, DataInv,
       clock, main
<1>14. CASE Interrupt
    BY <1>0, <1>14 DEF Interrupt, NotifyInv, InSleep, DataInv,
       clock, main
<1>15. CASE Tick
    BY <1>0, <1>15 DEF Tick, NotifyInv, InSleep, DataInv,
       clock, main
<1>16. CASE Done
    BY <1>0, <1>16 DEF Done, NotifyInv, InSleep, vars, main
<1>17. QED
    <2>1. CASE MainStep
        BY <2>1, <1>2, <1>3, <1>4, <1>5, <1>6, <1>7, <1>8, <1>9, <1>10,
           <1>11, <1>12, <1>13 DEF MainStep
    <2>2. QED
        BY <2>1, <1>1, <1>14, <1>15, <1>16 DEF Next

(* Every step of the main thread, of an interrupt and of the counter      *)
(* keeps the invariant.                                                   *)
LEMMA NextIInv == IInv /\ [Next]_vars => IInv'
<1> SUFFICES ASSUME IInv, [Next]_vars PROVE IInv'
    OBVIOUS
<1>0. BoolOK /\ RestInv
    BY IInvParts
<1> USE ZephyrSleepAssumption
<1>1. ASSUME UNCHANGED vars PROVE RestInv'
    BY <1>0, <1>1 DEF RestInv, DataInv, DataOK, ClockInv, Mid, Dist, vars,
                      clock, main
<1>2. ASSUME CsEnterFlag PROVE RestInv'
    <2>1. DataInv'
        BY <1>0, <1>2 DEF CsEnterFlag, RestInv, DataInv, DataOK, MPcs, clock,
           main
    <2>2. ClockInv'
        BY <1>0, <1>2, ControlStep DEF CsEnterFlag, RestInv, ClockVars, Mid,
           clock, main
    <2>3. QED
        BY <2>1, <2>2 DEF RestInv
<1>3. ASSUME CsEnterLock PROVE RestInv'
    <2>1. DataInv'
        BY <1>0, <1>3 DEF CsEnterLock, RestInv, DataInv, DataOK, MPcs, clock,
           main
    <2>2. ClockInv'
        BY <1>0, <1>3, ControlStep DEF CsEnterLock, RestInv, DataInv,
           ClockVars, Mid, clock, main
    <2>3. QED
        BY <2>1, <2>2 DEF RestInv
<1>4. ASSUME CsExitFlag PROVE RestInv'
    <2>1. DataInv'
        BY <1>0, <1>4 DEF CsExitFlag, RestInv, DataInv, DataOK, MPcs, clock,
           main
    <2>2. ClockInv'
        BY <1>0, <1>4, ControlStep DEF CsExitFlag, RestInv, ClockVars, Mid,
           clock, main
    <2>3. QED
        BY <2>1, <2>2 DEF RestInv
<1>5. ASSUME CsExitUnlock PROVE RestInv'
    <2>1. DataInv'
        BY <1>0, <1>5 DEF CsExitUnlock, RestInv, DataInv, DataOK, MPcs, clock,
           main
    <2>2. ClockInv'
        BY <1>0, <1>5, ControlStep DEF CsExitUnlock, RestInv, DataInv,
           ClockVars, Mid, clock, main
    <2>3. QED
        BY <2>1, <2>2 DEF RestInv
<1>6. ASSUME Check PROVE RestInv'
    <2>0. TicksToNs(mcycles) \in Int
        BY <1>0, TicksToNsInt DEF RestInv, DataInv, DataOK
    <2>1. DataInv'
        BY <1>0, <1>6, <2>0 DEF Check, RestInv, DataInv, DataOK, MPcs, clock,
           main
    <2>2. ClockInv'
        BY <1>0, <1>6, ControlStep DEF Check, RestInv, ClockVars, Mid, clock,
           main
    <2>3. QED
        BY <2>1, <2>2 DEF RestInv
<1>7. ASSUME SleepEntry PROVE RestInv'
    <2>1. DataInv'
        BY <1>0, <1>7 DEF SleepEntry, RestInv, DataInv, DataOK, MPcs, clock,
           main
    <2>2. ClockInv'
        BY <1>0, <1>7, ControlStep DEF SleepEntry, RestInv, ClockVars, Mid,
           clock, main
    <2>3. QED
        BY <2>1, <2>2 DEF RestInv
<1>8. ASSUME Final PROVE RestInv'
    <2>1. DataInv'
        BY <1>0, <1>8 DEF Final, RestInv, DataInv, DataOK, MPcs, clock, main
    <2>2. ClockInv'
        BY <1>0, <1>8, ControlStep DEF Final, RestInv, ClockVars, Mid, clock,
           main
    <2>3. QED
        BY <2>1, <2>2 DEF RestInv
<1>9. ASSUME Handle PROVE RestInv'
    <2>1. DataInv'
        BY <1>0, <1>9 DEF Handle, RestInv, DataInv, DataOK, MPcs, clock, main
    <2>2. ClockInv'
        BY <1>0, <1>9, ControlStep DEF Handle, RestInv, ClockVars, Mid, clock,
           main
    <2>3. QED
        BY <2>1, <2>2 DEF RestInv
<1>10. ASSUME Read PROVE RestInv'
    <2>1. DataInv'
        BY <1>0, <1>10 DEF Read, RestInv, DataInv, DataOK, MPcs,
                           clock, main
    <2>2. ClockInv'
        BY <1>0, <1>10 DEF Read, RestInv, DataInv, DataOK, ClockInv, Mid,
                           Dist, clock, main
    <2>3. QED
        BY <2>1, <2>2 DEF RestInv
<1>11. ASSUME Compare PROVE RestInv'
    <2>1. DataInv'
        BY <1>0, <1>11 DEF Compare, RestInv, DataInv, DataOK, MPcs,
                           clock, main
    <2>2. ClockInv'
        BY <1>0, <1>11 DEF Compare, RestInv, DataInv, DataOK, ClockInv, Mid,
                           Dist, clock, main
    <2>3. QED
        BY <2>1, <2>2 DEF RestInv
<1>12. ASSUME Combine PROVE RestInv'
    <2>1. DataInv'
        BY <1>0, <1>12 DEF Combine, RestInv, DataInv, DataOK, MPcs,
                           clock, main
    <2>2. ClockInv'
        BY <1>0, <1>12 DEF Combine, RestInv, DataInv, DataOK, ClockInv, Mid,
                           Dist, clock, main
    <2>3. QED
        BY <2>1, <2>2 DEF RestInv
<1>13. ASSUME Store PROVE RestInv'
    <2>1. DataInv'
        BY <1>0, <1>13 DEF Store, RestInv, DataInv, DataOK, MPcs, ClockInv,
                           Mid, Dist, clock, main
    <2>2. ClockInv'
        BY <1>0, <1>13 DEF Store, RestInv, DataInv, DataOK, ClockInv, Mid,
                           Dist, clock, main
    <2>3. QED
        BY <2>1, <2>2 DEF RestInv
<1>14. ASSUME Interrupt PROVE RestInv'
    <2>1. DataInv'
        BY <1>0, <1>14 DEF Interrupt, RestInv, DataInv, DataOK, MPcs,
                           clock, main
    <2>2. ClockInv'
        BY <1>0, <1>14 DEF Interrupt, RestInv, DataInv, DataOK, ClockInv, Mid,
                           Dist, clock, main
    <2>3. QED
        BY <2>1, <2>2 DEF RestInv
<1>15. ASSUME Tick PROVE RestInv'
    <2>1. DataInv'
        BY <1>0, <1>15, CounterStep DEF Tick, RestInv, DataInv, DataOK,
                                         clock, main
    <2>2. ClockInv'
        <3>1. counter' = IF counter = Wrap - 1 THEN 0 ELSE counter + 1
            BY <1>0, <1>15, CounterStep DEF Tick, RestInv, DataInv, DataOK
        <3>2. real + 1 - storedReal < Wrap
            BY <1>0, <1>15 DEF Tick, OldestReading, RestInv, DataInv, DataOK
        <3>3. Mid => real + 1 - mreadReal < Wrap
            BY <1>0, <1>15 DEF Tick, OldestReading, Mid, RestInv, DataInv,
                               DataOK
        <3>4. QED
            BY <1>0, <1>15, <3>1, <3>2, <3>3
            DEF Tick, RestInv, DataInv, DataOK, ClockInv, Mid, Dist, main
    <2>3. QED
        BY <2>1, <2>2 DEF RestInv
<1>16. ASSUME Done PROVE RestInv'
    BY <1>0, <1>16 DEF Done, RestInv, DataInv, DataOK, ClockInv, Mid, Dist,
                       vars, clock, main
<1>17. RestInv'
    <2>1. CASE MainStep
        BY <2>1, <1>2, <1>3, <1>4, <1>5, <1>6, <1>7, <1>8, <1>9, <1>10,
           <1>11, <1>12, <1>13 DEF MainStep
    <2>2. QED
        BY <2>1, <1>1, <1>14, <1>15, <1>16 DEF Next
<1>18. BoolOK'
    BY <1>0, NextBoolOK
<1>19. NotifyInv'
    BY NextNotifyInv
<1>20. QED
    BY Zenon, <1>17, <1>18, <1>19 DEF IInv, RestInv, DataInv, TypeOK,
                                      BoolOK, DataOK

(* The cycle count cycles_64 of lf_clock_gettime (lines 121-131) is never *)
(* behind the ticks counted when the main thread read the counter, for    *)
(* every counter modulus, however interrupts running lf_schedule_token    *)
(* read the clock in between.                                             *)
THEOREM CyclesNeverBehindHolds == Spec => []CyclesNeverBehind
<1>1. IInv => CyclesNeverBehind
    BY DEF IInv, ClockInv, CyclesNeverBehind
<1>2. QED
    BY InitIInv, NextIInv, <1>1, PTL DEF Spec

(* The main thread's cycle count cycles_64 never goes backwards: each one *)
(* lf_clock_gettime combines is at least the one before, interrupts or   *)
(* not, for every counter modulus.                                        *)
THEOREM CyclesMonotonicHolds == Spec => []CyclesMonotonic
<1>1. IInv => CyclesMonotonic
    BY DEF IInv, ClockInv, CyclesMonotonic
<1>2. QED
    BY InitIInv, NextIInv, <1>1, PTL DEF Spec

(* Every variable of the clock, the sleep and the critical sections stays *)
(* in its range, for every counter modulus, word size and frequency.      *)
THEOREM ZephyrSleepTypeCorrect == Spec => []TypeOK
<1>1. IInv => TypeOK
    BY DEF IInv
<1>2. QED
    BY InitIInv, NextIInv, <1>1, PTL DEF Spec

(* lf_sleep_until never returns 0 while an interrupt's lf_notify_of_event *)
(* since the scheduler's check is unseen: the ack at its entry comes      *)
(* before the critical section is left, and only an event flag set in    *)
(* the sleep is acked at its end, with -1.                                *)
THEOREM NoLostNotificationHolds == Spec => NoLostNotification
<1>1. ASSUME IInv, [Next]_vars
      PROVE  mpc = "final" /\ mpc' = "handle" /\ ret' = 0 => unseen = 0
    <2> SUFFICES ASSUME mpc = "final", mpc' = "handle", ret' = 0
                 PROVE  unseen = 0
        OBVIOUS
    <2>0. NotifyInv /\ BoolOK /\ unseen \in Nat
        BY <1>1, IInvParts DEF RestInv, DataInv, DataOK
    <2>1. CASE Final
        <3>0. -1 # 0
            OBVIOUS
        <3>1. ~async
            BY Zenon, <3>0, <2>1 DEF Final
        <3>2. InSleep
            BY <2>1 DEF Final, InSleep
        <3>3. QED
            BY <2>0, <3>1, <3>2 DEF NotifyInv
    <2>2. CASE UNCHANGED vars
        BY <2>2 DEF vars, main
    <2>3. CASE CsEnterFlag \/ CsEnterLock \/ CsExitFlag \/ CsExitUnlock \/ Check \/ SleepEntry
              \/ Read \/ Compare \/ Combine \/ Store
              \/ Handle \/ Interrupt \/ Tick \/ Done
        \* every other step needs another place, or keeps mpc where it is
        BY <2>3 DEF CsEnterFlag, CsEnterLock, CsExitFlag, CsExitUnlock, Check, SleepEntry, Read, Compare, Combine, Store, Handle, Interrupt, Tick, Done, main
    <2>4. QED
        BY <1>1, <2>1, <2>2, <2>3 DEF Next, MainStep
<1>2. QED
    BY InitIInv, NextIInv, <1>1, PTL DEF Spec, NoLostNotification
=============================================================================

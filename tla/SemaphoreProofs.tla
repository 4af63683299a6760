--------------------------- MODULE SemaphoreProofs ---------------------------
(***************************************************************************)
(* Proofs that the counting semaphore of lf_semaphore.c keeps its count   *)
(* and never leaves a thread parked beside a positive count, for every    *)
(* set of threads and every bound.  The type invariant and               *)
(* NoSleepWithCount together are inductive: NoSleepWithCount holds step   *)
(* by step because release wakes everyone.                                *)
(***************************************************************************)
EXTENDS Semaphore, TLAPS

IInv == TypeOK /\ NoSleepWithCount

(* The broadcast of lf_semaphore_release leaves every thread at a place   *)
(* of the three functions, and none of them parked.                       *)
LEMMA WokenProps ==
    ASSUME NEW p \in [Threads -> Pcs]
    PROVE  /\ Woken(p) \in [Threads -> Pcs]
           /\ \A u \in Threads : Woken(p)[u] \notin Sleeping
BY DEF Woken, Pcs, Sleeping

(* lf_semaphore_new establishes the invariant.                            *)
LEMMA InitIInv == Init => IInv
BY SemaphoreAssumption DEF Init, IInv, TypeOK,
                           NoSleepWithCount, Pcs, Sleeping

(* Every critical section of release, acquire and wait, and every         *)
(* wake-up, preserves the invariant.                                      *)
LEMMA NextIInv == IInv /\ [Next]_vars => IInv'
<1> SUFFICES ASSUME IInv, [Next]_vars PROVE IInv'
    OBVIOUS
<1>1. CASE UNCHANGED vars
    BY <1>1 DEF IInv, TypeOK, NoSleepWithCount, vars
<1>2. ASSUME NEW t \in Threads, NEW i \in 0..MaxRelease, Release(t, i)
      PROVE IInv'
    <2>1. /\ Woken(pc) \in [Threads -> Pcs]
          /\ \A u \in Threads : Woken(pc)[u] \notin Sleeping
        BY WokenProps DEF IInv, TypeOK
    <2>2. pc' \in [Threads -> Pcs] /\ \A u \in Threads : pc'[u] \notin Sleeping
        BY <1>2, <2>1 DEF Release, Pcs, Sleeping
    <2>3. TypeOK'
        BY <1>2, <2>2, SemaphoreAssumption
        DEF Release, IInv, TypeOK
    <2>4. NoSleepWithCount'
        BY <2>2 DEF NoSleepWithCount
    <2>5. QED
        BY <2>3, <2>4 DEF IInv
<1>3. ASSUME NEW t \in Threads, AcquireTest(t) PROVE IInv'
    <2>1. CASE count = 0
        BY <1>3, <2>1 DEF AcquireTest, IInv, TypeOK,
                          NoSleepWithCount, Pcs, Sleeping
    <2>2. CASE count # 0
        <3>1. TypeOK'
            BY <1>3, <2>2, SemaphoreAssumption
            DEF AcquireTest, IInv, TypeOK, Pcs
        <3>2. NoSleepWithCount'
            BY <1>3, <2>2 DEF AcquireTest, IInv, TypeOK, NoSleepWithCount,
                              Sleeping
        <3>3. QED
            BY <3>1, <3>2 DEF IInv
    <2>3. QED
        BY <2>1, <2>2
<1>4. ASSUME NEW t \in Threads, WaitTest(t) PROVE IInv'
    BY <1>4 DEF WaitTest, IInv, TypeOK, NoSleepWithCount,
                Pcs, Sleeping
<1>5. ASSUME NEW t \in Threads, SpuriousWakeup(t) PROVE IInv'
    BY <1>5 DEF SpuriousWakeup, IInv, TypeOK,
                NoSleepWithCount, Pcs, Sleeping
<1>6. QED
    BY <1>1, <1>2, <1>3, <1>4, <1>5 DEF Next

(* The semaphore's count is a natural number and every thread is at a     *)
(* place of acquire, wait or release, in every reachable state.           *)
THEOREM SemaphoreTypeCorrect == Spec => []TypeOK
<1>1. IInv => TypeOK
    BY DEF IInv
<1>2. QED
    BY InitIInv, NextIInv, <1>1, PTL DEF Spec

(* No thread stays parked in lf_semaphore_acquire or lf_semaphore_wait    *)
(* while the count is positive: the broadcast of release wakes them all.  *)
THEOREM NoSleepWithCountHolds == Spec => []NoSleepWithCount
<1>1. IInv => NoSleepWithCount
    BY DEF IInv
<1>2. QED
    BY InitIInv, NextIInv, <1>1, PTL DEF Spec

(* Each step of the implementation is a step of the atomic semaphore or   *)
(* leaves the count alone.                                                *)
LEMMA NextRefines == IInv /\ [Next]_vars => [Abstract!Next]_count
<1> SUFFICES ASSUME IInv, [Next]_vars PROVE [Abstract!Next]_count
    OBVIOUS
<1>1. CASE UNCHANGED vars
    BY <1>1 DEF vars
<1>2. ASSUME NEW t \in Threads, NEW i \in 0..MaxRelease, Release(t, i)
      PROVE [Abstract!Next]_count
    BY <1>2 DEF Release, IInv, TypeOK, Abstract!Next, Abstract!Release
<1>3. ASSUME NEW t \in Threads, AcquireTest(t) PROVE [Abstract!Next]_count
    BY <1>3 DEF AcquireTest, IInv, TypeOK, Abstract!Next, Abstract!Acquire
<1>4. ASSUME NEW t \in Threads, WaitTest(t) PROVE [Abstract!Next]_count
    BY <1>4 DEF WaitTest
<1>5. ASSUME NEW t \in Threads, SpuriousWakeup(t) PROVE [Abstract!Next]_count
    BY <1>5 DEF SpuriousWakeup
<1>6. QED
    BY <1>1, <1>2, <1>3, <1>4, <1>5 DEF Next

(* The mutex-and-condition-variable semaphore of lf_semaphore.c          *)
(* implements the atomic counting semaphore: acquire returns only by     *)
(* taking a unit that is there, for any threads and any releases.        *)
THEOREM SemaphoreRefinement == Spec => ImplementsAbstract
<1>1. Init => Abstract!Init
    BY DEF Init, Abstract!Init
<1>2. QED
    BY InitIInv, NextIInv, NextRefines, <1>1, PTL
    DEF Spec, ImplementsAbstract, Abstract!Spec
=============================================================================

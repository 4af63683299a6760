------------------------------ MODULE Semaphore ------------------------------
(***************************************************************************)
(* The counting semaphore of src/core/utils/lf_semaphore.c: a size_t count *)
(* guarded by a mutex, and a condition variable that release broadcasts   *)
(* on.  Every function holds the mutex from start to end except while it  *)
(* is inside lf_cond_wait, so each action below is one critical section:  *)
(* a call up to its first wait, or a wake-up up to its next wait or its   *)
(* return.  A thread parked in lf_cond_wait may return from it without a  *)
(* broadcast (a spurious wake-up, which pthread allows).                  *)
(***************************************************************************)
EXTENDS Naturals

CONSTANTS
    Threads,      \* the threads that call the semaphore
    InitCounts,   \* the counts lf_semaphore_new may be called with
    MaxRelease,   \* the largest i one lf_semaphore_release adds
    MaxReleased   \* bound on the sum of all releases (keeps the model finite)

ASSUME SemaphoreAssumption ==
    /\ InitCounts \subseteq Nat
    /\ MaxRelease \in Nat
    /\ MaxReleased \in Nat

VARIABLES
    count,     \* semaphore->count
    pc,        \* where each thread is: idle, or inside acquire or wait
    released   \* ghost: sum of the i of every completed release

vars == <<count, pc, released>>

(* Thread positions: "idle" is outside the semaphore; "acq_sleep" and     *)
(* "wait_sleep" are parked in lf_cond_wait; "acq_woken" and "wait_woken"  *)
(* have been woken and wait to re-take the mutex and re-test the loop.    *)
Sleeping == {"acq_sleep", "wait_sleep"}
Pcs == {"idle", "acq_sleep", "acq_woken", "wait_sleep", "wait_woken"}

(* lf_cond_broadcast: every thread parked on the condition is woken.      *)
Woken(p) == [t \in Threads |->
                CASE p[t] = "acq_sleep"  -> "acq_woken"
                  [] p[t] = "wait_sleep" -> "wait_woken"
                  [] OTHER               -> p[t]]

(* lf_semaphore_new(count).                                               *)
Init ==
    /\ count \in InitCounts
    /\ pc = [t \in Threads |-> "idle"]
    /\ released = 0

(* Mutant: lf_cond_signal in place of lf_cond_broadcast; only the first  *)
(* parked thread (in a fixed order) is woken.                             *)
ReleaseSignal(t, i) ==
    /\ pc[t] = "idle"
    /\ released + i <= MaxReleased
    /\ count' = count + i
    /\ pc' = IF \E u \in Threads : pc[u] \in Sleeping
              THEN LET u == CHOOSE u \in Threads : pc[u] \in Sleeping
                   IN  [pc EXCEPT ![u] = IF pc[u] = "acq_sleep" THEN "acq_woken"
                                                               ELSE "wait_woken"]
              ELSE pc
    /\ released' = released + i

(* lf_semaphore_release(semaphore, i): add i and broadcast.               *)
Release(t, i) ==
    /\ pc[t] = "idle"
    /\ released + i <= MaxReleased
    /\ count' = count + i
    /\ pc' = [Woken(pc) EXCEPT ![t] = "idle"]
    /\ released' = released + i

(* Mutant: "if" in place of "while" in lf_semaphore_acquire; a woken     *)
(* thread takes one without testing the count again.                      *)
AcquireTestOnce(t) ==
    /\ pc[t] \in {"idle", "acq_woken"}
    /\ IF count = 0 /\ pc[t] = "idle"
         THEN /\ pc' = [pc EXCEPT ![t] = "acq_sleep"]
              /\ UNCHANGED count
         ELSE /\ count' = count - 1
              /\ pc' = [pc EXCEPT ![t] = "idle"]
    /\ UNCHANGED released

(* The loop test of lf_semaphore_acquire, reached on the call ("idle")    *)
(* or after a wake-up ("acq_woken"): park if the count is 0, otherwise    *)
(* take one and return.                                                   *)
AcquireTest(t) ==
    /\ pc[t] \in {"idle", "acq_woken"}
    /\ IF count = 0
         THEN /\ pc' = [pc EXCEPT ![t] = "acq_sleep"]
              /\ UNCHANGED count
         ELSE /\ count' = count - 1
              /\ pc' = [pc EXCEPT ![t] = "idle"]
    /\ UNCHANGED released

(* The loop test of lf_semaphore_wait: the same, without taking one.      *)
WaitTest(t) ==
    /\ pc[t] \in {"idle", "wait_woken"}
    /\ pc' = [pc EXCEPT ![t] = IF count = 0 THEN "wait_sleep" ELSE "idle"]
    /\ UNCHANGED <<count, released>>

(* lf_cond_wait returns with no broadcast.                                *)
SpuriousWakeup(t) ==
    /\ pc[t] \in Sleeping
    /\ pc' = [pc EXCEPT ![t] = IF pc[t] = "acq_sleep" THEN "acq_woken"
                                                      ELSE "wait_woken"]
    /\ UNCHANGED <<count, released>>

Next ==
    \E t \in Threads :
        \/ \E i \in 0..MaxRelease : Release(t, i)
        \/ AcquireTest(t)
        \/ WaitTest(t)
        \/ SpuriousWakeup(t)

Spec == Init /\ [][Next]_vars

-----------------------------------------------------------------------------
(* The count is a size_t (never below zero) and every thread is at a      *)
(* place of the three functions.                                          *)
TypeOK ==
    /\ count \in Nat
    /\ pc \in [Threads -> Pcs]
    /\ released \in 0..MaxReleased

(* No thread stays parked in acquire or wait while the count is positive: *)
(* release wakes every parked thread (a signal would wake only one, and a *)
(* release of 2 would leave a second acquirer asleep beside a unit).      *)
NoSleepWithCount ==
    count > 0 => \A t \in Threads : pc[t] \notin Sleeping

(* The atomic counting semaphore, with count mapped to semaphore->count.  *)
Abstract == INSTANCE SemaphoreAbstract

(* The mutex, the condition variable and the while loops of               *)
(* lf_semaphore.c implement an atomic counting semaphore: every release   *)
(* is one atomic increase, every return from acquire one atomic decrease  *)
(* of a positive count, and parking, waking and lf_semaphore_wait leave   *)
(* the count alone.                                                       *)
ImplementsAbstract == Abstract!Spec
=============================================================================

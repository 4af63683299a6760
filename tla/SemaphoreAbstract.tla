-------------------------- MODULE SemaphoreAbstract --------------------------
(***************************************************************************)
(* What a counting semaphore promises its callers, with no mutex and no   *)
(* condition variable: a count that release raises by any amount and      *)
(* acquire lowers by one, atomically, and only when it is positive.  A    *)
(* caller that finds the count at zero is not in this specification: it   *)
(* blocks, which is invisible in the count.                               *)
(***************************************************************************)
EXTENDS Naturals

CONSTANT InitCounts   \* the counts a semaphore may be created with

VARIABLE count

(* A new semaphore holds its initial count.                               *)
Init == count \in InitCounts

(* Release some number of units.                                          *)
Release ==
    /\ count' \in Nat
    /\ count' >= count

(* Take one unit; possible only when one is there.                       *)
Acquire ==
    /\ count > 0
    /\ count' = count - 1

Next == Acquire \/ Release

Spec == Init /\ [][Next]_count
=============================================================================

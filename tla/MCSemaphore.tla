----------------------------- MODULE MCSemaphore -----------------------------
(* Three threads, a semaphore created with 0 or 1, releases of 0..2 units *)
(* adding up to at most 3.                                                *)
EXTENDS Semaphore, TLC
CONSTANTS t1, t2, t3
MCThreads == {t1, t2, t3}
MCInitCounts == {0, 1}
MCMaxRelease == 2
MCMaxReleased == 3
MCSymmetry == Permutations(MCThreads)
=============================================================================

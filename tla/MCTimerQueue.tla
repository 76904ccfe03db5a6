---------------------------- MODULE MCTimerQueue ----------------------------
EXTENDS TimerQueue, TLC
CONSTANTS t1, t2, t3
TimerSymmetry == Permutations(Timers)
=============================================================================

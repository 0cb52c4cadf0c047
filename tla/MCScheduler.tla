---------------------------- MODULE MCScheduler -----------------------------
(***************************************************************************)
(* Instances of Scheduler for TLC.                                         *)
(***************************************************************************)
EXTENDS Scheduler, TLC

\* One lock guards every condition.
MCcond_lock == [c \in Condition |-> CHOOSE l \in Lock : TRUE]

\* timer_sleep() until the next tick, and until one that has gone by.
MCSleepTicks == {-1, 1}

\* The threads that are neither idle nor initial are interchangeable.
Symmetry == Permutations(Thread \ {idle_thread, initial_thread})
=============================================================================

------------------------------ MODULE Monitor -------------------------------
(***************************************************************************)
(* What synch.c's comments promise of locks and condition variables: Mesa  *)
(* monitors.  "A lock can be held by at most a single thread at any given  *)
(* time"; cond_wait() "atomically releases LOCK and waits for COND";       *)
(* cond_signal() wakes one waiter if there is any; a woken waiter          *)
(* reacquires the lock before it returns.                                  *)
(***************************************************************************)
CONSTANTS Thread, Lock, Condition, cond_lock, NULL

VARIABLES
  owner,   \* the thread that has each lock, or NULL
  waiting, \* the threads that wait for each condition
  woken    \* signalled threads on their way back to the condition's lock

vars == <<owner, waiting, woken>>

Init ==
  /\ owner = [l \in Lock |-> NULL]
  /\ waiting = [c \in Condition |-> {}]
  /\ woken = [c \in Condition |-> {}]

Acquire(t, l) ==
  /\ owner[l] = NULL
  /\ owner' = [owner EXCEPT ![l] = t]
  /\ UNCHANGED <<waiting, woken>>

Release(t, l) ==
  /\ owner[l] = t
  /\ owner' = [owner EXCEPT ![l] = NULL]
  /\ UNCHANGED <<waiting, woken>>

\* The lock is released and the wait begins in one step.
Wait(t, c) ==
  /\ owner[cond_lock[c]] = t
  /\ owner' = [owner EXCEPT ![cond_lock[c]] = NULL]
  /\ waiting' = [waiting EXCEPT ![c] = @ \cup {t}]
  /\ UNCHANGED woken

\* The owner of the lock wakes one waiter.
Signal(t, c) ==
  /\ owner[cond_lock[c]] = t
  /\ \E w \in waiting[c] :
       /\ waiting' = [waiting EXCEPT ![c] = @ \ {w}]
       /\ woken' = [woken EXCEPT ![c] = @ \cup {w}]
  /\ UNCHANGED owner

\* A woken waiter is the lock's owner again when cond_wait() returns.
Reacquire(t, c) ==
  /\ t \in woken[c]
  /\ owner[cond_lock[c]] = NULL
  /\ owner' = [owner EXCEPT ![cond_lock[c]] = t]
  /\ woken' = [woken EXCEPT ![c] = @ \ {t}]
  /\ UNCHANGED waiting

Next ==
  \E t \in Thread :
    \/ \E l \in Lock : Acquire(t, l) \/ Release(t, l)
    \/ \E c \in Condition : Wait(t, c) \/ Signal(t, c) \/ Reacquire(t, c)

Spec == Init /\ [][Next]_vars
=============================================================================

---------------------------- MODULE SynchProofs -----------------------------
(***************************************************************************)
(* Proofs about the locks and condition variables of module Scheduler:     *)
(* mutual exclusion, signals, and that they implement module Monitor.      *)
(***************************************************************************)
EXTENDS SchedulerProofs

\* The prover of the leaves that name none.
USE ZenonT(120)

(***************************************************************************)
(* Mutual exclusion.  While a thread is between the two steps of           *)
(* lock_acquire(), lock_release() or cond_wait(), the holder field of the  *)
(* lock is NULL: that is what lets the second step count on being alone.   *)
(***************************************************************************)
Between == {"lock_holder", "lock_release", "cond_release"}

MutexInv ==
  /\ MutualExclusion
  /\ \A t \in Thread : pc[t] \in Between => holder[sema[t]] = NULL

\* A step that changes no lock's semaphore or holder, and no thread between
\* the two steps of a lock operation.
LEMMA MutexQuiet ==
  ASSUME TypeInv, MutexInv, holder' = holder,
         \A l \in Lock : value'[l] = value[l],
         \A t \in Thread : \/ pc'[t] = pc[t] /\ sema'[t] = sema[t]
                           \/ pc[t] \notin Between /\ pc'[t] \notin Between
  PROVE  MutexInv'
<1>1. \A l \in Lock : Owners(l)' = Owners(l)
  BY DEF Owners, Between
<1> QED BY <1>1 DEF MutexInv, MutualExclusion

\* The semaphore of a free lock is taken.
LEMMA MutexTake ==
  ASSUME TypeInv, MutexInv, NEW l \in Lock, value[l] > 0,
         value' = [value EXCEPT ![l] = @ - 1], holder' = holder,
         pc' = [pc EXCEPT ![current] = "lock_holder"],
         sema' = [sema EXCEPT ![current] = l],
         pc[current] \notin Between
  PROVE  MutexInv'
<1>0. /\ current \in Thread /\ l \in Sema
      /\ \A t \in Thread : /\ pc'[t] = IF t = current THEN "lock_holder" ELSE pc[t]
                           /\ sema'[t] = IF t = current THEN l ELSE sema[t]
      /\ \A k \in Lock : value'[k] = IF k = l THEN value[l] - 1 ELSE value[k]
  BY DEF TypeInv, TypeOK, Sema
<1>1. value[l] = 1 /\ Owners(l) = {}
  BY SMTT(20) DEF MutexInv, MutualExclusion
<1>2. /\ \A t \in Thread : holder[l] # t
      /\ \A t \in Thread : pc[t] \in Between => sema[t] # l
  BY <1>1 DEF Owners, Between
<1>3. holder[l] = NULL
  BY <1>2 DEF TypeInv, TypeOK
<1>4. Owners(l)' = {current}
  BY SMTT(20), <1>0, <1>2 DEF Owners, Between
<1>5. \A k \in Lock \ {l} : Owners(k)' = Owners(k)
  BY <1>0 DEF Owners, Between
<1>6. MutualExclusion'
  BY SMTT(20), <1>0, <1>1, <1>4, <1>5 DEF MutexInv, MutualExclusion
<1>7. \A t \in Thread : pc'[t] \in Between => holder'[sema'[t]] = NULL
  BY SMTT(20), <1>0, <1>3 DEF MutexInv
<1> QED BY <1>6, <1>7 DEF MutexInv

\* One turn of sema_down(), for a lock or for another semaphore.
LEMMA MutexDown ==
  ASSUME TypeInv, MutexInv, NEW s \in Sema, SemaDown(s), holder' = holder,
         pc[current] \notin Between
  PROVE  MutexInv'
<1>0. current \in Thread /\ pc \in [Thread -> Label] /\ value \in [Sema -> Nat]
      /\ sema \in [Thread -> Sema \cup {NULL}] /\ Lock \subseteq Sema
  BY DEF TypeInv, TypeOK, Sema
<1>1. CASE value[s] = 0
  BY SMTT(20), <1>0, <1>1, MutexQuiet DEF SemaDown, Goto, Between
<1>2. CASE value[s] > 0 /\ s \in Lock
  <2>1. Return(s) = "lock_holder"
    BY <1>2, NamesAssumption DEF Return
  <2> QED BY SMTT(20), <1>2, <2>1, MutexTake DEF SemaDown, Goto
<1>3. CASE value[s] > 0 /\ s \notin Lock
  <2>1. Return(s) \notin Between
    BY <1>3 DEF Return, Between
  <2> QED BY SMTT(20), <1>0, <1>3, <2>1, MutexQuiet DEF SemaDown, Goto
<1> QED BY SMTT(20), <1>0, <1>1, <1>2, <1>3

LEMMA MutexInit == Init => MutexInv
<1> SUFFICES ASSUME Init PROVE MutexInv
  OBVIOUS
<1>1. \A l \in Lock : value[l] = 1 /\ holder[l] = NULL
  BY DEF Init, Sema
<1>2. \A l \in Lock : Owners(l) = {}
  BY SMTT(20), <1>1, NamesAssumption DEF Init, Owners, Sema
<1> QED BY <1>1, <1>2 DEF Init, MutexInv, MutualExclusion, Between

LEMMA MutexStep == TypeInv /\ MutexInv /\ [Next]_vars => MutexInv'
<1> SUFFICES ASSUME TypeInv, MutexInv, [Next]_vars PROVE MutexInv'
  OBVIOUS
<1> USE DEF clockVars, sleepVars, semaVars, monitorVars, callVars
<1>0. /\ current \in Thread /\ pc \in [Thread -> Label] /\ value \in [Sema -> Nat]
      /\ sema \in [Thread -> Sema \cup {NULL}] /\ holder \in [Lock -> Thread \cup {NULL}]
      /\ Lock \subseteq Sema /\ Semaphore \subseteq Sema /\ Thread \subseteq Sema
      /\ IntrSemaphore \subseteq Semaphore
      /\ Lock \cap Semaphore = {} /\ Lock \cap Thread = {} /\ NULL \notin Thread
      /\ \A c \in Condition : cond_lock[c] \in Lock
  BY NamesAssumption DEF TypeInv, TypeOK, Sema
<1>1. CASE \/ thread_yield \/ thread_exit \/ thread_yield_at_end \/ thread_wake_up \/ intr_return
           \/ \E p \in Priority : thread_set_priority(p)
  BY <1>1, MutexQuiet DEF thread_yield, thread_exit, thread_yield_at_end, thread_wake_up,
                          intr_return, thread_set_priority
<1>2. CASE \/ thread_create_unblock \/ thread_sleep \/ idle \/ timer_interrupt
           \/ \E p \in Priority, t \in Thread : thread_create(t, p)
           \/ \E n \in SleepTicks : timer_sleep(n)
  BY <1>0, <1>2, MutexQuiet DEF thread_create_unblock, thread_sleep, idle, timer_interrupt,
                                thread_create, timer_sleep, At, Goto, LeaveHlt, Between
<1>3. CASE \E s \in IntrSemaphore : device_interrupt(s)
  BY SMTT(20), <1>0, <1>3, MutexQuiet DEF device_interrupt, SemaUp, LeaveHlt, Between
<1>4. CASE \E s \in Semaphore : sema_down(s) \/ sema_try_down(s) \/ sema_up(s)
  <2>1. CASE \E s \in Semaphore : sema_down(s)
    BY <1>0, <2>1, MutexDown DEF sema_down, At, Between
  <2>2. CASE \E s \in Semaphore : sema_try_down(s) \/ sema_up(s)
    BY SMTT(20), <1>0, <2>2, MutexQuiet DEF sema_try_down, sema_up, SemaUp
  <2> QED BY <1>4, <2>1, <2>2
<1>5. CASE sema_down_retry
  <2>1. sema[current] \in Sema /\ pc[current] = "sema_down"
    BY <1>0, <1>5 DEF sema_down_retry, At, TypeInv, CallInv
  <2> QED BY <1>5, <2>1, MutexDown DEF sema_down_retry, Between
<1>6. CASE cond_down \/ cond_acquire
  <2>1. pc[current] = "cond_acquire" => cond_lock[cond[current]] \in Sema
    BY <1>0 DEF TypeInv, CallInv
  <2> QED BY <1>0, <1>6, <2>1, MutexDown DEF cond_down, cond_acquire, At, Between
<1>7. ASSUME NEW l \in Lock, lock_acquire(l) PROVE MutexInv'
  BY <1>0, <1>7, MutexDown DEF lock_acquire, At, Between
<1>8. ASSUME NEW l \in Lock, lock_try_acquire(l) PROVE MutexInv'
  BY <1>0, <1>8, MutexTake DEF lock_try_acquire, At, Goto, Between
<1>9. CASE lock_set_holder
  <2>0. PICK l \in Lock : l = sema[current]
    BY <1>0, <1>9 DEF lock_set_holder, At, TypeInv, CallInv
  <2>1. /\ pc[current] = "lock_holder"
        /\ holder' = [holder EXCEPT ![l] = current] /\ value' = value
        /\ \A t \in Thread : /\ pc'[t] = IF t = current THEN "run" ELSE pc[t]
                             /\ t # current => sema'[t] = sema[t]
    BY <1>0, <1>9, <2>0 DEF lock_set_holder, At, Goto
  <2>2. current \in Owners(l)
    BY <1>0, <2>0, <2>1 DEF Owners
  <2>3. value[l] = 0 /\ Owners(l) = {current}
    BY <2>1, <2>2 DEF MutexInv, MutualExclusion
  <2>4. \A t \in Thread \ {current} : pc[t] \in Between => sema[t] # l
    BY <2>3 DEF Owners, Between
  <2>5. Owners(l)' = {current}
    BY <1>0, <2>1, <2>4 DEF Owners, Between
  <2>6. \A k \in Lock \ {l} : Owners(k)' = Owners(k)
    BY <1>0, <2>0, <2>1 DEF Owners, Between
  <2>7. MutualExclusion'
    BY SMTT(20), <1>0, <2>1, <2>3, <2>5, <2>6 DEF MutexInv, MutualExclusion
  <2>8. \A t \in Thread : pc'[t] \in Between => holder'[sema'[t]] = NULL
    BY SMTT(20), <1>0, <2>1, <2>4 DEF MutexInv, Between, TypeInv, CallInv
  <2> QED BY <2>7, <2>8 DEF MutexInv
<1>10. ASSUME NEW l \in Lock, holder[l] = current, holder' = [holder EXCEPT ![l] = NULL],
              sema' = [sema EXCEPT ![current] = l], pc[current] \notin Between,
              \/ pc' = [pc EXCEPT ![current] = "lock_release"]
              \/ pc' = [pc EXCEPT ![current] = "cond_release"],
              \A k \in Lock : value'[k] = value[k]
       PROVE  MutexInv'
  <2>1. \A t \in Thread : /\ pc'[t] = IF t = current THEN pc'[current] ELSE pc[t]
                          /\ sema'[t] = IF t = current THEN l ELSE sema[t]
    BY <1>0, <1>10
  <2>2. pc'[current] \in {"lock_release", "cond_release"}
    BY <1>0, <1>10
  <2>3. \A k \in Lock : Owners(k)' = Owners(k)
    BY SMTT(20), <1>0, <1>10, <2>1, <2>2 DEF Owners, Between
  <2>4. MutualExclusion'
    BY <1>10, <2>3 DEF MutexInv, MutualExclusion
  <2>5. \A t \in Thread : pc'[t] \in Between => holder'[sema'[t]] = NULL
    BY SMTT(20), <1>0, <1>10, <2>1 DEF MutexInv, TypeInv, CallInv, Between
  <2> QED BY <2>4, <2>5 DEF MutexInv
<1>11. ASSUME NEW l \in Lock, lock_release(l) PROVE MutexInv'
  BY <1>10, <1>11 DEF lock_release, At, Goto, Between
<1>12. ASSUME NEW c \in Condition, cond_wait(c) PROVE MutexInv'
  <2>1. \A k \in Lock : value'[k] = value[k]
    BY <1>0, <1>12 DEF cond_wait
  <2> QED BY <1>0, <1>10, <1>12, <2>1 DEF cond_wait, At, Goto, Between
<1>13. CASE lock_release_up
  <2>0. PICK l \in Lock : l = sema[current]
    BY <1>0, <1>13 DEF lock_release_up, At, TypeInv, CallInv
  <2>1. /\ pc[current] \in {"lock_release", "cond_release"}
        /\ holder' = holder /\ value' = [value EXCEPT ![l] = @ + 1]
        /\ \A t \in Thread \ {current} : pc'[t] = pc[t] /\ sema'[t] = sema[t]
        /\ pc'[current] \notin Between
    BY <1>0, <1>13, <2>0 DEF lock_release_up, SemaUp, At, Goto, Between
  <2>2. current \in Owners(l) /\ holder[l] = NULL
    BY <1>0, <2>0, <2>1 DEF Owners, MutexInv, Between
  <2>3. value[l] = 0 /\ Owners(l) = {current}
    BY <2>1, <2>2 DEF MutexInv, MutualExclusion
  <2>4. \A t \in Thread \ {current} : pc[t] \in Between => sema[t] # l
    BY <2>3 DEF Owners, Between
  <2>5. Owners(l)' = {}
    BY <1>0, <2>1, <2>2, <2>4 DEF Owners, Between
  <2>6. \A k \in Lock \ {l} : Owners(k)' = Owners(k)
    BY <1>0, <2>0, <2>1 DEF Owners, Between
  <2>7. MutualExclusion'
    BY SMTT(20), <1>0, <2>1, <2>3, <2>5, <2>6 DEF MutexInv, MutualExclusion
  <2>8. \A t \in Thread : pc'[t] \in Between => holder'[sema'[t]] = NULL
    BY <1>0, <2>1 DEF MutexInv
  <2> QED BY <2>7, <2>8 DEF MutexInv
<1>14. ASSUME NEW c \in Condition, Signal(c), holder' = holder,
              \A t \in Thread : \/ pc'[t] = pc[t] /\ sema'[t] = sema[t]
                                \/ pc[t] \notin Between /\ pc'[t] \notin Between
       PROVE  MutexInv'
  <2>1. Head(cond_waiters[c]) \in Thread
    BY <1>14, PopFrontElements DEF Signal, TypeInv, TypeOK
  <2>2. \A l \in Lock : value'[l] = value[l]
    BY <1>0, <1>14, <2>1 DEF Signal, SemaUp
  <2> QED BY <1>14, <2>2, MutexQuiet
<1>15. ASSUME NEW c \in Condition, cond_signal(c) \/ cond_broadcast(c) PROVE MutexInv'
  <2>1. CASE cond_signal(c)
    BY <1>14, <2>1 DEF cond_signal
  <2>2. CASE cond_broadcast(c)
    BY <1>0, <2>2, MutexQuiet DEF cond_broadcast, At, Goto, Between
  <2> QED BY <1>15, <2>1, <2>2
<1>16. CASE cond_broadcast_loop
  <2>1. cond[current] \in Condition
    BY <1>0, <1>16 DEF cond_broadcast_loop, At, TypeInv, CallInv
  <2>2. CASE Signal(cond[current]) /\ UNCHANGED <<pc, cond>>
    BY <1>14, <1>16, <2>1, <2>2 DEF cond_broadcast_loop
  <2>3. CASE Goto("run") /\ UNCHANGED <<cpuVars, semaVars, cond_waiters, yielding>>
    BY <1>0, <1>16, <2>3, MutexQuiet DEF cond_broadcast_loop, At, Goto, Between
  <2> QED BY <1>16, <2>2, <2>3 DEF cond_broadcast_loop
<1>17. CASE UNCHANGED vars
  BY <1>17, MutexQuiet DEF vars
<1> QED BY <1>1, <1>2, <1>3, <1>4, <1>5, <1>6, <1>7, <1>8, <1>9, <1>11, <1>12, <1>13,
           <1>15, <1>16, <1>17 DEF Next, Interrupt, Continue, Call

\* No two threads own a lock, and a lock is free exactly when its semaphore is
\* 1, although lock_acquire(), lock_release() and cond_wait() change the
\* semaphore and the holder in separate steps.
THEOREM LocksAreExclusive == Spec => []MutualExclusion
<1>1. MutexInv => MutualExclusion
  BY DEF MutexInv
<1> QED BY <1>1, TypeInit, TypeStep, MutexInit, MutexStep, PTL DEF Spec
-----------------------------------------------------------------------------
(***************************************************************************)
(* Signals.  SignalsAreKept is inductive once the call sites are known     *)
(* (CallInv): only its owner downs a waiter's semaphore.                   *)
(***************************************************************************)

\* A step that touches no condition's list, no waiter's semaphore, and no
\* thread in cond_wait().
LEMMA SignalQuiet ==
  ASSUME TypeInv, SignalsAreKept, cond_waiters' = cond_waiters,
         \A t \in Thread : \/ ~ InCondWait(t) /\ ~ InCondWait(t)'
                           \/ /\ InCondWait(t) /\ InCondWait(t)'
                              /\ cond'[t] = cond[t] /\ value'[t] = value[t]
  PROVE  SignalsAreKept'
  BY DEF SignalsAreKept

\* One turn of sema_down().
LEMMA SignalDown ==
  ASSUME TypeInv, SignalsAreKept, NEW s \in Sema, SemaDown(s),
         cond_waiters' = cond_waiters, cond' = cond,
         IF s \in Thread THEN s = current /\ InCondWait(current) ELSE ~ InCondWait(current)
  PROVE  SignalsAreKept'
<1>0. /\ current \in Thread /\ pc \in [Thread -> Label] /\ value \in [Sema -> Nat]
      /\ sema \in [Thread -> Sema \cup {NULL}]
      /\ Lock \cap Thread = {} /\ Semaphore \cap Thread = {} /\ Thread \subseteq Sema
  BY NamesAssumption DEF TypeInv, TypeOK, Sema
<1>me. PICK me \in Thread : me = current
  BY <1>0
<1>1. /\ \A t \in Thread \ {me} : /\ pc'[t] = pc[t] /\ sema'[t] = sema[t]
                                  /\ InCondWait(t)' = InCondWait(t)
      /\ \A t \in Sema \ {s} : value'[t] = value[t]
  BY <1>0, <1>me DEF SemaDown, Goto, InCondWait
<1>2. CASE value[s] = 0
  <2>1. value' = value /\ pc'[me] = "sema_down" /\ sema'[me] = s
    BY SMTT(20), <1>0, <1>me, <1>2 DEF SemaDown, Goto
  <2>2. s \in Thread => InCondWait(me)'
    BY <1>0, <1>me, <2>1 DEF InCondWait, SemaDown, Goto
  <2>3. s \notin Thread => ~ InCondWait(me)'
    BY <1>0, <1>me, <2>1 DEF InCondWait, SemaDown, Goto
  <2> QED BY <1>0, <1>me, <1>1, <2>1, <2>2, <2>3, SignalQuiet
<1>3. CASE value[s] > 0
  <2>1. /\ pc'[me] = Return(s) /\ value'[s] = value[s] - 1
        /\ Return(s) \in {"run", "lock_holder", "cond_acquire"}
    BY SMTT(20), <1>0, <1>me, <1>3 DEF SemaDown, Goto, Return
  <2>2. ~ InCondWait(me)'
    <3>1. pc'[me] \notin {"cond_release", "cond_down", "sema_down"}
      BY <2>1
    <3>2. pc' = [pc EXCEPT ![me] = Return(s)]
          /\ sema' = [sema EXCEPT ![me] = IF s \in Lock THEN s ELSE NULL]
      BY SMTT(20), <1>3, <1>me DEF SemaDown, Goto
    <3> QED BY <1>0, <1>me, <2>1, <3>1, <3>2 DEF InCondWait, SemaDown
  <2>3. CASE s \in Thread
    <3>1. s = me /\ value[me] # 0
      BY SMTT(20), <1>0, <1>me, <1>3, <2>3
    <3>2. \A c \in Condition : me \notin Elements(cond_waiters[c])
      BY <1>0, <1>me, <3>1 DEF SignalsAreKept
    <3>3. \A t \in Thread \ {me} : value'[t] = value[t]
      BY <1>0, <1>me, <1>1, <3>1
    <3> QED BY SMTT(20), <1>0, <1>me, <1>1, <2>2, <3>2, <3>3 DEF SignalsAreKept
  <2>4. CASE s \notin Thread
    <3>1. \A t \in Thread : value'[t] = value[t]
      BY <1>0, <1>me, <1>1, <2>4
    <3> QED BY <1>0, <1>me, <1>1, <2>2, <2>4, <3>1, SignalQuiet
  <2> QED BY <2>3, <2>4
<1> QED BY SMTT(20), <1>0, <1>me, <1>2, <1>3

\* cond_signal() and each turn of cond_broadcast(): the oldest waiter leaves the
\* list and finds its semaphore at 1.
LEMMA SignalOne ==
  ASSUME TypeInv, SignalsAreKept, NEW c \in Condition, Signal(c), pc' = pc, sema' = sema,
         cond' = cond
  PROVE  SignalsAreKept'
<1>1. PICK w \in Thread : /\ w = Head(cond_waiters[c]) /\ w \in Elements(cond_waiters[c])
                          /\ Elements(cond_waiters[c]) = Elements(Tail(cond_waiters[c])) \cup {w}
                          /\ NoDuplicates(Tail(cond_waiters[c]))
                          /\ w \notin Elements(Tail(cond_waiters[c]))
  <2>1. /\ cond_waiters[c] # <<>> /\ cond_waiters[c] \in Seq(Thread)
        /\ NoDuplicates(cond_waiters[c])
    BY DEF Signal, SignalsAreKept, TypeInv, TypeOK
  <2> QED BY <2>1, PopFrontElements
<1>2. /\ cond_waiters' = [cond_waiters EXCEPT ![c] = Tail(@)]
      /\ value' = [value EXCEPT ![w] = @ + 1]
  BY <1>1 DEF Signal, SemaUp
<1>3. InCondWait(w) /\ cond[w] = c /\ value[w] = 0
  BY <1>1 DEF SignalsAreKept
<1>4. value'[w] = 1 /\ \A t \in Thread \ {w} : value'[t] = value[t]
  BY SMTT(20), <1>2, <1>3 DEF TypeInv, TypeOK, Sema
<1>5. /\ cond_waiters'[c] = Tail(cond_waiters[c])
      /\ \A d \in Condition \ {c} : cond_waiters'[d] = cond_waiters[d]
  BY <1>2 DEF TypeInv, TypeOK
<1>6. \A t \in Thread : InCondWait(t)' = InCondWait(t)
  BY DEF InCondWait
<1> QED BY SMTT(20), <1>1, <1>3, <1>4, <1>5, <1>6 DEF SignalsAreKept

\* cond_wait(): the caller joins the list with a fresh semaphore.
LEMMA SignalWait ==
  ASSUME TypeInv, SignalsAreKept, NEW c \in Condition, cond_wait(c)
  PROVE  SignalsAreKept'
<1>0. /\ current \in Thread /\ pc \in [Thread -> Label] /\ value \in [Sema -> Nat]
      /\ sema \in [Thread -> Sema \cup {NULL}] /\ cond \in [Thread -> Condition \cup {NULL}]
      /\ cond_waiters \in [Condition -> Seq(Thread)] /\ Thread \subseteq Sema
  BY DEF TypeInv, TypeOK, Sema
<1>1. PICK me \in Thread : me = current
  BY <1>0
<1>2. /\ pc[me] = "run" /\ value' = [value EXCEPT ![me] = 0]
      /\ cond_waiters' = [cond_waiters EXCEPT ![c] = Append(@, me)]
      /\ cond' = [cond EXCEPT ![me] = c] /\ pc' = [pc EXCEPT ![me] = "cond_release"]
      /\ \A t \in Thread \ {me} : sema'[t] = sema[t]
  BY <1>0, <1>1 DEF cond_wait, At, Goto
<1>3. \A d \in Condition : me \notin Elements(cond_waiters[d])
  BY <1>2 DEF SignalsAreKept, InCondWait
<1>4. /\ Elements(cond_waiters'[c]) = Elements(cond_waiters[c]) \cup {me}
      /\ NoDuplicates(cond_waiters'[c])
  <2>1. cond_waiters[c] \in Seq(Thread) /\ NoDuplicates(cond_waiters[c])
    BY <1>0 DEF SignalsAreKept
  <2>2. cond_waiters'[c] = Append(cond_waiters[c], me)
    BY <1>0, <1>2
  <2> QED BY SMTT(20), <1>3, <2>1, <2>2, PushBackElements
<1>5. \A d \in Condition \ {c} : cond_waiters'[d] = cond_waiters[d]
  BY <1>0, <1>2
<1>6. InCondWait(me)' /\ cond'[me] = c /\ value'[me] = 0
  BY <1>0, <1>2 DEF InCondWait
<1>7. \A t \in Thread \ {me} : /\ InCondWait(t)' = InCondWait(t)
                               /\ cond'[t] = cond[t] /\ value'[t] = value[t]
  BY <1>0, <1>2 DEF InCondWait
<1> QED BY SMTT(20), <1>3, <1>4, <1>5, <1>6, <1>7 DEF SignalsAreKept

LEMMA SignalInit == Init => SignalsAreKept
<1> SUFFICES ASSUME Init PROVE SignalsAreKept
  OBVIOUS
<1>1. \A t \in Thread : ~ InCondWait(t)
  BY DEF Init, InCondWait
<1> QED BY <1>1, EmptyList DEF Init, SignalsAreKept

LEMMA SignalStep == TypeInv /\ SignalsAreKept /\ [Next]_vars => SignalsAreKept'
<1> SUFFICES ASSUME TypeInv, SignalsAreKept, [Next]_vars PROVE SignalsAreKept'
  OBVIOUS
<1> USE DEF clockVars, sleepVars, semaVars, monitorVars, callVars
<1>0. /\ pc \in [Thread -> Label] /\ value \in [Sema -> Nat]
      /\ sema \in [Thread -> Sema \cup {NULL}] /\ cond \in [Thread -> Condition \cup {NULL}]
      /\ Lock \subseteq Sema /\ Semaphore \subseteq Sema /\ Thread \subseteq Sema
      /\ IntrSemaphore \subseteq Semaphore
      /\ Semaphore \cap Thread = {} /\ Lock \cap Thread = {} /\ NULL \notin Thread
      /\ \A c \in Condition : cond_lock[c] \in Lock
  BY NamesAssumption DEF TypeInv, TypeOK, Sema
<1>1. PICK me \in Thread : me = current
  BY DEF TypeInv, TypeOK
<1>2. ASSUME \A t \in Thread \ {me} : pc'[t] = pc[t] /\ sema'[t] = sema[t] /\ cond'[t] = cond[t],
             \A t \in Thread : value'[t] = value[t],
             ~ InCondWait(me), pc'[me] \notin {"cond_release", "cond_down", "sema_down"},
             cond_waiters' = cond_waiters
      PROVE  SignalsAreKept'
  <2>1. /\ ~ InCondWait(me)'
        /\ \A t \in Thread \ {me} : InCondWait(t)' = InCondWait(t)
    BY <1>2 DEF InCondWait
  <2> QED BY <1>2, <2>1, SignalQuiet
<1>3. ASSUME pc' = pc, sema' = sema, cond' = cond, cond_waiters' = cond_waiters,
             \A t \in Thread : value'[t] = value[t]
      PROVE  SignalsAreKept'
  <2>1. \A t \in Thread : InCondWait(t)' = InCondWait(t)
    BY <1>3 DEF InCondWait
  <2> QED BY <1>3, <2>1, SignalQuiet
<1>4. CASE \/ thread_yield \/ thread_exit \/ thread_yield_at_end \/ thread_wake_up \/ intr_return
           \/ \E p \in Priority : thread_set_priority(p)
           \/ UNCHANGED vars
  BY <1>3, <1>4 DEF thread_yield, thread_exit, thread_yield_at_end, thread_wake_up,
                    intr_return, thread_set_priority, vars
<1>5. CASE \/ thread_create_unblock \/ thread_sleep \/ idle
           \/ \E p \in Priority, t \in Thread : thread_create(t, p)
           \/ \E n \in SleepTicks : timer_sleep(n)
  BY <1>0, <1>1, <1>2, <1>5 DEF thread_create_unblock, thread_sleep, idle, thread_create,
                                timer_sleep, At, Goto, InCondWait
<1>6. ASSUME LeaveHlt, UNCHANGED <<sema, cond, cond_waiters>>,
             \A t \in Thread : value'[t] = value[t]
      PROVE  SignalsAreKept'
  <2>1. CASE pc[me] = "hlt"
    BY <1>0, <1>1, <1>2, <1>6, <2>1 DEF LeaveHlt, InCondWait
  <2>2. CASE pc[me] # "hlt"
    BY <1>0, <1>1, <1>3, <1>6, <2>2 DEF LeaveHlt
  <2> QED BY <2>1, <2>2
<1>7. CASE timer_interrupt \/ \E s \in IntrSemaphore : device_interrupt(s)
  BY SMTT(20), <1>0, <1>6, <1>7 DEF timer_interrupt, device_interrupt, SemaUp
<1>8. CASE \E s \in Semaphore : sema_down(s) \/ sema_try_down(s) \/ sema_up(s)
  <2>1. CASE \E s \in Semaphore : sema_down(s)
    BY <1>0, <2>1, SignalDown DEF sema_down, At, InCondWait
  <2>2. CASE \E s \in Semaphore : sema_try_down(s) \/ sema_up(s)
    BY SMTT(20), <1>0, <1>3, <2>2 DEF sema_try_down, sema_up, SemaUp
  <2> QED BY <1>8, <2>1, <2>2
<1>9. CASE sema_down_retry
  <2>1. /\ sema[current] \in Sema /\ pc[current] = "sema_down"
        /\ sema[current] \in Thread => sema[current] = current
    BY <1>1, <1>9 DEF sema_down_retry, At, TypeInv, CallInv
  <2>2. IF sema[current] \in Thread THEN sema[current] = current /\ InCondWait(current)
                                    ELSE ~ InCondWait(current)
    BY <1>1, <2>1 DEF InCondWait
  <2> QED BY <1>9, <2>1, <2>2, SignalDown DEF sema_down_retry
<1>10. CASE cond_down
  <2>1. current \in Thread /\ pc[current] = "cond_down"
    BY <1>1, <1>10 DEF cond_down, At
  <2> QED BY <1>0, <1>10, <2>1, SignalDown DEF cond_down, InCondWait
<1>11. CASE cond_acquire
  <2>1. pc[current] = "cond_acquire" /\ cond[current] \in Condition
    BY <1>1, <1>11 DEF cond_acquire, At, TypeInv, CallInv
  <2>2. cond_lock[cond[current]] \in Sema /\ cond_lock[cond[current]] \notin Thread
    BY <1>0, <2>1
  <2> QED BY <1>11, <2>1, <2>2, SignalDown DEF cond_acquire, InCondWait
<1>12. ASSUME NEW l \in Lock, lock_acquire(l) PROVE SignalsAreKept'
  BY <1>0, <1>12, SignalDown DEF lock_acquire, At, InCondWait
<1>13. ASSUME NEW l \in Lock, lock_try_acquire(l) \/ lock_release(l) PROVE SignalsAreKept'
  BY SMTT(20), <1>0, <1>1, <1>2, <1>13 DEF lock_try_acquire, lock_release, At, Goto, InCondWait
<1>14. CASE lock_set_holder
  BY <1>0, <1>1, <1>2, <1>14 DEF lock_set_holder, At, Goto, InCondWait
<1>15. CASE lock_release_up
  <2>1. /\ sema[me] \in Lock /\ value' = [value EXCEPT ![sema[me]] = @ + 1]
        /\ UNCHANGED <<cond, cond_waiters>>
        /\ \A t \in Thread \ {me} : pc'[t] = pc[t] /\ sema'[t] = sema[t]
        /\ \/ pc[me] = "lock_release" /\ pc'[me] = "run"
           \/ pc[me] = "cond_release" /\ pc'[me] = "cond_down"
    BY SMTT(20), <1>0, <1>1, <1>15 DEF lock_release_up, SemaUp, At, Goto, TypeInv, CallInv
  <2>2. \A t \in Thread : value'[t] = value[t]
    BY <1>0, <2>1
  <2>3. \A t \in Thread : InCondWait(t)' = InCondWait(t)
    BY <2>1 DEF InCondWait
  <2> QED BY <2>1, <2>2, <2>3, SignalQuiet
<1>16. ASSUME NEW c \in Condition, cond_wait(c) \/ cond_signal(c) \/ cond_broadcast(c)
       PROVE  SignalsAreKept'
  <2>1. CASE cond_broadcast(c)
    BY <1>0, <1>1, <1>2, <2>1 DEF cond_broadcast, At, Goto, InCondWait
  <2> QED BY <1>16, <2>1, SignalOne, SignalWait DEF cond_signal
<1>17. CASE cond_broadcast_loop
  <2>1. cond[current] \in Condition /\ pc[me] = "cond_broadcast"
    BY <1>1, <1>17 DEF cond_broadcast_loop, At, TypeInv, CallInv
  <2>2. CASE Signal(cond[current]) /\ UNCHANGED <<pc, cond>>
    BY <1>17, <2>1, <2>2, SignalOne DEF cond_broadcast_loop
  <2>3. CASE /\ Goto("run") /\ cond' = [cond EXCEPT ![current] = NULL]
             /\ UNCHANGED <<cpuVars, semaVars, cond_waiters, yielding>>
    BY <1>0, <1>1, <1>2, <1>17, <2>1, <2>3 DEF cond_broadcast_loop, Goto, InCondWait
  <2> QED BY <1>17, <2>2, <2>3 DEF cond_broadcast_loop
<1> QED BY <1>4, <1>5, <1>7, <1>8, <1>9, <1>10, <1>11, <1>12, <1>13, <1>14, <1>15, <1>16,
           <1>17 DEF Next, Interrupt, Continue, Call

\* cond_signal() and cond_broadcast() lose no signal and give none twice, even
\* to a waiter that has released the lock and not yet blocked.
THEOREM NoLostSignal == Spec => []SignalsAreKept
  BY TypeInit, TypeStep, SignalInit, SignalStep, PTL DEF Spec
-----------------------------------------------------------------------------
(***************************************************************************)
(* Monitors: the refinement of module Monitor, step by step.  A lock's     *)
(* owner changes at the step on its semaphore, not at the step on its      *)
(* holder field, and a thread begins to wait at the sema_up() inside       *)
(* cond_wait(), not when it joins the list.  CondInv says what a thread in *)
(* the middle of a condition's operation counts on.                        *)
(***************************************************************************)

\* cond names a condition only inside the condition's operations; a thread that
\* has joined the list still has the lock and no signal; the thread that
\* broadcasts has the lock; a waiter downs its own semaphore and then the lock's.
CondSite(t) ==
  /\ cond[t] # NULL => pc[t] \in {"cond_release", "cond_down", "cond_acquire",
                                  "cond_broadcast", "sema_down", "lock_holder"}
  /\ pc[t] = "cond_release" => sema[t] = cond_lock[cond[t]] /\ value[t] = 0
  /\ pc[t] = "cond_broadcast" => holder[cond_lock[cond[t]]] = t
  /\ pc[t] = "sema_down" /\ cond[t] # NULL => sema[t] \in {t, cond_lock[cond[t]]}

CondInv == \A t \in Thread : CondSite(t)

MonitorInv == TypeInv /\ MutexInv /\ SignalsAreKept /\ CondInv

\* A step of Monitor or a stutter.
MonitorStep == [Monitors!Next]_(Monitors!vars)
-----------------------------------------------------------------------------
(***************************************************************************)
(* The mapping.                                                            *)
(***************************************************************************)

\* Owner(L) is the one element of Owners(L).
LEMMA OwnerFacts ==
  ASSUME NEW l
  PROVE  /\ Owners(l) = {} => Owner(l) = NULL
         /\ \A t \in Thread : Owners(l) = {t} => Owner(l) = t
         /\ Owners(l)' = {} => Owner(l)' = NULL
         /\ \A t \in Thread : Owners(l)' = {t} => Owner(l)' = t
         /\ Owners(l)' = Owners(l) => Owner(l)' = Owner(l)
<1> DEFINE Chosen(S) == IF S = {} THEN NULL ELSE CHOOSE t \in Thread : t \in S
<1>1. Owner(l) = Chosen(Owners(l)) /\ Owner(l)' = Chosen(Owners(l)')
  BY DEF Owner
<1>2. ASSUME NEW t \in Thread PROVE Chosen({t}) = t
  OBVIOUS
<1>3. Chosen({}) = NULL
  OBVIOUS
<1> HIDE DEF Chosen
<1> QED BY <1>1, <1>2, <1>3

\* The owner of a lock does not change when its holder does not, and no thread
\* enters or leaves the two steps of a lock operation.
LEMMA OwnerSame ==
  ASSUME NEW l \in Lock, holder'[l] = holder[l],
         \A t \in Thread : \/ pc'[t] = pc[t] /\ sema'[t] = sema[t]
                           \/ pc[t] \notin Between /\ pc'[t] \notin Between
  PROVE  Owner(l)' = Owner(l)
<1>1. Owners(l)' = Owners(l)
  BY DEF Owners, Between
<1> QED BY <1>1, OwnerFacts

\* T is not between joining a condition's list and taking the lock again.
Apart(t) ==
  /\ pc[t] \notin {"cond_release", "cond_down", "cond_acquire"}
  /\ pc[t] = "sema_down" => sema[t] # t /\ cond[t] = NULL

\* The waiters of C are the same, when the list is and no thread begins or ends
\* to wait.
LEMMA WaitersSame ==
  ASSUME TypeInv, NEW c \in Condition, cond_waiters'[c] = cond_waiters[c],
         \A t \in Thread : \/ pc'[t] = pc[t] /\ sema'[t] = sema[t] /\ cond'[t] = cond[t]
                           \/ Apart(t) /\ Apart(t)'
  PROVE  WaitingFor(c)' = WaitingFor(c) /\ WokenFrom(c)' = WokenFrom(c)
<1>1. Elements(cond_waiters[c]) \subseteq Thread
  BY EmptyElements DEF TypeInv, TypeOK
<1>2. \A t \in Thread : pc'[t] = "cond_release" <=> pc[t] = "cond_release"
  BY DEF Apart
<1>3. WaitingFor(c)' = WaitingFor(c)
  BY <1>1, <1>2 DEF WaitingFor
<1>4. ASSUME NEW t \in Thread PROVE (t \in WokenFrom(c))' <=> t \in WokenFrom(c)
  <2>1. CASE pc'[t] = pc[t] /\ sema'[t] = sema[t] /\ cond'[t] = cond[t]
    BY <2>1 DEF WokenFrom, InCondWait
  <2>2. CASE Apart(t) /\ Apart(t)'
    BY <2>2, NamesAssumption DEF WokenFrom, InCondWait, Apart, Sema
  <2> QED BY <2>1, <2>2
<1>5. WokenFrom(c)' \subseteq Thread /\ WokenFrom(c) \subseteq Thread
  BY DEF WokenFrom
<1>6. WokenFrom(c)' = WokenFrom(c)
  BY <1>4, <1>5
<1> QED BY <1>3, <1>6

\* Each action of Monitor, from what it does to one lock or one condition.
LEMMA MapStutter ==
  ASSUME \A l \in Lock : Owner(l)' = Owner(l),
         \A c \in Condition : WaitingFor(c)' = WaitingFor(c) /\ WokenFrom(c)' = WokenFrom(c)
  PROVE  MonitorStep
  BY DEF MonitorStep, Monitors!vars

\* ... a free lock gets an owner ...
LEMMA MapAcquire ==
  ASSUME NEW t \in Thread, NEW l \in Lock, Owner(l) = NULL, Owner(l)' = t,
         \A k \in Lock \ {l} : Owner(k)' = Owner(k),
         \A c \in Condition : WaitingFor(c)' = WaitingFor(c) /\ WokenFrom(c)' = WokenFrom(c)
  PROVE  MonitorStep
<1>1. [k \in Lock |-> Owner(k)'] = [[k \in Lock |-> Owner(k)] EXCEPT ![l] = t]
  OBVIOUS
<1>2. Monitors!Acquire(t, l)
  BY <1>1 DEF Monitors!Acquire
<1> QED BY <1>2 DEF MonitorStep, Monitors!Next

\* ... an owner gives the lock up ...
LEMMA MapRelease ==
  ASSUME NEW t \in Thread, NEW l \in Lock, Owner(l) = t, Owner(l)' = NULL,
         \A k \in Lock \ {l} : Owner(k)' = Owner(k),
         \A c \in Condition : WaitingFor(c)' = WaitingFor(c) /\ WokenFrom(c)' = WokenFrom(c)
  PROVE  MonitorStep
<1>1. [k \in Lock |-> Owner(k)'] = [[k \in Lock |-> Owner(k)] EXCEPT ![l] = NULL]
  OBVIOUS
<1>2. Monitors!Release(t, l)
  BY <1>1 DEF Monitors!Release
<1> QED BY <1>2 DEF MonitorStep, Monitors!Next

\* ... an owner gives the condition's lock up and waits ...
LEMMA MapWait ==
  ASSUME NEW t \in Thread, NEW c \in Condition, NEW l \in Lock, l = cond_lock[c],
         Owner(l) = t, Owner(l)' = NULL,
         \A k \in Lock \ {l} : Owner(k)' = Owner(k),
         WaitingFor(c)' = WaitingFor(c) \cup {t},
         \A d \in Condition \ {c} : WaitingFor(d)' = WaitingFor(d),
         \A d \in Condition : WokenFrom(d)' = WokenFrom(d)
  PROVE  MonitorStep
<1>1. [k \in Lock |-> Owner(k)'] = [[k \in Lock |-> Owner(k)] EXCEPT ![l] = NULL]
  OBVIOUS
<1>2. [d \in Condition |-> WaitingFor(d)']
        = [[d \in Condition |-> WaitingFor(d)] EXCEPT ![c] = @ \cup {t}]
  OBVIOUS
<1>3. Monitors!Wait(t, c)
  BY <1>1, <1>2 DEF Monitors!Wait
<1> QED BY <1>3 DEF MonitorStep, Monitors!Next

\* ... the owner of the condition's lock wakes a waiter ...
LEMMA MapSignal ==
  ASSUME NEW t \in Thread, NEW c \in Condition, cond_lock[c] \in Lock,
         Owner(cond_lock[c]) = t,
         \A k \in Lock : Owner(k)' = Owner(k),
         NEW w \in WaitingFor(c),
         WaitingFor(c)' = WaitingFor(c) \ {w}, WokenFrom(c)' = WokenFrom(c) \cup {w},
         \A d \in Condition \ {c} : WaitingFor(d)' = WaitingFor(d) /\ WokenFrom(d)' = WokenFrom(d)
  PROVE  MonitorStep
<1>1. /\ [k \in Lock |-> Owner(k)'] = [k \in Lock |-> Owner(k)]
      /\ [d \in Condition |-> WaitingFor(d)']
           = [[d \in Condition |-> WaitingFor(d)] EXCEPT ![c] = @ \ {w}]
      /\ [d \in Condition |-> WokenFrom(d)']
           = [[d \in Condition |-> WokenFrom(d)] EXCEPT ![c] = @ \cup {w}]
  OBVIOUS
<1>2. Monitors!Signal(t, c)
  BY <1>1 DEF Monitors!Signal
<1> QED BY <1>2 DEF MonitorStep, Monitors!Next

\* ... and a woken waiter takes the free lock.
LEMMA MapReacquire ==
  ASSUME NEW t \in Thread, NEW c \in Condition, NEW l \in Lock, l = cond_lock[c],
         Owner(l) = NULL, Owner(l)' = t,
         \A k \in Lock \ {l} : Owner(k)' = Owner(k),
         t \in WokenFrom(c), WokenFrom(c)' = WokenFrom(c) \ {t},
         \A d \in Condition \ {c} : WokenFrom(d)' = WokenFrom(d),
         \A d \in Condition : WaitingFor(d)' = WaitingFor(d)
  PROVE  MonitorStep
<1>1. [k \in Lock |-> Owner(k)'] = [[k \in Lock |-> Owner(k)] EXCEPT ![l] = t]
  OBVIOUS
<1>2. [d \in Condition |-> WokenFrom(d)']
        = [[d \in Condition |-> WokenFrom(d)] EXCEPT ![c] = @ \ {t}]
  OBVIOUS
<1>3. Monitors!Reacquire(t, c)
  BY <1>1, <1>2 DEF Monitors!Reacquire
<1> QED BY <1>3 DEF MonitorStep, Monitors!Next
-----------------------------------------------------------------------------
(***************************************************************************)
(* The steps.                                                              *)
(***************************************************************************)

\* The facts of MonitorInv that every step uses.
LEMMA MonitorFacts ==
  ASSUME MonitorInv
  PROVE  /\ TypeInv /\ MutexInv /\ SignalsAreKept /\ CondInv
         /\ current \in Thread /\ pc \in [Thread -> Label] /\ value \in [Sema -> Nat]
         /\ sema \in [Thread -> Sema \cup {NULL}] /\ holder \in [Lock -> Thread \cup {NULL}]
         /\ cond \in [Thread -> Condition \cup {NULL}]
         /\ cond_waiters \in [Condition -> Seq(Thread)]
         /\ Lock \subseteq Sema /\ Semaphore \subseteq Sema /\ Thread \subseteq Sema
         /\ IntrSemaphore \subseteq Semaphore
         /\ Lock \cap Semaphore = {} /\ Lock \cap Thread = {} /\ Semaphore \cap Thread = {}
         /\ NULL \notin Thread /\ NULL \notin Lock /\ NULL \notin Condition
         /\ \A c \in Condition : cond_lock[c] \in Lock
  BY NamesAssumption DEF MonitorInv, TypeInv, TypeOK, Sema

\* A thread that a step leaves alone.
Unmoved(t) ==
  /\ pc'[t] = pc[t] /\ sema'[t] = sema[t] /\ cond'[t] = cond[t]
  /\ pc[t] = "cond_release" => value'[t] = value[t]

\* CondInv is kept by a step that leaves the holders and the other threads alone.
LEMMA CondKept ==
  ASSUME CondInv, holder' = holder, \A t \in Thread : Unmoved(t) \/ CondSite(t)'
  PROVE  CondInv'
<1> SUFFICES ASSUME NEW t \in Thread, Unmoved(t) PROVE CondSite(t)'
  BY DEF CondInv
<1>1. CondSite(t)
  BY DEF CondInv
<1> QED BY <1>1 DEF CondSite, Unmoved

\* A step outside of all locks and conditions.
LEMMA MonitorQuiet ==
  ASSUME MonitorInv, holder' = holder, cond_waiters' = cond_waiters,
         \A t \in Thread : \/ Unmoved(t)
                           \/ /\ Apart(t) /\ pc[t] \notin Between
                              /\ Apart(t)' /\ pc'[t] \notin Between /\ CondSite(t)'
  PROVE  CondInv' /\ MonitorStep
<1>1. CondInv'
  BY CondKept, MonitorFacts
<1>2. \A l \in Lock : Owner(l)' = Owner(l)
  BY OwnerSame DEF Unmoved
<1>3. \A c \in Condition : WaitingFor(c)' = WaitingFor(c) /\ WokenFrom(c)' = WokenFrom(c)
  BY MonitorFacts, WaitersSame DEF Unmoved
<1> QED BY <1>1, <1>2, <1>3, MapStutter

\* The semaphore of a free lock is taken by a thread outside of cond_wait():
\* Acquire.
LEMMA MonitorTake ==
  ASSUME MonitorInv, NEW l \in Lock, value[l] > 0,
         value' = [value EXCEPT ![l] = @ - 1], holder' = holder,
         pc' = [pc EXCEPT ![current] = "lock_holder"],
         sema' = [sema EXCEPT ![current] = l], cond' = cond, cond_waiters' = cond_waiters,
         pc[current] \notin Between
  PROVE  /\ CondInv'
         /\ Owner(l) = NULL /\ Owner(l)' = current
         /\ \A k \in Lock \ {l} : Owner(k)' = Owner(k)
         /\ \A t \in Thread \ {current} : Unmoved(t)
         /\ pc'[current] = "lock_holder"
<1>0. PICK me \in Thread : me = current
  BY MonitorFacts
<1>1. /\ \A t \in Thread : /\ pc'[t] = IF t = me THEN "lock_holder" ELSE pc[t]
                           /\ sema'[t] = IF t = me THEN l ELSE sema[t]
      /\ \A t \in Thread : value'[t] = value[t]
  BY <1>0, MonitorFacts
<1>2. value[l] # 0
  BY SMTT(20), MonitorFacts
<1>3. Owners(l) = {}
  BY <1>2, MonitorFacts DEF MutexInv, MutualExclusion
<1>4. Owners(l)' = {me}
  <2>1. \A t \in Thread : holder[l] # t /\ ~ (pc[t] \in Between /\ sema[t] = l)
    BY <1>3 DEF Owners, Between
  <2>2. \A t \in Thread : (t \in Owners(l))' <=> t = me
    BY <1>1, <2>1 DEF Owners, Between
  <2> QED BY <2>2 DEF Owners
<1>5. \A k \in Lock \ {l} : Owners(k)' = Owners(k)
  <2>1. ASSUME NEW k \in Lock \ {l}, NEW t \in Thread
        PROVE  (t \in Owners(k))' <=> t \in Owners(k)
    BY <1>0, <1>1, <2>1 DEF Owners, Between
  <2> QED BY <2>1 DEF Owners
<1>6. \A t \in Thread \ {current} : Unmoved(t)
  BY <1>0, <1>1 DEF Unmoved
<1>7. CondSite(me)'
  <2>1. pc'[me] = "lock_holder"
    BY <1>1
  <2> QED BY <2>1 DEF CondSite
<1> QED BY <1>0, <1>1, <1>3, <1>4, <1>5, <1>6, <1>7, CondKept, MonitorFacts, OwnerFacts

\* One turn of sema_down() on a semaphore, or on a lock outside of cond_wait().
LEMMA MonitorDown ==
  ASSUME MonitorInv, NEW s \in Semaphore \cup Lock, SemaDown(s), holder' = holder,
         cond' = cond, cond_waiters' = cond_waiters,
         pc[current] \in {"run", "sema_down"}, cond[current] = NULL,
         pc[current] = "sema_down" => sema[current] # current
  PROVE  CondInv' /\ MonitorStep
<1>0. PICK me \in Thread : me = current
  BY MonitorFacts
<1>1. Apart(me) /\ pc[me] \notin Between
  BY <1>0 DEF Apart, Between
<1>2. CASE value[s] = 0
  <2>1. /\ value' = value
        /\ \A t \in Thread : /\ pc'[t] = IF t = me THEN "sema_down" ELSE pc[t]
                             /\ sema'[t] = IF t = me THEN s ELSE sema[t]
    <3>1. /\ value' = value /\ pc' = [pc EXCEPT ![current] = "sema_down"]
          /\ sema' = [sema EXCEPT ![current] = s]
      BY SMTT(20), <1>2 DEF SemaDown, Goto
    <3> QED BY <1>0, <3>1, MonitorFacts
  <2>2. /\ Apart(me)' /\ pc'[me] \notin Between /\ CondSite(me)'
        /\ \A t \in Thread \ {me} : Unmoved(t)
    BY <1>0, <2>1, MonitorFacts DEF Apart, Between, CondSite, Unmoved
  <2> QED BY <1>1, <2>2, MonitorQuiet
<1>3. CASE value[s] > 0
  <2>0. /\ value' = [value EXCEPT ![s] = @ - 1]
        /\ pc' = [pc EXCEPT ![current] = Return(s)]
        /\ sema' = [sema EXCEPT ![current] = IF s \in Lock THEN s ELSE NULL]
    BY SMTT(20), <1>3 DEF SemaDown, Goto
  <2>1. CASE s \in Lock
    <3>1. Return(s) = "lock_holder"
      BY <2>1, MonitorFacts DEF Return
    <3>2. /\ CondInv' /\ Owner(s) = NULL /\ Owner(s)' = current
          /\ \A k \in Lock \ {s} : Owner(k)' = Owner(k)
          /\ \A t \in Thread \ {current} : Unmoved(t)
          /\ pc'[current] = "lock_holder"
      BY <1>0, <1>1, <1>3, <2>0, <2>1, <3>1, MonitorTake
    <3>3. \A c \in Condition : WaitingFor(c)' = WaitingFor(c) /\ WokenFrom(c)' = WokenFrom(c)
      <4>1. Apart(me)'
        BY <1>0, <3>2 DEF Apart
      <4> QED BY <1>0, <1>1, <3>2, <4>1, MonitorFacts, WaitersSame DEF Unmoved
    <3> QED BY <1>0, <2>1, <3>2, <3>3, MapAcquire
  <2>2. CASE s \in Semaphore
    <3>1. /\ \A t \in Thread : /\ pc'[t] = IF t = me THEN "run" ELSE pc[t]
                               /\ sema'[t] = IF t = me THEN NULL ELSE sema[t]
          /\ \A t \in Thread : value'[t] = value[t]
      BY <1>0, <2>0, <2>2, MonitorFacts DEF Return
    <3>2. /\ Apart(me)' /\ pc'[me] \notin Between /\ CondSite(me)'
          /\ \A t \in Thread \ {me} : Unmoved(t)
      BY <1>0, <3>1, MonitorFacts DEF Apart, Between, CondSite, Unmoved
    <3> QED BY <1>1, <3>2, MonitorQuiet
  <2> QED BY <2>1, <2>2
<1>4. value[s] = 0 \/ value[s] > 0
  BY SMTT(20), MonitorFacts
<1> QED BY <1>2, <1>3, <1>4

\* One turn of the sema_down() by which a woken waiter takes the lock again:
\* Reacquire.
LEMMA MonitorRetake ==
  ASSUME MonitorInv, NEW c \in Condition, c = cond[current], NEW l \in Lock, l = cond_lock[c],
         SemaDown(l), holder' = holder, cond' = cond, cond_waiters' = cond_waiters,
         \/ pc[current] = "cond_acquire"
         \/ pc[current] = "sema_down" /\ sema[current] = l
  PROVE  CondInv' /\ MonitorStep
<1>0. PICK me \in Thread : me = current
  BY MonitorFacts
<1>1. /\ cond[me] = c /\ pc[me] \notin Between /\ pc[me] # "cond_release"
      /\ ~ InCondWait(me) /\ l # me /\ c # NULL /\ l # NULL
      /\ \A d \in Condition : me \notin Elements(cond_waiters[d])
      /\ \A d \in Condition : Elements(cond_waiters[d]) \subseteq Thread
  <2>1. l # me /\ c # NULL /\ l # NULL
    BY MonitorFacts
  <2>2. ~ InCondWait(me) /\ pc[me] \notin Between /\ pc[me] # "cond_release"
    BY <1>0, <2>1 DEF InCondWait, Between
  <2>3. \A d \in Condition : me \notin Elements(cond_waiters[d])
    BY <2>2, MonitorFacts DEF SignalsAreKept
  <2>4. \A d \in Condition : Elements(cond_waiters[d]) \subseteq Thread
    BY MonitorFacts, EmptyElements
  <2> QED BY <1>0, <2>1, <2>2, <2>3, <2>4
<1>2. me \in WokenFrom(c) /\ \A d \in Condition \ {c} : me \notin WokenFrom(d)
  BY <1>0, <1>1 DEF WokenFrom
<1>3. ASSUME \A t \in Thread \ {me} : Unmoved(t)
      PROVE  /\ \A d \in Condition : /\ WaitingFor(d)' = WaitingFor(d)
                                     /\ \A t \in Thread \ {me} :
                                          (t \in WokenFrom(d))' <=> t \in WokenFrom(d)
                                     /\ WokenFrom(d) \subseteq Thread
                                     /\ WokenFrom(d)' \subseteq Thread
             /\ cond'[me] = c
  BY <1>0, <1>1, <1>3 DEF Unmoved, WaitingFor, WokenFrom, InCondWait
<1>4. CASE value[l] = 0
  <2>1. /\ value' = value
        /\ \A t \in Thread : /\ pc'[t] = IF t = me THEN "sema_down" ELSE pc[t]
                             /\ sema'[t] = IF t = me THEN l ELSE sema[t]
    <3>1. /\ value' = value /\ pc' = [pc EXCEPT ![current] = "sema_down"]
          /\ sema' = [sema EXCEPT ![current] = l]
      BY SMTT(20), <1>4 DEF SemaDown, Goto
    <3> QED BY <1>0, <3>1, MonitorFacts
  <2>2. CondSite(me)' /\ \A t \in Thread \ {me} : Unmoved(t)
    BY <1>1, <2>1 DEF CondSite, Unmoved
  <2>3. CondInv'
    BY <2>2, MonitorFacts, CondKept
  <2>4. /\ (me \in WokenFrom(c))'
        /\ \A d \in Condition \ {c} : (me \notin WokenFrom(d))'
    BY <1>1, <2>1 DEF WokenFrom, InCondWait
  <2>5. \A d \in Condition : WaitingFor(d)' = WaitingFor(d) /\ WokenFrom(d)' = WokenFrom(d)
    <3> SUFFICES ASSUME NEW d \in Condition
                 PROVE  WaitingFor(d)' = WaitingFor(d) /\ WokenFrom(d)' = WokenFrom(d)
      OBVIOUS
    <3>1. (me \in WokenFrom(d))' <=> me \in WokenFrom(d)
      BY <1>2, <2>4
    <3>2. \A t \in Thread : (t \in WokenFrom(d))' <=> t \in WokenFrom(d)
      BY <1>3, <2>2, <3>1
    <3>3. WaitingFor(d)' = WaitingFor(d)
      BY <1>3, <2>2
    <3>4. WokenFrom(d) \subseteq Thread /\ WokenFrom(d)' \subseteq Thread
      BY DEF WokenFrom
    <3> QED BY <3>2, <3>3, <3>4
  <2>6. \A k \in Lock : Owner(k)' = Owner(k)
    BY <1>1, <2>1, OwnerSame DEF Between
  <2> QED BY <2>3, <2>5, <2>6, MapStutter
<1>5. CASE value[l] > 0
  <2>0. /\ value' = [value EXCEPT ![l] = @ - 1]
        /\ pc' = [pc EXCEPT ![current] = Return(l)]
        /\ sema' = [sema EXCEPT ![current] = l]
    BY SMTT(20), <1>5 DEF SemaDown, Goto
  <2>1. Return(l) = "lock_holder"
    BY MonitorFacts DEF Return
  <2>2. /\ CondInv' /\ Owner(l) = NULL /\ Owner(l)' = current
        /\ \A k \in Lock \ {l} : Owner(k)' = Owner(k)
        /\ \A t \in Thread \ {current} : Unmoved(t)
        /\ pc'[current] = "lock_holder"
    BY <1>0, <1>1, <1>5, <2>0, <2>1, MonitorTake
  <2>3. \A d \in Condition : (me \notin WokenFrom(d))'
    BY <1>0, <2>2 DEF WokenFrom, InCondWait
  <2>4. /\ WokenFrom(c)' = WokenFrom(c) \ {me}
        /\ \A d \in Condition \ {c} : WokenFrom(d)' = WokenFrom(d)
        /\ \A d \in Condition : WaitingFor(d)' = WaitingFor(d)
    <3>1. \A t \in Thread \ {me} : Unmoved(t)
      BY <1>0, <2>2
    <3>2. WokenFrom(c)' = WokenFrom(c) \ {me}
      BY <1>3, <2>3, <3>1
    <3>3. \A d \in Condition \ {c} : WokenFrom(d)' = WokenFrom(d)
      <4> SUFFICES ASSUME NEW d \in Condition \ {c} PROVE WokenFrom(d)' = WokenFrom(d)
        OBVIOUS
      <4>1. \A t \in Thread : (t \in WokenFrom(d))' <=> t \in WokenFrom(d)
        BY <1>2, <1>3, <2>3, <3>1
      <4>2. WokenFrom(d) \subseteq Thread /\ WokenFrom(d)' \subseteq Thread
        BY DEF WokenFrom
      <4> QED BY <4>1, <4>2
    <3> QED BY <1>3, <3>1, <3>2, <3>3
  <2> QED BY <1>0, <1>2, <2>2, <2>4, MapReacquire
<1>6. value[l] = 0 \/ value[l] > 0
  BY SMTT(20), MonitorFacts
<1> QED BY <1>4, <1>5, <1>6

\* One turn of a waiter's sema_down() on its own semaphore: the monitor does not
\* see it, since the waiter was woken when it was signalled.
LEMMA MonitorOwn ==
  ASSUME MonitorInv, SemaDown(current), holder' = holder,
         cond' = cond, cond_waiters' = cond_waiters, cond[current] \in Condition,
         \/ pc[current] = "cond_down"
         \/ pc[current] = "sema_down" /\ sema[current] = current
  PROVE  CondInv' /\ MonitorStep
<1>0. PICK me \in Thread : me = current
  BY MonitorFacts
<1>1. /\ InCondWait(me) /\ pc[me] \notin Between /\ pc[me] # "cond_acquire"
      /\ pc[me] = "sema_down" => sema[me] = me
      /\ \A d \in Condition : me # cond_lock[d]
  BY <1>0, MonitorFacts DEF InCondWait, Between
<1>2. ASSUME \A t \in Thread \ {me} : Unmoved(t), CondSite(me)', pc'[me] \notin Between,
             \A d \in Condition : (me \in WokenFrom(d))' <=> me \in WokenFrom(d)
      PROVE  CondInv' /\ MonitorStep
  <2>1. CondInv'
    BY <1>2, MonitorFacts, CondKept
  <2>2. \A k \in Lock : Owner(k)' = Owner(k)
    BY <1>1, <1>2, OwnerSame DEF Unmoved
  <2>3. ASSUME NEW d \in Condition
        PROVE  WaitingFor(d)' = WaitingFor(d) /\ WokenFrom(d)' = WokenFrom(d)
    <3>1. Elements(cond_waiters[d]) \subseteq Thread
      BY MonitorFacts, EmptyElements
    <3>2. \A t \in Thread : pc'[t] = "cond_release" <=> pc[t] = "cond_release"
      BY <1>1, <1>2 DEF Unmoved, Between
    <3>3. WaitingFor(d)' = WaitingFor(d)
      BY <3>1, <3>2 DEF WaitingFor
    <3>4. ASSUME NEW t \in Thread PROVE (t \in WokenFrom(d))' <=> t \in WokenFrom(d)
      BY <1>2 DEF Unmoved, WokenFrom, InCondWait
    <3>5. WokenFrom(d) \subseteq Thread /\ WokenFrom(d)' \subseteq Thread
      BY DEF WokenFrom
    <3> QED BY <3>3, <3>4, <3>5
  <2> QED BY <2>1, <2>2, <2>3, MapStutter
<1>3. CASE value[current] = 0
  <2>1. /\ value' = value
        /\ \A t \in Thread : /\ pc'[t] = IF t = me THEN "sema_down" ELSE pc[t]
                             /\ sema'[t] = IF t = me THEN me ELSE sema[t]
    <3>1. /\ value' = value /\ pc' = [pc EXCEPT ![current] = "sema_down"]
          /\ sema' = [sema EXCEPT ![current] = current]
      BY SMTT(20), <1>3 DEF SemaDown, Goto
    <3> QED BY <1>0, <3>1, MonitorFacts
  <2>2. CondSite(me)' /\ pc'[me] \notin Between /\ \A t \in Thread \ {me} : Unmoved(t)
    BY <2>1 DEF CondSite, Unmoved, Between
  <2>3. pc'[me] = "sema_down" /\ sema'[me] = me
    BY <2>1
  <2>4. \A d \in Condition : (me \in WokenFrom(d))' <=> me \in WokenFrom(d)
    BY <1>1, <2>3 DEF WokenFrom, InCondWait
  <2> QED BY <1>2, <2>2, <2>4
<1>4. CASE value[current] > 0
  <2>0. /\ value' = [value EXCEPT ![current] = @ - 1]
        /\ pc' = [pc EXCEPT ![current] = Return(current)]
        /\ sema' = [sema EXCEPT ![current] = IF current \in Lock THEN current ELSE NULL]
    BY SMTT(20), <1>4 DEF SemaDown, Goto
  <2>1. \A t \in Thread : /\ pc'[t] = IF t = me THEN "cond_acquire" ELSE pc[t]
                          /\ sema'[t] = IF t = me THEN NULL ELSE sema[t]
                          /\ t # me => value'[t] = value[t]
    <3>1. Return(current) = "cond_acquire" /\ current \notin Lock
      BY <1>0, MonitorFacts DEF Return
    <3> QED BY <1>0, <2>0, <3>1, MonitorFacts
  <2>2. CondSite(me)' /\ pc'[me] \notin Between /\ \A t \in Thread \ {me} : Unmoved(t)
    BY <2>1 DEF CondSite, Unmoved, Between
  <2>3. value[me] # 0
    BY SMTT(20), <1>0, <1>4, MonitorFacts
  <2>4. \A d \in Condition : me \notin Elements(cond_waiters[d])
    BY <2>3, MonitorFacts DEF SignalsAreKept
  <2>5. pc'[me] = "cond_acquire"
    BY <2>1
  <2>6. \A d \in Condition : (me \in WokenFrom(d))' <=> me \in WokenFrom(d)
    BY <1>1, <2>4, <2>5 DEF WokenFrom, InCondWait
  <2> QED BY <1>2, <2>2, <2>6
<1>5. value[current] = 0 \/ value[current] > 0
  BY SMTT(20), <1>0, MonitorFacts
<1> QED BY <1>3, <1>4, <1>5

\* The steps on a lock's holder field: nobody else counts on the field, and the
\* owner stays the same.
LEMMA MonitorHolder ==
  ASSUME MonitorInv, NEW me \in Thread, NEW l \in Lock, NEW h \in {NULL, me},
         holder' = [holder EXCEPT ![l] = h], holder[l] \in {NULL, me},
         \A t \in Thread \ {me} : Unmoved(t), CondSite(me)',
         \A k \in Lock : (me \in Owners(k))' <=> me \in Owners(k),
         \A c \in Condition : WaitingFor(c)' = WaitingFor(c) /\ WokenFrom(c)' = WokenFrom(c)
  PROVE  CondInv' /\ MonitorStep
<1>1. /\ holder'[l] = h /\ \A k \in Lock \ {l} : holder'[k] = holder[k]
      /\ \A t \in Thread \ {me} : holder[l] # t /\ holder'[l] # t
  BY MonitorFacts
<1>2. ASSUME NEW t \in Thread PROVE CondSite(t)'
  <2>1. CASE t = me
    BY <2>1
  <2>2. CASE t # me
    <3>1. Unmoved(t) /\ CondSite(t)
      BY <2>2, MonitorFacts DEF CondInv
    <3>2. pc[t] = "cond_broadcast" => cond_lock[cond[t]] \in Lock
      BY MonitorFacts DEF TypeInv, CallInv
    <3>3. pc[t] = "cond_broadcast" => holder'[cond_lock[cond[t]]] = t
      BY <1>1, <2>2, <3>1, <3>2 DEF CondSite
    <3> QED BY <3>1, <3>3 DEF CondSite, Unmoved
  <2> QED BY <2>1, <2>2
<1>3. ASSUME NEW k \in Lock PROVE Owner(k)' = Owner(k)
  <2>1. ASSUME NEW t \in Thread \ {me} PROVE (t \in Owners(k))' <=> t \in Owners(k)
    <3>1. holder'[k] = t <=> holder[k] = t
      BY <1>1
    <3>2. pc'[t] = pc[t] /\ sema'[t] = sema[t]
      BY DEF Unmoved
    <3> QED BY <3>1, <3>2 DEF Owners
  <2>2. \A t \in Thread : (t \in Owners(k))' <=> t \in Owners(k)
    BY <2>1
  <2>3. Owners(k) \subseteq Thread /\ Owners(k)' \subseteq Thread
    BY DEF Owners
  <2>4. Owners(k)' = Owners(k)
    BY <2>2, <2>3
  <2> QED BY <2>4, OwnerFacts
<1> QED BY <1>2, <1>3, MapStutter DEF CondInv

\* lock_acquire() sets the holder: its caller was the owner already.
LEMMA MonitorSetHolder ==
  ASSUME MonitorInv, lock_set_holder
  PROVE  CondInv' /\ MonitorStep
<1>0. PICK me \in Thread : me = current
  BY MonitorFacts
<1>1. /\ pc[me] = "lock_holder" /\ holder' = [holder EXCEPT ![sema[me]] = me]
      /\ sema' = [sema EXCEPT ![me] = NULL] /\ cond' = [cond EXCEPT ![me] = NULL]
      /\ pc' = [pc EXCEPT ![me] = "run"] /\ value' = value /\ cond_waiters' = cond_waiters
  BY <1>0 DEF lock_set_holder, At, Goto, semaVars
<1>2. PICK l \in Lock : l = sema[me]
  BY <1>1, MonitorFacts DEF TypeInv, CallInv
<1>3. holder[l] = NULL
  BY <1>1, <1>2, MonitorFacts DEF MutexInv, Between
<1>4. /\ pc'[me] = "run" /\ cond'[me] = NULL
      /\ holder'[l] = me /\ \A k \in Lock \ {l} : holder'[k] = holder[k]
      /\ \A t \in Thread \ {me} : Unmoved(t)
  BY <1>1, <1>2, MonitorFacts DEF Unmoved
<1>5. CondSite(me)' /\ Apart(me) /\ Apart(me)'
  BY <1>1, <1>4 DEF CondSite, Apart
<1>6. \A k \in Lock : (me \in Owners(k))' <=> me \in Owners(k)
  BY <1>1, <1>2, <1>4 DEF Owners
<1>7. \A c \in Condition : WaitingFor(c)' = WaitingFor(c) /\ WokenFrom(c)' = WokenFrom(c)
  <2>1. \A t \in Thread : \/ pc'[t] = pc[t] /\ sema'[t] = sema[t] /\ cond'[t] = cond[t]
                          \/ Apart(t) /\ Apart(t)'
    BY <1>4, <1>5 DEF Unmoved
  <2>2. TypeInv /\ cond_waiters' = cond_waiters
    BY <1>1, MonitorFacts
  <2> QED BY <2>1, <2>2, WaitersSame
<1> QED BY <1>1, <1>2, <1>3, <1>4, <1>5, <1>6, <1>7, MonitorHolder

\* lock_release() clears the holder: its caller is still the owner.
LEMMA MonitorLockRelease ==
  ASSUME MonitorInv, NEW l \in Lock, lock_release(l)
  PROVE  CondInv' /\ MonitorStep
<1>0. PICK me \in Thread : me = current
  BY MonitorFacts
<1>1. /\ pc[me] = "run" /\ holder[l] = me /\ holder' = [holder EXCEPT ![l] = NULL]
      /\ sema' = [sema EXCEPT ![me] = l] /\ cond' = cond
      /\ pc' = [pc EXCEPT ![me] = "lock_release"] /\ value' = value
      /\ cond_waiters' = cond_waiters
  BY <1>0 DEF lock_release, At, Goto, semaVars
<1>2. cond[me] = NULL
  BY <1>1, MonitorFacts DEF CondInv, CondSite
<1>3. /\ pc'[me] = "lock_release" /\ sema'[me] = l
      /\ \A k \in Lock \ {l} : holder'[k] = holder[k]
      /\ \A t \in Thread \ {me} : Unmoved(t)
  BY <1>1, MonitorFacts DEF Unmoved
<1>4. CondSite(me)' /\ Apart(me) /\ Apart(me)'
  BY <1>1, <1>2, <1>3 DEF CondSite, Apart
<1>5. \A k \in Lock : (me \in Owners(k))' <=> me \in Owners(k)
  BY <1>1, <1>3 DEF Owners
<1>6. \A c \in Condition : WaitingFor(c)' = WaitingFor(c) /\ WokenFrom(c)' = WokenFrom(c)
  <2>1. \A t \in Thread : \/ pc'[t] = pc[t] /\ sema'[t] = sema[t] /\ cond'[t] = cond[t]
                          \/ Apart(t) /\ Apart(t)'
    BY <1>3, <1>4 DEF Unmoved
  <2>2. TypeInv /\ cond_waiters' = cond_waiters
    BY <1>1, MonitorFacts
  <2> QED BY <2>1, <2>2, WaitersSame
<1> QED BY <1>1, <1>3, <1>4, <1>5, <1>6, MonitorHolder

\* cond_wait() joins the list: its caller still has the lock and does not wait yet.
LEMMA MonitorCondWait ==
  ASSUME MonitorInv, NEW c \in Condition, cond_wait(c)
  PROVE  CondInv' /\ MonitorStep
<1>0. PICK me \in Thread : me = current
  BY MonitorFacts
<1>1. PICK l \in Lock : l = cond_lock[c]
  BY MonitorFacts
<1>2. /\ pc[me] = "run" /\ holder[l] = me /\ holder' = [holder EXCEPT ![l] = NULL]
      /\ sema' = [sema EXCEPT ![me] = l] /\ cond' = [cond EXCEPT ![me] = c]
      /\ pc' = [pc EXCEPT ![me] = "cond_release"] /\ value' = [value EXCEPT ![me] = 0]
      /\ cond_waiters' = [cond_waiters EXCEPT ![c] = Append(@, me)]
  BY <1>0, <1>1 DEF cond_wait, At, Goto
<1>3. /\ pc'[me] = "cond_release" /\ sema'[me] = l /\ cond'[me] = c /\ value'[me] = 0
      /\ \A k \in Lock \ {l} : holder'[k] = holder[k]
      /\ \A t \in Thread \ {me} : Unmoved(t)
  BY <1>2, MonitorFacts DEF Unmoved
<1>4. CondSite(me)'
  BY <1>1, <1>3 DEF CondSite
<1>5. \A k \in Lock : (me \in Owners(k))' <=> me \in Owners(k)
  BY <1>2, <1>3 DEF Owners
<1>6. /\ Elements(cond_waiters[c])' = Elements(cond_waiters[c]) \cup {me}
      /\ \A d \in Condition \ {c} : cond_waiters'[d] = cond_waiters[d]
      /\ \A d \in Condition : me \notin Elements(cond_waiters[d])
      /\ \A d \in Condition : Elements(cond_waiters[d]) \subseteq Thread
  <2>1. cond_waiters[c] \in Seq(Thread) /\ cond_waiters'[c] = Append(cond_waiters[c], me)
    BY <1>2, MonitorFacts
  <2>2. Elements(cond_waiters'[c]) = Elements(cond_waiters[c]) \cup {me}
    BY SMTT(20), <2>1, PushBackElements
  <2>3. \A d \in Condition : me \notin Elements(cond_waiters[d])
    BY <1>2, MonitorFacts DEF SignalsAreKept, InCondWait
  <2>4. \A d \in Condition : Elements(cond_waiters[d]) \subseteq Thread
    BY MonitorFacts, EmptyElements
  <2> QED BY <1>2, <2>2, <2>3, <2>4, MonitorFacts
<1>7. ASSUME NEW d \in Condition
      PROVE  WaitingFor(d)' = WaitingFor(d) /\ WokenFrom(d)' = WokenFrom(d)
  <2>1. /\ \A t \in Thread \ {me} :
             (t \in Elements(cond_waiters[d]))' <=> t \in Elements(cond_waiters[d])
      /\ Elements(cond_waiters[d])' \subseteq Thread
    <3>1. CASE d = c
      BY <1>6, <3>1
    <3>2. CASE d # c
      BY <1>6, <3>2
    <3> QED BY <3>1, <3>2
  <2>2. \A t \in Thread \ {me} : pc'[t] = pc[t] /\ sema'[t] = sema[t] /\ cond'[t] = cond[t]
    BY <1>3 DEF Unmoved
  <2>3. \A t \in Thread \ {me} : /\ (t \in WaitingFor(d))' <=> t \in WaitingFor(d)
                                 /\ (t \in WokenFrom(d))' <=> t \in WokenFrom(d)
    BY <2>1, <2>2 DEF WaitingFor, WokenFrom, InCondWait
  <2>4. me \notin WaitingFor(d) /\ me \notin WokenFrom(d) /\ (me \notin WaitingFor(d))'
    BY <1>2, <1>3, <1>6 DEF WaitingFor, WokenFrom, InCondWait
  <2>5. (me \notin WokenFrom(d))'
    BY <1>3, <1>6 DEF WokenFrom
  <2>6. /\ WaitingFor(d) \subseteq Thread /\ WokenFrom(d) \subseteq Thread
        /\ WaitingFor(d)' \subseteq Thread /\ WokenFrom(d)' \subseteq Thread
    BY <1>6, <2>1 DEF WaitingFor, WokenFrom
  <2>7. WaitingFor(d)' = WaitingFor(d)
    <3>1. \A t \in Thread : (t \in WaitingFor(d))' <=> t \in WaitingFor(d)
      BY <2>3, <2>4
    <3> QED BY <2>6, <3>1
  <2>8. WokenFrom(d)' = WokenFrom(d)
    <3>1. \A t \in Thread : (t \in WokenFrom(d))' <=> t \in WokenFrom(d)
      BY <2>3, <2>4, <2>5
    <3> QED BY <2>6, <3>1
  <2> QED BY <2>7, <2>8
<1> QED BY <1>2, <1>3, <1>4, <1>5, <1>7, MonitorHolder

\* A lock's owner is its only one.
LEMMA OnlyOwner ==
  ASSUME MonitorInv, NEW l \in Lock, NEW t \in Owners(l)
  PROVE  Owners(l) = {t}
<1>1. PICK u \in Thread : Owners(l) = {u}
  <2>1. Owners(l) # {}
    OBVIOUS
  <2> QED BY <2>1, MonitorFacts DEF MutexInv, MutualExclusion
<1>2. t = u
  BY <1>1
<1> QED BY <1>1, <1>2

\* The sema_up() of lock_release() is Release, that of cond_wait() is Wait.
LEMMA MonitorReleaseUp ==
  ASSUME MonitorInv, lock_release_up
  PROVE  CondInv' /\ MonitorStep
<1>0. PICK me \in Thread : me = current
  BY MonitorFacts
<1>1. /\ value' = [value EXCEPT ![sema[me]] = @ + 1] /\ holder' = holder
      /\ sema' = [sema EXCEPT ![me] = NULL] /\ cond' = cond /\ cond_waiters' = cond_waiters
      /\ pc' = [pc EXCEPT ![me] = IF pc[me] = "lock_release" THEN "run" ELSE "cond_down"]
      /\ pc[me] \in {"lock_release", "cond_release"}
  BY <1>0 DEF lock_release_up, SemaUp, At, Goto, monitorVars
<1>2. PICK l \in Lock : l = sema[me]
  BY <1>1, MonitorFacts DEF TypeInv, CallInv
<1>3. holder[l] = NULL
  BY <1>1, <1>2, MonitorFacts DEF MutexInv, Between
<1>4. /\ sema'[me] = NULL /\ pc'[me] = IF pc[me] = "lock_release" THEN "run" ELSE "cond_down"
      /\ \A t \in Thread \ {me} : Unmoved(t)
  <2>1. \A t \in Thread : value'[t] = value[t]
    BY <1>1, <1>2, MonitorFacts
  <2> QED BY <1>1, <2>1, MonitorFacts DEF Unmoved
<1>5. Owner(l) = me /\ Owner(l)' = NULL /\ \A k \in Lock \ {l} : Owner(k)' = Owner(k)
  <2>0. pc'[me] \notin Between
    <3>1. pc'[me] = "run" \/ pc'[me] = "cond_down"
      BY <1>4
    <3> QED BY <3>1 DEF Between
  <2>1. me \in Owners(l)
    BY <1>1, <1>2 DEF Owners
  <2>2. Owners(l) = {me}
    BY <2>1, OnlyOwner
  <2>3. ASSUME NEW t \in Thread PROVE (t \notin Owners(l))'
    <3>1. CASE t = me
      BY <1>1, <1>3, <1>4, <3>1, MonitorFacts DEF Owners
    <3>2. CASE t # me
      <4>1. t \notin Owners(l)
        BY <2>2, <3>2
      <4> QED BY <1>1, <1>4, <3>2, <4>1 DEF Owners, Unmoved
    <3> QED BY <3>1, <3>2
  <2>4. Owners(l)' = {}
    BY <2>3 DEF Owners
  <2>5. ASSUME NEW k \in Lock \ {l} PROVE Owners(k)' = Owners(k)
    <3>1. (me \in Owners(k))' <=> me \in Owners(k)
      BY <1>1, <1>2, <2>0 DEF Owners, Between
    <3>2. \A t \in Thread \ {me} : (t \in Owners(k))' <=> t \in Owners(k)
      BY <1>1, <1>4 DEF Owners, Unmoved
    <3>3. \A t \in Thread : (t \in Owners(k))' <=> t \in Owners(k)
      BY <3>1, <3>2
    <3>4. Owners(k) \subseteq Thread /\ Owners(k)' \subseteq Thread
      BY DEF Owners
    <3> QED BY <3>3, <3>4
  <2> QED BY <2>2, <2>4, <2>5, OwnerFacts
<1>6. CASE pc[me] = "lock_release"
  <2>1. pc'[me] = "run" /\ cond'[me] = NULL
    BY <1>1, <1>4, <1>6, MonitorFacts DEF CondInv, CondSite
  <2>2. CondSite(me)' /\ Apart(me) /\ Apart(me)'
    BY <1>6, <2>1 DEF CondSite, Apart
  <2>3. CondInv'
    BY <1>1, <1>4, <2>2, MonitorFacts, CondKept
  <2>4. \A c \in Condition : WaitingFor(c)' = WaitingFor(c) /\ WokenFrom(c)' = WokenFrom(c)
    <3>1. \A t \in Thread : \/ pc'[t] = pc[t] /\ sema'[t] = sema[t] /\ cond'[t] = cond[t]
                            \/ Apart(t) /\ Apart(t)'
      BY <1>4, <2>2 DEF Unmoved
    <3> QED BY <1>1, <3>1, MonitorFacts, WaitersSame
  <2> QED BY <1>5, <2>3, <2>4, MapRelease
<1>7. CASE pc[me] = "cond_release"
  <2>1. PICK c \in Condition : c = cond[me]
    BY <1>7, MonitorFacts DEF TypeInv, CallInv
  <2>2. l = cond_lock[c] /\ value[me] = 0
    BY <1>2, <1>7, <2>1, MonitorFacts DEF CondInv, CondSite
  <2>3. pc'[me] = "cond_down" /\ cond'[me] = c
    BY <1>1, <1>4, <1>7, <2>1
  <2>4. CondInv'
    <3>1. CondSite(me)'
      BY <2>3 DEF CondSite
    <3> QED BY <1>1, <1>4, <3>1, MonitorFacts, CondKept
  <2>5. me \in Elements(cond_waiters[c])
    BY <1>7, <2>1, <2>2, MonitorFacts DEF SignalsAreKept, InCondWait
  <2>6. \A d \in Condition : Elements(cond_waiters[d]) \subseteq Thread
    BY MonitorFacts, EmptyElements
  <2>7. \A d \in Condition \ {c} : me \notin Elements(cond_waiters[d])
    BY <2>1, MonitorFacts DEF SignalsAreKept
  <2>8. \A t \in Thread \ {me} : pc'[t] = pc[t] /\ sema'[t] = sema[t] /\ cond'[t] = cond[t]
    BY <1>4 DEF Unmoved
  <2>9. WaitingFor(c)' = WaitingFor(c) \cup {me}
    <3>1. \A t \in Thread : (t \in WaitingFor(c))' <=> t \in WaitingFor(c) \cup {me}
      BY <1>1, <2>3, <2>5, <2>8 DEF WaitingFor
    <3>2. WaitingFor(c) \subseteq Thread /\ WaitingFor(c)' \subseteq Thread
      BY <1>1, <2>6 DEF WaitingFor
    <3> QED BY <3>1, <3>2
  <2>10. ASSUME NEW d \in Condition \ {c} PROVE WaitingFor(d)' = WaitingFor(d)
    <3>1. \A t \in Thread : (t \in WaitingFor(d))' <=> t \in WaitingFor(d)
      BY <1>1, <2>7, <2>8 DEF WaitingFor
    <3>2. WaitingFor(d) \subseteq Thread /\ WaitingFor(d)' \subseteq Thread
      BY <1>1, <2>6 DEF WaitingFor
    <3> QED BY <3>1, <3>2
  <2>11. ASSUME NEW d \in Condition PROVE WokenFrom(d)' = WokenFrom(d)
    <3>1. me \notin WokenFrom(d) /\ (me \notin WokenFrom(d))'
      BY <1>1, <1>7, <2>1, <2>3, <2>5 DEF WokenFrom
    <3>2. \A t \in Thread \ {me} : (t \in WokenFrom(d))' <=> t \in WokenFrom(d)
      BY <1>1, <2>8 DEF WokenFrom, InCondWait
    <3>3. \A t \in Thread : (t \in WokenFrom(d))' <=> t \in WokenFrom(d)
      BY <3>1, <3>2
    <3>4. WokenFrom(d) \subseteq Thread /\ WokenFrom(d)' \subseteq Thread
      BY DEF WokenFrom
    <3> QED BY <3>3, <3>4
  <2> QED BY <1>5, <2>2, <2>4, <2>9, <2>10, <2>11, MapWait
<1> QED BY <1>1, <1>6, <1>7

\* cond_signal() and one turn of cond_broadcast(): the oldest waiter has released
\* the lock, since the caller has it.
LEMMA MonitorSignal ==
  ASSUME MonitorInv, NEW c \in Condition, NEW me \in Thread, holder[cond_lock[c]] = me,
         Signal(c), pc' = pc, sema' = sema, cond' = cond, holder' = holder
  PROVE  CondInv' /\ MonitorStep
<1>1. PICK w \in Thread : /\ w = Head(cond_waiters[c]) /\ w \in Elements(cond_waiters[c])
                          /\ Elements(cond_waiters[c]) = Elements(Tail(cond_waiters[c])) \cup {w}
                          /\ w \notin Elements(Tail(cond_waiters[c]))
  <2>1. /\ cond_waiters[c] # <<>> /\ cond_waiters[c] \in Seq(Thread)
        /\ NoDuplicates(cond_waiters[c])
    BY MonitorFacts DEF Signal, SignalsAreKept
  <2> QED BY <2>1, PopFrontElements
<1>2. /\ cond_waiters' = [cond_waiters EXCEPT ![c] = Tail(@)]
      /\ value' = [value EXCEPT ![w] = @ + 1]
  BY <1>1 DEF Signal, SemaUp
<1>3. /\ cond_waiters'[c] = Tail(cond_waiters[c])
      /\ \A d \in Condition \ {c} : cond_waiters'[d] = cond_waiters[d]
      /\ \A t \in Thread \ {w} : value'[t] = value[t]
  BY <1>2, MonitorFacts
<1>4. InCondWait(w) /\ cond[w] = c
  BY <1>1, MonitorFacts DEF SignalsAreKept
<1>5. pc[w] # "cond_release"
  <2> SUFFICES ASSUME pc[w] = "cond_release" PROVE FALSE
    OBVIOUS
  <2>1. sema[w] = cond_lock[c]
    BY <1>4, MonitorFacts DEF CondInv, CondSite
  <2>2. holder[sema[w]] = NULL
    BY MonitorFacts DEF MutexInv, Between
  <2> QED BY <2>1, <2>2, MonitorFacts
<1>6. CondInv'
  <2>1. \A t \in Thread : Unmoved(t)
    BY <1>3, <1>5 DEF Unmoved
  <2> QED BY <2>1, MonitorFacts, CondKept
<1>7. Owner(cond_lock[c]) = me
  <2>1. cond_lock[c] \in Lock /\ me \in Owners(cond_lock[c])
    BY MonitorFacts DEF Owners
  <2>2. Owners(cond_lock[c]) = {me}
    BY <2>1, OnlyOwner
  <2> QED BY <2>2, OwnerFacts
<1>8. \A k \in Lock : Owner(k)' = Owner(k)
  BY OwnerSame
<1>9. \A d \in Condition \ {c} : WaitingFor(d)' = WaitingFor(d) /\ WokenFrom(d)' = WokenFrom(d)
  BY <1>3, MonitorFacts, WaitersSame
<1>10. w \in WaitingFor(c) /\ WaitingFor(c)' = WaitingFor(c) \ {w}
  <2>1. /\ Elements(cond_waiters[c])' = Elements(Tail(cond_waiters[c]))
        /\ \A t : (t \in Elements(cond_waiters[c]))' <=> t \in Elements(cond_waiters[c]) /\ t # w
    BY <1>1, <1>3
  <2> QED BY <1>1, <1>5, <2>1 DEF WaitingFor
<1>11. WokenFrom(c)' = WokenFrom(c) \cup {w}
  <2>1. \A t \in Thread :
          (t \in Elements(cond_waiters[c]))' <=> t \in Elements(cond_waiters[c]) /\ t # w
    BY <1>1, <1>3
  <2>2. (w \in WokenFrom(c))'
    BY <1>4, <2>1 DEF WokenFrom, InCondWait
  <2>3. \A t \in Thread \ {w} : (t \in WokenFrom(c))' <=> t \in WokenFrom(c)
    BY <2>1 DEF WokenFrom, InCondWait
  <2>4. WokenFrom(c) \subseteq Thread /\ WokenFrom(c)' \subseteq Thread
    BY DEF WokenFrom
  <2> QED BY <2>2, <2>3, <2>4
<1>12. cond_lock[c] \in Lock
  BY MonitorFacts
<1> QED BY <1>6, <1>7, <1>8, <1>9, <1>10, <1>11, <1>12, MapSignal

\* Each step of the kernel keeps CondInv and is a step of Monitor or a stutter.
LEMMA MonitorStepInv == MonitorInv /\ [Next]_vars => CondInv' /\ MonitorStep
<1> SUFFICES ASSUME MonitorInv, [Next]_vars PROVE CondInv' /\ MonitorStep
  OBVIOUS
<1> USE DEF clockVars, sleepVars, semaVars, monitorVars, callVars
<1>0. PICK me \in Thread : me = current
  BY MonitorFacts
<1>1. ASSUME pc' = pc, sema' = sema, cond' = cond, cond_waiters' = cond_waiters,
             holder' = holder, \A t \in Thread : value'[t] = value[t]
      PROVE  CondInv' /\ MonitorStep
  BY <1>1, MonitorQuiet DEF Unmoved
<1>2. ASSUME \A t \in Thread \ {me} : pc'[t] = pc[t] /\ sema'[t] = sema[t] /\ cond'[t] = cond[t],
             \A t \in Thread : value'[t] = value[t],
             pc[me] \in {"run", "thread_create", "timer_sleep", "idle", "hlt"}, cond'[me] = cond[me],
             pc'[me] \in {"run", "thread_create", "timer_sleep", "idle", "hlt"},
             cond_waiters' = cond_waiters, holder' = holder
      PROVE  CondInv' /\ MonitorStep
  <2>1. cond[me] = NULL
    BY <1>2, MonitorFacts DEF CondInv, CondSite
  <2>2. /\ Apart(me) /\ pc[me] \notin Between
        /\ Apart(me)' /\ pc'[me] \notin Between /\ CondSite(me)'
    BY <1>2, <2>1 DEF Apart, Between, CondSite
  <2> QED BY <1>2, <2>2, MonitorQuiet DEF Unmoved
<1>3. CASE \/ thread_yield \/ thread_exit \/ thread_yield_at_end \/ thread_wake_up \/ intr_return
           \/ \E p \in Priority : thread_set_priority(p)
           \/ UNCHANGED vars
  BY <1>1, <1>3 DEF thread_yield, thread_exit, thread_yield_at_end, thread_wake_up,
                    intr_return, thread_set_priority, vars
<1>4. CASE \/ thread_create_unblock \/ thread_sleep \/ idle
           \/ \E p \in Priority, t \in Thread : thread_create(t, p)
           \/ \E n \in SleepTicks : timer_sleep(n)
  <2>1. /\ pc[me] \in {"run", "thread_create", "timer_sleep", "idle"}
        /\ \/ pc' = [pc EXCEPT ![me] = "run"] \/ pc' = [pc EXCEPT ![me] = "thread_create"]
           \/ pc' = [pc EXCEPT ![me] = "timer_sleep"] \/ pc' = [pc EXCEPT ![me] = "hlt"]
        /\ UNCHANGED <<value, holder, sema, cond, cond_waiters>>
    BY <1>0, <1>4 DEF thread_create_unblock, thread_sleep, idle, thread_create, timer_sleep,
                      At, Goto
  <2> QED BY <1>2, <2>1, MonitorFacts
<1>5. ASSUME LeaveHlt, UNCHANGED <<sema, cond, cond_waiters, holder>>,
             \A t \in Thread : value'[t] = value[t]
      PROVE  CondInv' /\ MonitorStep
  <2>1. CASE pc[me] = "hlt"
    BY <1>0, <1>2, <1>5, <2>1, MonitorFacts DEF LeaveHlt
  <2>2. CASE pc[me] # "hlt"
    BY <1>0, <1>1, <1>5, <2>2, MonitorFacts DEF LeaveHlt
  <2> QED BY <2>1, <2>2
<1>6. ASSUME NEW s \in Semaphore,
             \/ value' = [value EXCEPT ![s] = @ + 1] \/ value' = [value EXCEPT ![s] = @ - 1]
      PROVE  \A t \in Thread : value'[t] = value[t]
  <2>1. \A t \in Thread : t # s /\ t \in Sema
    BY MonitorFacts
  <2>2. value \in [Sema -> Nat]
    BY MonitorFacts
  <2> QED BY SMTT(20), <1>6, <2>1, <2>2
<1>7. CASE timer_interrupt \/ \E s \in IntrSemaphore : device_interrupt(s)
  <2>1. CASE timer_interrupt
    BY <1>5, <2>1 DEF timer_interrupt
  <2>2. ASSUME NEW s \in IntrSemaphore, device_interrupt(s) PROVE CondInv' /\ MonitorStep
    <3>1. s \in Semaphore
      BY MonitorFacts
    <3> QED BY <1>5, <1>6, <2>2, <3>1 DEF device_interrupt, SemaUp
  <2> QED BY <1>7, <2>1, <2>2
<1>8. pc[me] = "run" => cond[me] = NULL
  BY MonitorFacts DEF CondInv, CondSite
<1>9. CASE \E s \in Semaphore : sema_down(s) \/ sema_try_down(s) \/ sema_up(s)
  <2>1. ASSUME NEW s \in Semaphore, sema_down(s) PROVE CondInv' /\ MonitorStep
    BY <1>0, <1>8, <2>1, MonitorDown DEF sema_down, At
  <2>2. ASSUME NEW s \in Semaphore, sema_try_down(s) \/ sema_up(s) PROVE CondInv' /\ MonitorStep
    <3>1. \A t \in Thread : value'[t] = value[t]
      BY <1>6, <2>2 DEF sema_try_down, sema_up, SemaUp
    <3> QED BY <1>1, <2>2, <3>1 DEF sema_try_down, sema_up
  <2> QED BY <1>9, <2>1, <2>2
<1>10. CASE sema_down_retry
  <2>1. /\ pc[me] = "sema_down" /\ SemaDown(sema[current]) /\ sema[me] \in Sema
        /\ UNCHANGED <<holder, cond, cond_waiters>>
        /\ sema[me] \in Thread => sema[me] = me /\ cond[me] \in Condition
    BY <1>0, <1>10, MonitorFacts DEF sema_down_retry, At, TypeInv, CallInv
  <2>2. CASE sema[me] \in Thread
    BY <1>0, <2>1, <2>2, MonitorOwn
  <2>3. CASE sema[me] \notin Thread /\ cond[me] = NULL
    <3>1. PICK s \in Semaphore \cup Lock : s = sema[current]
      BY <1>0, <2>1, <2>3 DEF Sema
    <3> QED BY <1>0, <2>1, <2>3, <3>1, MonitorDown
  <2>4. CASE sema[me] \notin Thread /\ cond[me] # NULL
    <3>1. PICK c \in Condition : c = cond[current]
      BY <1>0, <2>4, MonitorFacts
    <3>2. PICK l \in Lock : l = cond_lock[c]
      BY MonitorFacts
    <3>3. sema[current] = l
      BY <1>0, <2>1, <2>4, <3>1, <3>2, MonitorFacts DEF CondInv, CondSite
    <3> QED BY <1>0, <2>1, <3>1, <3>2, <3>3, MonitorRetake
  <2> QED BY <2>2, <2>3, <2>4
<1>11. CASE cond_down
  <2>1. pc[current] = "cond_down" /\ cond[current] \in Condition
    BY <1>0, <1>11, MonitorFacts DEF cond_down, At, TypeInv, CallInv
  <2> QED BY <1>11, <2>1, MonitorOwn DEF cond_down
<1>12. CASE cond_acquire
  <2>1. pc[current] = "cond_acquire" /\ cond[current] \in Condition
    BY <1>0, <1>12, MonitorFacts DEF cond_acquire, At, TypeInv, CallInv
  <2>2. cond_lock[cond[current]] \in Lock
    BY <2>1, MonitorFacts
  <2> QED BY <1>12, <2>1, <2>2, MonitorRetake DEF cond_acquire
<1>13. ASSUME NEW l \in Lock, lock_acquire(l) PROVE CondInv' /\ MonitorStep
  BY <1>0, <1>8, <1>13, MonitorDown DEF lock_acquire, At
<1>14. ASSUME NEW l \in Lock, lock_try_acquire(l) PROVE CondInv' /\ MonitorStep
  <2>1. pc[current] = "run" /\ pc[current] \notin Between
    BY <1>14 DEF lock_try_acquire, At, Between
  <2>2. /\ CondInv' /\ Owner(l) = NULL /\ Owner(l)' = current
        /\ \A k \in Lock \ {l} : Owner(k)' = Owner(k)
        /\ \A t \in Thread \ {current} : Unmoved(t)
        /\ pc'[current] = "lock_holder" /\ cond_waiters' = cond_waiters
    BY <1>14, <2>1, MonitorTake DEF lock_try_acquire, Goto
  <2>3. Apart(me) /\ Apart(me)'
    BY <1>0, <2>1, <2>2 DEF Apart
  <2>4. \A t \in Thread : \/ pc'[t] = pc[t] /\ sema'[t] = sema[t] /\ cond'[t] = cond[t]
                          \/ Apart(t) /\ Apart(t)'
    BY <1>0, <2>2, <2>3 DEF Unmoved
  <2>5. \A c \in Condition : WaitingFor(c)' = WaitingFor(c) /\ WokenFrom(c)' = WokenFrom(c)
    BY <2>2, <2>4, MonitorFacts, WaitersSame
  <2> QED BY <1>0, <2>2, <2>5, MapAcquire
<1>15. ASSUME NEW c \in Condition, cond_signal(c) PROVE CondInv' /\ MonitorStep
  BY <1>0, <1>15, MonitorSignal DEF cond_signal
<1>16. ASSUME NEW c \in Condition, cond_broadcast(c) PROVE CondInv' /\ MonitorStep
  <2>1. /\ pc[me] = "run" /\ pc' = [pc EXCEPT ![me] = "cond_broadcast"]
        /\ cond' = [cond EXCEPT ![me] = c] /\ holder[cond_lock[c]] = me
        /\ UNCHANGED <<value, holder, sema, cond_waiters>>
    BY <1>0, <1>16 DEF cond_broadcast, At, Goto
  <2>2. /\ pc'[me] = "cond_broadcast" /\ cond'[me] = c
        /\ \A t \in Thread \ {me} : Unmoved(t)
    BY <2>1, MonitorFacts DEF Unmoved
  <2>3. /\ Apart(me) /\ pc[me] \notin Between
        /\ Apart(me)' /\ pc'[me] \notin Between /\ CondSite(me)'
    BY <2>1, <2>2 DEF Apart, Between, CondSite
  <2> QED BY <2>1, <2>2, <2>3, MonitorQuiet
<1>17. CASE cond_broadcast_loop
  <2>1. pc[me] = "cond_broadcast" /\ UNCHANGED <<holder, sema>>
    BY <1>0, <1>17 DEF cond_broadcast_loop, At
  <2>2. PICK c \in Condition : c = cond[me]
    BY <2>1, MonitorFacts DEF TypeInv, CallInv
  <2>3. holder[cond_lock[c]] = me
    BY <2>1, <2>2, MonitorFacts DEF CondInv, CondSite
  <2>4. CASE Signal(cond[current]) /\ UNCHANGED <<pc, cond>>
    BY <1>0, <2>1, <2>2, <2>3, <2>4, MonitorSignal
  <2>5. CASE /\ Goto("run") /\ cond' = [cond EXCEPT ![current] = NULL]
             /\ UNCHANGED <<cpuVars, semaVars, cond_waiters, yielding>>
    <3>1. /\ pc'[me] = "run" /\ cond'[me] = NULL
          /\ \A t \in Thread \ {me} : Unmoved(t)
      BY <1>0, <2>1, <2>5, MonitorFacts DEF Unmoved, Goto
    <3>2. /\ Apart(me) /\ pc[me] \notin Between
          /\ Apart(me)' /\ pc'[me] \notin Between /\ CondSite(me)'
      BY <2>1, <3>1 DEF Apart, Between, CondSite
    <3> QED BY <2>1, <2>5, <3>1, <3>2, MonitorQuiet
  <2> QED BY <1>17, <2>4, <2>5 DEF cond_broadcast_loop
<1>18. CASE \/ lock_set_holder \/ lock_release_up
            \/ \E l \in Lock : lock_release(l)
            \/ \E c \in Condition : cond_wait(c)
  BY <1>18, MonitorSetHolder, MonitorReleaseUp, MonitorLockRelease, MonitorCondWait
<1> QED BY <1>3, <1>4, <1>7, <1>9, <1>10, <1>11, <1>12, <1>13, <1>14, <1>15, <1>16, <1>17,
           <1>18 DEF Next, Interrupt, Continue, Call

\* At the start no lock has an owner and nobody waits.
LEMMA MonitorInit == Init => CondInv /\ Monitors!Init
<1> SUFFICES ASSUME Init PROVE CondInv /\ Monitors!Init
  OBVIOUS
<1>1. \A t \in Thread : /\ pc[t] \in {"run", "hlt"} /\ cond[t] = NULL
                        /\ \A l \in Lock : holder[l] # t
  BY NamesAssumption DEF Init, Sema
<1>2. CondInv
  BY <1>1 DEF CondInv, CondSite
<1>3. \A l \in Lock : Owner(l) = NULL
  <2>1. \A l \in Lock : Owners(l) = {}
    BY <1>1 DEF Owners
  <2> QED BY <2>1, OwnerFacts
<1>4. \A c \in Condition : WaitingFor(c) = {} /\ WokenFrom(c) = {}
  BY <1>1, EmptyList DEF Init, WaitingFor, WokenFrom, InCondWait
<1> QED BY <1>2, <1>3, <1>4 DEF Monitors!Init

\* synch.c implements monitors: however lock_acquire(), lock_release(),
\* cond_wait(), cond_signal() and cond_broadcast() interleave, with the timer
\* and with other semaphores in between, each step is one of Monitor's
\* operations or changes nothing that Monitor sees.
THEOREM SynchImplementsMonitor == Spec => ImplementsMonitor
<1>1. MonitorInv /\ [Next]_vars => CondInv' /\ [Monitors!Next]_(Monitors!vars)
  BY MonitorStepInv DEF MonitorStep
<1>2. MonitorInv <=> TypeInv /\ MutexInv /\ SignalsAreKept /\ CondInv
  BY DEF MonitorInv
<1> QED BY <1>1, <1>2, TypeInit, TypeStep, MutexInit, MutexStep, SignalInit, SignalStep,
           MonitorInit, PTL DEF Spec, ImplementsMonitor, Monitors!Spec
=============================================================================

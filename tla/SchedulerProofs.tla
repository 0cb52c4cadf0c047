--------------------------- MODULE SchedulerProofs --------------------------
(***************************************************************************)
(* The threads of module Scheduler, for any number of threads, semaphores, *)
(* locks and conditions, and any priorities, time slice and clock bound:   *)
(* types, the lists that threads are on, and the order of those lists.     *)
(***************************************************************************)
EXTENDS Scheduler, KernelListProofs, FiniteSetTheorems

\* The prover of the leaves that name none.
USE ZenonT(120)
-----------------------------------------------------------------------------
(***************************************************************************)
(* Type correctness.  TypeOK is not inductive: that a step stays in the    *)
(* domains depends on what each call site keeps in sema, cond and newborn. *)
(***************************************************************************)
CallInv ==
  /\ \A t \in Thread :
       /\ pc[t] = "thread_create" => newborn[t] \in Thread
       /\ pc[t] = "sema_down" => sema[t] \in Sema
       /\ pc[t] = "sema_down" /\ sema[t] \in Thread => sema[t] = t /\ cond[t] \in Condition
       /\ pc[t] \in {"lock_holder", "lock_release", "cond_release"} => sema[t] \in Lock
       /\ pc[t] \in {"cond_release", "cond_down", "cond_acquire", "cond_broadcast"}
            => cond[t] \in Condition
  /\ ~ in_external_intr => thread_ticks < TIME_SLICE

TypeInv == TypeOK /\ CallInv

\* schedule() keeps the processor's variables in their domains.
LEMMA ScheduleType ==
  ASSUME TypeOK, NEW ready \in Seq(Thread), NEW st \in [Thread -> Status],
         schedule(ready, st)
  PROVE  /\ current' \in Thread
         /\ ready_list' \in Seq(Thread)
         /\ status' \in [Thread -> Status]
         /\ thread_ticks' = 0
<1>1. ready # <<>> => Head(ready) \in Thread /\ Tail(ready) \in Seq(Thread)
  BY PopFrontElements
<1>2. current' \in Thread /\ ready_list' \in Seq(Thread) /\ thread_ticks' = 0
  BY <1>1, ThreadAssumption DEF schedule, next_thread_to_run
<1>3. status' \in [Thread -> Status]
  BY DEF schedule, Status
<1> QED BY <1>2, <1>3

\* An ordered insertion keeps a list a list of threads.
LEMMA InsertType ==
  ASSUME NEW list \in Seq(Thread), NEW t \in Thread, NEW after
  PROVE  list_insert_ordered(list, t, after) \in Seq(Thread)
  BY InsertOrderedElements

\* thread_block() and thread_yield(), on the processor's variables.
LEMMA BlockType ==
  ASSUME TypeOK, thread_block \/ yield
  PROVE  /\ current' \in Thread
         /\ ready_list' \in Seq(Thread)
         /\ status' \in [Thread -> Status]
         /\ thread_ticks' = 0
<1>1. CASE thread_block
  <2>1. [status EXCEPT ![current] = "BLOCKED"] \in [Thread -> Status]
    BY DEF TypeOK, Status
  <2> QED BY <1>1, <2>1, ScheduleType DEF thread_block, TypeOK
<1>2. CASE yield
  <2> DEFINE r == IF current = idle_thread THEN ready_list
                  ELSE list_insert_ordered(ready_list, current, cmp_priority_thread(current))
             st == [status EXCEPT ![current] = "READY"]
  <2>1. st \in [Thread -> Status]
    BY DEF TypeOK, Status
  <2>2. r \in Seq(Thread)
    BY InsertType DEF TypeOK
  <2>3. schedule(r, st)
    BY <1>2 DEF yield
  <2> HIDE DEF r, st
  <2> QED BY <2>1, <2>2, <2>3, ScheduleType
<1> QED BY <1>1, <1>2

\* thread_unblock(), on the processor's variables.
LEMMA UnblockType ==
  ASSUME TypeOK, NEW t \in Thread, thread_unblock(t)
  PROVE  ready_list' \in Seq(Thread) /\ status' \in [Thread -> Status]
  BY InsertType DEF thread_unblock, TypeOK, Status

\* One turn of sema_down(), whichever call it is part of.
LEMMA SemaDownType ==
  ASSUME TypeInv, NEW s \in Sema, SemaDown(s), ~ in_external_intr,
         s \in Thread => s = current /\ cond[current] \in Condition,
         UNCHANGED <<clockVars, sleepVars, priority, monitorVars, yielding, cond, newborn>>,
         pc[current] # "thread_create"
  PROVE  TypeInv'
<1> USE DEF TypeInv, clockVars, sleepVars, monitorVars
<1>1. CASE value[s] = 0
  <2>1. /\ waiters' = [waiters EXCEPT ![s] =
                      list_insert_ordered(@, current, cmp_priority_thread(current))]
        /\ thread_block
        /\ pc' = [pc EXCEPT ![current] = "sema_down"]
        /\ sema' = [sema EXCEPT ![current] = s]
        /\ UNCHANGED value
    BY SMTT(20), <1>1 DEF SemaDown, Goto
  <2>2. /\ current' \in Thread /\ ready_list' \in Seq(Thread)
        /\ status' \in [Thread -> Status] /\ thread_ticks' = 0
    BY <2>1, BlockType
  <2>3. waiters' \in [Sema -> Seq(Thread)]
    BY <2>1, InsertType DEF TypeOK
  <2>4. pc' \in [Thread -> Label] /\ sema' \in [Thread -> Sema \cup {NULL}]
    BY <2>1 DEF TypeOK, Label
  <2>5. TypeOK'
    BY SMTT(20), <2>1, <2>2, <2>3, <2>4, NumbersAssumption DEF TypeOK
  <2>6. CallInv'
    BY SMTT(20), <2>1, <2>2, NumbersAssumption DEF TypeOK, CallInv
  <2> QED BY <2>5, <2>6
<1>2. CASE value[s] > 0
  <2>1. /\ value' = [value EXCEPT ![s] = @ - 1]
        /\ pc' = [pc EXCEPT ![current] = Return(s)]
        /\ sema' = [sema EXCEPT ![current] = IF s \in Lock THEN s ELSE NULL]
        /\ UNCHANGED <<cpuVars, waiters>>
    BY SMTT(20), <1>2 DEF SemaDown, Goto
  <2>2. /\ Return(s) \in {"run", "lock_holder", "cond_acquire"}
        /\ Return(s) = "lock_holder" => s \in Lock
        /\ Return(s) = "cond_acquire" => s \in Thread
    BY NamesAssumption DEF Return, Sema
  <2>3. value' \in [Sema -> Nat]
    BY SMTT(20), <1>2, <2>1 DEF TypeOK
  <2>4. TypeOK'
    BY <2>1, <2>2, <2>3 DEF TypeOK, Label, cpuVars, Sema
  <2>5. CallInv'
    BY <2>1, <2>2 DEF TypeOK, CallInv, cpuVars
  <2> QED BY <2>4, <2>5
<1>3. value[s] = 0 \/ value[s] > 0
  BY SMTT(20) DEF TypeOK
<1> QED BY <1>1, <1>2, <1>3

\* The part of sema_up() that runs with interrupts off.
LEMMA SemaUpType ==
  ASSUME TypeOK, NEW s \in Sema, SemaUp(s)
  PROVE  /\ value' \in [Sema -> Nat]
         /\ waiters' \in [Sema -> Seq(Thread)]
         /\ ready_list' \in Seq(Thread)
         /\ status' \in [Thread -> Status]
<1>1. value' \in [Sema -> Nat]
  BY SMTT(20) DEF SemaUp, TypeOK
<1>2. CASE waiters[s] = <<>>
  BY <1>1, <1>2 DEF SemaUp, TypeOK
<1>3. CASE waiters[s] # <<>>
  <2>1. Head(waiters[s]) \in Thread /\ Tail(waiters[s]) \in Seq(Thread)
    BY <1>3, PopFrontElements DEF TypeOK
  <2>2. waiters' = [waiters EXCEPT ![s] = Tail(@)] /\ thread_unblock(Head(waiters[s]))
    BY <1>3 DEF SemaUp
  <2>3. ready_list' \in Seq(Thread) /\ status' \in [Thread -> Status]
    BY <2>1, <2>2, UnblockType
  <2> QED BY <1>1, <2>1, <2>2, <2>3 DEF TypeOK
<1> QED BY <1>2, <1>3

LEMMA TypeInit == Init => TypeInv
<1> SUFFICES ASSUME Init PROVE TypeInv
  OBVIOUS
<1> USE DEF Init
<1>1. /\ <<>> \in Seq(Thread) /\ 0 \in 0..MaxTicks /\ 0 \in 0..TIME_SLICE
      /\ 0 \in 0..AgingPeriod - 1 /\ 0 < TIME_SLICE
  BY SMTT(20), NumbersAssumption
<1>2. /\ current \in Thread /\ status \in [Thread -> Status]
      /\ priority \in [Thread -> Priority]
  BY SMTT(20), ThreadAssumption, NumbersAssumption DEF Status, Priority
<1>3. /\ wake_up_tick \in [Thread -> Int] /\ value \in [Sema -> Nat]
      /\ pc \in [Thread -> Label]
  BY SMTT(20) DEF Label
<1>4. TypeOK
  BY <1>1, <1>2, <1>3 DEF TypeOK
<1>5. CallInv
  BY <1>1 DEF CallInv
<1> QED BY <1>4, <1>5 DEF TypeInv

\* The operations of thread.c keep the types.
LEMMA ThreadOpsType ==
  ASSUME TypeInv
  PROVE  (\/ thread_yield \/ thread_yield_at_end \/ thread_create_unblock \/ thread_exit
          \/ thread_sleep \/ idle
          \/ \E p \in Priority : \/ thread_set_priority(p)
                                 \/ \E t \in Thread : thread_create(t, p)
          \/ \E n \in SleepTicks : timer_sleep(n))
         => TypeInv'
<1> USE DEF TypeInv, clockVars, sleepVars, semaVars, monitorVars
<1>0. 0 \in 0..TIME_SLICE /\ 0 < TIME_SLICE
  BY SMTT(20), NumbersAssumption
<1>1. ASSUME thread_yield PROVE TypeInv'
  BY <1>0, <1>1, BlockType DEF thread_yield, callVars, TypeOK, CallInv
<1>2. ASSUME thread_yield_at_end PROVE TypeInv'
  BY <1>0, <1>2, BlockType DEF thread_yield_at_end, TypeOK, CallInv
<1>3. ASSUME thread_create_unblock PROVE TypeInv'
  <2>1. newborn[current] \in Thread
    BY <1>3 DEF thread_create_unblock, At, CallInv, TypeOK
  <2>2. ready_list' \in Seq(Thread) /\ status' \in [Thread -> Status]
    BY <1>3, <2>1, UnblockType DEF thread_create_unblock
  <2>3. pc' \in [Thread -> Label] /\ newborn' \in [Thread -> Thread \cup {NULL}]
    BY <1>3 DEF thread_create_unblock, Goto, TypeOK, Label
  <2>4. TypeOK'
    BY <1>3, <2>2, <2>3 DEF thread_create_unblock, ThenYield, TypeOK
  <2>5. CallInv'
    BY <1>3 DEF thread_create_unblock, Goto, TypeOK, CallInv
  <2> QED BY <2>4, <2>5
<1>4. ASSUME thread_exit PROVE TypeInv'
  <2>1. [status EXCEPT ![current] = "DYING"] \in [Thread -> Status]
    BY DEF TypeOK, Status
  <2>2. /\ current' \in Thread /\ ready_list' \in Seq(Thread)
        /\ status' \in [Thread -> Status] /\ thread_ticks' = 0
    BY <1>4, <2>1, ScheduleType DEF thread_exit, TypeOK
  <2> QED BY <1>0, <1>4, <2>2 DEF thread_exit, callVars, TypeOK, CallInv
<1>5. ASSUME thread_sleep PROVE TypeInv'
  <2>1. sleeping_list' \in Seq(Thread)
    BY <1>5, InsertType DEF thread_sleep, TypeOK
  <2>2. /\ current' \in Thread /\ ready_list' \in Seq(Thread)
        /\ status' \in [Thread -> Status] /\ thread_ticks' = 0
    BY <1>5, BlockType DEF thread_sleep
  <2>3. pc' \in [Thread -> Label]
    BY <1>5 DEF thread_sleep, Goto, TypeOK, Label
  <2>4. TypeOK'
    BY <1>0, <1>5, <2>1, <2>2, <2>3 DEF thread_sleep, TypeOK
  <2>5. CallInv'
    BY <1>0, <1>5, <2>2 DEF thread_sleep, Goto, TypeOK, CallInv
  <2> QED BY <2>4, <2>5
<1>6. ASSUME idle PROVE TypeInv'
  <2>1. /\ current' \in Thread /\ ready_list' \in Seq(Thread)
        /\ status' \in [Thread -> Status] /\ thread_ticks' = 0
    BY <1>6, BlockType DEF idle
  <2>2. pc' \in [Thread -> Label]
    BY <1>6 DEF idle, Goto, TypeOK, Label
  <2>3. TypeOK'
    BY <1>0, <1>6, <2>1, <2>2 DEF idle, TypeOK
  <2>4. CallInv'
    BY <1>0, <1>6, <2>1 DEF idle, Goto, TypeOK, CallInv
  <2> QED BY <2>3, <2>4
<1>7. ASSUME NEW p \in Priority, thread_set_priority(p) PROVE TypeInv'
  BY <1>7 DEF thread_set_priority, ThenYield, cpuVars, TypeOK, CallInv
<1>8. ASSUME NEW p \in Priority, NEW t \in Thread, thread_create(t, p) PROVE TypeInv'
  <2>1. /\ pc' \in [Thread -> Label] /\ status' \in [Thread -> Status]
        /\ newborn' \in [Thread -> Thread \cup {NULL}]
    BY <1>8 DEF thread_create, Goto, TypeOK, Label, Status
  <2>2. TypeOK'
    BY <1>8, <2>1 DEF thread_create, TypeOK
  <2>3. CallInv'
    BY <1>8 DEF thread_create, Goto, TypeOK, CallInv
  <2> QED BY <2>2, <2>3
<1>9. ASSUME NEW n \in SleepTicks, timer_sleep(n) PROVE TypeInv'
  <2>1. pc' \in [Thread -> Label] /\ wake_up_tick' \in [Thread -> Int]
    BY SMTT(20), <1>9, NumbersAssumption DEF timer_sleep, Goto, TypeOK, Label
  <2>2. TypeOK'
    BY <1>9, <2>1 DEF timer_sleep, cpuVars, TypeOK
  <2>3. CallInv'
    BY <1>9 DEF timer_sleep, Goto, cpuVars, TypeOK, CallInv
  <2> QED BY <2>2, <2>3
<1> QED BY <1>1, <1>2, <1>3, <1>4, <1>5, <1>6, <1>7, <1>8, <1>9

\* The interrupt handlers keep the types; the time slice is never exceeded.
LEMMA InterruptType ==
  ASSUME TypeInv
  PROVE  Interrupt => TypeInv'
<1> USE DEF TypeInv, clockVars, sleepVars, semaVars, monitorVars, callVars
<1>1. ASSUME timer_interrupt PROVE TypeInv'
  <2>1. /\ ticks' \in 0..MaxTicks /\ thread_ticks' \in 0..TIME_SLICE
        /\ in_external_intr' = TRUE
    BY SMTT(20), <1>1, NumbersAssumption DEF timer_interrupt, InterruptsOn, TypeOK, CallInv
  <2>2. aging_ticks' \in 0..AgingPeriod - 1 /\ priority' \in [Thread -> Priority]
    <3>1. CASE ~ USERPROG /\ thread_prior_aging /\ aging_ticks + 1 = AgingPeriod
      <4>1. /\ aging_ticks' = 0
            /\ priority' = [t \in Thread |->
                              IF t \in Elements(ready_list) /\ priority[t] < PRI_MAX
                              THEN priority[t] + 1 ELSE priority[t]]
        BY <1>1, <3>1 DEF timer_interrupt, thread_aging
      <4>2. \A t \in Thread : /\ priority[t] \in Priority
                              /\ priority[t] < PRI_MAX => priority[t] + 1 \in Priority
        BY SMTT(20), NumbersAssumption DEF TypeOK, Priority
      <4> QED BY SMTT(20), <4>1, <4>2, NumbersAssumption
    <3>2. CASE ~ USERPROG /\ thread_prior_aging /\ aging_ticks + 1 # AgingPeriod
      BY SMTT(20), <1>1, <3>2, NumbersAssumption DEF timer_interrupt, thread_aging, TypeOK
    <3>3. CASE ~ (~ USERPROG /\ thread_prior_aging)
      BY <1>1, <3>3 DEF timer_interrupt, TypeOK
    <3> QED BY <3>1, <3>2, <3>3
  <2>3. /\ pc' \in [Thread -> Label]
        /\ \A t \in Thread : pc'[t] = pc[t] \/ pc'[t] = "idle"
    BY <1>1 DEF timer_interrupt, LeaveHlt, TypeOK, Label
  <2>4. TypeOK'
    BY <1>1, <2>1, <2>2, <2>3 DEF timer_interrupt, TypeOK
  <2>5. CallInv'
    BY <1>1, <2>1, <2>3 DEF timer_interrupt, TypeOK, CallInv
  <2> QED BY <2>4, <2>5
<1>2. ASSUME thread_wake_up PROVE TypeInv'
  <2>1. sleeping_list # <<>>
    BY <1>2 DEF thread_wake_up, SleeperDue
  <2>2. Head(sleeping_list) \in Thread /\ Tail(sleeping_list) \in Seq(Thread)
    BY <2>1, PopFrontElements DEF TypeOK
  <2>3. ready_list' \in Seq(Thread) /\ status' \in [Thread -> Status]
    BY <1>2, <2>2, UnblockType DEF thread_wake_up
  <2> QED BY <1>2, <2>2, <2>3 DEF thread_wake_up, TypeOK, CallInv
<1>3. ASSUME intr_return PROVE TypeInv'
  <2>1. CASE thread_ticks >= TIME_SLICE
    <3>1. /\ current' \in Thread /\ ready_list' \in Seq(Thread)
          /\ status' \in [Thread -> Status] /\ thread_ticks' = 0
      BY <1>3, <2>1, BlockType DEF intr_return
    <3>2. 0 \in 0..TIME_SLICE /\ 0 < TIME_SLICE
      BY SMTT(20), NumbersAssumption
    <3>3. TypeOK'
      BY <1>3, <3>1, <3>2 DEF intr_return, TypeOK
    <3>4. CallInv'
      BY <1>3, <3>1, <3>2 DEF intr_return, CallInv
    <3> QED BY <3>3, <3>4
  <2>2. CASE ~ (thread_ticks >= TIME_SLICE)
    <3>1. UNCHANGED cpuVars /\ thread_ticks < TIME_SLICE
      BY SMTT(20), <1>3, <2>2, NumbersAssumption DEF intr_return, TypeOK
    <3>2. TypeOK'
      BY <1>3, <3>1 DEF intr_return, cpuVars, TypeOK
    <3>3. CallInv'
      BY <1>3, <3>1 DEF intr_return, cpuVars, CallInv
    <3> QED BY <3>2, <3>3
  <2> QED BY <2>1, <2>2
<1>4. ASSUME NEW s \in IntrSemaphore, device_interrupt(s) PROVE TypeInv'
  <2>1. s \in Sema
    BY NamesAssumption DEF Sema
  <2>2. /\ value' \in [Sema -> Nat] /\ waiters' \in [Sema -> Seq(Thread)]
        /\ ready_list' \in Seq(Thread) /\ status' \in [Thread -> Status]
    BY <1>4, <2>1, SemaUpType DEF device_interrupt
  <2>3. /\ pc' \in [Thread -> Label]
        /\ \A t \in Thread : pc'[t] = pc[t] \/ pc'[t] = "idle"
    BY <1>4 DEF device_interrupt, LeaveHlt, TypeOK, Label
  <2>4. UNCHANGED <<current, thread_ticks>>
    BY <1>4 DEF device_interrupt, SemaUp
  <2>5. TypeOK'
    BY <1>4, <2>2, <2>3, <2>4 DEF device_interrupt, TypeOK
  <2>6. CallInv'
    BY <1>4, <2>3, <2>4 DEF device_interrupt, TypeOK, CallInv
  <2> QED BY <2>5, <2>6
<1> QED BY <1>1, <1>2, <1>3, <1>4 DEF Interrupt

\* The operations of synch.c keep the types.
LEMMA SynchType ==
  ASSUME TypeInv
  PROVE  (\/ sema_down_retry \/ lock_set_holder \/ lock_release_up
          \/ cond_down \/ cond_acquire \/ cond_broadcast_loop
          \/ \E s \in Semaphore : sema_down(s) \/ sema_try_down(s) \/ sema_up(s)
          \/ \E l \in Lock : lock_acquire(l) \/ lock_try_acquire(l) \/ lock_release(l)
          \/ \E c \in Condition : cond_wait(c) \/ cond_signal(c) \/ cond_broadcast(c))
         => TypeInv'
<1> USE DEF TypeInv, clockVars, sleepVars, semaVars, monitorVars
<1>0. /\ Semaphore \subseteq Sema /\ Lock \subseteq Sema /\ Thread \subseteq Sema
      /\ Semaphore \cap Thread = {} /\ Lock \cap Thread = {}
      /\ \A c \in Condition : cond_lock[c] \in Lock
  BY NamesAssumption DEF Sema
<1>1. ASSUME sema_down_retry PROVE TypeInv'
  <2>1. /\ pc[current] = "sema_down" /\ ~ in_external_intr /\ sema[current] \in Sema
        /\ sema[current] \in Thread => sema[current] = current /\ cond[current] \in Condition
    BY <1>1 DEF sema_down_retry, At, TypeOK, CallInv
  <2> QED BY <1>1, <2>1, SemaDownType DEF sema_down_retry
<1>2. ASSUME lock_set_holder PROVE TypeInv'
  <2>1. sema[current] \in Lock
    BY <1>2 DEF lock_set_holder, At, TypeOK, CallInv
  <2>2. /\ pc' \in [Thread -> Label] /\ sema' \in [Thread -> Sema \cup {NULL}]
        /\ cond' \in [Thread -> Condition \cup {NULL}]
        /\ holder' \in [Lock -> Thread \cup {NULL}]
    BY <1>2, <2>1 DEF lock_set_holder, Goto, TypeOK, Label
  <2>3. TypeOK'
    BY <1>2, <2>2 DEF lock_set_holder, cpuVars, TypeOK
  <2>4. CallInv'
    BY <1>2 DEF lock_set_holder, Goto, cpuVars, TypeOK, CallInv
  <2> QED BY <2>3, <2>4
<1>3. ASSUME lock_release_up PROVE TypeInv'
  <2>1. sema[current] \in Lock /\ (pc[current] = "cond_release" => cond[current] \in Condition)
    BY <1>3 DEF lock_release_up, At, TypeOK, CallInv
  <2>2. /\ value' \in [Sema -> Nat] /\ waiters' \in [Sema -> Seq(Thread)]
        /\ ready_list' \in Seq(Thread) /\ status' \in [Thread -> Status]
    BY <1>0, <1>3, <2>1, SemaUpType DEF lock_release_up
  <2>3. /\ pc' \in [Thread -> Label] /\ sema' \in [Thread -> Sema \cup {NULL}]
        /\ yielding' \in SUBSET Thread
    BY <1>3 DEF lock_release_up, SemaUpEnd, ThenYield, Goto, TypeOK, Label
  <2>4. UNCHANGED <<current, thread_ticks>>
    BY <1>3 DEF lock_release_up, SemaUp
  <2>5. TypeOK'
    BY <1>3, <2>2, <2>3, <2>4 DEF lock_release_up, TypeOK
  <2>6. pc' = [pc EXCEPT ![current] = IF pc[current] = "lock_release"
                                      THEN "run" ELSE "cond_down"]
    BY <1>3 DEF lock_release_up, Goto
  <2>7. pc[current] # "lock_release" => cond[current] \in Condition
    BY <1>3, <2>1 DEF lock_release_up, At
  <2>8. CallInv'
    BY <1>3, <2>4, <2>6, <2>7 DEF lock_release_up, TypeOK, CallInv
  <2> QED BY <2>5, <2>8
<1>4. ASSUME cond_down PROVE TypeInv'
  <2>1. pc[current] = "cond_down" /\ ~ in_external_intr /\ cond[current] \in Condition
    BY <1>4 DEF cond_down, At, TypeOK, CallInv
  <2>2. current \in Sema
    BY <1>0 DEF TypeOK
  <2> QED BY <1>4, <2>1, <2>2, SemaDownType DEF cond_down
<1>5. ASSUME cond_acquire PROVE TypeInv'
  <2>1. pc[current] = "cond_acquire" /\ ~ in_external_intr /\ cond[current] \in Condition
    BY <1>5 DEF cond_acquire, At, TypeOK, CallInv
  <2>2. cond_lock[cond[current]] \in Sema /\ cond_lock[cond[current]] \notin Thread
    BY <1>0, <2>1
  <2> QED BY <1>5, <2>1, <2>2, SemaDownType DEF cond_acquire
<1>6. ASSUME NEW c \in Condition, Signal(c)
      PROVE  /\ value' \in [Sema -> Nat] /\ waiters' \in [Sema -> Seq(Thread)]
             /\ ready_list' \in Seq(Thread) /\ status' \in [Thread -> Status]
             /\ cond_waiters' \in [Condition -> Seq(Thread)]
             /\ yielding' \in SUBSET Thread
             /\ UNCHANGED <<current, thread_ticks>>
  <2>1. Head(cond_waiters[c]) \in Thread /\ Tail(cond_waiters[c]) \in Seq(Thread)
    BY <1>6, PopFrontElements DEF Signal, TypeOK
  <2>2. /\ value' \in [Sema -> Nat] /\ waiters' \in [Sema -> Seq(Thread)]
        /\ ready_list' \in Seq(Thread) /\ status' \in [Thread -> Status]
    BY <1>0, <1>6, <2>1, SemaUpType DEF Signal
  <2>3. cond_waiters' \in [Condition -> Seq(Thread)]
    BY <1>6, <2>1 DEF Signal, TypeOK
  <2>4. yielding' \in SUBSET Thread /\ UNCHANGED <<current, thread_ticks>>
    BY SMTT(20), <1>6 DEF Signal, SemaUp, SemaUpEnd, ThenYield, TypeOK
  <2> QED BY <2>2, <2>3, <2>4
<1>7. ASSUME cond_broadcast_loop PROVE TypeInv'
  <2>1. cond[current] \in Condition
    BY <1>7 DEF cond_broadcast_loop, At, TypeOK, CallInv
  <2>2. CASE Signal(cond[current]) /\ UNCHANGED <<pc, cond>>
    <3>1. TypeOK'
      BY <1>6, <1>7, <2>1, <2>2 DEF cond_broadcast_loop, TypeOK
    <3>2. CallInv'
      BY <1>6, <1>7, <2>1, <2>2 DEF cond_broadcast_loop, TypeOK, CallInv
    <3> QED BY <3>1, <3>2
  <2>3. CASE /\ Goto("run") /\ cond' = [cond EXCEPT ![current] = NULL]
             /\ UNCHANGED <<cpuVars, semaVars, cond_waiters, yielding>>
    <3>1. pc' \in [Thread -> Label] /\ cond' \in [Thread -> Condition \cup {NULL}]
      BY <2>3 DEF Goto, TypeOK, Label
    <3>2. TypeOK'
      BY <1>7, <2>3, <3>1 DEF cond_broadcast_loop, cpuVars, TypeOK
    <3>3. CallInv'
      BY <1>7, <2>3 DEF cond_broadcast_loop, Goto, cpuVars, TypeOK, CallInv
    <3> QED BY <3>2, <3>3
  <2> QED BY <1>7, <2>2, <2>3 DEF cond_broadcast_loop
<1>8. ASSUME NEW s \in Semaphore, sema_down(s) \/ sema_try_down(s) \/ sema_up(s)
      PROVE  TypeInv'
  <2>1. CASE sema_down(s)
    <3>1. pc[current] = "run" /\ ~ in_external_intr /\ s \in Sema /\ s \notin Thread
      BY <1>0, <2>1 DEF sema_down, At
    <3> QED BY <2>1, <3>1, SemaDownType DEF sema_down
  <2>2. CASE sema_try_down(s)
    <3>0. s \in Sema /\ value[s] - 1 \in Nat
      BY SMTT(20), <1>0, <2>2 DEF sema_try_down, TypeOK
    <3>1. value' \in [Sema -> Nat]
      BY <2>2, <3>0 DEF sema_try_down, TypeOK
    <3> QED BY <2>2, <3>1 DEF sema_try_down, cpuVars, callVars, TypeOK, CallInv
  <2>3. CASE sema_up(s)
    <3>1. /\ value' \in [Sema -> Nat] /\ waiters' \in [Sema -> Seq(Thread)]
          /\ ready_list' \in Seq(Thread) /\ status' \in [Thread -> Status]
      BY <1>0, <2>3, SemaUpType DEF sema_up
    <3>2. yielding' \in SUBSET Thread /\ UNCHANGED <<current, thread_ticks>>
      BY SMTT(20), <2>3 DEF sema_up, SemaUp, SemaUpEnd, ThenYield, TypeOK
    <3> QED BY <2>3, <3>1, <3>2 DEF sema_up, TypeOK, CallInv
  <2> QED BY <1>8, <2>1, <2>2, <2>3
<1>9. ASSUME NEW l \in Lock, lock_acquire(l) \/ lock_try_acquire(l) \/ lock_release(l)
      PROVE  TypeInv'
  <2>1. CASE lock_acquire(l)
    <3>1. pc[current] = "run" /\ ~ in_external_intr /\ l \in Sema /\ l \notin Thread
      BY <1>0, <2>1 DEF lock_acquire, At
    <3> QED BY <2>1, <3>1, SemaDownType DEF lock_acquire
  <2>2. CASE lock_try_acquire(l)
    <3>0. l \in Sema /\ value[l] - 1 \in Nat
      BY SMTT(20), <1>0, <2>2 DEF lock_try_acquire, TypeOK
    <3>1. /\ value' \in [Sema -> Nat] /\ pc' \in [Thread -> Label]
          /\ sema' \in [Thread -> Sema \cup {NULL}]
      BY <2>2, <3>0 DEF lock_try_acquire, Goto, TypeOK, Label
    <3>2. TypeOK'
      BY <2>2, <3>1 DEF lock_try_acquire, cpuVars, TypeOK
    <3>3. CallInv'
      BY <2>2 DEF lock_try_acquire, Goto, cpuVars, TypeOK, CallInv
    <3> QED BY <3>2, <3>3
  <2>3. CASE lock_release(l)
    <3>1. /\ pc' \in [Thread -> Label] /\ sema' \in [Thread -> Sema \cup {NULL}]
          /\ holder' \in [Lock -> Thread \cup {NULL}]
      BY <1>0, <2>3 DEF lock_release, Goto, TypeOK, Label
    <3>2. TypeOK'
      BY <2>3, <3>1 DEF lock_release, cpuVars, TypeOK
    <3>3. CallInv'
      BY <2>3 DEF lock_release, Goto, cpuVars, TypeOK, CallInv
    <3> QED BY <3>2, <3>3
  <2> QED BY <1>9, <2>1, <2>2, <2>3
<1>10. ASSUME NEW c \in Condition, cond_wait(c) \/ cond_signal(c) \/ cond_broadcast(c)
       PROVE  TypeInv'
  <2>1. CASE cond_wait(c)
    <3>1. /\ value' \in [Sema -> Nat] /\ waiters' \in [Sema -> Seq(Thread)]
          /\ holder' \in [Lock -> Thread \cup {NULL}]
      BY SMTT(20), <1>0, <2>1 DEF cond_wait, TypeOK
    <3>2. cond_waiters' \in [Condition -> Seq(Thread)]
      BY SMTT(20), <2>1 DEF cond_wait, TypeOK
    <3>3. /\ pc' \in [Thread -> Label] /\ sema' \in [Thread -> Sema \cup {NULL}]
          /\ cond' \in [Thread -> Condition \cup {NULL}]
      BY <1>0, <2>1 DEF cond_wait, Goto, TypeOK, Label
    <3>4. TypeOK'
      BY <2>1, <3>1, <3>2, <3>3 DEF cond_wait, cpuVars, TypeOK
    <3>5. CallInv'
      BY SMTT(20), <1>0, <2>1 DEF cond_wait, Goto, cpuVars, TypeOK, CallInv
    <3> QED BY <3>4, <3>5
  <2>2. CASE cond_signal(c)
    <3>1. TypeOK'
      BY <1>6, <2>2 DEF cond_signal, TypeOK
    <3>2. CallInv'
      BY <1>6, <2>2 DEF cond_signal, TypeOK, CallInv
    <3> QED BY <3>1, <3>2
  <2>3. CASE cond_broadcast(c)
    <3>1. pc' \in [Thread -> Label] /\ cond' \in [Thread -> Condition \cup {NULL}]
      BY <2>3 DEF cond_broadcast, Goto, TypeOK, Label
    <3>2. TypeOK'
      BY <2>3, <3>1 DEF cond_broadcast, cpuVars, TypeOK
    <3>3. CallInv'
      BY <2>3 DEF cond_broadcast, Goto, cpuVars, TypeOK, CallInv
    <3> QED BY <3>2, <3>3
  <2> QED BY <1>10, <2>1, <2>2, <2>3
<1> QED BY <1>1, <1>2, <1>3, <1>4, <1>5, <1>7, <1>8, <1>9, <1>10

LEMMA TypeStep == TypeInv /\ [Next]_vars => TypeInv'
<1>1. ASSUME TypeInv, Next PROVE TypeInv'
  BY <1>1, ThreadOpsType, InterruptType, SynchType DEF Next, Continue, Call
<1>2. ASSUME TypeInv, UNCHANGED vars PROVE TypeInv'
  BY <1>2 DEF TypeInv, TypeOK, CallInv, vars, cpuVars, clockVars, sleepVars,
              semaVars, monitorVars, callVars
<1> QED BY <1>1, <1>2

\* Every variable stays in its domain, the time slice included: thread_ticks
\* never exceeds TIME_SLICE although it is only reset by a thread switch.
THEOREM TypeCorrect == Spec => []TypeOK
<1>1. TypeInv => TypeOK
  BY DEF TypeInv
<1> QED BY <1>1, TypeInit, TypeStep, PTL DEF Spec
-----------------------------------------------------------------------------
(***************************************************************************)
(* Every thread is on the one list where it belongs.  ElemOnOneList says   *)
(* nothing of where a thread on a list is in its code, and that is what    *)
(* keeps a second insertion from happening: a thread on a wait list is     *)
(* inside sema_down() on that semaphore, a sleeper has returned from       *)
(* nothing else, a thread under construction is known to its creator       *)
(* alone, and only the running thread is in state RUNNING.                 *)
(***************************************************************************)
WhereThreadsAre ==
  \A t \in Thread :
    /\ status[t] = "RUNNING" <=> t = current
    /\ \A s \in Sema : t \in Elements(waiters[s]) => pc[t] = "sema_down" /\ sema[t] = s
    /\ t \in Elements(sleeping_list) => pc[t] = "run"
    /\ status[t] \in {"NONE", "DYING"} => pc[t] = "run" /\ t # idle_thread
    /\ pc[t] \in {"hlt", "idle"} <=> t = idle_thread

NewbornIsHidden ==
  \A t \in Thread : newborn[t] # NULL =>
    /\ pc[t] = "thread_create"
    /\ status[newborn[t]] = "BLOCKED" /\ newborn[t] # idle_thread
    /\ pc[newborn[t]] = "run"
    /\ newborn[t] \notin Elements(sleeping_list)
    /\ \A u \in Thread : newborn[u] = newborn[t] => u = t

ListInv == ElemOnOneList /\ BlockedIsFindable /\ WhereThreadsAre /\ NewbornIsHidden

\* schedule() takes the thread it dispatches off the ready list and changes no
\* other state, except that the page of a dying thread is freed.
LEMMA ScheduleEffect ==
  ASSUME TypeOK, NEW ready \in Seq(Thread), NEW st \in [Thread -> Status],
         NoDuplicates(ready), idle_thread \notin Elements(ready), schedule(ready, st)
  PROVE  /\ current' \in Elements(ready) \cup {idle_thread}
         /\ NoDuplicates(ready_list')
         /\ Elements(ready_list') = Elements(ready) \ {current'}
         /\ \A t \in Thread : status'[t] = IF t = current' THEN "RUNNING"
                                           ELSE IF st[t] = "DYING" /\ t # initial_thread
                                           THEN "NONE" ELSE st[t]
<1>1. \A t \in Thread : status'[t] = IF t = current' THEN "RUNNING"
                                     ELSE IF st[t] = "DYING" /\ t # initial_thread
                                     THEN "NONE" ELSE st[t]
  BY DEF schedule
<1>2. CASE ready = <<>>
  BY <1>1, <1>2, EmptyList DEF schedule, next_thread_to_run
<1>3. CASE ready # <<>>
  <2>1. current' = Head(ready) /\ ready_list' = Tail(ready)
    BY <1>3 DEF schedule, next_thread_to_run
  <2> QED BY SMTT(20), <1>1, <1>3, <2>1, PopFrontElements
<1> QED BY <1>2, <1>3

\* thread_unblock() adds the thread to the ready list.
LEMMA UnblockEffect ==
  ASSUME TypeOK, NEW t \in Thread, NoDuplicates(ready_list),
         t \notin Elements(ready_list), thread_unblock(t)
  PROVE  /\ NoDuplicates(ready_list')
         /\ Elements(ready_list') = Elements(ready_list) \cup {t}
         /\ status' = [status EXCEPT ![t] = "READY"]
  BY SMTT(20), InsertOrderedElements DEF thread_unblock, TypeOK

\* A step of the running thread, or of the clock, that touches no list.
LEMMA QuietStep ==
  ASSUME TypeInv, ListInv,
         UNCHANGED <<current, status, ready_list, sleeping_list, waiters, newborn>>,
         \A t \in Thread \ {current} : pc'[t] = pc[t] /\ sema'[t] = sema[t],
         pc[current] = "thread_create" => pc'[current] = "thread_create",
         pc[current] \in {"hlt", "idle"} <=> pc'[current] \in {"hlt", "idle"}
  PROVE  ListInv'
<1> USE DEF ListInv, TypeInv
<1>1. \A t \in Thread : status[t] = "RUNNING" <=> t = current
  BY DEF WhereThreadsAre
<1>2. ElemOnOneList'
  BY DEF ElemOnOneList
<1>3. BlockedIsFindable'
  BY <1>1 DEF BlockedIsFindable
<1>4. WhereThreadsAre'
  BY SMTT(20), <1>1 DEF WhereThreadsAre, ElemOnOneList, TypeOK
<1>5. NewbornIsHidden'
  BY SMTT(20), <1>1 DEF NewbornIsHidden, TypeOK
<1> QED BY <1>2, <1>3, <1>4, <1>5

\* The running thread goes to the ready list and another takes the processor.
LEMMA YieldStep ==
  ASSUME TypeInv, ListInv, yield, UNCHANGED <<sleeping_list, waiters, pc, sema, newborn>>
  PROVE  ListInv'
<1> USE DEF ListInv, TypeInv
<1> DEFINE r == IF current = idle_thread THEN ready_list
                ELSE list_insert_ordered(ready_list, current, cmp_priority_thread(current))
           st == [status EXCEPT ![current] = "READY"]
<1>1. /\ current \in Thread /\ st \in [Thread -> Status]
      /\ \A t \in Thread : st[t] = IF t = current THEN "READY" ELSE status[t]
  BY DEF TypeOK, Status
<1>2. status[current] = "RUNNING" /\ current \notin Elements(ready_list)
  BY <1>1 DEF WhereThreadsAre, ElemOnOneList
<1>3. /\ r \in Seq(Thread) /\ NoDuplicates(r)
      /\ Elements(r) = IF current = idle_thread THEN Elements(ready_list)
                       ELSE Elements(ready_list) \cup {current}
  <2>1. ready_list \in Seq(Thread) /\ NoDuplicates(ready_list)
    BY DEF ElemOnOneList, TypeOK
  <2> DEFINE ins == list_insert_ordered(ready_list, current, cmp_priority_thread(current))
  <2>2. /\ ins \in Seq(Thread) /\ NoDuplicates(ins)
        /\ Elements(ins) = Elements(ready_list) \cup {current}
    BY SMTT(20), <1>1, <1>2, <2>1, InsertOrderedElements
  <2>3. r = IF current = idle_thread THEN ready_list ELSE ins
    OBVIOUS
  <2> HIDE DEF ins, r
  <2> QED BY <2>1, <2>2, <2>3
<1>4. idle_thread \notin Elements(r)
  BY <1>3, ThreadAssumption DEF ElemOnOneList
<1>5. schedule(r, st)
  BY DEF yield
<1> HIDE DEF r, st
<1>6. /\ current' \in Elements(r) \cup {idle_thread}
      /\ NoDuplicates(ready_list')
      /\ Elements(ready_list') = Elements(r) \ {current'}
      /\ \A t \in Thread : status'[t] = IF t = current' THEN "RUNNING"
                                        ELSE IF st[t] = "DYING" /\ t # initial_thread
                                        THEN "NONE" ELSE st[t]
  BY <1>1, <1>3, <1>4, <1>5, ScheduleEffect
<1>7. /\ current' \in Thread
      /\ \A t \in Thread : status'[t] = "BLOCKED" => status[t] = "BLOCKED"
      /\ \A t \in Thread : status[t] = "BLOCKED" /\ t # idle_thread => status'[t] = "BLOCKED"
  <2>1. Elements(r) \subseteq Thread
    BY <1>3, EmptyElements
  <2>2. current' \in Thread
    BY <1>6, <2>1, ThreadAssumption
  <2>3. current' # idle_thread => status[current'] = "READY" \/ current' = current
    BY <1>3, <1>6, <2>2 DEF ElemOnOneList
  <2> QED BY <1>1, <1>2, <1>6, <2>2, <2>3
<1>8. ElemOnOneList'
  BY SMTT(20), <1>1, <1>2, <1>3, <1>6, <1>7 DEF ElemOnOneList
<1>9. BlockedIsFindable'
  BY <1>7 DEF BlockedIsFindable
<1>10. WhereThreadsAre'
  BY SMTT(20), <1>1, <1>6, <1>7 DEF WhereThreadsAre
<1>11. NewbornIsHidden'
  BY SMTT(20), <1>7 DEF NewbornIsHidden, TypeOK
<1> QED BY <1>8, <1>9, <1>10, <1>11

\* The running thread gives up the processor in state NEW: what schedule()
\* leaves, whichever list the thread has gone to.
LEMMA LeaveStep ==
  ASSUME TypeInv, ListInv, NEW new \in Status \ {"RUNNING", "READY"},
         schedule(ready_list, [status EXCEPT ![current] = new])
  PROVE  /\ current' \in Thread
         /\ NoDuplicates(ready_list')
         /\ \A t \in Thread : /\ status'[t] = "RUNNING" <=> t = current'
                              /\ t \in Elements(ready_list')
                                   <=> status'[t] = "READY" /\ t # idle_thread
                              /\ t # current /\ status[t] = "BLOCKED" /\ t # idle_thread
                                   => status'[t] = "BLOCKED"
                              /\ t # current /\ status'[t] = "BLOCKED" => status[t] = "BLOCKED"
                              /\ t # current /\ status'[t] \in {"NONE", "DYING"}
                                   => status[t] \in {"NONE", "DYING"}
         /\ current # idle_thread => \/ status'[current] = new
                                     \/ new = "DYING" /\ status'[current] = "NONE"
<1> USE DEF ListInv, TypeInv
<1> DEFINE st == [status EXCEPT ![current] = new]
<1>1. /\ current \in Thread /\ st \in [Thread -> Status]
      /\ \A t \in Thread : st[t] = IF t = current THEN new ELSE status[t]
  BY DEF TypeOK
<1>2. /\ status[current] = "RUNNING" /\ current \notin Elements(ready_list)
      /\ \A t \in Thread : status[t] = "RUNNING" => t = current
  BY <1>1 DEF WhereThreadsAre, ElemOnOneList
<1>3. /\ ready_list \in Seq(Thread) /\ NoDuplicates(ready_list)
      /\ idle_thread \notin Elements(ready_list) /\ Elements(ready_list) \subseteq Thread
      /\ \A t \in Thread : t \in Elements(ready_list) <=> status[t] = "READY" /\ t # idle_thread
  BY EmptyElements, ThreadAssumption DEF ElemOnOneList, TypeOK
<1>4. schedule(ready_list, st)
  OBVIOUS
<1> HIDE DEF st, ListInv, TypeInv
<1>5. /\ current' \in Elements(ready_list) \cup {idle_thread}
      /\ NoDuplicates(ready_list')
      /\ Elements(ready_list') = Elements(ready_list) \ {current'}
      /\ \A t \in Thread : status'[t] = IF t = current' THEN "RUNNING"
                                        ELSE IF st[t] = "DYING" /\ t # initial_thread
                                        THEN "NONE" ELSE st[t]
  BY <1>1, <1>3, <1>4, ScheduleEffect DEF TypeInv
<1>6. current' \in Thread
  BY <1>3, <1>5, ThreadAssumption
<1>7. current # idle_thread => current' # current
  BY <1>2, <1>5
<1> QED BY <1>1, <1>2, <1>3, <1>5, <1>6, <1>7

\* One turn of sema_down(): the thread goes to the wait list of S alone.
LEMMA SemaDownStep ==
  ASSUME TypeInv, ListInv, NEW s \in Sema, SemaDown(s), UNCHANGED <<sleeping_list, newborn>>,
         pc[current] \notin {"thread_create", "hlt", "idle"}
  PROVE  ListInv'
<1>1. current \in Thread /\ status[current] = "RUNNING" /\ current # idle_thread
  BY DEF TypeInv, TypeOK, ListInv, WhereThreadsAre
<1>2. newborn[current] = NULL
  BY <1>1 DEF ListInv, NewbornIsHidden
<1>3. CASE value[s] = 0
  <2>1. /\ waiters' = [waiters EXCEPT ![s] =
                      list_insert_ordered(@, current, cmp_priority_thread(current))]
        /\ schedule(ready_list, [status EXCEPT ![current] = "BLOCKED"])
        /\ pc' = [pc EXCEPT ![current] = "sema_down"]
        /\ sema' = [sema EXCEPT ![current] = s]
    BY SMTT(20), <1>3 DEF SemaDown, Goto, thread_block
  <2>2. /\ current' \in Thread
        /\ NoDuplicates(ready_list')
        /\ \A t \in Thread : /\ status'[t] = "RUNNING" <=> t = current'
                             /\ t \in Elements(ready_list')
                                  <=> status'[t] = "READY" /\ t # idle_thread
                             /\ t # current /\ status[t] = "BLOCKED" /\ t # idle_thread
                                  => status'[t] = "BLOCKED"
                             /\ t # current /\ status'[t] = "BLOCKED" => status[t] = "BLOCKED"
                             /\ t # current /\ status'[t] \in {"NONE", "DYING"}
                                  => status[t] \in {"NONE", "DYING"}
        /\ status'[current] = "BLOCKED"
    BY SMTT(20), <1>1, <2>1, LeaveStep DEF Status
  <2>3. /\ current \notin Elements(sleeping_list)
        /\ \A r \in Sema : current \notin Elements(waiters[r])
    BY <1>1 DEF ListInv, ElemOnOneList
  <2>4. /\ NoDuplicates(waiters'[s])
        /\ Elements(waiters'[s]) = Elements(waiters[s]) \cup {current}
    <3>1. waiters[s] \in Seq(Thread) /\ NoDuplicates(waiters[s])
      BY DEF TypeInv, TypeOK, ListInv, ElemOnOneList
    <3>2. waiters'[s] = list_insert_ordered(waiters[s], current, cmp_priority_thread(current))
      BY <2>1 DEF TypeInv, TypeOK
    <3> QED BY SMTT(20), <1>1, <2>3, <3>1, <3>2, InsertOrderedElements
  <2>5. \A r \in Sema \ {s} : waiters'[r] = waiters[r]
    BY <2>1 DEF TypeInv, TypeOK
  <2>6. ElemOnOneList'
    BY SMTT(20), <1>1, <2>2, <2>3, <2>4, <2>5 DEF ListInv, ElemOnOneList
  <2>7. \A t \in Thread : /\ pc'[t] = IF t = current THEN "sema_down" ELSE pc[t]
                          /\ sema'[t] = IF t = current THEN s ELSE sema[t]
    BY <2>1 DEF TypeInv, TypeOK
  <2>8. BlockedIsFindable'
    <3>1. SUFFICES ASSUME NEW t \in Thread \ {idle_thread}, status'[t] = "BLOCKED"
                   PROVE  \/ t \in Elements(sleeping_list)
                          \/ pc'[t] = "sema_down" /\ t \in Elements(waiters'[sema'[t]])
                          \/ \E u \in Thread : newborn[u] = t
      BY DEF BlockedIsFindable
    <3>2. CASE t = current
      BY <1>1, <2>4, <2>7, <3>2
    <3>3. CASE t # current
      <4>1. \/ t \in Elements(sleeping_list)
            \/ pc[t] = "sema_down" /\ t \in Elements(waiters[sema[t]])
            \/ \E u \in Thread : newborn[u] = t
        BY <2>2, <3>1, <3>3 DEF ListInv, BlockedIsFindable
      <4>2. pc[t] = "sema_down" => sema[t] \in Sema
        BY DEF TypeInv, CallInv
      <4> QED BY <2>4, <2>5, <2>7, <3>3, <4>1, <4>2
    <3> QED BY <3>2, <3>3
  <2>9. WhereThreadsAre'
    BY SMTT(20), <1>1, <2>2, <2>3, <2>4, <2>5, <2>7 DEF ListInv, WhereThreadsAre
  <2>10. NewbornIsHidden'
    BY SMTT(20), <1>1, <1>2, <2>2, <2>7 DEF ListInv, NewbornIsHidden, TypeInv, TypeOK
  <2> QED BY <2>6, <2>8, <2>9, <2>10 DEF ListInv
<1>4. CASE value[s] > 0
  <2>1. /\ pc' = [pc EXCEPT ![current] = Return(s)]
        /\ sema' = [sema EXCEPT ![current] = IF s \in Lock THEN s ELSE NULL]
        /\ UNCHANGED <<cpuVars, waiters>>
    BY SMTT(20), <1>4 DEF SemaDown, Goto
  <2>2. Return(s) \in {"run", "lock_holder", "cond_acquire"}
    BY DEF Return
  <2>3. \A t \in Thread \ {current} : pc'[t] = pc[t] /\ sema'[t] = sema[t]
    BY <1>1, <2>1 DEF TypeInv, TypeOK
  <2>4. pc'[current] \notin {"hlt", "idle"}
    BY <1>1, <2>1, <2>2 DEF TypeInv, TypeOK
  <2> QED BY <2>1, <2>3, <2>4, QuietStep DEF cpuVars
<1>5. value[s] = 0 \/ value[s] > 0
  BY SMTT(20) DEF TypeInv, TypeOK
<1> QED BY <1>3, <1>4, <1>5

\* thread_unblock() of a blocked thread: it is ready and on the ready list.
LEMMA WakeEffect ==
  ASSUME TypeInv, ListInv, NEW t \in Thread, status[t] = "BLOCKED", t # idle_thread,
         thread_unblock(t)
  PROVE  /\ NoDuplicates(ready_list')
         /\ \A u \in Thread : /\ u \in Elements(ready_list')
                                   <=> status'[u] = "READY" /\ u # idle_thread
                              /\ status'[u] = IF u = t THEN "READY" ELSE status[u]
<1>1. /\ NoDuplicates(ready_list) /\ t \notin Elements(ready_list)
      /\ \A u \in Thread : u \in Elements(ready_list) <=> status[u] = "READY" /\ u # idle_thread
  BY DEF ListInv, ElemOnOneList
<1>2. /\ NoDuplicates(ready_list')
      /\ Elements(ready_list') = Elements(ready_list) \cup {t}
      /\ status' = [status EXCEPT ![t] = "READY"]
  BY <1>1, UnblockEffect DEF TypeInv
<1> QED BY <1>1, <1>2 DEF TypeInv, TypeOK

\* sema_up(): the thread at the front of the wait list moves to the ready list.
LEMMA SemaUpStep ==
  ASSUME TypeInv, ListInv, NEW s \in Sema, SemaUp(s), UNCHANGED <<sleeping_list, newborn>>,
         \A t \in Thread \ {current} : pc'[t] = pc[t] /\ sema'[t] = sema[t],
         pc[current] = "thread_create" => pc'[current] = "thread_create",
         pc[current] \in {"hlt", "idle"} <=> pc'[current] \in {"hlt", "idle"}
  PROVE  ListInv'
<1>1. CASE waiters[s] = <<>>
  BY <1>1, QuietStep DEF SemaUp
<1>2. CASE waiters[s] # <<>>
  <2> DEFINE w == Head(waiters[s])
  <2>1. waiters[s] \in Seq(Thread) /\ NoDuplicates(waiters[s])
    BY DEF TypeInv, TypeOK, ListInv, ElemOnOneList
  <2>2. /\ w \in Thread /\ w \in Elements(waiters[s])
        /\ Elements(waiters[s]) = Elements(Tail(waiters[s])) \cup {w}
        /\ NoDuplicates(Tail(waiters[s])) /\ w \notin Elements(Tail(waiters[s]))
    BY <1>2, <2>1, PopFrontElements
  <2>3. /\ thread_unblock(w) /\ waiters' = [waiters EXCEPT ![s] = Tail(@)]
        /\ current' = current
    BY <1>2 DEF SemaUp
  <2> HIDE DEF w
  <2>4. /\ status[w] = "BLOCKED" /\ w # idle_thread /\ w # current
        /\ w \notin Elements(sleeping_list) /\ pc[w] = "sema_down"
        /\ \A r \in Sema : w \notin Elements(waiters'[r])
    BY SMTT(20), <2>2, <2>3 DEF ListInv, ElemOnOneList, WhereThreadsAre, TypeInv, TypeOK
  <2>5. /\ NoDuplicates(ready_list')
        /\ \A u \in Thread : /\ u \in Elements(ready_list')
                                  <=> status'[u] = "READY" /\ u # idle_thread
                             /\ status'[u] = IF u = w THEN "READY" ELSE status[u]
    BY <2>2, <2>3, <2>4, WakeEffect
  <2>6. \A r \in Sema : /\ NoDuplicates(waiters'[r])
                        /\ Elements(waiters'[r]) = Elements(waiters[r]) \ {w}
    <3> SUFFICES ASSUME NEW r \in Sema
                 PROVE  NoDuplicates(waiters'[r]) /\ Elements(waiters'[r]) = Elements(waiters[r]) \ {w}
      OBVIOUS
    <3>1. CASE r = s
      BY <2>2, <2>3, <3>1 DEF TypeInv, TypeOK
    <3>2. CASE r # s
      <4>1. waiters'[r] = waiters[r]
        BY <2>3, <3>2 DEF TypeInv, TypeOK
      <4> QED BY <2>4, <4>1 DEF ListInv, ElemOnOneList
    <3> QED BY <3>1, <3>2
  <2>7. \A t \in Thread : status[t] = "RUNNING" <=> t = current
    BY DEF ListInv, WhereThreadsAre
  <2>8. ElemOnOneList'
    BY SMTT(20), <2>4, <2>5, <2>6 DEF ListInv, ElemOnOneList
  <2>9. BlockedIsFindable'
    <3>1. SUFFICES ASSUME NEW t \in Thread \ {idle_thread}, status'[t] = "BLOCKED"
                   PROVE  \/ t \in Elements(sleeping_list)
                          \/ pc'[t] = "sema_down" /\ t \in Elements(waiters'[sema'[t]])
                          \/ \E u \in Thread : newborn[u] = t
      BY DEF BlockedIsFindable
    <3>2. t # w /\ status[t] = "BLOCKED" /\ t # current
      BY <2>5, <2>7, <3>1
    <3>3. \/ t \in Elements(sleeping_list)
          \/ pc[t] = "sema_down" /\ t \in Elements(waiters[sema[t]])
          \/ \E u \in Thread : newborn[u] = t
      BY <3>2 DEF ListInv, BlockedIsFindable
    <3>4. pc[t] = "sema_down" => sema[t] \in Sema
      BY DEF TypeInv, CallInv
    <3> QED BY <2>6, <3>2, <3>3, <3>4
  <2>10. WhereThreadsAre'
    BY SMTT(20), <2>3, <2>4, <2>5, <2>6, <2>7 DEF ListInv, WhereThreadsAre, ElemOnOneList, TypeInv, TypeOK
  <2>11. NewbornIsHidden'
    BY SMTT(20), <2>4, <2>5, <2>7 DEF ListInv, NewbornIsHidden, TypeInv, TypeOK
  <2> QED BY <2>8, <2>9, <2>10, <2>11 DEF ListInv
<1> QED BY <1>1, <1>2

LEMMA ListInit == Init => ListInv
<1> SUFFICES ASSUME Init PROVE ListInv
  OBVIOUS
<1>1. ElemOnOneList
  BY EmptyList DEF Init, ElemOnOneList
<1>2. BlockedIsFindable /\ NewbornIsHidden
  BY DEF Init, BlockedIsFindable, NewbornIsHidden
<1>3. WhereThreadsAre
  BY EmptyList, ThreadAssumption DEF Init, WhereThreadsAre
<1> QED BY <1>1, <1>2, <1>3 DEF ListInv

\* The operations of synch.c and the device interrupts keep the lists.
LEMMA SynchLists ==
  ASSUME TypeInv, ListInv
  PROVE  (\/ sema_down_retry \/ lock_set_holder \/ lock_release_up
          \/ cond_down \/ cond_acquire \/ cond_broadcast_loop
          \/ \E s \in Semaphore : sema_down(s) \/ sema_try_down(s) \/ sema_up(s)
          \/ \E l \in Lock : lock_acquire(l) \/ lock_try_acquire(l) \/ lock_release(l)
          \/ \E c \in Condition : cond_wait(c) \/ cond_signal(c) \/ cond_broadcast(c)
          \/ \E s \in IntrSemaphore : device_interrupt(s))
         => ListInv'
<1> USE DEF clockVars, sleepVars, semaVars, monitorVars
<1>0. /\ Semaphore \subseteq Sema /\ Lock \subseteq Sema /\ Thread \subseteq Sema
      /\ IntrSemaphore \subseteq Sema
      /\ \A c \in Condition : cond_lock[c] \in Lock
  BY NamesAssumption DEF Sema
<1>1. /\ current \in Thread /\ pc \in [Thread -> Label]
      /\ sema \in [Thread -> Sema \cup {NULL}]
  BY DEF TypeInv, TypeOK
<1>2. ASSUME sema_down_retry PROVE ListInv'
  <2>1. pc[current] = "sema_down" /\ sema[current] \in Sema
    BY <1>2 DEF sema_down_retry, At, TypeInv, TypeOK, CallInv
  <2> QED BY <1>2, <2>1, SemaDownStep DEF sema_down_retry
<1>3. ASSUME lock_set_holder PROVE ListInv'
  BY <1>1, <1>3, QuietStep DEF lock_set_holder, At, Goto, cpuVars
<1>4. ASSUME lock_release_up PROVE ListInv'
  <2>1. pc[current] \in {"lock_release", "cond_release"} /\ sema[current] \in Sema
    BY <1>0, <1>4 DEF lock_release_up, At, TypeInv, TypeOK, CallInv
  <2>2. /\ \A t \in Thread \ {current} : pc'[t] = pc[t] /\ sema'[t] = sema[t]
        /\ pc'[current] \in {"run", "cond_down"}
    BY <1>1, <1>4 DEF lock_release_up, Goto
  <2> QED BY <1>4, <2>1, <2>2, SemaUpStep DEF lock_release_up
<1>5. ASSUME cond_down PROVE ListInv'
  BY <1>0, <1>1, <1>5, SemaDownStep DEF cond_down, At
<1>6. ASSUME cond_acquire PROVE ListInv'
  <2>1. pc[current] = "cond_acquire" /\ cond_lock[cond[current]] \in Sema
    BY <1>0, <1>1, <1>6 DEF cond_acquire, At, TypeInv, CallInv
  <2> QED BY <1>6, <2>1, SemaDownStep DEF cond_acquire
<1>7. ASSUME NEW c \in Condition, Signal(c), pc' = pc, sema' = sema,
             UNCHANGED <<sleeping_list, newborn>>, pc[current] # "thread_create"
      PROVE  ListInv'
  <2>1. Head(cond_waiters[c]) \in Sema
    BY <1>0, <1>7, PopFrontElements DEF Signal, TypeInv, TypeOK
  <2> QED BY <1>7, <2>1, SemaUpStep DEF Signal
<1>8. ASSUME cond_broadcast_loop PROVE ListInv'
  <2>1. pc[current] = "cond_broadcast" /\ cond[current] \in Condition
    BY <1>1, <1>8 DEF cond_broadcast_loop, At, TypeInv, CallInv
  <2>2. CASE Signal(cond[current]) /\ UNCHANGED <<pc, cond>>
    BY <1>7, <1>8, <2>1, <2>2 DEF cond_broadcast_loop
  <2>3. CASE Goto("run") /\ UNCHANGED <<cpuVars, semaVars, cond_waiters, yielding>>
    BY <1>1, <1>8, <2>1, <2>3, QuietStep DEF cond_broadcast_loop, Goto, cpuVars
  <2> QED BY <1>8, <2>2, <2>3 DEF cond_broadcast_loop
<1>9. ASSUME NEW s \in Semaphore, sema_down(s) \/ sema_try_down(s) \/ sema_up(s)
      PROVE  ListInv'
  <2>1. CASE sema_down(s)
    BY <1>0, <2>1, SemaDownStep DEF sema_down, At
  <2>2. CASE sema_try_down(s)
    BY <2>2, QuietStep DEF sema_try_down, cpuVars, callVars
  <2>3. CASE sema_up(s)
    BY <1>0, <2>3, SemaUpStep DEF sema_up, At
  <2> QED BY <1>9, <2>1, <2>2, <2>3
<1>10. ASSUME NEW l \in Lock, lock_acquire(l) \/ lock_try_acquire(l) \/ lock_release(l)
       PROVE  ListInv'
  <2>1. CASE lock_acquire(l)
    BY <1>0, <2>1, SemaDownStep DEF lock_acquire, At
  <2>2. CASE lock_try_acquire(l)
    BY <1>1, <2>2, QuietStep DEF lock_try_acquire, At, Goto, cpuVars
  <2>3. CASE lock_release(l)
    BY <1>1, <2>3, QuietStep DEF lock_release, At, Goto, cpuVars
  <2> QED BY <1>10, <2>1, <2>2, <2>3
<1>11. ASSUME NEW c \in Condition, cond_wait(c) \/ cond_signal(c) \/ cond_broadcast(c)
       PROVE  ListInv'
  <2>1. CASE cond_wait(c)
    <3>1. pc[current] = "run"
      BY <2>1 DEF cond_wait, At
    <3>2. \A t \in Thread : t \notin Elements(waiters[current])
      BY SMTT(20), <1>0, <1>1, <3>1 DEF ListInv, WhereThreadsAre, TypeInv, CallInv
    <3>3. waiters[current] = <<>>
      BY SMTT(20), <1>0, <1>1, <3>2, EmptyElements DEF TypeInv, TypeOK
    <3>4. waiters' = waiters
      BY <1>0, <1>1, <2>1, <3>3 DEF cond_wait, TypeInv, TypeOK
    <3> QED BY <1>1, <2>1, <3>1, <3>4, QuietStep DEF cond_wait, Goto, cpuVars
  <2>2. CASE cond_signal(c)
    BY <1>7, <2>2 DEF cond_signal, At
  <2>3. CASE cond_broadcast(c)
    BY <1>1, <2>3, QuietStep DEF cond_broadcast, At, Goto, cpuVars
  <2> QED BY <1>11, <2>1, <2>2, <2>3
<1>12. ASSUME NEW s \in IntrSemaphore, device_interrupt(s) PROVE ListInv'
  <2>1. /\ \A t \in Thread \ {current} : pc'[t] = pc[t]
        /\ pc'[current] = IF pc[current] = "hlt" THEN "idle" ELSE pc[current]
    BY <1>1, <1>12 DEF device_interrupt, LeaveHlt
  <2> QED BY <1>0, <1>12, <2>1, SemaUpStep DEF device_interrupt
<1> QED BY <1>2, <1>3, <1>4, <1>5, <1>6, <1>8, <1>9, <1>10, <1>11, <1>12

\* The operations of thread.c keep the lists.
LEMMA ThreadOpsLists ==
  ASSUME TypeInv, ListInv
  PROVE  (\/ thread_yield \/ thread_yield_at_end \/ thread_create_unblock \/ thread_exit
          \/ thread_sleep \/ idle
          \/ \E p \in Priority : \/ thread_set_priority(p)
                                 \/ \E t \in Thread : thread_create(t, p)
          \/ \E n \in SleepTicks : timer_sleep(n))
         => ListInv'
<1> USE DEF clockVars, sleepVars, semaVars, monitorVars
<1>0. /\ current \in Thread /\ pc \in [Thread -> Label]
      /\ newborn \in [Thread -> Thread \cup {NULL}]
      /\ status[current] = "RUNNING"
      /\ \A t \in Thread : status[t] = "RUNNING" => t = current
      /\ current \notin Elements(ready_list) /\ current \notin Elements(sleeping_list)
      /\ \A s \in Sema : current \notin Elements(waiters[s])
      /\ NULL \notin Thread
  BY NamesAssumption DEF TypeInv, TypeOK, ListInv, WhereThreadsAre, ElemOnOneList, Sema
<1>1. ASSUME thread_yield PROVE ListInv'
  BY <1>1, YieldStep DEF thread_yield, callVars
<1>2. ASSUME thread_yield_at_end PROVE ListInv'
  BY <1>2, YieldStep DEF thread_yield_at_end
<1>3. ASSUME thread_create_unblock PROVE ListInv'
  <2> DEFINE b == newborn[current]
  <2>1. /\ b \in Thread /\ thread_unblock(b) /\ pc[current] = "thread_create"
        /\ newborn' = [newborn EXCEPT ![current] = NULL]
        /\ pc' = [pc EXCEPT ![current] = "run"]
        /\ UNCHANGED <<current, sleeping_list, waiters, sema>>
    BY <1>0, <1>3 DEF thread_create_unblock, At, Goto, TypeInv, CallInv
  <2>2. /\ status[b] = "BLOCKED" /\ b # idle_thread /\ pc[b] = "run"
        /\ b \notin Elements(sleeping_list)
        /\ \A u \in Thread : newborn[u] = b => u = current
        /\ \A s \in Sema : b \notin Elements(waiters[s])
    BY <1>0, <2>1 DEF ListInv, NewbornIsHidden, WhereThreadsAre
  <2> HIDE DEF b
  <2>3. /\ NoDuplicates(ready_list')
        /\ \A u \in Thread : /\ u \in Elements(ready_list')
                                  <=> status'[u] = "READY" /\ u # idle_thread
                             /\ status'[u] = IF u = b THEN "READY" ELSE status[u]
    BY <2>1, <2>2, WakeEffect
  <2>4. ElemOnOneList'
    BY <2>1, <2>2, <2>3 DEF ListInv, ElemOnOneList
  <2>5. BlockedIsFindable'
    BY SMTT(20), <1>0, <2>1, <2>2, <2>3 DEF ListInv, BlockedIsFindable, b
  <2>6. WhereThreadsAre'
    BY <1>0, <2>1, <2>2, <2>3 DEF ListInv, WhereThreadsAre
  <2>7. NewbornIsHidden'
    BY SMTT(20), <1>0, <2>1, <2>2, <2>3 DEF ListInv, NewbornIsHidden, b
  <2> QED BY <2>4, <2>5, <2>6, <2>7 DEF ListInv
<1>4. ASSUME thread_exit PROVE ListInv'
  <2>1. /\ pc[current] = "run"
        /\ schedule(ready_list, [status EXCEPT ![current] = "DYING"])
        /\ UNCHANGED <<sleeping_list, waiters, pc, sema, newborn>>
    BY <1>4 DEF thread_exit, At, callVars
  <2>2. /\ current' \in Thread
        /\ NoDuplicates(ready_list')
        /\ \A t \in Thread : /\ status'[t] = "RUNNING" <=> t = current'
                             /\ t \in Elements(ready_list')
                                  <=> status'[t] = "READY" /\ t # idle_thread
                             /\ t # current /\ status[t] = "BLOCKED" /\ t # idle_thread
                                  => status'[t] = "BLOCKED"
                             /\ t # current /\ status'[t] = "BLOCKED" => status[t] = "BLOCKED"
                             /\ t # current /\ status'[t] \in {"NONE", "DYING"}
                                  => status[t] \in {"NONE", "DYING"}
        /\ current # idle_thread /\ status'[current] \in {"NONE", "DYING"}
    BY <1>0, <2>1, LeaveStep DEF Status, ListInv, WhereThreadsAre
  <2>3. ElemOnOneList'
    BY <1>0, <2>1, <2>2 DEF ListInv, ElemOnOneList
  <2>4. BlockedIsFindable'
    BY <1>0, <2>1, <2>2 DEF ListInv, BlockedIsFindable
  <2>5. WhereThreadsAre'
    BY <1>0, <2>1, <2>2 DEF ListInv, WhereThreadsAre
  <2>6. NewbornIsHidden'
    BY SMTT(20), <1>0, <2>1, <2>2 DEF ListInv, NewbornIsHidden
  <2> QED BY <2>3, <2>4, <2>5, <2>6 DEF ListInv
<1>5. ASSUME thread_sleep PROVE ListInv'
  <2>1. /\ pc[current] = "timer_sleep" /\ pc' = [pc EXCEPT ![current] = "run"]
        /\ schedule(ready_list, [status EXCEPT ![current] = "BLOCKED"])
        /\ sleeping_list' = list_insert_ordered(sleeping_list, current,
                                                cmp_sleeping_thread(current))
        /\ UNCHANGED <<waiters, sema, newborn>>
    BY <1>5 DEF thread_sleep, At, Goto, thread_block
  <2>2. /\ current' \in Thread
        /\ NoDuplicates(ready_list')
        /\ \A t \in Thread : /\ status'[t] = "RUNNING" <=> t = current'
                             /\ t \in Elements(ready_list')
                                  <=> status'[t] = "READY" /\ t # idle_thread
                             /\ t # current /\ status[t] = "BLOCKED" /\ t # idle_thread
                                  => status'[t] = "BLOCKED"
                             /\ t # current /\ status'[t] = "BLOCKED" => status[t] = "BLOCKED"
                             /\ t # current /\ status'[t] \in {"NONE", "DYING"}
                                  => status[t] \in {"NONE", "DYING"}
        /\ current # idle_thread /\ status'[current] = "BLOCKED"
    BY <1>0, <2>1, LeaveStep DEF Status, ListInv, WhereThreadsAre
  <2>3. /\ NoDuplicates(sleeping_list')
        /\ Elements(sleeping_list') = Elements(sleeping_list) \cup {current}
    <3>1. sleeping_list \in Seq(Thread) /\ NoDuplicates(sleeping_list)
      BY DEF TypeInv, TypeOK, ListInv, ElemOnOneList
    <3> QED BY SMTT(20), <1>0, <2>1, <3>1, InsertOrderedElements
  <2>4. newborn[current] = NULL /\ \A t \in Thread : newborn[t] # current
    BY SMTT(20), <1>0, <2>1 DEF ListInv, NewbornIsHidden
  <2>5. ElemOnOneList'
    BY <1>0, <2>1, <2>2, <2>3 DEF ListInv, ElemOnOneList
  <2>6. BlockedIsFindable'
    BY <1>0, <2>1, <2>2, <2>3 DEF ListInv, BlockedIsFindable
  <2>7. WhereThreadsAre'
    BY <1>0, <2>1, <2>2, <2>3 DEF ListInv, WhereThreadsAre
  <2>8. NewbornIsHidden'
    BY SMTT(20), <1>0, <2>1, <2>2, <2>3, <2>4 DEF ListInv, NewbornIsHidden
  <2> QED BY <2>5, <2>6, <2>7, <2>8 DEF ListInv
<1>6. ASSUME idle PROVE ListInv'
  <2>1. /\ pc[current] = "idle" /\ pc' = [pc EXCEPT ![current] = "hlt"]
        /\ schedule(ready_list, [status EXCEPT ![current] = "BLOCKED"])
        /\ UNCHANGED <<sleeping_list, waiters, sema, newborn>>
    BY <1>6 DEF idle, At, Goto, thread_block
  <2>2. /\ current' \in Thread
        /\ NoDuplicates(ready_list')
        /\ \A t \in Thread : /\ status'[t] = "RUNNING" <=> t = current'
                             /\ t \in Elements(ready_list')
                                  <=> status'[t] = "READY" /\ t # idle_thread
                             /\ t # current /\ status[t] = "BLOCKED" /\ t # idle_thread
                                  => status'[t] = "BLOCKED"
                             /\ t # current /\ status'[t] = "BLOCKED" => status[t] = "BLOCKED"
                             /\ t # current /\ status'[t] \in {"NONE", "DYING"}
                                  => status[t] \in {"NONE", "DYING"}
        /\ current = idle_thread
    BY <1>0, <2>1, LeaveStep DEF Status, ListInv, WhereThreadsAre
  <2>3. newborn[current] = NULL /\ \A t \in Thread : newborn[t] # current
    BY SMTT(20), <1>0, <2>1 DEF ListInv, NewbornIsHidden
  <2>4. status'[current] \in {"RUNNING", "BLOCKED"}
    BY <1>0, <2>1, ThreadAssumption DEF schedule, TypeInv, TypeOK
  <2>5. ElemOnOneList'
    BY <1>0, <2>1, <2>2, <2>4 DEF ListInv, ElemOnOneList
  <2>6. BlockedIsFindable'
    BY <1>0, <2>1, <2>2 DEF ListInv, BlockedIsFindable
  <2>7. WhereThreadsAre'
    BY <1>0, <2>1, <2>2, <2>4 DEF ListInv, WhereThreadsAre
  <2>8. NewbornIsHidden'
    BY SMTT(20), <1>0, <2>1, <2>2, <2>3 DEF ListInv, NewbornIsHidden
  <2> QED BY <2>5, <2>6, <2>7, <2>8 DEF ListInv
<1>7. ASSUME NEW p \in Priority, thread_set_priority(p) PROVE ListInv'
  BY <1>7, QuietStep DEF thread_set_priority, cpuVars
<1>8. ASSUME NEW p \in Priority, NEW b \in Thread, thread_create(b, p) PROVE ListInv'
  <2>1. /\ pc[current] = "run" /\ pc' = [pc EXCEPT ![current] = "thread_create"]
        /\ status[b] = "NONE" /\ status' = [status EXCEPT ![b] = "BLOCKED"]
        /\ newborn' = [newborn EXCEPT ![current] = b]
        /\ UNCHANGED <<current, ready_list, sleeping_list, waiters, sema>>
    BY <1>8 DEF thread_create, At, Goto
  <2>2. /\ b # current /\ b # idle_thread /\ pc[b] = "run"
        /\ b \notin Elements(ready_list) /\ b \notin Elements(sleeping_list)
        /\ \A s \in Sema : b \notin Elements(waiters[s])
        /\ \A t \in Thread : newborn[t] # b
    BY SMTT(20), <1>0, <2>1 DEF ListInv, ElemOnOneList, WhereThreadsAre, NewbornIsHidden
  <2>3. \A t \in Thread : /\ status'[t] = IF t = b THEN "BLOCKED" ELSE status[t]
                          /\ newborn'[t] = IF t = current THEN b ELSE newborn[t]
                          /\ pc'[t] = IF t = current THEN "thread_create" ELSE pc[t]
    BY <1>0, <2>1 DEF TypeInv, TypeOK
  <2>4. current # idle_thread /\ newborn[current] = NULL
    BY <1>0, <2>1 DEF ListInv, WhereThreadsAre, NewbornIsHidden
  <2>5. ElemOnOneList'
    BY SMTT(20), <2>1, <2>2, <2>3 DEF ListInv, ElemOnOneList
  <2>6. BlockedIsFindable'
    BY SMTT(20), <1>0, <2>1, <2>2, <2>3, <2>4 DEF ListInv, BlockedIsFindable
  <2>7. WhereThreadsAre'
    BY SMTT(20), <1>0, <2>1, <2>2, <2>3, <2>4 DEF ListInv, WhereThreadsAre
  <2>8. NewbornIsHidden'
    BY SMTT(20), <1>0, <2>1, <2>2, <2>3, <2>4 DEF ListInv, NewbornIsHidden
  <2> QED BY <2>5, <2>6, <2>7, <2>8 DEF ListInv
<1>9. ASSUME NEW n \in SleepTicks, timer_sleep(n) PROVE ListInv'
  BY <1>0, <1>9, QuietStep DEF timer_sleep, At, Goto, cpuVars
<1> QED BY <1>1, <1>2, <1>3, <1>4, <1>5, <1>6, <1>7, <1>8, <1>9

\* The timer interrupt keeps the lists.
LEMMA TimerLists ==
  ASSUME TypeInv, ListInv
  PROVE  timer_interrupt \/ thread_wake_up \/ intr_return => ListInv'
<1> USE DEF clockVars, sleepVars, semaVars, monitorVars, callVars
<1>0. current \in Thread /\ pc \in [Thread -> Label]
  BY DEF TypeInv, TypeOK
<1>1. ASSUME timer_interrupt PROVE ListInv'
  BY <1>0, <1>1, QuietStep DEF timer_interrupt, LeaveHlt
<1>2. ASSUME thread_wake_up PROVE ListInv'
  <2> DEFINE w == Head(sleeping_list)
  <2>1. sleeping_list # <<>> /\ sleeping_list \in Seq(Thread) /\ NoDuplicates(sleeping_list)
    BY <1>2 DEF thread_wake_up, SleeperDue, TypeInv, TypeOK, ListInv, ElemOnOneList
  <2>2. /\ w \in Thread /\ w \in Elements(sleeping_list)
        /\ Elements(sleeping_list) = Elements(Tail(sleeping_list)) \cup {w}
        /\ NoDuplicates(Tail(sleeping_list)) /\ w \notin Elements(Tail(sleeping_list))
    BY <2>1, PopFrontElements
  <2>3. /\ thread_unblock(w) /\ sleeping_list' = Tail(sleeping_list)
        /\ UNCHANGED <<current, waiters, pc, sema, newborn>>
    BY <1>2 DEF thread_wake_up
  <2> HIDE DEF w
  <2>4. /\ status[w] = "BLOCKED" /\ w # idle_thread /\ pc[w] = "run"
        /\ \A s \in Sema : w \notin Elements(waiters[s])
        /\ \A t \in Thread : newborn[t] # w
    BY SMTT(20), <2>2, NamesAssumption DEF ListInv, ElemOnOneList, WhereThreadsAre, NewbornIsHidden, Sema
  <2>5. /\ NoDuplicates(ready_list')
        /\ \A u \in Thread : /\ u \in Elements(ready_list')
                                  <=> status'[u] = "READY" /\ u # idle_thread
                             /\ status'[u] = IF u = w THEN "READY" ELSE status[u]
    BY <2>2, <2>3, <2>4, WakeEffect
  <2>6. ElemOnOneList'
    BY <2>2, <2>3, <2>4, <2>5 DEF ListInv, ElemOnOneList
  <2>7. BlockedIsFindable'
    BY <2>2, <2>3, <2>4, <2>5 DEF ListInv, BlockedIsFindable
  <2>8. WhereThreadsAre'
    BY <2>2, <2>3, <2>4, <2>5 DEF ListInv, WhereThreadsAre
  <2>9. NewbornIsHidden'
    BY SMTT(20), <2>2, <2>3, <2>4, <2>5 DEF ListInv, NewbornIsHidden, TypeInv, TypeOK
  <2> QED BY <2>6, <2>7, <2>8, <2>9 DEF ListInv
<1>3. ASSUME intr_return PROVE ListInv'
  <2>1. CASE thread_ticks >= TIME_SLICE
    BY <1>3, <2>1, YieldStep DEF intr_return
  <2>2. CASE ~ (thread_ticks >= TIME_SLICE)
    BY <1>3, <2>2, QuietStep DEF intr_return, cpuVars
  <2> QED BY <2>1, <2>2
<1> QED BY <1>1, <1>2, <1>3

LEMMA ListStep == TypeInv /\ ListInv /\ [Next]_vars => ListInv'
<1>1. ASSUME TypeInv, ListInv, Next PROVE ListInv'
  BY <1>1, ThreadOpsLists, TimerLists, SynchLists DEF Next, Interrupt, Continue, Call
<1>2. ASSUME TypeInv, ListInv, UNCHANGED vars PROVE ListInv'
  BY <1>2, QuietStep DEF vars, cpuVars, sleepVars, semaVars, callVars
<1> QED BY <1>1, <1>2

\* The one list_elem of a thread is never on two lists or twice on one: no call
\* of synch.c, timer.c or thread.c inserts a thread that is still on a list.
THEOREM OneListPerThread == Spec => []ElemOnOneList
<1>1. ListInv => ElemOnOneList
  BY DEF ListInv
<1> QED BY <1>1, TypeInit, TypeStep, ListInit, ListStep, PTL DEF Spec

\* A blocked thread is always where the call that must wake it will look.
THEOREM NoThreadIsLost == Spec => []BlockedIsFindable
<1>1. ListInv => BlockedIsFindable
  BY DEF ListInv
<1> QED BY <1>1, TypeInit, TypeStep, ListInit, ListStep, PTL DEF Spec
-----------------------------------------------------------------------------
(***************************************************************************)
(* Wake-ups.  A unit of a semaphore that has waiters is on its way to a    *)
(* thread that sema_up() unblocked: sema_up() adds one of each, and        *)
(* sema_down() takes a unit whether or not it takes a woken thread.        *)
(***************************************************************************)

LEMMA WokenFinite ==
  \A s : IsFiniteSet(Woken(s)) /\ Cardinality(Woken(s)) \in Nat
<1> SUFFICES ASSUME NEW s PROVE IsFiniteSet(Woken(s)) /\ Cardinality(Woken(s)) \in Nat
  OBVIOUS
<1>1. Woken(s) \subseteq Thread
  BY DEF Woken
<1> QED BY <1>1, ThreadAssumption, FS_Subset, FS_CardinalityType

\* The threads woken from S are the same when the wait list is and no thread
\* entered or left sema_down().
LEMMA WokenSame ==
  ASSUME NEW s, waiters'[s] = waiters[s],
         \A t \in Thread : \/ pc'[t] = pc[t] /\ sema'[t] = sema[t]
                           \/ /\ pc[t] = "sema_down" => sema[t] # s
                              /\ pc'[t] = "sema_down" => sema'[t] # s
  PROVE  Woken(s)' = Woken(s)
  BY DEF Woken

\* A step that raises no semaphore and wakes nobody.
LEMMA WakeQuiet ==
  ASSUME TypeInv, NoLostWakeup,
         \A s \in Sema : \/ waiters'[s] = <<>>
                         \/ waiters'[s] = waiters[s] /\ value'[s] \in 0..value[s],
         \A t \in Thread : \/ pc'[t] = pc[t] /\ sema'[t] = sema[t]
                           \/ pc[t] # "sema_down" /\ pc'[t] # "sema_down"
  PROVE  NoLostWakeup'
<1> SUFFICES ASSUME NEW s \in Sema, waiters'[s] # <<>>
             PROVE  value'[s] <= Cardinality(Woken(s)')
  BY DEF NoLostWakeup
<1>1. waiters'[s] = waiters[s] /\ value'[s] \in 0..value[s] /\ value[s] \in Nat
  BY DEF TypeInv, TypeOK
<1>2. Woken(s)' = Woken(s)
  BY <1>1, WokenSame
<1>3. value[s] <= Cardinality(Woken(s)) /\ Cardinality(Woken(s)) \in Nat
  BY <1>1, WokenFinite DEF NoLostWakeup
<1> QED BY SMTT(20), <1>1, <1>2, <1>3

\* One turn of sema_down(S), by a thread that is new to it or was woken from S.
LEMMA WakeDown ==
  ASSUME TypeInv, ListInv, NoLostWakeup, NEW s \in Sema, SemaDown(s),
         pc[current] = "sema_down" => sema[current] = s
  PROVE  NoLostWakeup'
<1>0. PICK me \in Thread : me = current
  BY DEF TypeInv, TypeOK
<1>1. \A t \in Thread \ {me} : pc'[t] = pc[t] /\ sema'[t] = sema[t]
  BY <1>0 DEF SemaDown, Goto, TypeInv, TypeOK
<1>2. CASE value[s] = 0
  <2>1. /\ \A r \in Sema \ {s} : waiters'[r] = waiters[r]
        /\ value' = value /\ sema'[me] = s
    BY SMTT(20), <1>0, <1>2 DEF SemaDown, TypeInv, TypeOK
  <2>2. SUFFICES ASSUME NEW r \in Sema, waiters'[r] # <<>>
                 PROVE  value'[r] <= Cardinality(Woken(r)')
    BY DEF NoLostWakeup
  <2>3. CASE r = s
    <3>1. Woken(r)' \subseteq Thread
      BY DEF Woken
    <3>2. Cardinality(Woken(r)') \in Nat
      BY <3>1, ThreadAssumption, FS_Subset, FS_CardinalityType
    <3> QED BY SMTT(20), <1>2, <2>1, <2>3, <3>2
  <2>4. CASE r # s
    <3>1. Woken(r)' = Woken(r)
      BY <1>0, <1>1, <2>1, <2>4, WokenSame
    <3> QED BY <2>1, <2>2, <2>4, <3>1 DEF NoLostWakeup
  <2> QED BY <2>3, <2>4
<1>3. CASE value[s] > 0
  <2>1. /\ waiters' = waiters /\ value' = [value EXCEPT ![s] = @ - 1]
        /\ value[s] - 1 \in Nat /\ value'[s] = value[s] - 1
        /\ \A r \in Sema \ {s} : value'[r] = value[r]
    BY SMTT(20), <1>3 DEF SemaDown, TypeInv, TypeOK
  <2>2. Return(s) # "sema_down"
    BY DEF Return
  <2>3. pc'[me] # "sema_down"
    BY SMTT(20), <1>0, <1>3, <2>2 DEF SemaDown, Goto, TypeInv, TypeOK
  <2>4. CASE pc[me] # "sema_down"
    <3>1. \A r \in Sema : value[r] \in Nat
      BY DEF TypeInv, TypeOK
    <3>2. \A r \in Sema : value'[r] \in 0..value[r]
      BY SMTT(20), <2>1, <3>1
    <3> QED BY <1>1, <2>1, <2>3, <2>4, <3>2, WakeQuiet
  <2>5. CASE pc[me] = "sema_down"
    <3>1. SUFFICES ASSUME NEW r \in Sema, waiters[r] # <<>>
                   PROVE  value'[r] <= Cardinality(Woken(r)')
      BY <2>1 DEF NoLostWakeup
    <3>2. value[r] <= Cardinality(Woken(r)) /\ value[r] \in Nat
      BY <3>1 DEF NoLostWakeup, TypeInv, TypeOK
    <3>3. CASE r = s
      <4>1. me \notin Elements(waiters[s])
        BY <1>0 DEF ListInv, ElemOnOneList, WhereThreadsAre
      <4>2. me \in Woken(s) /\ Woken(s)' = Woken(s) \ {me}
        BY <1>0, <1>1, <2>1, <2>3, <2>5, <4>1 DEF Woken
      <4>3. /\ Cardinality(Woken(s)') = Cardinality(Woken(s)) - 1
            /\ Cardinality(Woken(s)) \in Nat
        BY <4>2, WokenFinite, FS_RemoveElement
      <4> QED BY SMTT(20), <2>1, <3>2, <3>3, <4>3
    <3>4. CASE r # s
      <4>1. Woken(r)' = Woken(r)
        BY <1>0, <1>1, <2>1, <2>3, <2>5, <3>4, WokenSame
      <4> QED BY <2>1, <3>2, <3>4, <4>1
    <3> QED BY <3>3, <3>4
  <2> QED BY <2>4, <2>5
<1> QED BY SMTT(20), <1>2, <1>3 DEF TypeInv, TypeOK

\* sema_up(S): a unit more and, if anybody waits, one more woken thread.
LEMMA WakeUp ==
  ASSUME TypeInv, ListInv, NoLostWakeup, NEW s \in Sema, SemaUp(s),
         \A t \in Thread : \/ pc'[t] = pc[t] /\ sema'[t] = sema[t]
                           \/ pc[t] # "sema_down" /\ pc'[t] # "sema_down"
  PROVE  NoLostWakeup'
<1>1. \A r \in Sema \ {s} : value'[r] = value[r] /\ waiters'[r] = waiters[r]
  BY DEF SemaUp, TypeInv, TypeOK
<1>2. SUFFICES ASSUME NEW r \in Sema, waiters'[r] # <<>>
               PROVE  value'[r] <= Cardinality(Woken(r)')
  BY DEF NoLostWakeup
<1>3. CASE r # s
  <2>1. Woken(r)' = Woken(r)
    BY <1>1, <1>3, WokenSame
  <2> QED BY <1>1, <1>2, <1>3, <2>1 DEF NoLostWakeup
<1>4. CASE r = s
  <2>1. /\ waiters[s] # <<>> /\ waiters'[s] = Tail(waiters[s])
        /\ value'[s] = value[s] + 1 /\ value[s] \in Nat
        /\ waiters[s] \in Seq(Thread) /\ NoDuplicates(waiters[s])
    BY <1>2, <1>4 DEF SemaUp, TypeInv, TypeOK, ListInv, ElemOnOneList
  <2>2. PICK w \in Thread : /\ w \in Elements(waiters[s])
                            /\ Elements(waiters[s]) = Elements(Tail(waiters[s])) \cup {w}
                            /\ w \notin Elements(Tail(waiters[s]))
    BY <2>1, PopFrontElements
  <2>3. pc[w] = "sema_down" /\ sema[w] = s
    BY <2>2 DEF ListInv, WhereThreadsAre
  <2>4. w \notin Woken(s) /\ Woken(s)' = Woken(s) \cup {w}
    BY <2>1, <2>2, <2>3 DEF Woken
  <2>5. /\ Cardinality(Woken(s)') = Cardinality(Woken(s)) + 1
        /\ Cardinality(Woken(s)) \in Nat
    BY <2>4, WokenFinite, FS_AddElement
  <2>6. value[s] <= Cardinality(Woken(s))
    BY <2>1 DEF NoLostWakeup
  <2> QED BY SMTT(20), <1>4, <2>1, <2>5, <2>6
<1> QED BY <1>3, <1>4

LEMMA WakeInit == Init => NoLostWakeup
  BY DEF Init, NoLostWakeup

LEMMA WakeStep == TypeInv /\ ListInv /\ NoLostWakeup /\ [Next]_vars => NoLostWakeup'
<1> SUFFICES ASSUME TypeInv, ListInv, NoLostWakeup, [Next]_vars PROVE NoLostWakeup'
  OBVIOUS
<1> USE DEF clockVars, sleepVars, semaVars, monitorVars, callVars
<1>0. /\ current \in Thread /\ pc \in [Thread -> Label] /\ value \in [Sema -> Nat]
      /\ waiters \in [Sema -> Seq(Thread)]
      /\ sema \in [Thread -> Sema \cup {NULL}]
      /\ Lock \subseteq Sema /\ Semaphore \subseteq Sema /\ Thread \subseteq Sema
      /\ IntrSemaphore \subseteq Semaphore
      /\ \A c \in Condition : cond_lock[c] \in Lock
      /\ \A s \in Sema : value[s] \in 0..value[s]
      /\ \A s \in Sema : value[s] > 0 => value[s] - 1 \in 0..value[s]
  BY SMTT(20), NamesAssumption DEF TypeInv, TypeOK, Sema
<1>1. CASE \/ thread_yield \/ thread_exit \/ thread_yield_at_end \/ thread_wake_up \/ intr_return
           \/ \E p \in Priority : thread_set_priority(p)
           \/ UNCHANGED vars
  BY <1>0, <1>1, WakeQuiet DEF thread_yield, thread_exit, thread_yield_at_end, thread_wake_up,
                               intr_return, thread_set_priority, vars
<1>2. CASE \/ thread_create_unblock \/ thread_sleep \/ idle \/ timer_interrupt
           \/ \E p \in Priority, t \in Thread : thread_create(t, p)
           \/ \E n \in SleepTicks : timer_sleep(n)
           \/ lock_set_holder
           \/ \E l \in Lock : lock_release(l)
           \/ \E c \in Condition : cond_broadcast(c)
  BY <1>0, <1>2, WakeQuiet DEF thread_create_unblock, thread_sleep, idle, timer_interrupt,
                               thread_create, timer_sleep, At, Goto, LeaveHlt,
                               lock_set_holder, lock_release, cond_broadcast
<1>3. ASSUME NEW s \in IntrSemaphore, device_interrupt(s) PROVE NoLostWakeup'
  BY <1>0, <1>3, WakeUp DEF device_interrupt, LeaveHlt
<1>4. ASSUME NEW s \in Semaphore, sema_down(s) PROVE NoLostWakeup'
  BY <1>0, <1>4, WakeDown DEF sema_down, At
<1>5. ASSUME NEW s \in Semaphore, sema_try_down(s) PROVE NoLostWakeup'
  <2>1. /\ \A r \in Sema : value'[r] \in 0..value[r]
        /\ waiters' = waiters /\ pc' = pc /\ sema' = sema
    BY <1>0, <1>5 DEF sema_try_down
  <2> QED BY <2>1, WakeQuiet
<1>6. ASSUME NEW s \in Semaphore, sema_up(s) PROVE NoLostWakeup'
  BY <1>0, <1>6, WakeUp DEF sema_up
<1>7. CASE sema_down_retry
  <2>1. sema[current] \in Sema
    BY <1>0, <1>7 DEF sema_down_retry, At, TypeInv, CallInv
  <2> QED BY <1>7, <2>1, WakeDown DEF sema_down_retry
<1>8. CASE cond_down
  BY <1>0, <1>8, WakeDown DEF cond_down, At
<1>9. CASE cond_acquire
  <2>1. pc[current] = "cond_acquire" /\ cond_lock[cond[current]] \in Sema
    BY <1>0, <1>9 DEF cond_acquire, At, TypeInv, CallInv
  <2> QED BY <1>9, <2>1, WakeDown DEF cond_acquire
<1>10. ASSUME NEW l \in Lock, lock_acquire(l) PROVE NoLostWakeup'
  BY <1>0, <1>10, WakeDown DEF lock_acquire, At
<1>11. ASSUME NEW l \in Lock, lock_try_acquire(l) PROVE NoLostWakeup'
  <2>1. /\ \A r \in Sema : value'[r] \in 0..value[r]
        /\ waiters' = waiters
    BY <1>0, <1>11 DEF lock_try_acquire
  <2> QED BY <1>0, <1>11, <2>1, WakeQuiet DEF lock_try_acquire, At, Goto
<1>12. CASE lock_release_up
  <2>1. sema[current] \in Sema /\ pc[current] # "sema_down"
    BY <1>0, <1>12 DEF lock_release_up, At, TypeInv, CallInv
  <2> QED BY <1>0, <1>12, <2>1, WakeUp DEF lock_release_up, Goto
<1>13. ASSUME NEW c \in Condition, cond_wait(c) PROVE NoLostWakeup'
  <2>1. \A s \in Sema : \/ waiters'[s] = <<>>
                        \/ waiters'[s] = waiters[s] /\ value'[s] = value[s]
    BY <1>0, <1>13 DEF cond_wait
  <2> QED BY <1>0, <1>13, <2>1, WakeQuiet DEF cond_wait, At, Goto
<1>14. ASSUME NEW c \in Condition, Signal(c), pc' = pc, sema' = sema PROVE NoLostWakeup'
  <2>1. Head(cond_waiters[c]) \in Sema
    BY <1>0, <1>14, PopFrontElements DEF Signal, TypeInv, TypeOK
  <2> QED BY <1>14, <2>1, WakeUp DEF Signal
<1>15. ASSUME NEW c \in Condition, cond_signal(c) PROVE NoLostWakeup'
  BY <1>14, <1>15 DEF cond_signal
<1>16. CASE cond_broadcast_loop
  <2>1. cond[current] \in Condition /\ pc[current] = "cond_broadcast"
    BY <1>0, <1>16 DEF cond_broadcast_loop, At, TypeInv, CallInv
  <2>2. CASE Signal(cond[current]) /\ UNCHANGED <<pc, cond>>
    BY <1>14, <1>16, <2>1, <2>2 DEF cond_broadcast_loop
  <2>3. CASE Goto("run") /\ UNCHANGED <<cpuVars, semaVars, cond_waiters, yielding>>
    BY <1>0, <1>16, <2>1, <2>3, WakeQuiet DEF cond_broadcast_loop, Goto
  <2> QED BY <1>16, <2>2, <2>3 DEF cond_broadcast_loop
<1> QED BY <1>1, <1>2, <1>3, <1>4, <1>5, <1>6, <1>7, <1>8, <1>9, <1>10, <1>11, <1>12,
           <1>13, <1>15, <1>16 DEF Next, Interrupt, Continue, Call

\* sema_up() wakes one thread, and sema_down() by a third thread may take the
\* unit first, yet no waiter is left asleep beside a unit that nobody is on the
\* way to take.
THEOREM NoWakeupIsLost == Spec => []NoLostWakeup
  BY TypeInit, TypeStep, ListInit, ListStep, WakeInit, WakeStep, PTL DEF Spec
-----------------------------------------------------------------------------


\* The key by which cmp_priority_thread() sorts.
Rank == [t \in Thread |-> 0 - priority[t]]

\* Higher priorities have lower ranks, and both comparisons sort alike.
LEMMA RankFacts ==
  ASSUME TypeOK
  PROVE  /\ Rank \in [Thread -> Int]
         /\ \A t, u \in Thread : Rank[t] <= Rank[u] <=> priority[t] >= priority[u]
         /\ \A t, u \in Thread : u \in cmp_priority_thread(t) <=> Rank[u] > Rank[t]
         /\ \A list \in Seq(Thread) : ByPriority(list) <=> SortedBy(list, Rank)
<1>1. /\ \A t \in Thread : Rank[t] = 0 - priority[t] /\ priority[t] \in Int
      /\ Rank \in [Thread -> Int]
  BY SMTT(20), NumbersAssumption DEF Rank, TypeOK, Priority
<1>2. \A t, u \in Thread : /\ Rank[t] <= Rank[u] <=> priority[t] >= priority[u]
                           /\ Rank[u] > Rank[t] <=> priority[t] > priority[u]
  BY SMTT(20), <1>1
<1>3. \A t, u \in Thread : u \in cmp_priority_thread(t) <=> Rank[u] > Rank[t]
  BY <1>2 DEF cmp_priority_thread
<1>4. ASSUME NEW list \in Seq(Thread) PROVE ByPriority(list) <=> SortedBy(list, Rank)
  <2>1. \A i \in 1..Len(list) : list[i] \in Thread
    BY SMTT(20)
  <2> QED BY <1>2, <2>1 DEF ByPriority, SortedBy
<1> QED BY <1>1, <1>2, <1>3, <1>4

\* A thread is inserted where its priority belongs.
LEMMA InsertByPriority ==
  ASSUME TypeOK, NEW list \in Seq(Thread), ByPriority(list), NEW t \in Thread
  PROVE  ByPriority(list_insert_ordered(list, t, cmp_priority_thread(t)))
<1>1. SortedBy(list, Rank) /\ Rank \in [Thread -> Int]
  BY RankFacts
<1>2. SortedBy(list_insert_ordered(list, t, cmp_priority_thread(t)), Rank)
  BY <1>1, RankFacts, InsertOrderedSorted
<1>3. list_insert_ordered(list, t, cmp_priority_thread(t)) \in Seq(Thread)
  BY InsertOrderedElements
<1> QED BY <1>2, <1>3, RankFacts

\* The front thread has the highest priority.
LEMMA PopByPriority ==
  ASSUME TypeOK, NEW list \in Seq(Thread), ByPriority(list), list # <<>>
  PROVE  /\ ByPriority(Tail(list))
         /\ \A t \in Elements(list) : priority[t] <= priority[Head(list)]
<1>1. SortedBy(list, Rank) /\ Rank \in [Thread -> Int]
  BY RankFacts
<1>2. /\ SortedBy(Tail(list), Rank)
      /\ \A t \in Elements(list) : Rank[Head(list)] <= Rank[t]
  BY <1>1, PopFrontSorted
<1>3. Tail(list) \in Seq(Thread) /\ Head(list) \in Thread /\ Elements(list) \subseteq Thread
  BY PopFrontElements, EmptyElements
<1>4. \A t \in Elements(list) : priority[Head(list)] >= priority[t]
  BY <1>2, <1>3, RankFacts
<1>5. \A t \in Thread : priority[t] \in Int
  BY SMTT(20), NumbersAssumption DEF TypeOK, Priority
<1>6. \A t \in Elements(list) : priority[t] <= priority[Head(list)]
  BY SMTT(20), <1>3, <1>4, <1>5
<1> QED BY <1>2, <1>3, <1>6, RankFacts

\* What the properties say of a thread that gets the processor.
BestRuns ==
  /\ \A t \in Elements(ready_list') : priority'[t] <= priority'[current']
  /\ current' = idle_thread => ready_list' = <<>>

\* schedule() dispatches the front of a sorted list.
LEMMA OrderSchedule ==
  ASSUME TypeOK, NEW ready \in Seq(Thread), NEW st, ByPriority(ready), NoDuplicates(ready),
         idle_thread \notin Elements(ready), schedule(ready, st), priority' = priority
  PROVE  ByPriority(ready_list)' /\ BestRuns
<1>1. CASE ready = <<>>
  <2>1. ready_list' = <<>>
    BY <1>1 DEF schedule
  <2>2. Elements(ready_list') = {} /\ ByPriority(<<>>)
    BY SMTT(20), <2>1, EmptyList DEF ByPriority
  <2> QED BY <2>1, <2>2 DEF BestRuns, ByPriority
<1>2. CASE ready # <<>>
  <2>1. current' = Head(ready) /\ ready_list' = Tail(ready)
    BY <1>2 DEF schedule, next_thread_to_run
  <2>2. /\ ByPriority(Tail(ready))
        /\ \A t \in Elements(ready) : priority[t] <= priority[Head(ready)]
    BY <1>2, PopByPriority
  <2>3. Head(ready) \in Elements(ready) /\ Elements(Tail(ready)) \subseteq Elements(ready)
    BY <1>2, PopFrontElements
  <2>4. ByPriority(ready_list)'
    BY <2>1, <2>2 DEF ByPriority
  <2> QED BY <2>1, <2>2, <2>3, <2>4 DEF BestRuns
<1> QED BY <1>1, <1>2

\* A step that changes no list, and no key of a thread on one.
LEMMA OrderQuiet ==
  ASSUME TypeInv, ListInv, ListsSorted,
         ready_list' = ready_list, sleeping_list' = sleeping_list, waiters' = waiters,
         \A t \in Thread : t # current /\ status[t] # "NONE" =>
           priority'[t] = priority[t] /\ wake_up_tick'[t] = wake_up_tick[t]
  PROVE  ListsSorted'
<1>1. \A list \in Seq(Thread) : \A i \in 1..Len(list) : list[i] \in Thread /\ list[i] \in Elements(list)
  BY SMTT(20) DEF Elements, Range
<1>2. /\ ready_list \in Seq(Thread) /\ sleeping_list \in Seq(Thread)
      /\ \A s \in Sema : waiters[s] \in Seq(Thread)
      /\ \A t \in Thread : status[t] = "RUNNING" <=> t = current
  BY DEF TypeInv, TypeOK, ListInv, WhereThreadsAre
<1>3. \A t \in Elements(ready_list) \cup Elements(sleeping_list) :
        t \in Thread => priority'[t] = priority[t] /\ wake_up_tick'[t] = wake_up_tick[t]
  BY <1>2 DEF ListInv, ElemOnOneList
<1>4. \A s \in Sema : \A t \in Elements(waiters[s]) : t \in Thread => priority'[t] = priority[t]
  BY <1>2 DEF ListInv, ElemOnOneList
<1>5. ByPriority(ready_list)'
  BY <1>1, <1>2, <1>3 DEF ListsSorted, ByPriority
<1>6. ByWakeUpTick(sleeping_list)'
  BY <1>1, <1>2, <1>3 DEF ListsSorted, ByWakeUpTick
<1>7. \A s \in Sema : ByPriority(waiters[s])'
  BY <1>1, <1>2, <1>4 DEF ListsSorted, ByPriority
<1> QED BY <1>5, <1>6, <1>7 DEF ListsSorted

\* Where the lists are in order, the idle thread is on none of them.
LEMMA ReadyFacts ==
  ASSUME TypeInv, ListInv, ListsSorted
  PROVE  /\ TypeOK /\ current \in Thread
         /\ ready_list \in Seq(Thread) /\ NoDuplicates(ready_list) /\ ByPriority(ready_list)
         /\ idle_thread \notin Elements(ready_list) /\ current \notin Elements(ready_list)
         /\ sleeping_list \in Seq(Thread) /\ ByWakeUpTick(sleeping_list)
         /\ \A s \in Sema : waiters[s] \in Seq(Thread) /\ ByPriority(waiters[s])
  BY ThreadAssumption DEF TypeInv, TypeOK, ListInv, ElemOnOneList, WhereThreadsAre, ListsSorted

\* The lists a step leaves alone stay in order when no key changes.
LEMMA OtherLists ==
  ASSUME ListsSorted, UNCHANGED <<priority, wake_up_tick>>
  PROVE  /\ sleeping_list' = sleeping_list => ByWakeUpTick(sleeping_list)'
         /\ ready_list' = ready_list => ByPriority(ready_list)'
         /\ \A s \in Sema : waiters'[s] = waiters[s] => ByPriority(waiters[s])'
  BY DEF ListsSorted, ByWakeUpTick, ByPriority

\* thread_yield(): the running thread goes behind those of its own priority.
LEMMA OrderYield ==
  ASSUME TypeInv, ListInv, ListsSorted, yield,
         UNCHANGED <<priority, wake_up_tick, sleeping_list, waiters>>
  PROVE  ListsSorted' /\ BestRuns
<1> DEFINE ins == list_insert_ordered(ready_list, current, cmp_priority_thread(current))
           r == IF current = idle_thread THEN ready_list ELSE ins
           st == [status EXCEPT ![current] = "READY"]
<1>1. /\ ins \in Seq(Thread) /\ NoDuplicates(ins)
      /\ Elements(ins) = Elements(ready_list) \cup {current}
  BY SMTT(20), ReadyFacts, InsertOrderedElements
<1>2. ByPriority(ins)
  BY ReadyFacts, InsertByPriority
<1>3. schedule(r, st)
  BY DEF yield
<1> HIDE DEF ins, st
<1>4. /\ r \in Seq(Thread) /\ NoDuplicates(r) /\ ByPriority(r)
      /\ idle_thread \notin Elements(r)
  BY <1>1, <1>2, ReadyFacts
<1> HIDE DEF r
<1>5. ByPriority(ready_list)' /\ BestRuns
  BY <1>3, <1>4, ReadyFacts, OrderSchedule
<1> QED BY <1>5, OtherLists DEF ListsSorted

\* thread_block() and the end of thread_exit().
LEMMA OrderLeave ==
  ASSUME TypeInv, ListInv, ListsSorted, NEW st, schedule(ready_list, st), priority' = priority
  PROVE  ByPriority(ready_list)' /\ BestRuns
  BY ReadyFacts, OrderSchedule

\* thread_unblock(): the thread goes where its priority belongs.
LEMMA OrderUnblock ==
  ASSUME TypeInv, ListInv, ListsSorted, NEW t \in Thread, thread_unblock(t),
         priority' = priority
  PROVE  ByPriority(ready_list)'
<1>1. ByPriority(list_insert_ordered(ready_list, t, cmp_priority_thread(t)))
  BY ReadyFacts, InsertByPriority
<1> QED BY <1>1 DEF thread_unblock, ByPriority

\* One turn of sema_down(): the thread goes to its place on the wait list.
LEMMA OrderDown ==
  ASSUME TypeInv, ListInv, ListsSorted, NEW s \in Sema, SemaDown(s),
         UNCHANGED <<priority, wake_up_tick, sleeping_list>>
  PROVE  ListsSorted' /\ (current' # current => BestRuns)
<1>1. CASE value[s] = 0
  <2>1. /\ waiters' = [waiters EXCEPT ![s] =
                      list_insert_ordered(@, current, cmp_priority_thread(current))]
        /\ schedule(ready_list, [status EXCEPT ![current] = "BLOCKED"])
    BY SMTT(20), <1>1 DEF SemaDown, thread_block
  <2>2. ByPriority(ready_list)' /\ BestRuns
    BY <2>1, OrderLeave
  <2>3. /\ waiters'[s] = list_insert_ordered(waiters[s], current, cmp_priority_thread(current))
        /\ \A r \in Sema \ {s} : waiters'[r] = waiters[r]
    BY <2>1 DEF TypeInv, TypeOK
  <2>4. ByPriority(list_insert_ordered(waiters[s], current, cmp_priority_thread(current)))
    BY ReadyFacts, InsertByPriority
  <2>5. ByPriority(waiters[s])'
    BY <2>3, <2>4 DEF ByPriority
  <2> QED BY <2>2, <2>3, <2>5, OtherLists DEF ListsSorted
<1>2. CASE value[s] > 0
  <2>1. UNCHANGED <<cpuVars, waiters>>
    BY SMTT(20), <1>2 DEF SemaDown
  <2> QED BY <2>1, OtherLists DEF ListsSorted, cpuVars
<1>3. value[s] = 0 \/ value[s] > 0
  BY SMTT(20) DEF TypeInv, TypeOK
<1> QED BY <1>1, <1>2, <1>3

\* sema_up(): the waiter of the highest priority moves to the ready list.
LEMMA OrderUp ==
  ASSUME TypeInv, ListInv, ListsSorted, NEW s \in Sema, SemaUp(s),
         UNCHANGED <<priority, wake_up_tick, sleeping_list>>
  PROVE  ListsSorted' /\ current' = current
<1>0. current' = current
  BY DEF SemaUp
<1>1. CASE waiters[s] = <<>>
  BY <1>0, <1>1, OtherLists DEF SemaUp, ListsSorted
<1>2. CASE waiters[s] # <<>>
  <2>1. thread_unblock(Head(waiters[s])) /\ waiters' = [waiters EXCEPT ![s] = Tail(@)]
    BY <1>2 DEF SemaUp
  <2>2. Head(waiters[s]) \in Thread /\ ByPriority(Tail(waiters[s]))
    BY <1>2, ReadyFacts, PopFrontElements, PopByPriority
  <2>3. /\ waiters'[s] = Tail(waiters[s])
        /\ \A r \in Sema \ {s} : waiters'[r] = waiters[r]
    BY <2>1 DEF TypeInv, TypeOK
  <2>4. ByPriority(waiters[s])'
    BY <2>2, <2>3 DEF ByPriority
  <2>5. ByPriority(ready_list)'
    BY <2>1, <2>2, OrderUnblock
  <2> QED BY <1>0, <2>3, <2>4, <2>5, OtherLists DEF ListsSorted
<1> QED BY <1>1, <1>2

\* thread_aging(): the ready threads keep their order up to PRI_MAX, and no
\* other list has a ready thread on it.
LEMMA OrderAging ==
  ASSUME TypeInv, ListInv, ListsSorted, thread_aging,
         UNCHANGED <<ready_list, sleeping_list, waiters, wake_up_tick>>
  PROVE  ListsSorted'
<1>1. CASE priority' = priority
  BY <1>1, OtherLists DEF ListsSorted
<1>2. CASE priority' # priority
  <2>0. /\ priority \in [Thread -> Priority] /\ ready_list \in Seq(Thread)
        /\ \A t \in Thread : priority[t] \in Int /\ priority[t] <= PRI_MAX
    BY SMTT(20), NumbersAssumption DEF TypeInv, TypeOK, Priority
  <2>1. \A t \in Thread : priority'[t] = IF t \in Elements(ready_list) /\ priority[t] < PRI_MAX
                                         THEN priority[t] + 1 ELSE priority[t]
    BY <1>2 DEF thread_aging
  <2>2. \A t \in Thread : t \in Elements(ready_list) =>
          /\ priority[t] < PRI_MAX => priority'[t] = priority[t] + 1
          /\ ~ (priority[t] < PRI_MAX) => priority'[t] = priority[t]
    BY <2>1
  <2>3. ASSUME NEW t \in Thread, NEW u \in Thread, t \in Elements(ready_list),
               u \in Elements(ready_list), priority[t] >= priority[u]
        PROVE  priority'[t] >= priority'[u]
    BY ONLY SMTT(20), <2>0, <2>2, <2>3, NumbersAssumption
  <2>4. \A i \in 1..Len(ready_list) : ready_list[i] \in Thread /\ ready_list[i] \in Elements(ready_list)
    BY SMTT(20), <2>0 DEF Elements, Range
  <2>5. ByPriority(ready_list)'
    BY <2>3, <2>4 DEF ListsSorted, ByPriority
  <2>6. \A s \in Sema : \A t \in Thread : t \in Elements(waiters[s]) => priority'[t] = priority[t]
    BY <2>1 DEF ListInv, ElemOnOneList
  <2>7. ASSUME NEW s \in Sema PROVE ByPriority(waiters[s])'
    <3>1. \A i \in 1..Len(waiters[s]) :
            waiters[s][i] \in Thread /\ waiters[s][i] \in Elements(waiters[s])
      BY SMTT(20), ReadyFacts DEF Elements, Range
    <3> QED BY <2>6, <2>7, <3>1 DEF ListsSorted, ByPriority
  <2>8. ByWakeUpTick(sleeping_list)'
    BY DEF ListsSorted, ByWakeUpTick
  <2> QED BY <2>5, <2>7, <2>8 DEF ListsSorted
<1> QED BY <1>1, <1>2

\* thread_sleep(): the sleeper goes where its wake-up time belongs.
LEMMA OrderSleep ==
  ASSUME TypeInv, ListInv, ListsSorted, thread_sleep
  PROVE  ListsSorted' /\ BestRuns
<1>0. /\ UNCHANGED <<wake_up_tick, priority, waiters>>
      /\ sleeping_list' = list_insert_ordered(sleeping_list, current, cmp_sleeping_thread(current))
      /\ schedule(ready_list, [status EXCEPT ![current] = "BLOCKED"])
  BY DEF thread_sleep, thread_block, semaVars
<1>1. /\ wake_up_tick \in [Thread -> Int]
      /\ \A u \in Thread : u \in cmp_sleeping_thread(current)
                             <=> wake_up_tick[u] > wake_up_tick[current]
      /\ SortedBy(sleeping_list, wake_up_tick)
  BY ReadyFacts DEF TypeInv, TypeOK, cmp_sleeping_thread, ByWakeUpTick, SortedBy
<1>2. SortedBy(list_insert_ordered(sleeping_list, current, cmp_sleeping_thread(current)),
               wake_up_tick)
  BY <1>1, ReadyFacts, InsertOrderedSorted
<1>3. ByWakeUpTick(sleeping_list)'
  BY <1>0, <1>2 DEF ByWakeUpTick, SortedBy
<1>4. ByPriority(ready_list)' /\ BestRuns
  BY <1>0, OrderLeave
<1> QED BY <1>0, <1>3, <1>4, OtherLists DEF ListsSorted

\* thread_wake_up(): the first sleeper moves to the ready list.
LEMMA OrderWake ==
  ASSUME TypeInv, ListInv, ListsSorted, thread_wake_up
  PROVE  ListsSorted'
<1>0. /\ UNCHANGED <<wake_up_tick, priority, waiters>>
      /\ sleeping_list # <<>> /\ sleeping_list' = Tail(sleeping_list)
      /\ thread_unblock(Head(sleeping_list))
  BY DEF thread_wake_up, SleeperDue, semaVars
<1>1. wake_up_tick \in [Thread -> Int] /\ SortedBy(sleeping_list, wake_up_tick)
  BY ReadyFacts DEF TypeInv, TypeOK, ByWakeUpTick, SortedBy
<1>2. SortedBy(Tail(sleeping_list), wake_up_tick) /\ Head(sleeping_list) \in Thread
  BY <1>0, <1>1, ReadyFacts, PopFrontSorted, PopFrontElements
<1>3. ByWakeUpTick(sleeping_list)'
  BY <1>0, <1>2 DEF ByWakeUpTick, SortedBy
<1>4. ByPriority(ready_list)'
  BY <1>0, <1>2, OrderUnblock
<1> QED BY <1>0, <1>3, <1>4, OtherLists DEF ListsSorted

\* The step gave the processor to a thread, or let a thread that yields keep it.
Dispatched == current' # current \/ current \in yielding \ yielding'

\* The operations of synch.c and the device interrupts.
LEMMA OrderSynch ==
  ASSUME TypeInv, ListInv, ListsSorted
  PROVE  (\/ sema_down_retry \/ lock_set_holder \/ lock_release_up
          \/ cond_down \/ cond_acquire \/ cond_broadcast_loop
          \/ \E s \in Semaphore : sema_down(s) \/ sema_try_down(s) \/ sema_up(s)
          \/ \E l \in Lock : lock_acquire(l) \/ lock_try_acquire(l) \/ lock_release(l)
          \/ \E c \in Condition : cond_wait(c) \/ cond_signal(c) \/ cond_broadcast(c)
          \/ \E s \in IntrSemaphore : device_interrupt(s))
         => ListsSorted' /\ (Dispatched => BestRuns)
<1> USE DEF clockVars, sleepVars, semaVars, monitorVars
<1>0. /\ Semaphore \subseteq Sema /\ Lock \subseteq Sema /\ Thread \subseteq Sema
      /\ IntrSemaphore \subseteq Sema
      /\ \A c \in Condition : cond_lock[c] \in Lock
      /\ current \in Thread
  BY NamesAssumption DEF Sema, TypeInv, TypeOK
<1>1. ASSUME NEW s \in Sema, SemaDown(s),
             UNCHANGED <<sleeping_list, wake_up_tick, priority, yielding>>
      PROVE  ListsSorted' /\ (Dispatched => BestRuns)
  BY <1>1, OrderDown DEF Dispatched
<1>2. ASSUME NEW s \in Sema, SemaUp(s), current \in yielding => current \in yielding',
             UNCHANGED <<sleeping_list, wake_up_tick, priority>>
      PROVE  ListsSorted' /\ (Dispatched => BestRuns)
  BY <1>2, OrderUp DEF Dispatched
<1>3. SemaUpEnd => (current \in yielding => current \in yielding')
  BY DEF SemaUpEnd, ThenYield
<1>4. ASSUME UNCHANGED <<cpuVars, sleeping_list, wake_up_tick, priority, waiters, yielding>>
      PROVE  ListsSorted' /\ (Dispatched => BestRuns)
  BY <1>4, OtherLists DEF ListsSorted, Dispatched, cpuVars
<1>5. ASSUME sema_down_retry PROVE ListsSorted' /\ (Dispatched => BestRuns)
  <2>1. sema[current] \in Sema
    BY <1>0, <1>5 DEF sema_down_retry, At, TypeInv, CallInv
  <2> QED BY <1>1, <1>5, <2>1 DEF sema_down_retry
<1>6. ASSUME lock_set_holder PROVE ListsSorted' /\ (Dispatched => BestRuns)
  BY <1>4, <1>6 DEF lock_set_holder
<1>7. ASSUME lock_release_up PROVE ListsSorted' /\ (Dispatched => BestRuns)
  <2>1. sema[current] \in Sema
    BY <1>0, <1>7 DEF lock_release_up, At, TypeInv, CallInv
  <2> QED BY <1>2, <1>3, <1>7, <2>1 DEF lock_release_up
<1>8. ASSUME cond_down PROVE ListsSorted' /\ (Dispatched => BestRuns)
  BY <1>0, <1>1, <1>8 DEF cond_down
<1>9. ASSUME cond_acquire PROVE ListsSorted' /\ (Dispatched => BestRuns)
  <2>1. cond_lock[cond[current]] \in Sema
    BY <1>0, <1>9 DEF cond_acquire, At, TypeInv, CallInv
  <2> QED BY <1>1, <1>9, <2>1 DEF cond_acquire
<1>10. ASSUME NEW c \in Condition, Signal(c), UNCHANGED <<sleeping_list, wake_up_tick, priority>>
       PROVE  ListsSorted' /\ (Dispatched => BestRuns)
  <2>1. Head(cond_waiters[c]) \in Sema
    BY <1>0, <1>10, PopFrontElements DEF Signal, TypeInv, TypeOK
  <2> QED BY <1>2, <1>3, <1>10, <2>1 DEF Signal
<1>11. ASSUME cond_broadcast_loop PROVE ListsSorted' /\ (Dispatched => BestRuns)
  <2>1. cond[current] \in Condition
    BY <1>0, <1>11 DEF cond_broadcast_loop, At, TypeInv, CallInv
  <2>2. CASE Signal(cond[current])
    BY <1>10, <1>11, <2>1, <2>2 DEF cond_broadcast_loop
  <2>3. CASE UNCHANGED <<cpuVars, semaVars, cond_waiters, yielding>>
    BY <1>4, <1>11, <2>3 DEF cond_broadcast_loop
  <2> QED BY <1>11, <2>2, <2>3 DEF cond_broadcast_loop
<1>12. ASSUME NEW s \in Semaphore, sema_down(s) \/ sema_try_down(s) \/ sema_up(s)
       PROVE  ListsSorted' /\ (Dispatched => BestRuns)
  BY <1>0, <1>1, <1>2, <1>3, <1>4, <1>12 DEF sema_down, sema_try_down, sema_up, callVars
<1>13. ASSUME NEW l \in Lock, lock_acquire(l) \/ lock_try_acquire(l) \/ lock_release(l)
       PROVE  ListsSorted' /\ (Dispatched => BestRuns)
  BY <1>0, <1>1, <1>4, <1>13 DEF lock_acquire, lock_try_acquire, lock_release
<1>14. ASSUME NEW c \in Condition, cond_wait(c) \/ cond_signal(c) \/ cond_broadcast(c)
       PROVE  ListsSorted' /\ (Dispatched => BestRuns)
  <2>1. CASE cond_wait(c)
    <3>1. /\ UNCHANGED <<cpuVars, sleeping_list, wake_up_tick, priority, yielding>>
          /\ waiters' = [waiters EXCEPT ![current] = <<>>]
      BY <2>1 DEF cond_wait
    <3>2. /\ waiters'[current] = <<>>
          /\ \A s \in Sema \ {current} : waiters'[s] = waiters[s]
      BY <1>0, <3>1 DEF TypeInv, TypeOK
    <3>3. ASSUME NEW s \in Sema, waiters'[s] = <<>> PROVE ByPriority(waiters[s])'
      <4>1. \A i : i \notin 1..Len(waiters'[s])
        BY SMTT(20), <3>3
      <4> QED BY <4>1 DEF ByPriority
    <3>4. \A s \in Sema : ByPriority(waiters[s])'
      BY <3>1, <3>2, <3>3, OtherLists
    <3> QED BY <3>1, <3>4, OtherLists DEF ListsSorted, Dispatched, cpuVars
  <2>2. CASE cond_signal(c)
    BY <1>10, <2>2 DEF cond_signal
  <2>3. CASE cond_broadcast(c)
    BY <1>4, <2>3 DEF cond_broadcast
  <2> QED BY <1>14, <2>1, <2>2, <2>3
<1>15. ASSUME NEW s \in IntrSemaphore, device_interrupt(s)
       PROVE  ListsSorted' /\ (Dispatched => BestRuns)
  BY <1>0, <1>2, <1>15 DEF device_interrupt
<1> QED BY <1>5, <1>6, <1>7, <1>8, <1>9, <1>11, <1>12, <1>13, <1>14, <1>15

\* The operations of thread.c.
LEMMA OrderThreads ==
  ASSUME TypeInv, ListInv, ListsSorted
  PROVE  (\/ thread_yield \/ thread_yield_at_end \/ thread_create_unblock \/ thread_exit
          \/ thread_sleep \/ idle
          \/ \E p \in Priority : \/ thread_set_priority(p)
                                 \/ \E t \in Thread : thread_create(t, p)
          \/ \E n \in SleepTicks : timer_sleep(n))
         => ListsSorted' /\ (Dispatched => BestRuns)
<1> USE DEF clockVars, sleepVars, semaVars, monitorVars, callVars
<1>0. current \in Thread /\ priority \in [Thread -> Priority]
      /\ wake_up_tick \in [Thread -> Int]
  BY DEF TypeInv, TypeOK
<1>1. ASSUME thread_yield \/ thread_yield_at_end
      PROVE  ListsSorted' /\ (Dispatched => BestRuns)
  BY <1>1, OrderYield DEF thread_yield, thread_yield_at_end
<1>2. ASSUME thread_create_unblock PROVE ListsSorted' /\ (Dispatched => BestRuns)
  <2>1. newborn[current] \in Thread
    BY <1>0, <1>2 DEF thread_create_unblock, At, TypeInv, CallInv
  <2>2. /\ UNCHANGED <<current, sleeping_list, wake_up_tick, priority, waiters>>
        /\ thread_unblock(newborn[current]) /\ current \in yielding'
    BY <1>2 DEF thread_create_unblock, ThenYield
  <2>3. ByPriority(ready_list)'
    BY <2>1, <2>2, OrderUnblock
  <2> QED BY <2>2, <2>3, OtherLists DEF ListsSorted, Dispatched
<1>3. ASSUME thread_exit \/ idle PROVE ListsSorted' /\ (Dispatched => BestRuns)
  <2>1. /\ UNCHANGED <<sleeping_list, wake_up_tick, priority, waiters>>
        /\ \E st : schedule(ready_list, st)
    BY <1>3 DEF thread_exit, idle, thread_block
  <2>2. ByPriority(ready_list)' /\ BestRuns
    BY <2>1, OrderLeave
  <2> QED BY <2>1, <2>2, OtherLists DEF ListsSorted
<1>4. ASSUME thread_sleep PROVE ListsSorted' /\ (Dispatched => BestRuns)
  BY <1>4, OrderSleep
<1>5. ASSUME NEW p \in Priority, thread_set_priority(p)
      PROVE  ListsSorted' /\ (Dispatched => BestRuns)
  <2>1. \A t \in Thread : t # current => priority'[t] = priority[t]
    BY <1>0, <1>5 DEF thread_set_priority
  <2> QED BY <1>5, <2>1, OrderQuiet DEF thread_set_priority, cpuVars, ThenYield, Dispatched
<1>6. ASSUME NEW p \in Priority, NEW b \in Thread, thread_create(b, p)
      PROVE  ListsSorted' /\ (Dispatched => BestRuns)
  <2>1. \A t \in Thread : t # b => priority'[t] = priority[t]
    BY <1>0, <1>6 DEF thread_create
  <2> QED BY <1>6, <2>1, OrderQuiet DEF thread_create, Dispatched
<1>7. ASSUME NEW n \in SleepTicks, timer_sleep(n)
      PROVE  ListsSorted' /\ (Dispatched => BestRuns)
  <2>1. \A t \in Thread : t # current => wake_up_tick'[t] = wake_up_tick[t]
    BY <1>0, <1>7 DEF timer_sleep
  <2> QED BY <1>7, <2>1, OrderQuiet DEF timer_sleep, cpuVars, Dispatched
<1> QED BY <1>1, <1>2, <1>3, <1>4, <1>5, <1>6, <1>7

\* The timer interrupt.
LEMMA OrderTimer ==
  ASSUME TypeInv, ListInv, ListsSorted
  PROVE  timer_interrupt \/ thread_wake_up \/ intr_return
           => ListsSorted' /\ (Dispatched => BestRuns)
<1> USE DEF clockVars, sleepVars, semaVars, monitorVars, callVars
<1>1. ASSUME timer_interrupt PROVE ListsSorted' /\ (Dispatched => BestRuns)
  <2>1. UNCHANGED <<current, ready_list, sleeping_list, waiters, wake_up_tick, yielding>>
    BY <1>1 DEF timer_interrupt
  <2>2. CASE thread_aging
    BY <2>1, <2>2, OrderAging DEF Dispatched
  <2>3. CASE UNCHANGED priority
    BY <2>1, <2>3, OtherLists DEF ListsSorted, Dispatched
  <2> QED BY <1>1, <2>2, <2>3 DEF timer_interrupt
<1>2. ASSUME thread_wake_up PROVE ListsSorted' /\ (Dispatched => BestRuns)
  BY <1>2, OrderWake DEF thread_wake_up, Dispatched
<1>3. ASSUME intr_return PROVE ListsSorted' /\ (Dispatched => BestRuns)
  <2>1. UNCHANGED <<sleeping_list, waiters, wake_up_tick, priority, yielding>>
    BY <1>3 DEF intr_return
  <2>2. CASE yield
    BY <2>1, <2>2, OrderYield
  <2>3. CASE UNCHANGED cpuVars
    BY <2>1, <2>3, OtherLists DEF ListsSorted, Dispatched, cpuVars
  <2> QED BY <1>3, <2>2, <2>3 DEF intr_return
<1> QED BY <1>1, <1>2, <1>3

\* All lists are empty at the start.
LEMMA OrderInit == Init => ListsSorted
<1> SUFFICES ASSUME Init PROVE ListsSorted
  OBVIOUS
<1>1. \A i : i \notin 1..Len(<<>>)
  BY SMTT(20)
<1> QED BY <1>1 DEF Init, ListsSorted, ByPriority, ByWakeUpTick

\* Every step keeps the lists in order and dispatches by priority.
LEMMA OrderStep ==
  TypeInv /\ ListInv /\ ListsSorted /\ [Next]_vars
    => ListsSorted' /\ (~ UNCHANGED vars /\ Dispatched => BestRuns)
<1>1. ASSUME TypeInv, ListInv, ListsSorted, Next
      PROVE  ListsSorted' /\ (Dispatched => BestRuns)
  BY <1>1, OrderThreads, OrderTimer, OrderSynch DEF Next, Interrupt, Continue, Call
<1>2. ASSUME TypeInv, ListInv, ListsSorted, UNCHANGED vars PROVE ListsSorted'
  BY <1>2, OtherLists DEF ListsSorted, vars, cpuVars, sleepVars, semaVars
<1> QED BY <1>1, <1>2

\* list_insert_ordered() is only ever given a list that is in order, in every
\* kernel, with -aging or without, and whatever threads do with their
\* priorities.
THEOREM ListsStaySorted == Spec => []ListsSorted
<1>1. TypeInv /\ ListInv /\ ListsSorted /\ [Next]_vars => ListsSorted'
  BY OrderStep
<1> QED BY <1>1, TypeInit, TypeStep, ListInit, ListStep, OrderInit, PTL DEF Spec

\* No thread gets the processor, or keeps it when it yields, while a thread of a
\* higher priority is ready; the idle thread runs only when none is ready.
THEOREM DispatchIsByPriority == Spec => HighestPriorityRuns
<1>1. TypeInv /\ ListInv /\ ListsSorted /\ [Next]_vars
        => /\ ListsSorted'
           /\ [current' # current \/ current \in yielding \ yielding' =>
                 /\ \A t \in Elements(ready_list') : priority'[t] <= priority'[current']
                 /\ current' = idle_thread => ready_list' = <<>>]_vars
  BY OrderStep DEF Dispatched, BestRuns
<1> QED BY <1>1, TypeInit, TypeStep, ListInit, ListStep, OrderInit, PTL
        DEF Spec, HighestPriorityRuns
-----------------------------------------------------------------------------
(***************************************************************************)
(* Sleepers.  thread_wake_up() looks at the front of the sleeping list     *)
(* only, so that it wakes everybody in time rests on the list's order.     *)
(***************************************************************************)

\* What one step may do to the sleeping list, and what the timer interrupt
\* leaves there.
SleepersKept ==
  /\ \A t \in Elements(sleeping_list) \ Elements(sleeping_list') : wake_up_tick[t] <= ticks
  /\ in_external_intr /\ ~ in_external_intr' =>
       \A t \in Elements(sleeping_list') : wake_up_tick'[t] > ticks'

\* A step of anything but the timer leaves the sleepers where they are.
LEMMA SleepersQuiet ==
  ASSUME UNCHANGED <<sleeping_list, in_external_intr>>
  PROVE  SleepersKept
  BY DEF SleepersKept

\* The loop of thread_wake_up() stops at a front sleeper whose time has not
\* come, and then nobody's has.
LEMMA SleepersStep ==
  ASSUME TypeInv, ListInv, ListsSorted, Next
  PROVE  SleepersKept
<1> USE DEF clockVars, sleepVars, semaVars, monitorVars, callVars
<1>1. CASE thread_wake_up
  <2>1. /\ sleeping_list # <<>> /\ sleeping_list' = Tail(sleeping_list)
        /\ wake_up_tick[Head(sleeping_list)] <= ticks
        /\ in_external_intr' = in_external_intr
    BY <1>1 DEF thread_wake_up, SleeperDue
  <2>2. Elements(sleeping_list) = Elements(Tail(sleeping_list)) \cup {Head(sleeping_list)}
    BY <2>1, ReadyFacts, PopFrontElements
  <2> QED BY <2>1, <2>2 DEF SleepersKept
<1>2. CASE intr_return
  <2>1. /\ ~ SleeperDue /\ UNCHANGED <<sleeping_list, wake_up_tick, ticks>>
        /\ ticks \in Int /\ wake_up_tick \in [Thread -> Int]
    BY SMTT(20), <1>2 DEF intr_return, TypeInv, TypeOK
  <2>2. ASSUME NEW t \in Elements(sleeping_list) PROVE wake_up_tick[t] > ticks
    <3>1. sleeping_list # <<>>
      BY EmptyList
    <3>2. SortedBy(sleeping_list, wake_up_tick)
      BY ReadyFacts DEF ByWakeUpTick, SortedBy
    <3>3. /\ wake_up_tick[Head(sleeping_list)] <= wake_up_tick[t]
          /\ Head(sleeping_list) \in Thread /\ t \in Thread
      BY <2>1, <3>1, <3>2, ReadyFacts, PopFrontSorted, PopFrontElements, EmptyElements
    <3>4. ~ (wake_up_tick[Head(sleeping_list)] <= ticks)
      BY <2>1, <3>1 DEF SleeperDue
    <3> QED BY SMTT(20), <2>1, <3>3, <3>4
  <2> QED BY <2>1, <2>2 DEF SleepersKept
<1>3. CASE thread_sleep
  <2>1. /\ sleeping_list' = list_insert_ordered(sleeping_list, current,
                                                cmp_sleeping_thread(current))
        /\ in_external_intr' = in_external_intr
    BY <1>3 DEF thread_sleep
  <2>2. Elements(sleeping_list) \subseteq Elements(sleeping_list')
    BY SMTT(20), <2>1, ReadyFacts, InsertOrderedElements
  <2> QED BY <2>1, <2>2 DEF SleepersKept
<1>4. CASE timer_interrupt
  BY <1>4 DEF timer_interrupt, InterruptsOn, SleepersKept
<1>5. CASE \/ thread_yield \/ thread_exit \/ thread_yield_at_end \/ thread_create_unblock \/ idle
           \/ \E p \in Priority : \/ thread_set_priority(p)
                                  \/ \E t \in Thread : thread_create(t, p)
           \/ \E n \in SleepTicks : timer_sleep(n)
  BY <1>5, SleepersQuiet DEF thread_yield, thread_exit, thread_yield_at_end,
     thread_create_unblock, idle, thread_set_priority, thread_create, timer_sleep
<1>6. CASE \/ sema_down_retry \/ lock_set_holder \/ lock_release_up
           \/ cond_down \/ cond_acquire \/ cond_broadcast_loop
           \/ \E s \in IntrSemaphore : device_interrupt(s)
  BY <1>6, SleepersQuiet DEF sema_down_retry, lock_set_holder, lock_release_up, cond_down,
     cond_acquire, cond_broadcast_loop, device_interrupt
<1>7. CASE \/ \E s \in Semaphore : sema_down(s) \/ sema_try_down(s) \/ sema_up(s)
           \/ \E l \in Lock : lock_acquire(l) \/ lock_try_acquire(l) \/ lock_release(l)
           \/ \E c \in Condition : cond_wait(c) \/ cond_signal(c) \/ cond_broadcast(c)
  BY <1>7, SleepersQuiet DEF sema_down, sema_try_down, sema_up, lock_acquire,
     lock_try_acquire, lock_release, cond_wait, cond_signal, cond_broadcast
<1> QED BY <1>1, <1>2, <1>3, <1>4, <1>5, <1>6, <1>7 DEF Next, Interrupt, Continue, Call

\* A thread leaves the sleeping list at its wake-up time and no earlier, and no
\* thread whose time has come is left there when the timer interrupt returns.
THEOREM SleepersAreWokenOnTime == Spec => SleepersWakeOnTime
<1>1. TypeInv /\ ListInv /\ ListsSorted /\ [Next]_vars
        => [/\ \A t \in Elements(sleeping_list) \ Elements(sleeping_list') :
                 wake_up_tick[t] <= ticks
            /\ in_external_intr /\ ~ in_external_intr' =>
                 \A t \in Elements(sleeping_list') : wake_up_tick'[t] > ticks']_vars
  BY SleepersStep DEF SleepersKept
<1>2. TypeInv /\ ListInv /\ ListsSorted /\ [Next]_vars => ListsSorted'
  BY OrderStep
<1> QED BY <1>1, <1>2, TypeInit, TypeStep, ListInit, ListStep, OrderInit, PTL
        DEF Spec, SleepersWakeOnTime
=============================================================================

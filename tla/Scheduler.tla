----------------------------- MODULE Scheduler ------------------------------
(***************************************************************************)
(* The kernel's threads: the ready list and the dispatcher (thread.c), the *)
(* timer interrupt, time slices and sleeping (timer.c, interrupt.c), and   *)
(* semaphores, locks and condition variables (synch.c).                    *)
(*                                                                         *)
(* One processor.  Code between intr_disable() and intr_set_level() is one *)
(* step; everywhere else an interrupt may come between two steps of the    *)
(* running thread, and its handler may put another thread on the CPU.      *)
(* pc[t] is the statement at which T continues when it next runs.          *)
(***************************************************************************)
EXTENDS Integers, Sequences, FiniteSets, KernelList

CONSTANTS
  Thread,             \* struct thread pages, the idle and initial thread included
  idle_thread,        \* the thread next_thread_to_run() falls back on
  initial_thread,     \* the thread that runs main(), not obtained from palloc
  Semaphore,          \* semaphores used directly
  IntrSemaphore,      \* those that a device's interrupt handler ups
  Lock,               \* locks; a lock also names the semaphore inside it
  Condition,          \* condition variables
  cond_lock,          \* the one lock each condition is used with
  NULL,
  PRI_MIN, PRI_DEFAULT, PRI_MAX,
  TIME_SLICE,         \* ticks a thread runs before it is preempted
  USERPROG,           \* TRUE in the userprog and vm kernels
  thread_prior_aging, \* the -aging option of the kernel without USERPROG
  AgingPeriod,        \* TIME_SLICE * 100 in thread_aging()
  SleepTicks,         \* arguments of timer_sleep()
  MaxTicks,           \* bound: the clock stops counting here
  MaxValue            \* bound: how far sema_up() is taken

\* Every semaphore: the plain ones, the one inside each lock, and the one on
\* the stack of a thread in cond_wait(), which the thread's own name stands for.
Sema == Semaphore \cup Lock \cup Thread

Priority == PRI_MIN..PRI_MAX

ASSUME ThreadAssumption ==
  /\ IsFiniteSet(Thread)
  /\ idle_thread \in Thread
  /\ initial_thread \in Thread
  /\ idle_thread # initial_thread

ASSUME NamesAssumption ==
  /\ IntrSemaphore \subseteq Semaphore
  /\ Semaphore \cap Lock = {}
  /\ Semaphore \cap Thread = {}
  /\ Lock \cap Thread = {}
  /\ NULL \notin Sema \cup Condition
  /\ cond_lock \in [Condition -> Lock]

ASSUME NumbersAssumption ==
  /\ PRI_MIN \in Int /\ PRI_DEFAULT \in Int /\ PRI_MAX \in Int
  /\ PRI_MIN <= PRI_DEFAULT /\ PRI_DEFAULT <= PRI_MAX
  /\ TIME_SLICE \in Nat \ {0}
  /\ AgingPeriod \in Nat \ {0}
  /\ SleepTicks \subseteq Int
  /\ MaxTicks \in Nat
  /\ MaxValue \in Nat \ {0}
  /\ USERPROG \in BOOLEAN
  /\ thread_prior_aging \in BOOLEAN

VARIABLES
  current,          \* thread_current()
  status,           \* enum thread_status; "NONE" for a free page
  priority,
  ready_list,
  sleeping_list,
  wake_up_tick,
  ticks,            \* timer ticks since boot
  thread_ticks,     \* ticks since the last thread switch
  aging_ticks,      \* ticks since priorities were last raised
  in_external_intr, \* the timer interrupt handler is running
  value,            \* of each semaphore
  waiters,          \* of each semaphore
  holder,           \* of each lock
  cond_waiters,     \* of each condition: the threads in cond_wait(), oldest first
  pc,
  yielding,         \* threads whose next statement is thread_yield()
  sema,             \* the semaphore (or lock) the thread is operating on
  cond,             \* the condition the thread waits on
  newborn           \* the thread that thread_create() is building

cpuVars == <<current, status, ready_list, thread_ticks>>
clockVars == <<ticks, aging_ticks, in_external_intr>>
sleepVars == <<sleeping_list, wake_up_tick>>
semaVars == <<value, waiters>>
monitorVars == <<holder, cond_waiters>>
callVars == <<pc, yielding, sema, cond, newborn>>
vars == <<cpuVars, clockVars, sleepVars, priority, semaVars, monitorVars, callVars>>

Status == {"NONE", "RUNNING", "READY", "BLOCKED", "DYING"}

Label == {"run", "thread_create", "timer_sleep", "sema_down", "lock_holder",
          "lock_release", "cond_release", "cond_down", "cond_acquire",
          "cond_broadcast", "hlt", "idle"}
-----------------------------------------------------------------------------
(***************************************************************************)
(* The ready list and the dispatcher.                                      *)
(***************************************************************************)

\* The threads B for which cmp_priority_thread (A, B) holds, and likewise.
cmp_priority_thread(a) == {b \in Thread : priority[a] > priority[b]}

cmp_sleeping_thread(a) == {b \in Thread : wake_up_tick[b] > wake_up_tick[a]}

next_thread_to_run(ready) == IF ready = <<>> THEN idle_thread ELSE Head(ready)

\* Mutant of schedule(): the new thread inherits the old one's time slice.
schedule_keep_ticks(ready, st) ==
  LET next == next_thread_to_run(ready)
  IN  /\ current' = next
      /\ ready_list' = IF ready = <<>> THEN ready ELSE Tail(ready)
      /\ status' = [t \in Thread |-> IF t = next THEN "RUNNING"
                                     ELSE IF st[t] = "DYING" /\ t # initial_thread THEN "NONE"
                                     ELSE st[t]]
      /\ UNCHANGED thread_ticks

\* schedule() and thread_schedule_tail(): READY and ST are the ready list and
\* the states on entry, the running thread's state already changed.  A dying
\* thread's page goes back to palloc, unless it is the initial thread's.
schedule(ready, st) ==
  LET next == next_thread_to_run(ready)
      tail == [t \in Thread |->
                 IF t = next THEN "RUNNING"
                 ELSE IF st[t] = "DYING" /\ t # initial_thread THEN "NONE"
                 ELSE st[t]]
  IN  /\ current' = next
      /\ ready_list' = IF ready = <<>> THEN ready ELSE Tail(ready)
      /\ status' = tail
      /\ thread_ticks' = 0

thread_block == schedule(ready_list, [status EXCEPT ![current] = "BLOCKED"])

\* Mutant of thread_unblock(): at the back of the list, whatever the priority.
thread_unblock_push_back(t) ==
  /\ ready_list' = Append(ready_list, t)
  /\ status' = [status EXCEPT ![t] = "READY"]

\* thread_unblock(): does not preempt the running thread.
thread_unblock(t) ==
  /\ ready_list' = list_insert_ordered(ready_list, t, cmp_priority_thread(t))
  /\ status' = [status EXCEPT ![t] = "READY"]

\* Mutants of thread_yield(): the idle thread is not left out; the running thread
\* goes to the back.
yield_idle ==
  schedule(list_insert_ordered(ready_list, current, cmp_priority_thread(current)),
           [status EXCEPT ![current] = "READY"])

yield_push_back ==
  schedule(IF current = idle_thread THEN ready_list ELSE Append(ready_list, current),
           [status EXCEPT ![current] = "READY"])

yield ==
  schedule(IF current = idle_thread THEN ready_list
           ELSE list_insert_ordered(ready_list, current, cmp_priority_thread(current)),
           [status EXCEPT ![current] = "READY"])

\* The running thread executes the statement at L.
At(l) == ~ in_external_intr /\ current \notin yielding /\ pc[current] = l

Goto(l) == pc' = [pc EXCEPT ![current] = l]

\* A statement thread_yield() follows; an interrupt may come before it.
ThenYield == yielding' = yielding \cup {current}
-----------------------------------------------------------------------------
(***************************************************************************)
(* thread.c: operations of the running thread.                             *)
(***************************************************************************)

thread_yield ==
  /\ At("run")
  /\ yield
  /\ UNCHANGED <<clockVars, sleepVars, priority, semaVars, monitorVars, callVars>>

\* The thread_yield() at the end of thread_create(), thread_set_priority() and,
\* without USERPROG, sema_up().
thread_yield_at_end ==
  /\ ~ in_external_intr
  /\ current \in yielding
  /\ yield
  /\ yielding' = yielding \ {current}
  /\ UNCHANGED <<clockVars, sleepVars, priority, semaVars, monitorVars,
                 pc, sema, cond, newborn>>

thread_set_priority(new_priority) ==
  /\ At("run")
  /\ priority' = [priority EXCEPT ![current] = new_priority]
  /\ ThenYield
  /\ UNCHANGED <<cpuVars, clockVars, sleepVars, semaVars, monitorVars,
                 pc, sema, cond, newborn>>

\* thread_create(), up to thread_unblock(): the page, init_thread() and the
\* stack.  T is blocked and on no list yet.
thread_create(t, prio) ==
  /\ At("run")
  /\ status[t] = "NONE"
  /\ status' = [status EXCEPT ![t] = "BLOCKED"]
  /\ priority' = [priority EXCEPT ![t] = prio]
  /\ newborn' = [newborn EXCEPT ![current] = t]
  /\ Goto("thread_create")
  /\ UNCHANGED <<current, ready_list, thread_ticks, clockVars, sleepVars,
                 semaVars, monitorVars, yielding, sema, cond>>

thread_create_unblock ==
  /\ At("thread_create")
  /\ thread_unblock(newborn[current])
  /\ newborn' = [newborn EXCEPT ![current] = NULL]
  /\ Goto("run")
  /\ ThenYield
  /\ UNCHANGED <<current, thread_ticks, clockVars, sleepVars, priority,
                 semaVars, monitorVars, sema, cond>>

\* The end of thread_exit(), with interrupts off.  The semaphores it uses
\* before this point are ordinary ones here; Process has their protocol.
thread_exit ==
  /\ At("run")
  /\ schedule(ready_list, [status EXCEPT ![current] = "DYING"])
  /\ UNCHANGED <<clockVars, sleepVars, priority, semaVars, monitorVars, callVars>>

\* timer_sleep(): the clock is read and START + N computed before interrupts
\* are turned off.  Nothing reads wake_up_tick before the thread is on the
\* list, so it holds the sum from here on.
timer_sleep(n) ==
  /\ At("run")
  /\ ticks + n <= MaxTicks
  /\ wake_up_tick' = [wake_up_tick EXCEPT ![current] = ticks + n]
  /\ Goto("timer_sleep")
  /\ UNCHANGED <<cpuVars, clockVars, sleeping_list, priority, semaVars,
                 monitorVars, yielding, sema, cond, newborn>>

\* Mutant of thread_sleep(): blocks before it is on the list.
thread_sleep_block_first ==
  /\ At("timer_sleep")
  /\ thread_block
  /\ Goto("run")
  /\ UNCHANGED <<clockVars, sleepVars, priority, semaVars, monitorVars,
                 yielding, sema, cond, newborn>>

thread_sleep ==
  /\ At("timer_sleep")
  /\ sleeping_list' = list_insert_ordered(sleeping_list, current,
                                          cmp_sleeping_thread(current))
  /\ thread_block
  /\ Goto("run")
  /\ UNCHANGED <<clockVars, wake_up_tick, priority, semaVars, monitorVars,
                 yielding, sema, cond, newborn>>

\* idle(): block until the ready list is empty again, then halt.
idle ==
  /\ At("idle")
  /\ thread_block
  /\ Goto("hlt")
  /\ UNCHANGED <<clockVars, sleepVars, priority, semaVars, monitorVars,
                 yielding, sema, cond, newborn>>
-----------------------------------------------------------------------------
(***************************************************************************)
(* The timer interrupt.  intr_handler() runs timer_interrupt() with        *)
(* interrupts off: thread_tick(), then the loop of thread_wake_up() one    *)
(* sleeper a step, then thread_yield() if thread_tick() asked for it with  *)
(* intr_yield_on_return().                                                 *)
(***************************************************************************)

\* A thread woken inside sema_down() runs with interrupts off.
InterruptsOn == ~ in_external_intr /\ pc[current] # "sema_down"

\* An interrupt ends the idle thread's hlt.
LeaveHlt == pc' = [pc EXCEPT ![current] = IF @ = "hlt" THEN "idle" ELSE @]

\* Mutant of thread_aging(): the loop stops after the front of the ready list.
thread_aging_front ==
  IF aging_ticks + 1 = AgingPeriod
  THEN /\ aging_ticks' = 0
       /\ priority' = [t \in Thread |->
                         IF /\ ready_list # <<>> /\ t = Head(ready_list)
                            /\ priority[t] < PRI_MAX
                         THEN priority[t] + 1 ELSE priority[t]]
  ELSE aging_ticks' = aging_ticks + 1 /\ UNCHANGED priority

\* thread_aging(): every AgingPeriod ticks the ready threads gain one priority.
thread_aging ==
  IF aging_ticks + 1 = AgingPeriod
  THEN /\ aging_ticks' = 0
       /\ priority' = [t \in Thread |->
                         IF t \in Elements(ready_list) /\ priority[t] < PRI_MAX
                         THEN priority[t] + 1 ELSE priority[t]]
  ELSE aging_ticks' = aging_ticks + 1 /\ UNCHANGED priority

timer_interrupt ==
  /\ InterruptsOn
  /\ in_external_intr' = TRUE
  /\ ticks' = IF ticks < MaxTicks THEN ticks + 1 ELSE ticks
  /\ thread_ticks' = thread_ticks + 1
  /\ IF ~ USERPROG /\ thread_prior_aging THEN thread_aging
                                         ELSE UNCHANGED <<aging_ticks, priority>>
  /\ LeaveHlt
  /\ UNCHANGED <<current, status, ready_list, sleepVars, semaVars, monitorVars,
                 yielding, sema, cond, newborn>>

\* Mutant of SleeperDue: wakes a tick late.
SleeperOverdue ==
  sleeping_list # <<>> /\ wake_up_tick[Head(sleeping_list)] < ticks

\* The front sleeper's time has come.
SleeperDue ==
  sleeping_list # <<>> /\ wake_up_tick[Head(sleeping_list)] <= ticks

thread_wake_up ==
  /\ in_external_intr
  /\ SleeperDue
  /\ sleeping_list' = Tail(sleeping_list)
  /\ thread_unblock(Head(sleeping_list))
  /\ UNCHANGED <<current, thread_ticks, clockVars, wake_up_tick, priority,
                 semaVars, monitorVars, callVars>>

intr_return ==
  /\ in_external_intr
  /\ ~ SleeperDue
  /\ in_external_intr' = FALSE
  /\ IF thread_ticks >= TIME_SLICE THEN yield ELSE UNCHANGED cpuVars
  /\ UNCHANGED <<ticks, aging_ticks, sleepVars, priority, semaVars, monitorVars,
                 callVars>>
-----------------------------------------------------------------------------
(***************************************************************************)
(* synch.c: semaphores.                                                    *)
(***************************************************************************)

\* Where the caller of sema_down(S) continues.
Return(s) == IF s \in Semaphore THEN "run"
             ELSE IF s \in Lock THEN "lock_holder" ELSE "cond_acquire"

\* One turn of the loop of sema_down(): wait, or take the semaphore and return.
SemaDown(s) ==
  \/ /\ value[s] = 0
     /\ waiters' = [waiters EXCEPT ![s] =
                      list_insert_ordered(@, current, cmp_priority_thread(current))]
     /\ thread_block
     /\ Goto("sema_down")
     /\ sema' = [sema EXCEPT ![current] = s]
     /\ UNCHANGED value
  \/ /\ value[s] > 0
     /\ value' = [value EXCEPT ![s] = @ - 1]
     /\ Goto(Return(s))
     /\ sema' = [sema EXCEPT ![current] = IF s \in Lock THEN s ELSE NULL]
     /\ UNCHANGED <<cpuVars, waiters>>

\* Mutant of sema_up(): wakes a waiter only when the value leaves 0.
SemaUpFromZero(s) ==
  /\ value' = [value EXCEPT ![s] = @ + 1]
  /\ \/ /\ waiters[s] = <<>> \/ value[s] > 0
        /\ UNCHANGED <<waiters, ready_list, status>>
     \/ /\ waiters[s] # <<>> /\ value[s] = 0
        /\ waiters' = [waiters EXCEPT ![s] = Tail(@)]
        /\ thread_unblock(Head(waiters[s]))
  /\ UNCHANGED <<current, thread_ticks>>

\* What sema_up() does with interrupts off.
SemaUp(s) ==
  /\ value' = [value EXCEPT ![s] = @ + 1]
  /\ \/ /\ waiters[s] = <<>>
        /\ UNCHANGED <<waiters, ready_list, status>>
     \/ /\ waiters[s] # <<>>
        /\ waiters' = [waiters EXCEPT ![s] = Tail(@)]
        /\ thread_unblock(Head(waiters[s]))
  /\ UNCHANGED <<current, thread_ticks>>

\* sema_up() ends with thread_yield() in the kernel without USERPROG.
SemaUpEnd == IF USERPROG THEN UNCHANGED yielding ELSE ThenYield

sema_down(s) ==
  /\ At("run")
  /\ SemaDown(s)
  /\ UNCHANGED <<clockVars, sleepVars, priority, monitorVars, yielding, cond, newborn>>

\* Mutant of sema_down(): IF in place of WHILE, a woken thread tests nothing.
sema_down_no_retry ==
  /\ At("sema_down")
  /\ value' = [value EXCEPT ![sema[current]] = IF @ > 0 THEN @ - 1 ELSE 0]
  /\ Goto(Return(sema[current]))
  /\ sema' = [sema EXCEPT ![current] = IF @ \in Lock THEN @ ELSE NULL]
  /\ UNCHANGED <<cpuVars, clockVars, sleepVars, priority, waiters, monitorVars,
                 yielding, cond, newborn>>

\* A waiter woken by sema_up() tests the value again: another thread may have
\* taken the semaphore in between.
sema_down_retry ==
  /\ At("sema_down")
  /\ SemaDown(sema[current])
  /\ UNCHANGED <<clockVars, sleepVars, priority, monitorVars, yielding, cond, newborn>>

sema_try_down(s) ==
  /\ At("run")
  /\ value[s] > 0
  /\ value' = [value EXCEPT ![s] = @ - 1]
  /\ UNCHANGED <<cpuVars, clockVars, sleepVars, priority, waiters, monitorVars, callVars>>

sema_up(s) ==
  /\ At("run")
  /\ value[s] < MaxValue
  /\ SemaUp(s)
  /\ SemaUpEnd
  /\ UNCHANGED <<clockVars, sleepVars, priority, monitorVars, pc, sema, cond, newborn>>

\* A device's interrupt handler ups the semaphore its driver waits on.
device_interrupt(s) ==
  /\ USERPROG
  /\ InterruptsOn
  /\ value[s] < MaxValue
  /\ SemaUp(s)
  /\ LeaveHlt
  /\ UNCHANGED <<clockVars, sleepVars, priority, monitorVars, yielding, sema, cond, newborn>>
-----------------------------------------------------------------------------
(***************************************************************************)
(* synch.c: locks.  A lock's semaphore and its holder change in different  *)
(* steps.  sema names the lock while the thread is between the two.        *)
(***************************************************************************)

lock_acquire(l) ==
  /\ At("run")
  /\ holder[l] # current
  /\ SemaDown(l)
  /\ UNCHANGED <<clockVars, sleepVars, priority, monitorVars, yielding, cond, newborn>>

lock_try_acquire(l) ==
  /\ At("run")
  /\ holder[l] # current
  /\ value[l] > 0
  /\ value' = [value EXCEPT ![l] = @ - 1]
  /\ Goto("lock_holder")
  /\ sema' = [sema EXCEPT ![current] = l]
  /\ UNCHANGED <<cpuVars, clockVars, sleepVars, priority, waiters, monitorVars,
                 yielding, cond, newborn>>

lock_set_holder ==
  /\ At("lock_holder")
  /\ holder' = [holder EXCEPT ![sema[current]] = current]
  /\ sema' = [sema EXCEPT ![current] = NULL]
  /\ cond' = [cond EXCEPT ![current] = NULL]
  /\ Goto("run")
  /\ UNCHANGED <<cpuVars, clockVars, sleepVars, priority, semaVars, cond_waiters,
                 yielding, newborn>>

lock_release(l) ==
  /\ At("run")
  /\ holder[l] = current
  /\ holder' = [holder EXCEPT ![l] = NULL]
  /\ sema' = [sema EXCEPT ![current] = l]
  /\ Goto("lock_release")
  /\ UNCHANGED <<cpuVars, clockVars, sleepVars, priority, semaVars, cond_waiters,
                 yielding, cond, newborn>>

\* lock_release()'s sema_up(), called by the thread itself or from cond_wait().
lock_release_up ==
  /\ At("lock_release") \/ At("cond_release")
  /\ SemaUp(sema[current])
  /\ SemaUpEnd
  /\ sema' = [sema EXCEPT ![current] = NULL]
  /\ Goto(IF pc[current] = "lock_release" THEN "run" ELSE "cond_down")
  /\ UNCHANGED <<clockVars, sleepVars, priority, monitorVars, cond, newborn>>
-----------------------------------------------------------------------------
(***************************************************************************)
(* synch.c: condition variables.  The lists are touched with the lock      *)
(* held, so a list operation and the step that follows it are one step.    *)
(***************************************************************************)

\* cond_wait(), up to the first statement of lock_release().
cond_wait(c) ==
  /\ At("run")
  /\ holder[cond_lock[c]] = current
  /\ value' = [value EXCEPT ![current] = 0]
  /\ waiters' = [waiters EXCEPT ![current] = <<>>]
  /\ cond_waiters' = [cond_waiters EXCEPT ![c] = Append(@, current)]
  /\ holder' = [holder EXCEPT ![cond_lock[c]] = NULL]
  /\ sema' = [sema EXCEPT ![current] = cond_lock[c]]
  /\ cond' = [cond EXCEPT ![current] = c]
  /\ Goto("cond_release")
  /\ UNCHANGED <<cpuVars, clockVars, sleepVars, priority, yielding, newborn>>

\* ... sema_down() on the waiter's own semaphore ...
cond_down ==
  /\ At("cond_down")
  /\ SemaDown(current)
  /\ UNCHANGED <<clockVars, sleepVars, priority, monitorVars, yielding, cond, newborn>>

\* Mutant of cond_wait(): returns without the lock.
cond_acquire_nothing ==
  /\ At("cond_acquire")
  /\ Goto("run")
  /\ cond' = [cond EXCEPT ![current] = NULL]
  /\ UNCHANGED <<cpuVars, clockVars, sleepVars, priority, semaVars, monitorVars,
                 yielding, sema, newborn>>

\* ... and lock_acquire() before it returns.
cond_acquire ==
  /\ At("cond_acquire")
  /\ SemaDown(cond_lock[cond[current]])
  /\ UNCHANGED <<clockVars, sleepVars, priority, monitorVars, yielding, cond, newborn>>

\* Mutant of cond_signal(): a waiter that has not blocked yet gets no signal.
SignalBlockedOnly(c) ==
  /\ cond_waiters[c] # <<>>
  /\ cond_waiters' = [cond_waiters EXCEPT ![c] = Tail(@)]
  /\ IF waiters[Head(cond_waiters[c])] # <<>>
     THEN SemaUp(Head(cond_waiters[c])) /\ SemaUpEnd
     ELSE UNCHANGED <<cpuVars, semaVars, yielding>>

\* Take the oldest waiter of C off its list and up the waiter's semaphore.
Signal(c) ==
  /\ cond_waiters[c] # <<>>
  /\ cond_waiters' = [cond_waiters EXCEPT ![c] = Tail(@)]
  /\ SemaUp(Head(cond_waiters[c]))
  /\ SemaUpEnd

cond_signal(c) ==
  /\ At("run")
  /\ holder[cond_lock[c]] = current
  /\ Signal(c)
  /\ UNCHANGED <<clockVars, sleepVars, priority, holder, pc, sema, cond, newborn>>

cond_broadcast(c) ==
  /\ At("run")
  /\ holder[cond_lock[c]] = current
  /\ cond_waiters[c] # <<>>
  /\ Goto("cond_broadcast")
  /\ cond' = [cond EXCEPT ![current] = c]
  /\ UNCHANGED <<cpuVars, clockVars, sleepVars, priority, semaVars, monitorVars,
                 yielding, sema, newborn>>

cond_broadcast_loop ==
  /\ At("cond_broadcast")
  /\ \/ /\ Signal(cond[current])
        /\ UNCHANGED <<pc, cond>>
     \/ /\ cond_waiters[cond[current]] = <<>>
        /\ Goto("run")
        /\ cond' = [cond EXCEPT ![current] = NULL]
        /\ UNCHANGED <<cpuVars, semaVars, cond_waiters, yielding>>
  /\ UNCHANGED <<clockVars, sleepVars, priority, holder, sema, newborn>>
-----------------------------------------------------------------------------

\* The state that thread_init() and thread_start() leave: the initial thread
\* runs, the idle thread has run once and blocked, nothing else exists.
Init ==
  /\ current = initial_thread
  /\ status = [t \in Thread |-> IF t = initial_thread THEN "RUNNING"
                                ELSE IF t = idle_thread THEN "BLOCKED" ELSE "NONE"]
  /\ priority = [t \in Thread |-> IF t = initial_thread THEN PRI_DEFAULT ELSE PRI_MIN]
  /\ ready_list = <<>>
  /\ sleeping_list = <<>>
  /\ wake_up_tick = [t \in Thread |-> 0]
  /\ ticks = 0
  /\ thread_ticks = 0
  /\ aging_ticks = 0
  /\ in_external_intr = FALSE
  /\ value = [s \in Sema |-> IF s \in Lock THEN 1 ELSE 0]
  /\ waiters = [s \in Sema |-> <<>>]
  /\ holder = [l \in Lock |-> NULL]
  /\ cond_waiters = [c \in Condition |-> <<>>]
  /\ pc = [t \in Thread |-> IF t = idle_thread THEN "hlt" ELSE "run"]
  /\ yielding = {}
  /\ sema = [t \in Thread |-> NULL]
  /\ cond = [t \in Thread |-> NULL]
  /\ newborn = [t \in Thread |-> NULL]

Interrupt ==
  \/ timer_interrupt \/ thread_wake_up \/ intr_return
  \/ \E s \in IntrSemaphore : device_interrupt(s)

\* The rest of a call that is under way.
Continue ==
  \/ thread_yield_at_end \/ thread_create_unblock \/ thread_sleep \/ idle
  \/ sema_down_retry \/ lock_set_holder \/ lock_release_up
  \/ cond_down \/ cond_acquire \/ cond_broadcast_loop

\* What a thread's own code may call.
Call ==
  \/ thread_yield \/ thread_exit
  \/ \E p \in Priority : \/ thread_set_priority(p)
                         \/ \E t \in Thread : thread_create(t, p)
  \/ \E n \in SleepTicks : timer_sleep(n)
  \/ \E s \in Semaphore : sema_down(s) \/ sema_try_down(s) \/ sema_up(s)
  \/ \E l \in Lock : lock_acquire(l) \/ lock_try_acquire(l) \/ lock_release(l)
  \/ \E c \in Condition : cond_wait(c) \/ cond_signal(c) \/ cond_broadcast(c)

Next == Interrupt \/ Continue \/ Call

Spec == Init /\ [][Next]_vars

\* The timer chip keeps raising its interrupt, and the interrupt controller
\* holds it until interrupts are on; handlers and calls under way go on.
Fairness ==
  /\ SF_vars(timer_interrupt)
  /\ WF_vars(thread_wake_up)
  /\ WF_vars(intr_return)
  /\ WF_vars(Continue)

FairSpec == Spec /\ Fairness
-----------------------------------------------------------------------------
(***************************************************************************)
(* Properties.                                                             *)
(***************************************************************************)

\* Every variable stays in its domain: threads, queues, counters and call sites.
TypeOK ==
  /\ current \in Thread
  /\ status \in [Thread -> Status]
  /\ priority \in [Thread -> Priority]
  /\ ready_list \in Seq(Thread)
  /\ sleeping_list \in Seq(Thread)
  /\ wake_up_tick \in [Thread -> Int]
  /\ ticks \in 0..MaxTicks
  /\ thread_ticks \in 0..TIME_SLICE
  /\ aging_ticks \in 0..AgingPeriod - 1
  /\ in_external_intr \in BOOLEAN
  /\ value \in [Sema -> Nat]
  /\ waiters \in [Sema -> Seq(Thread)]
  /\ holder \in [Lock -> Thread \cup {NULL}]
  /\ cond_waiters \in [Condition -> Seq(Thread)]
  /\ pc \in [Thread -> Label]
  /\ yielding \in SUBSET Thread
  /\ sema \in [Thread -> Sema \cup {NULL}]
  /\ cond \in [Thread -> Condition \cup {NULL}]
  /\ newborn \in [Thread -> Thread \cup {NULL}]

\* A thread has one list_elem for the ready list, the sleeping list and all
\* semaphore wait lists (thread.h): it is never on two of them or twice on one,
\* it is on the ready list exactly when it is ready, and it is blocked while on
\* any of the others.  The idle thread is on none of them (idle()).
ElemOnOneList ==
  /\ NoDuplicates(ready_list)
  /\ NoDuplicates(sleeping_list)
  /\ \A s \in Sema : NoDuplicates(waiters[s])
  /\ \A t \in Thread :
       /\ t \in Elements(ready_list) <=> status[t] = "READY" /\ t # idle_thread
       /\ t \in Elements(sleeping_list) => status[t] = "BLOCKED" /\ t # idle_thread
       /\ \A s \in Sema : t \in Elements(waiters[s]) =>
            /\ status[t] = "BLOCKED" /\ t # idle_thread
            /\ t \notin Elements(sleeping_list)
            /\ \A r \in Sema \ {s} : t \notin Elements(waiters[r])

\* thread_block() comes with a way back: a blocked thread is on the sleeping
\* list, on the wait list of the semaphore it is downing, or still in the hands
\* of the one thread that is creating it.  Only the idle thread has no list.
BlockedIsFindable ==
  \A t \in Thread \ {idle_thread} : status[t] = "BLOCKED" =>
    \/ t \in Elements(sleeping_list)
    \/ pc[t] = "sema_down" /\ t \in Elements(waiters[sema[t]])
    \/ \E u \in Thread : newborn[u] = t

\* Threads that sema_up() unblocked and that have not tested the value yet.
Woken(s) == {t \in Thread : /\ pc[t] = "sema_down"
                            /\ sema[t] = s
                            /\ t \notin Elements(waiters[s])}

\* sema_up() wakes one thread and a third thread may take the semaphore first,
\* yet no wake-up is lost: while threads wait, each unit of the semaphore's
\* value has a woken thread on its way to it.
NoLostWakeup ==
  \A s \in Sema : waiters[s] # <<>> => value[s] <= Cardinality(Woken(s))

\* Threads between the value-- of a lock's semaphore and its value++.
Owners(l) == {t \in Thread :
                \/ holder[l] = t
                \/ pc[t] \in {"lock_holder", "lock_release", "cond_release"} /\ sema[t] = l}

\* A lock is held by at most one thread although its semaphore and its holder
\* change in separate steps (lock_acquire, lock_release, cond_wait), and a lock
\* is never lost: it is free exactly when its semaphore is 1.
MutualExclusion ==
  \A l \in Lock : \/ value[l] = 1 /\ Owners(l) = {}
                  \/ value[l] = 0 /\ \E t \in Thread : Owners(l) = {t}

\* T has called cond_wait() and has not taken its own semaphore yet.
InCondWait(t) == \/ pc[t] \in {"cond_release", "cond_down"}
                 \/ pc[t] = "sema_down" /\ sema[t] = t

\* A signal is neither lost nor given twice: a thread in cond_wait() either is
\* on the condition's list, once, with its own semaphore at 0, or has been
\* signalled and finds the semaphore at 1, even when the signal comes before it
\* blocks.
SignalsAreKept ==
  \A c \in Condition :
    /\ NoDuplicates(cond_waiters[c])
    /\ \A t \in Thread :
         t \in Elements(cond_waiters[c]) <=> InCondWait(t) /\ cond[t] = c /\ value[t] = 0
    /\ \A t \in Thread : InCondWait(t) => value[t] \in {0, 1}

\* list_insert_ordered() is only ever given a list that is in order: ready and
\* waiting threads by priority, sleepers by wake-up time.
ByPriority(list) ==
  \A i, j \in 1..Len(list) : i < j => priority[list[i]] >= priority[list[j]]

ByWakeUpTick(list) ==
  \A i, j \in 1..Len(list) : i < j => wake_up_tick[list[i]] <= wake_up_tick[list[j]]

ListsSorted ==
  /\ ByPriority(ready_list)
  /\ ByWakeUpTick(sleeping_list)
  /\ \A s \in Sema : ByPriority(waiters[s])

\* next_thread_to_run(): the thread that gets the CPU has a priority no ready
\* thread exceeds, and the idle thread gets it only when none is ready.  A thread
\* that yields keeps the CPU on the same terms.
HighestPriorityRuns ==
  [][current' # current \/ current \in yielding \ yielding' =>
       /\ \A t \in Elements(ready_list') : priority'[t] <= priority'[current']
       /\ current' = idle_thread => ready_list' = <<>>]_vars

\* timer_sleep(): a thread leaves the sleeping list at a tick that has reached
\* its wake-up time, and none whose time has come stays on it when the timer
\* interrupt returns, even if the interrupt came before thread_sleep() ran.
SleepersWakeOnTime ==
  [][/\ \A t \in Elements(sleeping_list) \ Elements(sleeping_list') :
          wake_up_tick[t] <= ticks
     /\ in_external_intr /\ ~ in_external_intr' =>
          \A t \in Elements(sleeping_list') : wake_up_tick'[t] > ticks']_vars

\* thread_aging() prevents starvation ("To prevent starvation problem in
\* priority scheduling"): every ready thread runs again.
NoStarvation ==
  \A t \in Thread \ {idle_thread} : status[t] = "READY" ~> status[t] = "RUNNING"

\* tests/threads/priority-condvar.c: cond_signal() wakes up the waiter of the
\* highest priority.
SignalWakesHighest ==
  [][\A c \in Condition :
       \A w \in Elements(cond_waiters[c]) \ Elements(cond_waiters'[c]) :
         \A t \in Elements(cond_waiters'[c]) : priority[t] <= priority[w]]_vars

\* Locks and conditions implement the monitors of module Monitor.  A lock's
\* owner is the thread between the semaphore's value-- and value++; a thread
\* counts as waiting from the step that releases the lock.
Owner(l) == IF Owners(l) = {} THEN NULL ELSE CHOOSE t \in Thread : t \in Owners(l)

WaitingFor(c) == {t \in Elements(cond_waiters[c]) : pc[t] # "cond_release"}

\* Signalled, and not yet past the sema_down() of lock_acquire().
WokenFrom(c) ==
  {t \in Thread : \/ InCondWait(t) /\ cond[t] = c /\ t \notin Elements(cond_waiters[c])
                  \/ pc[t] = "cond_acquire" /\ cond[t] = c
                  \/ pc[t] = "sema_down" /\ cond[t] = c /\ sema[t] = cond_lock[c]}

Monitors == INSTANCE Monitor WITH
  owner <- [l \in Lock |-> Owner(l)],
  waiting <- [c \in Condition |-> WaitingFor(c)],
  woken <- [c \in Condition |-> WokenFrom(c)]

\* The property that a run checks: synch.c implements Monitor.
ImplementsMonitor == Monitors!Spec
=============================================================================

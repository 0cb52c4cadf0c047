------------------------------ MODULE Process -------------------------------
(***************************************************************************)
(* Processes: exec, loading, wait, exit, and the freeing of struct thread  *)
(* (process.c, the exec, wait and exit system calls of syscall.c, kill()   *)
(* of exception.c, thread_create(), thread_exit() and thread_get_child()   *)
(* of thread.c).                                                           *)
(*                                                                         *)
(* A process is named by its tid.  Each struct thread holds three          *)
(* semaphores: sema_load says that loading is over, sema_wait that the     *)
(* process has exited, and sema_elim that nobody needs the struct any      *)
(* more.  A semaphore is its value here; that a thread blocked in          *)
(* sema_down() is woken and takes it is shown in module Scheduler.  A step *)
(* ends where a process may be preempted or blocked with something another *)
(* process can see.                                                        *)
(*                                                                         *)
(* load() opens the program's file under _lock_for_file, which the read,   *)
(* write and open system calls hold too: a read of the keyboard for as     *)
(* long as no key is pressed, and a process that is ended by a page fault  *)
(* on its buffer for ever.                                                 *)
(***************************************************************************)
EXTENDS Integers, Sequences, FiniteSets, KernelList

CONSTANTS
  MaxTid,      \* bound: after this many threads palloc has no page left
  ExitStatus   \* what exit() is called with; the kernel itself passes -1

initial_tid == 1   \* main(), the first tid that allocate_tid() hands out
idle_tid == 2      \* the idle thread, which thread_start() creates
NULL == 0          \* no thread has this tid

Tid == 1..MaxTid

ASSUME TidAssumption == MaxTid \in Nat /\ MaxTid >= 2
ASSUME StatusAssumption == ExitStatus \subseteq Int /\ -1 \in ExitStatus

VARIABLES
  next_tid,
  child_tlist,  \* of each thread: its children, oldest first
  is_loaded,
  exit_status,
  sema_load, sema_wait, sema_elim,
  pc,           \* where the thread continues; "free" when its page is palloc's
  child,        \* the local child_thread
  lock_for_file, \* the holder of _lock_for_file, which may have exited
  killed        \* history: the threads that kill() ended

semaVars == <<sema_load, sema_wait, sema_elim>>
vars == <<next_tid, child_tlist, is_loaded, exit_status, semaVars, pc, child, lock_for_file,
          killed>>

Label == {"free", "idle", "load", "load_open", "loaded", "run", "exec", "exec_loaded",
          "wait", "wait_collect", "wait_up", "file", "file_held", "keys",
          "exit", "exit_down"}

\* thread_init() and thread_start(), with all of a new page zero.
Init ==
  /\ next_tid = 3
  /\ child_tlist = [p \in Tid |-> IF p = initial_tid THEN <<idle_tid>> ELSE <<>>]
  /\ is_loaded = [p \in Tid |-> FALSE]
  /\ exit_status = [p \in Tid |-> 0]
  /\ sema_load = [p \in Tid |-> 0]
  /\ sema_wait = [p \in Tid |-> 0]
  /\ sema_elim = [p \in Tid |-> 0]
  /\ pc = [p \in Tid |-> CASE p = initial_tid -> "run"
                           [] p = idle_tid -> "idle"
                           [] OTHER -> "free"]
  /\ child = [p \in Tid |-> NULL]
  /\ lock_for_file = NULL
  /\ killed = {}
-----------------------------------------------------------------------------
(***************************************************************************)
(* Creating a process and loading its program.                             *)
(***************************************************************************)

thread_get_child(p, tid) ==
  IF tid \in Elements(child_tlist[p]) THEN tid ELSE NULL

\* process_execute() and thread_create() when there are pages: the new process
\* starts in start_process(), and its creator goes on at LABEL.
thread_create(p, label) ==
  /\ next_tid \in Tid
  /\ next_tid' = next_tid + 1
  /\ child_tlist' = [child_tlist EXCEPT ![p] = Append(@, next_tid)]
  /\ pc' = [pc EXCEPT ![p] = label, ![next_tid] = "load"]
  /\ child' = [child EXCEPT ![p] = next_tid]
  /\ UNCHANGED <<is_loaded, exit_status, semaVars, lock_for_file, killed>>

\* run_task(): main() waits for each program it starts.
run_task(p) ==
  /\ pc[p] = "run" /\ p = initial_tid
  /\ thread_create(p, "wait")

\* exec() up to its sema_down (&child_thread->sema_load).  Without pages it
\* returns TID_ERROR at once, as run_task() does, and nothing has changed.
syscall_exec(p) ==
  /\ pc[p] = "run" /\ p # initial_tid
  /\ thread_create(p, "exec")

exec_down(p) ==
  /\ pc[p] = "exec"
  /\ sema_load[child[p]] > 0
  /\ sema_load' = [sema_load EXCEPT ![child[p]] = @ - 1]
  /\ pc' = [pc EXCEPT ![p] = "exec_loaded"]
  /\ UNCHANGED <<next_tid, child_tlist, is_loaded, exit_status, sema_wait, sema_elim,
                 child, lock_for_file, killed>>

\* exec() returns the tid, or TID_ERROR if the child was not loaded: such a child
\* stays on child_tlist all the same.
exec_return(p) ==
  /\ pc[p] = "exec_loaded"
  /\ pc' = [pc EXCEPT ![p] = "run"]
  /\ child' = [child EXCEPT ![p] = NULL]
  /\ UNCHANGED <<next_tid, child_tlist, is_loaded, exit_status, semaVars, lock_for_file,
                 killed>>

\* start_process() up to lock_acquire (&_lock_for_file) in load().
load(p) ==
  /\ pc[p] = "load"
  /\ lock_for_file = NULL
  /\ lock_for_file' = p
  /\ pc' = [pc EXCEPT ![p] = "load_open"]
  /\ UNCHANGED <<next_tid, child_tlist, is_loaded, exit_status, semaVars, child, killed>>

\* Without a page for its page directory load() fails before that.
load_without_pagedir(p) ==
  /\ pc[p] = "load"
  /\ is_loaded' = [is_loaded EXCEPT ![p] = FALSE]
  /\ pc' = [pc EXCEPT ![p] = "loaded"]
  /\ UNCHANGED <<next_tid, child_tlist, exit_status, semaVars, child, lock_for_file,
                 killed>>

\* From lock_release() to the end of load(), which may fail.
load_open(p) ==
  /\ pc[p] = "load_open"
  /\ lock_for_file' = NULL
  /\ \E success \in BOOLEAN : is_loaded' = [is_loaded EXCEPT ![p] = success]
  /\ pc' = [pc EXCEPT ![p] = "loaded"]
  /\ UNCHANGED <<next_tid, child_tlist, exit_status, semaVars, child, killed>>

\* load() in which setup_stack() ran out of memory and mapped no stack: the first
\* store of construct_ESP() is a page fault, and syscall_exit (-1) of the half-made
\* process leaves out sema_up (&sema_load).
construct_ESP_faults(p) ==
  /\ pc[p] = "load_open"
  /\ lock_for_file' = NULL
  /\ exit_status' = [exit_status EXCEPT ![p] = -1]
  /\ pc' = [pc EXCEPT ![p] = "exit"]
  /\ UNCHANGED <<next_tid, child_tlist, is_loaded, semaVars, child, killed>>

\* Mutant of start_process(): a process that failed to load exits at once.
start_process_quit(p) ==
  /\ pc[p] = "loaded"
  /\ sema_load' = [sema_load EXCEPT ![p] = IF is_loaded[p] THEN @ + 1 ELSE @]
  /\ pc' = [pc EXCEPT ![p] = IF is_loaded[p] THEN "run" ELSE "exit"]
  /\ UNCHANGED <<next_tid, child_tlist, is_loaded, exit_status, sema_wait, sema_elim,
                 child, lock_for_file, killed>>

\* The rest of start_process(): the program runs, or thread_exit() is called
\* with exit_status as it was.
start_process(p) ==
  /\ pc[p] = "loaded"
  /\ sema_load' = [sema_load EXCEPT ![p] = @ + 1]
  /\ pc' = [pc EXCEPT ![p] = IF is_loaded[p] THEN "run" ELSE "exit"]
  /\ UNCHANGED <<next_tid, child_tlist, is_loaded, exit_status, sema_wait, sema_elim,
                 child, lock_for_file, killed>>
-----------------------------------------------------------------------------
(***************************************************************************)
(* Waiting for a child.                                                    *)
(***************************************************************************)

\* process_wait() up to its sema_down (&child_thread->sema_wait).  For a tid
\* that is no child's it returns -1 at once and changes nothing.
syscall_wait(p) ==
  /\ pc[p] = "run" /\ p # initial_tid
  /\ \E tid \in Tid :
       /\ thread_get_child(p, tid) # NULL
       /\ child' = [child EXCEPT ![p] = thread_get_child(p, tid)]
  /\ pc' = [pc EXCEPT ![p] = "wait"]
  /\ UNCHANGED <<next_tid, child_tlist, is_loaded, exit_status, semaVars, lock_for_file,
                 killed>>

\* Mutant of wait_down(): the parent does not wait for the child to exit.
wait_down_at_once(p) ==
  /\ pc[p] = "wait"
  /\ pc' = [pc EXCEPT ![p] = "wait_collect"]
  /\ UNCHANGED <<next_tid, child_tlist, is_loaded, exit_status, semaVars, child,
                 lock_for_file, killed>>

wait_down(p) ==
  /\ pc[p] = "wait"
  /\ sema_wait[child[p]] > 0
  /\ sema_wait' = [sema_wait EXCEPT ![child[p]] = @ - 1]
  /\ pc' = [pc EXCEPT ![p] = "wait_collect"]
  /\ UNCHANGED <<next_tid, child_tlist, is_loaded, exit_status, sema_load, sema_elim,
                 child, lock_for_file, killed>>

\* What wait() returns: the local exit_status, read in wait_collect().
wait_result(p) == exit_status[child[p]]

\* Mutant of wait_collect(): the child stays on the list.
wait_collect_keep(p) ==
  /\ pc[p] = "wait_collect"
  /\ pc' = [pc EXCEPT ![p] = "wait_up"]
  /\ UNCHANGED <<next_tid, child_tlist, is_loaded, exit_status, semaVars, child,
                 lock_for_file, killed>>

wait_collect(p) ==
  /\ pc[p] = "wait_collect"
  /\ child_tlist' = [child_tlist EXCEPT ![p] = list_remove(@, child[p])]
  /\ pc' = [pc EXCEPT ![p] = "wait_up"]
  /\ UNCHANGED <<next_tid, is_loaded, exit_status, semaVars, child, lock_for_file, killed>>

\* Mutant of wait_up(): sema_elim is forgotten.
wait_up_nothing(p) ==
  /\ pc[p] = "wait_up"
  /\ pc' = [pc EXCEPT ![p] = "run"]
  /\ child' = [child EXCEPT ![p] = NULL]
  /\ UNCHANGED <<next_tid, child_tlist, is_loaded, exit_status, semaVars, lock_for_file,
                 killed>>

wait_up(p) ==
  /\ pc[p] = "wait_up"
  /\ sema_elim' = [sema_elim EXCEPT ![child[p]] = @ + 1]
  /\ pc' = [pc EXCEPT ![p] = "run"]
  /\ child' = [child EXCEPT ![p] = NULL]
  /\ UNCHANGED <<next_tid, child_tlist, is_loaded, exit_status, sema_load, sema_wait,
                 lock_for_file, killed>>
-----------------------------------------------------------------------------
(***************************************************************************)
(* The system calls that hold _lock_for_file.                              *)
(***************************************************************************)

\* read(), write() or open() up to lock_acquire().
syscall_file(p) ==
  /\ pc[p] = "run" /\ p # initial_tid
  /\ pc' = [pc EXCEPT ![p] = "file"]
  /\ UNCHANGED <<next_tid, child_tlist, is_loaded, exit_status, semaVars, child,
                 lock_for_file,
                 killed>>

\* A read() of STDIN goes on to input_getc(), every other call to a file or to
\* the console.
file_acquire(p) ==
  /\ pc[p] = "file"
  /\ lock_for_file = NULL
  /\ lock_for_file' = p
  /\ \E label \in {"file_held", "keys"} : pc' = [pc EXCEPT ![p] = label]
  /\ UNCHANGED <<next_tid, child_tlist, is_loaded, exit_status, semaVars, child, killed>>

\* The call is over, and its lock_release().
Released(p) ==
  /\ lock_for_file' = NULL
  /\ pc' = [pc EXCEPT ![p] = "run"]
  /\ UNCHANGED <<next_tid, child_tlist, is_loaded, exit_status, semaVars, child, killed>>

file_release(p) == pc[p] = "file_held" /\ Released(p)

\* The last key has been pressed that read() asked for.
input_getc(p) == pc[p] = "keys" /\ Released(p)

\* page_fault() on the caller's buffer, in the middle of the call, when the page
\* is not to be had: syscall_exit (-1), with the lock.
page_fault(p) ==
  /\ pc[p] \in {"file_held", "keys"}
  /\ exit_status' = [exit_status EXCEPT ![p] = -1]
  /\ pc' = [pc EXCEPT ![p] = "exit"]
  /\ UNCHANGED <<next_tid, child_tlist, is_loaded, semaVars, child, lock_for_file, killed>>
-----------------------------------------------------------------------------
(***************************************************************************)
(* Exit.                                                                   *)
(***************************************************************************)

\* exit(), by the program or by the kernel on its behalf, up to thread_exit().
syscall_exit(p) ==
  /\ pc[p] = "run" /\ p # initial_tid
  /\ \E status \in ExitStatus : exit_status' = [exit_status EXCEPT ![p] = status]
  /\ pc' = [pc EXCEPT ![p] = "exit"]
  /\ UNCHANGED <<next_tid, child_tlist, is_loaded, semaVars, child, lock_for_file, killed>>

\* An exception other than a page fault in the program's code.
kill(p) ==
  /\ pc[p] = "run" /\ p # initial_tid
  /\ killed' = killed \cup {p}
  /\ pc' = [pc EXCEPT ![p] = "exit"]
  /\ UNCHANGED <<next_tid, child_tlist, is_loaded, exit_status, semaVars, child,
                 lock_for_file>>

\* main() after its last action.
main_exit(p) ==
  /\ pc[p] = "run" /\ p = initial_tid
  /\ pc' = [pc EXCEPT ![p] = "exit"]
  /\ UNCHANGED <<next_tid, child_tlist, is_loaded, exit_status, semaVars, child,
                 lock_for_file, killed>>

\* Mutant of exit_release(): children that are still running are passed over.
exit_release_exited(p) ==
  /\ pc[p] = "exit" /\ child_tlist[p] # <<>>
  /\ sema_elim' = [sema_elim EXCEPT ![Head(child_tlist[p])] =
                     IF pc[Head(child_tlist[p])] = "exit_down" THEN @ + 1 ELSE @]
  /\ child_tlist' = [child_tlist EXCEPT ![p] = Tail(@)]
  /\ UNCHANGED <<next_tid, is_loaded, exit_status, sema_load, sema_wait, pc, child,
                 lock_for_file, killed>>

\* One turn of the loop over child_tlist in thread_exit().
exit_release(p) ==
  /\ pc[p] = "exit" /\ child_tlist[p] # <<>>
  /\ sema_elim' = [sema_elim EXCEPT ![Head(child_tlist[p])] = @ + 1]
  /\ child_tlist' = [child_tlist EXCEPT ![p] = Tail(@)]
  /\ UNCHANGED <<next_tid, is_loaded, exit_status, sema_load, sema_wait, pc, child,
                 lock_for_file, killed>>

\* Mutant of exit_up(): sema_wait is forgotten.
exit_up_nothing(p) ==
  /\ pc[p] = "exit" /\ child_tlist[p] = <<>>
  /\ pc' = [pc EXCEPT ![p] = "exit_down"]
  /\ UNCHANGED <<next_tid, child_tlist, is_loaded, exit_status, semaVars, child,
                 lock_for_file, killed>>

exit_up(p) ==
  /\ pc[p] = "exit" /\ child_tlist[p] = <<>>
  /\ sema_wait' = [sema_wait EXCEPT ![p] = @ + 1]
  /\ pc' = [pc EXCEPT ![p] = "exit_down"]
  /\ UNCHANGED <<next_tid, child_tlist, is_loaded, exit_status, sema_load, sema_elim,
                 child, lock_for_file, killed>>

\* Mutant of exit_down(): the thread dies without waiting for sema_elim.
exit_down_at_once(p) ==
  /\ pc[p] = "exit_down"
  /\ pc' = [pc EXCEPT ![p] = "free"]
  /\ UNCHANGED <<next_tid, child_tlist, is_loaded, exit_status, semaVars, child,
                 lock_for_file, killed>>

\* sema_down (&tc->sema_elim), and then the end of thread_exit() and
\* thread_schedule_tail(), which frees the page of the dying thread.
exit_down(p) ==
  /\ pc[p] = "exit_down"
  /\ sema_elim[p] > 0
  /\ sema_elim' = [sema_elim EXCEPT ![p] = @ - 1]
  /\ pc' = [pc EXCEPT ![p] = "free"]
  /\ UNCHANGED <<next_tid, child_tlist, is_loaded, exit_status, sema_load, sema_wait,
                 child, lock_for_file, killed>>
-----------------------------------------------------------------------------
\* What a process does when it gets the CPU inside a call of the kernel.
Continue(p) ==
  \/ load(p) \/ load_without_pagedir(p) \/ load_open(p) \/ start_process(p)
  \/ exec_down(p) \/ exec_return(p)
  \/ wait_down(p) \/ wait_collect(p) \/ wait_up(p)
  \/ file_acquire(p) \/ file_release(p)
  \/ exit_release(p) \/ exit_up(p) \/ exit_down(p)

\* What it may ask the kernel for, or bring upon itself, and what it may wait for
\* in vain: a key.
Call(p) ==
  \/ run_task(p) \/ main_exit(p)
  \/ syscall_exec(p) \/ syscall_wait(p) \/ syscall_exit(p) \/ kill(p)
  \/ syscall_file(p) \/ input_getc(p) \/ page_fault(p) \/ construct_ESP_faults(p)

Next == \E p \in Tid : Continue(p) \/ Call(p)

Spec == Init /\ [][Next]_vars

\* All processes run at PRI_DEFAULT and the ready list is first in, first out
\* among equals: one that can go on in the kernel gets the CPU.
Fairness == \A p \in Tid : WF_vars(Continue(p))

FairSpec == Spec /\ Fairness
-----------------------------------------------------------------------------
\* Every variable stays in its domain; in particular no semaphore of a struct
\* thread is ever upped twice for one exec, exit or collection.
TypeOK ==
  /\ next_tid \in 3..(MaxTid + 1)
  /\ child_tlist \in [Tid -> Seq(Tid)]
  /\ is_loaded \in [Tid -> BOOLEAN]
  /\ exit_status \in [Tid -> ExitStatus \cup {0}]
  /\ sema_load \in [Tid -> {0, 1}]
  /\ sema_wait \in [Tid -> {0, 1}]
  /\ sema_elim \in [Tid -> {0, 1}]
  /\ pc \in [Tid -> Label]
  /\ child \in [Tid -> Tid \cup {NULL}]
  /\ lock_for_file \in Tid \cup {NULL}
  /\ killed \subseteq Tid

\* The struct thread pages that P may read or write when it goes on: its
\* children's, through child_tlist or child_thread.
Reaches(p) == Elements(child_tlist[p]) \cup ({child[p]} \ {NULL})

\* No thread holds a pointer to a page that has been freed: what keeps
\* thread_get_child(), process_wait(), syscall_exec() and the loop of
\* thread_exit() off freed memory is that a child dies only with sema_elim.
NoDanglingChild ==
  \A p \in Tid : pc[p] # "free" => \A c \in Reaches(p) : pc[c] # "free"

Collecting(p, c) == child[p] = c /\ pc[p] = "wait_up"

\* The right to free a thread is handed over once.  A thread other than main()
\* either is on one child_tlist, once, or is being collected by process_wait()
\* of one parent, or has its sema_elim; never two of these, never none.  So
\* list_remove() in process_wait() takes out an element that is on the list.
OneReaper ==
  \A c \in Tid \ {initial_tid} : pc[c] # "free" =>
    LET listed == {p \in Tid : c \in Elements(child_tlist[p])}
        collecting == {p \in Tid : Collecting(p, c)}
    IN  /\ Cardinality(listed) + Cardinality(collecting) + sema_elim[c] = 1
        /\ \A p \in listed : NoDuplicates(child_tlist[p])
        /\ \A p \in Tid : pc[p] \in {"wait", "wait_collect"} /\ child[p] = c => p \in listed

Loading == {"load", "load_open", "loaded"}

\* What a parent reads is final.  When process_wait() reads exit_status the
\* child is past every assignment to it, blocked on sema_elim; when
\* syscall_exec() reads is_loaded, load() has returned.
AnswersAreFinal ==
  \A p \in Tid :
    /\ pc[p] \in {"wait_collect", "wait_up"} => pc[child[p]] = "exit_down"
    /\ pc[p] = "exec_loaded" => pc[child[p]] \notin Loading

\* exec() returns, even when the program cannot be loaded: the child tells its
\* parent that loading is over before it exits.  It holds if from some time on
\* nobody else holds _lock_for_file, which load() needs.  The code does not ensure
\* that much: a reader of the keyboard holds the lock until a key is pressed, a
\* process that faulted in read() or write() for ever, and a waiter that was woken
\* may find that another call has taken it again.  Nor does the parent of a child
\* without a stack return, which exited with -1 before it was loaded.
ExecReturns ==
  \A c \in Tid :
    LET InExec == \E p \in Tid : child[p] = c /\ pc[p] \in {"exec", "exec_loaded"}
        NoStack == pc[c] \in {"exit", "exit_down"} /\ ~ is_loaded[c] /\ exit_status[c] = -1
    IN  <>[](lock_for_file \in {NULL, c}) => (InExec ~> (~ InExec \/ NoStack))

\* wait() returns once the child is in thread_exit(), whether it got there before
\* its parent called wait() or after, and although some process may keep
\* _lock_for_file for ever.
WaitReturns ==
  \A c \in Tid :
    LET InWait == \E p \in Tid : child[p] = c /\ pc[p] \in {"wait", "wait_collect", "wait_up"}
    IN  (InWait /\ pc[c] \in {"exit", "exit_down"}) ~> ~ InWait

\* No page is leaked: a thread that has exited, and that no parent has on its
\* list any more, is freed.  main()'s thread alone waits for ever.
ExitedIsFreed ==
  \A c \in Tid \ {initial_tid} :
    (pc[c] \in {"exit", "exit_down"} /\ \A p \in Tid : c \notin Elements(child_tlist[p]))
      ~> pc[c] = "free"

\* process_wait() of a child that the kernel killed because of an exception
\* returns -1.
KilledReportsError ==
  \A p \in Tid : pc[p] = "wait_up" /\ child[p] \in killed => wait_result(p) = -1
=============================================================================

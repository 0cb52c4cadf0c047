--------------------------- MODULE ProcessProofs ----------------------------
(***************************************************************************)
(* Parents and children, for any number of threads: nobody frees a struct  *)
(* thread that its parent can still reach, and what a parent reads of a    *)
(* child is final.  Neither follows from itself.  What carries both is a   *)
(* duty: to up the sema_elim that lets a thread go.  thread_create() puts  *)
(* it on the creator's child_tlist, process_wait() takes it off the list   *)
(* into child_thread, and process_wait() or the loop of thread_exit()      *)
(* discharges it.  FamilyInv says that one thread at most has the duty     *)
(* for a child, that the child is alive while somebody has it, and that    *)
(* nobody has it once sema_elim was upped.                                 *)
(***************************************************************************)
EXTENDS Process, KernelListProofs, FiniteSetTheorems

\* P has the duty to up the sema_elim of C: C is on its list, or is being collected.
Holds(p, c) == c \in Elements(child_tlist[p]) \/ Collecting(p, c)

\* Only one thread has that duty, and only as long as C has not been released;
\* and when nobody has it, C can go.
HeldOnce(c) == \A p, q \in Tid : Holds(p, c) /\ Holds(q, c) => p = q

HeldLives(c) ==
  \A p \in Tid : Holds(p, c) => /\ c # initial_tid /\ c < next_tid
                                 /\ sema_elim[c] = 0 /\ pc[c] # "free"

HeldOrReleased(c) ==
  /\ pc[c] # "free" /\ c # initial_tid /\ sema_elim[c] = 0 => \E p \in Tid : Holds(p, c)
  /\ sema_elim[initial_tid] = 0

\* A semaphore is upped at one point of the thread's life; a tid not handed out
\* yet has none of it.
SemaInv(c) ==
  /\ pc[c] \in Loading => sema_load[c] = 0
  /\ sema_wait[c] = 1 => pc[c] \in {"exit_down", "free"}
  /\ c >= next_tid => /\ pc[c] = "free" /\ child[c] = NULL /\ child_tlist[c] = <<>>
                      /\ sema_load[c] = 0 /\ sema_wait[c] = 0 /\ sema_elim[c] = 0

\* What child_thread is while a call is in progress.
ParentInv(p) ==
  /\ NoDuplicates(child_tlist[p])
  /\ pc[p] \in {"exec", "exec_loaded", "wait", "wait_collect"} =>
       child[p] \in Elements(child_tlist[p])
  /\ pc[p] = "wait_up" => child[p] \in Tid /\ child[p] \notin Elements(child_tlist[p])
  /\ pc[p] \notin {"exec", "exec_loaded", "wait", "wait_collect", "wait_up"} => child[p] = NULL
  /\ pc[p] \in {"wait_collect", "wait_up"} => pc[child[p]] = "exit_down"
  /\ pc[p] = "exec_loaded" => pc[child[p]] \notin Loading

ChildInv(c) == HeldOnce(c) /\ HeldLives(c) /\ HeldOrReleased(c) /\ SemaInv(c)

FamilyInv == TypeOK /\ \A c \in Tid : ChildInv(c) /\ ParentInv(c)

-----------------------------------------------------------------------------
\* The prover of the leaves that name none.
USE TidAssumption, ZenonT(60)

\* The parts of FamilyInv, at hand for every thread.
LEMMA FamilyFacts ==
  ASSUME FamilyInv
  PROVE  /\ TypeOK
         /\ \A c \in Tid : /\ HeldOnce(c) /\ HeldLives(c) /\ HeldOrReleased(c)
                           /\ SemaInv(c) /\ ParentInv(c)
  BY DEF FamilyInv, ChildInv

\* A step that changes no list and no sema_elim, and neither starts nor ends a
\* collection or a life, leaves every duty where it is.
LEMMA DutiesKept ==
  ASSUME FamilyInv, UNCHANGED <<next_tid, child_tlist, sema_elim>>,
         \A q \in Tid : /\ pc'[q] = "free" <=> pc[q] = "free"
                        /\ pc'[q] = "wait_up" <=> pc[q] = "wait_up"
                        /\ pc[q] = "wait_up" => child'[q] = child[q]
  PROVE  \A c \in Tid : HeldOnce(c)' /\ HeldLives(c)' /\ HeldOrReleased(c)'
<1>1. \A q, d \in Tid : Holds(q, d)' <=> Holds(q, d)
  BY DEF Holds, Collecting
<1>2. \A c \in Tid : HeldOnce(c)'
  BY <1>1, FamilyFacts DEF HeldOnce
<1>3. \A c \in Tid : HeldLives(c)'
  BY <1>1, FamilyFacts DEF HeldLives
<1>4. \A c \in Tid : HeldOrReleased(c)'
  BY <1>1, FamilyFacts DEF HeldOrReleased
<1> QED
  BY <1>2, <1>3, <1>4

\* P goes on at LABEL, and touches no semaphore and no list.
Quiet(p, label) ==
  /\ pc[p] \in {"load", "load_open", "run", "exec_loaded", "file", "file_held", "keys"}
  /\ label \in Loading => pc[p] \in Loading
  /\ pc' = [pc EXCEPT ![p] = label]
  /\ \A q \in Tid \ {p} : child'[q] = child[q]
  /\ IF label = "wait" THEN child'[p] \in Elements(child_tlist[p]) ELSE child'[p] = NULL
  /\ UNCHANGED <<next_tid, child_tlist, semaVars>>

QuietLabel == {"load_open", "loaded", "run", "exit", "wait", "file", "file_held", "keys"}

\* Such a step of one thread, with its pc and child_thread as ParentInv wants them.
LEMMA QuietStep ==
  ASSUME FamilyInv, TypeOK', NEW p \in Tid,
         \E label \in QuietLabel : Quiet(p, label)
  PROVE  FamilyInv'
<1> USE FamilyFacts
<1>0. PICK label \in QuietLabel : Quiet(p, label)
  OBVIOUS
<1>1. \A q \in Tid : pc'[q] = IF q = p THEN label ELSE pc[q]
  BY <1>0 DEF Quiet, TypeOK
<1>2. \A c \in Tid : HeldOnce(c)' /\ HeldLives(c)' /\ HeldOrReleased(c)'
  BY <1>0, <1>1, DutiesKept DEF Quiet, QuietLabel, semaVars
<1>3. \A c \in Tid : SemaInv(c)'
  BY SMTT(20), <1>0, <1>1 DEF SemaInv, Quiet, QuietLabel, Loading, semaVars
<1>4. \A c \in Tid : ParentInv(c)'
  BY SMTT(20), <1>0, <1>1 DEF ParentInv, Quiet, QuietLabel, Loading
<1> QED
  BY <1>2, <1>3, <1>4 DEF FamilyInv, ChildInv

\* The calls and continuations that are such steps.
LEMMA QuietActions ==
  ASSUME FamilyInv, NEW p \in Tid,
         \/ load(p) \/ load_without_pagedir(p) \/ load_open(p)
         \/ exec_return(p) \/ syscall_wait(p)
         \/ syscall_exit(p) \/ kill(p) \/ main_exit(p)
         \/ syscall_file(p) \/ file_acquire(p) \/ file_release(p)
         \/ input_getc(p) \/ page_fault(p) \/ construct_ESP_faults(p)
  PROVE  FamilyInv'
<1> USE FamilyFacts DEF QuietLabel
<1>1. CASE load(p)
  <2>1. TypeOK'
    BY <1>1 DEF load, TypeOK, Label, semaVars
  <2>2. Quiet(p, "load_open")
    BY <1>1 DEF load, Quiet, ParentInv, Loading
  <2> QED
    BY <2>1, <2>2, QuietStep
<1>2. CASE load_without_pagedir(p)
  <2>1. TypeOK'
    BY <1>2 DEF load_without_pagedir, TypeOK, Label, semaVars
  <2>2. Quiet(p, "loaded")
    BY <1>2 DEF load_without_pagedir, Quiet, ParentInv, Loading
  <2> QED
    BY <2>1, <2>2, QuietStep
<1>3. CASE load_open(p)
  <2>1. TypeOK'
    BY <1>3 DEF load_open, TypeOK, Label, semaVars
  <2>2. Quiet(p, "loaded")
    BY <1>3 DEF load_open, Quiet, ParentInv, Loading
  <2> QED
    BY <2>1, <2>2, QuietStep
<1>4. CASE exec_return(p)
  <2>1. TypeOK'
    BY <1>4 DEF exec_return, TypeOK, Label, semaVars
  <2>2. Quiet(p, "run")
    BY <1>4 DEF exec_return, Quiet, TypeOK, Loading
  <2> QED
    BY <2>1, <2>2, QuietStep
<1>5. CASE syscall_wait(p)
  <2>1. TypeOK'
    BY SMTT(20), <1>5 DEF syscall_wait, thread_get_child, TypeOK, Label, semaVars
  <2>2. Quiet(p, "wait")
    BY <1>5 DEF syscall_wait, Quiet, thread_get_child, TypeOK, NULL, Loading
  <2> QED
    BY <2>1, <2>2, QuietStep
<1>6. CASE syscall_exit(p)
  <2>1. TypeOK'
    BY <1>6 DEF syscall_exit, TypeOK, Label, semaVars
  <2>2. Quiet(p, "exit")
    BY <1>6 DEF syscall_exit, Quiet, ParentInv, Loading
  <2> QED
    BY <2>1, <2>2, QuietStep
<1>7. CASE kill(p)
  <2>1. TypeOK'
    BY <1>7 DEF kill, TypeOK, Label, semaVars
  <2>2. Quiet(p, "exit")
    BY <1>7 DEF kill, Quiet, ParentInv, Loading
  <2> QED
    BY <2>1, <2>2, QuietStep
<1>8. CASE main_exit(p)
  <2>1. TypeOK'
    BY <1>8 DEF main_exit, TypeOK, Label, semaVars
  <2>2. Quiet(p, "exit")
    BY <1>8 DEF main_exit, Quiet, ParentInv, Loading
  <2> QED
    BY <2>1, <2>2, QuietStep
<1>9. CASE syscall_file(p)
  <2>1. TypeOK'
    BY <1>9 DEF syscall_file, TypeOK, Label, semaVars
  <2>2. Quiet(p, "file")
    BY <1>9 DEF syscall_file, Quiet, ParentInv, Loading
  <2> QED
    BY <2>1, <2>2, QuietStep
<1>10. CASE file_acquire(p)
  <2>1. TypeOK'
    BY <1>10 DEF file_acquire, TypeOK, Label, semaVars
  <2>2. Quiet(p, "file_held") \/ Quiet(p, "keys")
    BY <1>10 DEF file_acquire, Quiet, ParentInv, Loading
  <2> QED
    BY <2>1, <2>2, QuietStep
<1>11. CASE file_release(p)
  <2>1. TypeOK'
    BY <1>11 DEF file_release, Released, TypeOK, Label, semaVars
  <2>2. Quiet(p, "run")
    BY <1>11 DEF file_release, Quiet, Released, ParentInv, Loading
  <2> QED
    BY <2>1, <2>2, QuietStep
<1>12. CASE input_getc(p)
  <2>1. TypeOK'
    BY <1>12 DEF input_getc, Released, TypeOK, Label, semaVars
  <2>2. Quiet(p, "run")
    BY <1>12 DEF input_getc, Quiet, Released, ParentInv, Loading
  <2> QED
    BY <2>1, <2>2, QuietStep
<1>13. CASE page_fault(p)
  <2>1. TypeOK'
    BY <1>13, StatusAssumption DEF page_fault, TypeOK, Label, semaVars
  <2>2. Quiet(p, "exit")
    BY <1>13 DEF page_fault, Quiet, ParentInv, Loading
  <2> QED
    BY <2>1, <2>2, QuietStep
<1>14. CASE construct_ESP_faults(p)
  <2>1. TypeOK'
    BY <1>14, StatusAssumption DEF construct_ESP_faults, TypeOK, Label, semaVars
  <2>2. Quiet(p, "exit")
    BY <1>14 DEF construct_ESP_faults, Quiet, ParentInv, Loading
  <2> QED
    BY <2>1, <2>2, QuietStep
<1> QED
  BY <1>1, <1>2, <1>3, <1>4, <1>5, <1>6, <1>7, <1>8, <1>9, <1>10, <1>11, <1>12, <1>13, <1>14

\* syscall_exec() returns from sema_down (&sema_load): the child has loaded.
LEMMA ExecDown ==
  ASSUME FamilyInv, NEW p \in Tid, exec_down(p)
  PROVE  FamilyInv'
<1> USE FamilyFacts
<1>1. child[p] \in Tid /\ sema_load[child[p]] = 1 /\ pc[child[p]] \notin Loading
  BY SMTT(20), EmptyElements DEF exec_down, ParentInv, TypeOK, SemaInv, Loading
<1>2. \A q \in Tid : /\ pc'[q] = IF q = p THEN "exec_loaded" ELSE pc[q]
                     /\ sema_load'[q] = IF q = child[p] THEN 0 ELSE sema_load[q]
  BY SMTT(20), <1>1 DEF exec_down, TypeOK
<1>3. TypeOK'
  BY SMTT(20), <1>1 DEF exec_down, TypeOK, Label
<1>4. \A c \in Tid : HeldOnce(c)' /\ HeldLives(c)' /\ HeldOrReleased(c)'
  BY SMTT(20), <1>2, DutiesKept DEF exec_down
<1>5. \A c \in Tid : SemaInv(c)'
  BY SMTT(20), <1>2 DEF SemaInv, Loading, exec_down
<1>6. \A c \in Tid : ParentInv(c)'
  BY SMTT(20), <1>1, <1>2 DEF ParentInv, Loading, exec_down
<1> QED
  BY <1>3, <1>4, <1>5, <1>6 DEF FamilyInv, ChildInv

\* start_process(): the child's load, and the up of its sema_load.
LEMMA StartProcess ==
  ASSUME FamilyInv, NEW p \in Tid, start_process(p)
  PROVE  FamilyInv'
<1> USE FamilyFacts
<1> DEFINE label == IF is_loaded[p] THEN "run" ELSE "exit"
<1>1. sema_load[p] = 0 /\ label \in {"run", "exit"}
  BY DEF start_process, SemaInv, Loading
<1> HIDE DEF label
<1>2. \A q \in Tid : /\ pc'[q] = IF q = p THEN label ELSE pc[q]
                     /\ sema_load'[q] = IF q = p THEN 1 ELSE sema_load[q]
  BY SMTT(20), <1>1 DEF start_process, TypeOK, label
<1>3. TypeOK'
  BY SMTT(20), <1>1 DEF start_process, TypeOK, Label
<1>4. \A c \in Tid : HeldOnce(c)' /\ HeldLives(c)' /\ HeldOrReleased(c)'
  BY <1>1, <1>2, DutiesKept DEF start_process
<1>5. \A c \in Tid : SemaInv(c)'
  BY SMTT(20), <1>1, <1>2 DEF SemaInv, Loading, start_process
<1>6. \A c \in Tid : ParentInv(c)'
  BY SMTT(20), <1>1, <1>2 DEF ParentInv, Loading, start_process
<1> QED
  BY <1>3, <1>4, <1>5, <1>6 DEF FamilyInv, ChildInv

\* process_wait() returns from sema_down (&sema_wait): the child is in exit.
LEMMA WaitDown ==
  ASSUME FamilyInv, NEW p \in Tid, wait_down(p)
  PROVE  FamilyInv'
<1> USE FamilyFacts
<1>1. /\ child[p] \in Tid /\ sema_wait[child[p]] = 1
      /\ child[p] \in Elements(child_tlist[p])
  BY SMTT(20), EmptyElements DEF wait_down, ParentInv, Loading, TypeOK
<1>2. pc[child[p]] = "exit_down"
  BY <1>1 DEF SemaInv, Loading, HeldLives, Holds
<1>3. \A q \in Tid : /\ pc'[q] = IF q = p THEN "wait_collect" ELSE pc[q]
                     /\ sema_wait'[q] = IF q = child[p] THEN 0 ELSE sema_wait[q]
  BY SMTT(20), <1>1 DEF wait_down, TypeOK
<1>4. TypeOK'
  BY SMTT(20), <1>1 DEF wait_down, TypeOK, Label
<1>5. \A c \in Tid : HeldOnce(c)' /\ HeldLives(c)' /\ HeldOrReleased(c)'
  BY SMTT(20), <1>3, DutiesKept DEF wait_down
<1>6. \A c \in Tid : SemaInv(c)'
  BY SMTT(20), <1>3 DEF SemaInv, Loading, wait_down
<1>7. \A c \in Tid : ParentInv(c)'
  BY SMTT(20), <1>1, <1>2, <1>3 DEF ParentInv, Loading, wait_down
<1> QED
  BY <1>4, <1>5, <1>6, <1>7 DEF FamilyInv, ChildInv

\* thread_exit() ups sema_wait: the exit status is written by then.
LEMMA ExitUp ==
  ASSUME FamilyInv, NEW p \in Tid, exit_up(p)
  PROVE  FamilyInv'
<1> USE FamilyFacts
<1>1. sema_wait[p] = 0
  <2>1. sema_wait[p] # 1
    BY DEF exit_up, SemaInv, Loading
  <2> QED
    BY <2>1 DEF TypeOK
<1>2. \A q \in Tid : /\ pc'[q] = IF q = p THEN "exit_down" ELSE pc[q]
                     /\ sema_wait'[q] = IF q = p THEN 1 ELSE sema_wait[q]
  BY SMTT(20), <1>1 DEF exit_up, TypeOK
<1>3. TypeOK'
  BY SMTT(20), <1>1 DEF exit_up, TypeOK, Label
<1>4. \A c \in Tid : HeldOnce(c)' /\ HeldLives(c)' /\ HeldOrReleased(c)'
  BY SMTT(20), <1>2, DutiesKept DEF exit_up
<1>5. \A c \in Tid : SemaInv(c)'
  BY SMTT(20), <1>2 DEF SemaInv, Loading, exit_up
<1>6. \A c \in Tid : ParentInv(c)'
  BY SMTT(20), <1>2 DEF ParentInv, Loading, exit_up
<1> QED
  BY <1>3, <1>4, <1>5, <1>6 DEF FamilyInv, ChildInv

\* thread_create(): the new thread is on its creator's list and on no other.
LEMMA ThreadCreate ==
  ASSUME FamilyInv, NEW p \in Tid, NEW label \in {"wait", "exec"}, pc[p] = "run",
         thread_create(p, label)
  PROVE  FamilyInv'
<1> USE FamilyFacts DEF NULL, initial_tid
<1> DEFINE list == child_tlist[p]
           longer == Append(list, next_tid)
<1>1. /\ next_tid \in Tid /\ next_tid # p /\ next_tid >= 3
      /\ pc[next_tid] = "free" /\ child[next_tid] = NULL /\ child_tlist[next_tid] = <<>>
      /\ sema_load[next_tid] = 0 /\ sema_wait[next_tid] = 0 /\ sema_elim[next_tid] = 0
  BY SMTT(20) DEF thread_create, TypeOK, SemaInv, Loading, Tid
<1>2. \A q \in Tid : ~ Holds(q, next_tid) /\ next_tid \notin Elements(child_tlist[q])
  BY <1>1 DEF HeldLives, Holds
<1>3. /\ p < next_tid
      /\ \A c \in Tid : /\ c < next_tid \/ c = next_tid => c < next_tid + 1
                        /\ c >= next_tid + 1 => c >= next_tid /\ c # next_tid /\ c # p
  <2>1. ~ (p >= next_tid)
    BY DEF SemaInv, Loading
  <2> QED
    BY SMTT(20), <1>1, <2>1 DEF Tid
<1>4. /\ \A q \in Tid :
           /\ child_tlist'[q] = IF q = p THEN longer ELSE child_tlist[q]
           /\ pc'[q] = IF q = p THEN label ELSE IF q = next_tid THEN "load" ELSE pc[q]
           /\ child'[q] = IF q = p THEN next_tid ELSE child[q]
      /\ next_tid' = next_tid + 1 /\ UNCHANGED semaVars
  BY SMTT(20), <1>1 DEF thread_create, TypeOK
<1>5. list \in Seq(Tid) /\ NoDuplicates(list)
  BY DEF TypeOK, ParentInv, Loading
<1>6. child_tlist' = [child_tlist EXCEPT ![p] = longer]
  BY DEF thread_create
<1> HIDE DEF list
<1>7. /\ longer \in Seq(Tid)
      /\ Elements(longer) = Elements(list) \cup {next_tid}
      /\ NoDuplicates(list) /\ next_tid \notin Elements(list) => NoDuplicates(longer)
  BY ONLY <1>1, <1>5, PushBackElements, Zenon
<1> HIDE DEF longer
<1>8. \A q \in Tid : /\ Elements(child_tlist'[q]) =
                          IF q = p THEN Elements(child_tlist[p]) \cup {next_tid}
                          ELSE Elements(child_tlist[q])
                     /\ NoDuplicates(child_tlist'[q])
  <2>1. NoDuplicates(longer) /\ Elements(longer) = Elements(child_tlist[p]) \cup {next_tid}
    BY <1>2, <1>5, <1>7 DEF list
  <2>2. \A q \in Tid : NoDuplicates(child_tlist[q])
    BY DEF ParentInv, Loading
  <2> QED
    BY ONLY <1>4, <2>1, <2>2, ZenonT(60)
<1>9. \A q, d \in Tid : Holds(q, d)' <=> Holds(q, d) \/ (q = p /\ d = next_tid)
  BY SMTT(20), <1>1, <1>2, <1>4, <1>8 DEF Holds, Collecting
<1>10. TypeOK'
  <2>1. next_tid' \in 3..(MaxTid + 1)
    BY SMTT(20), <1>1, <1>4 DEF Tid
  <2>2. child_tlist' \in [Tid -> Seq(Tid)]
    BY <1>6, <1>7 DEF TypeOK
  <2>3. pc' \in [Tid -> Label]
    <3>1. label \in Label /\ "load" \in Label
      BY DEF Label
    <3>2. pc \in [Tid -> Label] /\ pc' = [pc EXCEPT ![p] = label, ![next_tid] = "load"]
      BY DEF thread_create, TypeOK
    <3> QED
      BY ONLY <3>1, <3>2, ZenonT(60)
  <2>4. child' \in [Tid -> Tid \cup {NULL}]
    BY <1>1 DEF thread_create, TypeOK
  <2>5. UNCHANGED <<is_loaded, exit_status, sema_load, sema_wait, sema_elim, lock_for_file,
                  killed>>
    BY DEF thread_create, semaVars
  <2> QED
    BY <2>1, <2>2, <2>3, <2>4, <2>5 DEF TypeOK
<1>11. \A c \in Tid : HeldOnce(c)'
  BY SMTT(20), <1>2, <1>9 DEF HeldOnce
<1>12. \A c \in Tid : HeldLives(c)'
  BY SMTT(20), <1>1, <1>3, <1>4, <1>9 DEF HeldLives, semaVars
<1>13. \A c \in Tid : HeldOrReleased(c)'
  BY <1>1, <1>4, <1>9 DEF HeldOrReleased, semaVars
<1>14. \A c \in Tid : SemaInv(c)'
  BY SMTT(20), <1>1, <1>3, <1>4 DEF SemaInv, Loading, semaVars
<1>15. ParentInv(p)'
  BY <1>1, <1>4, <1>8 DEF ParentInv, Loading
<1>16. ASSUME NEW c \in Tid \ {p} PROVE ParentInv(c)'
  <2>1. CASE c = next_tid
    BY <1>1, <1>4, <1>8, <2>1 DEF ParentInv, Loading
  <2>2. CASE c # next_tid
    <3>1. /\ pc'[c] = pc[c] /\ child'[c] = child[c]
          /\ Elements(child_tlist'[c]) = Elements(child_tlist[c])
          /\ NoDuplicates(child_tlist'[c])
      BY <1>4, <1>8, <2>2
    <3>2. pc[c] \in {"exec_loaded", "wait_collect", "wait_up"} =>
            child[c] \in Tid /\ child[c] # next_tid
      BY SMTT(20), <1>2, EmptyElements DEF ParentInv, Loading, TypeOK, Holds, Collecting
    <3>3. /\ pc[c] \in {"wait_collect", "wait_up"} => pc'[child[c]] = "exit_down"
          /\ pc[c] = "exec_loaded" => pc'[child[c]] \notin Loading
      BY <1>4, <3>2 DEF ParentInv, Loading
    <3> QED
      BY <3>1, <3>3 DEF ParentInv, Loading
  <2> QED
    BY <2>1, <2>2
<1> QED
  BY <1>10, <1>11, <1>12, <1>13, <1>14, <1>15, <1>16 DEF FamilyInv, ChildInv

\* list_remove() in process_wait(): the duty goes from the list to the caller.
LEMMA WaitCollect ==
  ASSUME FamilyInv, NEW p \in Tid, wait_collect(p)
  PROVE  FamilyInv'
<1> USE FamilyFacts
<1> DEFINE rest == list_remove(child_tlist[p], child[p])
<1>1. child[p] \in Elements(child_tlist[p]) /\ child[p] \in Tid /\ pc[child[p]] = "exit_down"
  BY EmptyElements DEF wait_collect, ParentInv, Loading, TypeOK
<1>2. /\ rest \in Seq(Tid) /\ NoDuplicates(rest)
      /\ Elements(rest) = Elements(child_tlist[p]) \ {child[p]}
  <2>1. child_tlist[p] \in Seq(Tid) /\ NoDuplicates(child_tlist[p])
    BY DEF TypeOK, ParentInv, Loading
  <2> QED
    BY <1>1, <2>1, RemoveElements, Zenon
<1>3. \A q \in Tid : /\ child_tlist'[q] = IF q = p THEN rest ELSE child_tlist[q]
                     /\ pc'[q] = IF q = p THEN "wait_up" ELSE pc[q]
  BY DEF wait_collect, TypeOK
<1>4. TypeOK'
  BY <1>2 DEF wait_collect, TypeOK, Label, semaVars
<1> HIDE DEF rest
<1>5. \A q, d \in Tid : Holds(q, d)' <=> Holds(q, d)
  BY <1>1, <1>2, <1>3 DEF Holds, Collecting, wait_collect
<1>6. \A c \in Tid : HeldOnce(c)'
  BY <1>5 DEF HeldOnce
<1>7. \A c \in Tid : HeldLives(c)'
  BY SMTT(20), <1>3, <1>5 DEF HeldLives, wait_collect, semaVars
<1>8. \A c \in Tid : HeldOrReleased(c)'
  BY <1>3, <1>5 DEF HeldOrReleased, wait_collect, semaVars
<1>9. \A c \in Tid : SemaInv(c)'
  BY SMTT(20), <1>3 DEF SemaInv, Loading, wait_collect, semaVars
<1>10. \A c \in Tid : ParentInv(c)'
  BY SMTT(20), <1>1, <1>2, <1>3 DEF ParentInv, Loading, wait_collect
<1> QED
  BY <1>4, <1>6, <1>7, <1>8, <1>9, <1>10 DEF FamilyInv, ChildInv

\* The end of process_wait(): the duty is done.
LEMMA WaitUp ==
  ASSUME FamilyInv, NEW p \in Tid, wait_up(p)
  PROVE  FamilyInv'
<1> USE FamilyFacts DEF NULL, initial_tid
<1>1. /\ child[p] \in Tid /\ child[p] \notin Elements(child_tlist[p]) /\ Holds(p, child[p])
      /\ child[p] # initial_tid /\ child[p] < next_tid
      /\ sema_elim[child[p]] = 0 /\ pc[child[p]] = "exit_down"
  BY DEF HeldLives, ParentInv, Loading, Holds, Collecting, wait_up
<1>2. \A q \in Tid : /\ pc'[q] = IF q = p THEN "run" ELSE pc[q]
                     /\ child'[q] = IF q = p THEN NULL ELSE child[q]
                     /\ sema_elim'[q] = IF q = child[p] THEN 1 ELSE sema_elim[q]
  BY SMTT(20), <1>1 DEF TypeOK, wait_up
<1>3. \A q, d \in Tid : Holds(q, d)' <=> Holds(q, d) /\ ~ (q = p /\ d = child[p])
  BY SMTT(20), <1>1, <1>2 DEF Holds, Collecting, wait_up
<1>4. TypeOK'
  BY SMTT(20), <1>1 DEF TypeOK, wait_up, Label
<1>5. \A c \in Tid : HeldOnce(c)'
  BY <1>3 DEF HeldOnce
<1>6. \A c \in Tid : HeldLives(c)'
  BY SMTT(20), <1>1, <1>2, <1>3 DEF HeldLives, HeldOnce, wait_up
<1>7. \A c \in Tid : HeldOrReleased(c)'
  BY SMTT(20), <1>1, <1>2, <1>3 DEF HeldOrReleased, wait_up, Tid
<1>8. \A c \in Tid : SemaInv(c)'
  <2>1. pc[p] = "wait_up" /\ ~ (p >= next_tid) /\ ~ (child[p] >= next_tid) /\ sema_wait[p] # 1
    BY <1>1 DEF SemaInv, wait_up
  <2>2. \A c \in Tid : c >= next_tid => c # p /\ c # child[p]
    BY <2>1
  <2>3. UNCHANGED <<next_tid, child_tlist, sema_load, sema_wait>>
    BY DEF wait_up
  <2> QED
    BY <1>2, <2>1, <2>2, <2>3 DEF SemaInv, Loading
<1>9. \A c \in Tid : ParentInv(c)'
  BY SMTT(20), <1>1, <1>2 DEF ParentInv, Loading, wait_up
<1> QED
  BY <1>4, <1>5, <1>6, <1>7, <1>8, <1>9 DEF FamilyInv, ChildInv

\* The loop of thread_exit(): so it is for each child still on the list.
LEMMA ExitRelease ==
  ASSUME FamilyInv, NEW p \in Tid, exit_release(p)
  PROVE  FamilyInv'
<1> USE FamilyFacts DEF initial_tid
<1> DEFINE e == Head(child_tlist[p])
           rest == Tail(child_tlist[p])
<1>1. /\ e \in Tid /\ e \in Elements(child_tlist[p])
      /\ rest \in Seq(Tid) /\ NoDuplicates(rest)
      /\ Elements(rest) = Elements(child_tlist[p]) \ {e}
  <2>1. child_tlist[p] \in Seq(Tid) /\ NoDuplicates(child_tlist[p]) /\ child_tlist[p] # <<>>
    BY DEF TypeOK, ParentInv, Loading, exit_release
  <2>2. /\ e \in Tid /\ e \in Elements(child_tlist[p])
        /\ rest \in Seq(Tid) /\ NoDuplicates(rest) /\ e \notin Elements(rest)
        /\ Elements(child_tlist[p]) = Elements(rest) \cup {e}
    BY <2>1, PopFrontElements, Zenon
  <2> QED
    BY <2>2
<1>2. Holds(p, e) /\ e # initial_tid /\ e < next_tid /\ sema_elim[e] = 0 /\ pc[e] # "free"
  BY <1>1 DEF HeldLives, Holds
<1>3. \A q \in Tid : /\ child_tlist'[q] = IF q = p THEN rest ELSE child_tlist[q]
                     /\ sema_elim'[q] = IF q = e THEN 1 ELSE sema_elim[q]
  BY SMTT(20), <1>1, <1>2 DEF exit_release, TypeOK
<1>4. TypeOK'
  BY SMTT(20), <1>1, <1>2 DEF exit_release, TypeOK
<1> HIDE DEF e, rest
<1>5. pc[p] = "exit" /\ UNCHANGED <<next_tid, sema_load, sema_wait, pc, child>>
  BY DEF exit_release
<1>6. \A q, d \in Tid : Holds(q, d)' <=> Holds(q, d) /\ ~ (q = p /\ d = e)
  BY <1>1, <1>3, <1>5 DEF Holds, Collecting
<1>7. \A c \in Tid : HeldOnce(c)'
  BY <1>6 DEF HeldOnce
<1>8. \A c \in Tid : HeldLives(c)'
  BY SMTT(20), <1>1, <1>2, <1>3, <1>5, <1>6 DEF HeldLives, HeldOnce
<1>9. \A c \in Tid : HeldOrReleased(c)'
  BY SMTT(20), <1>1, <1>2, <1>3, <1>5, <1>6 DEF HeldOrReleased, Tid
<1>10. \A c \in Tid : SemaInv(c)'
  <2>1. e < next_tid /\ ~ (p >= next_tid)
    BY <1>2, <1>5 DEF SemaInv, Loading
  <2>2. \A c \in Tid : c >= next_tid => c # p /\ c # e
    BY SMTT(20), <1>1, <2>1 DEF TypeOK, Tid
  <2> QED
    BY <1>3, <1>5, <2>2 DEF SemaInv, Loading
<1>11. \A c \in Tid : ParentInv(c)'
  BY <1>1, <1>3, <1>5 DEF ParentInv, Loading
<1> QED
  BY <1>4, <1>7, <1>8, <1>9, <1>10, <1>11 DEF FamilyInv, ChildInv

\* The page is freed: nobody holds the thread, since its sema_elim was upped.
LEMMA ExitDown ==
  ASSUME FamilyInv, NEW p \in Tid, exit_down(p)
  PROVE  FamilyInv'
<1> USE FamilyFacts DEF initial_tid
<1>1. sema_elim[p] = 1 /\ p # initial_tid
  BY SMTT(20) DEF exit_down, TypeOK, HeldOrReleased
<1>2. \A q \in Tid : ~ Holds(q, p)
  BY SMTT(20), <1>1 DEF HeldLives
<1>3. \A q \in Tid : /\ pc'[q] = IF q = p THEN "free" ELSE pc[q]
                     /\ sema_elim'[q] = IF q = p THEN 0 ELSE sema_elim[q]
  BY SMTT(20), <1>1 DEF exit_down, TypeOK
<1>4. pc[p] = "exit_down" /\ UNCHANGED <<next_tid, child_tlist, sema_load, sema_wait, child>>
  BY DEF exit_down
<1>5. TypeOK'
  BY SMTT(20), <1>1 DEF exit_down, TypeOK, Label
<1>6. \A q, d \in Tid : Holds(q, d)' <=> Holds(q, d)
  BY <1>3, <1>4 DEF Holds, Collecting
<1>7. \A c \in Tid : HeldOnce(c)'
  BY <1>6 DEF HeldOnce
<1>8. \A c \in Tid : HeldLives(c)'
  BY <1>2, <1>3, <1>4, <1>6 DEF HeldLives
<1>9. \A c \in Tid : HeldOrReleased(c)'
  BY SMTT(20), <1>1, <1>3, <1>6 DEF HeldOrReleased, Tid
<1>10. \A c \in Tid : SemaInv(c)'
  BY <1>3, <1>4 DEF SemaInv, Loading
<1>11. \A c \in Tid : ParentInv(c)'
  <2>1. \A c \in Tid : /\ child[c] = p => pc[c] # "wait_up"
                       /\ p \notin Elements(child_tlist[c])
    BY <1>2 DEF Holds, Collecting
  <2> SUFFICES ASSUME NEW c \in Tid PROVE ParentInv(c)'
    OBVIOUS
  <2>2. CASE c = p
    BY <1>3, <1>4, <2>2 DEF ParentInv, Loading
  <2>3. CASE c # p
    <3>1. pc'[c] = pc[c] /\ child'[c] = child[c] /\ child_tlist'[c] = child_tlist[c]
      BY <1>3, <1>4, <2>3
    <3>2. pc[c] \in {"exec_loaded", "wait_collect", "wait_up"} =>
            child[c] \in Tid /\ child[c] # p
      BY SMTT(20), <2>1, EmptyElements DEF ParentInv, Loading, TypeOK
    <3> QED
      BY <1>3, <3>1, <3>2 DEF ParentInv, Loading
  <2> QED
    BY <2>2, <2>3
<1> QED
  BY <1>5, <1>7, <1>8, <1>9, <1>10, <1>11 DEF FamilyInv, ChildInv
-----------------------------------------------------------------------------
\* The initial thread is alone and nobody's child.
LEMMA FamilyInit == Init => FamilyInv
<1> SUFFICES ASSUME Init PROVE FamilyInv
  OBVIOUS
<1> USE DEF NULL, initial_tid, idle_tid
<1>1. 1 \in Tid /\ 2 \in Tid /\ \A c \in Tid : c \in Nat /\ (c >= 3 => c # 1 /\ c # 2)
  BY SMTT(20) DEF Tid
<1>2. /\ next_tid = 3
      /\ \A q \in Tid :
           /\ child_tlist[q] = IF q = 1 THEN <<2>> ELSE <<>>
           /\ pc[q] = IF q = 1 THEN "run" ELSE IF q = 2 THEN "idle" ELSE "free"
           /\ child[q] = 0 /\ sema_load[q] = 0 /\ sema_wait[q] = 0 /\ sema_elim[q] = 0
  BY SMTT(20) DEF Init
<1>3. /\ <<2>> \in Seq(Tid) /\ Elements(<<2>>) = {2} /\ NoDuplicates(<<2>>)
      /\ <<>> \in Seq(Tid) /\ Elements(<<>>) = {} /\ NoDuplicates(<<>>)
  BY SMTT(20), <1>1, EmptyList DEF Elements, Range, NoDuplicates
<1>4. TypeOK
  BY SMTT(20), <1>1, <1>3 DEF Init, TypeOK, Label
<1>5. \A q, d \in Tid : Holds(q, d) <=> q = 1 /\ d = 2
  BY SMTT(20), <1>1, <1>2, <1>3 DEF Holds, Collecting
<1>6. \A c \in Tid : HeldOnce(c) /\ HeldLives(c) /\ HeldOrReleased(c)
  BY SMTT(20), <1>1, <1>2, <1>5 DEF HeldOnce, HeldLives, HeldOrReleased
<1>7. \A c \in Tid : SemaInv(c)
  BY SMTT(20), <1>1, <1>2 DEF SemaInv, Loading
<1>8. \A c \in Tid : ParentInv(c)
  BY <1>1, <1>2, <1>3 DEF ParentInv, Loading
<1> QED
  BY <1>4, <1>6, <1>7, <1>8 DEF FamilyInv, ChildInv

\* Every step of Process keeps FamilyInv.
LEMMA FamilyNext == FamilyInv /\ [Next]_vars => FamilyInv'
<1> SUFFICES ASSUME FamilyInv, [Next]_vars PROVE FamilyInv'
  OBVIOUS
<1>1. ASSUME NEW p \in Tid, Continue(p) PROVE FamilyInv'
  BY <1>1, QuietActions, StartProcess, ExecDown, WaitDown, WaitCollect, WaitUp,
     ExitRelease, ExitUp, ExitDown, Zenon DEF Continue
<1>2. ASSUME NEW p \in Tid, Call(p) PROVE FamilyInv'
  <2>1. CASE run_task(p) \/ syscall_exec(p)
    BY <2>1, ThreadCreate, Zenon DEF run_task, syscall_exec
  <2> QED
    BY <1>2, <2>1, QuietActions, Zenon DEF Call
<1>3. CASE UNCHANGED vars
  <2>1. TypeOK'
    BY <1>3, FamilyFacts DEF vars, semaVars, TypeOK
  <2>2. \A c \in Tid : HeldOnce(c)' /\ HeldLives(c)' /\ HeldOrReleased(c)'
    BY <1>3, DutiesKept DEF vars, semaVars
  <2>3. \A c \in Tid : SemaInv(c)' /\ ParentInv(c)'
    BY <1>3, FamilyFacts DEF vars, semaVars, SemaInv, ParentInv, Loading
  <2> QED
    BY <2>1, <2>2, <2>3 DEF FamilyInv, ChildInv
<1> QED
  BY <1>1, <1>2, <1>3, Zenon DEF Next

\* FamilyInv is an invariant.
LEMMA FamilyAlways == Spec => []FamilyInv
  BY FamilyInit, FamilyNext, PTL DEF Spec

\* No semaphore of a struct thread is upped twice for one exec, exit or
\* collection, whatever the number of threads.
THEOREM ProcessTypes == Spec => []TypeOK
<1>1. FamilyInv => TypeOK
  BY DEF FamilyInv
<1> QED
  BY <1>1, FamilyAlways, PTL

\* However many processes are created, wait for each other and exit, in whatever
\* order: no thread that is alive has, on child_tlist or in child_thread, a
\* struct thread that thread_schedule_tail() has freed.
THEOREM NoThreadIsFreedEarly == Spec => []NoDanglingChild
<1>1. FamilyInv => NoDanglingChild
  <2> SUFFICES ASSUME FamilyInv, NEW p \in Tid, NEW c \in Reaches(p), pc[p] # "free"
               PROVE  pc[c] # "free"
    BY DEF NoDanglingChild
  <2>1. c \in Tid
    BY SMTT(20), FamilyFacts, EmptyElements DEF Reaches, TypeOK
  <2>2. Holds(p, c) => pc[c] # "free"
    BY <2>1, FamilyFacts DEF HeldLives
  <2>3. Holds(p, c)
    BY FamilyFacts DEF Reaches, Holds, Collecting, ParentInv, Loading
  <2> QED
    BY <2>2, <2>3
<1> QED
  BY <1>1, FamilyAlways, PTL

\* What a parent reads in process_wait() and syscall_exec() is final.
THEOREM ParentsReadFinalValues == Spec => []AnswersAreFinal
<1>1. FamilyInv => AnswersAreFinal
  BY FamilyFacts DEF ParentInv, Loading, AnswersAreFinal
<1> QED
  BY <1>1, FamilyAlways, PTL

\* The duty to release a thread is never lost, doubled or done twice: it goes
\* from thread_create() through child_tlist, and perhaps process_wait(), to one
\* sema_up (&sema_elim).
THEOREM EveryThreadHasOneReaper == Spec => []OneReaper
<1>1. FamilyInv => OneReaper
  <2> SUFFICES ASSUME FamilyInv, NEW c \in Tid \ {initial_tid}, pc[c] # "free"
               PROVE  LET listed == {p \in Tid : c \in Elements(child_tlist[p])}
                          collecting == {p \in Tid : Collecting(p, c)}
                      IN  /\ Cardinality(listed) + Cardinality(collecting) + sema_elim[c] = 1
                          /\ \A p \in listed : NoDuplicates(child_tlist[p])
                          /\ \A p \in Tid : pc[p] \in {"wait", "wait_collect"} /\ child[p] = c
                               => p \in listed
    BY DEF OneReaper
  <2> DEFINE listed == {p \in Tid : c \in Elements(child_tlist[p])}
             collecting == {p \in Tid : Collecting(p, c)}
  <2>1. \A p \in Tid : ~ (p \in listed /\ p \in collecting)
    BY FamilyFacts DEF ParentInv, Loading, Collecting
  <2>2. \A p, q \in listed \cup collecting : p = q
    BY FamilyFacts DEF HeldOnce, Holds
  <2>3. /\ sema_elim[c] \in {0, 1}
        /\ listed \cup collecting # {} <=> sema_elim[c] = 0
    BY FamilyFacts DEF TypeOK, HeldLives, HeldOrReleased, Holds
  <2>4. /\ \A p \in listed : NoDuplicates(child_tlist[p])
        /\ \A p \in Tid : pc[p] \in {"wait", "wait_collect"} /\ child[p] = c => p \in listed
    BY FamilyFacts DEF ParentInv, Loading
  <2>5. listed \subseteq Tid /\ collecting \subseteq Tid
    OBVIOUS
  <2> HIDE DEF listed, collecting
  <2>6. Cardinality({}) = 0 /\ \A p : Cardinality({p}) = 1
    BY FS_EmptySet, FS_Singleton, Zenon
  <2>7. CASE sema_elim[c] = 1
    <3>1. listed = {} /\ collecting = {}
      BY SMTT(20), <2>3, <2>7
    <3>2. Cardinality(listed) + Cardinality(collecting) + sema_elim[c] = 1
      BY ONLY <2>6, <2>7, <3>1
    <3> QED
      BY <2>4, <3>2 DEF listed, collecting
  <2>8. CASE sema_elim[c] = 0
    <3>1. PICK p \in listed \cup collecting : TRUE
      BY <2>3, <2>8
    <3>2. \/ listed = {p} /\ collecting = {}
          \/ listed = {} /\ collecting = {p}
      BY <2>1, <2>2, <2>5, <3>1
    <3>3. Cardinality(listed) + Cardinality(collecting) + sema_elim[c] = 1
      <4>1. Cardinality({}) = 0 /\ Cardinality({p}) = 1
        BY <2>6
      <4> QED
        BY ONLY <2>8, <3>2, <4>1
    <3> QED
      BY <2>4, <3>3 DEF listed, collecting
  <2> QED
    BY <2>3, <2>7, <2>8
<1> QED
  BY <1>1, FamilyAlways, PTL
=============================================================================

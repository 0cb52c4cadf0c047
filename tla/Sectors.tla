------------------------------ MODULE Sectors -------------------------------
(***************************************************************************)
(* What ide.c promises to its callers: a device is an array of sectors,    *)
(* and ide_read() and ide_write() are atomic operations on it that         *)
(* "internally synchronize accesses to disks".                             *)
(***************************************************************************)
CONSTANTS Thread, Device, Sector, Value, NULL

VARIABLES
  store,  \* the contents of each sector of each device
  call,   \* the operation each thread is in, or NULL
  answer  \* what the thread's operation came back with, NULL until it did

vars == <<store, call, answer>>

Call == [op : {"read"}, dev : Device, sec : Sector]
        \cup [op : {"write"}, dev : Device, sec : Sector, val : Value]

Init ==
  /\ store \in [Device -> [Sector -> Value]]
  /\ call = [t \in Thread |-> NULL]
  /\ answer = [t \in Thread |-> NULL]

Begin(t) ==
  /\ call[t] = NULL
  /\ \E c \in Call : call' = [call EXCEPT ![t] = c]
  /\ UNCHANGED <<store, answer>>

Read(t) ==
  /\ call[t] # NULL /\ call[t].op = "read" /\ answer[t] = NULL
  /\ answer' = [answer EXCEPT ![t] = store[call[t].dev][call[t].sec]]
  /\ UNCHANGED <<store, call>>

Write(t) ==
  /\ call[t] # NULL /\ call[t].op = "write" /\ answer[t] = NULL
  /\ store' = [store EXCEPT ![call[t].dev][call[t].sec] = call[t].val]
  /\ answer' = [answer EXCEPT ![t] = call[t].val]
  /\ UNCHANGED call

End(t) ==
  /\ answer[t] # NULL
  /\ call' = [call EXCEPT ![t] = NULL]
  /\ answer' = [answer EXCEPT ![t] = NULL]
  /\ UNCHANGED store

Next == \E t \in Thread : Begin(t) \/ Read(t) \/ Write(t) \/ End(t)

Spec == Init /\ [][Next]_vars
=============================================================================

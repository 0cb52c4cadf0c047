------------------------------- MODULE Memory -------------------------------
(***************************************************************************)
(* What paging must look like to user programs: each process has its own   *)
(* memory, which starts as the executable says, gets zeroed stack pages as *)
(* they are needed, and changes only when the process stores into it.      *)
(***************************************************************************)
CONSTANTS Proc, Page, BinPage, Image, Value, NoPage

VARIABLE mem   \* mem[p][v]: what P reads at V, or NoPage

Empty == [v \in Page |-> NoPage]

Loaded == [v \in Page |-> IF v \in BinPage THEN Image[v] ELSE NoPage]

Init == mem = [p \in Proc |-> Empty]

Exec(p) ==
  /\ mem[p] = Empty
  /\ mem' = [mem EXCEPT ![p] = Loaded]

Grow(p, v) ==
  /\ mem[p][v] = NoPage
  /\ mem' = [mem EXCEPT ![p][v] = 0]

Store(p, v, x) ==
  /\ mem[p][v] # NoPage
  /\ mem' = [mem EXCEPT ![p][v] = x]

Exit(p) == mem' = [mem EXCEPT ![p] = Empty]

Next ==
  \E p \in Proc :
    \/ Exec(p) \/ Exit(p)
    \/ \E v \in Page \ BinPage : Grow(p, v)
    \/ \E v \in Page, x \in Value : Store(p, v, x)

Spec == Init /\ [][Next]_mem
=============================================================================

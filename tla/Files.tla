------------------------------- MODULE Files --------------------------------
(***************************************************************************)
(* What the file system promises: names that lead to files, and files of a *)
(* fixed length that keep their bytes until somebody writes to them.  A    *)
(* file whose name is removed lives on until nobody has it open; when the  *)
(* machine stops, the files that have a name are the ones that are left.   *)
(***************************************************************************)
EXTENDS Integers, Sequences, FiniteSets

CONSTANTS
  Name,
  Length,   \* lengths of files
  FileId,   \* identities of files; one may be used again when its file is gone
  NULL

VARIABLES
  dir,      \* of each name: its file, or NULL
  bytes     \* of each file: its contents, or NULL when there is no such file

vars == <<dir, bytes>>

Byte == {0, 1}

Named == {dir[n] : n \in Name} \ {NULL}

Exists(f) == bytes[f] # NULL

Zeros(length) == [i \in 1..length |-> 0]

Init ==
  /\ dir \in [Name -> FileId \cup {NULL}]
  /\ \A f \in FileId : Exists(f) <=> f \in Named

\* A new file holds zeros, has one name, and is no file that is in use.
Create(n, f, length) ==
  /\ dir[n] = NULL /\ ~ Exists(f)
  /\ dir' = [dir EXCEPT ![n] = f]
  /\ bytes' = [bytes EXCEPT ![f] = Zeros(length)]

Remove(n) ==
  /\ dir[n] # NULL
  /\ dir' = [dir EXCEPT ![n] = NULL]
  /\ UNCHANGED bytes

\* A write changes some bytes of one file, not its length.
Write(f) ==
  /\ Exists(f)
  /\ bytes'[f] \in [1..Len(bytes[f]) -> Byte]
  /\ \A g \in FileId \ {f} : bytes'[g] = bytes[g]
  /\ UNCHANGED dir

Nameless == {f \in FileId : Exists(f)} \ Named

\* The last user of a nameless file is gone, or the machine has stopped.
Vanish(F) ==
  /\ bytes' = [f \in FileId |-> IF f \in F THEN NULL ELSE bytes[f]]
  /\ UNCHANGED dir

Next ==
  \/ \E f \in FileId : Write(f)
  \/ \E n \in Name : Remove(n)
  \/ \E n \in Name, f \in FileId, length \in Length : Create(n, f, length)
  \/ \E F \in SUBSET Nameless : Vanish(F)

Spec == Init /\ [][Next]_vars
=============================================================================

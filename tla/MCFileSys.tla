----------------------------- MODULE MCFileSys ------------------------------
(***************************************************************************)
(* Instances of FileSys for TLC.                                           *)
(***************************************************************************)
EXTENDS FileSysRefinement, TLC

\* Processes are interchangeable.
Symmetry == Permutations(Proc)

\* Every allocation but the buffer of a directory search.
MCLowMemory == Allocation \ {"dir_read"}

\* Memory does not run out.
MCNone == {}
=============================================================================

------------------------------ MODULE MCPaging ------------------------------
(***************************************************************************)
(* Instances of Paging for TLC.                                            *)
(***************************************************************************)
EXTENDS Paging, TLC

\* The executable's pages: with contents of their own.
MCImage == [v \in BinPage |-> 1]

Symmetry == Permutations(Proc)
=============================================================================

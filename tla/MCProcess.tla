----------------------------- MODULE MCProcess ------------------------------
(***************************************************************************)
(* Instances of Process for TLC.                                           *)
(***************************************************************************)
EXTENDS Process

\* The kernel's own -1 and a status that a program chose.
MCExitStatus == {-1, 1}
=============================================================================

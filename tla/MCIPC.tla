---------------------------------- MODULE MCIPC ----------------------------------
(* Controllers that are alike, started by hand or by a script.             *)
EXTENDS IPC
CONSTANTS c1, c2, c3
=============================================================================

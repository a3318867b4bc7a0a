------------------------------ MODULE MCRWSync ------------------------------
(* Four threads.  They are interchangeable, but liveness is checked as     *)
(* well, so no symmetry is declared.                                       *)
EXTENDS RWSync

CONSTANTS t1, t2, t3, t4
MCThreads == {t1, t2, t3, t4}
=============================================================================

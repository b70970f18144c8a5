---------------------------- MODULE MCMloopWork -----------------------------
(* An instance of MloopWork.                                                 *)
EXTENDS MloopWork

CONSTANTS w1, w2, t1, t2

TwoWorks == {w1, w2}
TwoThreads == {t1, t2}
=============================================================================

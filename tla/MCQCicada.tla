----------------------------- MODULE MCQCicada -----------------------------
(* Two threads collecting and two setting the mode, two chunks per call.   *)
EXTENDS QCicada

CONSTANTS r1, r2, t1, t2
=============================================================================

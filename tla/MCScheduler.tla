---------------------------- MODULE MCScheduler ----------------------------
\* Five processes on three levels of at most two: level 0 is filled exactly
\* by its two processes, level 1 has three and can overflow.
EXTENDS Scheduler, TLC

CONSTANTS p1, p2, p3, p4, p5, c1, c2

mcPrio == (p1 :> 0) @@ (p2 :> 0) @@ (p3 :> 1) @@ (p4 :> 1) @@ (p5 :> 1)
=============================================================================

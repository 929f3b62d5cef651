-------------------------------- MODULE MCOS --------------------------------
\* Processes on two levels, of none to five instructions, one of them added
\* late, so that there are more processes than CPUs and then idle CPUs.
EXTENDS OS, TLC

CONSTANTS p1, p2, p3, p4, p5, c1, c2, c3

mcProcesses == <<p1, p2, p3, p4, p5>>
mcPrio  == (p1 :> 1) @@ (p2 :> 0) @@ (p3 :> 1) @@ (p4 :> 1) @@ (p5 :> 0)
mcStart == (p1 :> 0) @@ (p2 :> 0) @@ (p3 :> 1) @@ (p4 :> 0) @@ (p5 :> 7)
mcSize  == (p1 :> 5) @@ (p2 :> 3) @@ (p3 :> 2) @@ (p4 :> 1) @@ (p5 :> 0)
=============================================================================

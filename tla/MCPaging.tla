------------------------------ MODULE MCPaging ------------------------------
\* Instances of Paging: two processes with a swap device that has room for
\* all pages, one process with a swap device that runs full.  Frames are
\* interchangeable, and so are the processes.
EXTENDS Paging, TLC

CONSTANTS p1, p2, zero, one, f1, f2, s1, s2, s3, s4

Symmetry ==
  Permutations(Proc) \cup Permutations(RamFrame) \cup Permutations(SwpFrame)
=============================================================================

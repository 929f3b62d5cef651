----------------------------- MODULE MCVariables -----------------------------
\* Three variables on pages of two bytes.  The registers are interchangeable.
EXTENDS VarMemory, TLC

CONSTANTS r1, r2, r3, b0, b1

Symmetry == Permutations(Reg)
=============================================================================

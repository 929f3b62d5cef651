-------------------------------- MODULE MCPte --------------------------------
\* The widths of mm.h, and frame numbers at the edges of every bit.
EXTENDS Pte

\* RAM of up to 256 KB has 1024 frames.
mcSmallRam == {2 ^ k : k \in 0 .. 9} \cup {2 ^ k - 1 : k \in 0 .. 10}

\* RAM of 1 MB has 4096 frames.
mcLargeRam == {2 ^ k : k \in 0 .. 11} \cup {2 ^ k - 1 : k \in 0 .. 12}

\* A swap device of 16 MB has 65536 frames.
mcSwap == {2 ^ k : k \in 0 .. 15} \cup {2 ^ k - 1 : k \in 0 .. 16}
=============================================================================

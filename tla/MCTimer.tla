------------------------------ MODULE MCTimer ------------------------------
\* Three devices (two CPUs and the loader), time modulo 3.
EXTENDS Timer
=============================================================================

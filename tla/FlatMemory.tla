----------------------------- MODULE FlatMemory -----------------------------
(***************************************************************************)
(* What paging promises a program: a private memory of its own that grows  *)
(* by zeroed pages, where a read returns what was written last.  An        *)
(* instruction may fail, and then changes nothing.                         *)
(***************************************************************************)
EXTENDS Sequences, Integers

CONSTANTS
  Proc,             \* the processes
  Data,             \* what a page can hold
  Zero,             \* the content of a cleaned page
  MaxPages          \* pages a process may have (PAGING_MAX_PGN)

VARIABLES
  mem,              \* mem[p][q]: the content of page q of p, pages from 1
  result            \* result[p]: how the last instruction of p ended

flatVars == <<mem, result>>

FlatInit ==
  /\ mem = [p \in Proc |-> <<>>]
  /\ result = [p \in Proc |-> "none"]

Return(p, r) == result' = [result EXCEPT ![p] = r]

FlatRead(p, q) ==
  /\ q \in DOMAIN mem[p]
  /\ Return(p, mem[p][q])
  /\ UNCHANGED mem

FlatWrite(p, q, d) ==
  /\ q \in DOMAIN mem[p]
  /\ mem' = [mem EXCEPT ![p][q] = d]
  /\ Return(p, "ok")

FlatGrow(p, n) ==
  /\ Len(mem[p]) + n <= MaxPages
  /\ mem' = [mem EXCEPT ![p] = @ \o [i \in 1 .. n |-> Zero]]
  /\ Return(p, "ok")

FlatFail(p) == Return(p, "error") /\ UNCHANGED mem

FlatNext ==
  \E p \in Proc :
    \/ \E q \in 1 .. MaxPages : FlatRead(p, q)
    \/ \E q \in 1 .. MaxPages, d \in Data : FlatWrite(p, q, d)
    \/ \E n \in 1 .. MaxPages : FlatGrow(p, n)
    \/ FlatFail(p)

FlatSpec == FlatInit /\ [][FlatNext]_flatVars
=============================================================================

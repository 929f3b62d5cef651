------------------------------ MODULE VarMemory ------------------------------
(***************************************************************************)
(* The variables of a process and the memory they lie in: VmArea decides   *)
(* which bytes a variable has, FlatMemory, which Paging implements, keeps  *)
(* the pages.  __alloc of src/mm-vm.c has vm_map_ram add pages for a grown *)
(* area; __read and __write check the access, pg_getval and pg_setval      *)
(* split the address.  One process, whose instructions follow each other.  *)
(***************************************************************************)
EXTENDS VmArea

CONSTANTS
  Byte,             \* the values of a byte
  NUL,              \* the byte of a cleaned frame
  NoVariable        \* as in Variables

ASSUME ByteAssumption ==
  /\ NUL \in Byte /\ {"ok", "error"} \cap Byte = {}
  /\ \A size \in Sizes : NoVariable \notin [0 .. size - 1 -> Byte]

VARIABLES
  mem, result,      \* of FlatMemory
  status            \* what the instruction returned: "ok", "error" or a byte

memVars == <<mem, result, status>>

This == "this process"
Page == [0 .. PAGESZ - 1 -> Byte]

M == INSTANCE FlatMemory WITH
       Proc     <- {This},
       Data     <- Page,
       Zero     <- [o \in 0 .. PAGESZ - 1 |-> NUL],
       MaxPages <- MaxBrk   \* more than the area ever needs

VarInit == Init /\ M!FlatInit /\ status = "none"

-----------------------------------------------------------------------------
\* PAGING_PGN, counted from 1, and PAGING_OFFST
Pgn(addr) == addr \div PAGESZ + 1
Offst(addr) == addr % PAGESZ

\* Mutant: the offset alone is the address.
AddressInArea(r, offset) == offset

Address(r, offset) == symrgtbl[r].start + offset

\* The checks of __read and __write: against the area, not the variable.
Valid(r, offset) == symrgtbl[r].valid /\ Address(r, offset) < sbrk

\* pg_getval and pg_setval, of a page that can be brought in or not
GetVal(addr) ==
  \/ M!FlatRead(This, Pgn(addr)) /\ status' = mem[This][Pgn(addr)][Offst(addr)]
  \/ M!FlatFail(This) /\ status' = "error"

SetVal(addr, b) ==
  \/ /\ M!FlatWrite(This, Pgn(addr), [mem[This][Pgn(addr)] EXCEPT ![Offst(addr)] = b])
     /\ status' = "ok"
  \/ M!FlatFail(This) /\ status' = "error"

\* The instruction returns without a call of the pager.
Return(r) == status' = r /\ M!Return(This, r) /\ UNCHANGED mem

Refused(r, offset) == ~Valid(r, offset) /\ Return("error") /\ UNCHANGED vars

Read(r, offset) ==
  \/ Refused(r, offset)
  \/ Valid(r, offset) /\ GetVal(Address(r, offset)) /\ UNCHANGED vars

Write(r, offset, b) ==
  \/ Refused(r, offset)
  \/ Valid(r, offset) /\ SetVal(Address(r, offset), b) /\ UNCHANGED vars

\* An allocation from what is mapped,
AllocMapped(r, size) ==
  /\ AllocFreed(r, size) \/ AllocGap(r, size)
  /\ Return("ok")

\* Mutant: pages for the whole size, as if there were no gap.
AllocPagesWhole(r, size) ==
  /\ AllocGrow(r, size)
  /\ M!FlatGrow(This, AlignUp(size) \div PAGESZ)
  /\ status' = "ok"

\* from new pages,
AllocPages(r, size) ==
  /\ AllocGrow(r, size)
  /\ M!FlatGrow(This, AlignUp(sbrk + size - vm_end) \div PAGESZ)
  /\ status' = "ok"

\* or not at all: vm_map_ram fails.
AllocFails(size) ==
  /\ NoFit(size) /\ sbrk + size > vm_end
  /\ M!FlatFail(This)
  /\ status' = "error"
  /\ UNCHANGED vars

FreeVar(r) == Free(r) /\ Return("ok")

-----------------------------------------------------------------------------
\* A tidy program (see VmArea) that reads and writes inside its variables,
\* or where the code refuses it.
Inside(r, offset) ==
  symrgtbl[r].valid => \/ Address(r, offset) < symrgtbl[r].end
                       \/ ~Valid(r, offset)

VarNext ==
  \E r \in Reg :
    \/ symrgtbl[r].valid /\ FreeVar(r)
    \/ /\ ~symrgtbl[r].valid
       /\ \E size \in Sizes :
            AllocMapped(r, size) \/ AllocPages(r, size) \/ AllocFails(size)
    \/ \E offset \in 0 .. PAGESZ :
         /\ Inside(r, offset)
         /\ Read(r, offset) \/ \E b \in Byte : Write(r, offset, b)

VarSpec == VarInit /\ [][VarNext]_<<vars, memVars>>

-----------------------------------------------------------------------------
\* The page table ends where the area ends: an access that __read and __write
\* let through (mm-vm.c:506, :572) never finds a page that was not mapped.
AreaMapped == Len(mem[This]) * PAGESZ = vm_end

ByteAt(addr) == mem[This][addr \div PAGESZ + 1][addr % PAGESZ]

V == INSTANCE Variables WITH
       content <- [r \in Reg |->
         LET rg == symrgtbl[r] IN
         IF rg.valid
           THEN [o \in 0 .. rg.end - rg.start - 1 |-> ByteAt(rg.start + o)]
           ELSE NoVariable]

\* A variable reads what was written to it last, whatever other variables
\* are allocated, freed and written on the same and other pages, from freed
\* regions, from the rest of a page and from new pages, and whatever fails.
ImplementsVariables == V!VariablesSpec
=============================================================================

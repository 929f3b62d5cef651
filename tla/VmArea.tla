------------------------------- MODULE VmArea -------------------------------
(***************************************************************************)
(* The variables of one process in its virtual memory area: __alloc,       *)
(* get_free_vmrg_area, __free and enlist_vm_freerg_list of src/mm-vm.c     *)
(* over symrgtbl, vm_freerg_list, sbrk and vm_end.  A process runs on one  *)
(* CPU at a time and its area is its own, so each call is one action.      *)
(* Whether the pages of a grown area can be mapped is left open here;      *)
(* Paging models it.                                                       *)
(***************************************************************************)
EXTENDS Integers, Sequences, FiniteSets, SequencesExt

CONSTANTS
  Reg,              \* indices into symrgtbl
  PAGESZ,           \* PAGING_PAGESZ
  Sizes,            \* the sizes programs ask for
  MaxBrk            \* bound of the model: sbrk is kept up to this

ASSUME VmAreaAssumption ==
  /\ PAGESZ \in Nat \ {0}
  /\ Sizes \subseteq Nat
  /\ MaxBrk \in Nat

VARIABLES
  symrgtbl,         \* symrgtbl[r]: start, end and validity of variable r
  freerg,           \* vm_freerg_list: free regions, the head first
  sbrk, vm_end      \* of the area, whose vm_start is 0

vars == <<symrgtbl, freerg, sbrk, vm_end>>

Region == [start : Nat, end : Nat]

\* init_mm and the calloc of the mm_struct.
Init ==
  /\ symrgtbl = [r \in Reg |-> [start |-> 0, end |-> 0, valid |-> FALSE]]
  /\ freerg = <<[start |-> 0, end |-> 0]>>
  /\ sbrk = 0
  /\ vm_end = 0

AlignUp(n) == ((n + PAGESZ - 1) \div PAGESZ) * PAGESZ

-----------------------------------------------------------------------------
SetSym(r, s, e) ==
  symrgtbl' = [symrgtbl EXCEPT ![r] = [start |-> s, end |-> e, valid |-> TRUE]]

\* get_free_vmrg_area stops at node k of the free list.
FirstFit(k, size) ==
  /\ freerg[k].start + size <= freerg[k].end
  /\ \A j \in 1 .. k - 1 : freerg[j].start + size > freerg[j].end

NoFit(size) ==
  \A k \in DOMAIN freerg : freerg[k].start + size > freerg[k].end

\* Mutants: the chosen region keeps its first bytes; it is dropped whole.
CarveNothing(k, size) == freerg' = freerg
CarveAll(k, size) == freerg' = RemoveAt(freerg, k)

\* The region at node k gives up its first bytes.  A region used up makes
\* room for the next node; as the last one it stays, with no bytes.
Carve(k, size) ==
  freerg' =
    IF freerg[k].start + size < freerg[k].end
      THEN [freerg EXCEPT ![k].start = @ + size]
    ELSE IF k < Len(freerg)
      THEN RemoveAt(freerg, k)
      ELSE [freerg EXCEPT ![k].start = freerg[k].end]

\* __alloc from the free list.
AllocFreed(r, size) ==
  \E k \in DOMAIN freerg :
    /\ FirstFit(k, size)
    /\ SetSym(r, freerg[k].start, freerg[k].start + size)
    /\ Carve(k, size)
    /\ UNCHANGED <<sbrk, vm_end>>

\* Mutant: sbrk is not moved.
AllocGapUncounted(r, size) ==
  /\ NoFit(size)
  /\ sbrk + size <= vm_end
  /\ SetSym(r, sbrk, sbrk + size)
  /\ UNCHANGED <<freerg, sbrk, vm_end>>

\* __alloc from the mapped bytes behind sbrk.
AllocGap(r, size) ==
  /\ NoFit(size)
  /\ sbrk + size <= vm_end
  /\ SetSym(r, sbrk, sbrk + size)
  /\ sbrk' = sbrk + size
  /\ UNCHANGED <<freerg, vm_end>>

\* Mutant: the whole size is mapped, not only what the gap lacks.
AllocGrowWhole(r, size) ==
  /\ NoFit(size)
  /\ sbrk + size > vm_end /\ sbrk + size <= MaxBrk
  /\ SetSym(r, sbrk, sbrk + size)
  /\ sbrk' = sbrk + size
  /\ vm_end' = vm_end + AlignUp(size)
  /\ UNCHANGED freerg

\* __alloc with increase_vma_limit: pages for what the gap lacks are mapped.
\* validate_overlap_vm_area, called on the way, never refuses.  A failure of
\* vm_map_ram leaves all of this as it is.
AllocGrow(r, size) ==
  /\ NoFit(size)
  /\ sbrk + size > vm_end /\ sbrk + size <= MaxBrk
  /\ SetSym(r, sbrk, sbrk + size)
  /\ sbrk' = sbrk + size
  /\ vm_end' = vm_end + AlignUp(sbrk + size - vm_end)
  /\ UNCHANGED freerg

Alloc(r, size) ==
  AllocFreed(r, size) \/ AllocGap(r, size) \/ AllocGrow(r, size)

\* __free: the region of r goes to the head of the free list, unless it is
\* empty, and whether or not r was valid.
Free(r) ==
  /\ symrgtbl' = [symrgtbl EXCEPT ![r].valid = FALSE]
  /\ LET rg == [start |-> symrgtbl[r].start, end |-> symrgtbl[r].end] IN
     freerg' = IF rg.start < rg.end THEN <<rg>> \o freerg ELSE freerg
  /\ UNCHANGED <<sbrk, vm_end>>

-----------------------------------------------------------------------------
\* What any program may do.
Next ==
  \E r \in Reg : Free(r) \/ \E size \in Sizes : Alloc(r, size)

Spec == Init /\ [][Next]_vars

\* A tidy program allocates into registers that hold no variable and frees
\* those that do.
TidyNext ==
  \E r \in Reg :
    \/ symrgtbl[r].valid /\ Free(r)
    \/ ~symrgtbl[r].valid /\ \E size \in Sizes : Alloc(r, size)

TidySpec == Init /\ [][TidyNext]_vars

-----------------------------------------------------------------------------
TypeOK ==
  /\ symrgtbl \in [Reg -> [start : Nat, end : Nat, valid : BOOLEAN]]
  /\ freerg \in Seq(Region) /\ freerg # <<>>
  /\ \A r \in Reg : symrgtbl[r].start <= symrgtbl[r].end
  /\ \A k \in DOMAIN freerg : freerg[k].start <= freerg[k].end
  /\ sbrk \in Nat /\ vm_end \in Nat

In(b, rg) == rg.start <= b /\ b < rg.end

\* The variables and the free regions that byte b belongs to.
Users(b) == {r \in Reg : symrgtbl[r].valid /\ In(b, symrgtbl[r])}
Spares(b) == {k \in DOMAIN freerg : In(b, freerg[k])}

\* os-mm.h:65 "each variable in a process have its virtual memory": no byte
\* belongs to two variables.
VariablesDisjoint ==
  \A r, s \in Reg :
    r # s /\ symrgtbl[r].valid /\ symrgtbl[s].valid =>
      ~ \E b \in 0 .. sbrk : In(b, symrgtbl[r]) /\ In(b, symrgtbl[s])

\* Every byte below sbrk is in one variable or one free region, and in one
\* only: nothing is lost by splitting, using up and giving back regions.
BytesAccountedFor ==
  \A b \in 0 .. sbrk - 1 : Cardinality(Users(b)) + Cardinality(Spares(b)) = 1

\* vm_end is the page boundary at or behind sbrk, and every variable and
\* free region lies below sbrk: what __read and __write let through
\* (mm-vm.c:506, :572) is on pages that were mapped (cf. os-mm.h:45).
AreaTight ==
  /\ vm_end = AlignUp(sbrk)
  /\ \A r \in Reg : symrgtbl[r].end <= sbrk
  /\ \A k \in DOMAIN freerg : freerg[k].end <= sbrk
=============================================================================

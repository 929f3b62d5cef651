--------------------------------- MODULE Pte ---------------------------------
(***************************************************************************)
(* One page table entry: the fields of include/mm.h, and the life of an    *)
(* entry under vmap_page_range, pte_set_swap and pte_set_fpn of src/mm.c.  *)
(* The fields of a page in RAM and of a swapped page overlap, so an entry  *)
(* keeps bits of its earlier uses.  An entry is its two flags and its low  *)
(* bits; the dirty and reserved bits are never set.                        *)
(***************************************************************************)
EXTENDS Integers

CONSTANTS
  FPN_HIBIT,        \* PAGING_PTE_FPN_HIBIT, 12
  RAM_BITS,         \* NBITS(PAGING_MEMRAMSZ), 10
  SWPOFF_LOBIT,     \* PAGING_PTE_SWPOFF_LOBIT, 5
  SWPOFF_HIBIT,     \* PAGING_PTE_SWPOFF_HIBIT, 25
  SWPTYP,           \* the swap type written by the pager, 0
  RamFrame,         \* frame numbers of RAM
  SwpFrame          \* frame numbers of the swap device

\* BIT
Pow2[n \in Nat] == IF n = 0 THEN 1 ELSE 2 * Pow2[n - 1]

\* The fields lie below the flags, and so does a frame number, which is the
\* size of a device, an int, over that of a page.
ASSUME PteAssumption ==
  /\ {FPN_HIBIT, RAM_BITS, SWPOFF_LOBIT, SWPOFF_HIBIT} \subseteq 0 .. 27
  /\ SWPOFF_LOBIT <= SWPOFF_HIBIT
  /\ SWPTYP \in 0 .. Pow2[SWPOFF_LOBIT] - 1
  /\ RamFrame \subseteq 0 .. Pow2[28] - 1 /\ SwpFrame \subseteq 0 .. Pow2[28] - 1

VARIABLES
  pte,              \* [present, swapped, low]
  place             \* where the page is: what the pager last stored

vars == <<pte, place>>

\* GETVAL and SETVAL on the bits lo .. hi of v.
GetVal(v, hi, lo) == (v \div Pow2[lo]) % Pow2[hi - lo + 1]

SetVal(v, value, hi, lo) ==
  v + ((value % Pow2[hi - lo + 1]) - GetVal(v, hi, lo)) * Pow2[lo]

\* PAGING_FPN and PAGING_SWAPFPN
Fpn(low)     == GetVal(low, RAM_BITS - 1, 0)
SwapFpn(low) == GetVal(low, SWPOFF_HIBIT, SWPOFF_LOBIT)

Unmapped == [present |-> FALSE, swapped |-> FALSE, low |-> 0]

Init ==
  /\ pte = Unmapped
  /\ place = <<"none", 0>>

\* vmap_page_range writes the whole entry; a frame number is or-ed in as is.
Map(f) ==
  /\ place[1] = "none"
  /\ pte' = [present |-> TRUE, swapped |-> FALSE, low |-> f]
  /\ place' = <<"ram", f>>

\* Mutant: the entry stays present, as in the line mm.c:54 comments out.
SetSwapPresent(f) ==
  /\ place[1] = "ram"
  /\ pte' = [present |-> TRUE, swapped |-> TRUE,
             low |-> SetVal(SetVal(pte.low, SWPTYP, SWPOFF_LOBIT - 1, 0),
                            f, SWPOFF_HIBIT, SWPOFF_LOBIT)]
  /\ place' = <<"swap", f>>

\* pte_set_swap
SetSwap(f) ==
  /\ place[1] = "ram"
  /\ pte' = [present |-> FALSE, swapped |-> TRUE,
             low |-> SetVal(SetVal(pte.low, SWPTYP, SWPOFF_LOBIT - 1, 0),
                            f, SWPOFF_HIBIT, SWPOFF_LOBIT)]
  /\ place' = <<"swap", f>>

\* Mutant: the frame number is or-ed into the entry as it is.
SetFpnAdding(f) ==
  /\ place[1] = "swap"
  /\ pte' = [present |-> TRUE, swapped |-> FALSE, low |-> pte.low + f]
  /\ place' = <<"ram", f>>

\* pte_set_fpn
SetFpn(f) ==
  /\ place[1] = "swap"
  /\ pte' = [present |-> TRUE, swapped |-> FALSE,
             low |-> SetVal(pte.low, f, FPN_HIBIT, 0)]
  /\ place' = <<"ram", f>>

Next ==
  \/ \E f \in RamFrame : Map(f) \/ SetFpn(f)
  \/ \E f \in SwpFrame : SetSwap(f)

Spec == Init /\ [][Next]_vars

-----------------------------------------------------------------------------
\* An entry that says where its page is reads back as that place: the frame
\* in RAM when present, the frame on the swap device when not, and it is not
\* taken for an unmapped page (pte = 0, mm-vm.c:373).
ReadsBack ==
  /\ place[1] = "ram" => pte.present /\ Fpn(pte.low) = place[2]
  /\ place[1] = "swap" => /\ ~pte.present /\ SwapFpn(pte.low) = place[2]
                          /\ pte # Unmapped

\* The entry stays within the 28 bits below the flags.
TypeOK ==
  /\ pte \in [present : BOOLEAN, swapped : BOOLEAN, low : 0 .. Pow2[28] - 1]
  /\ ~(pte.present /\ pte.swapped)
=============================================================================

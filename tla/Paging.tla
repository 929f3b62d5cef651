------------------------------- MODULE Paging -------------------------------
(***************************************************************************)
(* Demand paging: pg_getpage, bring_to_ram, alloc_pages_range and          *)
(* vm_map_ram of src/mm-vm.c and src/mm.c over the frame lists of          *)
(* src/mm-memphy.c.  Processes on different CPUs share RAM and the active  *)
(* swap device; a lock protects one call on a device, so every such call   *)
(* is a step, with the work on the process's own tables that goes with it. *)
(* __swap_cp_page takes the lock byte by byte and is one step here: the    *)
(* frames it copies belong to the caller alone (NoFrameShared).  Pages are *)
(* numbered from 1.  Which free frame is at the head of a list is left     *)
(* open.  A page's content stands for its bytes; where in the page a       *)
(* variable lies is left to VmArea.                                        *)
(***************************************************************************)
EXTENDS Integers, Sequences, FiniteSets, SequencesExt

CONSTANTS
  Proc, Data, Zero, MaxPages,   \* as in FlatMemory
  RamFrame, SwpFrame,           \* frames of RAM and of the active swap device
  None                          \* no frame

ASSUME PagingAssumption ==
  /\ IsFiniteSet(Proc)
  /\ Zero \in Data /\ "error" \notin Data
  /\ MaxPages \in Nat
  /\ IsFiniteSet(RamFrame) /\ IsFiniteSet(SwpFrame) /\ None \notin SwpFrame

VARIABLES
  ramFree, swpFree, \* free_fp_list of RAM and swap, as sets
  ram, swp,         \* the content of the frames
  pgd,              \* pgd[p][q]: [present, frame] of page q, for mapped pages
  fifo,             \* fifo[p]: fifo_using_pgn, the next victim first
  ipc,              \* ipc[p]: where the instruction of p is
  ins,              \* ins[p]: the instruction: op, page, data or n
  vic,              \* vic[p]: the victim taken from fifo[p], 0 if none
  spare,            \* spare[p]: the swap frame for the victim, or None
  got,              \* got[p]: frm_lst
  avail,            \* avail[p]: ram_free_fpn_count
  result            \* result[p]: how the last instruction ended

devVars == <<ramFree, swpFree, ram, swp>>
tabVars == <<pgd, fifo>>
locVars == <<ins, vic, spare, got, avail, result>>
vars    == <<devVars, tabVars, ipc, locVars>>

NoIns == [op |-> "none", page |-> 0]

Init ==
  /\ ramFree = RamFrame
  /\ swpFree = SwpFrame
  /\ ram = [f \in RamFrame |-> Zero]
  /\ swp = [f \in SwpFrame |-> Zero]
  /\ pgd = [p \in Proc |-> <<>>]
  /\ fifo = [p \in Proc |-> <<>>]
  /\ ipc = [p \in Proc |-> "idle"]
  /\ ins = [p \in Proc |-> NoIns]
  /\ vic = [p \in Proc |-> 0]
  /\ spare = [p \in Proc |-> None]
  /\ got = [p \in Proc |-> <<>>]
  /\ avail = [p \in Proc |-> 0]
  /\ result = [p \in Proc |-> "none"]

Goto(p, l) == ipc' = [ipc EXCEPT ![p] = l]

\* The instruction returns r to run; its locals are gone.
Return(p, r) ==
  /\ Goto(p, "idle")
  /\ ins' = [ins EXCEPT ![p] = NoIns]
  /\ vic' = [vic EXCEPT ![p] = 0]
  /\ spare' = [spare EXCEPT ![p] = None]
  /\ got' = [got EXCEPT ![p] = <<>>]
  /\ avail' = [avail EXCEPT ![p] = 0]
  /\ result' = [result EXCEPT ![p] = r]

\* Mutant: the present bit stays set.
InSwapPresent(f) == [present |-> TRUE, frame |-> f]

\* pte_set_fpn and pte_set_swap
InRam(f)  == [present |-> TRUE, frame |-> f]
InSwap(f) == [present |-> FALSE, frame |-> f]

VictimFrame(p) == pgd[p][vic[p]].frame

-----------------------------------------------------------------------------
\* Mutant: the exception is not looked at.
VictimsAny(p, exception) == {k \in DOMAIN fifo[p] : k = 1}

\* The position find_victim_page chooses; none when there is no other page
\* than the exception.
Victims(p, exception) ==
  {k \in DOMAIN fifo[p] : IF fifo[p][1] = exception THEN k = 2 ELSE k = 1}

\* find_victim_page, with position k.
TakeVictim(p, k) ==
  /\ vic' = [vic EXCEPT ![p] = fifo[p][k]]
  /\ fifo' = [fifo EXCEPT ![p] = RemoveAt(@, k)]

\* The head of pg_getpage for the page of i, and of bring_to_ram: the page
\* is there (or, for a new variable, not mapped yet), or a victim makes room.
Begin(p, i, next) ==
  LET q == i.page
      there == q \in DOMAIN pgd[p] => pgd[p][q].present
      victims == Victims(p, 0)
  IN
  \/ /\ there
     /\ ins' = [ins EXCEPT ![p] = i] /\ Goto(p, next)
     /\ UNCHANGED <<devVars, tabVars, vic, spare, got, avail, result>>
  \/ /\ ~there /\ victims = {}
     /\ Return(p, "error")
     /\ UNCHANGED <<devVars, tabVars>>
  \/ /\ ~there
     /\ \E k \in victims : TakeVictim(p, k)
     /\ ins' = [ins EXCEPT ![p] = i] /\ Goto(p, "getswp")
     /\ UNCHANGED <<devVars, pgd, spare, got, avail, result>>

\* pgread and pgwrite of a variable on page q, which is mapped.
StartRead(p, q) ==
  /\ ipc[p] = "idle" /\ q \in DOMAIN pgd[p]
  /\ Begin(p, [op |-> "read", page |-> q], "access")

StartWrite(p, q, d) ==
  /\ ipc[p] = "idle" /\ q \in DOMAIN pgd[p]
  /\ Begin(p, [op |-> "write", page |-> q, data |-> d], "access")

\* pgalloc that needs n more pages; sbrk is on page q, the last one mapped
\* or, when that is full, the one behind it.
StartAlloc(p, q, n) ==
  /\ ipc[p] = "idle"
  /\ q \in {Len(pgd[p]), Len(pgd[p]) + 1} \ {0}
  /\ Len(pgd[p]) + n <= MaxPages
  /\ Begin(p, [op |-> "alloc", page |-> q, n |-> n], "count")

\* MEMPHY_get_freefp on the swap device, for the victim.  When the device is
\* full the instruction fails, and the victim is not put back into fifo.
GetSwapFrame(p, here, next) ==
  /\ ipc[p] = here
  /\ \/ /\ swpFree = {}
        /\ Return(p, "error")
        /\ UNCHANGED swpFree
     \/ \E f \in swpFree :
          /\ spare' = [spare EXCEPT ![p] = f]
          /\ swpFree' = swpFree \ {f}
          /\ Goto(p, next)
          /\ UNCHANGED <<ins, vic, got, avail, result>>
  /\ UNCHANGED <<ramFree, ram, swp, tabVars>>

\* Copy the victim's frame to the swap device.
CopyOut(p, here, next) ==
  /\ ipc[p] = here
  /\ swp' = [swp EXCEPT ![spare[p]] = ram[VictimFrame(p)]]
  /\ Goto(p, next)
  /\ UNCHANGED <<ramFree, swpFree, ram, tabVars, locVars>>

\* Copy the target page from the swap device to the victim's frame.
CopyIn(p) ==
  /\ ipc[p] = "copyin"
  /\ ram' = [ram EXCEPT ![VictimFrame(p)] = swp[pgd[p][ins[p].page].frame]]
  /\ Goto(p, "putswp")
  /\ UNCHANGED <<ramFree, swpFree, swp, tabVars, locVars>>

\* Mutant: the victim's new swap frame is given back instead of the target's.
PutSpare(p) ==
  /\ ipc[p] = "putswp"
  /\ swpFree' = swpFree \cup {spare[p]}
  /\ Goto(p, "settle")
  /\ UNCHANGED <<ramFree, ram, swp, tabVars, locVars>>

\* The target's frame on the swap device is free again.
PutSwapFrame(p) ==
  /\ ipc[p] = "putswp"
  /\ swpFree' = swpFree \cup {pgd[p][ins[p].page].frame}
  /\ Goto(p, "settle")
  /\ UNCHANGED <<ramFree, ram, swp, tabVars, locVars>>

\* Mutant: the page brought in is not enlisted.
SettleUnlisted(p) ==
  /\ ipc[p] = "settle"
  /\ pgd' = [pgd EXCEPT ![p][vic[p]] = InSwap(spare[p]),
                        ![p][ins[p].page] = InRam(VictimFrame(p))]
  /\ vic' = [vic EXCEPT ![p] = 0]
  /\ spare' = [spare EXCEPT ![p] = None]
  /\ Goto(p, IF ins[p].op = "alloc" THEN "count" ELSE "access")
  /\ UNCHANGED <<devVars, fifo, ins, got, avail, result>>

\* Both page table entries and the list are brought up to date.
Settle(p) ==
  /\ ipc[p] = "settle"
  /\ pgd' = [pgd EXCEPT ![p][vic[p]] = InSwap(spare[p]),
                        ![p][ins[p].page] = InRam(VictimFrame(p))]
  /\ fifo' = [fifo EXCEPT ![p] = Append(@, ins[p].page)]
  /\ vic' = [vic EXCEPT ![p] = 0]
  /\ spare' = [spare EXCEPT ![p] = None]
  /\ Goto(p, IF ins[p].op = "alloc" THEN "count" ELSE "access")
  /\ UNCHANGED <<devVars, ins, got, avail, result>>

\* MEMPHY_read or MEMPHY_write in the page's frame.
Access(p) ==
  LET f == pgd[p][ins[p].page].frame IN
  /\ ipc[p] = "access"
  /\ \/ /\ ins[p].op = "read"
        /\ Return(p, ram[f])
        /\ UNCHANGED ram
     \/ /\ ins[p].op = "write"
        /\ ram' = [ram EXCEPT ![f] = ins[p].data]
        /\ Return(p, "ok")
  /\ UNCHANGED <<ramFree, swpFree, swp, tabVars>>

-----------------------------------------------------------------------------
(* alloc_pages_range *)

\* The free frames of RAM are counted,
CountFree(p) ==
  /\ ipc[p] = "count"
  /\ avail' = [avail EXCEPT ![p] = Cardinality(ramFree)]
  /\ Goto(p, "decide")
  /\ UNCHANGED <<devVars, tabVars, ins, vic, spare, got, result>>

\* count_available_victim
AvailableVictims(p) ==
  Len(fifo[p]) - (IF ins[p].page <= Len(pgd[p]) THEN 1 ELSE 0)

\* Mutant: the exception counts as a victim, and a full swap is not noticed.
DecideBlindly(p) ==
  /\ ipc[p] = "decide"
  /\ Goto(p, "loop")
  /\ UNCHANGED <<devVars, tabVars, locVars>>

\* Mutant: too few of either, and the call waits for more.
DecideWaiting(p) ==
  LET missing == ins[p].n - avail[p]
      enough == missing <= AvailableVictims(p) /\ missing <= Cardinality(swpFree)
  IN
  /\ ipc[p] = "decide"
  /\ Goto(p, IF missing <= 0 \/ enough THEN "loop" ELSE "count")
  /\ UNCHANGED <<devVars, tabVars, locVars>>

\* and then those of the swap device; enough of both, or the call fails.
Decide(p) ==
  LET missing == ins[p].n - avail[p]
      enough == missing <= AvailableVictims(p) /\ missing <= Cardinality(swpFree)
  IN
  /\ ipc[p] = "decide"
  /\ IF missing <= 0 \/ enough
     THEN Goto(p, "loop") /\ UNCHANGED locVars
     ELSE Return(p, "error")
  /\ UNCHANGED <<devVars, tabVars>>

\* A free frame.
TakeFreeFrame(p) ==
  /\ ipc[p] = "loop" /\ Len(got[p]) < ins[p].n
  /\ \E f \in ramFree :
       /\ got' = [got EXCEPT ![p] = <<f>> \o @]
       /\ ramFree' = ramFree \ {f}
  /\ UNCHANGED <<swpFree, ram, swp, tabVars, ipc, ins, vic, spare, avail, result>>

\* No free frame: a victim's, or the call fails and got[p] is forgotten.
TakeVictimFrame(p) ==
  LET victims == Victims(p, ins[p].page) IN
  /\ ipc[p] = "loop" /\ Len(got[p]) < ins[p].n
  /\ ramFree = {}
  /\ \/ /\ victims = {}
        /\ Return(p, "error")
        /\ UNCHANGED fifo
     \/ /\ \E k \in victims : TakeVictim(p, k)
        /\ Goto(p, "aswp")
        /\ UNCHANGED <<ins, spare, got, avail, result>>
  /\ UNCHANGED <<devVars, pgd>>

\* Mutant: the frame is handed on with the victim's bytes in it.
EvictUncleaned(p) ==
  /\ ipc[p] = "aclean"
  /\ pgd' = [pgd EXCEPT ![p][vic[p]] = InSwap(spare[p])]
  /\ got' = [got EXCEPT ![p] = <<VictimFrame(p)>> \o @]
  /\ vic' = [vic EXCEPT ![p] = 0]
  /\ spare' = [spare EXCEPT ![p] = None]
  /\ Goto(p, "loop")
  /\ UNCHANGED <<devVars, fifo, ins, avail, result>>

\* The victim, copied out, gives up its frame, which is cleaned.
Evict(p) ==
  /\ ipc[p] = "aclean"
  /\ ram' = [ram EXCEPT ![VictimFrame(p)] = Zero]
  /\ pgd' = [pgd EXCEPT ![p][vic[p]] = InSwap(spare[p])]
  /\ got' = [got EXCEPT ![p] = <<VictimFrame(p)>> \o @]
  /\ vic' = [vic EXCEPT ![p] = 0]
  /\ spare' = [spare EXCEPT ![p] = None]
  /\ Goto(p, "loop")
  /\ UNCHANGED <<ramFree, swpFree, swp, fifo, ins, avail, result>>

\* vmap_page_range: the new pages get the frames, the last one taken first.
MapPages(p) ==
  /\ ipc[p] = "loop" /\ Len(got[p]) = ins[p].n
  /\ pgd' = [pgd EXCEPT ![p] = @ \o [i \in 1 .. ins[p].n |-> InRam(got[p][i])]]
  /\ fifo' = [fifo EXCEPT ![p] = @ \o [i \in 1 .. ins[p].n |-> Len(pgd[p]) + i]]
  /\ Return(p, "ok")
  /\ UNCHANGED devVars

-----------------------------------------------------------------------------
Start(p) ==
  \/ \E q \in 1 .. MaxPages : StartRead(p, q)
  \/ \E q \in 1 .. MaxPages, d \in Data : StartWrite(p, q, d)
  \/ \E q \in 1 .. MaxPages + 1, n \in 1 .. MaxPages : StartAlloc(p, q, n)

\* The instruction in progress goes on.
Continue(p) ==
  \/ GetSwapFrame(p, "getswp", "copyout")
  \/ CopyOut(p, "copyout", "copyin")
  \/ CopyIn(p) \/ PutSwapFrame(p) \/ Settle(p) \/ Access(p)
  \/ CountFree(p) \/ Decide(p) \/ TakeFreeFrame(p) \/ TakeVictimFrame(p)
  \/ GetSwapFrame(p, "aswp", "acopy")
  \/ CopyOut(p, "acopy", "aclean")
  \/ Evict(p) \/ MapPages(p)

Next == \E p \in Proc : Start(p) \/ Continue(p)

Spec == Init /\ [][Next]_vars

\* A CPU inside an instruction keeps running; no lock is held between steps.
FairSpec == Spec /\ \A p \in Proc : WF_vars(Continue(p))

-----------------------------------------------------------------------------
TypeOK ==
  /\ ramFree \subseteq RamFrame /\ swpFree \subseteq SwpFrame
  /\ ram \in [RamFrame -> Data] /\ swp \in [SwpFrame -> Data]
  /\ \A p \in Proc :
       /\ Len(pgd[p]) <= MaxPages
       /\ \A q \in DOMAIN pgd[p] :
            pgd[p][q].frame \in IF pgd[p][q].present THEN RamFrame ELSE SwpFrame
       /\ fifo[p] \in Seq(DOMAIN pgd[p])
       /\ vic[p] \in {0} \cup DOMAIN pgd[p]
       /\ spare[p] \in {None} \cup SwpFrame
       /\ got[p] \in Seq(RamFrame)
       /\ avail[p] \in 0 .. Cardinality(RamFrame)

Mapped == {pq \in Proc \X (1 .. MaxPages) : pq[2] <= Len(pgd[pq[1]])}

\* The page of p that has left the swap frame its entry still names.
Leaving(p) == IF ipc[p] = "settle" THEN ins[p].page ELSE 0

UsesOfRam(f) ==
  {<<"free", g>> : g \in ramFree \cap {f}}
  \cup {<<"page", pq>> : pq \in {pq \in Mapped :
          LET e == pgd[pq[1]][pq[2]] IN e.present /\ e.frame = f}}
  \cup {<<"got", pk>> : pk \in {pk \in Proc \X (1 .. MaxPages) :
          pk[2] \in DOMAIN got[pk[1]] /\ got[pk[1]][pk[2]] = f}}

UsesOfSwp(f) ==
  {<<"free", g>> : g \in swpFree \cap {f}}
  \cup {<<"page", pq>> : pq \in {pq \in Mapped :
          LET e == pgd[pq[1]][pq[2]] IN
          ~e.present /\ e.frame = f /\ Leaving(pq[1]) # pq[2]}}
  \cup {<<"spare", p>> : p \in {p \in Proc : spare[p] = f}}

\* A frame has one use at most: it is free, or one page of one process is in
\* it, or one instruction is about to use it, in every interleaving of the
\* CPUs' steps on the two devices.
NoFrameShared ==
  /\ \A f \in RamFrame : Cardinality(UsesOfRam(f)) <= 1
  /\ \A f \in SwpFrame : Cardinality(UsesOfSwp(f)) <= 1

\* No swap frame is lost, and no RAM frame either as long as a single
\* process allocates: what it has counted (mm.c:137-152) is still there when
\* the loop takes it, so that it never fails half way (mm.c:178, :185).
NoFrameLost ==
  /\ \A f \in SwpFrame : UsesOfSwp(f) # {}
  /\ Cardinality(Proc) = 1 => \A f \in RamFrame : UsesOfRam(f) # {}

Present(p) == {q \in DOMAIN pgd[p] : pgd[p][q].present}
Listed(p)  == {fifo[p][k] : k \in DOMAIN fifo[p]} \cup ({vic[p]} \ {0})

\* Every page in RAM is in fifo_using_pgn once, and no other page is: it can
\* be chosen as a victim (os-mm.h:68 "using page linked list").
AllPresentListed == \A p \in Proc : Present(p) \subseteq Listed(p)

\* No page is listed twice, or without being in RAM; none in RAM is missing
\* as long as the swap device has a frame for every page.
FifoRight ==
  /\ \A p \in Proc : /\ IsInjective(fifo[p])
                     /\ Listed(p) \subseteq Present(p)
  /\ Cardinality(SwpFrame) >= Cardinality(Proc) * MaxPages => AllPresentListed

\* mm.c:129: while frames are taken for a new variable the page of its first
\* byte "can't be swapped out".
StartStays ==
  \A p \in Proc :
    /\ ipc[p] \in {"count", "decide", "loop", "aswp", "acopy", "aclean"}
    /\ ins[p].page \in DOMAIN pgd[p]
    => pgd[p][ins[p].page].present /\ vic[p] # ins[p].page

\* Where the content of page q of p is, also while pages are exchanged.
Content(p, q) ==
  IF ipc[p] \in {"copyin", "putswp", "settle"} /\ q = vic[p]
    THEN swp[spare[p]]
  ELSE IF ipc[p] \in {"putswp", "settle"} /\ q = ins[p].page
    THEN ram[VictimFrame(p)]
  ELSE IF pgd[p][q].present
    THEN ram[pgd[p][q].frame]
    ELSE swp[pgd[p][q].frame]

F == INSTANCE FlatMemory WITH
       mem <- [p \in Proc |-> [q \in DOMAIN pgd[p] |-> Content(p, q)]]

\* mm.c:231-232 warns of an "endless procedure of swap-off to get frame": every
\* instruction ends, also when it needs more frames than there are.
InstructionsEnd == \A p \in Proc : ipc[p] # "idle" ~> ipc[p] = "idle"

\* A process reads what it wrote last, or zero, whatever pages are moved and
\* whoever else runs; an instruction that fails leaves its memory alone.
ImplementsFlatMemory == F!FlatSpec
=============================================================================

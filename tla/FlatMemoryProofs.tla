-------------------------- MODULE FlatMemoryProofs --------------------------
(***************************************************************************)
(* Theorems about what paging does with the content of pages and with the *)
(* frames of both devices, for any number of processes, frames and pages:  *)
(* it keeps its types, it implements a private flat memory for every       *)
(* process, it loses no frame, and its lists of pages are right.  They     *)
(* rest on the invariant of PagingProofs: a frame has one use.             *)
(***************************************************************************)
EXTENDS PagingProofs

\* The instruction in progress, and the page it is about to access.
OpRight(p) ==
  /\ ipc[p] # "idle" => ins[p].op \in {"read", "write", "alloc"}
  /\ ins[p].op = "write" => ins[p].data \in Data
  /\ ins[p].op = "alloc" => /\ ins[p].n \in 1 .. MaxPages
                            /\ Len(pgd[p]) + ins[p].n <= MaxPages
  /\ Len(pgd[p]) <= MaxPages
  /\ ipc[p] = "access" => ins[p].page \in Pages(p) /\ pgd[p][ins[p].page].present

\* A frame that is free, or about to be mapped, is clean.
CleanRight ==
  /\ \A f \in ramFree : ram[f] = Zero
  /\ \A p \in Proc, f \in RamFrame, k \in Nat : RamGot(f, p, k) => ram[f] = Zero

\* The victim an allocation gives up has been copied out.
CopyRight(p) == ipc[p] = "aclean" => swp[spare[p]] = ram[VictimFrame(p)]

DataInv ==
  /\ ram \in [RamFrame -> Data] /\ swp \in [SwpFrame -> Data]
  /\ CleanRight
  /\ \A p \in Proc : OpRight(p) /\ CopyRight(p)

-----------------------------------------------------------------------------
(* The instruction in progress *)

LEMMA KeptOp ==
  ASSUME NEW d \in Proc, Keeps(d), OpRight(d)
  PROVE  OpRight(d)'
  BY DEF Keeps, OpRight, Pages

LEMMA ReturnedOp ==
  ASSUME NEW p \in Proc, Returned(p), Len(pgd'[p]) <= MaxPages
  PROVE  OpRight(p)'
  BY DEF Returned, OpRight, NoIns

\* A step inside an instruction that does not end at an access.
LEMMA MovedOp ==
  ASSUME NEW p \in Proc, OpRight(p), ipc[p] # "idle", ipc'[p] # "access",
         ins'[p] = ins[p], Len(pgd'[p]) = Len(pgd[p])
  PROVE  OpRight(p)'
  BY DEF OpRight

LEMMA BeginOp ==
  ASSUME Domains, NEW p \in Proc, LocalInv(p), OpRight(p),
         NEW i, NEW next \in {"access", "count"}, Begin(p, i, next),
         i.op \in {"read", "write", "alloc"},
         i.op = "write" => i.data \in Data,
         i.op = "alloc" => i.n \in 1 .. MaxPages /\ Len(pgd[p]) + i.n <= MaxPages,
         next = "access" => i.page \in DOMAIN pgd[p]
  PROVE  OpRight(p)'
<1>1. pgd[p] \in Seq(Entry) /\ Len(pgd[p]) <= MaxPages
  BY DEF LocalInv, TypesRight, OpRight
<1>2. CASE /\ i.page \in DOMAIN pgd[p] => pgd[p][i.page].present
           /\ UNCHANGED <<devVars, tabVars, vic, spare, got, avail, result>>
           /\ ins' = [ins EXCEPT ![p] = i] /\ Goto(p, next)
  <2>1. pgd'[p] = pgd[p] /\ ins'[p] = i /\ ipc'[p] = next
    BY <1>2 DEF Domains, tabVars, Goto
  <2>2. next = "access" => i.page \in Pages(p) /\ pgd[p][i.page].present
    BY <1>1, <1>2 DEF Pages
  <2> QED  BY <1>1, <2>1, <2>2 DEF OpRight, Pages
<1>3. CASE Return(p, "error") /\ UNCHANGED <<devVars, tabVars>>
  <2>1. Returned(p) /\ pgd'[p] = pgd[p]
    BY <1>3, ReturnDoes DEF tabVars
  <2> QED  BY <1>1, <2>1, ReturnedOp
<1>4. CASE /\ ins' = [ins EXCEPT ![p] = i] /\ Goto(p, "getswp")
           /\ UNCHANGED <<devVars, pgd, spare, got, avail, result>>
  <2>1. pgd'[p] = pgd[p] /\ ins'[p] = i /\ ipc'[p] = "getswp"
    BY <1>4 DEF Domains, Goto
  <2> QED  BY <1>1, <2>1 DEF OpRight, Pages
<1> QED  BY <1>2, <1>3, <1>4 DEF Begin

LEMMA StartOp ==
  ASSUME Domains, NEW p \in Proc, LocalInv(p), OpRight(p), Start(p)
  PROVE  OpRight(p)'
<1>1. CASE \E q \in 1 .. MaxPages : StartRead(p, q)
  <2> PICK q \in 1 .. MaxPages : StartRead(p, q)
    BY <1>1
  <2> DEFINE i == [op |-> "read", page |-> q]
  <2>1. i.page = q /\ i.op = "read"
    OBVIOUS
  <2> QED  BY <2>1, BeginOp DEF StartRead
<1>2. CASE \E q \in 1 .. MaxPages, d \in Data : StartWrite(p, q, d)
  <2> PICK q \in 1 .. MaxPages, d \in Data : StartWrite(p, q, d)
    BY <1>2
  <2> DEFINE i == [op |-> "write", page |-> q, data |-> d]
  <2>1. i.page = q /\ i.op = "write" /\ i.data \in Data
    OBVIOUS
  <2> QED  BY <2>1, BeginOp DEF StartWrite
<1>3. CASE \E q \in 1 .. MaxPages + 1, n \in 1 .. MaxPages : StartAlloc(p, q, n)
  <2> PICK q \in 1 .. MaxPages + 1, n \in 1 .. MaxPages : StartAlloc(p, q, n)
    BY <1>3
  <2> DEFINE i == [op |-> "alloc", page |-> q, n |-> n]
  <2>1. i.op = "alloc" /\ i.n = n
    OBVIOUS
  <2> QED  BY <2>1, BeginOp DEF StartAlloc
<1> QED  BY <1>1, <1>2, <1>3 DEF Start

LEMMA ContinueOp ==
  ASSUME Inv, NEW p \in Proc, OpRight(p), Continue(p)
  PROVE  OpRight(p)'
<1>1. Domains /\ LocalInv(p) /\ pgd[p] \in Seq(Entry) /\ Len(pgd[p]) <= MaxPages
  BY DEF Inv, LocalInv, TypesRight, OpRight
<1> USE <1>1
<1>2. ASSUME NEW r, Return(p, r), pgd'[p] = pgd[p]
      PROVE  OpRight(p)'
  BY <1>2, ReturnDoes, ReturnedOp
<1>3. ASSUME NEW here, NEW next, GetSwapFrame(p, here, next),
             here # "idle", next # "access"
      PROVE  OpRight(p)'
  <2>1. pgd'[p] = pgd[p] /\ ipc[p] = here
    BY <1>3 DEF GetSwapFrame, tabVars
  <2>2. CASE Return(p, "error")
    BY <1>2, <2>1, <2>2
  <2>3. CASE Goto(p, next) /\ UNCHANGED <<ins, vic, got, avail, result>>
    <3>1. ipc'[p] = next /\ ins'[p] = ins[p]
      BY <2>3 DEF Domains, Goto
    <3> QED  BY <1>3, <2>1, <3>1, MovedOp
  <2> QED  BY <1>3, <2>2, <2>3 DEF GetSwapFrame
<1>4. ASSUME NEW here, NEW next, ipc[p] = here, Goto(p, next),
             here # "idle", next # "access", UNCHANGED <<tabVars, ins>>
      PROVE  OpRight(p)'
  <2>1. ipc'[p] = next /\ ins'[p] = ins[p] /\ pgd'[p] = pgd[p]
    BY <1>4 DEF Domains, Goto, tabVars
  <2> QED  BY <1>4, <2>1, MovedOp
<1>5. CASE CopyOut(p, "copyout", "copyin") \/ CopyOut(p, "acopy", "aclean")
           \/ CopyIn(p) \/ PutSwapFrame(p) \/ CountFree(p)
  BY <1>4, <1>5 DEF CopyOut, CopyIn, PutSwapFrame, CountFree, locVars
<1>6. CASE Settle(p)
  <2>1. /\ ipc[p] = "settle" /\ Len(pgd'[p]) = Len(pgd[p]) /\ ins'[p] = ins[p]
        /\ ins[p].page \in Pages(p) /\ pgd'[p][ins[p].page] = InRam(VictimFrame(p))
    BY <1>6, SettleDoes
  <2>2. InRam(VictimFrame(p)).present
    BY DEF InRam
  <2> QED  BY <2>1, <2>2 DEF OpRight, Pages
<1>7. CASE Access(p)
  BY <1>2, <1>7 DEF Access, tabVars
<1>8. CASE Decide(p)
  <2>1. CASE Return(p, "error")
    BY <1>2, <1>8, <2>1 DEF Decide, tabVars
  <2>2. CASE Goto(p, "loop") /\ UNCHANGED locVars
    BY <1>4, <1>8, <2>2 DEF Decide, locVars
  <2> QED  BY <1>8, <2>1, <2>2 DEF Decide
<1>9. CASE TakeFreeFrame(p)
  BY <1>1, <1>9, TakeFreeFrameDoes, MovedOp DEF Inv
<1>10. CASE TakeVictimFrame(p)
  <2>1. CASE Return(p, "error")
    BY <1>2, <1>10, <2>1 DEF TakeVictimFrame
  <2>2. CASE Goto(p, "aswp") /\ UNCHANGED <<ins, spare, got, avail, result>>
    <3>1. ipc[p] = "loop" /\ ipc'[p] = "aswp" /\ ins'[p] = ins[p] /\ pgd'[p] = pgd[p]
      BY <1>10, <2>2 DEF TakeVictimFrame, Domains, Goto
    <3> QED  BY <3>1, MovedOp
  <2> QED  BY <1>10, <2>1, <2>2 DEF TakeVictimFrame
<1>11. CASE Evict(p)
  BY <1>11, EvictDoes, MovedOp
<1>12. CASE MapPages(p)
  <2>1. Len(pgd'[p]) = Len(pgd[p]) + Len(got[p]) /\ ipc[p] = "loop" /\ Returned(p)
    BY <1>12, MapPagesDoes
  <2>2. Len(got[p]) = ins[p].n /\ ins[p].op = "alloc"
    BY <1>12, <2>1 DEF MapPages, LocalInv, PageRight, Allocating
  <2>3. Len(pgd'[p]) <= MaxPages
    BY <2>1, <2>2 DEF OpRight
  <2> QED  BY <2>1, <2>3, ReturnedOp
<1> QED  BY <1>3, <1>5, <1>6, <1>7, <1>8, <1>9, <1>10, <1>11, <1>12 DEF Continue

-----------------------------------------------------------------------------
(* A step writes to its own frames only *)

RamWrite(p) ==
  \/ ram' = ram
  \/ \E q \in Nat, f \in RamFrame, x \in Data :
       RamPage(f, p, q) /\ ram' = [ram EXCEPT ![f] = x]

SwpWrite(p) ==
  \/ swp' = swp
  \/ spare[p] \in SwpFrame /\ \E x \in Data : swp' = [swp EXCEPT ![spare[p]] = x]

\* The victim's frame during an exchange or an eviction.
LEMMA VictimsFrame ==
  ASSUME NEW p \in Proc, LocalInv(p), ipc[p] \in Exchanging \cup Evicting
  PROVE  /\ VictimFrame(p) \in RamFrame /\ vic[p] \in Nat /\ vic[p] \in Pages(p)
         /\ pgd[p][vic[p]].present /\ RamPage(VictimFrame(p), p, vic[p])
<1>1. vic[p] \in Nat /\ vic[p] \in Pages(p) /\ pgd[p][vic[p]].present
  BY DEF LocalInv, TypesRight, VictimRight
<1>2. pgd[p][vic[p]].frame \in RamFrame
  BY <1>1 DEF LocalInv, EntriesRight
<1> QED  BY <1>1, <1>2 DEF VictimFrame, RamPage

LEMMA SparesFrame ==
  ASSUME NEW p \in Proc, LocalInv(p),
         ipc[p] \in {"copyout", "copyin", "putswp", "settle", "acopy", "aclean"}
  PROVE  spare[p] \in SwpFrame
  BY DEF LocalInv, TypesRight, VictimRight

LEMMA StartWrites ==
  ASSUME Domains, NEW p \in Proc, Start(p)
  PROVE  ram' = ram /\ swp' = swp
<1>1. ASSUME NEW i, NEW next, Begin(p, i, next)
      PROVE  ram' = ram /\ swp' = swp
  BY <1>1 DEF Begin, devVars
<1>2. CASE \E q \in 1 .. MaxPages : StartRead(p, q)
  BY <1>1, <1>2 DEF StartRead
<1>3. CASE \E q \in 1 .. MaxPages, d \in Data : StartWrite(p, q, d)
  BY <1>1, <1>3 DEF StartWrite
<1>4. CASE \E q \in 1 .. MaxPages + 1, n \in 1 .. MaxPages : StartAlloc(p, q, n)
  BY <1>1, <1>4 DEF StartAlloc
<1> QED  BY <1>2, <1>3, <1>4 DEF Start

LEMMA OwnWrites ==
  ASSUME Inv, DataInv, NEW p \in Proc, Start(p) \/ Continue(p)
  PROVE  RamWrite(p) /\ SwpWrite(p)
<1>1. /\ Domains /\ LocalInv(p) /\ OpRight(p) /\ pgd[p] \in Seq(Entry)
      /\ ram \in [RamFrame -> Data] /\ swp \in [SwpFrame -> Data]
  BY DEF Inv, DataInv, LocalInv, TypesRight
<1>2. CASE ram' = ram /\ swp' = swp
  BY <1>2 DEF RamWrite, SwpWrite
<1>3. ASSUME NEW here \in {"copyout", "acopy"}, NEW next, CopyOut(p, here, next)
      PROVE  RamWrite(p) /\ SwpWrite(p)
  <2>1. ipc[p] = here /\ ram' = ram /\ swp' = [swp EXCEPT ![spare[p]] = ram[VictimFrame(p)]]
    BY <1>3 DEF CopyOut
  <2>2. spare[p] \in SwpFrame /\ VictimFrame(p) \in RamFrame
    BY <1>1, <2>1, VictimsFrame, SparesFrame DEF Exchanging, Evicting
  <2>3. ram[VictimFrame(p)] \in Data
    BY <1>1, <2>2
  <2> QED  BY <2>1, <2>2, <2>3 DEF RamWrite, SwpWrite
<1>4. CASE CopyIn(p)
  <2> DEFINE f == pgd[p][ins[p].page].frame
  <2>1. /\ ipc[p] = "copyin" /\ swp' = swp
        /\ ram' = [ram EXCEPT ![VictimFrame(p)] = swp[f]]
    BY <1>4 DEF CopyIn
  <2>2. ins[p].page \in Pages(p) /\ ~pgd[p][ins[p].page].present
    BY <1>1, <2>1 DEF LocalInv, PageRight, Exchanging
  <2>3. f \in SwpFrame
    BY <1>1, <2>2 DEF LocalInv, EntriesRight
  <2>4. swp[f] \in Data
    BY <1>1, <2>3
  <2>5. VictimFrame(p) \in RamFrame /\ vic[p] \in Nat /\ RamPage(VictimFrame(p), p, vic[p])
    BY <1>1, <2>1, VictimsFrame DEF Exchanging
  <2> QED  BY <2>1, <2>4, <2>5 DEF RamWrite, SwpWrite
<1>5. CASE Access(p)
  <2> DEFINE f == pgd[p][ins[p].page].frame
  <2>1. swp' = swp
    BY <1>5 DEF Access
  <2>2. CASE ram' = ram
    BY <2>1, <2>2 DEF RamWrite, SwpWrite
  <2>3. CASE ins[p].op = "write" /\ ram' = [ram EXCEPT ![f] = ins[p].data]
    <3>1. ipc[p] = "access"
      BY <1>5 DEF Access
    <3>2. ins[p].page \in Pages(p) /\ pgd[p][ins[p].page].present /\ ins[p].data \in Data
      BY <1>1, <2>3, <3>1 DEF OpRight
    <3>3. f \in RamFrame /\ ins[p].page \in Nat
      BY <1>1, <3>2 DEF LocalInv, EntriesRight, TypesRight
    <3>4. RamPage(f, p, ins[p].page)
      BY <3>2 DEF RamPage
    <3> QED  BY <2>1, <2>3, <3>2, <3>3, <3>4 DEF RamWrite, SwpWrite
  <2> QED  BY <1>5, <2>2, <2>3 DEF Access
<1>6. CASE Evict(p)
  <2>1. ipc[p] = "aclean" /\ swp' = swp /\ ram' = [ram EXCEPT ![VictimFrame(p)] = Zero]
    BY <1>6 DEF Evict
  <2>2. VictimFrame(p) \in RamFrame /\ vic[p] \in Nat /\ RamPage(VictimFrame(p), p, vic[p])
    BY <1>1, <2>1, VictimsFrame DEF Evicting
  <2> QED  BY <2>1, <2>2, PagingAssumption DEF RamWrite, SwpWrite
<1>7. CASE \/ \E here, next : GetSwapFrame(p, here, next)
           \/ PutSwapFrame(p) \/ Settle(p) \/ CountFree(p) \/ Decide(p)
           \/ TakeFreeFrame(p) \/ TakeVictimFrame(p) \/ MapPages(p)
  BY <1>2, <1>7 DEF GetSwapFrame, PutSwapFrame, Settle, CountFree, Decide, TakeFreeFrame,
                    TakeVictimFrame, MapPages, devVars
<1> QED  BY <1>1, <1>2, <1>3, <1>4, <1>5, <1>6, <1>7, StartWrites DEF Continue

\* What such a step leaves alone: frames that are free or about to be mapped,
\* and those of the other processes.
LEMMA RamUntouched ==
  ASSUME Inv, NEW p \in Proc, RamWrite(p), ram \in [RamFrame -> Data]
  PROVE  /\ ram' \in [RamFrame -> Data]
         /\ \A f \in ramFree : ram'[f] = ram[f]
         /\ \A f \in RamFrame, d \in Proc, k \in Nat : RamGot(f, d, k) => ram'[f] = ram[f]
         /\ \A f \in RamFrame, d \in Proc \ {p}, q \in Nat : RamPage(f, d, q) => ram'[f] = ram[f]
<1>1. CASE ram' = ram
  BY <1>1
<1>2. CASE \E q \in Nat, f \in RamFrame, x \in Data :
             RamPage(f, p, q) /\ ram' = [ram EXCEPT ![f] = x]
  <2> PICK q \in Nat, f \in RamFrame, x \in Data :
        RamPage(f, p, q) /\ ram' = [ram EXCEPT ![f] = x]
    BY <1>2
  <2>1. ram' \in [RamFrame -> Data] /\ \A g \in RamFrame : g # f => ram'[g] = ram[g]
    OBVIOUS
  <2>2. f \notin ramFree /\ ramFree \subseteq RamFrame
    BY DEF Inv, RamOneUse
  <2>3. \A d \in Proc, k \in Nat : ~RamGot(f, d, k)
    BY DEF Inv, RamOneUse
  <2>4. \A d \in Proc \ {p}, r \in Nat : ~RamPage(f, d, r)
    BY DEF Inv, RamOneUse
  <2>5. \A g \in ramFree : ram'[g] = ram[g]
    BY <2>1, <2>2
  <2>6. \A g \in RamFrame, d \in Proc, k \in Nat : RamGot(g, d, k) => ram'[g] = ram[g]
    BY <2>1, <2>3
  <2>7. \A g \in RamFrame, d \in Proc \ {p}, r \in Nat : RamPage(g, d, r) => ram'[g] = ram[g]
    BY <2>1, <2>4
  <2> QED  BY <2>1, <2>5, <2>6, <2>7
<1> QED  BY <1>1, <1>2 DEF RamWrite

LEMMA SwpUntouched ==
  ASSUME Inv, NEW p \in Proc, SwpWrite(p), swp \in [SwpFrame -> Data]
  PROVE  /\ swp' \in [SwpFrame -> Data]
         /\ \A f \in SwpFrame, d \in Proc \ {p} : spare[d] = f => swp'[f] = swp[f]
         /\ \A f \in SwpFrame, d \in Proc, q \in Nat : SwpPage(f, d, q) => swp'[f] = swp[f]
<1>1. CASE swp' = swp
  BY <1>1
<1>2. CASE spare[p] \in SwpFrame /\ \E x \in Data : swp' = [swp EXCEPT ![spare[p]] = x]
  <2> DEFINE s == spare[p]
  <2> PICK x \in Data : swp' = [swp EXCEPT ![s] = x]
    BY <1>2
  <2>1. swp' \in [SwpFrame -> Data] /\ \A g \in SwpFrame : g # s => swp'[g] = swp[g]
    BY <1>2
  <2>2. \A d \in Proc \ {p} : spare[d] # s
    BY <1>2 DEF Inv, SwpOneUse
  <2>3. \A d \in Proc, q \in Nat : ~SwpPage(s, d, q)
    BY <1>2 DEF Inv, SwpOneUse
  <2> HIDE DEF s
  <2>4. \A f \in SwpFrame, d \in Proc, q \in Nat : SwpPage(f, d, q) => swp'[f] = swp[f]
    BY <2>1, <2>3
  <2> QED  BY <2>1, <2>2, <2>4
<1> QED  BY <1>1, <1>2 DEF SwpWrite

-----------------------------------------------------------------------------
(* The data invariant is kept *)

LEMMA CleanKept ==
  ASSUME Inv, DataInv, NEW p \in Proc, Start(p) \/ Continue(p)
  PROVE  CleanRight'
<1>1. /\ Domains /\ LocalInv(p) /\ ramFree \subseteq RamFrame
      /\ ram \in [RamFrame -> Data] /\ CleanRight
  BY DEF Inv, DataInv
<1>2. /\ \A f \in ramFree : ram'[f] = ram[f]
      /\ \A f \in RamFrame, d \in Proc, k \in Nat : RamGot(f, d, k) => ram'[f] = ram[f]
  BY <1>1, OwnWrites, RamUntouched
<1>3. Others(p)
  BY <1>1, StartAlone, ContinueAlone
<1>4. ASSUME ramFree' \subseteq ramFree,
             \A f \in RamFrame, k \in Nat : RamGot(f, p, k)' => ram'[f] = Zero
      PROVE  CleanRight'
  <2>1. \A f \in RamFrame, d \in Proc \ {p}, k \in Nat : RamGot(f, d, k)' => RamGot(f, d, k)
    BY <1>3, KeptUses DEF Others
  <2>2. \A f \in ramFree' : ram'[f] = Zero
    BY <1>1, <1>2, <1>4 DEF CleanRight
  <2>3. \A f \in RamFrame, d \in Proc \ {p}, k \in Nat : RamGot(f, d, k)' => ram'[f] = Zero
    BY <1>1, <1>2, <2>1 DEF CleanRight
  <2> QED  BY <1>4, <2>2, <2>3 DEF CleanRight
<1>5. ASSUME ramFree' = ramFree, got'[p] \in {got[p], <<>>}
      PROVE  CleanRight'
  <2>1. \A f \in RamFrame, k \in Nat : RamGot(f, p, k)' => RamGot(f, p, k)
    BY <1>5 DEF RamGot
  <2>2. \A f \in RamFrame, k \in Nat : RamGot(f, p, k)' => ram'[f] = Zero
    BY <1>1, <1>2, <2>1 DEF CleanRight
  <2> QED  BY <1>4, <1>5, <2>2
<1>6. CASE RamQuiet(p)
  BY <1>5, <1>6 DEF RamQuiet
<1>7. CASE PutSwapFrame(p)
  BY <1>5, <1>7 DEF PutSwapFrame, locVars
<1>8. CASE Settle(p)
  BY <1>5, <1>8 DEF Settle, devVars
<1>9. CASE MapPages(p)
  <2>1. got'[p] = <<>>
    BY <1>1, <1>9, MapPagesDoes DEF Returned
  <2> QED  BY <1>5, <1>9, <2>1 DEF MapPages, devVars
<1>10. CASE TakeFreeFrame(p)
  <2> PICK g \in ramFree :
        /\ g \in RamFrame /\ ramFree' = ramFree \ {g}
        /\ got[p] \in Seq(RamFrame) /\ got'[p] = <<g>> \o got[p]
    BY <1>1, <1>10, TakeFreeFrameDoes
  <2>1. \A f \in RamFrame : \A k \in Nat : RamGot(f, p, k)' =>
          (k = 1 /\ f = g) \/ (k # 1 /\ k - 1 \in Nat /\ RamGot(f, p, k - 1))
    BY GotOneMore
  <2>2. \A f \in RamFrame, k \in Nat : RamGot(f, p, k)' => ram'[f] = Zero
    BY <1>1, <1>2, <2>1 DEF CleanRight
  <2> QED  BY <1>4, <2>2
<1>11. CASE Evict(p)
  <2> DEFINE g == VictimFrame(p)
  <2>1. g \in RamFrame /\ got[p] \in Seq(RamFrame) /\ got'[p] = <<g>> \o got[p]
    BY <1>1, <1>11, EvictDoes
  <2>2. ram'[g] = Zero /\ ramFree' = ramFree
    BY <1>1, <1>11, <2>1 DEF Evict
  <2> HIDE DEF g
  <2>3. \A f \in RamFrame : \A k \in Nat : RamGot(f, p, k)' =>
          (k = 1 /\ f = g) \/ (k # 1 /\ k - 1 \in Nat /\ RamGot(f, p, k - 1))
    BY <2>1, GotOneMore
  <2>4. \A f \in RamFrame, k \in Nat : RamGot(f, p, k)' => ram'[f] = Zero
    BY <1>1, <1>2, <2>2, <2>3 DEF CleanRight
  <2> QED  BY <1>4, <2>2, <2>4
<1> QED  BY <1>1, <1>6, <1>7, <1>8, <1>9, <1>10, <1>11,
            StartQuiet, GetSwapFrameQuiet, CopyQuiet, EndQuiet DEF Continue

LEMMA CopyKept ==
  ASSUME Inv, DataInv, NEW p \in Proc, Start(p) \/ Continue(p), NEW d \in Proc
  PROVE  CopyRight(d)'
<1>1. /\ Domains /\ LocalInv(p) /\ LocalInv(d) /\ CopyRight(d)
      /\ ram \in [RamFrame -> Data] /\ swp \in [SwpFrame -> Data]
  BY DEF Inv, DataInv
<1>2. Others(p)
  BY <1>1, StartAlone, ContinueAlone
<1>3. CASE d # p
  <2>1. Keeps(d)
    BY <1>2, <1>3 DEF Others
  <2> SUFFICES ASSUME ipc[d] = "aclean"
               PROVE  swp'[spare[d]] = ram'[VictimFrame(d)]
    BY <2>1 DEF Keeps, CopyRight, VictimFrame
  <2>2. VictimFrame(d) \in RamFrame /\ vic[d] \in Nat /\ RamPage(VictimFrame(d), d, vic[d])
    BY <1>1, VictimsFrame DEF Evicting
  <2>3. spare[d] \in SwpFrame
    BY <1>1, SparesFrame
  <2>4. ram'[VictimFrame(d)] = ram[VictimFrame(d)]
    BY <1>1, <1>3, <2>2, OwnWrites, RamUntouched
  <2>5. swp'[spare[d]] = swp[spare[d]]
    BY <1>1, <1>3, <2>3, OwnWrites, SwpUntouched
  <2> QED  BY <1>1, <2>4, <2>5 DEF CopyRight
<1>4. CASE d = p /\ CopyOut(p, "acopy", "aclean")
  <2>1. /\ ipc[p] = "acopy" /\ ram' = ram /\ pgd' = pgd /\ vic' = vic /\ spare' = spare
        /\ swp' = [swp EXCEPT ![spare[p]] = ram[VictimFrame(p)]]
    BY <1>4 DEF CopyOut, tabVars, locVars
  <2>2. spare[p] \in SwpFrame
    BY <1>1, <2>1, SparesFrame
  <2>3. swp'[spare[p]] = ram[VictimFrame(p)]
    BY <1>1, <2>1, <2>2
  <2>4. VictimFrame(p)' = VictimFrame(p)
    BY <2>1 DEF VictimFrame
  <2> QED  BY <1>4, <2>1, <2>3, <2>4 DEF CopyRight
<1>5. CASE d = p /\ ~CopyOut(p, "acopy", "aclean")
  <2>1. ASSUME NEW r, Return(p, r)  PROVE ipc'[p] # "aclean"
    BY <1>1, <2>1, ReturnDoes DEF Returned
  <2>2. ASSUME NEW l, Goto(p, l), l # "aclean"  PROVE ipc'[p] # "aclean"
    BY <1>1, <2>2 DEF Goto, Domains
  <2>3. ASSUME NEW i, NEW next, Begin(p, i, next), next # "aclean"
        PROVE  ipc'[p] # "aclean"
    BY <2>1, <2>2, <2>3 DEF Begin
  <2>4. Start(p) => ipc'[p] # "aclean"
    BY <2>3 DEF Start, StartRead, StartWrite, StartAlloc
  <2>5. ASSUME \/ GetSwapFrame(p, "getswp", "copyout") \/ GetSwapFrame(p, "aswp", "acopy")
               \/ CopyOut(p, "copyout", "copyin") \/ CopyIn(p) \/ PutSwapFrame(p)
        PROVE  ipc'[p] # "aclean"
    BY <2>1, <2>2, <2>5 DEF GetSwapFrame, CopyOut, CopyIn, PutSwapFrame
  <2>6. ASSUME \/ Settle(p) \/ Access(p) \/ CountFree(p) \/ Decide(p)
               \/ TakeVictimFrame(p) \/ Evict(p) \/ MapPages(p)
        PROVE  ipc'[p] # "aclean"
    BY <2>1, <2>2, <2>6
       DEF Settle, Access, CountFree, Decide, TakeVictimFrame, Evict, MapPages
  <2>7. TakeFreeFrame(p) => ipc'[p] # "aclean"
    BY DEF TakeFreeFrame
  <2>8. ipc'[p] # "aclean"
    BY <1>5, <2>4, <2>5, <2>6, <2>7 DEF Continue
  <2> QED  BY <1>5, <2>8 DEF CopyRight
<1> QED  BY <1>3, <1>4, <1>5

LEMMA DataInit == Init => DataInv
<1> SUFFICES ASSUME Init  PROVE DataInv
  OBVIOUS
<1>1. ram \in [RamFrame -> Data] /\ swp \in [SwpFrame -> Data]
  BY PagingAssumption DEF Init
<1>2. ASSUME NEW p \in Proc
      PROVE  pgd[p] = <<>> /\ ipc[p] = "idle" /\ ins[p] = NoIns /\ got[p] = <<>>
  BY DEF Init
<1>3. CleanRight
  <2>1. \A f \in ramFree : ram[f] = Zero
    BY DEF Init
  <2>2. \A p \in Proc, f \in RamFrame, k \in Nat : ~RamGot(f, p, k)
    BY <1>2 DEF RamGot
  <2> QED  BY <2>1, <2>2 DEF CleanRight
<1>4. ASSUME NEW p \in Proc  PROVE OpRight(p) /\ CopyRight(p)
  <2>1. ins[p].op = "none"
    BY <1>2 DEF NoIns
  <2> QED  BY <1>2, <2>1, PagingAssumption DEF OpRight, CopyRight
<1> QED  BY <1>1, <1>3, <1>4 DEF DataInv

LEMMA DataKept == Inv /\ DataInv /\ [Next]_vars => DataInv'
<1> SUFFICES ASSUME Inv, DataInv, [Next]_vars  PROVE DataInv'
  OBVIOUS
<1>1. CASE UNCHANGED vars
  <2> USE <1>1 DEF vars, devVars, tabVars, locVars
  <2>1. \A d \in Proc : Keeps(d)
    BY DEF Keeps
  <2>2. \A d \in Proc : OpRight(d)'
    BY <2>1, KeptOp DEF DataInv
  <2>3. \A d \in Proc : CopyRight(d)'
    BY DEF DataInv, CopyRight, VictimFrame
  <2>4. CleanRight'
    BY DEF DataInv, CleanRight, RamGot
  <2> QED  BY <2>2, <2>3, <2>4 DEF DataInv
<1>2. ASSUME NEW p \in Proc, Start(p) \/ Continue(p)
      PROVE  DataInv'
  <2>1. ram' \in [RamFrame -> Data] /\ swp' \in [SwpFrame -> Data]
    BY <1>2, OwnWrites, RamUntouched, SwpUntouched DEF DataInv
  <2>2. Domains /\ LocalInv(p) /\ OpRight(p)
    BY DEF Inv, DataInv
  <2>3. OpRight(p)'
    BY <1>2, <2>2, StartOp, ContinueOp
  <2>4. \A d \in Proc \ {p} : OpRight(d)'
    BY <1>2, <2>2, StartAlone, ContinueAlone, KeptOp DEF Others, DataInv
  <2> QED  BY <1>2, <2>1, <2>3, <2>4, CleanKept, CopyKept DEF DataInv
<1> QED  BY <1>1, <1>2 DEF Next

-----------------------------------------------------------------------------
(* Types *)

AvailRight == avail \in [Proc -> 0 .. Cardinality(RamFrame)]

LEMMA FreeCounted ==
  ASSUME ramFree \subseteq RamFrame
  PROVE  /\ Cardinality(ramFree) \in 0 .. Cardinality(RamFrame)
         /\ 0 \in 0 .. Cardinality(RamFrame)
<1>1. IsFiniteSet(RamFrame)
  BY PagingAssumption
<1>2. IsFiniteSet(ramFree) /\ Cardinality(ramFree) <= Cardinality(RamFrame)
  BY <1>1, FS_Subset
<1>3. Cardinality(ramFree) \in Nat /\ Cardinality(RamFrame) \in Nat
  BY <1>1, <1>2, FS_CardinalityType
<1> QED  BY <1>2, <1>3

LEMMA AvailKept == Inv /\ AvailRight /\ [Next]_vars => AvailRight'
<1> SUFFICES ASSUME Inv, AvailRight, [Next]_vars  PROVE AvailRight'
  OBVIOUS
<1> DEFINE C == 0 .. Cardinality(RamFrame)
<1>1. Cardinality(ramFree) \in C /\ 0 \in C /\ avail \in [Proc -> C]
  BY FreeCounted DEF Inv, AvailRight
<1>2. ASSUME avail' = avail  PROVE avail' \in [Proc -> C]
  BY <1>1, <1>2
<1>3. ASSUME NEW p \in Proc, NEW r, Return(p, r)  PROVE avail' \in [Proc -> C]
  <2> HIDE DEF C
  <2> QED  BY <1>1, <1>3 DEF Return
<1>4. ASSUME NEW p \in Proc, CountFree(p)  PROVE avail' \in [Proc -> C]
  <2> HIDE DEF C
  <2> QED  BY <1>1, <1>4 DEF CountFree
<1> HIDE DEF C
<1>5. ASSUME NEW p \in Proc, NEW i, NEW next, Begin(p, i, next)
      PROVE  avail' \in [Proc -> C]
  BY <1>2, <1>3, <1>5 DEF Begin
<1>6. ASSUME NEW p \in Proc, Start(p)  PROVE avail' \in [Proc -> C]
  BY <1>5, <1>6 DEF Start, StartRead, StartWrite, StartAlloc
<1>7. ASSUME NEW p \in Proc, NEW here, NEW next, GetSwapFrame(p, here, next)
      PROVE  avail' \in [Proc -> C]
  BY <1>2, <1>3, <1>7 DEF GetSwapFrame
<1>8. ASSUME NEW p \in Proc,
             \/ CopyOut(p, "copyout", "copyin") \/ CopyOut(p, "acopy", "aclean")
             \/ CopyIn(p) \/ PutSwapFrame(p) \/ Settle(p) \/ TakeFreeFrame(p) \/ Evict(p)
      PROVE  avail' \in [Proc -> C]
  BY <1>2, <1>8 DEF CopyOut, CopyIn, PutSwapFrame, Settle, TakeFreeFrame, Evict, locVars
<1>9. ASSUME NEW p \in Proc, Access(p) \/ Decide(p) \/ TakeVictimFrame(p) \/ MapPages(p)
      PROVE  avail' \in [Proc -> C]
  BY <1>2, <1>3, <1>9 DEF Access, Decide, TakeVictimFrame, MapPages, locVars
<1>10. ASSUME UNCHANGED vars  PROVE avail' \in [Proc -> C]
  BY <1>2, <1>10 DEF vars, locVars
<1>11. avail' \in [Proc -> C]
  BY <1>4, <1>6, <1>7, <1>8, <1>9, <1>10 DEF Next, Continue
<1> QED  BY <1>11 DEF AvailRight, C

\* The data invariant, the frames' uses and the counts, in all states.
THEOREM DataInvariant == Spec => [](Inv /\ DataInv /\ AvailRight)
<1>1. Init => Inv /\ DataInv
  BY InitRight, DataInit
<1>2. Init => AvailRight
  <2>1. Cardinality(RamFrame) \in Nat
    BY PagingAssumption, FS_CardinalityType
  <2> QED  BY <2>1 DEF Init, AvailRight
<1>3. Inv /\ DataInv /\ AvailRight /\ [Next]_vars => (Inv /\ DataInv /\ AvailRight)'
  BY InvKept, DataKept, AvailKept
<1> QED  BY <1>1, <1>2, <1>3, PTL DEF Spec

LEMMA Retyped ==
  ASSUME NEW S, NEW T, NEW s \in Seq(S), \A k \in 1 .. Len(s) : s[k] \in T
  PROVE  s \in Seq(T)
<1>1. Len(s) \in Nat /\ s = [k \in 1 .. Len(s) |-> s[k]]
  OBVIOUS
<1>2. [k \in 1 .. Len(s) |-> s[k]] \in Seq(T)
  BY <1>1
<1> QED  BY <1>1, <1>2

LEMMA Sequenced ==
  ASSUME NEW S, NEW n \in Nat, NEW s, s = [k \in 1 .. n |-> s[k]],
         \A k \in 1 .. n : s[k] \in S
  PROVE  s \in Seq(S) /\ Len(s) = n
<1>1. [k \in 1 .. n |-> s[k]] \in Seq(S) /\ Len([k \in 1 .. n |-> s[k]]) = n
  OBVIOUS
<1> QED  BY <1>1

LEMMA InvTypes == Inv /\ DataInv /\ AvailRight => TypeOK
<1> SUFFICES ASSUME Inv, DataInv, AvailRight  PROVE TypeOK
  OBVIOUS
<1>1. ASSUME NEW p \in Proc
      PROVE  /\ Len(pgd[p]) <= MaxPages
             /\ \A q \in DOMAIN pgd[p] :
                  pgd[p][q].frame \in IF pgd[p][q].present THEN RamFrame ELSE SwpFrame
             /\ fifo[p] \in Seq(DOMAIN pgd[p])
             /\ vic[p] \in {0} \cup DOMAIN pgd[p]
             /\ spare[p] \in {None} \cup SwpFrame
             /\ got[p] \in Seq(RamFrame)
             /\ avail[p] \in 0 .. Cardinality(RamFrame)
  <2>1. LocalInv(p) /\ OpRight(p)
    BY DEF Inv, DataInv
  <2>2. pgd[p] \in Seq(Entry) /\ fifo[p] \in Seq(Nat) /\ got[p] \in Seq(RamFrame)
    BY <2>1 DEF LocalInv, TypesRight
  <2>3. DOMAIN pgd[p] = Pages(p)
    BY <2>2 DEF Pages
  <2>4. fifo[p] \in Seq(Pages(p))
    <3>1. \A k \in 1 .. Len(fifo[p]) : fifo[p][k] \in Pages(p)
      BY <2>1 DEF LocalInv, FifoOfPresent
    <3> QED  BY <2>2, <3>1, Retyped, Zenon
  <2>5. vic[p] \in {0} \cup Pages(p) /\ spare[p] \in {None} \cup SwpFrame
    BY <2>1 DEF LocalInv, VictimRight, TypesRight
  <2>6. Len(pgd[p]) <= MaxPages
    BY <2>1 DEF OpRight
  <2>7. \A q \in Pages(p) :
          pgd[p][q].frame \in IF pgd[p][q].present THEN RamFrame ELSE SwpFrame
    BY <2>1 DEF LocalInv, EntriesRight
  <2>8. avail[p] \in 0 .. Cardinality(RamFrame)
    BY DEF AvailRight
  <2> QED  BY <2>2, <2>3, <2>4, <2>5, <2>6, <2>7, <2>8
<1> QED  BY <1>1 DEF TypeOK, Inv, DataInv

\* Every variable of paging keeps to its type: an entry names a frame of the
\* device its page is on, and no process maps more than its pages.
THEOREM TypeCorrect == Spec => []TypeOK
  BY DataInvariant, InvTypes, PTL

-----------------------------------------------------------------------------
(* The content of a process's pages *)

Moving == {"copyin", "putswp", "settle"}

\* A step leaves the content of every page of p as it is.
ContentKept(p) ==
  /\ Len(pgd'[p]) = Len(pgd[p]) /\ pgd'[p] \in Seq(Entry)
  /\ \A q \in Pages(p) : Content(p, q)' = Content(p, q)

LEMMA PageFrames ==
  ASSUME Inv, NEW p \in Proc, NEW q \in Pages(p)
  PROVE  /\ q \in Nat
         /\ pgd[p][q].present => /\ pgd[p][q].frame \in RamFrame
                                 /\ RamPage(pgd[p][q].frame, p, q)
         /\ ~pgd[p][q].present => pgd[p][q].frame \in SwpFrame
         /\ ~pgd[p][q].present /\ Leaving(p) # q => SwpPage(pgd[p][q].frame, p, q)
<1>1. LocalInv(p) /\ pgd[p] \in Seq(Entry)
  BY DEF Inv, LocalInv, TypesRight
<1>2. q \in Nat
  BY <1>1 DEF Pages
<1>3. pgd[p][q].frame \in IF pgd[p][q].present THEN RamFrame ELSE SwpFrame
  BY <1>1 DEF LocalInv, EntriesRight
<1> QED  BY <1>2, <1>3 DEF RamPage, SwpPage

\* Two pages of a process in RAM are in different frames.
LEMMA FramesDiffer ==
  ASSUME Inv, NEW p \in Proc, NEW q \in Pages(p), NEW r \in Pages(p), q # r,
         pgd[p][q].present, pgd[p][r].present
  PROVE  pgd[p][q].frame # pgd[p][r].frame
<1>1. /\ pgd[p][q].frame \in RamFrame /\ RamPage(pgd[p][q].frame, p, q)
      /\ RamPage(pgd[p][r].frame, p, r) /\ q \in Nat /\ r \in Nat
  BY PageFrames
<1> QED  BY <1>1 DEF Inv, RamOneUse

LEMMA ContentsOfOthers ==
  ASSUME Inv, DataInv, NEW p \in Proc, Start(p) \/ Continue(p),
         NEW d \in Proc \ {p}
  PROVE  ContentKept(d)
<1>1. /\ Domains /\ LocalInv(d) /\ pgd[d] \in Seq(Entry)
      /\ ram \in [RamFrame -> Data] /\ swp \in [SwpFrame -> Data]
  BY DEF Inv, DataInv, LocalInv, TypesRight
<1>2. Keeps(d)
  BY <1>1, StartAlone, ContinueAlone DEF Others
<1>3. /\ \A f \in RamFrame, q \in Nat : RamPage(f, d, q) => ram'[f] = ram[f]
      /\ \A f \in SwpFrame : spare[d] = f => swp'[f] = swp[f]
      /\ \A f \in SwpFrame, q \in Nat : SwpPage(f, d, q) => swp'[f] = swp[f]
  BY <1>1, OwnWrites, RamUntouched, SwpUntouched
<1>4. ASSUME NEW q \in Pages(d)  PROVE Content(d, q)' = Content(d, q)
  <2> USE <1>4 DEF Keeps
  <2>1. CASE ipc[d] \in Moving /\ q = vic[d]
    <3>1. swp'[spare[d]] = swp[spare[d]]
      BY <1>1, <1>3, <2>1, SparesFrame DEF Moving
    <3> QED  BY <1>2, <2>1, <3>1 DEF Content, Moving
  <2>2. CASE ~(ipc[d] \in Moving /\ q = vic[d]) /\ ipc[d] \in {"putswp", "settle"} /\ q = ins[d].page
    <3>1. ram'[VictimFrame(d)] = ram[VictimFrame(d)]
      BY <1>1, <1>3, <2>2, VictimsFrame DEF Exchanging
    <3>2. VictimFrame(d)' = VictimFrame(d)
      BY <1>2 DEF VictimFrame
    <3> QED  BY <1>2, <2>2, <3>1, <3>2 DEF Content, Moving
  <2>3. CASE ~(ipc[d] \in Moving /\ q = vic[d]) /\ ~(ipc[d] \in {"putswp", "settle"} /\ q = ins[d].page)
    <3>1. Leaving(d) # q
      <4>1. q \in Nat /\ q # 0
        BY <1>1 DEF Pages
      <4> QED  BY <2>3, <4>1 DEF Leaving
    <3>2. pgd[d][q].present => ram'[pgd[d][q].frame] = ram[pgd[d][q].frame]
      BY <1>3, PageFrames
    <3>3. ~pgd[d][q].present => swp'[pgd[d][q].frame] = swp[pgd[d][q].frame]
      BY <1>3, <3>1, PageFrames
    <3> QED  BY <1>2, <2>3, <3>2, <3>3 DEF Content, Moving
  <2> QED  BY <2>1, <2>2, <2>3
<1> QED  BY <1>1, <1>2, <1>4 DEF ContentKept, Keeps

\* Outside an exchange the content of a page is where its entry says.
LEMMA ContentPlain ==
  ASSUME NEW p, NEW q, ipc[p] \notin Moving
  PROVE  Content(p, q) = IF pgd[p][q].present THEN ram[pgd[p][q].frame]
                                              ELSE swp[pgd[p][q].frame]
  BY DEF Content, Moving

LEMMA ContentPlainNext ==
  ASSUME NEW p, NEW q, ipc'[p] \notin Moving
  PROVE  Content(p, q)' = IF pgd'[p][q].present THEN ram'[pgd'[p][q].frame]
                                                ELSE swp'[pgd'[p][q].frame]
  BY DEF Content, Moving

\* A step that neither begins an exchange nor writes.
LEMMA QuietContent ==
  ASSUME Inv, NEW p \in Proc, ipc[p] \notin Moving, ipc'[p] \notin Moving,
         pgd'[p] = pgd[p], ram' = ram, swp' = swp
  PROVE  ContentKept(p)
<1>1. pgd[p] \in Seq(Entry)
  BY DEF Inv, LocalInv, TypesRight
<1>2. \A q \in Pages(p) : Content(p, q)' = Content(p, q)
  BY ContentPlain, ContentPlainNext
<1> QED  BY <1>1, <1>2 DEF ContentKept

\* The victim's content moves to the swap device.
LEMMA CopyOutContent ==
  ASSUME Inv, DataInv, NEW p \in Proc,
         CopyOut(p, "copyout", "copyin") \/ CopyOut(p, "acopy", "aclean")
  PROVE  ContentKept(p)
<1>1. /\ Domains /\ LocalInv(p) /\ pgd[p] \in Seq(Entry)
      /\ ram \in [RamFrame -> Data] /\ swp \in [SwpFrame -> Data]
  BY DEF Inv, DataInv, LocalInv, TypesRight
<1>2. /\ ipc[p] \in {"copyout", "acopy"} /\ ram' = ram /\ pgd' = pgd
      /\ vic' = vic /\ spare' = spare /\ ins' = ins
      /\ swp' = [swp EXCEPT ![spare[p]] = ram[VictimFrame(p)]]
  BY DEF CopyOut, tabVars, locVars
<1>3. ipc'[p] = IF ipc[p] = "copyout" THEN "copyin" ELSE "aclean"
  BY <1>1 DEF CopyOut, Goto, Domains
<1>4. spare[p] \in SwpFrame /\ pgd[p][vic[p]].present
  BY <1>1, <1>2, SparesFrame, VictimsFrame DEF Exchanging, Evicting
<1>5. swp'[spare[p]] = ram[VictimFrame(p)]
  BY <1>1, <1>2, <1>4
<1>6. \A f \in SwpFrame, q \in Nat : SwpPage(f, p, q) => swp'[f] = swp[f]
  BY <1>1, OwnWrites, SwpUntouched DEF Continue
<1>7. Leaving(p) = 0
  BY <1>2 DEF Leaving
<1>8. ASSUME NEW q \in Pages(p)  PROVE Content(p, q)' = Content(p, q)
  <2>1. Content(p, q) = IF pgd[p][q].present THEN ram[pgd[p][q].frame]
                                              ELSE swp[pgd[p][q].frame]
    BY <1>2, ContentPlain DEF Moving
  <2>2. q # 0
    BY <1>1 DEF Pages
  <2>3. ~pgd[p][q].present => swp'[pgd[p][q].frame] = swp[pgd[p][q].frame]
    BY <1>6, <1>7, <1>8, <2>2, PageFrames
  <2>4. CASE ipc'[p] = "copyin" /\ q = vic[p]
    <3>1. Content(p, q)' = swp'[spare[p]]
      BY <1>2, <2>4 DEF Content
    <3> QED  BY <1>4, <1>5, <2>1, <2>4, <3>1 DEF VictimFrame
  <2>5. CASE ~(ipc'[p] = "copyin" /\ q = vic[p])
    <3>1. Content(p, q)' = IF pgd[p][q].present THEN ram[pgd[p][q].frame]
                                                 ELSE swp'[pgd[p][q].frame]
      BY <1>2, <1>3, <2>5 DEF Content
    <3> QED  BY <2>1, <2>3, <3>1
  <2> QED  BY <2>4, <2>5
<1> QED  BY <1>1, <1>2, <1>8 DEF ContentKept

\* The target's content moves to the victim's frame.
LEMMA CopyInContent ==
  ASSUME Inv, DataInv, NEW p \in Proc, CopyIn(p)
  PROVE  ContentKept(p)
<1>1. /\ Domains /\ LocalInv(p) /\ pgd[p] \in Seq(Entry)
      /\ ram \in [RamFrame -> Data] /\ swp \in [SwpFrame -> Data]
  BY DEF Inv, DataInv, LocalInv, TypesRight
<1> DEFINE t == ins[p].page
           g == VictimFrame(p)
<1>2. /\ ipc[p] = "copyin" /\ ipc'[p] = "putswp" /\ swp' = swp /\ pgd' = pgd
      /\ vic' = vic /\ spare' = spare /\ ins' = ins
      /\ ram' = [ram EXCEPT ![g] = swp[pgd[p][t].frame]]
  BY <1>1 DEF CopyIn, Goto, Domains, tabVars, locVars
<1>3. /\ vic[p] \in Pages(p) /\ pgd[p][vic[p]].present /\ g \in RamFrame
      /\ ~pgd[p][t].present /\ g = pgd[p][vic[p]].frame
  BY <1>1, <1>2, VictimsFrame DEF LocalInv, PageRight, Exchanging, VictimFrame
<1>4. VictimFrame(p)' = g
  BY <1>2 DEF VictimFrame
<1>5. ram'[g] = swp[pgd[p][t].frame] /\ \A f \in RamFrame : f # g => ram'[f] = ram[f]
  BY <1>1, <1>2, <1>3
<1>6. ASSUME NEW q \in Pages(p)  PROVE Content(p, q)' = Content(p, q)
  <2>1. CASE q = vic[p]
    BY <1>2, <2>1 DEF Content
  <2>2. CASE q = t
    <3>1. Content(p, q) = swp[pgd[p][t].frame]
      BY <1>2, <1>3, <2>2 DEF Content
    <3>2. Content(p, q)' = ram'[g]
      BY <1>2, <1>3, <1>4, <2>2 DEF Content
    <3> QED  BY <1>5, <3>1, <3>2
  <2>3. CASE q # t /\ q # vic[p]
    <3>1. pgd[p][q].present => ram'[pgd[p][q].frame] = ram[pgd[p][q].frame]
      BY <1>3, <1>5, <2>3, FramesDiffer, PageFrames
    <3>2. Content(p, q) = IF pgd[p][q].present THEN ram[pgd[p][q].frame]
                                                ELSE swp[pgd[p][q].frame]
      BY <1>2, <2>3 DEF Content
    <3>3. Content(p, q)' = IF pgd[p][q].present THEN ram'[pgd[p][q].frame]
                                                 ELSE swp[pgd[p][q].frame]
      BY <1>2, <2>3 DEF Content
    <3> QED  BY <3>1, <3>2, <3>3
  <2> QED  BY <2>1, <2>2, <2>3
<1> QED  BY <1>1, <1>2, <1>6 DEF ContentKept

LEMMA PutSwapFrameContent ==
  ASSUME Inv, NEW p \in Proc, PutSwapFrame(p)
  PROVE  ContentKept(p)
<1>1. Domains /\ pgd[p] \in Seq(Entry)
  BY DEF Inv, LocalInv, TypesRight
<1>2. /\ ipc[p] = "putswp" /\ ipc'[p] = "settle" /\ swp' = swp /\ pgd' = pgd
      /\ ram' = ram /\ vic' = vic /\ spare' = spare /\ ins' = ins
  BY <1>1 DEF PutSwapFrame, Goto, Domains, tabVars, locVars
<1>3. VictimFrame(p)' = VictimFrame(p)
  BY <1>2 DEF VictimFrame
<1>4. \A q \in Pages(p) : Content(p, q)' = Content(p, q)
  BY <1>2, <1>3 DEF Content
<1> QED  BY <1>1, <1>2, <1>4 DEF ContentKept

\* Now the entries say where the two pages have been since.
LEMMA SettleContent ==
  ASSUME Inv, NEW p \in Proc, Settle(p)
  PROVE  ContentKept(p)
<1> DEFINE t == ins[p].page
<1>1. /\ ipc[p] = "settle" /\ ipc'[p] \notin Moving /\ vic[p] # t
      /\ pgd'[p] \in Seq(Entry) /\ Len(pgd'[p]) = Len(pgd[p])
      /\ pgd'[p][vic[p]] = InSwap(spare[p]) /\ pgd'[p][t] = InRam(VictimFrame(p))
      /\ \A q \in Pages(p) \ {vic[p], t} : pgd'[p][q] = pgd[p][q]
  BY SettleDoes DEF Inv, Moving
<1>2. ram' = ram /\ swp' = swp
  BY DEF Settle, devVars
<1>3. ASSUME NEW q \in Pages(p)  PROVE Content(p, q)' = Content(p, q)
  <2>1. Content(p, q)' = IF pgd'[p][q].present THEN ram[pgd'[p][q].frame]
                                               ELSE swp[pgd'[p][q].frame]
    BY <1>1, <1>2, ContentPlainNext
  <2>2. CASE q = vic[p]
    <3>1. ~pgd'[p][q].present /\ pgd'[p][q].frame = spare[p]
      BY <1>1, <2>2 DEF InSwap
    <3> QED  BY <1>1, <2>1, <2>2, <3>1 DEF Content
  <2>3. CASE q = t
    <3>1. pgd'[p][q].present /\ pgd'[p][q].frame = VictimFrame(p)
      BY <1>1, <2>3 DEF InRam
    <3> QED  BY <1>1, <2>1, <2>3, <3>1 DEF Content
  <2>4. CASE q # t /\ q # vic[p]
    BY <1>1, <2>1, <2>4 DEF Content
  <2> QED  BY <2>2, <2>3, <2>4
<1> QED  BY <1>1, <1>3 DEF ContentKept

\* The victim has been copied out before its frame is cleaned.
LEMMA EvictContent ==
  ASSUME Inv, DataInv, NEW p \in Proc, Evict(p)
  PROVE  ContentKept(p)
<1>1. LocalInv(p) /\ ram \in [RamFrame -> Data] /\ CopyRight(p)
  BY DEF Inv, DataInv
<1> DEFINE g == VictimFrame(p)
<1>2. /\ ipc[p] = "aclean" /\ ipc'[p] = "loop"
      /\ vic[p] \in Pages(p) /\ pgd[p][vic[p]].present /\ g \in RamFrame
      /\ pgd'[p] \in Seq(Entry) /\ Len(pgd'[p]) = Len(pgd[p])
      /\ ~pgd'[p][vic[p]].present /\ pgd'[p][vic[p]].frame = spare[p]
      /\ \A q \in Pages(p) \ {vic[p]} : pgd'[p][q] = pgd[p][q]
  BY EvictDoes DEF Inv
<1>3. /\ swp' = swp /\ swp[spare[p]] = ram[g] /\ g = pgd[p][vic[p]].frame
      /\ \A f \in RamFrame : f # g => ram'[f] = ram[f]
  BY <1>1, <1>2 DEF Evict, CopyRight, VictimFrame
<1>4. ASSUME NEW q \in Pages(p)  PROVE Content(p, q)' = Content(p, q)
  <2>1. Content(p, q)' = IF pgd'[p][q].present THEN ram'[pgd'[p][q].frame]
                                               ELSE swp[pgd'[p][q].frame]
    BY <1>2, <1>3, ContentPlainNext DEF Moving
  <2>2. Content(p, q) = IF pgd[p][q].present THEN ram[pgd[p][q].frame]
                                             ELSE swp[pgd[p][q].frame]
    BY <1>2, ContentPlain DEF Moving
  <2>3. CASE q = vic[p]
    BY <1>2, <1>3, <2>1, <2>2, <2>3
  <2>4. CASE q # vic[p]
    <3>1. pgd[p][q].present => ram'[pgd[p][q].frame] = ram[pgd[p][q].frame]
      BY <1>2, <1>3, <2>4, FramesDiffer, PageFrames
    <3> QED  BY <1>2, <2>1, <2>2, <2>4, <3>1
  <2> QED  BY <2>3, <2>4
<1> QED  BY <1>2, <1>4 DEF ContentKept

-----------------------------------------------------------------------------
(* The steps as steps of the flat memory *)

Mem == [p \in Proc |-> [q \in DOMAIN pgd[p] |-> Content(p, q)]]

Failed(p) == result' = [result EXCEPT ![p] = "error"]

LEMMA PagesOf ==
  ASSUME Inv, NEW p \in Proc
  PROVE  /\ pgd[p] \in Seq(Entry) /\ DOMAIN pgd[p] = Pages(p) /\ Len(pgd[p]) \in Nat
         /\ Mem[p] = [q \in Pages(p) |-> Content(p, q)]
<1>1. pgd[p] \in Seq(Entry)
  BY DEF Inv, LocalInv, TypesRight
<1>2. DOMAIN pgd[p] = Pages(p) /\ Len(pgd[p]) \in Nat
  BY <1>1 DEF Pages
<1> QED  BY <1>1, <1>2 DEF Mem

LEMMA PageMemKept ==
  ASSUME Inv, NEW p \in Proc, ContentKept(p)
  PROVE  Mem'[p] = Mem[p]
<1>1. DOMAIN pgd'[p] = Pages(p) /\ DOMAIN pgd[p] = Pages(p)
  BY PagesOf DEF ContentKept, Pages
<1>2. \A q \in Pages(p) : Content(p, q)' = Content(p, q)
  BY DEF ContentKept
<1>3. Mem'[p] = [q \in Pages(p) |-> Content(p, q)']
  BY <1>1 DEF Mem
<1> QED  BY <1>2, <1>3, PagesOf

LEMMA MemKept ==
  ASSUME Inv, \A p \in Proc : ContentKept(p)
  PROVE  Mem' = Mem
<1>1. \A p \in Proc : Mem'[p] = Mem[p]
  BY PageMemKept
<1> QED  BY <1>1 DEF Mem

LEMMA ReturnNotMoving ==
  ASSUME Domains, NEW p \in Proc
  PROVE  /\ \A r : Return(p, r) => ipc'[p] \notin Moving
         /\ \A l : Goto(p, l) /\ l \notin Moving => ipc'[p] \notin Moving
<1>1. ASSUME NEW r, Return(p, r)  PROVE ipc'[p] \notin Moving
  BY <1>1, ReturnDoes DEF Returned, Moving
<1>2. ASSUME NEW l, Goto(p, l), l \notin Moving  PROVE ipc'[p] \notin Moving
  BY <1>2 DEF Goto, Domains
<1> QED  BY <1>1, <1>2

\* An instruction begins: it fails, or nothing is seen of it.
LEMMA StartMaps ==
  ASSUME Inv, DataInv, NEW p \in Proc, Start(p)
  PROVE  ContentKept(p) /\ (result' = result \/ Failed(p))
<1>1. Domains /\ ram' = ram /\ swp' = swp /\ pgd'[p] = pgd[p]
  BY StartWrites, StartQuiet DEF Inv, RamQuiet
<1>2. ASSUME NEW i, NEW next \in {"access", "count"}, Begin(p, i, next)
      PROVE  ipc'[p] \notin Moving /\ (result' = result \/ Failed(p))
  <2>1. next \notin Moving /\ "getswp" \notin Moving
    BY DEF Moving
  <2>2. ipc'[p] \notin Moving
    BY <1>1, <1>2, <2>1, ReturnNotMoving DEF Begin
  <2>3. result' = result \/ Failed(p)
    BY <1>2 DEF Begin, Return, Failed
  <2> QED  BY <2>2, <2>3
<1>3. ipc[p] = "idle" /\ ipc'[p] \notin Moving /\ (result' = result \/ Failed(p))
  BY <1>2 DEF Start, StartRead, StartWrite, StartAlloc
<1> QED  BY <1>1, <1>3, QuietContent DEF Moving

\* Nor is anything seen of its other steps before the last.
LEMMA ContinueMaps ==
  ASSUME Inv, DataInv, NEW p \in Proc, Continue(p), ~Access(p), ~MapPages(p)
  PROVE  ContentKept(p) /\ (result' = result \/ Failed(p))
<1>1. Domains
  BY DEF Inv
<1>2. CASE GetSwapFrame(p, "getswp", "copyout") \/ GetSwapFrame(p, "aswp", "acopy")
  <2>1. ipc[p] \notin Moving /\ pgd'[p] = pgd[p] /\ ram' = ram /\ swp' = swp
    BY <1>2 DEF GetSwapFrame, tabVars, Moving
  <2>2. ipc'[p] \notin Moving
    <3>1. "copyout" \notin Moving /\ "acopy" \notin Moving
      BY DEF Moving
    <3> QED  BY <1>1, <1>2, <3>1, ReturnNotMoving DEF GetSwapFrame
  <2>3. result' = result \/ Failed(p)
    BY <1>2 DEF GetSwapFrame, Return, Failed
  <2> QED  BY <2>1, <2>2, <2>3, QuietContent
<1>3. CASE CopyOut(p, "copyout", "copyin") \/ CopyOut(p, "acopy", "aclean")
  BY <1>3, CopyOutContent DEF CopyOut, locVars
<1>4. CASE CopyIn(p)
  BY <1>4, CopyInContent DEF CopyIn, locVars
<1>5. CASE PutSwapFrame(p)
  BY <1>5, PutSwapFrameContent DEF PutSwapFrame, locVars
<1>6. CASE Settle(p)
  BY <1>6, SettleContent DEF Settle
<1>7. CASE Evict(p)
  BY <1>7, EvictContent DEF Evict
<1>8. CASE CountFree(p) \/ Decide(p) \/ TakeVictimFrame(p)
  <2>1. ipc[p] \notin Moving /\ pgd'[p] = pgd[p] /\ ram' = ram /\ swp' = swp
    BY <1>8 DEF CountFree, Decide, TakeVictimFrame, devVars, tabVars, Moving
  <2>2. ipc'[p] \notin Moving
    <3>1. "decide" \notin Moving /\ "loop" \notin Moving /\ "aswp" \notin Moving
      BY DEF Moving
    <3> QED  BY <1>1, <1>8, <3>1, ReturnNotMoving DEF CountFree, Decide, TakeVictimFrame
  <2>3. result' = result \/ Failed(p)
    BY <1>8 DEF CountFree, Decide, TakeVictimFrame, Return, Failed, locVars
  <2> QED  BY <2>1, <2>2, <2>3, QuietContent
<1>9. CASE TakeFreeFrame(p)
  <2>1. /\ ipc[p] \notin Moving /\ ipc'[p] \notin Moving /\ result' = result
        /\ pgd'[p] = pgd[p] /\ ram' = ram /\ swp' = swp
    BY <1>9 DEF TakeFreeFrame, tabVars, Moving
  <2> QED  BY <2>1, QuietContent
<1> QED  BY <1>2, <1>3, <1>4, <1>5, <1>6, <1>7, <1>8, <1>9 DEF Continue

LEMMA QuietMaps ==
  ASSUME Inv, DataInv, NEW p \in Proc, Start(p) \/ Continue(p),
         ContentKept(p), result' = result \/ Failed(p)
  PROVE  [F!FlatNext]_(F!flatVars)
<1>1. Mem' = Mem
  BY ContentsOfOthers, MemKept
<1>2. CASE result' = result
  BY <1>1, <1>2 DEF F!flatVars, Mem
<1>3. CASE Failed(p)
  BY <1>1, <1>3 DEF F!FlatNext, F!FlatFail, F!Return, Failed, Mem
<1> QED  BY <1>2, <1>3

\* A read returns what the page holds, a write changes it and no other.
LEMMA AccessMaps ==
  ASSUME Inv, DataInv, NEW p \in Proc, Access(p)
  PROVE  F!FlatNext
<1>1. /\ Domains /\ LocalInv(p) /\ OpRight(p) /\ ram \in [RamFrame -> Data]
      /\ Continue(p)
  BY DEF Inv, DataInv, Continue
<1> PICK t : t = ins[p].page
  OBVIOUS
<1> DEFINE f == pgd[p][t].frame
<1>2. ipc[p] = "access" /\ t \in Pages(p) /\ pgd[p][t].present
  BY <1>1 DEF Access, OpRight
<1>3. /\ Content(p, t) = ram[f] /\ f \in RamFrame
      /\ DOMAIN pgd[p] = Pages(p) /\ t \in 1 .. MaxPages
  <2>1. Len(pgd[p]) \in Nat /\ MaxPages \in Nat /\ Len(pgd[p]) <= MaxPages
    BY <1>1, PagesOf, PagingAssumption DEF OpRight
  <2>2. t \in 1 .. MaxPages
    BY <1>2, <2>1 DEF Pages
  <2> QED  BY <1>2, <2>2, ContentPlain, PageFrames, PagesOf DEF Moving
<1>4. ipc'[p] \notin Moving /\ swp' = swp /\ pgd' = pgd
  BY <1>1, ReturnNotMoving DEF Access, tabVars
<1>5. \A d \in Proc \ {p} : ContentKept(d)
  BY <1>1, ContentsOfOthers
<1>6. CASE Return(p, ram[f]) /\ ram' = ram
  <2>1. ContentKept(p)
    BY <1>2, <1>4, <1>6, QuietContent DEF Moving
  <2>2. Mem' = Mem
    BY <1>5, <2>1, MemKept
  <2>3. result' = [result EXCEPT ![p] = Content(p, t)]
    BY <1>3, <1>6 DEF Return
  <2>4. F!FlatRead(p, t)
    BY <1>2, <1>3, <2>2, <2>3 DEF F!FlatRead, F!Return, Mem
  <2> QED  BY <1>3, <2>4 DEF F!FlatNext
<1>7. CASE /\ ins[p].op = "write" /\ Return(p, "ok")
           /\ ram' = [ram EXCEPT ![f] = ins[p].data]
  <2>1. PICK x \in Data : x = ins[p].data
    BY <1>1, <1>7 DEF OpRight
  <2>2. ram'[f] = x /\ \A g \in RamFrame : g # f => ram'[g] = ram[g]
    BY <1>1, <1>3, <1>7, <2>1
  <2>3. Content(p, t)' = x
    BY <1>2, <1>4, <2>2, ContentPlainNext
  <2>4. ASSUME NEW q \in Pages(p), q # t  PROVE Content(p, q)' = Content(p, q)
    <3>1. pgd[p][q].present => ram'[pgd[p][q].frame] = ram[pgd[p][q].frame]
      BY <1>2, <2>2, <2>4, FramesDiffer, PageFrames
    <3>2. Content(p, q) = IF pgd[p][q].present THEN ram[pgd[p][q].frame]
                                               ELSE swp[pgd[p][q].frame]
      BY <1>2, ContentPlain DEF Moving
    <3>3. Content(p, q)' = IF pgd'[p][q].present THEN ram'[pgd'[p][q].frame]
                                                 ELSE swp'[pgd'[p][q].frame]
      BY <1>4, ContentPlainNext
    <3> QED  BY <1>4, <3>1, <3>2, <3>3
  <2>5. Mem'[p] = [Mem[p] EXCEPT ![t] = x]
    <3>1. Mem'[p] = [q \in Pages(p) |-> Content(p, q)']
      BY <1>3, <1>4 DEF Mem
    <3>2. Mem[p] = [q \in Pages(p) |-> Content(p, q)]
      BY PagesOf
    <3> QED  BY <1>2, <2>3, <2>4, <3>1, <3>2
  <2>6. \A d \in Proc \ {p} : Mem'[d] = Mem[d]
    BY <1>5, PageMemKept
  <2>7. Mem' = [Mem EXCEPT ![p][t] = x]
    <3>1. DOMAIN Mem = Proc /\ DOMAIN Mem' = Proc
          /\ Mem = [d \in Proc |-> Mem[d]] /\ Mem' = [d \in Proc |-> Mem'[d]]
      BY DEF Mem
    <3> HIDE DEF Mem
    <3> QED  BY <2>5, <2>6, <3>1
  <2>8. t \in DOMAIN Mem[p] /\ result' = [result EXCEPT ![p] = "ok"]
    BY <1>2, <1>3, <1>7, PagesOf DEF Return
  <2>9. F!FlatWrite(p, t, x)
    BY <2>7, <2>8 DEF F!FlatWrite, F!Return, Mem
  <2>10. t \in 1 .. MaxPages
    BY <1>3
  <2>11. \E q \in 1 .. MaxPages, d \in Data : F!FlatWrite(p, q, d)
    BY <2>1, <2>9, <2>10
  <2> QED  BY <2>11, Zenon DEF F!FlatNext
<1>8. \/ Return(p, ram[f]) /\ ram' = ram
      \/ /\ ins[p].op = "write" /\ Return(p, "ok")
         /\ ram' = [ram EXCEPT ![f] = ins[p].data]
  BY Zenon DEF Access
<1> HIDE DEF f
<1> QED  BY <1>6, <1>7, <1>8

\* The pages mapped for a new variable are clean.
LEMMA MapPagesMaps ==
  ASSUME Inv, DataInv, NEW p \in Proc, MapPages(p)
  PROVE  F!FlatNext
<1>1. Domains /\ LocalInv(p) /\ OpRight(p) /\ CleanRight /\ Continue(p)
  BY DEF Inv, DataInv, Continue
<1>2. PICK m \in Nat, n \in Nat :
      /\ m = Len(pgd[p]) /\ n = Len(got[p])
      /\ Returned(p) /\ pgd'[p] \in Seq(Entry) /\ Len(pgd'[p]) = m + n
      /\ \A q \in 1 .. m : pgd'[p][q] = pgd[p][q]
      /\ \A i \in 1 .. n : /\ pgd'[p][m + i].present
                           /\ pgd'[p][m + i].frame = got[p][i]
                           /\ got[p][i] \in RamFrame
  BY <1>1, MapPagesDoes
<1>3. n \in 1 .. MaxPages /\ m + n <= MaxPages
  <2>1. n = ins[p].n /\ ins[p].op = "alloc"
    BY <1>1, <1>2 DEF MapPages, LocalInv, PageRight, Allocating
  <2> QED  BY <1>1, <1>2, <2>1 DEF OpRight
<1>4. /\ ipc[p] = "loop" /\ ipc'[p] = "idle" /\ ram' = ram /\ swp' = swp
      /\ result' = [result EXCEPT ![p] = "ok"]
  BY <1>2 DEF MapPages, Returned, Return, devVars
<1>5. Pages(p) = 1 .. m /\ DOMAIN pgd'[p] = 1 .. m + n
  BY <1>2, LenProperties DEF Pages
<1>6. ASSUME NEW q \in 1 .. m  PROVE Content(p, q)' = Content(p, q)
  <2>1. pgd'[p][q] = pgd[p][q]
    BY <1>2
  <2>2. ipc[p] \notin Moving /\ ipc'[p] \notin Moving
    BY <1>4 DEF Moving
  <2> QED  BY <1>4, <2>1, <2>2, ContentPlain, ContentPlainNext
<1>7. ASSUME NEW i \in 1 .. n  PROVE Content(p, m + i)' = Zero
  <2> PICK q : q = m + i
    OBVIOUS
  <2>1. pgd'[p][q].present /\ pgd'[p][q].frame = got[p][i] /\ got[p][i] \in RamFrame
    BY <1>2
  <2>2. Content(p, q)' = ram[got[p][i]]
    BY <1>4, <2>1, ContentPlainNext DEF Moving
  <2>3. RamGot(got[p][i], p, i) /\ i \in Nat
    BY <1>2 DEF RamGot
  <2>4. Content(p, q)' = Zero
    BY <1>1, <2>1, <2>2, <2>3 DEF CleanRight
  <2> QED  BY <2>4
<1> DEFINE a == Mem[p]
           b == [i \in 1 .. n |-> Zero]
           c == Mem'[p]
           S == {Content(p, q) : q \in 1 .. m} \cup {Zero}
<1>8. a = [q \in 1 .. m |-> Content(p, q)] /\ c = [q \in 1 .. m + n |-> Content(p, q)']
  <2>1. c = [q \in 1 .. m + n |-> Content(p, q)']
    BY <1>5 DEF Mem
  <2> QED  BY <1>2, <1>5, <2>1, PagesOf
<1>9. a \in Seq(S) /\ b \in Seq(S) /\ Len(a) = m /\ Len(b) = n
  <2>1. \A q \in 1 .. m : Content(p, q) \in S
    OBVIOUS
  <2>2. Zero \in S
    OBVIOUS
  <2> HIDE DEF S, a
  <2> QED  BY <1>8, <2>1, <2>2
<1>10. c \in Seq(S) /\ Len(c) = m + n /\ \A q \in 1 .. m + n : c[q] = (a \o b)[q]
  <2>1. ASSUME NEW q \in 1 .. m + n  PROVE c[q] \in S /\ c[q] = (a \o b)[q]
    <3>1. c[q] = Content(p, q)'
      BY <1>8
    <3>2. CASE q \in 1 .. m
      <4>1. c[q] = Content(p, q) /\ a[q] = Content(p, q)
        BY <1>6, <1>8, <3>1, <3>2
      <4>2. (a \o b)[q] = a[q]
        <5> HIDE DEF a, b, S
        <5> QED  BY <1>9, <3>2, Joined
      <4> QED  BY <3>2, <4>1, <4>2
    <3>3. CASE q \notin 1 .. m
      <4> PICK i \in 1 .. n : q = m + i
        <5>1. q - m \in 1 .. n /\ q = m + (q - m)
          BY <2>1, <3>3
        <5> QED  BY <5>1
      <4>1. c[q] = Zero /\ b[i] = Zero
        BY <1>7, <3>1
      <4>2. (a \o b)[q] = b[i]
        <5>1. i \in 1 .. Len(b) /\ q = Len(a) + i
          BY <1>9
        <5> HIDE DEF a, b, S
        <5>2. (a \o b)[Len(a) + i] = b[i]
          BY <1>9, <5>1, JoinedLater, Zenon
        <5> QED  BY <5>1, <5>2
      <4> QED  BY <4>1, <4>2
    <3> QED  BY <3>2, <3>3
  <2> HIDE DEF S, a, b
  <2>2. c = [q \in 1 .. m + n |-> Content(p, q)']
    BY <1>8
  <2>3. c = [q \in 1 .. m + n |-> c[q]] /\ m + n \in Nat
    BY <2>2
  <2> HIDE DEF c
  <2>4. c \in Seq(S) /\ Len(c) = m + n
    BY <2>1, <2>3, Sequenced
  <2> QED  BY <2>1, <2>4
<1>11. c = a \o b
  <2> HIDE DEF S, a, b, c
  <2>1. a \o b \in Seq(S) /\ Len(a \o b) = m + n
    BY <1>9, Joined
  <2> QED  BY <1>10, <2>1, SeqEqual, Zenon
<1>12. \A d \in Proc \ {p} : Mem'[d] = Mem[d]
  BY <1>1, ContentsOfOthers, PageMemKept
<1>13. Mem' = [Mem EXCEPT ![p] = @ \o b]
  <2>1. DOMAIN Mem = Proc /\ Mem = [d \in Proc |-> Mem[d]] /\ Mem' = [d \in Proc |-> Mem'[d]]
    BY DEF Mem
  <2> HIDE DEF b, Mem
  <2> QED  BY <1>11, <1>12, <2>1
<1>14. F!FlatGrow(p, n)
  BY <1>3, <1>4, <1>9, <1>13 DEF F!FlatGrow, F!Return, Mem
<1> QED  BY <1>3, <1>14, Zenon DEF F!FlatNext

LEMMA FlatInitially == Init => F!FlatInit
<1> SUFFICES ASSUME Init  PROVE F!FlatInit
  OBVIOUS
<1>1. ASSUME NEW p \in Proc
      PROVE  [q \in DOMAIN pgd[p] |-> Content(p, q)] = << >>
  <2>1. pgd[p] = << >>
    BY DEF Init
  <2> QED  BY <2>1
<1>2. Mem = [p \in Proc |-> << >>]
  BY <1>1 DEF Mem
<1> QED  BY <1>2 DEF Init, F!FlatInit, Mem

LEMMA FlatStep == Inv /\ DataInv /\ [Next]_vars => [F!FlatNext]_(F!flatVars)
<1> SUFFICES ASSUME Inv, DataInv, [Next]_vars  PROVE [F!FlatNext]_(F!flatVars)
  OBVIOUS
<1>1. CASE UNCHANGED vars
  BY <1>1 DEF vars, devVars, tabVars, locVars, F!flatVars, Content, VictimFrame
<1>2. ASSUME NEW p \in Proc, Start(p)  PROVE [F!FlatNext]_(F!flatVars)
  BY <1>2, StartMaps, QuietMaps
<1>3. ASSUME NEW p \in Proc, Continue(p)  PROVE [F!FlatNext]_(F!flatVars)
  BY <1>3, ContinueMaps, QuietMaps, AccessMaps, MapPagesMaps
<1> QED  BY <1>1, <1>2, <1>3 DEF Next

\* Whatever pages are exchanged, evicted or cleaned by whichever process in
\* between, a process reads what it wrote last to a page, or zero; and an
\* instruction that fails on the way leaves every page's content alone.
THEOREM Refinement == Spec => ImplementsFlatMemory
<1>1. Inv /\ DataInv /\ [Next]_vars => [F!FlatNext]_(F!flatVars)
  BY FlatStep
<1> QED  BY <1>1, FlatInitially, DataInvariant, PTL DEF Spec, ImplementsFlatMemory, F!FlatSpec

-----------------------------------------------------------------------------
(* No frame of the swap device is lost *)

SwpUsed(f) ==
  \/ f \in swpFree
  \/ \E p \in Proc : spare[p] = f
  \/ \E p \in Proc : \E q \in Nat : SwpPage(f, p, q)

\* A step that leaves the swap device and what p has on it as they are.
SwpStill(p) ==
  /\ swpFree' = swpFree /\ pgd'[p] = pgd[p] /\ spare'[p] = spare[p]
  /\ ipc'[p] # "settle"

\* A frame stays in use if p's use of it does, or becomes another one.
LEMMA SwpStaysUsed ==
  ASSUME NEW p \in Proc, Others(p), NEW f \in SwpFrame, SwpUsed(f),
         f \in swpFree => SwpUsed(f)',
         spare[p] = f => SwpUsed(f)',
         \A q \in Nat : SwpPage(f, p, q) => SwpUsed(f)'
  PROVE  SwpUsed(f)'
<1>1. ASSUME NEW d \in Proc \ {p}, spare[d] = f  PROVE SwpUsed(f)'
  BY <1>1 DEF Others, Keeps, SwpUsed
<1>2. ASSUME NEW d \in Proc \ {p}, NEW q \in Nat, SwpPage(f, d, q)  PROVE SwpUsed(f)'
  BY <1>2, KeptUses DEF Others, SwpUsed
<1> QED  BY <1>1, <1>2 DEF SwpUsed

LEMMA StillUsed ==
  ASSUME NEW p \in Proc, LocalInv(p), Others(p), SwpStill(p),
         NEW f \in SwpFrame, SwpUsed(f)
  PROVE  SwpUsed(f)'
<1>1. 0 \notin Pages(p) /\ Pages(p)' = Pages(p)
  BY DEF LocalInv, TypesRight, Pages, SwpStill
<1>2. ASSUME NEW q \in Nat, SwpPage(f, p, q)  PROVE SwpPage(f, p, q)'
  BY <1>1, <1>2 DEF SwpPage, SwpStill, Leaving
<1> QED  BY <1>2, SwpStaysUsed DEF SwpUsed, SwpStill

\* Between an exchange and the next one no swap frame is spare.
LEMMA ReturnStill ==
  ASSUME Domains, NEW p \in Proc, LocalInv(p), NEW r, Return(p, r),
         swpFree' = swpFree, pgd'[p] = pgd[p],
         ipc[p] \notin {"copyout", "copyin", "putswp", "settle", "acopy", "aclean"}
  PROVE  SwpStill(p)
<1>1. spare[p] = None
  BY DEF LocalInv, VictimRight
<1> QED  BY <1>1, ReturnDoes DEF SwpStill, Returned

LEMMA StartStill ==
  ASSUME Domains, NEW p \in Proc, LocalInv(p), Start(p)
  PROVE  SwpStill(p)
<1>1. ASSUME NEW i, NEW next \in {"access", "count"}, Begin(p, i, next), ipc[p] = "idle"
      PROVE  SwpStill(p)
  <2>1. CASE /\ UNCHANGED <<devVars, tabVars, vic, spare, got, avail, result>>
             /\ Goto(p, next)
    BY <1>1, <2>1 DEF SwpStill, devVars, tabVars, Goto, Domains
  <2>2. CASE Return(p, "error") /\ UNCHANGED <<devVars, tabVars>>
    BY <1>1, <2>2, ReturnStill DEF devVars, tabVars
  <2>3. CASE UNCHANGED <<devVars, pgd, spare, got, avail, result>> /\ Goto(p, "getswp")
    BY <1>1, <2>3 DEF SwpStill, devVars, Goto, Domains
  <2> QED  BY <1>1, <2>1, <2>2, <2>3 DEF Begin
<1>2. CASE \E q \in 1 .. MaxPages : StartRead(p, q)
  BY <1>1, <1>2 DEF StartRead
<1>3. CASE \E q \in 1 .. MaxPages, d \in Data : StartWrite(p, q, d)
  BY <1>1, <1>3 DEF StartWrite
<1>4. CASE \E q \in 1 .. MaxPages + 1, n \in 1 .. MaxPages : StartAlloc(p, q, n)
  BY <1>1, <1>4 DEF StartAlloc
<1> QED  BY <1>2, <1>3, <1>4 DEF Start

LEMMA ContinueStill ==
  ASSUME Domains, NEW p \in Proc, LocalInv(p),
         \/ CopyOut(p, "copyout", "copyin") \/ CopyOut(p, "acopy", "aclean")
         \/ CopyIn(p) \/ Access(p)
         \/ CountFree(p) \/ Decide(p) \/ TakeFreeFrame(p) \/ TakeVictimFrame(p)
  PROVE  SwpStill(p)
<1> USE DEF SwpStill, devVars, tabVars, locVars, Goto, Domains
<1>1. CASE CopyOut(p, "copyout", "copyin") \/ CopyOut(p, "acopy", "aclean")
  BY <1>1 DEF CopyOut
<1>2. CASE CopyIn(p) \/ CountFree(p)
  BY <1>2 DEF CopyIn, CountFree
<1>3. CASE Access(p)
  BY <1>3, ReturnStill DEF Access
<1>4. CASE Decide(p)
  <2>1. CASE Return(p, "error")
    BY <1>4, <2>1, ReturnStill DEF Decide
  <2>2. CASE Goto(p, "loop") /\ UNCHANGED locVars
    BY <1>4, <2>2 DEF Decide
  <2> QED  BY <1>4, <2>1, <2>2 DEF Decide
<1>5. CASE TakeFreeFrame(p)
  BY <1>5 DEF TakeFreeFrame
<1>6. CASE TakeVictimFrame(p)
  <2>1. CASE Return(p, "error")
    BY <1>6, <2>1, ReturnStill DEF TakeVictimFrame
  <2>2. CASE Goto(p, "aswp") /\ UNCHANGED <<ins, spare, got, avail, result>>
    BY <1>6, <2>2 DEF TakeVictimFrame
  <2> QED  BY <1>6, <2>1, <2>2 DEF TakeVictimFrame
<1> QED  BY <1>1, <1>2, <1>3, <1>4, <1>5, <1>6

\* A free frame is spare next, or stays free.
LEMMA GetSwapFrameUsed ==
  ASSUME Domains, NEW p \in Proc, LocalInv(p), Others(p),
         NEW here \in {"getswp", "aswp"}, NEW next \in {"copyout", "acopy"},
         GetSwapFrame(p, here, next), NEW f \in SwpFrame, SwpUsed(f)
  PROVE  SwpUsed(f)'
<1>1. pgd'[p] = pgd[p] /\ spare[p] = None /\ ipc[p] = here
  BY DEF GetSwapFrame, tabVars, LocalInv, VictimRight
<1>2. CASE Return(p, "error") /\ UNCHANGED swpFree
  BY <1>1, <1>2, ReturnStill, StillUsed
<1>3. ASSUME NEW g \in swpFree, spare' = [spare EXCEPT ![p] = g],
             swpFree' = swpFree \ {g}, Goto(p, next)
      PROVE  SwpUsed(f)'
  <2>1. spare'[p] = g /\ ipc'[p] = next
    BY <1>3 DEF Domains, Goto
  <2>2. 0 \notin Pages(p) /\ Pages(p)' = Pages(p)
    BY <1>1 DEF LocalInv, TypesRight, Pages
  <2>3. ASSUME NEW q \in Nat, SwpPage(f, p, q)  PROVE SwpPage(f, p, q)'
    BY <1>1, <2>1, <2>2, <2>3 DEF SwpPage, Leaving
  <2>4. f \in swpFree => SwpUsed(f)'
    BY <1>3, <2>1 DEF SwpUsed
  <2>5. spare[p] # f
    BY <1>1, PagingAssumption
  <2> QED  BY <2>3, <2>4, <2>5, SwpStaysUsed DEF SwpUsed
<1> QED  BY <1>2, <1>3 DEF GetSwapFrame

\* The frame the target leaves is free next.
LEMMA PutSwapFrameUsed ==
  ASSUME Domains, NEW p \in Proc, LocalInv(p), Others(p), PutSwapFrame(p),
         NEW f \in SwpFrame, SwpUsed(f)
  PROVE  SwpUsed(f)'
<1> DEFINE t == ins[p].page
<1>1. /\ ipc'[p] = "settle" /\ swpFree' = swpFree \cup {pgd[p][t].frame}
      /\ pgd'[p] = pgd[p] /\ ins'[p] = ins[p] /\ spare'[p] = spare[p]
  BY DEF PutSwapFrame, Domains, Goto, tabVars, locVars
<1>2. ASSUME NEW q \in Nat, SwpPage(f, p, q)  PROVE SwpUsed(f)'
  <2>1. CASE q = t
    BY <1>1, <1>2, <2>1 DEF SwpPage, SwpUsed
  <2>2. CASE q # t
    <3>1. SwpPage(f, p, q)'
      BY <1>1, <1>2, <2>2 DEF SwpPage, Leaving, Pages
    <3> QED  BY <3>1 DEF SwpUsed
  <2> QED  BY <2>1, <2>2
<1> QED  BY <1>1, <1>2, SwpStaysUsed DEF SwpUsed

\* The spare frame is the victim's next.
LEMMA VictimKeepsSpare ==
  ASSUME NEW p \in Proc, Others(p), NEW f \in SwpFrame, SwpUsed(f),
         swpFree' = swpFree,
         spare[p] = f => \E q \in Nat : SwpPage(f, p, q)',
         \A q \in Nat : SwpPage(f, p, q) => SwpPage(f, p, q)'
  PROVE  SwpUsed(f)'
BY SwpStaysUsed DEF SwpUsed

LEMMA SettleUsed ==
  ASSUME Domains, NEW p \in Proc, LocalInv(p), Others(p), Settle(p),
         NEW f \in SwpFrame, SwpUsed(f)
  PROVE  SwpUsed(f)'
<1> DEFINE t == ins[p].page
<1> SUFFICES ASSUME NEW v \in Nat, v = vic[p]  PROVE SwpUsed(f)'
  BY DEF LocalInv, TypesRight
<1>1. /\ ipc[p] = "settle" /\ ipc'[p] # "settle" /\ v \in Pages(p) /\ pgd[p][v].present
      /\ Len(pgd'[p]) = Len(pgd[p]) /\ pgd'[p][v] = InSwap(spare[p])
      /\ \A q \in Pages(p) \ {v, t} : pgd'[p][q] = pgd[p][q]
  BY SettleDoes
<1>2. swpFree' = swpFree /\ pgd[p] \in Seq(Entry)
  BY DEF Settle, devVars, LocalInv, TypesRight
<1>3. Pages(p)' = Pages(p) /\ 0 \notin Pages(p)
  BY <1>1, <1>2 DEF Pages
<1>4. ~pgd'[p][v].present /\ pgd'[p][v].frame = spare[p]
  BY <1>1 DEF InSwap
<1>5. spare[p] = f => SwpPage(f, p, v)'
  BY <1>1, <1>3, <1>4 DEF SwpPage, Leaving
<1>6. \A q \in Nat : SwpPage(f, p, q) => SwpPage(f, p, q)'
  BY <1>1, <1>3 DEF SwpPage, Leaving
<1> QED  BY <1>2, <1>3, <1>5, <1>6, VictimKeepsSpare

LEMMA EvictUsed ==
  ASSUME Domains, NEW p \in Proc, LocalInv(p), Others(p), Evict(p),
         NEW f \in SwpFrame, SwpUsed(f)
  PROVE  SwpUsed(f)'
<1> SUFFICES ASSUME NEW v \in Nat, v = vic[p]  PROVE SwpUsed(f)'
  BY DEF LocalInv, TypesRight
<1>1. /\ ipc[p] = "aclean" /\ ipc'[p] = "loop" /\ v \in Pages(p) /\ pgd[p][v].present
      /\ Len(pgd'[p]) = Len(pgd[p])
      /\ ~pgd'[p][v].present /\ pgd'[p][v].frame = spare[p]
      /\ \A q \in Pages(p) \ {v} : pgd'[p][q] = pgd[p][q]
  BY EvictDoes
<1>2. swpFree' = swpFree /\ pgd[p] \in Seq(Entry)
  BY DEF Evict, LocalInv, TypesRight
<1>3. Pages(p)' = Pages(p) /\ 0 \notin Pages(p)
  BY <1>1, <1>2 DEF Pages
<1>4. spare[p] = f => SwpPage(f, p, v)'
  BY <1>1, <1>3 DEF SwpPage, Leaving
<1>5. \A q \in Nat : SwpPage(f, p, q) => SwpPage(f, p, q)'
  BY <1>1, <1>3 DEF SwpPage, Leaving
<1> QED  BY <1>2, <1>3, <1>4, <1>5, VictimKeepsSpare

LEMMA MapPagesUsed ==
  ASSUME Domains, NEW p \in Proc, LocalInv(p), Others(p), MapPages(p),
         NEW f \in SwpFrame, SwpUsed(f)
  PROVE  SwpUsed(f)'
<1> DEFINE m == Len(pgd[p])
           n == Len(got[p])
<1>1. /\ m \in Nat /\ n \in Nat /\ Len(pgd'[p]) = m + n
      /\ \A q \in 1 .. m : pgd'[p][q] = pgd[p][q]
      /\ ipc[p] = "loop" /\ ipc'[p] = "idle"
  BY MapPagesDoes DEF Returned
<1>2. swpFree' = swpFree /\ spare[p] = None
  BY <1>1 DEF MapPages, devVars, LocalInv, VictimRight
<1>3. Pages(p) = 1 .. m
  BY DEF Pages
<1> HIDE DEF m, n
<1>4. \A q \in 1 .. m : q \in 1 .. m + n /\ q # 0
  BY <1>1
<1>5. \A q \in Nat : SwpPage(f, p, q) => SwpPage(f, p, q)'
  BY <1>1, <1>3, <1>4 DEF SwpPage, Leaving, Pages
<1>6. spare[p] # f
  BY <1>2, PagingAssumption
<1> QED  BY <1>2, <1>5, <1>6, VictimKeepsSpare

LEMMA SwpUsedKept ==
  ASSUME Inv, NEW p \in Proc, Start(p) \/ Continue(p), NEW f \in SwpFrame, SwpUsed(f)
  PROVE  SwpUsed(f)'
<1>1. Domains /\ LocalInv(p) /\ Others(p)
  BY StartAlone, ContinueAlone DEF Inv
<1>2. CASE SwpStill(p)
  BY <1>1, <1>2, StillUsed
<1>3. CASE GetSwapFrame(p, "getswp", "copyout")  BY <1>1, <1>3, GetSwapFrameUsed
<1>4. CASE GetSwapFrame(p, "aswp", "acopy")      BY <1>1, <1>4, GetSwapFrameUsed
<1>5. CASE PutSwapFrame(p)    BY <1>1, <1>5, PutSwapFrameUsed
<1>6. CASE Settle(p)          BY <1>1, <1>6, SettleUsed
<1>7. CASE Evict(p)           BY <1>1, <1>7, EvictUsed
<1>8. CASE MapPages(p)        BY <1>1, <1>8, MapPagesUsed
<1> QED  BY <1>1, <1>2, <1>3, <1>4, <1>5, <1>6, <1>7, <1>8, StartStill, ContinueStill
         DEF Continue

SwpAllUsed == \A f \in SwpFrame : SwpUsed(f)

LEMMA SwpAllUsedKept == Inv /\ SwpAllUsed /\ [Next]_vars => SwpAllUsed'
<1> SUFFICES ASSUME Inv, SwpAllUsed, [Next]_vars, NEW f \in SwpFrame  PROVE SwpUsed(f)'
  BY DEF SwpAllUsed
<1>1. SwpUsed(f)
  BY DEF SwpAllUsed
<1>2. CASE UNCHANGED vars
  <2>1. \A d \in Proc : Keeps(d)
    BY <1>2 DEF Keeps, vars, tabVars, locVars
  <2> QED  BY <1>1, <1>2, <2>1, KeptUses DEF SwpUsed, vars, devVars, locVars
<1> QED  BY <1>1, <1>2, SwpUsedKept DEF Next

-----------------------------------------------------------------------------
(* The swap device does not run full when it has a frame for every page *)

SwapSuffices == Cardinality(SwpFrame) >= Cardinality(Proc) * MaxPages

Slots == Proc \X (1 .. MaxPages)

\* The page a frame of a full swap device is for.
PageOf(f, s) ==
  /\ s \in Slots
  /\ \/ SwpPage(f, s[1], s[2])
     \/ spare[s[1]] = f /\ s[2] = vic[s[1]]

LEMMA PageOfOne ==
  ASSUME Inv, NEW f \in SwpFrame, NEW g \in SwpFrame, NEW s, PageOf(f, s), PageOf(g, s)
  PROVE  f = g
<1>1. PICK p \in Proc, q \in 1 .. MaxPages : s = <<p, q>>
  BY DEF PageOf, Slots
<1>2. LocalInv(p)
  BY DEF Inv
<1>3. ASSUME NEW h, SwpPage(h, p, q)  PROVE ~pgd[p][q].present /\ pgd[p][q].frame = h
  BY <1>3 DEF SwpPage
<1>4. ASSUME NEW h \in SwpFrame, spare[p] = h  PROVE pgd[p][vic[p]].present
  BY <1>2, <1>4, PagingAssumption DEF LocalInv, VictimRight, Exchanging, Evicting
<1>5. /\ SwpPage(f, p, q) \/ (spare[p] = f /\ q = vic[p])
      /\ SwpPage(g, p, q) \/ (spare[p] = g /\ q = vic[p])
  BY <1>1 DEF PageOf
<1> QED  BY <1>3, <1>4, <1>5

\* Every page of every process could be on the swap device, but the victim
\* that a frame is wanted for is still in RAM.
LEMMA SwapNotFull ==
  ASSUME Inv, SwpAllUsed, SwapSuffices, \A d \in Proc : OpRight(d),
         NEW p \in Proc, ipc[p] \in {"getswp", "aswp"}
  PROVE  swpFree # {}
<1> SUFFICES ASSUME swpFree = {}  PROVE FALSE
  OBVIOUS
<1> DEFINE own == <<p, vic[p]>>
<1>1. MaxPages \in Nat /\ IsFiniteSet(Proc) /\ IsFiniteSet(SwpFrame)
  BY PagingAssumption
<1>2. /\ IsFiniteSet(1 .. MaxPages) /\ Cardinality(1 .. MaxPages) = MaxPages
      /\ Cardinality(Proc) \in Nat
  <2>1. /\ IsFiniteSet(1 .. MaxPages)
        /\ Cardinality(1 .. MaxPages) = IF 1 > MaxPages THEN 0 ELSE MaxPages - 1 + 1
    BY <1>1, FS_Interval
  <2>2. MaxPages = 0 \/ ~(1 > MaxPages)
    BY <1>1
  <2> QED  BY <1>1, <2>1, <2>2, FS_CardinalityType
<1>3. IsFiniteSet(Slots) /\ Cardinality(Slots) = Cardinality(Proc) * MaxPages
  BY <1>1, <1>2, FS_Product DEF Slots
<1>4. \A d \in Proc : \A q \in Pages(d) : q \in 1 .. MaxPages
  <2> TAKE d \in Proc
  <2>1. Len(pgd[d]) <= MaxPages /\ Len(pgd[d]) \in Nat
    BY DEF OpRight, Inv, LocalInv, TypesRight
  <2> QED  BY <1>1, <2>1 DEF Pages
<1>5. LocalInv(p) /\ spare[p] = None /\ vic[p] \in Pages(p) /\ pgd[p][vic[p]].present
  BY DEF Inv, LocalInv, VictimRight, Exchanging, Evicting
<1>6. own \in Slots
  BY <1>4, <1>5 DEF Slots
<1>7. \A f \in SwpFrame : \E s \in Slots \ {own} : PageOf(f, s)
  <2> TAKE f \in SwpFrame
  <2>1. CASE \E d \in Proc : spare[d] = f
    <3> PICK d \in Proc : spare[d] = f
      BY <2>1
    <3>1. d # p
      BY <1>5, PagingAssumption
    <3>2. LocalInv(d) /\ vic[d] \in Pages(d)
      BY PagingAssumption DEF Inv, LocalInv, VictimRight, Exchanging, Evicting
    <3>3. <<d, vic[d]>> \in Slots \ {own}
      BY <1>4, <3>1, <3>2 DEF Slots
    <3>4. PageOf(f, <<d, vic[d]>>)
      BY <3>3 DEF PageOf
    <3> QED  BY <3>3, <3>4
  <2>2. CASE \E d \in Proc : \E q \in Nat : SwpPage(f, d, q)
    <3> PICK d \in Proc, q \in Nat : SwpPage(f, d, q)
      BY <2>2
    <3>1. q \in Pages(d) /\ ~pgd[d][q].present
      BY DEF SwpPage
    <3>2. <<d, q>> \in Slots \ {own}
      BY <1>4, <1>5, <3>1 DEF Slots
    <3>3. PageOf(f, <<d, q>>)
      BY <3>2 DEF PageOf
    <3> QED  BY <3>2, <3>3
  <2> QED  BY <2>1, <2>2 DEF SwpAllUsed, SwpUsed
<1> HIDE DEF own
<1> DEFINE page == [f \in SwpFrame |-> CHOOSE s \in Slots \ {own} : PageOf(f, s)]
<1>8. \A f \in SwpFrame : page[f] \in Slots \ {own} /\ PageOf(f, page[f])
  BY <1>7
<1>9. page \in [SwpFrame -> Slots \ {own}]
  <2>1. \A f \in SwpFrame : page[f] \in Slots \ {own}
    BY <1>8
  <2>2. page = [f \in SwpFrame |-> page[f]]
    OBVIOUS
  <2> HIDE DEF page
  <2> QED  BY <2>1, <2>2
<1> HIDE DEF page
<1>10. page \in Injection(SwpFrame, Slots \ {own})
  BY <1>8, <1>9, PageOfOne DEF Injection, IsInjective
<1>11. IsFiniteSet(Slots \ {own}) /\ Cardinality(Slots \ {own}) = Cardinality(Slots) - 1
  BY <1>3, <1>6, FS_RemoveElement
<1>12. Cardinality(SwpFrame) <= Cardinality(Slots \ {own})
  BY <1>10, <1>11, FS_Injection DEF ExistsInjection
<1>13. Cardinality(SwpFrame) \in Nat /\ Cardinality(Proc) * MaxPages \in Nat
  BY <1>1, <1>2, <1>3, FS_CardinalityType
<1> QED  BY <1>3, <1>11, <1>12, <1>13 DEF SwapSuffices

-----------------------------------------------------------------------------
(* No page in RAM is missing in the list *)

Enlisted(p, q) == \E k \in 1 .. Len(fifo[p]) : fifo[p][k] = q

AllEnlisted(p) ==
  \A q \in Pages(p) : pgd[p][q].present => q = vic[p] \/ Enlisted(p, q)

LEMMA StayEnlisted ==
  ASSUME NEW p \in Proc, AllEnlisted(p), pgd'[p] = pgd[p], fifo'[p] = fifo[p],
         vic'[p] = vic[p]
  PROVE  AllEnlisted(p)'
  BY DEF AllEnlisted, Enlisted, Pages

LEMMA ReturnEnlisted ==
  ASSUME Domains, NEW p \in Proc, LocalInv(p), AllEnlisted(p),
         ipc[p] \notin Exchanging \cup Evicting, NEW r, Return(p, r),
         pgd'[p] = pgd[p], fifo'[p] = fifo[p]
  PROVE  AllEnlisted(p)'
<1>1. vic[p] = 0
  BY DEF LocalInv, VictimRight
<1> QED  BY <1>1, ReturnDoes, StayEnlisted DEF Returned

LEMMA TakeEnlisted ==
  ASSUME Domains, NEW p \in Proc, LocalInv(p), AllEnlisted(p),
         ipc[p] \notin Exchanging \cup Evicting,
         NEW x, NEW k \in Victims(p, x), TakeVictim(p, k), pgd'[p] = pgd[p]
  PROVE  AllEnlisted(p)'
<1>1. vic[p] = 0 /\ pgd[p] \in Seq(Entry) /\ fifo[p] \in Seq(Nat)
  BY DEF LocalInv, VictimRight, TypesRight
<1>2. k \in 1 .. Len(fifo[p])
  BY <1>1 DEF Victims
<1>3. vic'[p] = fifo[p][k] /\ fifo'[p] = RemoveAt(fifo[p], k)
  BY DEF TakeVictim, Domains
<1>4. /\ Len(fifo'[p]) = Len(fifo[p]) - 1 /\ Len(fifo[p]) \in Nat
      /\ \A j \in 1 .. Len(fifo[p]) - 1 :
           fifo'[p][j] = fifo[p][IF j < k THEN j ELSE j + 1]
  <2>1. Len(fifo[p]) \in Nat
    BY <1>1
  <2>2. \A s \in Seq(Nat) : \A i \in 1 .. Len(s) :
          /\ Len(RemoveAt(s, i)) = Len(s) - 1
          /\ \A j \in 1 .. Len(s) - 1 :
               RemoveAt(s, i)[j] = s[IF j < i THEN j ELSE j + 1]
    BY Removed
  <2>3. fifo[p] \in Seq(Nat) /\ k \in 1 .. Len(fifo[p])
    BY <1>1, <1>2
  <2>4. /\ Len(RemoveAt(fifo[p], k)) = Len(fifo[p]) - 1
        /\ \A j \in 1 .. Len(fifo[p]) - 1 :
             RemoveAt(fifo[p], k)[j] = fifo[p][IF j < k THEN j ELSE j + 1]
    BY <2>2, <2>3, Zenon
  <2> QED  BY <1>3, <2>1, <2>4, Zenon
<1>5. ASSUME NEW j \in 1 .. Len(fifo[p]), j # k
      PROVE  \E i \in 1 .. Len(fifo'[p]) : fifo'[p][i] = fifo[p][j]
  <2>1. CASE j < k
    <3>1. j \in 1 .. Len(fifo[p]) - 1
      BY <1>2, <1>4, <2>1
    <3> QED  BY <1>4, <2>1, <3>1
  <2>2. CASE ~(j < k)
    <3>1. /\ j - 1 \in 1 .. Len(fifo[p]) - 1 /\ ~(j - 1 < k) /\ (j - 1) + 1 = j
      BY <1>2, <1>4, <1>5, <2>2
    <3>2. fifo'[p][j - 1] = fifo[p][j]
      BY <1>4, <3>1
    <3> QED  BY <1>4, <3>1, <3>2
  <2> QED  BY <2>1, <2>2
<1>6. ASSUME NEW q \in Pages(p), pgd[p][q].present
      PROVE  q = vic'[p] \/ Enlisted(p, q)'
  <2>1. q # 0
    BY <1>1 DEF Pages
  <2>2. PICK j \in 1 .. Len(fifo[p]) : fifo[p][j] = q
    BY <1>1, <1>6, <2>1 DEF AllEnlisted, Enlisted
  <2> QED  BY <1>3, <1>5, <2>2 DEF Enlisted
<1> QED  BY <1>6 DEF AllEnlisted, Pages

LEMMA StartEnlisted ==
  ASSUME Domains, NEW p \in Proc, LocalInv(p), AllEnlisted(p), Start(p)
  PROVE  AllEnlisted(p)'
<1>1. ASSUME NEW i, NEW next, Begin(p, i, next), ipc[p] = "idle"
      PROVE  AllEnlisted(p)'
  <2>1. CASE UNCHANGED <<devVars, tabVars, vic, spare, got, avail, result>>
    BY <2>1, StayEnlisted DEF tabVars
  <2>2. CASE Return(p, "error") /\ UNCHANGED <<devVars, tabVars>>
    BY <1>1, <2>2, ReturnEnlisted DEF tabVars, Exchanging, Evicting
  <2>3. CASE (\E k \in Victims(p, 0) : TakeVictim(p, k)) /\ pgd' = pgd
    BY <1>1, <2>3, TakeEnlisted DEF Exchanging, Evicting
  <2> QED  BY <1>1, <2>1, <2>2, <2>3 DEF Begin
<1>2. CASE \E q \in 1 .. MaxPages : StartRead(p, q)
  BY <1>1, <1>2 DEF StartRead
<1>3. CASE \E q \in 1 .. MaxPages, d \in Data : StartWrite(p, q, d)
  BY <1>1, <1>3 DEF StartWrite
<1>4. CASE \E q \in 1 .. MaxPages + 1, n \in 1 .. MaxPages : StartAlloc(p, q, n)
  BY <1>1, <1>4 DEF StartAlloc
<1> QED  BY <1>2, <1>3, <1>4 DEF Start

LEMMA SettleEnlisted ==
  ASSUME Domains, NEW p \in Proc, LocalInv(p), AllEnlisted(p), Settle(p)
  PROVE  AllEnlisted(p)'
<1> SUFFICES ASSUME NEW q \in Pages(p)', pgd'[p][q].present
             PROVE  Enlisted(p, q)'
  BY DEF AllEnlisted
<1>1. /\ Len(pgd'[p]) = Len(pgd[p]) /\ pgd'[p][vic[p]] = InSwap(spare[p])
      /\ \A r \in Pages(p) \ {vic[p], ins[p].page} : pgd'[p][r] = pgd[p][r]
      /\ fifo'[p] = Append(fifo[p], ins[p].page)
  BY SettleDoes
<1>2. fifo[p] \in Seq(Nat) /\ ins[p].page \in Nat
  BY DEF LocalInv, TypesRight
<1>3. /\ Len(fifo'[p]) = Len(fifo[p]) + 1 /\ Len(fifo[p]) \in Nat
      /\ fifo'[p][Len(fifo[p]) + 1] = ins[p].page
      /\ \A k \in 1 .. Len(fifo[p]) : fifo'[p][k] = fifo[p][k]
  BY <1>1, <1>2
<1>4. \A k \in 1 .. Len(fifo[p]) : k \in 1 .. Len(fifo'[p])
  BY <1>3
<1>5. Len(fifo[p]) + 1 \in 1 .. Len(fifo'[p])
  BY <1>3
<1>6. CASE q = ins[p].page
  BY <1>3, <1>5, <1>6 DEF Enlisted
<1>7. CASE q # ins[p].page
  <2>1. q # vic[p] /\ q \in Pages(p)
    BY <1>1 DEF InSwap, Pages
  <2>2. Enlisted(p, q)
    BY <1>1, <1>7, <2>1 DEF AllEnlisted
  <2> QED  BY <1>3, <1>4, <2>2 DEF Enlisted
<1> QED  BY <1>6, <1>7

LEMMA EvictEnlisted ==
  ASSUME Domains, NEW p \in Proc, LocalInv(p), AllEnlisted(p), Evict(p)
  PROVE  AllEnlisted(p)'
<1> SUFFICES ASSUME NEW q \in Pages(p)', pgd'[p][q].present
             PROVE  Enlisted(p, q)'
  BY DEF AllEnlisted
<1>1. /\ Len(pgd'[p]) = Len(pgd[p]) /\ ~pgd'[p][vic[p]].present
      /\ \A r \in Pages(p) \ {vic[p]} : pgd'[p][r] = pgd[p][r]
      /\ fifo'[p] = fifo[p]
  BY EvictDoes
<1>2. q # vic[p] /\ q \in Pages(p)
  BY <1>1 DEF Pages
<1> QED  BY <1>1, <1>2 DEF AllEnlisted, Enlisted

LEMMA MapPagesEnlisted ==
  ASSUME Domains, NEW p \in Proc, LocalInv(p), AllEnlisted(p), MapPages(p)
  PROVE  AllEnlisted(p)'
<1> SUFFICES ASSUME NEW q \in Pages(p)', pgd'[p][q].present
             PROVE  Enlisted(p, q)'
  BY DEF AllEnlisted
<1> DEFINE m == Len(pgd[p])
           n == Len(got[p])
           l == Len(fifo[p])
<1>1. /\ m \in Nat /\ n \in Nat /\ l \in Nat /\ ipc[p] = "loop"
      /\ Len(pgd'[p]) = m + n /\ Len(fifo'[p]) = l + n
      /\ \A r \in 1 .. m : pgd'[p][r] = pgd[p][r]
      /\ \A k \in 1 .. l : fifo'[p][k] = fifo[p][k]
      /\ \A i \in 1 .. n : fifo'[p][l + i] = m + i
  BY MapPagesDoes
<1>2. vic[p] = 0
  BY <1>1 DEF LocalInv, VictimRight, Exchanging, Evicting
<1>3. Pages(p) = 1 .. m /\ l = Len(fifo[p]) /\ q \in 1 .. m + n
  BY <1>1 DEF Pages
<1> HIDE DEF m, n, l
<1>4. CASE q \in 1 .. m
  <2>1. q # 0 /\ pgd[p][q].present
    BY <1>1, <1>4
  <2>2. PICK k \in 1 .. l : fifo[p][k] = q
    BY <1>2, <1>3, <1>4, <2>1 DEF AllEnlisted, Enlisted
  <2>3. k \in 1 .. l + n /\ fifo'[p][k] = q
    BY <1>1, <2>2
  <2> QED  BY <1>1, <2>3 DEF Enlisted
<1>5. CASE q \notin 1 .. m
  <2>1. q - m \in 1 .. n /\ m + (q - m) = q /\ l + (q - m) \in 1 .. l + n
    BY <1>1, <1>3, <1>5
  <2>2. fifo'[p][l + (q - m)] = q
    BY <1>1, <2>1
  <2> QED  BY <1>1, <2>1, <2>2 DEF Enlisted
<1> QED  BY <1>4, <1>5

LEMMA ContinueEnlisted ==
  ASSUME Inv, SwpAllUsed, SwapSuffices, \A d \in Proc : OpRight(d),
         NEW p \in Proc, AllEnlisted(p), Continue(p)
  PROVE  AllEnlisted(p)'
<1>1. Domains /\ LocalInv(p)
  BY DEF Inv
<1>2. ASSUME NEW here \in {"getswp", "aswp"}, NEW next, GetSwapFrame(p, here, next)
      PROVE  AllEnlisted(p)'
  <2>1. swpFree # {} /\ pgd' = pgd /\ fifo' = fifo
    BY <1>2, SwapNotFull DEF GetSwapFrame, tabVars
  <2>2. vic' = vic
    BY <1>2, <2>1 DEF GetSwapFrame
  <2> QED  BY <2>1, <2>2, StayEnlisted
<1>3. CASE \/ CopyOut(p, "copyout", "copyin") \/ CopyOut(p, "acopy", "aclean")
           \/ CopyIn(p) \/ PutSwapFrame(p) \/ CountFree(p) \/ TakeFreeFrame(p)
  BY <1>3, StayEnlisted
  DEF CopyOut, CopyIn, PutSwapFrame, CountFree, TakeFreeFrame, tabVars, locVars
<1>4. CASE Access(p)
  BY <1>1, <1>4, ReturnEnlisted DEF Access, tabVars, Exchanging, Evicting
<1>5. CASE Decide(p)
  <2>1. CASE Return(p, "error")
    BY <1>1, <1>5, <2>1, ReturnEnlisted DEF Decide, tabVars, Exchanging, Evicting
  <2>2. CASE UNCHANGED locVars
    BY <1>5, <2>2, StayEnlisted DEF Decide, tabVars, locVars
  <2> QED  BY <1>5, <2>1, <2>2 DEF Decide
<1>6. CASE TakeVictimFrame(p)
  <2>1. CASE Return(p, "error") /\ UNCHANGED fifo
    BY <1>1, <1>6, <2>1, ReturnEnlisted DEF TakeVictimFrame, Exchanging, Evicting
  <2>2. CASE \E k \in Victims(p, ins[p].page) : TakeVictim(p, k)
    BY <1>1, <1>6, <2>2, TakeEnlisted DEF TakeVictimFrame, Exchanging, Evicting
  <2> QED  BY <1>6, <2>1, <2>2 DEF TakeVictimFrame
<1>7. CASE Settle(p)    BY <1>1, <1>7, SettleEnlisted
<1>8. CASE Evict(p)     BY <1>1, <1>8, EvictEnlisted
<1>9. CASE MapPages(p)  BY <1>1, <1>9, MapPagesEnlisted
<1> QED  BY <1>2, <1>3, <1>4, <1>5, <1>6, <1>7, <1>8, <1>9 DEF Continue

ListsRight == SwapSuffices => \A p \in Proc : AllEnlisted(p)

LEMMA ListsKept ==
  Inv /\ DataInv /\ SwpAllUsed /\ ListsRight /\ [Next]_vars => ListsRight'
<1> SUFFICES ASSUME Inv, DataInv, SwpAllUsed, ListsRight, [Next]_vars, SwapSuffices,
                    NEW d \in Proc
             PROVE  AllEnlisted(d)'
  BY DEF ListsRight, SwapSuffices
<1>1. AllEnlisted(d)
  BY DEF ListsRight
<1>2. CASE Keeps(d)
  BY <1>1, <1>2, StayEnlisted DEF Keeps
<1>3. CASE UNCHANGED vars
  BY <1>2, <1>3 DEF Keeps, vars, tabVars, locVars
<1>4. ASSUME NEW p \in Proc, Start(p) \/ Continue(p)
      PROVE  AllEnlisted(d)'
  <2>1. Domains /\ LocalInv(d) /\ Others(p)
    BY <1>4, StartAlone, ContinueAlone DEF Inv
  <2>2. CASE d # p
    BY <1>2, <2>1, <2>2 DEF Others
  <2>3. CASE d = p
    BY <1>1, <1>4, <2>1, <2>3, StartEnlisted, ContinueEnlisted DEF DataInv
  <2> QED  BY <2>2, <2>3
<1> QED  BY <1>3, <1>4 DEF Next

LEMMA ListsInit == Init => SwpAllUsed /\ ListsRight
<1> SUFFICES ASSUME Init  PROVE SwpAllUsed /\ ListsRight
  OBVIOUS
<1>1. \A p \in Proc : Pages(p) = {}
  BY DEF Init, Pages
<1> QED  BY <1>1 DEF Init, SwpAllUsed, SwpUsed, ListsRight, AllEnlisted

\* The list of every process has each page once and none that is not in RAM,
\* and, as long as the swap device has a frame for every page, every one that
\* is (mm-vm.c, enlist_pgn_node and find_victim_page).
THEOREM ListRight == Spec => []FifoRight
<1>1. Inv /\ ListsRight => FifoRight
  <2> SUFFICES ASSUME Inv, ListsRight  PROVE FifoRight
    OBVIOUS
  <2>1. ASSUME NEW p \in Proc
        PROVE  /\ IsInjective(fifo[p]) /\ Listed(p) \subseteq Present(p)
               /\ AllEnlisted(p) => Present(p) \subseteq Listed(p)
    <3>1. LocalInv(p) /\ fifo[p] \in Seq(Nat) /\ pgd[p] \in Seq(Entry)
      BY DEF Inv, LocalInv, TypesRight
    <3>2. DOMAIN fifo[p] = 1 .. Len(fifo[p]) /\ DOMAIN pgd[p] = Pages(p) /\ 0 \notin Pages(p)
      BY <3>1 DEF Pages
    <3>3. IsInjective(fifo[p])
      BY <3>1, <3>2 DEF IsInjective, LocalInv, FifoOfPresent
    <3>4. \A k \in DOMAIN fifo[p] : fifo[p][k] \in Present(p)
      BY <3>1, <3>2 DEF LocalInv, FifoOfPresent, Present
    <3>5. vic[p] = 0 \/ vic[p] \in Present(p)
      BY <3>1, <3>2 DEF LocalInv, VictimRight, Present
    <3>6. Listed(p) \subseteq Present(p)
      BY <3>4, <3>5 DEF Listed
    <3>7. AllEnlisted(p) => Present(p) \subseteq Listed(p)
      BY <3>2 DEF AllEnlisted, Enlisted, Present, Listed
    <3> QED  BY <3>3, <3>6, <3>7
  <2> QED  BY <2>1 DEF FifoRight, AllPresentListed, ListsRight, SwapSuffices
<1> QED  BY <1>1, ListsInit, ListsKept, SwpAllUsedKept, DataInvariant, PTL DEF Spec

-----------------------------------------------------------------------------
(* A process that allocates alone has counted right *)

Taking == {"loop"} \cup Evicting

\* The frames a new variable still wants.
Wanted(p) == ins[p].n - Len(got[p])

\* What alloc_pages_range has counted is still there: free frames of RAM, or
\* victims and as many free frames of the swap device for them.
RoomRight(p) ==
  /\ ipc[p] \notin Taking => got[p] = <<>>
  /\ ipc[p] = "decide" => avail[p] = Cardinality(ramFree)
  /\ ipc[p] = "loop" =>
       LET more == Wanted(p) - Cardinality(ramFree) IN
       /\ Wanted(p) >= 0
       /\ more > 0 => more <= AvailableVictims(p) /\ more <= Cardinality(swpFree)
  /\ ipc[p] \in Evicting =>
       /\ ramFree = {} /\ Wanted(p) >= 1
       /\ Wanted(p) - 1 <= AvailableVictims(p)
       /\ Wanted(p) <= Cardinality(swpFree) + (IF ipc[p] = "aswp" THEN 0 ELSE 1)

LEMMA Counts ==
  ASSUME Inv
  PROVE  /\ IsFiniteSet(ramFree) /\ Cardinality(ramFree) \in Nat
         /\ IsFiniteSet(swpFree) /\ Cardinality(swpFree) \in Nat
         /\ \A f \in ramFree : Cardinality(ramFree \ {f}) = Cardinality(ramFree) - 1
         /\ \A f \in swpFree : Cardinality(swpFree \ {f}) = Cardinality(swpFree) - 1
         /\ ramFree = {} <=> Cardinality(ramFree) = 0
         /\ swpFree = {} <=> Cardinality(swpFree) = 0
<1>1. IsFiniteSet(ramFree) /\ IsFiniteSet(swpFree)
  BY PagingAssumption, FS_Subset DEF Inv
<1> QED  BY <1>1, FS_CardinalityType, FS_RemoveElement, FS_EmptySet

LEMMA RoomOutside ==
  ASSUME NEW p \in Proc, ipc'[p] \notin Taking \cup {"decide"}, got'[p] = <<>>
  PROVE  RoomRight(p)'
BY DEF RoomRight, Taking, Evicting

LEMMA RoomReturned ==
  ASSUME NEW p \in Proc, Returned(p)
  PROVE  RoomRight(p)'
BY RoomOutside DEF Returned, Taking, Evicting

LEMMA RoomTypes ==
  ASSUME Inv, NEW p \in Proc, OpRight(p)
  PROVE  /\ Len(got[p]) \in Nat /\ Len(fifo[p]) \in Nat /\ Len(pgd[p]) \in Nat
         /\ got[p] \in Seq(RamFrame) /\ fifo[p] \in Seq(Nat)
         /\ AvailableVictims(p) \in Int
         /\ ipc[p] \in Allocating => ins[p].op = "alloc" /\ ins[p].n \in Nat /\ Wanted(p) \in Int
<1>1. LocalInv(p)
  BY DEF Inv
<1>2. got[p] \in Seq(RamFrame) /\ fifo[p] \in Seq(Nat) /\ pgd[p] \in Seq(Entry)
  BY <1>1 DEF LocalInv, TypesRight
<1>3. ipc[p] \in Allocating => ins[p].op = "alloc" /\ ins[p].n \in Nat
  BY <1>1 DEF LocalInv, PageRight, TypesRight
<1> QED  BY <1>2, <1>3 DEF AvailableVictims, Wanted

\* The loop finds the victims that were counted.
LEMMA VictimThere ==
  ASSUME Inv, NEW p \in Proc, OpRight(p), ipc[p] = "loop", AvailableVictims(p) >= 1
  PROVE  Victims(p, ins[p].page) # {}
<1>1. Len(fifo[p]) \in Nat /\ Len(pgd[p]) \in Nat /\ fifo[p] \in Seq(Nat) /\ ins[p].page \in Nat
  BY RoomTypes DEF Inv, LocalInv, TypesRight
<1>2. DOMAIN fifo[p] = 1 .. Len(fifo[p])
  BY <1>1
<1>3. CASE fifo[p][1] = ins[p].page
  <2>1. 1 \in 1 .. Len(fifo[p])
    BY <1>1 DEF AvailableVictims
  <2>2. ins[p].page <= Len(pgd[p])
    BY <1>1, <1>3, <2>1 DEF Inv, LocalInv, FifoOfPresent, Pages
  <2>3. Len(fifo[p]) >= 2
    BY <1>1, <2>2 DEF AvailableVictims
  <2>4. 2 \in DOMAIN fifo[p]
    BY <1>1, <1>2, <2>3
  <2> QED  BY <1>3, <2>4 DEF Victims
<1>4. CASE fifo[p][1] # ins[p].page
  <2>1. 1 \in DOMAIN fifo[p]
    BY <1>1, <1>2 DEF AvailableVictims
  <2> QED  BY <1>4, <2>1 DEF Victims
<1> QED  BY <1>3, <1>4

LEMMA VictimTakenFrom ==
  ASSUME Domains, NEW p \in Proc, fifo[p] \in Seq(Nat), NEW x, NEW k \in Victims(p, x),
         TakeVictim(p, k)
  PROVE  Len(fifo'[p]) = Len(fifo[p]) - 1
<1>1. k \in 1 .. Len(fifo[p]) /\ fifo'[p] = RemoveAt(fifo[p], k)
  BY DEF Victims, TakeVictim, Domains
<1>2. \A s \in Seq(Nat) : \A i \in 1 .. Len(s) : Len(RemoveAt(s, i)) = Len(s) - 1
  BY Removed
<1>3. Len(RemoveAt(fifo[p], k)) = Len(fifo[p]) - 1
  BY <1>1, <1>2, Zenon
<1> QED  BY <1>1, <1>3, Zenon

LEMMA StartRoom ==
  ASSUME Domains, NEW p \in Proc, RoomRight(p), Start(p)
  PROVE  RoomRight(p)'
<1>1. ASSUME NEW i, NEW next \in {"access", "count"}, Begin(p, i, next), ipc[p] = "idle"
      PROVE  RoomRight(p)'
  <2>1. got[p] = <<>>
    BY <1>1 DEF RoomRight, Taking, Evicting
  <2>2. CASE Return(p, "error")
    BY <2>2, ReturnDoes, RoomReturned
  <2>3. CASE got' = got /\ (Goto(p, next) \/ Goto(p, "getswp"))
    BY <2>1, <2>3, RoomOutside DEF Goto, Domains, Taking, Evicting
  <2> QED  BY <1>1, <2>2, <2>3 DEF Begin
<1>2. CASE \E q \in 1 .. MaxPages : StartRead(p, q)
  BY <1>1, <1>2 DEF StartRead
<1>3. CASE \E q \in 1 .. MaxPages, d \in Data : StartWrite(p, q, d)
  BY <1>1, <1>3 DEF StartWrite
<1>4. CASE \E q \in 1 .. MaxPages + 1, n \in 1 .. MaxPages : StartAlloc(p, q, n)
  BY <1>1, <1>4 DEF StartAlloc
<1> QED  BY <1>2, <1>3, <1>4 DEF Start

\* The steps outside the allocation.
LEMMA OutsideRoom ==
  ASSUME Domains, NEW p \in Proc, RoomRight(p),
         \/ GetSwapFrame(p, "getswp", "copyout") \/ CopyOut(p, "copyout", "copyin")
         \/ CopyIn(p) \/ PutSwapFrame(p) \/ Settle(p) \/ Access(p) \/ MapPages(p)
  PROVE  RoomRight(p)'
<1> USE DEF Goto, Domains, Taking, Evicting
<1>1. CASE GetSwapFrame(p, "getswp", "copyout")
  <2>1. CASE Return(p, "error")
    BY <2>1, ReturnDoes, RoomReturned
  <2>2. CASE Goto(p, "copyout") /\ UNCHANGED <<ins, vic, got, avail, result>> /\ ipc[p] = "getswp"
    BY <2>2, RoomOutside DEF RoomRight
  <2> QED  BY <1>1, <2>1, <2>2 DEF GetSwapFrame
<1>2. CASE CopyOut(p, "copyout", "copyin") \/ CopyIn(p) \/ PutSwapFrame(p) \/ Settle(p)
  <2>1. ipc[p] \notin Taking /\ ipc'[p] \notin Taking \cup {"decide"} /\ got' = got
    BY <1>2 DEF CopyOut, CopyIn, PutSwapFrame, Settle, locVars
  <2> QED  BY <2>1, RoomOutside DEF RoomRight
<1>3. CASE Access(p) \/ MapPages(p)
  BY <1>3, ReturnDoes, RoomReturned DEF Access, MapPages
<1> QED  BY <1>1, <1>2, <1>3

LEMMA CountFreeRoom ==
  ASSUME Domains, AvailRight, NEW p \in Proc, RoomRight(p), CountFree(p)
  PROVE  RoomRight(p)'
<1>1. /\ ipc[p] = "count" /\ ipc'[p] = "decide" /\ got'[p] = got[p]
      /\ avail'[p] = Cardinality(ramFree) /\ ramFree' = ramFree
  BY DEF CountFree, Domains, AvailRight, Goto, devVars
<1> QED  BY <1>1 DEF RoomRight, Taking, Evicting

LEMMA DecideRoom ==
  ASSUME Inv, NEW p \in Proc, OpRight(p), RoomRight(p), Decide(p)
  PROVE  RoomRight(p)'
<1>1. CASE Return(p, "error")
  BY <1>1, ReturnDoes, RoomReturned DEF Inv
<1>2. CASE /\ Goto(p, "loop") /\ UNCHANGED locVars
           /\ LET missing == ins[p].n - avail[p]
              IN missing <= 0 \/ (missing <= AvailableVictims(p) /\ missing <= Cardinality(swpFree))
  <2>1. /\ ipc[p] = "decide" /\ ipc'[p] = "loop" /\ ins' = ins /\ got' = got
        /\ ramFree' = ramFree /\ swpFree' = swpFree /\ pgd' = pgd /\ fifo' = fifo
    BY <1>2 DEF Decide, Inv, Domains, Goto, locVars, devVars, tabVars
  <2>2. got[p] = <<>> /\ avail[p] = Cardinality(ramFree)
    BY <2>1 DEF RoomRight, Taking, Evicting
  <2>3. Wanted(p)' = ins[p].n /\ AvailableVictims(p)' = AvailableVictims(p)
    BY <2>1, <2>2, RoomTypes DEF Wanted, AvailableVictims, Allocating
  <2>4. LET more == (Wanted(p) - Cardinality(ramFree))' IN
        Wanted(p)' >= 0 /\ (more > 0 => more <= AvailableVictims(p)' /\ more <= Cardinality(swpFree)')
    BY <1>2, <2>1, <2>2, <2>3, RoomTypes, Counts DEF Allocating
  <2> QED  BY <2>1, <2>4 DEF RoomRight, Taking, Evicting
<1> QED  BY <1>1, <1>2 DEF Decide

LEMMA TakeFreeFrameRoom ==
  ASSUME Inv, NEW p \in Proc, OpRight(p), RoomRight(p), TakeFreeFrame(p)
  PROVE  RoomRight(p)'
<1> PICK g \in ramFree : /\ got' = [got EXCEPT ![p] = <<g>> \o @]
                         /\ ramFree' = ramFree \ {g}
  BY DEF TakeFreeFrame
<1>1. /\ ipc[p] = "loop" /\ ipc'[p] = "loop" /\ ins' = ins /\ got'[p] = <<g>> \o got[p]
      /\ swpFree' = swpFree /\ pgd' = pgd /\ fifo' = fifo
  BY DEF TakeFreeFrame, Inv, Domains, tabVars
<1>2. Len(got'[p]) = Len(got[p]) + 1 /\ ins[p].n \in Nat /\ Len(got[p]) \in Nat
  BY <1>1, RoomTypes DEF Allocating
<1>3. /\ Cardinality(ramFree') = Cardinality(ramFree) - 1 /\ Cardinality(ramFree) \in Nat
      /\ AvailableVictims(p)' = AvailableVictims(p)
  BY <1>1, Counts DEF AvailableVictims
<1>4. Len(got[p]) < ins[p].n
  BY DEF TakeFreeFrame
<1>5. /\ Wanted(p)' - Cardinality(ramFree') = Wanted(p) - Cardinality(ramFree)
      /\ Wanted(p)' >= 0
  BY <1>1, <1>2, <1>3, <1>4 DEF Wanted
<1>6. LET more == Wanted(p) - Cardinality(ramFree) IN
      more > 0 => more <= AvailableVictims(p) /\ more <= Cardinality(swpFree)
  BY <1>1 DEF RoomRight
<1>7. LET more == (Wanted(p) - Cardinality(ramFree))' IN
      more > 0 => more <= AvailableVictims(p)' /\ more <= Cardinality(swpFree)'
  BY <1>1, <1>3, <1>5, <1>6
<1> QED  BY <1>1, <1>5, <1>7 DEF RoomRight, Taking, Evicting

LEMMA TakeVictimFrameRoom ==
  ASSUME Inv, NEW p \in Proc, OpRight(p), RoomRight(p), TakeVictimFrame(p)
  PROVE  RoomRight(p)' /\ Goto(p, "aswp") /\ UNCHANGED <<ramFree, pgd, got>>
<1>1. ipc[p] = "loop" /\ Len(got[p]) < ins[p].n /\ ramFree = {} /\ Domains
  BY DEF TakeVictimFrame, Inv
<1>2. /\ Wanted(p) >= 1 /\ Wanted(p) <= AvailableVictims(p) /\ Wanted(p) <= Cardinality(swpFree)
      /\ Cardinality(ramFree) = 0 /\ Wanted(p) \in Int /\ AvailableVictims(p) \in Int
  BY <1>1, Counts, RoomTypes DEF RoomRight, Wanted, Allocating
<1>3. Victims(p, ins[p].page) # {}
  BY <1>1, <1>2, VictimThere
<1>4. /\ \E k \in Victims(p, ins[p].page) : TakeVictim(p, k)
      /\ Goto(p, "aswp")
      /\ UNCHANGED <<ins, spare, got, avail, result>>
      /\ UNCHANGED <<devVars, pgd>>
  BY <1>3 DEF TakeVictimFrame
<1>5. Len(fifo'[p]) = Len(fifo[p]) - 1
  BY <1>1, <1>4, RoomTypes, VictimTakenFrom
<1>6. /\ AvailableVictims(p)' = AvailableVictims(p) - 1 /\ Wanted(p)' = Wanted(p)
      /\ swpFree' = swpFree /\ ramFree' = ramFree /\ ipc'[p] = "aswp"
  BY <1>1, <1>4, <1>5, RoomTypes DEF AvailableVictims, Wanted, devVars, Goto, Domains
<1>7. RoomRight(p)'
  BY <1>1, <1>2, <1>6, Counts DEF RoomRight, Taking, Evicting
<1> QED  BY <1>4, <1>7 DEF devVars

LEMMA GetSwapFrameRoom ==
  ASSUME Inv, NEW p \in Proc, OpRight(p), RoomRight(p), GetSwapFrame(p, "aswp", "acopy")
  PROVE  RoomRight(p)' /\ Goto(p, "acopy") /\ UNCHANGED <<ramFree, pgd, got>>
<1>1. /\ ipc[p] = "aswp" /\ Domains /\ ramFree' = ramFree /\ UNCHANGED tabVars
  BY DEF GetSwapFrame, Inv
<1>2. /\ ramFree = {} /\ Wanted(p) >= 1 /\ Wanted(p) - 1 <= AvailableVictims(p)
      /\ Wanted(p) <= Cardinality(swpFree) /\ Wanted(p) \in Int /\ AvailableVictims(p) \in Int
      /\ Cardinality(swpFree) \in Nat
  BY <1>1, RoomTypes, Counts DEF RoomRight, Evicting, Allocating
<1>3. swpFree # {}
  BY <1>2, Counts
<1>4. PICK f \in swpFree : /\ swpFree' = swpFree \ {f} /\ Goto(p, "acopy")
                           /\ UNCHANGED <<ins, vic, got, avail, result>>
  BY <1>3 DEF GetSwapFrame
<1>5. /\ AvailableVictims(p)' = AvailableVictims(p) /\ Wanted(p)' = Wanted(p)
      /\ Cardinality(swpFree') = Cardinality(swpFree) - 1 /\ ipc'[p] = "acopy"
  BY <1>1, <1>4, Counts DEF AvailableVictims, Wanted, tabVars, Goto, Domains
<1>6. RoomRight(p)'
  BY <1>1, <1>2, <1>5 DEF RoomRight, Taking, Evicting
<1> QED  BY <1>1, <1>4, <1>6 DEF tabVars

LEMMA CopyOutRoom ==
  ASSUME Inv, NEW p \in Proc, RoomRight(p), CopyOut(p, "acopy", "aclean")
  PROVE  RoomRight(p)'
<1>1. /\ ipc[p] = "acopy" /\ ipc'[p] = "aclean" /\ UNCHANGED <<ramFree, swpFree, pgd, fifo, ins, got>>
  BY DEF CopyOut, Inv, Domains, Goto, tabVars, locVars
<1>2. AvailableVictims(p)' = AvailableVictims(p) /\ Wanted(p)' = Wanted(p)
  BY <1>1 DEF AvailableVictims, Wanted
<1> QED  BY <1>1, <1>2 DEF RoomRight, Taking, Evicting

LEMMA EvictRoom ==
  ASSUME Inv, NEW p \in Proc, OpRight(p), RoomRight(p), Evict(p)
  PROVE  RoomRight(p)'
<1>1. /\ ipc[p] = "aclean" /\ ipc'[p] = "loop" /\ got'[p] = <<VictimFrame(p)>> \o got[p]
      /\ Len(pgd'[p]) = Len(pgd[p]) /\ VictimFrame(p) \in RamFrame
      /\ fifo'[p] = fifo[p] /\ ins'[p] = ins[p]
  BY EvictDoes DEF Inv
<1>2. ramFree' = ramFree /\ swpFree' = swpFree
  BY DEF Evict
<1>3. Len(got'[p]) = Len(got[p]) + 1 /\ ins[p].n \in Nat /\ Len(got[p]) \in Nat
  BY <1>1, RoomTypes DEF Allocating, Evicting
<1>4. /\ ramFree = {} /\ Wanted(p) - 1 <= AvailableVictims(p)
      /\ Wanted(p) <= Cardinality(swpFree) + 1
      /\ AvailableVictims(p) \in Int
      /\ Cardinality(swpFree) \in Nat /\ Cardinality(ramFree) = 0
  BY <1>1, RoomTypes, Counts DEF RoomRight, Evicting
<1>5. /\ AvailableVictims(p)' = AvailableVictims(p) /\ Wanted(p)' = Wanted(p) - 1
      /\ Wanted(p) \in Int
  BY <1>1, <1>3 DEF AvailableVictims, Wanted
<1> QED  BY <1>1, <1>2, <1>4, <1>5 DEF RoomRight, Taking, Evicting

-----------------------------------------------------------------------------
(* No frame of RAM is lost to it *)

RamUsed(f) ==
  \/ f \in ramFree
  \/ \E p \in Proc : \E q \in Nat : RamPage(f, p, q) \/ RamGot(f, p, q)

LEMMA RamStaysUsed ==
  ASSUME NEW p \in Proc, Proc = {p}, NEW f \in RamFrame, RamUsed(f),
         f \in ramFree => RamUsed(f)',
         \A q \in Nat : RamPage(f, p, q) => RamUsed(f)',
         \A k \in Nat : RamGot(f, p, k) => RamUsed(f)'
  PROVE  RamUsed(f)'
BY DEF RamUsed

LEMMA RamStillUsed ==
  ASSUME NEW p \in Proc, Proc = {p}, NEW f \in RamFrame, RamUsed(f),
         ramFree' = ramFree, pgd'[p] = pgd[p], got'[p] = got[p]
  PROVE  RamUsed(f)'
<1>1. \A q \in Nat : /\ RamPage(f, p, q) => RamPage(f, p, q)'
                     /\ RamGot(f, p, q) => RamGot(f, p, q)'
  BY DEF RamPage, RamGot, Pages
<1> QED  BY <1>1 DEF RamUsed

\* Frames put in front of frm_lst leave the others there.
LEMMA GotKept ==
  ASSUME NEW p \in Proc, NEW g \in RamFrame, got[p] \in Seq(RamFrame),
         got'[p] = <<g>> \o got[p]
  PROVE  /\ RamGot(g, p, 1)'
         /\ \A f : \A k \in Nat : RamGot(f, p, k) => RamGot(f, p, k + 1)'
<1>1. Len(got'[p]) = Len(got[p]) + 1 /\ Len(got[p]) \in Nat /\ got'[p][1] = g
  OBVIOUS
<1>2. ASSUME NEW f, NEW k \in Nat, RamGot(f, p, k)  PROVE RamGot(f, p, k + 1)'
  <2>1. k \in 1 .. Len(got[p]) /\ got[p][k] = f
    BY <1>2 DEF RamGot
  <2>2. k + 1 \in 1 .. Len(got'[p]) /\ got'[p][k + 1] = got[p][k]
    BY <1>1, <2>1
  <2> QED  BY <2>1, <2>2 DEF RamGot
<1> QED  BY <1>1, <1>2 DEF RamGot

LEMMA SettleRamUsed ==
  ASSUME Domains, NEW p \in Proc, Proc = {p}, LocalInv(p), Settle(p),
         NEW f \in RamFrame, RamUsed(f)
  PROVE  RamUsed(f)'
<1> SUFFICES ASSUME NEW t \in Nat, t = ins[p].page  PROVE RamUsed(f)'
  BY DEF LocalInv, TypesRight
<1>1. /\ t \in Pages(p) /\ ~pgd[p][t].present
      /\ Len(pgd'[p]) = Len(pgd[p]) /\ pgd'[p][t] = InRam(VictimFrame(p))
      /\ \A q \in Pages(p) \ {vic[p], t} : pgd'[p][q] = pgd[p][q]
      /\ got'[p] = got[p] /\ ramFree' = ramFree
  BY SettleDoes DEF Settle, devVars
<1>2. pgd'[p][t].present /\ pgd'[p][t].frame = pgd[p][vic[p]].frame
  BY <1>1 DEF InRam, VictimFrame
<1>3. ASSUME NEW q \in Nat, RamPage(f, p, q)
      PROVE  RamPage(f, p, q)' \/ RamPage(f, p, t)'
  BY <1>1, <1>2, <1>3 DEF RamPage, Pages
<1>4. \A k \in Nat : RamGot(f, p, k) => RamGot(f, p, k)'
  BY <1>1 DEF RamGot
<1> QED  BY <1>1, <1>3, <1>4, RamStaysUsed DEF RamUsed

LEMMA TakeFreeFrameUsed ==
  ASSUME Domains, ramFree \subseteq RamFrame, NEW p \in Proc, Proc = {p}, LocalInv(p),
         TakeFreeFrame(p), NEW f \in RamFrame, RamUsed(f)
  PROVE  RamUsed(f)'
<1> PICK g \in ramFree :
      /\ g \in RamFrame /\ ramFree' = ramFree \ {g} /\ pgd'[p] = pgd[p]
      /\ got[p] \in Seq(RamFrame) /\ got'[p] = <<g>> \o got[p]
  BY TakeFreeFrameDoes
<1>1. RamGot(g, p, 1)' /\ \A k \in Nat : RamGot(f, p, k) => RamGot(f, p, k + 1)'
  BY GotKept
<1>2. \A q \in Nat : RamPage(f, p, q) => RamPage(f, p, q)'
  BY DEF RamPage, Pages
<1>3. \A k \in Nat : k + 1 \in Nat
  OBVIOUS
<1> QED  BY <1>1, <1>2, <1>3, RamStaysUsed DEF RamUsed

LEMMA EvictRamUsed ==
  ASSUME Domains, NEW p \in Proc, Proc = {p}, LocalInv(p), Evict(p),
         NEW f \in RamFrame, RamUsed(f)
  PROVE  RamUsed(f)'
<1> SUFFICES ASSUME NEW g \in RamFrame, g = VictimFrame(p)  PROVE RamUsed(f)'
  BY EvictDoes
<1>1. /\ Len(pgd'[p]) = Len(pgd[p])
      /\ \A q \in Pages(p) \ {vic[p]} : pgd'[p][q] = pgd[p][q]
      /\ got[p] \in Seq(RamFrame) /\ got'[p] = <<g>> \o got[p]
      /\ ramFree' = ramFree
  BY EvictDoes DEF Evict
<1>2. RamGot(g, p, 1)' /\ \A k \in Nat : RamGot(f, p, k) => RamGot(f, p, k + 1)'
  BY <1>1, GotKept
<1>3. ASSUME NEW q \in Nat, RamPage(f, p, q)
      PROVE  RamPage(f, p, q)' \/ f = g
  BY <1>1, <1>3 DEF RamPage, Pages, VictimFrame
<1>4. \A k \in Nat : k + 1 \in Nat
  OBVIOUS
<1> QED  BY <1>1, <1>2, <1>3, <1>4, RamStaysUsed DEF RamUsed

LEMMA Within ==
  ASSUME NEW m \in Nat, NEW n \in Nat, NEW q \in Nat
  PROVE  /\ q \in 1 .. m => q \in 1 .. m + n
         /\ q \in 1 .. n => m + q \in 1 .. m + n /\ m + q \in Nat
OBVIOUS

LEMMA MapPagesRamUsed ==
  ASSUME Domains, NEW p \in Proc, Proc = {p}, LocalInv(p), MapPages(p),
         NEW f \in RamFrame, RamUsed(f)
  PROVE  RamUsed(f)'
<1> SUFFICES ASSUME NEW m \in Nat, NEW n \in Nat, m = Len(pgd[p]), n = Len(got[p])
             PROVE  RamUsed(f)'
  BY MapPagesDoes
<1>1. /\ Len(pgd'[p]) = m + n
      /\ \A q \in 1 .. m : pgd'[p][q] = pgd[p][q]
      /\ \A i \in 1 .. n : /\ pgd'[p][m + i].present
                           /\ pgd'[p][m + i].frame = got[p][i]
      /\ ramFree' = ramFree
  BY MapPagesDoes DEF MapPages, devVars
<1>2. ASSUME NEW q \in Nat, RamPage(f, p, q)  PROVE RamPage(f, p, q)'
  <2>1. q \in 1 .. m /\ pgd[p][q].present /\ pgd[p][q].frame = f
    BY <1>2 DEF RamPage, Pages
  <2>2. q \in 1 .. m + n
    BY <2>1, Within, Zenon
  <2>3. pgd'[p][q].present /\ pgd'[p][q].frame = f
    BY <1>1, <2>1
  <2> QED  BY <1>1, <2>2, <2>3 DEF RamPage, Pages
<1>3. ASSUME NEW k \in Nat, RamGot(f, p, k)  PROVE RamPage(f, p, m + k)' /\ m + k \in Nat
  <2>1. k \in 1 .. n /\ got[p][k] = f
    BY <1>3 DEF RamGot
  <2>2. m + k \in 1 .. m + n /\ m + k \in Nat
    BY <2>1, Within, Zenon
  <2>3. pgd'[p][m + k].present /\ pgd'[p][m + k].frame = f
    BY <1>1, <2>1
  <2> QED  BY <1>1, <2>2, <2>3 DEF RamPage, Pages
<1> QED  BY <1>1, <1>2, <1>3, RamStaysUsed DEF RamUsed

\* The other steps leave the frames of RAM as they are.
LEMMA QuietRamUsed ==
  ASSUME Inv, NEW p \in Proc, Proc = {p}, OpRight(p), RoomRight(p),
         \/ Start(p) \/ GetSwapFrame(p, "getswp", "copyout")
         \/ CopyOut(p, "copyout", "copyin") \/ CopyOut(p, "acopy", "aclean")
         \/ CopyIn(p) \/ PutSwapFrame(p) \/ Access(p) \/ CountFree(p) \/ Decide(p)
         \/ TakeVictimFrame(p) \/ GetSwapFrame(p, "aswp", "acopy"),
         NEW f \in RamFrame, RamUsed(f)
  PROVE  RamUsed(f)'
<1>1. Domains
  BY DEF Inv
<1>2. CASE TakeVictimFrame(p) \/ GetSwapFrame(p, "aswp", "acopy")
  BY <1>2, TakeVictimFrameRoom, GetSwapFrameRoom, RamStillUsed
<1>3. ASSUME RamQuiet(p), ipc[p] \notin Taking
      PROVE  RamUsed(f)'
  BY <1>3, RamStillUsed DEF RamQuiet, RoomRight
<1>4. CASE Start(p)
  <2>1. ipc[p] = "idle"
    BY <1>4 DEF Start, StartRead, StartWrite, StartAlloc
  <2> QED  BY <1>1, <1>3, <1>4, <2>1, StartQuiet DEF Taking, Evicting
<1>5. CASE GetSwapFrame(p, "getswp", "copyout")
  <2>1. ipc[p] = "getswp"
    BY <1>5 DEF GetSwapFrame
  <2> QED  BY <1>1, <1>3, <1>5, <2>1, GetSwapFrameQuiet DEF Taking, Evicting
<1>6. CASE \/ CopyOut(p, "copyout", "copyin") \/ CopyOut(p, "acopy", "aclean")
           \/ CopyIn(p) \/ CountFree(p) \/ PutSwapFrame(p)
  BY <1>6, RamStillUsed DEF CopyOut, CopyIn, CountFree, PutSwapFrame, devVars, tabVars, locVars
<1>7. CASE Access(p) \/ Decide(p)
  <2>1. ipc[p] \in {"access", "decide"}
    BY <1>7 DEF Access, Decide
  <2> QED  BY <1>1, <1>3, <1>7, <2>1, EndQuiet DEF Taking, Evicting
<1> QED  BY <1>2, <1>4, <1>5, <1>6, <1>7

RamAllUsed ==
  Cardinality(Proc) = 1 =>
    /\ \A p \in Proc : RoomRight(p)
    /\ \A f \in RamFrame : RamUsed(f)

LEMMA RamAllUsedKept ==
  Inv /\ DataInv /\ AvailRight /\ RamAllUsed /\ [Next]_vars => RamAllUsed'
<1> SUFFICES ASSUME Inv, DataInv, AvailRight, RamAllUsed, [Next]_vars, Cardinality(Proc) = 1
             PROVE  (\A p \in Proc : RoomRight(p)') /\ (\A f \in RamFrame : RamUsed(f)')
  BY DEF RamAllUsed
<1>1. PICK p : Proc = {p}
  BY FS_Singleton, PagingAssumption
<1>2. p \in Proc /\ OpRight(p) /\ RoomRight(p) /\ (\A f \in RamFrame : RamUsed(f)) /\ Domains
  BY <1>1 DEF Inv, DataInv, RamAllUsed
<1>3. CASE UNCHANGED vars
  <2>1. /\ UNCHANGED <<ramFree, swpFree, pgd, got, ins, ipc, fifo, avail>>
    BY <1>3 DEF vars, devVars, tabVars, locVars
  <2>2. AvailableVictims(p)' = AvailableVictims(p) /\ Wanted(p)' = Wanted(p)
    BY <2>1 DEF AvailableVictims, Wanted
  <2>3. RoomRight(p)'
    BY <1>2, <2>1, <2>2 DEF RoomRight
  <2> QED  BY <1>1, <1>2, <2>1, <2>3, RamStillUsed
<1>4. CASE Start(p) \/ Continue(p)
  <2>1. RoomRight(p)'
    BY <1>2, <1>4, StartRoom, OutsideRoom, CountFreeRoom, DecideRoom, TakeFreeFrameRoom,
       TakeVictimFrameRoom, GetSwapFrameRoom, CopyOutRoom, EvictRoom DEF Continue
  <2>2. ASSUME NEW f \in RamFrame  PROVE RamUsed(f)'
    <3>1. LocalInv(p) /\ ramFree \subseteq RamFrame /\ RamUsed(f)
      BY <1>2 DEF Inv
    <3> QED  BY <1>1, <1>2, <1>4, <3>1, SettleRamUsed, TakeFreeFrameUsed, EvictRamUsed,
                MapPagesRamUsed, QuietRamUsed DEF Continue
  <2> QED  BY <1>1, <2>1, <2>2
<1> QED  BY <1>1, <1>3, <1>4 DEF Next

LEMMA RamAllUsedInit == Init => RamAllUsed
BY DEF Init, RamAllUsed, RamUsed, RoomRight, Taking, Evicting

\* No frame of the swap device is lost in any interleaving, also when it runs
\* full; and none of RAM while a single process allocates, as the loop finds
\* the free frames, victims and swap frames it has counted (mm.c:137-152).
THEOREM FramesKept == Spec => []NoFrameLost
<1>1. Inv /\ DataInv /\ SwpAllUsed /\ RamAllUsed => NoFrameLost
  <2> SUFFICES ASSUME Inv, DataInv, SwpAllUsed, RamAllUsed  PROVE NoFrameLost
    OBVIOUS
  <2>1. ASSUME NEW p \in Proc, NEW q \in Pages(p)
        PROVE  q \in 1 .. MaxPages /\ <<p, q>> \in Mapped
    <3>1. Len(pgd[p]) <= MaxPages /\ Len(pgd[p]) \in Nat /\ MaxPages \in Nat
      BY PagingAssumption DEF DataInv, OpRight, Inv, LocalInv, TypesRight
    <3> QED  BY <3>1 DEF Pages, Mapped
  <2>2. ASSUME NEW f \in SwpFrame  PROVE UsesOfSwp(f) # {}
    <3>1. CASE f \in swpFree
      <4>1. <<"free", f>> \in UsesOfSwp(f)
        BY <3>1 DEF UsesOfSwp
      <4> QED  BY <4>1
    <3>2. ASSUME NEW p \in Proc, spare[p] = f  PROVE UsesOfSwp(f) # {}
      <4>1. <<"spare", p>> \in UsesOfSwp(f)
        BY <3>2 DEF UsesOfSwp
      <4> QED  BY <4>1
    <3>3. ASSUME NEW p \in Proc, NEW q \in Nat, SwpPage(f, p, q)  PROVE UsesOfSwp(f) # {}
      <4>1. <<"page", <<p, q>>>> \in UsesOfSwp(f)
        BY <2>1, <3>3 DEF UsesOfSwp, SwpPage
      <4> QED  BY <4>1
    <3> QED  BY <3>1, <3>2, <3>3 DEF SwpAllUsed, SwpUsed
  <2>3. ASSUME Cardinality(Proc) = 1, NEW f \in RamFrame  PROVE UsesOfRam(f) # {}
    <3>1. CASE f \in ramFree
      <4>1. <<"free", f>> \in UsesOfRam(f)
        BY <3>1 DEF UsesOfRam
      <4> QED  BY <4>1
    <3>2. ASSUME NEW p \in Proc, NEW q \in Nat, RamPage(f, p, q)  PROVE UsesOfRam(f) # {}
      <4>1. <<"page", <<p, q>>>> \in UsesOfRam(f)
        BY <2>1, <3>2 DEF UsesOfRam, RamPage
      <4> QED  BY <4>1
    <3>3. ASSUME NEW p \in Proc, NEW k \in Nat, RamGot(f, p, k)  PROVE UsesOfRam(f) # {}
      <4>1. k \in 1 .. Len(got[p]) /\ got[p][k] = f /\ OpRight(p) /\ RoomRight(p)
        BY <2>3, <3>3 DEF RamGot, DataInv, RamAllUsed
      <4>2. Len(got[p]) \in Nat /\ MaxPages \in Nat /\ DOMAIN got[p] = 1 .. Len(got[p])
        BY PagingAssumption, RoomTypes, <4>1
      <4>3. ipc[p] \in Taking
        BY <4>1 DEF RoomRight
      <4>4. ins[p].op = "alloc" /\ ins[p].n \in 1 .. MaxPages /\ Wanted(p) >= 0
        BY <4>1, <4>3, RoomTypes DEF RoomRight, Taking, Allocating, OpRight
      <4>5. Len(got[p]) <= MaxPages
        BY <4>2, <4>4 DEF Wanted
      <4>6. k \in 1 .. MaxPages
        BY <4>1, <4>2, <4>5
      <4>7. <<"got", <<p, k>>>> \in UsesOfRam(f)
        BY <4>1, <4>2, <4>6 DEF UsesOfRam
      <4> QED  BY <4>7
    <3> QED  BY <2>3, <3>1, <3>2, <3>3 DEF RamAllUsed, RamUsed
  <2> QED  BY <2>2, <2>3 DEF NoFrameLost
<1> QED  BY <1>1, ListsInit, SwpAllUsedKept, RamAllUsedKept, RamAllUsedInit, DataInvariant,
            PTL DEF Spec
=============================================================================

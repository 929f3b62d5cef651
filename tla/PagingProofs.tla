----------------------------- MODULE PagingProofs -----------------------------
(***************************************************************************)
(* Theorems about demand paging, for any number of processes, of frames on *)
(* both devices and of pages: no frame ever has two uses, and the page an  *)
(* allocation starts on stays in RAM.                                      *)
(***************************************************************************)
EXTENDS Paging, SequenceTheorems, FiniteSetTheorems, TLAPS

Entry == [present : BOOLEAN, frame : RamFrame \cup SwpFrame]

\* Between find_victim_page and the new page table entries: in pg_getpage and
\* bring_to_ram, and in alloc_pages_range.
Exchanging == {"getswp", "copyout", "copyin", "putswp", "settle"}
Evicting   == {"aswp", "acopy", "aclean"}
Allocating == {"count", "decide", "loop"} \cup Evicting

\* Every process has its variables.
Domains ==
  /\ DOMAIN pgd = Proc /\ DOMAIN fifo = Proc /\ DOMAIN ipc = Proc
  /\ DOMAIN ins = Proc /\ DOMAIN vic = Proc /\ DOMAIN spare = Proc
  /\ DOMAIN got = Proc

\* The types of what a process has.
TypesRight(p) ==
  /\ pgd[p] \in Seq(Entry)
  /\ fifo[p] \in Seq(Nat)
  /\ ipc[p] \in {"idle", "access"} \cup Exchanging \cup Allocating
  /\ ins[p].page \in Nat
  /\ ins[p].op = "alloc" => ins[p].n \in Nat
  /\ vic[p] \in Nat
  /\ spare[p] \in SwpFrame \cup {None}
  /\ got[p] \in Seq(RamFrame)

Pages(p) == 1 .. Len(pgd[p])

\* An entry names a frame of the device its page is on.
EntriesRight(p) ==
  \A q \in Pages(p) :
    pgd[p][q].frame \in IF pgd[p][q].present THEN RamFrame ELSE SwpFrame

\* The list of pages in RAM: each once, and not the victim any more.
FifoOfPresent(p) ==
  /\ \A k \in 1 .. Len(fifo[p]) : /\ fifo[p][k] \in Pages(p)
                                  /\ pgd[p][fifo[p][k]].present
                                  /\ fifo[p][k] # vic[p]
  /\ \A j, k \in 1 .. Len(fifo[p]) : fifo[p][j] = fifo[p][k] => j = k

\* The victim is in RAM until the entries are changed, and has a swap frame
\* from when it was given one.
VictimRight(p) ==
  /\ IF ipc[p] \in Exchanging \cup Evicting
     THEN vic[p] \in Pages(p) /\ pgd[p][vic[p]].present
     ELSE vic[p] = 0
  /\ spare[p] = None <=> ipc[p] \notin {"copyout", "copyin", "putswp", "settle", "acopy", "aclean"}

\* The target of an exchange is not in RAM; the page an allocation starts on,
\* if it is mapped, is, and is not the victim.
PageRight(p) ==
  /\ ipc[p] \in Exchanging => ins[p].page \in Pages(p) /\ ~pgd[p][ins[p].page].present
  /\ ipc[p] \in Allocating => /\ ins[p].op = "alloc"
                              /\ ins[p].page \in Pages(p) =>
                                   pgd[p][ins[p].page].present /\ vic[p] # ins[p].page

LocalInv(p) ==
  TypesRight(p) /\ EntriesRight(p) /\ FifoOfPresent(p) /\ VictimRight(p) /\ PageRight(p)

-----------------------------------------------------------------------------
(* The uses of one frame *)

RamPage(f, p, q) == q \in Pages(p) /\ pgd[p][q].present /\ pgd[p][q].frame = f
RamGot(f, p, k)  == k \in 1 .. Len(got[p]) /\ got[p][k] = f
SwpPage(f, p, q) ==
  q \in Pages(p) /\ ~pgd[p][q].present /\ pgd[p][q].frame = f /\ Leaving(p) # q

RamOneUse(f) ==
  /\ \A p, d \in Proc : \A q, r \in Nat : RamPage(f, p, q) /\ RamPage(f, d, r) => p = d /\ q = r
  /\ \A p, d \in Proc : \A j, k \in Nat : RamGot(f, p, j) /\ RamGot(f, d, k) => p = d /\ j = k
  /\ \A p, d \in Proc : \A q, k \in Nat : ~(RamPage(f, p, q) /\ RamGot(f, d, k))
  /\ f \in ramFree => \A p \in Proc : \A k \in Nat : ~RamPage(f, p, k) /\ ~RamGot(f, p, k)

SwpOneUse(f) ==
  /\ \A p, d \in Proc : \A q, r \in Nat : SwpPage(f, p, q) /\ SwpPage(f, d, r) => p = d /\ q = r
  /\ \A p, d \in Proc : spare[p] = f /\ spare[d] = f => p = d
  /\ \A p, d \in Proc : \A q \in Nat : ~(SwpPage(f, p, q) /\ spare[d] = f)
  /\ f \in swpFree => \A p \in Proc : spare[p] # f /\ \A q \in Nat : ~SwpPage(f, p, q)

Inv ==
  /\ Domains
  /\ ramFree \subseteq RamFrame /\ swpFree \subseteq SwpFrame
  /\ \A p \in Proc : LocalInv(p)
  /\ \A f \in RamFrame : RamOneUse(f)
  /\ \A f \in SwpFrame : SwpOneUse(f)

-----------------------------------------------------------------------------
(* A step is a step of one process: the others keep what they have *)

Keeps(d) ==
  /\ pgd'[d] = pgd[d] /\ fifo'[d] = fifo[d] /\ ipc'[d] = ipc[d]
  /\ ins'[d] = ins[d] /\ vic'[d] = vic[d] /\ spare'[d] = spare[d]
  /\ got'[d] = got[d]

Others(p) == Domains' /\ \A d \in Proc \ {p} : Keeps(d)

\* What Return leaves behind.
Returned(p) ==
  /\ ipc'[p] = "idle" /\ ins'[p] = NoIns /\ vic'[p] = 0
  /\ spare'[p] = None /\ got'[p] = <<>>

LEMMA ReturnDoes ==
  ASSUME Domains, NEW p \in Proc, NEW r, Return(p, r)
  PROVE  /\ Returned(p)
         /\ \A d \in Proc \ {p} : /\ ipc'[d] = ipc[d] /\ ins'[d] = ins[d]
                                   /\ vic'[d] = vic[d] /\ spare'[d] = spare[d]
                                   /\ got'[d] = got[d]
         /\ DOMAIN ipc' = Proc /\ DOMAIN ins' = Proc /\ DOMAIN vic' = Proc
         /\ DOMAIN spare' = Proc /\ DOMAIN got' = Proc
  BY DEF Return, Goto, Returned, Domains

LEMMA KeptLocal ==
  ASSUME NEW d \in Proc, Keeps(d), LocalInv(d)
  PROVE  LocalInv(d)'
<1> USE DEF Keeps, Pages
<1>1. TypesRight(d)'      BY DEF LocalInv, TypesRight
<1>2. EntriesRight(d)'    BY DEF LocalInv, EntriesRight
<1>3. FifoOfPresent(d)'   BY DEF LocalInv, FifoOfPresent
<1>4. VictimRight(d)'     BY DEF LocalInv, VictimRight
<1>5. PageRight(d)'       BY DEF LocalInv, PageRight
<1> QED  BY <1>1, <1>2, <1>3, <1>4, <1>5 DEF LocalInv

LEMMA KeptUses ==
  ASSUME NEW d \in Proc, Keeps(d), NEW f, NEW q
  PROVE  /\ RamPage(f, d, q)' <=> RamPage(f, d, q)
         /\ RamGot(f, d, q)' <=> RamGot(f, d, q)
         /\ SwpPage(f, d, q)' <=> SwpPage(f, d, q)
  BY DEF Keeps, RamPage, RamGot, SwpPage, Pages, Leaving

\* One use is one use if no use is new.
LEMMA RamShrinks ==
  ASSUME NEW f \in RamFrame, RamOneUse(f), f \in ramFree' => f \in ramFree,
         \A d \in Proc : \A q \in Nat : RamPage(f, d, q)' => RamPage(f, d, q),
         \A d \in Proc : \A q \in Nat : RamGot(f, d, q)' => RamGot(f, d, q)
  PROVE  RamOneUse(f)'
  BY DEF RamOneUse

LEMMA SwpShrinks ==
  ASSUME NEW f \in SwpFrame, SwpOneUse(f), f \in swpFree' => f \in swpFree,
         \A d \in Proc : spare'[d] = f => spare[d] = f,
         \A d \in Proc : \A q \in Nat : SwpPage(f, d, q)' => SwpPage(f, d, q)
  PROVE  SwpOneUse(f)'
  BY DEF SwpOneUse

LEMMA BeginAlone ==
  ASSUME Domains, NEW p \in Proc, NEW i, NEW next, Begin(p, i, next)
  PROVE  Others(p)
<1>1. CASE UNCHANGED <<devVars, tabVars, vic, spare, got, avail, result>>
           /\ ins' = [ins EXCEPT ![p] = i] /\ Goto(p, next)
  BY <1>1 DEF Domains, Others, Keeps, devVars, tabVars, Goto
<1>2. CASE Return(p, "error") /\ UNCHANGED <<devVars, tabVars>>
  BY <1>2, ReturnDoes DEF Domains, Others, Keeps, devVars, tabVars
<1>3. ASSUME NEW k, TakeVictim(p, k),
             ins' = [ins EXCEPT ![p] = i], Goto(p, "getswp"),
             UNCHANGED <<devVars, pgd, spare, got, avail, result>>
      PROVE  Others(p)
  BY <1>3 DEF Domains, Others, Keeps, devVars, TakeVictim, Goto
<1> QED  BY <1>1, <1>2, <1>3 DEF Begin

LEMMA StartAlone ==
  ASSUME Domains, NEW p \in Proc, Start(p)
  PROVE  Others(p)
<1>1. CASE \E q \in 1 .. MaxPages : StartRead(p, q)
  BY <1>1, BeginAlone DEF StartRead
<1>2. CASE \E q \in 1 .. MaxPages, d \in Data : StartWrite(p, q, d)
  BY <1>2, BeginAlone DEF StartWrite
<1>3. CASE \E q \in 1 .. MaxPages + 1, n \in 1 .. MaxPages : StartAlloc(p, q, n)
  BY <1>3, BeginAlone DEF StartAlloc
<1> QED  BY <1>1, <1>2, <1>3 DEF Start

LEMMA GetSwapFrameAlone ==
  ASSUME Domains, NEW p \in Proc, NEW here, NEW next, GetSwapFrame(p, here, next)
  PROVE  Others(p)
<1>1. CASE swpFree = {} /\ Return(p, "error")
  BY <1>1, ReturnDoes DEF Domains, Others, Keeps, tabVars, GetSwapFrame
<1>2. ASSUME NEW f, spare' = [spare EXCEPT ![p] = f], Goto(p, next),
             UNCHANGED <<ins, vic, got, avail, result>>
      PROVE  Others(p)
  BY <1>2 DEF Domains, Others, Keeps, tabVars, GetSwapFrame, Goto
<1> QED  BY <1>1, <1>2 DEF GetSwapFrame

LEMMA CopyOutAlone ==
  ASSUME Domains, NEW p \in Proc, NEW here, NEW next, CopyOut(p, here, next)
  PROVE  Others(p)
  BY DEF Domains, Others, Keeps, tabVars, locVars, CopyOut, Goto

LEMMA ContinueAlone ==
  ASSUME Domains, NEW p \in Proc, Continue(p)
  PROVE  Others(p)
<1> USE DEF Domains, Others, Keeps, devVars, tabVars, locVars, Goto
<1>1. CASE GetSwapFrame(p, "getswp", "copyout")  BY <1>1, GetSwapFrameAlone
<1>2. CASE CopyOut(p, "copyout", "copyin")       BY <1>2, CopyOutAlone
<1>3. CASE CopyIn(p)         BY <1>3 DEF CopyIn
<1>4. CASE PutSwapFrame(p)   BY <1>4 DEF PutSwapFrame
<1>5. CASE Settle(p)         BY <1>5 DEF Settle
<1>6. CASE Access(p)         BY <1>6, ReturnDoes DEF Access
<1>7. CASE CountFree(p)      BY <1>7 DEF CountFree
<1>8. CASE Decide(p)
  <2>1. CASE Goto(p, "loop") /\ UNCHANGED locVars
    BY <1>8, <2>1 DEF Decide
  <2>2. CASE Return(p, "error")
    BY <1>8, <2>2, ReturnDoes DEF Decide
  <2> QED  BY <1>8, <2>1, <2>2 DEF Decide
<1>9. CASE TakeFreeFrame(p)
  BY <1>9 DEF TakeFreeFrame
<1>10. CASE TakeVictimFrame(p)
  <2>1. CASE Return(p, "error") /\ UNCHANGED fifo
    BY <1>10, <2>1, ReturnDoes DEF TakeVictimFrame
  <2>2. ASSUME NEW k, TakeVictim(p, k), Goto(p, "aswp"),
               UNCHANGED <<ins, spare, got, avail, result>>
        PROVE  Others(p)
    BY <1>10, <2>2 DEF TakeVictimFrame, TakeVictim
  <2> QED  BY <1>10, <2>1, <2>2 DEF TakeVictimFrame
<1>11. CASE GetSwapFrame(p, "aswp", "acopy")  BY <1>11, GetSwapFrameAlone
<1>12. CASE CopyOut(p, "acopy", "aclean")     BY <1>12, CopyOutAlone
<1>13. CASE Evict(p)         BY <1>13 DEF Evict
<1>14. CASE MapPages(p)      BY <1>14, ReturnDoes DEF MapPages
<1> QED  BY <1>1, <1>2, <1>3, <1>4, <1>5, <1>6, <1>7, <1>8, <1>9, <1>10,
            <1>11, <1>12, <1>13, <1>14 DEF Continue

-----------------------------------------------------------------------------
(* What the process itself has *)

\* Between instructions everything is right if the page table and the list are.
LEMMA ReturnedRight ==
  ASSUME NEW p \in Proc, Returned(p), pgd'[p] \in Seq(Entry), fifo'[p] \in Seq(Nat),
         EntriesRight(p)',
         \A k \in 1 .. Len(fifo'[p]) :
           fifo'[p][k] \in Pages(p)' /\ pgd'[p][fifo'[p][k]].present,
         \A j, k \in 1 .. Len(fifo'[p]) : fifo'[p][j] = fifo'[p][k] => j = k
  PROVE  LocalInv(p)'
<1>1. TypesRight(p)'
  BY DEF TypesRight, Returned, NoIns
<1>2. FifoOfPresent(p)'
  <2>1. Len(pgd'[p]) \in Nat
    OBVIOUS
  <2>2. 0 \notin Pages(p)'
    BY <2>1 DEF Pages
  <2>3. vic'[p] = 0
    BY DEF Returned
  <2>4. \A k \in 1 .. Len(fifo'[p]) : fifo'[p][k] # vic'[p]
    BY <2>2, <2>3
  <2> QED  BY <2>4, Zenon DEF FifoOfPresent
<1>3. VictimRight(p)' /\ PageRight(p)'
  BY DEF VictimRight, PageRight, Returned, Exchanging, Evicting, Allocating
<1> QED  BY <1>1, <1>2, <1>3 DEF LocalInv

\* An instruction that fails, and leaves the list of the pages alone.
LEMMA FailedRight ==
  ASSUME NEW p \in Proc, LocalInv(p), Returned(p), pgd'[p] = pgd[p], fifo'[p] = fifo[p]
  PROVE  LocalInv(p)'
<1>1. pgd'[p] \in Seq(Entry) /\ fifo'[p] \in Seq(Nat)
  BY DEF LocalInv, TypesRight
<1>2. EntriesRight(p)'
  BY DEF LocalInv, EntriesRight, Pages
<1>3. \A k \in 1 .. Len(fifo'[p]) :
        fifo'[p][k] \in Pages(p)' /\ pgd'[p][fifo'[p][k]].present
  BY DEF LocalInv, FifoOfPresent, Pages
<1>4. \A j, k \in 1 .. Len(fifo'[p]) : fifo'[p][j] = fifo'[p][k] => j = k
  BY DEF LocalInv, FifoOfPresent
<1> QED  BY <1>1, <1>2, <1>3, <1>4, ReturnedRight

\* A step that changes where the instruction is, and its swap frame, only.
LEMMA MovedRight ==
  ASSUME NEW p \in Proc, LocalInv(p),
         pgd'[p] = pgd[p], fifo'[p] = fifo[p], ins'[p] = ins[p], vic'[p] = vic[p],
         spare'[p] \in SwpFrame \cup {None}, got'[p] \in Seq(RamFrame),
         ipc'[p] \in {"idle", "access"} \cup Exchanging \cup Allocating,
         VictimRight(p)', PageRight(p)'
  PROVE  LocalInv(p)'
<1>1. TypesRight(p)'     BY DEF LocalInv, TypesRight
<1>2. EntriesRight(p)'   BY DEF LocalInv, EntriesRight, Pages
<1>3. FifoOfPresent(p)'  BY DEF LocalInv, FifoOfPresent, Pages
<1> QED  BY <1>1, <1>2, <1>3 DEF LocalInv

LEMMA Removed ==
  ASSUME NEW S, NEW s \in Seq(S), NEW k \in 1 .. Len(s)
  PROVE  /\ RemoveAt(s, k) \in Seq(S)
         /\ Len(RemoveAt(s, k)) = Len(s) - 1
         /\ \A j \in 1 .. Len(s) - 1 : RemoveAt(s, k)[j] = s[IF j < k THEN j ELSE j + 1]
<1>1. SubSeq(s, 1, k - 1) \in Seq(S) /\ Len(SubSeq(s, 1, k - 1)) = k - 1
      /\ \A j \in 1 .. k - 1 : SubSeq(s, 1, k - 1)[j] = s[j]
  OBVIOUS
<1>2. SubSeq(s, k + 1, Len(s)) \in Seq(S) /\ Len(SubSeq(s, k + 1, Len(s))) = Len(s) - k
      /\ \A j \in 1 .. Len(s) - k : SubSeq(s, k + 1, Len(s))[j] = s[k + j]
  OBVIOUS
<1> DEFINE a == SubSeq(s, 1, k - 1)
           b == SubSeq(s, k + 1, Len(s))
<1>3. RemoveAt(s, k) = a \o b
  BY DEF RemoveAt
<1>4. a \in Seq(S) /\ b \in Seq(S) /\ Len(a) = k - 1 /\ Len(b) = Len(s) - k
  BY <1>1, <1>2
<1>5. \A j \in 1 .. k - 1 : a[j] = s[j]
  BY <1>1
<1>6. \A j \in 1 .. Len(s) - k : b[j] = s[k + j]
  BY <1>2
<1> HIDE DEF a, b
<1>7. a \o b \in Seq(S) /\ Len(a \o b) = Len(s) - 1
  BY <1>4
<1>8. \A j \in 1 .. Len(s) - 1 : (a \o b)[j] = s[IF j < k THEN j ELSE j + 1]
  <2> TAKE j \in 1 .. Len(s) - 1
  <2>1. CASE j < k
    BY <2>1, <1>4, <1>5
  <2>2. CASE ~(j < k)
    <3>1. (a \o b)[j] = b[j - (k - 1)]
      BY <2>2, <1>4
    <3>2. j - (k - 1) \in 1 .. Len(s) - k /\ k + (j - (k - 1)) = j + 1
      BY <2>2
    <3> QED  BY <2>2, <3>1, <3>2, <1>6
  <2> QED  BY <2>1, <2>2
<1> QED  BY <1>3, <1>7, <1>8

\* Taking a page of the list as the victim.
LEMMA VictimTaken ==
  ASSUME Domains, NEW p \in Proc, LocalInv(p), NEW k \in 1 .. Len(fifo[p]),
         TakeVictim(p, k), pgd'[p] = pgd[p]
  PROVE  /\ vic'[p] = fifo[p][k]
         /\ vic'[p] \in Pages(p)' /\ pgd'[p][vic'[p]].present
         /\ fifo'[p] \in Seq(Nat)
         /\ FifoOfPresent(p)'
<1>1. vic'[p] = fifo[p][k] /\ fifo'[p] = RemoveAt(fifo[p], k)
  BY DEF TakeVictim, Domains
<1>2. fifo[p] \in Seq(Nat)
  BY DEF LocalInv, TypesRight
<1>3. /\ fifo'[p] \in Seq(Nat) /\ Len(fifo'[p]) = Len(fifo[p]) - 1
      /\ \A j \in 1 .. Len(fifo[p]) - 1 :
           fifo'[p][j] = fifo[p][IF j < k THEN j ELSE j + 1]
  BY <1>1, <1>2, Removed
<1>4. Len(fifo[p]) \in Nat
  BY <1>2
<1>5. /\ \A j \in 1 .. Len(fifo[p]) : fifo[p][j] \in Pages(p) /\ pgd[p][fifo[p][j]].present
      /\ \A i, j \in 1 .. Len(fifo[p]) : fifo[p][i] = fifo[p][j] => i = j
  BY DEF LocalInv, FifoOfPresent
<1> DEFINE from(j) == IF j < k THEN j ELSE j + 1
<1>6. \A j \in 1 .. Len(fifo'[p]) :
        from(j) \in 1 .. Len(fifo[p]) /\ from(j) # k /\ fifo'[p][j] = fifo[p][from(j)]
  <2> TAKE j \in 1 .. Len(fifo'[p])
  <2>1. j \in 1 .. Len(fifo[p]) - 1
    BY <1>3
  <2>2. from(j) \in 1 .. Len(fifo[p]) /\ from(j) # k
    BY <2>1, <1>4
  <2> QED  BY <2>1, <2>2, <1>3
<1>7. \A j \in 1 .. Len(fifo'[p]) :
        fifo'[p][j] \in Pages(p) /\ pgd[p][fifo'[p][j]].present /\ fifo'[p][j] # fifo[p][k]
  <2> HIDE DEF from
  <2> QED  BY <1>5, <1>6
<1>8. \A i, j \in 1 .. Len(fifo'[p]) : fifo'[p][i] = fifo'[p][j] => i = j
  <2> TAKE i, j \in 1 .. Len(fifo'[p])
  <2> HAVE fifo'[p][i] = fifo'[p][j]
  <2>1. from(i) = from(j)
    <3> HIDE DEF from
    <3> QED  BY <1>5, <1>6
  <2>2. i \in Int /\ j \in Int
    OBVIOUS
  <2> QED  BY <2>1, <2>2
<1>9. FifoOfPresent(p)'
  BY <1>1, <1>7, <1>8 DEF FifoOfPresent, Pages
<1> QED  BY <1>1, <1>3, <1>5, <1>9 DEF Pages

LEMMA BeginRight ==
  ASSUME Domains, NEW p \in Proc, LocalInv(p), ipc[p] = "idle",
         NEW i, i.page \in Nat, i.op = "alloc" => i.n \in Nat,
         NEW next \in {"access", "count"}, next = "count" => i.op = "alloc",
         Begin(p, i, next)
  PROVE  LocalInv(p)'
<1>1. /\ vic[p] = 0 /\ spare[p] = None /\ got[p] \in Seq(RamFrame)
      /\ pgd[p] \in Seq(Entry) /\ fifo[p] \in Seq(Nat)
  BY DEF LocalInv, VictimRight, TypesRight, Exchanging, Evicting
<1>2. CASE /\ i.page \in DOMAIN pgd[p] => pgd[p][i.page].present
           /\ UNCHANGED <<devVars, tabVars, vic, spare, got, avail, result>>
           /\ ins' = [ins EXCEPT ![p] = i] /\ Goto(p, next)
  <2>1. /\ pgd'[p] = pgd[p] /\ fifo'[p] = fifo[p] /\ vic'[p] = vic[p]
        /\ spare'[p] = spare[p] /\ got'[p] = got[p]
        /\ ins'[p] = i /\ ipc'[p] = next
    BY <1>2 DEF Domains, tabVars, Goto
  <2>2. TypesRight(p)'
    BY <1>1, <2>1 DEF TypesRight, Allocating
  <2>3. EntriesRight(p)' /\ FifoOfPresent(p)'
    BY <2>1 DEF LocalInv, EntriesRight, FifoOfPresent, Pages
  <2>4. VictimRight(p)'
    BY <1>1, <2>1 DEF VictimRight, Exchanging, Evicting
  <2>5. i.page \in Pages(p) => pgd[p][i.page].present /\ i.page # 0
    BY <1>1, <1>2 DEF Pages
  <2>6. PageRight(p)'
    BY <1>1, <2>1, <2>5 DEF PageRight, Exchanging, Allocating, Evicting, Pages
  <2> QED  BY <2>2, <2>3, <2>4, <2>6 DEF LocalInv
<1>3. CASE Return(p, "error") /\ UNCHANGED <<devVars, tabVars>>
  <2>1. Returned(p) /\ pgd'[p] = pgd[p] /\ fifo'[p] = fifo[p]
    BY <1>3, ReturnDoes DEF tabVars
  <2> QED  BY <2>1, FailedRight
<1>4. ASSUME i.page \in DOMAIN pgd[p], ~pgd[p][i.page].present,
             NEW k \in Victims(p, 0), TakeVictim(p, k),
             ins' = [ins EXCEPT ![p] = i], Goto(p, "getswp"),
             UNCHANGED <<devVars, pgd, spare, got, avail, result>>
      PROVE  LocalInv(p)'
  <2>1. /\ pgd'[p] = pgd[p] /\ spare'[p] = spare[p] /\ got'[p] = got[p]
        /\ ins'[p] = i /\ ipc'[p] = "getswp"
    BY <1>4 DEF Domains, Goto
  <2>2. k \in 1 .. Len(fifo[p])
    BY <1>1, <1>4 DEF Victims
  <2>3. /\ vic'[p] \in Pages(p)' /\ pgd'[p][vic'[p]].present
        /\ fifo'[p] \in Seq(Nat)
        /\ FifoOfPresent(p)'
    BY <1>4, <2>1, <2>2, VictimTaken
  <2>4. vic'[p] \in Nat
    BY <1>1, <2>1, <2>3 DEF Pages
  <2>5. TypesRight(p)'
    BY <1>1, <2>1, <2>3, <2>4 DEF TypesRight, Exchanging
  <2>6. EntriesRight(p)'
    BY <2>1 DEF LocalInv, EntriesRight, Pages
  <2>7. VictimRight(p)'
    BY <1>1, <2>1, <2>3 DEF VictimRight, Exchanging
  <2>8. PageRight(p)'
    BY <1>1, <1>4, <2>1 DEF PageRight, Exchanging, Allocating, Evicting, Pages
  <2> QED  BY <2>3, <2>5, <2>6, <2>7, <2>8 DEF LocalInv
<1> QED  BY <1>2, <1>3, <1>4 DEF Begin

LEMMA StartRight ==
  ASSUME Domains, NEW p \in Proc, LocalInv(p), Start(p)
  PROVE  LocalInv(p)'
<1> USE PagingAssumption
<1>1. CASE \E q \in 1 .. MaxPages : StartRead(p, q)
  <2> PICK q \in 1 .. MaxPages : StartRead(p, q)
    BY <1>1
  <2> DEFINE i == [op |-> "read", page |-> q]
  <2>1. i.page \in Nat /\ i.op # "alloc"
    OBVIOUS
  <2> QED  BY <2>1, BeginRight DEF StartRead
<1>2. CASE \E q \in 1 .. MaxPages, d \in Data : StartWrite(p, q, d)
  <2> PICK q \in 1 .. MaxPages, d \in Data : StartWrite(p, q, d)
    BY <1>2
  <2> DEFINE i == [op |-> "write", page |-> q, data |-> d]
  <2>1. i.page \in Nat /\ i.op # "alloc"
    OBVIOUS
  <2> QED  BY <2>1, BeginRight DEF StartWrite
<1>3. CASE \E q \in 1 .. MaxPages + 1, n \in 1 .. MaxPages : StartAlloc(p, q, n)
  <2> PICK q \in 1 .. MaxPages + 1, n \in 1 .. MaxPages : StartAlloc(p, q, n)
    BY <1>3
  <2> DEFINE i == [op |-> "alloc", page |-> q, n |-> n]
  <2>1. i.page \in Nat /\ i.n \in Nat /\ i.op = "alloc"
    OBVIOUS
  <2> QED  BY <2>1, BeginRight DEF StartAlloc
<1> QED  BY <1>1, <1>2, <1>3 DEF Start

LEMMA GetSwapFrameRight ==
  ASSUME Domains, swpFree \subseteq SwpFrame, NEW p \in Proc, LocalInv(p),
         NEW here, NEW next,
         <<here, next>> \in {<<"getswp", "copyout">>, <<"aswp", "acopy">>},
         GetSwapFrame(p, here, next)
  PROVE  LocalInv(p)'
<1>1. pgd'[p] = pgd[p] /\ fifo'[p] = fifo[p]
  BY DEF GetSwapFrame, tabVars
<1>2. CASE Return(p, "error")
  BY <1>1, <1>2, ReturnDoes, FailedRight
<1>3. ASSUME NEW f \in swpFree, spare' = [spare EXCEPT ![p] = f], Goto(p, next),
             UNCHANGED <<ins, vic, got, avail, result>>
      PROVE  LocalInv(p)'
  <2>1. /\ ipc[p] = here /\ ipc'[p] = next /\ ins'[p] = ins[p] /\ vic'[p] = vic[p]
        /\ spare'[p] = f /\ got'[p] = got[p]
    BY <1>3 DEF GetSwapFrame, Domains, Goto
  <2>2. f \in SwpFrame /\ f # None
    BY PagingAssumption
  <2>3. got'[p] \in Seq(RamFrame)
    BY <2>1 DEF LocalInv, TypesRight
  <2>4. VictimRight(p)'
    BY <1>1, <2>1, <2>2 DEF LocalInv, VictimRight, Exchanging, Evicting, Pages
  <2>5. PageRight(p)'
    BY <1>1, <2>1 DEF LocalInv, PageRight, Exchanging, Evicting, Allocating, Pages
  <2> QED  BY <1>1, <2>1, <2>2, <2>3, <2>4, <2>5, MovedRight
                DEF Exchanging, Allocating, Evicting
<1> QED  BY <1>2, <1>3 DEF GetSwapFrame

\* The copies and the release of the target's swap frame.
LEMMA AdvanceRight ==
  ASSUME NEW p \in Proc, LocalInv(p), Domains, UNCHANGED <<tabVars, locVars>>,
         NEW here, NEW next, ipc[p] = here, Goto(p, next),
         <<here, next>> \in {<<"copyout", "copyin">>, <<"copyin", "putswp">>,
                             <<"putswp", "settle">>, <<"acopy", "aclean">>}
  PROVE  LocalInv(p)'
<1>1. /\ pgd'[p] = pgd[p] /\ fifo'[p] = fifo[p] /\ ins'[p] = ins[p]
      /\ vic'[p] = vic[p] /\ spare'[p] = spare[p] /\ got'[p] = got[p]
      /\ ipc'[p] = next
  BY DEF tabVars, locVars, Domains, Goto
<1>2. spare'[p] \in SwpFrame \cup {None} /\ got'[p] \in Seq(RamFrame)
  BY <1>1 DEF LocalInv, TypesRight
<1>3. VictimRight(p)'
  BY <1>1 DEF LocalInv, VictimRight, Exchanging, Evicting, Pages
<1>4. PageRight(p)'
  BY <1>1 DEF LocalInv, PageRight, Exchanging, Evicting, Allocating, Pages
<1> QED  BY <1>1, <1>2, <1>3, <1>4, MovedRight DEF Exchanging, Allocating, Evicting

\* The two page table entries an exchange writes, and the one an eviction does.
LEMMA SettleDoes ==
  ASSUME Domains, NEW p \in Proc, LocalInv(p), Settle(p)
  PROVE  /\ ipc[p] = "settle" /\ ipc'[p] \in {"count", "access"}
         /\ ipc'[p] = "count" => ins[p].op = "alloc"
         /\ vic[p] \in Pages(p) /\ ins[p].page \in Pages(p) /\ vic[p] # ins[p].page
         /\ pgd[p][vic[p]].present /\ ~pgd[p][ins[p].page].present
         /\ spare[p] \in SwpFrame /\ VictimFrame(p) \in RamFrame
         /\ pgd'[p] \in Seq(Entry) /\ Len(pgd'[p]) = Len(pgd[p])
         /\ pgd'[p][vic[p]] = InSwap(spare[p])
         /\ pgd'[p][ins[p].page] = InRam(VictimFrame(p))
         /\ \A q \in Pages(p) \ {vic[p], ins[p].page} : pgd'[p][q] = pgd[p][q]
         /\ fifo'[p] = Append(fifo[p], ins[p].page)
         /\ vic'[p] = 0 /\ spare'[p] = None /\ ins'[p] = ins[p] /\ got'[p] = got[p]
<1>1. /\ vic[p] \in Pages(p) /\ ins[p].page \in Pages(p)
      /\ pgd[p][vic[p]].present /\ ~pgd[p][ins[p].page].present
      /\ spare[p] \in SwpFrame /\ pgd[p] \in Seq(Entry)
  BY DEF Settle, LocalInv, TypesRight, VictimRight, PageRight, Exchanging
<1>2. VictimFrame(p) \in RamFrame
  BY <1>1 DEF LocalInv, EntriesRight, VictimFrame
<1>3. /\ ipc[p] = "settle" /\ ipc'[p] \in {"count", "access"}
      /\ ipc'[p] = "count" => ins[p].op = "alloc"
      /\ fifo'[p] = Append(fifo[p], ins[p].page)
      /\ vic'[p] = 0 /\ spare'[p] = None /\ ins'[p] = ins[p] /\ got'[p] = got[p]
  BY DEF Settle, Domains, Goto
<1>4. pgd'[p] = [pgd[p] EXCEPT ![vic[p]] = InSwap(spare[p]),
                               ![ins[p].page] = InRam(VictimFrame(p))]
  BY DEF Settle, Domains
<1>5. InSwap(spare[p]) \in Entry /\ InRam(VictimFrame(p)) \in Entry
  BY <1>1, <1>2 DEF InSwap, InRam, Entry
<1> HIDE DEF InSwap, InRam, Entry, VictimFrame
<1>6. vic[p] # ins[p].page
  BY <1>1
<1>7. /\ pgd'[p] \in Seq(Entry) /\ Len(pgd'[p]) = Len(pgd[p])
      /\ pgd'[p][vic[p]] = InSwap(spare[p])
      /\ pgd'[p][ins[p].page] = InRam(VictimFrame(p))
      /\ \A q \in Pages(p) \ {vic[p], ins[p].page} : pgd'[p][q] = pgd[p][q]
  BY <1>1, <1>4, <1>5, <1>6 DEF Pages
<1> QED  BY <1>1, <1>2, <1>3, <1>6, <1>7

LEMMA SettleRight ==
  ASSUME Domains, NEW p \in Proc, LocalInv(p), Settle(p)
  PROVE  LocalInv(p)'
<1> DEFINE t == ins[p].page
           v == vic[p]
<1>1. /\ ipc'[p] \in {"count", "access"}
      /\ ipc'[p] = "count" => ins[p].op = "alloc"
      /\ v \in Pages(p) /\ t \in Pages(p) /\ v # t
      /\ ~pgd[p][t].present
      /\ spare[p] \in SwpFrame /\ VictimFrame(p) \in RamFrame
      /\ pgd'[p] \in Seq(Entry) /\ Len(pgd'[p]) = Len(pgd[p])
      /\ fifo'[p] = Append(fifo[p], t)
      /\ vic'[p] = 0 /\ spare'[p] = None /\ ins'[p] = ins[p] /\ got'[p] = got[p]
  BY SettleDoes
<1>2. /\ ~pgd'[p][v].present /\ pgd'[p][v].frame = spare[p]
      /\ pgd'[p][t].present /\ pgd'[p][t].frame = VictimFrame(p)
      /\ \A q \in Pages(p) \ {v, t} : pgd'[p][q] = pgd[p][q]
  <2>1. pgd'[p][v] = InSwap(spare[p]) /\ pgd'[p][t] = InRam(VictimFrame(p))
    BY SettleDoes
  <2>2. \A f : /\ ~InSwap(f).present /\ InSwap(f).frame = f
               /\ InRam(f).present /\ InRam(f).frame = f
    BY DEF InSwap, InRam
  <2>3. \A q \in Pages(p) \ {v, t} : pgd'[p][q] = pgd[p][q]
    BY SettleDoes
  <2> HIDE DEF v, t
  <2> QED  BY <2>1, <2>2, <2>3
<1>3. fifo[p] \in Seq(Nat) /\ t \in Nat /\ t # 0 /\ pgd[p] \in Seq(Entry)
  <2>1. fifo[p] \in Seq(Nat) /\ pgd[p] \in Seq(Entry)
    BY DEF LocalInv, TypesRight
  <2>2. Len(pgd[p]) \in Nat
    BY <2>1
  <2> QED  BY <1>1, <2>1, <2>2 DEF Pages
<1>4. TypesRight(p)'
  BY <1>1, <1>3 DEF LocalInv, TypesRight, Allocating
<1>5. EntriesRight(p)'
  BY <1>1, <1>2 DEF LocalInv, EntriesRight, Pages
<1>6. /\ \A k \in 1 .. Len(fifo[p]) : /\ fifo[p][k] \in Pages(p)
                                      /\ pgd[p][fifo[p][k]].present
                                      /\ fifo[p][k] # v
      /\ \A j, k \in 1 .. Len(fifo[p]) : fifo[p][j] = fifo[p][k] => j = k
  BY DEF LocalInv, FifoOfPresent
<1>7. /\ Len(fifo'[p]) = Len(fifo[p]) + 1 /\ fifo'[p][Len(fifo[p]) + 1] = t
      /\ \A k \in 1 .. Len(fifo[p]) : fifo'[p][k] = fifo[p][k]
  BY <1>1, <1>3
<1>8. \A k \in 1 .. Len(fifo[p]) : fifo[p][k] # t
  BY <1>1, <1>6
<1>9. Pages(p)' = Pages(p) /\ 0 \notin Pages(p)
  BY <1>1, <1>3 DEF Pages
<1>10. \A k \in 1 .. Len(fifo'[p]) : k = Len(fifo[p]) + 1 \/ k \in 1 .. Len(fifo[p])
  BY <1>3, <1>7
<1>11. \A k \in 1 .. Len(fifo'[p]) : fifo'[p][k] \in Pages(p)' /\ pgd'[p][fifo'[p][k]].present
  BY <1>1, <1>2, <1>6, <1>7, <1>8, <1>9, <1>10
<1>12. \A j, k \in 1 .. Len(fifo'[p]) : fifo'[p][j] = fifo'[p][k] => j = k
  BY <1>6, <1>7, <1>8, <1>10
<1>13. FifoOfPresent(p)'
  BY <1>1, <1>9, <1>11, <1>12 DEF FifoOfPresent
<1>14. VictimRight(p)'
  BY <1>1 DEF VictimRight, Exchanging, Evicting
<1>15. PageRight(p)'
  BY <1>1, <1>2, <1>3 DEF PageRight, Exchanging, Evicting, Allocating
<1> QED  BY <1>4, <1>5, <1>13, <1>14, <1>15 DEF LocalInv

\* A step inside alloc_pages_range that takes no victim and ends nothing.
LEMMA AllocRight ==
  ASSUME NEW p \in Proc, LocalInv(p), ipc[p] \in {"count", "decide", "loop"},
         ipc'[p] \in {"count", "decide", "loop"},
         pgd'[p] = pgd[p], fifo'[p] = fifo[p], ins'[p] = ins[p], vic'[p] = vic[p],
         spare'[p] = spare[p], got'[p] \in Seq(RamFrame)
  PROVE  LocalInv(p)'
<1>1. spare'[p] \in SwpFrame \cup {None}
  BY DEF LocalInv, TypesRight
<1>2. VictimRight(p)'
  BY DEF LocalInv, VictimRight, Exchanging, Evicting
<1>3. PageRight(p)'
  BY DEF LocalInv, PageRight, Exchanging, Evicting, Allocating, Pages
<1> QED  BY <1>1, <1>2, <1>3, MovedRight DEF Allocating

LEMMA CountFreeRight ==
  ASSUME Domains, NEW p \in Proc, LocalInv(p), CountFree(p)
  PROVE  LocalInv(p)'
<1>1. /\ ipc[p] = "count" /\ ipc'[p] = "decide"
      /\ pgd'[p] = pgd[p] /\ fifo'[p] = fifo[p] /\ ins'[p] = ins[p] /\ vic'[p] = vic[p]
      /\ spare'[p] = spare[p] /\ got'[p] = got[p]
  BY DEF CountFree, Domains, Goto, tabVars
<1> QED  BY <1>1, AllocRight DEF LocalInv, TypesRight

LEMMA DecideRight ==
  ASSUME Domains, NEW p \in Proc, LocalInv(p), Decide(p)
  PROVE  LocalInv(p)'
<1>1. CASE Goto(p, "loop") /\ UNCHANGED locVars
  <2>1. /\ ipc[p] = "decide" /\ ipc'[p] = "loop"
        /\ pgd'[p] = pgd[p] /\ fifo'[p] = fifo[p] /\ ins'[p] = ins[p] /\ vic'[p] = vic[p]
        /\ spare'[p] = spare[p] /\ got'[p] = got[p]
    BY <1>1 DEF Decide, Domains, Goto, tabVars, locVars
  <2> QED  BY <2>1, AllocRight DEF LocalInv, TypesRight
<1>2. CASE Return(p, "error")
  <2>1. pgd'[p] = pgd[p] /\ fifo'[p] = fifo[p]
    BY DEF Decide, tabVars
  <2> QED  BY <1>2, <2>1, ReturnDoes, FailedRight
<1> QED  BY <1>1, <1>2 DEF Decide

LEMMA AccessRight ==
  ASSUME Domains, NEW p \in Proc, LocalInv(p), Access(p)
  PROVE  LocalInv(p)'
<1>1. pgd'[p] = pgd[p] /\ fifo'[p] = fifo[p]
  BY DEF Access, tabVars
<1>2. Returned(p)
  BY ReturnDoes DEF Access
<1> QED  BY <1>1, <1>2, FailedRight

LEMMA TakeFreeFrameDoes ==
  ASSUME Domains, ramFree \subseteq RamFrame, NEW p \in Proc, LocalInv(p), TakeFreeFrame(p)
  PROVE  \E g \in ramFree :
           /\ g \in RamFrame /\ ramFree' = ramFree \ {g}
           /\ ipc[p] = "loop" /\ ipc'[p] = "loop"
           /\ pgd'[p] = pgd[p] /\ fifo'[p] = fifo[p] /\ ins'[p] = ins[p]
           /\ vic'[p] = vic[p] /\ spare'[p] = spare[p]
           /\ got[p] \in Seq(RamFrame) /\ got'[p] = <<g>> \o got[p]
  BY DEF TakeFreeFrame, Domains, tabVars, LocalInv, TypesRight

LEMMA TakeFreeFrameRight ==
  ASSUME Domains, ramFree \subseteq RamFrame, NEW p \in Proc, LocalInv(p), TakeFreeFrame(p)
  PROVE  LocalInv(p)'
<1> PICK g \in ramFree :
      /\ g \in RamFrame /\ ipc[p] = "loop" /\ ipc'[p] = "loop"
      /\ pgd'[p] = pgd[p] /\ fifo'[p] = fifo[p] /\ ins'[p] = ins[p]
      /\ vic'[p] = vic[p] /\ spare'[p] = spare[p]
      /\ got[p] \in Seq(RamFrame) /\ got'[p] = <<g>> \o got[p]
  BY TakeFreeFrameDoes
<1>1. got'[p] \in Seq(RamFrame)
  OBVIOUS
<1> QED  BY <1>1, AllocRight

LEMMA TakeVictimFrameRight ==
  ASSUME Domains, NEW p \in Proc, LocalInv(p), TakeVictimFrame(p)
  PROVE  LocalInv(p)'
<1>1. ipc[p] = "loop" /\ pgd'[p] = pgd[p]
  BY DEF TakeVictimFrame
<1>2. CASE Return(p, "error") /\ UNCHANGED fifo
  BY <1>1, <1>2, ReturnDoes, FailedRight
<1>3. ASSUME NEW k \in Victims(p, ins[p].page), TakeVictim(p, k), Goto(p, "aswp"),
             UNCHANGED <<ins, spare, got, avail, result>>
      PROVE  LocalInv(p)'
  <2>1. /\ ipc'[p] = "aswp" /\ ins'[p] = ins[p] /\ spare'[p] = spare[p] /\ got'[p] = got[p]
    BY <1>3 DEF Domains, Goto
  <2>2. fifo[p] \in Seq(Nat) /\ pgd[p] \in Seq(Entry)
    BY DEF LocalInv, TypesRight
  <2>3. k \in 1 .. Len(fifo[p])
    BY <2>2 DEF Victims
  <2>4. fifo[p][k] # ins[p].page
    <3>1. \A i, j \in 1 .. Len(fifo[p]) : fifo[p][i] = fifo[p][j] => i = j
      BY DEF LocalInv, FifoOfPresent
    <3>2. IF fifo[p][1] = ins[p].page THEN k = 2 ELSE k = 1
      BY DEF Victims
    <3>3. CASE fifo[p][1] = ins[p].page
      <4>1. 1 \in 1 .. Len(fifo[p]) /\ k # 1
        BY <3>2, <3>3, <2>2, <2>3
      <4> QED  BY <4>1, <3>1, <3>3, <2>3
    <3> QED  BY <3>2, <3>3
  <2>5. /\ vic'[p] = fifo[p][k]
        /\ vic'[p] \in Pages(p)' /\ pgd'[p][vic'[p]].present
        /\ fifo'[p] \in Seq(Nat)
        /\ FifoOfPresent(p)'
    BY <1>1, <1>3, <2>3, VictimTaken
  <2>6. vic'[p] \in Nat
    BY <2>2, <2>3, <2>5
  <2>7. TypesRight(p)'
    BY <1>1, <2>1, <2>5, <2>6 DEF LocalInv, TypesRight, Evicting, Allocating
  <2>8. EntriesRight(p)'
    BY <1>1 DEF LocalInv, EntriesRight, Pages
  <2>9. VictimRight(p)'
    BY <1>1, <2>1, <2>5 DEF LocalInv, VictimRight, Exchanging, Evicting
  <2>10. PageRight(p)'
    BY <1>1, <2>1, <2>4, <2>5 DEF LocalInv, PageRight, Exchanging, Evicting, Allocating, Pages
  <2> QED  BY <2>5, <2>7, <2>8, <2>9, <2>10 DEF LocalInv
<1> QED  BY <1>2, <1>3 DEF TakeVictimFrame

LEMMA EvictDoes ==
  ASSUME Domains, NEW p \in Proc, LocalInv(p), Evict(p)
  PROVE  /\ ipc[p] = "aclean" /\ ipc'[p] = "loop"
         /\ vic[p] \in Pages(p) /\ pgd[p][vic[p]].present
         /\ spare[p] \in SwpFrame /\ VictimFrame(p) \in RamFrame
         /\ pgd'[p] \in Seq(Entry) /\ Len(pgd'[p]) = Len(pgd[p])
         /\ ~pgd'[p][vic[p]].present /\ pgd'[p][vic[p]].frame = spare[p]
         /\ \A q \in Pages(p) \ {vic[p]} : pgd'[p][q] = pgd[p][q]
         /\ got[p] \in Seq(RamFrame) /\ got'[p] = <<VictimFrame(p)>> \o got[p]
         /\ fifo'[p] = fifo[p] /\ vic'[p] = 0 /\ spare'[p] = None /\ ins'[p] = ins[p]
<1>1. /\ ipc[p] = "aclean" /\ vic[p] \in Pages(p) /\ pgd[p][vic[p]].present
      /\ spare[p] \in SwpFrame /\ pgd[p] \in Seq(Entry) /\ got[p] \in Seq(RamFrame)
  BY DEF Evict, LocalInv, TypesRight, VictimRight, Exchanging, Evicting
<1>2. VictimFrame(p) \in RamFrame
  BY <1>1 DEF LocalInv, EntriesRight, VictimFrame
<1>3. /\ ipc'[p] = "loop" /\ got'[p] = <<VictimFrame(p)>> \o got[p]
      /\ fifo'[p] = fifo[p] /\ vic'[p] = 0 /\ spare'[p] = None /\ ins'[p] = ins[p]
  BY DEF Evict, Domains, Goto
<1>4. pgd'[p] = [pgd[p] EXCEPT ![vic[p]] = InSwap(spare[p])]
  BY DEF Evict, Domains
<1>5. InSwap(spare[p]) \in Entry
  BY <1>1 DEF InSwap, Entry
<1>6. ~InSwap(spare[p]).present /\ InSwap(spare[p]).frame = spare[p]
  BY DEF InSwap
<1> HIDE DEF VictimFrame
<1>7. /\ pgd'[p] \in Seq(Entry) /\ Len(pgd'[p]) = Len(pgd[p])
      /\ pgd'[p][vic[p]] = InSwap(spare[p])
      /\ \A q \in Pages(p) \ {vic[p]} : pgd'[p][q] = pgd[p][q]
  BY <1>1, <1>4, <1>5 DEF Pages
<1> QED  BY <1>1, <1>2, <1>3, <1>6, <1>7

LEMMA EvictRight ==
  ASSUME Domains, NEW p \in Proc, LocalInv(p), Evict(p)
  PROVE  LocalInv(p)'
<1> DEFINE v == vic[p]
<1>1. /\ ipc[p] = "aclean" /\ ipc'[p] = "loop" /\ v \in Pages(p)
      /\ spare[p] \in SwpFrame /\ VictimFrame(p) \in RamFrame
      /\ pgd'[p] \in Seq(Entry) /\ Len(pgd'[p]) = Len(pgd[p])
      /\ ~pgd'[p][v].present /\ pgd'[p][v].frame = spare[p]
      /\ \A q \in Pages(p) \ {v} : pgd'[p][q] = pgd[p][q]
      /\ got'[p] \in Seq(RamFrame)
      /\ fifo'[p] = fifo[p] /\ vic'[p] = 0 /\ spare'[p] = None /\ ins'[p] = ins[p]
  <2>1. got[p] \in Seq(RamFrame) /\ got'[p] = <<VictimFrame(p)>> \o got[p]
        /\ VictimFrame(p) \in RamFrame
    BY EvictDoes
  <2>2. got'[p] \in Seq(RamFrame)
    BY <2>1
  <2> QED  BY <2>2, EvictDoes
<1>2. pgd[p] \in Seq(Entry) /\ Pages(p)' = Pages(p) /\ 0 \notin Pages(p)
  BY <1>1 DEF LocalInv, TypesRight, Pages
<1>3. TypesRight(p)'
  BY <1>1 DEF LocalInv, TypesRight, Allocating
<1>4. EntriesRight(p)'
  BY <1>1, <1>2 DEF LocalInv, EntriesRight
<1>5. FifoOfPresent(p)'
  BY <1>1, <1>2 DEF LocalInv, FifoOfPresent
<1>6. VictimRight(p)'
  BY <1>1 DEF VictimRight, Exchanging, Evicting
<1>7. PageRight(p)'
  BY <1>1, <1>2 DEF LocalInv, PageRight, Exchanging, Evicting, Allocating
<1> QED  BY <1>3, <1>4, <1>5, <1>6, <1>7 DEF LocalInv

\* The elements of a concatenation, by where they come from.
LEMMA Joined ==
  ASSUME NEW S, NEW a \in Seq(S), NEW b \in Seq(S)
  PROVE  /\ a \o b \in Seq(S) /\ Len(a \o b) = Len(a) + Len(b)
         /\ \A i \in 1 .. Len(a) : (a \o b)[i] = a[i]
  OBVIOUS

LEMMA JoinedLater ==
  ASSUME NEW S, NEW a \in Seq(S), NEW b \in Seq(S), NEW i \in 1 .. Len(b)
  PROVE  (a \o b)[Len(a) + i] = b[i]
<1>1. Len(a) \in Nat /\ Len(b) \in Nat
  OBVIOUS
<1>2. /\ Len(a) + i \in 1 .. Len(a) + Len(b) /\ ~(Len(a) + i <= Len(a))
      /\ (Len(a) + i) - Len(a) = i
  BY <1>1
<1> QED  BY <1>1, <1>2

LEMMA MapPagesDoes ==
  ASSUME Domains, NEW p \in Proc, LocalInv(p), MapPages(p)
  PROVE  LET m == Len(pgd[p])
             n == Len(got[p])
             l == Len(fifo[p])
         IN
         /\ m \in Nat /\ n \in Nat /\ l \in Nat
         /\ ipc[p] = "loop" /\ Returned(p)
         /\ pgd'[p] \in Seq(Entry) /\ Len(pgd'[p]) = m + n
         /\ fifo'[p] \in Seq(Nat) /\ Len(fifo'[p]) = l + n
         /\ \A q \in 1 .. m : pgd'[p][q] = pgd[p][q]
         /\ \A i \in 1 .. n : /\ pgd'[p][m + i].present
                              /\ pgd'[p][m + i].frame = got[p][i]
                              /\ got[p][i] \in RamFrame
         /\ \A k \in 1 .. l : fifo'[p][k] = fifo[p][k]
         /\ \A i \in 1 .. n : fifo'[p][l + i] = m + i
<1> DEFINE m == Len(pgd[p])
           n == Len(got[p])
           l == Len(fifo[p])
           new == [i \in 1 .. n |-> InRam(got[p][i])]
           pages == [i \in 1 .. n |-> m + i]
<1>1. /\ pgd[p] \in Seq(Entry) /\ fifo[p] \in Seq(Nat) /\ got[p] \in Seq(RamFrame)
      /\ m \in Nat /\ n \in Nat /\ l \in Nat
  BY DEF LocalInv, TypesRight
<1>2. ipc[p] = "loop" /\ n = ins[p].n /\ Returned(p)
  BY ReturnDoes DEF MapPages
<1>3. pgd'[p] = pgd[p] \o new /\ fifo'[p] = fifo[p] \o pages
  BY <1>2 DEF MapPages, Domains
<1>4. \A i \in 1 .. n : got[p][i] \in RamFrame
  BY <1>1
<1>5. \A f \in RamFrame : InRam(f) \in Entry /\ InRam(f).present /\ InRam(f).frame = f
  BY DEF InRam, Entry
<1>6. new \in Seq(Entry) /\ Len(new) = n /\ \A i \in 1 .. n : new[i] = InRam(got[p][i])
  BY <1>1, <1>4, <1>5
<1>7. pages \in Seq(Nat) /\ Len(pages) = n /\ \A i \in 1 .. n : pages[i] = m + i
  BY <1>1
<1> HIDE DEF new, pages, m, n, l
<1>8. m = Len(pgd[p]) /\ l = Len(fifo[p])
  BY DEF m, l
<1>9. /\ pgd'[p] \in Seq(Entry) /\ Len(pgd'[p]) = m + n
      /\ \A q \in 1 .. m : pgd'[p][q] = pgd[p][q]
      /\ \A i \in 1 .. n : pgd'[p][m + i] = new[i]
  <2>1. pgd[p] \in Seq(Entry) /\ new \in Seq(Entry)
    BY <1>1, <1>6
  <2>2. Len(new) = n
    BY <1>6
  <2>3. pgd[p] \o new \in Seq(Entry) /\ Len(pgd[p] \o new) = Len(pgd[p]) + Len(new)
    BY <2>1, Joined, Zenon
  <2>4. \A i \in 1 .. Len(pgd[p]) : (pgd[p] \o new)[i] = pgd[p][i]
    BY <2>1, Joined, Zenon
  <2>5. \A i \in 1 .. Len(new) : (pgd[p] \o new)[Len(pgd[p]) + i] = new[i]
    BY <2>1, JoinedLater, Zenon
  <2>6. pgd'[p] \in Seq(Entry) /\ Len(pgd'[p]) = m + n
    BY <1>3, <1>8, <2>2, <2>3, <2>5
  <2>7. \A q \in 1 .. m : pgd'[p][q] = pgd[p][q]
    BY <1>3, <1>8, <2>4
  <2>8. \A i \in 1 .. n : pgd'[p][m + i] = new[i]
    BY <1>3, <1>8, <2>2, <2>3, <2>5
  <2> QED  BY <2>6, <2>7, <2>8
<1>10. /\ fifo'[p] \in Seq(Nat) /\ Len(fifo'[p]) = l + n
       /\ \A k \in 1 .. l : fifo'[p][k] = fifo[p][k]
       /\ \A i \in 1 .. n : fifo'[p][l + i] = m + i
  <2>1. fifo[p] \in Seq(Nat) /\ pages \in Seq(Nat)
    BY <1>1, <1>7
  <2>2. Len(pages) = n
    BY <1>7
  <2>3. fifo[p] \o pages \in Seq(Nat) /\ Len(fifo[p] \o pages) = Len(fifo[p]) + Len(pages)
    BY <2>1, Joined, Zenon
  <2>4. \A i \in 1 .. Len(fifo[p]) : (fifo[p] \o pages)[i] = fifo[p][i]
    BY <2>1, Joined, Zenon
  <2>5. \A i \in 1 .. Len(pages) : (fifo[p] \o pages)[Len(fifo[p]) + i] = pages[i]
    BY <2>1, JoinedLater, Zenon
  <2>6. fifo'[p] \in Seq(Nat) /\ Len(fifo'[p]) = l + n
    BY <1>3, <1>8, <2>2, <2>3, <2>5
  <2>7. \A k \in 1 .. l : fifo'[p][k] = fifo[p][k]
    BY <1>3, <1>8, <2>4
  <2>8. \A i \in 1 .. n : fifo'[p][l + i] = m + i
    <3>1. \A i \in 1 .. n : fifo'[p][l + i] = pages[i]
      BY <1>3, <1>8, <2>2, <2>3, <2>5
    <3> QED  BY <3>1, <1>7
  <2> QED  BY <2>6, <2>7, <2>8
<1>11. \A i \in 1 .. n : /\ pgd'[p][m + i].present
                         /\ pgd'[p][m + i].frame = got[p][i]
                         /\ got[p][i] \in RamFrame
  BY <1>4, <1>5, <1>6, <1>9
<1> QED  BY <1>1, <1>2, <1>9, <1>10, <1>11 DEF m, n, l

LEMMA MapPagesRight ==
  ASSUME Domains, NEW p \in Proc, LocalInv(p), MapPages(p)
  PROVE  LocalInv(p)'
<1> DEFINE m == Len(pgd[p])
           n == Len(got[p])
           l == Len(fifo[p])
<1>1. /\ m \in Nat /\ n \in Nat /\ l \in Nat
      /\ Returned(p)
      /\ pgd'[p] \in Seq(Entry) /\ Len(pgd'[p]) = m + n
      /\ fifo'[p] \in Seq(Nat) /\ Len(fifo'[p]) = l + n
      /\ \A q \in 1 .. m : pgd'[p][q] = pgd[p][q]
      /\ \A i \in 1 .. n : /\ pgd'[p][m + i].present
                           /\ pgd'[p][m + i].frame \in RamFrame
      /\ \A k \in 1 .. l : fifo'[p][k] = fifo[p][k]
      /\ \A i \in 1 .. n : fifo'[p][l + i] = m + i
  BY MapPagesDoes
<1>2. /\ \A k \in 1 .. l : fifo[p][k] \in 1 .. m /\ pgd[p][fifo[p][k]].present
      /\ \A j, k \in 1 .. l : fifo[p][j] = fifo[p][k] => j = k
  BY DEF LocalInv, FifoOfPresent, Pages
<1>3. \A q \in 1 .. m : pgd[p][q].frame \in IF pgd[p][q].present THEN RamFrame ELSE SwpFrame
  BY DEF LocalInv, EntriesRight, Pages
<1> HIDE DEF m, n, l
<1>4. \A q \in 1 .. m + n : q \in 1 .. m \/ \E i \in 1 .. n : q = m + i
  <2> TAKE q \in 1 .. m + n
  <2>1. ASSUME q \notin 1 .. m  PROVE q - m \in 1 .. n /\ q = m + (q - m)
    BY <1>1, <2>1
  <2> QED  BY <2>1
<1>5. \A k \in 1 .. l + n : k \in 1 .. l \/ \E i \in 1 .. n : k = l + i
  <2> TAKE k \in 1 .. l + n
  <2>1. ASSUME k \notin 1 .. l  PROVE k - l \in 1 .. n /\ k = l + (k - l)
    BY <1>1, <2>1
  <2> QED  BY <2>1
<1>6. EntriesRight(p)'
  <2>1. \A q \in 1 .. m + n :
          pgd'[p][q].frame \in IF pgd'[p][q].present THEN RamFrame ELSE SwpFrame
    BY <1>1, <1>3, <1>4
  <2> QED  BY <1>1, <2>1 DEF EntriesRight, Pages
<1>7. \A k \in 1 .. l + n : fifo'[p][k] \in 1 .. m + n /\ pgd'[p][fifo'[p][k]].present
  <2> TAKE k \in 1 .. l + n
  <2>1. CASE k \in 1 .. l
    <3>1. fifo'[p][k] = fifo[p][k] /\ fifo[p][k] \in 1 .. m
      BY <2>1, <1>1, <1>2
    <3>2. fifo[p][k] \in 1 .. m + n
      BY <3>1, <1>1
    <3>3. pgd'[p][fifo[p][k]].present
      BY <2>1, <3>1, <1>1, <1>2
    <3> QED  BY <3>1, <3>2, <3>3
  <2>2. ASSUME NEW i \in 1 .. n, k = l + i
        PROVE  fifo'[p][k] \in 1 .. m + n /\ pgd'[p][fifo'[p][k]].present
    <3>1. fifo'[p][k] = m + i
      BY <2>2, <1>1
    <3>2. m + i \in 1 .. m + n
      BY <1>1
    <3> QED  BY <3>1, <3>2, <1>1
  <2> QED  BY <2>1, <2>2, <1>5
<1>8. \A j, k \in 1 .. l + n : fifo'[p][j] = fifo'[p][k] => j = k
  <2>1. \A k \in 1 .. l : fifo'[p][k] \in 1 .. m
    BY <1>1, <1>2
  <2>2. \A i \in 1 .. n : fifo'[p][l + i] \notin 1 .. m
    <3> TAKE i \in 1 .. n
    <3>1. fifo'[p][l + i] = m + i
      BY <1>1
    <3>2. m + i \notin 1 .. m
      BY <1>1
    <3> QED  BY <3>1, <3>2
  <2>3. \A i, j \in 1 .. n : fifo'[p][l + i] = fifo'[p][l + j] => i = j
    <3> TAKE i, j \in 1 .. n
    <3>1. fifo'[p][l + i] = m + i /\ fifo'[p][l + j] = m + j
      BY <1>1
    <3>2. m + i = m + j => i = j
      BY <1>1
    <3> QED  BY <3>1, <3>2
  <2>4. \A j, k \in 1 .. l : fifo'[p][j] = fifo'[p][k] => j = k
    BY <1>1, <1>2
  <2> TAKE j, k \in 1 .. l + n
  <2> HAVE fifo'[p][j] = fifo'[p][k]
  <2>5. CASE j \in 1 .. l
    <3>1. k \in 1 .. l
      BY <2>1, <2>2, <2>5, <1>5
    <3> QED  BY <2>4, <2>5, <3>1
  <2>6. ASSUME NEW i \in 1 .. n, j = l + i  PROVE j = k
    <3>1. k \notin 1 .. l
      BY <2>1, <2>2, <2>6
    <3> QED  BY <2>3, <2>6, <3>1, <1>5
  <2> QED  BY <2>5, <2>6, <1>5
<1> QED  BY <1>1, <1>6, <1>7, <1>8, ReturnedRight DEF Pages

LEMMA CopyInRight ==
  ASSUME Domains, NEW p \in Proc, LocalInv(p), CopyIn(p) \/ PutSwapFrame(p)
  PROVE  LocalInv(p)'
<1>1. CASE CopyIn(p)
  BY <1>1, AdvanceRight DEF CopyIn
<1>2. CASE PutSwapFrame(p)
  BY <1>2, AdvanceRight DEF PutSwapFrame
<1> QED  BY <1>1, <1>2

LEMMA CopyOutRight ==
  ASSUME Domains, NEW p \in Proc, LocalInv(p), NEW here, NEW next,
         <<here, next>> \in {<<"copyout", "copyin">>, <<"acopy", "aclean">>},
         CopyOut(p, here, next)
  PROVE  LocalInv(p)'
  BY AdvanceRight DEF CopyOut

LEMMA LocalKept ==
  ASSUME Inv, NEW p \in Proc, Start(p) \/ Continue(p)
  PROVE  Domains' /\ \A d \in Proc : LocalInv(d)'
<1>1. Domains /\ LocalInv(p) /\ ramFree \subseteq RamFrame /\ swpFree \subseteq SwpFrame
  BY DEF Inv
<1>2. Others(p)
  BY <1>1, StartAlone, ContinueAlone
<1>3. \A d \in Proc \ {p} : LocalInv(d)'
  BY <1>2, KeptLocal DEF Others, Inv
<1>4. LocalInv(p)'
  <2> USE <1>1
  <2>1. CASE Start(p)                               BY <2>1, StartRight
  <2>2. CASE GetSwapFrame(p, "getswp", "copyout")   BY <2>2, GetSwapFrameRight
  <2>3. CASE CopyOut(p, "copyout", "copyin")        BY <2>3, CopyOutRight
  <2>4. CASE CopyIn(p) \/ PutSwapFrame(p)           BY <2>4, CopyInRight
  <2>5. CASE Settle(p)                              BY <2>5, SettleRight
  <2>6. CASE Access(p)                              BY <2>6, AccessRight
  <2>7. CASE CountFree(p)                           BY <2>7, CountFreeRight
  <2>8. CASE Decide(p)                              BY <2>8, DecideRight
  <2>9. CASE TakeFreeFrame(p)                       BY <2>9, TakeFreeFrameRight
  <2>10. CASE TakeVictimFrame(p)                    BY <2>10, TakeVictimFrameRight
  <2>11. CASE GetSwapFrame(p, "aswp", "acopy")      BY <2>11, GetSwapFrameRight
  <2>12. CASE CopyOut(p, "acopy", "aclean")         BY <2>12, CopyOutRight
  <2>13. CASE Evict(p)                              BY <2>13, EvictRight
  <2>14. CASE MapPages(p)                           BY <2>14, MapPagesRight
  <2> QED  BY <2>1, <2>2, <2>3, <2>4, <2>5, <2>6, <2>7, <2>8, <2>9, <2>10,
              <2>11, <2>12, <2>13, <2>14 DEF Continue
<1> QED  BY <1>2, <1>3, <1>4 DEF Others

-----------------------------------------------------------------------------
(* The frames of RAM *)

\* The step moves no frame of RAM, or gives up those in got[p].
LEMMA RamUnmoved ==
  ASSUME NEW p \in Proc, Others(p), NEW f \in RamFrame, RamOneUse(f),
         ramFree' = ramFree, pgd'[p] = pgd[p], got'[p] \in {got[p], <<>>}
  PROVE  RamOneUse(f)'
<1>1. ASSUME NEW q \in Nat
      PROVE  /\ RamPage(f, p, q)' => RamPage(f, p, q)
             /\ RamGot(f, p, q)' => RamGot(f, p, q)
  <2>1. RamPage(f, p, q)' => RamPage(f, p, q)
    BY DEF RamPage, Pages
  <2>2. RamGot(f, p, q)' => RamGot(f, p, q)
    BY DEF RamGot
  <2> QED  BY <2>1, <2>2
<1>2. ASSUME NEW d \in Proc, NEW q \in Nat
      PROVE  /\ RamPage(f, d, q)' => RamPage(f, d, q)
             /\ RamGot(f, d, q)' => RamGot(f, d, q)
  BY <1>1, KeptUses DEF Others
<1> QED  BY <1>2, RamShrinks

\* The victim's frame is the target's now.
LEMMA SettleRam ==
  ASSUME Domains, NEW p \in Proc, LocalInv(p), Others(p), Settle(p),
         NEW f \in RamFrame, RamOneUse(f)
  PROVE  RamOneUse(f)'
<1> DEFINE t == ins[p].page
           v == vic[p]
<1>1. /\ v \in Pages(p) /\ t \in Pages(p) /\ v # t
      /\ pgd[p][v].present /\ Len(pgd'[p]) = Len(pgd[p])
      /\ pgd'[p][v] = InSwap(spare[p]) /\ pgd'[p][t] = InRam(pgd[p][v].frame)
      /\ \A q \in Pages(p) \ {v, t} : pgd'[p][q] = pgd[p][q]
      /\ got'[p] = got[p]
  BY SettleDoes DEF VictimFrame
<1>2. ramFree' = ramFree /\ v \in Nat
  BY DEF Settle, devVars, LocalInv, TypesRight
<1> HIDE DEF t, v
<1>3. \A q \in Nat : RamPage(f, p, q)' =>
        IF q = t THEN RamPage(f, p, v) ELSE q # v /\ RamPage(f, p, q)
  <2>1. ~pgd'[p][v].present /\ pgd'[p][t].frame = pgd[p][v].frame
    BY <1>1 DEF InSwap, InRam
  <2> QED  BY <1>1, <2>1 DEF RamPage, Pages
<1>4. \A q \in Nat : RamGot(f, p, q)' => RamGot(f, p, q)
  BY <1>1 DEF RamGot
<1>5. \A d \in Proc \ {p} : \A q \in Nat : /\ RamPage(f, d, q)' => RamPage(f, d, q)
                                           /\ RamGot(f, d, q)' => RamGot(f, d, q)
  BY KeptUses DEF Others
<1>6. \A d \in Proc : \A q \in Nat : RamGot(f, d, q)' => RamGot(f, d, q)
  BY <1>4, <1>5
<1>7. \A d \in Proc : \A q \in Nat : RamPage(f, d, q)' =>
        IF d = p /\ q = t THEN RamPage(f, p, v)
        ELSE (d = p => q # v) /\ RamPage(f, d, q)
  BY <1>3, <1>5
<1> QED  BY <1>2, <1>6, <1>7 DEF RamOneUse

\* What a frame put in front of frm_lst does to the uses of f.
LEMMA GotOneMore ==
  ASSUME NEW p \in Proc, NEW g \in RamFrame, got[p] \in Seq(RamFrame),
         got'[p] = <<g>> \o got[p], NEW f
  PROVE  \A k \in Nat : RamGot(f, p, k)' =>
           (k = 1 /\ f = g) \/ (k # 1 /\ k - 1 \in Nat /\ RamGot(f, p, k - 1))
<1> TAKE k \in Nat
<1> HAVE RamGot(f, p, k)'
<1>1. k \in 1 .. Len(got'[p]) /\ got'[p][k] = f /\ Len(got'[p]) = Len(got[p]) + 1
  BY DEF RamGot
<1>2. CASE k = 1
  BY <1>1, <1>2
<1>3. CASE k # 1
  <2>1. k - 1 \in 1 .. Len(got[p]) /\ got'[p][k] = got[p][k - 1]
    BY <1>1, <1>3
  <2> QED  BY <1>1, <1>3, <2>1 DEF RamGot
<1> QED  BY <1>2, <1>3

\* Another frame is put in front of frm_lst.
LEMMA GotShifted ==
  ASSUME NEW p \in Proc, Others(p), NEW f \in RamFrame, RamOneUse(f),
         f \in ramFree' => f \in ramFree,
         \A q \in Nat : RamPage(f, p, q)' => RamPage(f, p, q),
         \A k \in Nat : RamGot(f, p, k)' => k - 1 \in Nat /\ RamGot(f, p, k - 1)
  PROVE  RamOneUse(f)'
<1>1. \A d \in Proc \ {p} : \A q \in Nat : /\ RamPage(f, d, q)' => RamPage(f, d, q)
                                           /\ RamGot(f, d, q)' => RamGot(f, d, q)
  BY KeptUses DEF Others
<1>2. \A d \in Proc : \A q \in Nat : RamPage(f, d, q)' => RamPage(f, d, q)
  BY <1>1
<1>3. \A d \in Proc : \A k \in Nat : RamGot(f, d, k)' => \E j \in Nat : RamGot(f, d, j)
  BY <1>1
<1>4. \A j, k \in Nat : RamGot(f, p, j)' /\ RamGot(f, p, k)' => j = k
  <2> TAKE j, k \in Nat
  <2> HAVE RamGot(f, p, j)' /\ RamGot(f, p, k)'
  <2>1. j - 1 = k - 1
    BY DEF RamOneUse
  <2> QED  BY <2>1
<1>5. \A c, d \in Proc : \A j, k \in Nat : RamGot(f, c, j)' /\ RamGot(f, d, k)' => c = d
  BY <1>3 DEF RamOneUse
<1>6. \A c, d \in Proc : \A j, k \in Nat : RamGot(f, c, j)' /\ RamGot(f, d, k)' => j = k
  BY <1>1, <1>4, <1>5 DEF RamOneUse
<1>7. \A c, d \in Proc : \A q, k \in Nat : ~(RamPage(f, c, q)' /\ RamGot(f, d, k)')
  BY <1>2, <1>3 DEF RamOneUse
<1>8. f \in ramFree' => \A d \in Proc : \A k \in Nat : ~RamPage(f, d, k)' /\ ~RamGot(f, d, k)'
  BY <1>2, <1>3 DEF RamOneUse
<1>9. \A c, d \in Proc : \A q, r \in Nat :
        RamPage(f, c, q)' /\ RamPage(f, d, r)' => c = d /\ q = r
  BY <1>2 DEF RamOneUse
<1> QED  BY <1>5, <1>6, <1>7, <1>8, <1>9 DEF RamOneUse

\* A free frame is one of frm_lst now.
LEMMA TakeFreeFrameRam ==
  ASSUME Domains, ramFree \subseteq RamFrame, NEW p \in Proc, LocalInv(p), Others(p),
         TakeFreeFrame(p), NEW f \in RamFrame, RamOneUse(f)
  PROVE  RamOneUse(f)'
<1> PICK g \in ramFree :
      /\ g \in RamFrame /\ ramFree' = ramFree \ {g} /\ pgd'[p] = pgd[p]
      /\ got[p] \in Seq(RamFrame) /\ got'[p] = <<g>> \o got[p]
  BY TakeFreeFrameDoes
<1>1. \A k \in Nat : RamGot(f, p, k)' =>
        (k = 1 /\ f = g) \/ (k # 1 /\ k - 1 \in Nat /\ RamGot(f, p, k - 1))
  BY GotOneMore
<1>2. \A q \in Nat : RamPage(f, p, q)' => RamPage(f, p, q)
  BY DEF RamPage, Pages
<1>3. CASE f = g
  <2>1. \A d \in Proc : \A k \in Nat : ~RamPage(f, d, k) /\ ~RamGot(f, d, k)
    BY <1>3 DEF RamOneUse
  <2>2. \A d \in Proc : \A k \in Nat : ~RamPage(f, d, k)' /\ (RamGot(f, d, k)' => d = p /\ k = 1)
    BY <2>1, <1>1, <1>2, KeptUses DEF Others
  <2> QED  BY <1>3, <2>2 DEF RamOneUse
<1>4. CASE f # g
  <2>1. \A k \in Nat : RamGot(f, p, k)' => k - 1 \in Nat /\ RamGot(f, p, k - 1)
    BY <1>1, <1>4
  <2> QED  BY <1>2, <2>1, GotShifted
<1> QED  BY <1>3, <1>4

\* The victim's frame is one of frm_lst now.
LEMMA EvictRam ==
  ASSUME Domains, NEW p \in Proc, LocalInv(p), Others(p), Evict(p),
         NEW f \in RamFrame, RamOneUse(f)
  PROVE  RamOneUse(f)'
<1> DEFINE v == vic[p]
           g == VictimFrame(p)
<1>1. /\ v \in Pages(p) /\ pgd[p][v].present /\ g = pgd[p][v].frame /\ g \in RamFrame
      /\ Len(pgd'[p]) = Len(pgd[p]) /\ ~pgd'[p][v].present
      /\ \A q \in Pages(p) \ {v} : pgd'[p][q] = pgd[p][q]
      /\ got[p] \in Seq(RamFrame) /\ got'[p] = <<g>> \o got[p]
  BY EvictDoes DEF VictimFrame
<1>2. ramFree' = ramFree /\ v \in Nat
  BY DEF Evict, LocalInv, TypesRight
<1> HIDE DEF v, g
<1>3. \A k \in Nat : RamGot(f, p, k)' =>
        (k = 1 /\ f = g) \/ (k # 1 /\ k - 1 \in Nat /\ RamGot(f, p, k - 1))
  BY <1>1, GotOneMore
<1>4. \A q \in Nat : RamPage(f, p, q)' => q # v /\ RamPage(f, p, q)
  BY <1>1 DEF RamPage, Pages
<1>5. CASE f = g
  <2>1. RamPage(f, p, v)
    BY <1>1, <1>5 DEF RamPage
  <2>2. f \notin ramFree'
    BY <1>2, <2>1 DEF RamOneUse
  <2>3. \A d \in Proc : \A k \in Nat : (RamPage(f, d, k) => d = p /\ k = v) /\ ~RamGot(f, d, k)
    BY <1>2, <2>1 DEF RamOneUse
  <2>4. \A d \in Proc : \A k \in Nat : ~RamPage(f, d, k)' /\ (RamGot(f, d, k)' => d = p /\ k = 1)
    BY <2>3, <1>3, <1>4, KeptUses DEF Others
  <2> QED  BY <2>2, <2>4 DEF RamOneUse
<1>6. CASE f # g
  <2>1. \A k \in Nat : RamGot(f, p, k)' => k - 1 \in Nat /\ RamGot(f, p, k - 1)
    BY <1>3, <1>6
  <2> QED  BY <1>2, <1>4, <2>1, GotShifted
<1> QED  BY <1>5, <1>6

\* The frames of frm_lst are those of the new pages now.
LEMMA MapPagesRam ==
  ASSUME Domains, NEW p \in Proc, LocalInv(p), Others(p), MapPages(p),
         NEW f \in RamFrame, RamOneUse(f)
  PROVE  RamOneUse(f)'
<1> DEFINE m == Len(pgd[p])
           n == Len(got[p])
<1>1. /\ m \in Nat /\ n \in Nat /\ got'[p] = <<>> /\ Len(pgd'[p]) = m + n
      /\ \A q \in 1 .. m : pgd'[p][q] = pgd[p][q]
      /\ \A i \in 1 .. n : pgd'[p][m + i].frame = got[p][i]
  BY MapPagesDoes DEF Returned
<1>2. ramFree' = ramFree
  BY DEF MapPages, devVars
<1>3. \A q \in Nat : RamPage(f, p, q) => q <= m
  BY <1>1 DEF RamPage, Pages
<1>4. \A q \in Nat : RamPage(f, p, q)' =>
        RamPage(f, p, q) \/ (q > m /\ q - m \in Nat /\ RamGot(f, p, q - m))
  <2> TAKE q \in Nat
  <2> HAVE RamPage(f, p, q)'
  <2>1. q \in 1 .. m + n /\ pgd'[p][q].present /\ pgd'[p][q].frame = f
    BY <1>1 DEF RamPage, Pages
  <2>2. CASE q <= m
    <3>1. q \in 1 .. m
      BY <2>1, <2>2, <1>1
    <3> QED  BY <2>1, <3>1, <1>1 DEF RamPage, Pages
  <2>3. CASE ~(q <= m)
    <3>1. m \in Nat /\ n \in Nat /\ q \in 1 .. m + n
      BY <2>1, <1>1
    <3> HIDE DEF m, n
    <3>2. q > m /\ q - m \in 1 .. n /\ q - m \in Nat /\ m + (q - m) = q
      BY <3>1, <2>3
    <3>3. got[p][q - m] = f
      BY <2>1, <3>2, <1>1
    <3> QED  BY <3>2, <3>3 DEF RamGot, n
  <2> QED  BY <2>2, <2>3
<1>5. \A k \in Nat : ~RamGot(f, p, k)'
  BY <1>1 DEF RamGot
<1> HIDE DEF m, n
<1>6. \A d \in Proc \ {p} : \A q \in Nat : /\ RamPage(f, d, q)' => RamPage(f, d, q)
                                           /\ RamGot(f, d, q)' => RamGot(f, d, q)
  BY KeptUses DEF Others
<1>7. \A d \in Proc : \A k \in Nat : RamGot(f, d, k)' => d # p /\ RamGot(f, d, k)
  BY <1>5, <1>6
<1>8. \A d \in Proc : \A q \in Nat : RamPage(f, d, q)' =>
        RamPage(f, d, q) \/ (d = p /\ \E k \in Nat : RamGot(f, p, k))
  BY <1>4, <1>6
<1>9. \A q, r \in Nat : RamPage(f, p, q)' /\ RamPage(f, p, r)' => q = r
  <2> TAKE q, r \in Nat
  <2> HAVE RamPage(f, p, q)' /\ RamPage(f, p, r)'
  <2>1. CASE RamPage(f, p, q)
    BY <2>1, <1>4 DEF RamOneUse
  <2>2. CASE ~RamPage(f, p, q)
    <3>1. /\ q > m /\ q - m \in Nat /\ RamGot(f, p, q - m)
          /\ r > m /\ r - m \in Nat /\ RamGot(f, p, r - m)
      BY <2>2, <1>4 DEF RamOneUse
    <3>2. q - m = r - m
      BY <3>1 DEF RamOneUse
    <3> QED  BY <3>2, <1>1
  <2> QED  BY <2>1, <2>2
<1>10. \A c, d \in Proc : \A q, r \in Nat :
         RamPage(f, c, q)' /\ RamPage(f, d, r)' => c = d /\ q = r
  BY <1>6, <1>8, <1>9 DEF RamOneUse
<1>11. \A c, d \in Proc : \A q, k \in Nat : ~(RamPage(f, c, q)' /\ RamGot(f, d, k)')
  BY <1>7, <1>8 DEF RamOneUse
<1>12. \A c, d \in Proc : \A j, k \in Nat :
         RamGot(f, c, j)' /\ RamGot(f, d, k)' => c = d /\ j = k
  BY <1>7 DEF RamOneUse
<1>13. f \in ramFree' => \A d \in Proc : \A k \in Nat : ~RamPage(f, d, k)' /\ ~RamGot(f, d, k)'
  BY <1>2, <1>7, <1>8 DEF RamOneUse
<1> QED  BY <1>10, <1>11, <1>12, <1>13 DEF RamOneUse

-----------------------------------------------------------------------------
(* The frames of the swap device *)

\* The step moves no frame of the swap device, or gives up the spare one.
LEMMA SwpUnmoved ==
  ASSUME NEW p \in Proc, Others(p), NEW f \in SwpFrame, SwpOneUse(f),
         f \in swpFree' => f \in swpFree,
         spare'[p] = f => spare[p] = f,
         \A q \in Nat : SwpPage(f, p, q)' => SwpPage(f, p, q)
  PROVE  SwpOneUse(f)'
<1>1. \A d \in Proc : spare'[d] = f => spare[d] = f
  BY DEF Others, Keeps
<1>2. \A d \in Proc : \A q \in Nat : SwpPage(f, d, q)' => SwpPage(f, d, q)
  BY KeptUses DEF Others
<1> QED  BY <1>1, <1>2, SwpShrinks

\* The table stays as it is, and its entries are read as before.
LEMMA SwpPagesSame ==
  ASSUME NEW p \in Proc, pgd'[p] = pgd[p], ipc[p] # "settle", pgd[p] \in Seq(Entry), NEW f
  PROVE  \A q \in Nat : SwpPage(f, p, q)' => SwpPage(f, p, q)
<1>1. Pages(p)' = Pages(p) /\ 0 \notin Pages(p)
  BY DEF Pages
<1> QED  BY <1>1 DEF SwpPage, Leaving

\* New pages are in RAM.
LEMMA MapPagesSwp ==
  ASSUME Domains, NEW p \in Proc, LocalInv(p), Others(p), MapPages(p),
         NEW f \in SwpFrame, SwpOneUse(f)
  PROVE  SwpOneUse(f)'
<1> DEFINE m == Len(pgd[p])
           n == Len(got[p])
<1>1. /\ m \in Nat /\ n \in Nat /\ Len(pgd'[p]) = m + n
      /\ \A q \in 1 .. m : pgd'[p][q] = pgd[p][q]
      /\ \A i \in 1 .. n : pgd'[p][m + i].present
      /\ ipc[p] = "loop" /\ spare'[p] = None
  BY MapPagesDoes DEF Returned
<1>2. swpFree' = swpFree
  BY DEF MapPages, devVars
<1>3. ASSUME NEW q \in Nat, SwpPage(f, p, q)'  PROVE SwpPage(f, p, q)
  <2>1. q \in 1 .. m + n /\ ~pgd'[p][q].present /\ pgd'[p][q].frame = f
    BY <1>1, <1>3 DEF SwpPage, Pages
  <2>2. m \in Nat /\ n \in Nat
    BY <1>1
  <2>3. ASSUME ~(q <= m)  PROVE q - m \in 1 .. n /\ m + (q - m) = q
    <3> HIDE DEF m, n
    <3>1. q \in 1 .. m + n
      BY <2>1
    <3> QED  BY <2>2, <2>3, <3>1
  <2>4. q <= m
    BY <1>1, <2>1, <2>3
  <2>5. q \in 1 .. m
    BY <2>1, <2>2, <2>4
  <2> QED  BY <1>1, <2>1, <2>5 DEF SwpPage, Pages, Leaving
<1>4. spare'[p] = f => spare[p] = f
  BY <1>1, PagingAssumption
<1> QED  BY <1>2, <1>3, <1>4, SwpUnmoved

\* A free frame is the spare one now.
LEMMA GetSwapFrameSwp ==
  ASSUME Domains, swpFree \subseteq SwpFrame, NEW p \in Proc, LocalInv(p), Others(p),
         NEW here \in {"getswp", "aswp"}, NEW next, GetSwapFrame(p, here, next),
         NEW f \in SwpFrame, SwpOneUse(f)
  PROVE  SwpOneUse(f)'
<1>1. pgd'[p] = pgd[p] /\ ipc[p] # "settle" /\ pgd[p] \in Seq(Entry)
  BY DEF GetSwapFrame, tabVars, LocalInv, TypesRight
<1>2. \A q \in Nat : SwpPage(f, p, q)' => SwpPage(f, p, q)
  BY <1>1, SwpPagesSame
<1>3. CASE Return(p, "error") /\ UNCHANGED swpFree
  <2>1. spare'[p] = None
    BY <1>3, ReturnDoes DEF Returned
  <2> QED  BY <1>2, <1>3, <2>1, SwpUnmoved, PagingAssumption
<1>4. ASSUME NEW g \in swpFree, spare' = [spare EXCEPT ![p] = g], swpFree' = swpFree \ {g}
      PROVE  SwpOneUse(f)'
  <2>1. spare'[p] = g
    BY <1>4 DEF Domains
  <2>2. CASE f # g
    BY <1>2, <1>4, <2>1, <2>2, SwpUnmoved
  <2>3. CASE f = g
    <3>1. \A d \in Proc : spare[d] # f /\ \A q \in Nat : ~SwpPage(f, d, q)
      BY <2>3 DEF SwpOneUse
    <3>2. \A d \in Proc : \A q \in Nat : ~SwpPage(f, d, q)'
      BY <1>2, <3>1, KeptUses DEF Others
    <3>3. \A d \in Proc : spare'[d] = f => d = p
      BY <3>1 DEF Others, Keeps
    <3>4. f \notin swpFree'
      BY <1>4, <2>3
    <3> QED  BY <3>2, <3>3, <3>4 DEF SwpOneUse
  <2> QED  BY <2>2, <2>3
<1> QED  BY <1>3, <1>4 DEF GetSwapFrame

\* The target's frame is free now: the entry that still names it does not count.
LEMMA PutSwapFrameSwp ==
  ASSUME Domains, NEW p \in Proc, LocalInv(p), Others(p), PutSwapFrame(p),
         NEW f \in SwpFrame, SwpOneUse(f)
  PROVE  SwpOneUse(f)'
<1> DEFINE t == ins[p].page
           g == pgd[p][t].frame
<1>1. /\ ipc[p] = "putswp" /\ ipc'[p] = "settle" /\ swpFree' = swpFree \cup {g}
      /\ pgd'[p] = pgd[p] /\ ins'[p] = ins[p] /\ spare'[p] = spare[p]
  BY DEF PutSwapFrame, Domains, Goto, tabVars, locVars
<1>2. t \in Pages(p) /\ ~pgd[p][t].present /\ t \in Nat /\ pgd[p] \in Seq(Entry)
  BY <1>1 DEF LocalInv, TypesRight, PageRight, Exchanging
<1>3. Pages(p)' = Pages(p) /\ 0 \notin Pages(p)
  BY <1>1, <1>2 DEF Pages
<1>4. \A q \in Nat : SwpPage(f, p, q)' => q # t /\ SwpPage(f, p, q)
  BY <1>1, <1>3 DEF SwpPage, Leaving
<1>5. CASE f # g
  BY <1>1, <1>4, <1>5, SwpUnmoved
<1>6. CASE f = g
  <2>1. SwpPage(f, p, t)
    BY <1>1, <1>2, <1>3, <1>6 DEF SwpPage, Leaving
  <2> HIDE DEF t, g
  <2>2. \A d \in Proc : spare[d] # f /\ \A q \in Nat : SwpPage(f, d, q) => d = p /\ q = t
    BY <1>2, <2>1 DEF SwpOneUse
  <2>3. \A d \in Proc : \A q \in Nat : ~SwpPage(f, d, q)'
    BY <1>4, <2>2, KeptUses DEF Others
  <2>4. \A d \in Proc : spare'[d] # f
    BY <1>1, <2>2 DEF Others, Keeps
  <2> QED  BY <2>3, <2>4 DEF SwpOneUse
<1> QED  BY <1>5, <1>6

\* The spare frame is the victim's now.
LEMMA SpareToPage ==
  ASSUME NEW p \in Proc, Others(p), NEW f \in SwpFrame, SwpOneUse(f), NEW v \in Nat,
         swpFree' = swpFree, spare'[p] = None,
         \A q \in Nat : SwpPage(f, p, q)' => (q = v /\ f = spare[p]) \/ SwpPage(f, p, q)
  PROVE  SwpOneUse(f)'
<1>1. spare'[p] # f
  BY PagingAssumption
<1>2. CASE f # spare[p]
  BY <1>1, <1>2, SwpUnmoved
<1>3. CASE f = spare[p]
  <2>1. \A d \in Proc : (spare[d] = f => d = p) /\ \A q \in Nat : ~SwpPage(f, d, q)
    BY <1>3 DEF SwpOneUse
  <2>2. f \notin swpFree'
    BY <1>3 DEF SwpOneUse
  <2>3. \A d \in Proc : spare'[d] # f
    BY <1>1, <2>1 DEF Others, Keeps
  <2>4. \A d \in Proc : \A q \in Nat : SwpPage(f, d, q)' => d = p /\ q = v
    BY <2>1, KeptUses DEF Others
  <2> QED  BY <2>2, <2>3, <2>4 DEF SwpOneUse
<1> QED  BY <1>2, <1>3

LEMMA SettleSwp ==
  ASSUME Domains, NEW p \in Proc, LocalInv(p), Others(p), Settle(p),
         NEW f \in SwpFrame, SwpOneUse(f)
  PROVE  SwpOneUse(f)'
<1> DEFINE t == ins[p].page
           v == vic[p]
<1>1. /\ ipc[p] = "settle" /\ ipc'[p] # "settle"
      /\ Len(pgd'[p]) = Len(pgd[p]) /\ spare'[p] = None
      /\ pgd'[p][v] = InSwap(spare[p]) /\ pgd'[p][t] = InRam(VictimFrame(p))
      /\ \A q \in Pages(p) \ {v, t} : pgd'[p][q] = pgd[p][q]
  BY SettleDoes
<1>2. swpFree' = swpFree /\ v \in Nat
  BY DEF Settle, devVars, LocalInv, TypesRight
<1>3. pgd'[p][t].present /\ pgd'[p][v].frame = spare[p]
  BY <1>1 DEF InSwap, InRam
<1>4. \A q \in Nat : SwpPage(f, p, q)' => (q = v /\ f = spare[p]) \/ SwpPage(f, p, q)
  BY <1>1, <1>3 DEF SwpPage, Leaving, Pages
<1> QED  BY <1>1, <1>2, <1>4, SpareToPage

LEMMA EvictSwp ==
  ASSUME Domains, NEW p \in Proc, LocalInv(p), Others(p), Evict(p),
         NEW f \in SwpFrame, SwpOneUse(f)
  PROVE  SwpOneUse(f)'
<1> DEFINE v == vic[p]
<1>1. /\ ipc[p] = "aclean" /\ Len(pgd'[p]) = Len(pgd[p]) /\ spare'[p] = None
      /\ pgd'[p][v].frame = spare[p]
      /\ \A q \in Pages(p) \ {v} : pgd'[p][q] = pgd[p][q]
  BY EvictDoes
<1>2. swpFree' = swpFree /\ v \in Nat /\ pgd[p] \in Seq(Entry)
  BY DEF Evict, LocalInv, TypesRight
<1>3. 0 \notin Pages(p)
  BY <1>2 DEF Pages
<1>4. \A q \in Nat : SwpPage(f, p, q)' => (q = v /\ f = spare[p]) \/ SwpPage(f, p, q)
  BY <1>1, <1>3 DEF SwpPage, Leaving, Pages
<1> QED  BY <1>1, <1>2, <1>4, SpareToPage

-----------------------------------------------------------------------------
(* Steps that move no frame on a device *)

RamQuiet(p) ==
  ramFree' = ramFree /\ pgd'[p] = pgd[p] /\ got'[p] \in {got[p], <<>>}

SwpQuiet(p) ==
  /\ swpFree' = swpFree /\ pgd'[p] = pgd[p] /\ spare'[p] \in {spare[p], None}
  /\ ipc[p] # "settle"

LEMMA StartQuiet ==
  ASSUME Domains, NEW p \in Proc, Start(p)
  PROVE  RamQuiet(p) /\ SwpQuiet(p)
<1>1. ASSUME NEW i, NEW next, Begin(p, i, next), ipc[p] = "idle"
      PROVE  RamQuiet(p) /\ SwpQuiet(p)
  <2> USE DEF RamQuiet, SwpQuiet, devVars, tabVars
  <2>1. CASE UNCHANGED <<devVars, tabVars, vic, spare, got, avail, result>>
    BY <1>1, <2>1
  <2>2. CASE Return(p, "error") /\ UNCHANGED <<devVars, tabVars>>
    BY <1>1, <2>2, ReturnDoes DEF Returned
  <2>3. CASE UNCHANGED <<devVars, pgd, spare, got, avail, result>>
    BY <1>1, <2>3
  <2> QED  BY <1>1, <2>1, <2>2, <2>3 DEF Begin
<1>2. CASE \E q \in 1 .. MaxPages : StartRead(p, q)
  BY <1>1, <1>2 DEF StartRead
<1>3. CASE \E q \in 1 .. MaxPages, d \in Data : StartWrite(p, q, d)
  BY <1>1, <1>3 DEF StartWrite
<1>4. CASE \E q \in 1 .. MaxPages + 1, n \in 1 .. MaxPages : StartAlloc(p, q, n)
  BY <1>1, <1>4 DEF StartAlloc
<1> QED  BY <1>2, <1>3, <1>4 DEF Start

LEMMA GetSwapFrameQuiet ==
  ASSUME Domains, NEW p \in Proc, NEW here, NEW next, GetSwapFrame(p, here, next)
  PROVE  RamQuiet(p)
<1> USE DEF RamQuiet, GetSwapFrame, tabVars
<1>1. CASE Return(p, "error")
  BY <1>1, ReturnDoes DEF Returned
<1>2. CASE UNCHANGED <<ins, vic, got, avail, result>>
  BY <1>2
<1> QED  BY <1>1, <1>2

LEMMA CopyQuiet ==
  ASSUME Domains, NEW p \in Proc,
         \/ CopyOut(p, "copyout", "copyin") \/ CopyOut(p, "acopy", "aclean")
         \/ CopyIn(p) \/ CountFree(p)
  PROVE  RamQuiet(p) /\ SwpQuiet(p)
  BY DEF RamQuiet, SwpQuiet, CopyOut, CopyIn, CountFree, devVars, tabVars, locVars

LEMMA EndQuiet ==
  ASSUME Domains, NEW p \in Proc, Access(p) \/ Decide(p) \/ TakeVictimFrame(p)
  PROVE  RamQuiet(p) /\ SwpQuiet(p)
<1> USE DEF RamQuiet, SwpQuiet, devVars, tabVars, locVars
<1>1. CASE Access(p)
  BY <1>1, ReturnDoes DEF Access, Returned
<1>2. CASE Decide(p)
  <2>1. CASE Return(p, "error")
    BY <1>2, <2>1, ReturnDoes DEF Decide, Returned
  <2>2. CASE UNCHANGED locVars
    BY <1>2, <2>2 DEF Decide
  <2> QED  BY <1>2, <2>1, <2>2 DEF Decide
<1>3. CASE TakeVictimFrame(p)
  <2>1. CASE Return(p, "error")
    BY <1>3, <2>1, ReturnDoes DEF TakeVictimFrame, Returned
  <2>2. CASE UNCHANGED <<ins, spare, got, avail, result>>
    BY <1>3, <2>2 DEF TakeVictimFrame
  <2> QED  BY <1>3, <2>1, <2>2 DEF TakeVictimFrame
<1> QED  BY <1>1, <1>2, <1>3

LEMMA RamKept ==
  ASSUME Inv, NEW p \in Proc, Start(p) \/ Continue(p), NEW f \in RamFrame
  PROVE  RamOneUse(f)'
<1>1. Domains /\ LocalInv(p) /\ RamOneUse(f) /\ ramFree \subseteq RamFrame
  BY DEF Inv
<1>2. Others(p)
  BY <1>1, StartAlone, ContinueAlone
<1>3. CASE RamQuiet(p)
  BY <1>1, <1>2, <1>3, RamUnmoved DEF RamQuiet
<1>4. CASE PutSwapFrame(p)
  BY <1>3, <1>4 DEF PutSwapFrame, RamQuiet, tabVars, locVars
<1>5. CASE Settle(p)          BY <1>1, <1>2, <1>5, SettleRam
<1>6. CASE TakeFreeFrame(p)   BY <1>1, <1>2, <1>6, TakeFreeFrameRam
<1>7. CASE Evict(p)           BY <1>1, <1>2, <1>7, EvictRam
<1>8. CASE MapPages(p)        BY <1>1, <1>2, <1>8, MapPagesRam
<1> QED  BY <1>1, <1>3, <1>4, <1>5, <1>6, <1>7, <1>8,
            StartQuiet, GetSwapFrameQuiet, CopyQuiet, EndQuiet DEF Continue

LEMMA SwpKept ==
  ASSUME Inv, NEW p \in Proc, Start(p) \/ Continue(p), NEW f \in SwpFrame
  PROVE  SwpOneUse(f)'
<1>1. Domains /\ LocalInv(p) /\ SwpOneUse(f) /\ swpFree \subseteq SwpFrame
  BY DEF Inv
<1>2. Others(p)
  BY <1>1, StartAlone, ContinueAlone
<1>3. CASE SwpQuiet(p)
  <2>1. spare'[p] = f => spare[p] = f
    BY <1>3, PagingAssumption DEF SwpQuiet
  <2>2. \A q \in Nat : SwpPage(f, p, q)' => SwpPage(f, p, q)
    BY <1>1, <1>3, SwpPagesSame DEF SwpQuiet, LocalInv, TypesRight
  <2> QED  BY <1>1, <1>2, <1>3, <2>1, <2>2, SwpUnmoved DEF SwpQuiet
<1>4. CASE TakeFreeFrame(p)
  BY <1>3, <1>4 DEF TakeFreeFrame, SwpQuiet, tabVars
<1>5. CASE GetSwapFrame(p, "getswp", "copyout")  BY <1>1, <1>2, <1>5, GetSwapFrameSwp
<1>6. CASE GetSwapFrame(p, "aswp", "acopy")      BY <1>1, <1>2, <1>6, GetSwapFrameSwp
<1>7. CASE PutSwapFrame(p)    BY <1>1, <1>2, <1>7, PutSwapFrameSwp
<1>8. CASE Settle(p)          BY <1>1, <1>2, <1>8, SettleSwp
<1>9. CASE Evict(p)           BY <1>1, <1>2, <1>9, EvictSwp
<1>10. CASE MapPages(p)       BY <1>1, <1>2, <1>10, MapPagesSwp
<1> QED  BY <1>1, <1>3, <1>4, <1>5, <1>6, <1>7, <1>8, <1>9, <1>10,
            StartQuiet, CopyQuiet, EndQuiet DEF Continue

-----------------------------------------------------------------------------
LEMMA InitRight == Init => Inv
<1> SUFFICES ASSUME Init  PROVE Inv
  OBVIOUS
<1>1. Domains /\ ramFree \subseteq RamFrame /\ swpFree \subseteq SwpFrame
  BY DEF Init, Domains
<1>2. ASSUME NEW p \in Proc
      PROVE  /\ pgd[p] = <<>> /\ fifo[p] = <<>> /\ ipc[p] = "idle" /\ ins[p] = NoIns
             /\ vic[p] = 0 /\ spare[p] = None /\ got[p] = <<>>
  BY DEF Init
<1>3. ASSUME NEW p \in Proc  PROVE LocalInv(p)
  <2>1. TypesRight(p)
    <3>1. ins[p].page = 0 /\ ins[p].op # "alloc"
      BY <1>2 DEF NoIns
    <3>2. pgd[p] \in Seq(Entry) /\ fifo[p] \in Seq(Nat) /\ got[p] \in Seq(RamFrame)
      <4>1. \A S : <<>> \in Seq(S)
        OBVIOUS
      <4>2. pgd[p] = <<>> /\ fifo[p] = <<>> /\ got[p] = <<>>
        BY <1>2
      <4> QED  BY <4>1, <4>2, Zenon
    <3>3. vic[p] \in Nat /\ spare[p] = None /\ ipc[p] = "idle"
      BY <1>2
    <3> QED  BY <3>1, <3>2, <3>3 DEF TypesRight
  <2>2. EntriesRight(p) /\ FifoOfPresent(p)
    BY <1>2 DEF EntriesRight, FifoOfPresent, Pages
  <2>3. VictimRight(p) /\ PageRight(p)
    BY <1>2 DEF VictimRight, PageRight, Exchanging, Evicting, Allocating
  <2> QED  BY <2>1, <2>2, <2>3 DEF LocalInv
<1>4. ASSUME NEW p \in Proc, NEW f, NEW q
      PROVE  ~RamPage(f, p, q) /\ ~RamGot(f, p, q) /\ ~SwpPage(f, p, q)
  BY <1>2 DEF RamPage, RamGot, SwpPage, Pages
<1>5. \A f \in RamFrame : RamOneUse(f)
  BY <1>4 DEF RamOneUse
<1>6. \A f \in SwpFrame : \A p \in Proc : spare[p] # f
  BY <1>2, PagingAssumption
<1>7. \A f \in SwpFrame : SwpOneUse(f)
  BY <1>4, <1>6 DEF SwpOneUse
<1> QED  BY <1>1, <1>3, <1>5, <1>7 DEF Inv

LEMMA FreeKept ==
  ASSUME Inv, NEW p \in Proc, Start(p) \/ Continue(p)
  PROVE  ramFree' \subseteq RamFrame /\ swpFree' \subseteq SwpFrame
<1>1. Domains /\ LocalInv(p) /\ ramFree \subseteq RamFrame /\ swpFree \subseteq SwpFrame
  BY DEF Inv
<1>2. CASE PutSwapFrame(p)
  <2>1. ins[p].page \in Pages(p) /\ ~pgd[p][ins[p].page].present
    BY <1>1, <1>2 DEF PutSwapFrame, LocalInv, PageRight, Exchanging
  <2>2. pgd[p][ins[p].page].frame \in SwpFrame
    BY <1>1, <2>1 DEF LocalInv, EntriesRight
  <2> QED  BY <1>1, <1>2, <2>2 DEF PutSwapFrame
<1>3. CASE \E here, next : GetSwapFrame(p, here, next)
  BY <1>1, <1>3 DEF GetSwapFrame
<1>4. CASE Settle(p) \/ Evict(p) \/ MapPages(p) \/ TakeFreeFrame(p)
  BY <1>1, <1>4 DEF Settle, Evict, MapPages, TakeFreeFrame, devVars
<1>5. CASE RamQuiet(p) /\ SwpQuiet(p)
  BY <1>1, <1>5 DEF RamQuiet, SwpQuiet
<1> QED  BY <1>1, <1>2, <1>3, <1>4, <1>5, StartQuiet, CopyQuiet, EndQuiet DEF Continue

LEMMA InvKept == Inv /\ [Next]_vars => Inv'
<1> SUFFICES ASSUME Inv, [Next]_vars  PROVE Inv'
  OBVIOUS
<1>1. CASE UNCHANGED vars
  <2>1. Domains' /\ ramFree' \subseteq RamFrame /\ swpFree' \subseteq SwpFrame
    BY <1>1 DEF Inv, Domains, vars, devVars, tabVars, locVars
  <2>2. \A d \in Proc : Keeps(d)
    BY <1>1 DEF Keeps, vars, tabVars, locVars
  <2>3. \A d \in Proc : LocalInv(d)'
    BY <2>2, KeptLocal DEF Inv
  <2>4. \A f \in RamFrame : RamOneUse(f)'
    BY <1>1, <2>2, KeptUses, RamShrinks DEF Inv, vars, devVars
  <2>5. \A f \in SwpFrame : SwpOneUse(f)'
    BY <1>1, <2>2, KeptUses, SwpShrinks DEF Inv, vars, devVars, locVars
  <2> QED  BY <2>1, <2>3, <2>4, <2>5 DEF Inv
<1>2. ASSUME NEW p \in Proc, Start(p) \/ Continue(p)
      PROVE  Inv'
  BY <1>2, LocalKept, FreeKept, RamKept, SwpKept DEF Inv
<1> QED  BY <1>1, <1>2 DEF Next

\* In every interleaving of the processes' steps on the two devices each frame
\* has one use at most, and each process's page table, list of pages and
\* instruction fit together.
THEOREM Invariant == Spec => []Inv
  BY InitRight, InvKept, PTL DEF Spec

-----------------------------------------------------------------------------
LEMMA AtMostOne ==
  ASSUME NEW S, \A x, y \in S : x = y
  PROVE  Cardinality(S) <= 1
<1>1. CASE S = {}
  BY <1>1, FS_EmptySet
<1>2. CASE S # {}
  <2> PICK x \in S : TRUE
    BY <1>2
  <2>1. S = {x}
    OBVIOUS
  <2> QED  BY <2>1, FS_Singleton
<1> QED  BY <1>1, <1>2

LEMMA InvRam ==
  ASSUME Inv, NEW f \in RamFrame
  PROVE  Cardinality(UsesOfRam(f)) <= 1
<1>1. RamOneUse(f)
  BY DEF Inv
<1>2. MaxPages \in Nat
  BY PagingAssumption
<1> DEFINE Free == {<<"free", g>> : g \in ramFree \cap {f}}
           Page == {<<"page", pq>> : pq \in {pq \in Mapped :
                      LET e == pgd[pq[1]][pq[2]] IN e.present /\ e.frame = f}}
           Got == {<<"got", pk>> : pk \in {pk \in Proc \X (1 .. MaxPages) :
                      pk[2] \in DOMAIN got[pk[1]] /\ got[pk[1]][pk[2]] = f}}
<1>3. UsesOfRam(f) = Free \cup Page \cup Got
  BY DEF UsesOfRam
<1>4. \A u \in Free : u = <<"free", f>> /\ f \in ramFree
  OBVIOUS
<1>5. ASSUME NEW u \in Page
      PROVE  \E p \in Proc, q \in Nat : u = <<"page", <<p, q>>>> /\ RamPage(f, p, q)
  <2> PICK pq \in Mapped : /\ u = <<"page", pq>>
                           /\ pgd[pq[1]][pq[2]].present /\ pgd[pq[1]][pq[2]].frame = f
    OBVIOUS
  <2> PICK p \in Proc, q \in 1 .. MaxPages : pq = <<p, q>> /\ q <= Len(pgd[p])
    BY DEF Mapped
  <2>1. pgd[p] \in Seq(Entry)
    BY DEF Inv, LocalInv, TypesRight
  <2>2. q \in Nat /\ q \in Pages(p)
    BY <1>2, <2>1 DEF Pages
  <2>3. RamPage(f, p, q)
    BY <2>2 DEF RamPage
  <2> QED  BY <2>2, <2>3
<1>6. ASSUME NEW u \in Got
      PROVE  \E p \in Proc, k \in Nat : u = <<"got", <<p, k>>>> /\ RamGot(f, p, k)
  <2> PICK pk \in Proc \X (1 .. MaxPages) : /\ u = <<"got", pk>>
                                            /\ pk[2] \in DOMAIN got[pk[1]]
                                            /\ got[pk[1]][pk[2]] = f
    OBVIOUS
  <2> PICK p \in Proc, k \in 1 .. MaxPages : pk = <<p, k>>
    OBVIOUS
  <2>1. got[p] \in Seq(RamFrame)
    BY DEF Inv, LocalInv, TypesRight
  <2>2. k \in Nat /\ k \in 1 .. Len(got[p]) /\ got[p][k] = f
    BY <1>2, <2>1
  <2> QED  BY <2>2 DEF RamGot
<1> HIDE DEF Free, Page, Got
<1>7. \A u, w \in Free \cup Page \cup Got : u = w
  <2>1. ASSUME NEW u \in Free, NEW w \in Page \cup Got  PROVE FALSE
    BY <1>1, <1>4, <1>5, <1>6, <2>1 DEF RamOneUse
  <2>2. ASSUME NEW u \in Page, NEW w \in Got  PROVE FALSE
    BY <1>1, <1>5, <1>6, <2>2 DEF RamOneUse
  <2>3. ASSUME NEW u \in Page, NEW w \in Page  PROVE u = w
    BY <1>1, <1>5, <2>3 DEF RamOneUse
  <2>4. ASSUME NEW u \in Got, NEW w \in Got  PROVE u = w
    BY <1>1, <1>6, <2>4 DEF RamOneUse
  <2> QED  BY <1>4, <2>1, <2>2, <2>3, <2>4
<1> QED  BY <1>3, <1>7, AtMostOne

LEMMA InvSwp ==
  ASSUME Inv, NEW f \in SwpFrame
  PROVE  Cardinality(UsesOfSwp(f)) <= 1
<1>1. SwpOneUse(f)
  BY DEF Inv
<1>2. MaxPages \in Nat
  BY PagingAssumption
<1> DEFINE Free == {<<"free", g>> : g \in swpFree \cap {f}}
           Page == {<<"page", pq>> : pq \in {pq \in Mapped :
                      LET e == pgd[pq[1]][pq[2]] IN
                      ~e.present /\ e.frame = f /\ Leaving(pq[1]) # pq[2]}}
           Spare == {<<"spare", p>> : p \in {p \in Proc : spare[p] = f}}
<1>3. UsesOfSwp(f) = Free \cup Page \cup Spare
  BY DEF UsesOfSwp
<1>4. \A u \in Free : u = <<"free", f>> /\ f \in swpFree
  OBVIOUS
<1>5. ASSUME NEW u \in Page
      PROVE  \E p \in Proc, q \in Nat : u = <<"page", <<p, q>>>> /\ SwpPage(f, p, q)
  <2> PICK pq \in Mapped : /\ u = <<"page", pq>>
                           /\ ~pgd[pq[1]][pq[2]].present /\ pgd[pq[1]][pq[2]].frame = f
                           /\ Leaving(pq[1]) # pq[2]
    OBVIOUS
  <2> PICK p \in Proc, q \in 1 .. MaxPages : pq = <<p, q>> /\ q <= Len(pgd[p])
    BY DEF Mapped
  <2>1. pgd[p] \in Seq(Entry)
    BY DEF Inv, LocalInv, TypesRight
  <2>2. q \in Nat /\ q \in Pages(p)
    BY <1>2, <2>1 DEF Pages
  <2>3. SwpPage(f, p, q)
    BY <2>2 DEF SwpPage
  <2> QED  BY <2>2, <2>3
<1>6. \A u \in Spare : \E p \in Proc : u = <<"spare", p>> /\ spare[p] = f
  OBVIOUS
<1> HIDE DEF Free, Page, Spare
<1>7. \A u, w \in Free \cup Page \cup Spare : u = w
  <2>1. ASSUME NEW u \in Free, NEW w \in Page \cup Spare  PROVE FALSE
    BY <1>1, <1>4, <1>5, <1>6, <2>1 DEF SwpOneUse
  <2>2. ASSUME NEW u \in Page, NEW w \in Spare  PROVE FALSE
    BY <1>1, <1>5, <1>6, <2>2 DEF SwpOneUse
  <2>3. ASSUME NEW u \in Page, NEW w \in Page  PROVE u = w
    BY <1>1, <1>5, <2>3 DEF SwpOneUse
  <2>4. ASSUME NEW u \in Spare, NEW w \in Spare  PROVE u = w
    BY <1>1, <1>6, <2>4 DEF SwpOneUse
  <2> QED  BY <1>4, <2>1, <2>2, <2>3, <2>4
<1> QED  BY <1>3, <1>7, AtMostOne

\* Two CPUs never use one frame of RAM or of the swap device for two things,
\* whatever the number of processes, frames and pages.
THEOREM FramesApart == Spec => []NoFrameShared
<1>1. Inv => NoFrameShared
  BY InvRam, InvSwp DEF NoFrameShared
<1> QED  BY <1>1, Invariant, PTL

\* The page an allocation starts on is in RAM until the allocation ends, and is
\* never its victim (mm.c:129).
THEOREM StartPinned == Spec => []StartStays
<1>1. Inv => StartStays
  <2> SUFFICES ASSUME Inv, NEW p \in Proc,
                      ipc[p] \in {"count", "decide", "loop", "aswp", "acopy", "aclean"},
                      ins[p].page \in DOMAIN pgd[p]
               PROVE  pgd[p][ins[p].page].present /\ vic[p] # ins[p].page
    BY DEF StartStays
  <2>1. pgd[p] \in Seq(Entry) /\ PageRight(p) /\ ipc[p] \in Allocating
    BY DEF Inv, LocalInv, TypesRight, Allocating, Evicting
  <2>2. ins[p].page \in Pages(p)
    BY <2>1 DEF Pages
  <2> QED  BY <2>1, <2>2 DEF PageRight
<1> QED  BY <1>1, Invariant, PTL
=============================================================================

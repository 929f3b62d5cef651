---------------------------- MODULE VarMemoryProofs ----------------------------
(***************************************************************************)
(* Theorems about the regions and the variables of a process, for any      *)
(* registers, page size, sizes and bound.  First VmArea by itself: types   *)
(* and tightness for any program, and for tidy programs that bytes are     *)
(* neither shared nor lost.  Then the variables in the memory: the page    *)
(* table ends where the area ends, and the variables keep what is written  *)
(* to them (Variables).                                                    *)
(***************************************************************************)
EXTENDS VarMemory, SequenceTheorems, FiniteSetTheorems, TLAPS

(* The free list *)

\* RemoveAt shifts the entries behind the one it removes.
LEMMA RemoveAtMoves ==
  ASSUME NEW T, NEW s \in Seq(T), NEW k \in 1 .. Len(s)
  PROVE  /\ RemoveAt(s, k) \in Seq(T) /\ Len(RemoveAt(s, k)) = Len(s) - 1
         /\ \A j \in 1 .. Len(s) - 1 : RemoveAt(s, k)[j] = s[IF j < k THEN j ELSE j + 1]
<1> DEFINE front == SubSeq(s, 1, k - 1)
           back  == SubSeq(s, k + 1, Len(s))
<1>1. Len(s) \in Nat /\ \A j \in 1 .. Len(s) : s[j] \in T
  BY ElementOfSeq, LenProperties
<1>2. /\ front \in Seq(T) /\ Len(front) = k - 1
      /\ \A j \in 1 .. k - 1 : front[j] = s[j]
  <2>1. k - 1 \in Int /\ \A j \in 1 .. k - 1 : s[j] \in T
    BY <1>1
  <2>2. /\ front \in Seq(T) /\ Len(front) = IF 1 <= k - 1 THEN k - 1 - 1 + 1 ELSE 0
        /\ \A j \in 1 .. k - 1 - 1 + 1 : front[j] = s[1 + j - 1]
    BY <2>1, SubSeqProperties
  <2> QED
    BY <2>1, <2>2
<1>3. /\ back \in Seq(T) /\ Len(back) = Len(s) - k
      /\ \A j \in 1 .. Len(s) - k : back[j] = s[k + j]
  <2>1. k + 1 \in Int /\ Len(s) \in Int /\ \A j \in k + 1 .. Len(s) : s[j] \in T
    BY <1>1
  <2>2. /\ back \in Seq(T)
        /\ Len(back) = IF k + 1 <= Len(s) THEN Len(s) - (k + 1) + 1 ELSE 0
        /\ \A j \in 1 .. Len(s) - (k + 1) + 1 : back[j] = s[k + 1 + j - 1]
    BY <2>1, SubSeqProperties
  <2>3. \A j \in 1 .. Len(s) - k : j \in 1 .. Len(s) - (k + 1) + 1 /\ k + 1 + j - 1 = k + j
    BY <1>1
  <2> QED
    BY <1>1, <2>2, <2>3
<1>4. /\ front \o back \in Seq(T) /\ Len(front \o back) = Len(front) + Len(back)
      /\ \A j \in 1 .. Len(front) + Len(back) :
           (front \o back)[j] = IF j <= Len(front) THEN front[j] ELSE back[j - Len(front)]
  BY <1>2, <1>3, ConcatProperties
<1>5. RemoveAt(s, k) = front \o back
  BY DEF RemoveAt
<1> HIDE DEF front, back
<1>6. ASSUME NEW j \in 1 .. Len(s) - 1, j < k
      PROVE  (front \o back)[j] = s[j]
  <2>1. j \in 1 .. k - 1 /\ j \in 1 .. Len(front) + Len(back) /\ j <= Len(front)
    BY <1>1, <1>2, <1>3, <1>6
  <2> QED
    BY <1>2, <1>4, <2>1
<1>7. ASSUME NEW j \in 1 .. Len(s) - 1, ~(j < k)
      PROVE  (front \o back)[j] = s[j + 1]
  <2>1. /\ j \in 1 .. Len(front) + Len(back) /\ ~(j <= Len(front))
        /\ j - Len(front) \in 1 .. Len(s) - k /\ k + (j - Len(front)) = j + 1
    BY <1>1, <1>2, <1>3, <1>7
  <2> QED
    BY <1>3, <1>4, <2>1
<1>8. Len(front) + Len(back) = Len(s) - 1
  BY <1>1, <1>2, <1>3
<1>9. \A j \in 1 .. Len(s) - 1 : (front \o back)[j] = s[IF j < k THEN j ELSE j + 1]
  BY <1>6, <1>7
<1> QED
  BY <1>4, <1>5, <1>8, <1>9

\* Carving the first size bytes out of node k: every node of the new list
\* comes from its own node of the old one, and has the same bytes but for
\* those carved out.
CarvedFrom(from, k, size) ==
  /\ from \in [1 .. Len(freerg') -> 1 .. Len(freerg)]
  /\ \A i, j \in 1 .. Len(freerg') : from[i] = from[j] => i = j
  /\ \A j \in 1 .. Len(freerg') :
       /\ freerg'[j].start <= freerg'[j].end
       /\ freerg'[j].end = freerg[from[j]].end
       /\ \A b \in Nat : In(b, freerg'[j]) <=>
            In(b, freerg[from[j]]) /\ ~(from[j] = k /\ b < freerg[k].start + size)
  /\ \A i \in 1 .. Len(freerg) : \A b \in Nat :
       In(b, freerg[i]) /\ ~(i = k /\ b < freerg[k].start + size) =>
         \E j \in 1 .. Len(freerg') : from[j] = i

LEMMA FreeList ==
  ASSUME TypeOK
  PROVE  /\ Len(freerg) \in Nat \ {0} /\ DOMAIN freerg = 1 .. Len(freerg)
         /\ \A k \in 1 .. Len(freerg) :
              freerg[k] \in Region /\ freerg[k].start \in Nat /\ freerg[k].end \in Nat
              /\ freerg[k].start <= freerg[k].end
<1>1. freerg \in Seq(Region) /\ freerg # <<>>
  BY DEF TypeOK
<1>2. Len(freerg) \in Nat \ {0} /\ DOMAIN freerg = 1 .. Len(freerg)
  BY <1>1, EmptySeq, LenProperties
<1>3. \A k \in 1 .. Len(freerg) : freerg[k] \in Region
  BY <1>1, ElementOfSeq
<1> QED
  BY <1>2, <1>3 DEF TypeOK, Region

LEMMA CarveMoves ==
  ASSUME TypeOK, NEW size \in Nat, NEW k \in DOMAIN freerg, FirstFit(k, size), Carve(k, size)
  PROVE  /\ freerg' \in Seq(Region) /\ freerg' # <<>>
         /\ \E from : CarvedFrom(from, k, size)
<1> DEFINE n == Len(freerg)
           s == freerg[k].start
           e == freerg[k].end
<1>1. /\ n \in Nat \ {0} /\ k \in 1 .. n /\ freerg \in Seq(Region)
      /\ \A j \in 1 .. n : freerg[j] \in Region /\ freerg[j].start <= freerg[j].end
      /\ s \in Nat /\ e \in Nat /\ s + size <= e
  BY FreeList DEF FirstFit, TypeOK
<1>2. ASSUME NEW new \in Nat, freerg' = [freerg EXCEPT ![k].start = new],
             s <= new, new <= e, new = s + size \/ (s + size = e /\ new = e)
      PROVE  /\ freerg' \in Seq(Region) /\ freerg' # <<>>
             /\ \E from : CarvedFrom(from, k, size)
  <2>1. /\ Len(freerg') = n /\ freerg' \in Seq(Region)
        /\ freerg'[k] = [start |-> new, end |-> e]
        /\ \A j \in 1 .. n : j # k => freerg'[j] = freerg[j]
    <3>1. [freerg[k] EXCEPT !.start = new] = [start |-> new, end |-> e]
      BY <1>1 DEF Region
    <3>2. [start |-> new, end |-> e] \in Region
      BY <1>1 DEF Region
    <3>3. freerg' = [freerg EXCEPT ![k] = [start |-> new, end |-> e]]
      BY <1>2, <3>1
    <3> QED
      BY <1>1, <3>2, <3>3, ExceptSeq
  <2> DEFINE from == [j \in 1 .. n |-> j]
  <2>2. freerg' # <<>>
    BY <1>1, <2>1, EmptySeq
  <2>3. \A j \in 1 .. n : \A b \in Nat :
          In(b, freerg'[j]) <=> In(b, freerg[j]) /\ ~(j = k /\ b < s + size)
    BY <1>1, <1>2, <2>1 DEF In, Region
  <2>4. \A j \in 1 .. n : freerg'[j].start <= freerg'[j].end /\ freerg'[j].end = freerg[j].end
    BY <1>1, <1>2, <2>1
  <2>5. CarvedFrom(from, k, size)
    BY <2>1, <2>3, <2>4 DEF CarvedFrom
  <2> QED
    BY <2>1, <2>2, <2>5
<1>3. CASE s + size < e
  <2>1. freerg' = [freerg EXCEPT ![k].start = s + size]
    BY <1>3 DEF Carve
  <2>2. s + size \in Nat /\ s <= s + size /\ s + size <= e
    BY <1>1
  <2> QED
    BY <1>2, <2>1, <2>2
<1>4. CASE s + size >= e /\ k < n
  <2>1. /\ freerg' \in Seq(Region) /\ Len(freerg') = n - 1
        /\ \A j \in 1 .. n - 1 : freerg'[j] = freerg[IF j < k THEN j ELSE j + 1]
    <3>1. freerg' = RemoveAt(freerg, k)
      BY <1>1, <1>4 DEF Carve
    <3> QED
      BY <1>1, <3>1, RemoveAtMoves
  <2> DEFINE from == [j \in 1 .. n - 1 |-> IF j < k THEN j ELSE j + 1]
  <2>2. freerg' # <<>>
    BY <1>1, <1>4, <2>1, EmptySeq
  <2>3. /\ from \in [1 .. n - 1 -> 1 .. n]
        /\ \A i, j \in 1 .. n - 1 : from[i] = from[j] => i = j
        /\ \A j \in 1 .. n - 1 : from[j] # k /\ freerg'[j] = freerg[from[j]]
    BY <1>1, <2>1
  <2>4. \A b \in Nat : In(b, freerg[k]) => b < s + size
    BY <1>1, <1>4 DEF In
  <2>5. ASSUME NEW i \in 1 .. n, i # k PROVE \E j \in 1 .. n - 1 : from[j] = i
    <3>1. CASE i < k
      <4>1. i \in 1 .. n - 1 /\ from[i] = i
        BY <1>1, <3>1
      <4> QED
        BY <4>1
    <3>2. CASE i > k
      <4>1. i - 1 \in 1 .. n - 1 /\ from[i - 1] = i
        BY <1>1, <3>2
      <4> QED
        BY <4>1
    <3> QED
      BY <1>1, <2>5, <3>1, <3>2
  <2>6. CarvedFrom(from, k, size)
    <3>1. \A j \in 1 .. n - 1 : /\ freerg'[j].start <= freerg'[j].end
                              /\ freerg'[j].end = freerg[from[j]].end
      BY <1>1, <2>3
    <3>2. \A j \in 1 .. n - 1 : \A b \in Nat : In(b, freerg'[j]) <=>
            In(b, freerg[from[j]]) /\ ~(from[j] = k /\ b < s + size)
      BY <2>3
    <3>3. \A i \in 1 .. n : \A b \in Nat : In(b, freerg[i]) /\ ~(i = k /\ b < s + size) =>
            \E j \in 1 .. n - 1 : from[j] = i
      BY <2>4, <2>5
    <3> HIDE DEF from
    <3> QED
      BY <2>1, <2>3, <3>1, <3>2, <3>3 DEF CarvedFrom
  <2> QED
    BY <2>1, <2>2, <2>6
<1>5. CASE s + size >= e /\ k >= n
  <2>1. freerg' = [freerg EXCEPT ![k].start = e]
    BY <1>1, <1>5 DEF Carve
  <2>2. e \in Nat /\ s <= e /\ e <= e /\ s + size = e
    BY <1>1, <1>5
  <2> QED
    BY <1>2, <2>1, <2>2
<1> QED
  BY <1>1, <1>3, <1>4, <1>5

-----------------------------------------------------------------------------
(* Page boundaries *)

LEMMA NextMultiple ==
  ASSUME NEW P \in Nat \ {0}, NEW a \in Nat, NEW b \in Nat, a < b
  PROVE  a * P + P <= b * P
<1>1. b - a - 1 \in Nat /\ b = a + 1 + (b - a - 1)
  OBVIOUS
<1>2. ASSUME NEW c \in Nat PROVE (a + 1 + c) * P = a * P + P + c * P /\ c * P >= 0
  OBVIOUS
<1> QED
  BY <1>1, <1>2

LEMMA Division ==
  ASSUME NEW P \in Nat \ {0}, NEW x \in Nat
  PROVE  x \div P \in Nat /\ P * (x \div P) <= x /\ x < P * (x \div P) + P
<1>1. x \div P \in Nat
  OBVIOUS
<1>2. P * (x \div P) <= x
  OBVIOUS
<1>3. x < P * (x \div P) + P
  OBVIOUS
<1> QED
  BY <1>1, <1>2, <1>3

LEMMA AlignUpIs ==
  ASSUME NEW n \in Nat
  PROVE  \E m \in Nat : AlignUp(n) = m * PAGESZ /\ n <= m * PAGESZ /\ m * PAGESZ < n + PAGESZ
<1> DEFINE m == (n + PAGESZ - 1) \div PAGESZ
<1>1. PAGESZ \in Nat \ {0} /\ n + PAGESZ - 1 \in Nat
  BY VmAreaAssumption
<1>2. /\ m \in Nat /\ PAGESZ * m <= n + PAGESZ - 1
      /\ n + PAGESZ - 1 < PAGESZ * m + PAGESZ
  BY <1>1, Division
<1>3. AlignUp(n) = m * PAGESZ
  BY DEF AlignUp
<1> HIDE DEF m
<1>4. PAGESZ * m = m * PAGESZ /\ m * PAGESZ \in Nat
  BY <1>1, <1>2
<1>5. n <= m * PAGESZ /\ m * PAGESZ < n + PAGESZ
  BY <1>1, <1>2, <1>4
<1> QED
  BY <1>2, <1>3, <1>5

\* The only page boundary less than a page behind n.
LEMMA AlignUpUnique ==
  ASSUME NEW n \in Nat, NEW m \in Nat, n <= m * PAGESZ, m * PAGESZ < n + PAGESZ
  PROVE  AlignUp(n) = m * PAGESZ
<1>1. PICK q \in Nat : AlignUp(n) = q * PAGESZ /\ n <= q * PAGESZ /\ q * PAGESZ < n + PAGESZ
  BY AlignUpIs
<1>2. PAGESZ \in Nat \ {0} /\ m * PAGESZ \in Nat /\ q * PAGESZ \in Nat
  BY VmAreaAssumption
<1>3. CASE q < m
  BY <1>1, <1>2, <1>3, NextMultiple
<1>4. CASE m < q
  BY <1>1, <1>2, <1>4, NextMultiple
<1> QED
  BY <1>1, <1>3, <1>4

-----------------------------------------------------------------------------
(* Types and tightness, for any program *)

LEMMA SetSymIs ==
  ASSUME TypeOK, NEW r \in Reg, NEW s, NEW e, SetSym(r, s, e)
  PROVE  /\ symrgtbl'[r].start = s /\ symrgtbl'[r].end = e /\ symrgtbl'[r].valid
         /\ \A q \in Reg : q # r => symrgtbl'[q] = symrgtbl[q]
         /\ (s \in Nat /\ e \in Nat =>
              symrgtbl' \in [Reg -> [start : Nat, end : Nat, valid : BOOLEAN]])
BY DEF TypeOK, SetSym

LEMMA FreeMoves ==
  ASSUME TypeOK, NEW r \in Reg, Free(r)
  PROVE  /\ symrgtbl' \in [Reg -> [start : Nat, end : Nat, valid : BOOLEAN]]
         /\ \A q \in Reg : /\ symrgtbl'[q].start = symrgtbl[q].start
                           /\ symrgtbl'[q].end = symrgtbl[q].end
                           /\ symrgtbl'[q].valid = IF q = r THEN FALSE ELSE symrgtbl[q].valid
         /\ freerg' \in Seq(Region) /\ freerg' # <<>>
         /\ \/ symrgtbl[r].start >= symrgtbl[r].end /\ freerg' = freerg
            \/ /\ symrgtbl[r].start < symrgtbl[r].end
               /\ Len(freerg') = Len(freerg) + 1
               /\ freerg'[1] = [start |-> symrgtbl[r].start, end |-> symrgtbl[r].end]
               /\ \A j \in 1 .. Len(freerg) : freerg'[j + 1] = freerg[j]
<1> DEFINE rg == [start |-> symrgtbl[r].start, end |-> symrgtbl[r].end]
<1>1. /\ symrgtbl' = [symrgtbl EXCEPT ![r].valid = FALSE]
      /\ freerg' = IF rg.start < rg.end THEN <<rg>> \o freerg ELSE freerg
  BY DEF Free
<1>2. symrgtbl \in [Reg -> [start : Nat, end : Nat, valid : BOOLEAN]] /\ freerg \in Seq(Region)
  BY DEF TypeOK
<1>3. /\ symrgtbl' \in [Reg -> [start : Nat, end : Nat, valid : BOOLEAN]]
      /\ \A q \in Reg : /\ symrgtbl'[q].start = symrgtbl[q].start
                        /\ symrgtbl'[q].end = symrgtbl[q].end
                        /\ symrgtbl'[q].valid = IF q = r THEN FALSE ELSE symrgtbl[q].valid
  BY <1>1, <1>2
<1>4. rg \in Region
  BY <1>2 DEF Region
<1>5. /\ <<rg>> \in Seq(Region) /\ Len(<<rg>>) = 1 /\ <<rg>>[1] = rg
      /\ Len(freerg) \in Nat
  BY <1>2, <1>4, LenProperties
<1>6. /\ <<rg>> \o freerg \in Seq(Region)
      /\ Len(<<rg>> \o freerg) = Len(freerg) + 1
      /\ (<<rg>> \o freerg)[1] = rg
      /\ \A j \in 1 .. Len(freerg) : (<<rg>> \o freerg)[j + 1] = freerg[j]
  <2>1. /\ <<rg>> \o freerg \in Seq(Region)
        /\ Len(<<rg>> \o freerg) = 1 + Len(freerg)
        /\ \A i \in 1 .. 1 + Len(freerg) :
             (<<rg>> \o freerg)[i] = IF i <= 1 THEN <<rg>>[i] ELSE freerg[i - 1]
    BY <1>2, <1>5, ConcatProperties
  <2> QED
    BY <1>5, <2>1
<1>7. CASE rg.start < rg.end
  <2>1. freerg' = <<rg>> \o freerg
    BY <1>1, <1>7
  <2>2. freerg' # <<>>
    BY <1>5, <1>6, <2>1, EmptySeq
  <2> QED
    BY <1>3, <1>6, <1>7, <2>1, <2>2
<1>8. CASE ~(rg.start < rg.end)
  BY <1>1, <1>2, <1>3, <1>8 DEF TypeOK
<1> QED
  BY <1>7, <1>8

Inv == TypeOK /\ AreaTight

\* A new variable in bytes below the new sbrk, with the free list as it was.
LEMMA NewVariable ==
  ASSUME Inv, NEW r \in Reg, NEW size \in Nat, SetSym(r, sbrk, sbrk + size),
         sbrk' = sbrk + size, UNCHANGED freerg, vm_end' = AlignUp(sbrk + size)
  PROVE  Inv'
<1>1. sbrk \in Nat /\ sbrk' \in Nat /\ sbrk <= sbrk' /\ vm_end' = AlignUp(sbrk')
  BY DEF Inv, TypeOK
<1>2. vm_end' \in Nat
  <2>1. PICK m \in Nat : AlignUp(sbrk') = m * PAGESZ
    BY <1>1, AlignUpIs
  <2> QED
    BY <1>1, <2>1, VmAreaAssumption
<1>3. /\ symrgtbl' \in [Reg -> [start : Nat, end : Nat, valid : BOOLEAN]]
      /\ symrgtbl'[r].start = sbrk /\ symrgtbl'[r].end = sbrk'
      /\ \A q \in Reg : q # r => symrgtbl'[q] = symrgtbl[q]
  BY <1>1, SetSymIs DEF Inv
<1>4. \A q \in Reg : symrgtbl'[q].start <= symrgtbl'[q].end /\ symrgtbl'[q].end <= sbrk'
  <2>1. \A q \in Reg : /\ symrgtbl[q].start <= symrgtbl[q].end
                       /\ symrgtbl[q].end <= sbrk /\ symrgtbl[q].end \in Nat
    BY DEF Inv, TypeOK, AreaTight
  <2>2. \A q \in Reg : symrgtbl[q].end <= sbrk'
    BY <1>1, <2>1
  <2> QED
    BY <1>1, <1>3, <2>1, <2>2
<1>5. \A k \in DOMAIN freerg : freerg[k].start <= freerg[k].end /\ freerg[k].end <= sbrk'
  <2>1. \A k \in DOMAIN freerg : freerg[k].end \in Nat /\ freerg[k].end <= sbrk
    BY FreeList DEF Inv, AreaTight
  <2> QED
    BY <1>1, <2>1 DEF Inv, TypeOK
<1>6. TypeOK'
  BY <1>1, <1>2, <1>3, <1>4, <1>5 DEF Inv, TypeOK
<1> QED
  BY <1>1, <1>4, <1>5, <1>6 DEF Inv, AreaTight

LEMMA AllocKeepsInv ==
  ASSUME Inv, NEW r \in Reg, NEW size \in Nat, Alloc(r, size)
  PROVE  Inv'
<1>1. CASE AllocFreed(r, size)
  <2>1. PICK k \in DOMAIN freerg :
          /\ FirstFit(k, size)
          /\ SetSym(r, freerg[k].start, freerg[k].start + size)
          /\ Carve(k, size)
          /\ UNCHANGED <<sbrk, vm_end>>
    BY <1>1 DEF AllocFreed
  <2>2. /\ freerg' \in Seq(Region) /\ freerg' # <<>>
        /\ \E from : CarvedFrom(from, k, size)
    BY <2>1, CarveMoves DEF Inv
  <2>3. PICK from : CarvedFrom(from, k, size)
    BY <2>2
  <2>4. /\ freerg[k].start \in Nat /\ freerg[k].start + size \in Nat
        /\ freerg[k].start <= freerg[k].start + size
        /\ freerg[k].start + size <= freerg[k].end /\ freerg[k].end \in Nat
        /\ freerg[k].end <= sbrk /\ sbrk \in Nat
    BY <2>1, FreeList DEF Inv, FirstFit, AreaTight, TypeOK
  <2>5. /\ symrgtbl' \in [Reg -> [start : Nat, end : Nat, valid : BOOLEAN]]
        /\ symrgtbl'[r].start = freerg[k].start /\ symrgtbl'[r].end = freerg[k].start + size
        /\ \A q \in Reg : q # r => symrgtbl'[q] = symrgtbl[q]
    BY <2>1, <2>4, SetSymIs DEF Inv
  <2>6. \A q \in Reg : symrgtbl'[q].start <= symrgtbl'[q].end /\ symrgtbl'[q].end <= sbrk
    <3>1. \A q \in Reg : symrgtbl[q].start <= symrgtbl[q].end /\ symrgtbl[q].end <= sbrk
      BY DEF Inv, TypeOK, AreaTight
    <3>2. symrgtbl'[r].start <= symrgtbl'[r].end /\ symrgtbl'[r].end <= sbrk
      BY <2>4, <2>5
    <3> QED
      BY <2>5, <3>1, <3>2
  <2>7. DOMAIN freerg' = 1 .. Len(freerg') /\ DOMAIN freerg = 1 .. Len(freerg)
    BY <2>2, LenProperties, FreeList DEF Inv
  <2>8. \A j \in DOMAIN freerg' : freerg'[j].start <= freerg'[j].end /\ freerg'[j].end <= sbrk
    BY <2>3, <2>7 DEF CarvedFrom, Inv, AreaTight
  <2>9. TypeOK'
    BY <2>1, <2>2, <2>5, <2>6, <2>8 DEF Inv, TypeOK
  <2> QED
    BY <2>1, <2>6, <2>8, <2>9 DEF Inv, AreaTight
<1>2. PICK m \in Nat : /\ vm_end = m * PAGESZ /\ sbrk <= m * PAGESZ
                      /\ m * PAGESZ < sbrk + PAGESZ
  BY AlignUpIs DEF Inv, TypeOK, AreaTight
<1>3. /\ PAGESZ \in Nat \ {0} /\ sbrk \in Nat /\ sbrk + size \in Nat
      /\ m * PAGESZ \in Nat
  BY VmAreaAssumption DEF Inv, TypeOK
<1>4. CASE AllocGap(r, size)
  <2>1. sbrk + size <= m * PAGESZ /\ m * PAGESZ < sbrk + size + PAGESZ
    BY <1>2, <1>3, <1>4 DEF AllocGap
  <2>2. vm_end' = AlignUp(sbrk + size)
    BY <1>2, <1>3, <1>4, <2>1, AlignUpUnique DEF AllocGap
  <2> QED
    BY <1>4, <2>2, NewVariable DEF AllocGap
<1>5. CASE AllocGrow(r, size)
  <2> DEFINE x == sbrk + size - vm_end
  <2>1. x \in Nat /\ sbrk + size = m * PAGESZ + x
    BY <1>2, <1>3, <1>5 DEF AllocGrow
  <2>2. PICK q \in Nat : AlignUp(x) = q * PAGESZ /\ x <= q * PAGESZ /\ q * PAGESZ < x + PAGESZ
    BY <2>1, AlignUpIs
  <2>3. /\ (m + q) * PAGESZ = m * PAGESZ + q * PAGESZ
        /\ m + q \in Nat /\ q * PAGESZ \in Nat
    BY <1>3
  <2> HIDE DEF x
  <2>4. sbrk + size <= (m + q) * PAGESZ /\ (m + q) * PAGESZ < sbrk + size + PAGESZ
    BY <1>3, <2>1, <2>2, <2>3
  <2>5. AlignUp(sbrk + size) = (m + q) * PAGESZ
    BY <1>3, <2>3, <2>4, AlignUpUnique
  <2>6. vm_end' = AlignUp(sbrk + size)
    BY <1>2, <1>5, <2>2, <2>3, <2>5 DEF AllocGrow, x
  <2> QED
    BY <1>5, <2>6, NewVariable DEF AllocGrow
<1> QED
  BY <1>1, <1>4, <1>5 DEF Alloc

LEMMA FreeKeepsInv ==
  ASSUME Inv, NEW r \in Reg, Free(r)
  PROVE  Inv'
<1>1. UNCHANGED <<sbrk, vm_end>>
  BY DEF Free
<1>2. \A q \in Reg : symrgtbl'[q].start <= symrgtbl'[q].end /\ symrgtbl'[q].end <= sbrk
  BY FreeMoves DEF Inv, TypeOK, AreaTight
<1>3. /\ freerg' \in Seq(Region) /\ freerg' # <<>>
      /\ DOMAIN freerg' = 1 .. Len(freerg') /\ DOMAIN freerg = 1 .. Len(freerg)
      /\ Len(freerg) \in Nat
  BY FreeMoves, FreeList, LenProperties DEF Inv
<1>4. \A j \in DOMAIN freerg : freerg[j].start <= freerg[j].end /\ freerg[j].end <= sbrk
  BY DEF Inv, TypeOK, AreaTight
<1>5. ASSUME NEW j \in DOMAIN freerg'
      PROVE  freerg'[j].start <= freerg'[j].end /\ freerg'[j].end <= sbrk
  <2>1. CASE freerg' = freerg
    BY <1>4, <1>5, <2>1
  <2>2. CASE /\ symrgtbl[r].start < symrgtbl[r].end
             /\ Len(freerg') = Len(freerg) + 1
             /\ freerg'[1] = [start |-> symrgtbl[r].start, end |-> symrgtbl[r].end]
             /\ \A i \in 1 .. Len(freerg) : freerg'[i + 1] = freerg[i]
    <3>1. CASE j = 1
      BY <2>2, <3>1 DEF Inv, TypeOK, AreaTight
    <3>2. CASE j # 1
      <4>1. j - 1 \in 1 .. Len(freerg) /\ j = (j - 1) + 1
        BY <1>3, <1>5, <2>2, <3>2
      <4>2. freerg'[j] = freerg[j - 1]
        BY <2>2, <4>1
      <4> QED
        BY <1>3, <1>4, <4>1, <4>2
    <3> QED
      BY <3>1, <3>2
  <2> QED
    BY <2>1, <2>2, FreeMoves DEF Inv
<1>6. TypeOK'
  BY <1>1, <1>2, <1>3, <1>5, FreeMoves DEF Inv, TypeOK
<1> QED
  BY <1>1, <1>2, <1>5, <1>6 DEF Inv, AreaTight

LEMMA InvInit == Init => Inv
<1> SUFFICES ASSUME Init PROVE Inv
  OBVIOUS
<1>1. /\ freerg \in Seq(Region) /\ freerg # <<>> /\ DOMAIN freerg = {1}
      /\ freerg[1] = [start |-> 0, end |-> 0]
  BY DEF Init, Region
<1>2. TypeOK
  BY <1>1 DEF Init, TypeOK
<1>3. AlignUp(0) = 0 * PAGESZ /\ 0 * PAGESZ = 0
  <2>1. 0 * PAGESZ = 0 /\ PAGESZ \in Nat \ {0}
    BY VmAreaAssumption
  <2> QED
    BY <2>1, AlignUpUnique
<1> QED
  BY <1>1, <1>2, <1>3 DEF Init, Inv, AreaTight

\* Whatever a program allocates and frees, tidily or not.
THEOREM Invariant == Spec => []Inv
<1>1. Inv /\ [Next]_vars => Inv'
  <2>1. Inv /\ UNCHANGED vars => Inv'
    BY DEF Inv, TypeOK, AreaTight, vars
  <2> QED
    BY <2>1, AllocKeepsInv, FreeKeepsInv, VmAreaAssumption DEF Next
<1> QED
  BY <1>1, InvInit, PTL DEF Spec

\* The types of the area's variables, for any program.
THEOREM TypeCorrect == Spec => []TypeOK
BY Invariant, PTL DEF Inv

\* What __read and __write let through is on mapped pages, for any program.
THEOREM Tight == Spec => []AreaTight
BY Invariant, PTL DEF Inv

-----------------------------------------------------------------------------
(* Whose a byte is, for tidy programs *)

\* The invariant of one byte: below sbrk it is in one variable or in one
\* free region, above in none.
OneOwner(b) ==
  /\ \A q, r \in Reg : q \in Users(b) /\ r \in Users(b) => q = r
  /\ \A j, k \in DOMAIN freerg : j \in Spares(b) /\ k \in Spares(b) => j = k
  /\ Users(b) = {} \/ Spares(b) = {}
  /\ b < sbrk <=> Users(b) # {} \/ Spares(b) # {}

TidyInv == Inv /\ \A b \in Nat : OneOwner(b)

\* A variable taken from bytes s to e - 1: its register had none before.
LEMMA NewUser ==
  ASSUME TypeOK, NEW r \in Reg, ~symrgtbl[r].valid, NEW s \in Nat, NEW e \in Nat,
         SetSym(r, s, e), NEW b \in Nat
  PROVE  /\ r \notin Users(b)
         /\ Users(b)' = IF s <= b /\ b < e THEN Users(b) \cup {r} ELSE Users(b)
<1>1. r \notin Users(b)
  BY DEF Users
<1>2. r \in Users(b)' <=> s <= b /\ b < e
  BY SetSymIs DEF Users, In
<1>3. \A q \in Reg : q # r => (q \in Users(b)' <=> q \in Users(b))
  BY SetSymIs DEF Users, In
<1>4. Users(b) \subseteq Reg /\ Users(b)' \subseteq Reg
  BY DEF Users
<1> QED
  BY <1>1, <1>2, <1>3, <1>4

LEMMA AllocFreedKeepsOwners ==
  ASSUME TidyInv, Inv', NEW r \in Reg, ~symrgtbl[r].valid, NEW size \in Nat,
         AllocFreed(r, size), NEW b \in Nat
  PROVE  OneOwner(b)'
<1>1. PICK k \in DOMAIN freerg : /\ FirstFit(k, size)
                                /\ SetSym(r, freerg[k].start, freerg[k].start + size)
                                /\ Carve(k, size)
                                /\ UNCHANGED <<sbrk, vm_end>>
  BY DEF AllocFreed
<1>2. PICK from : CarvedFrom(from, k, size)
  BY <1>1, CarveMoves DEF TidyInv, Inv
<1> DEFINE s == freerg[k].start
           taken == s <= b /\ b < s + size
<1>3. /\ s \in Nat /\ s + size \in Nat /\ s + size <= freerg[k].end /\ freerg[k].end \in Nat
      /\ DOMAIN freerg = 1 .. Len(freerg) /\ DOMAIN freerg' = 1 .. Len(freerg')
      /\ k \in 1 .. Len(freerg)
  <2>1. TypeOK /\ TypeOK'
    BY DEF TidyInv, Inv
  <2>2. freerg' \in Seq(Region)
    BY <2>1 DEF TypeOK
  <2> QED
    BY <1>1, <2>1, <2>2, FreeList, LenProperties DEF FirstFit
<1>4. /\ OneOwner(b) /\ r \notin Users(b)
      /\ Users(b)' = IF taken THEN Users(b) \cup {r} ELSE Users(b)
  BY <1>1, <1>3, NewUser DEF TidyInv, Inv
<1>5. \A j \in DOMAIN freerg' : j \in Spares(b)' <=>
        from[j] \in Spares(b) /\ ~(from[j] = k /\ b < s + size)
  BY <1>2, <1>3 DEF CarvedFrom, Spares
<1>6. \A i, j \in DOMAIN freerg' : from[i] = from[j] => i = j
  BY <1>2, <1>3 DEF CarvedFrom
<1>7. \A i \in DOMAIN freerg : i \in Spares(b) /\ ~(i = k /\ b < s + size) =>
        \E j \in DOMAIN freerg' : from[j] = i
  BY <1>2, <1>3 DEF CarvedFrom, Spares
<1>8. Spares(b) \subseteq DOMAIN freerg /\ Spares(b)' \subseteq DOMAIN freerg'
  BY DEF Spares
<1>9. sbrk' = sbrk
  BY <1>1
<1>10. CASE taken
  <2>1. k \in Spares(b)
    BY <1>1, <1>3, <1>10 DEF Spares, In
  <2>2. Users(b) = {} /\ \A i \in Spares(b) : i = k
    BY <1>1, <1>4, <1>8, <2>1 DEF OneOwner
  <2>3. Spares(b)' = {}
    BY <1>5, <1>8, <1>10, <2>2
  <2>4. Users(b)' = {r} /\ b < sbrk
    BY <1>4, <1>10, <2>1, <2>2 DEF OneOwner
  <2> QED
    BY <1>9, <2>3, <2>4 DEF OneOwner
<1>11. CASE ~taken
  <2>1. Users(b)' = Users(b)
    BY <1>4, <1>11
  <2>2. \A i \in Spares(b) : ~(i = k /\ b < s + size)
    BY <1>3, <1>11 DEF Spares, In
  <2>3. \A i, j \in DOMAIN freerg' : i \in Spares(b)' /\ j \in Spares(b)' => i = j
    BY <1>4, <1>5, <1>6, <1>8 DEF OneOwner
  <2>4. Spares(b)' = {} <=> Spares(b) = {}
    BY <1>5, <1>7, <1>8, <2>2
  <2> QED
    BY <1>4, <1>9, <2>1, <2>3, <2>4 DEF OneOwner
<1> QED
  BY <1>10, <1>11

LEMMA AllocNewKeepsOwners ==
  ASSUME TidyInv, NEW r \in Reg, ~symrgtbl[r].valid, NEW size \in Nat,
         SetSym(r, sbrk, sbrk + size), sbrk' = sbrk + size, UNCHANGED freerg, NEW b \in Nat
  PROVE  OneOwner(b)'
<1>1. sbrk \in Nat /\ sbrk + size \in Nat
  BY DEF TidyInv, Inv, TypeOK
<1>2. /\ OneOwner(b) /\ r \notin Users(b)
      /\ Users(b)' = IF sbrk <= b /\ b < sbrk + size THEN Users(b) \cup {r} ELSE Users(b)
  BY <1>1, NewUser DEF TidyInv, Inv
<1>3. Spares(b)' = Spares(b)
  BY DEF Spares
<1>4. CASE sbrk <= b /\ b < sbrk + size
  <2>1. Users(b) = {} /\ Spares(b) = {}
    BY <1>1, <1>2, <1>4 DEF OneOwner
  <2>2. Users(b)' = {r} /\ Spares(b)' = {} /\ b < sbrk'
    BY <1>2, <1>3, <1>4, <2>1
  <2> QED
    BY <2>2 DEF OneOwner
<1>5. CASE ~(sbrk <= b /\ b < sbrk + size)
  <2>1. Users(b)' = Users(b) /\ (b < sbrk' <=> b < sbrk)
    BY <1>1, <1>2, <1>5
  <2> QED
    BY <1>2, <1>3, <2>1 DEF OneOwner
<1> QED
  BY <1>4, <1>5

LEMMA FreeKeepsOwners ==
  ASSUME TidyInv, Inv', NEW r \in Reg, symrgtbl[r].valid, Free(r), NEW b \in Nat
  PROVE  OneOwner(b)'
<1>1. OneOwner(b) /\ sbrk' = sbrk /\ TypeOK
  BY DEF TidyInv, Inv, Free
<1>2. Users(b)' = Users(b) \ {r}
  BY <1>1, FreeMoves DEF Users, In
<1>3. r \in Users(b) <=> symrgtbl[r].start <= b /\ b < symrgtbl[r].end
  BY DEF Users, In
<1>4. /\ Len(freerg) \in Nat /\ DOMAIN freerg = 1 .. Len(freerg)
      /\ DOMAIN freerg' = 1 .. Len(freerg')
  BY <1>1, FreeList, FreeMoves, LenProperties
<1>5. symrgtbl[r].start \in Nat /\ symrgtbl[r].end \in Nat
  BY <1>1 DEF TypeOK
<1>6. CASE symrgtbl[r].start >= symrgtbl[r].end /\ freerg' = freerg
  <2>1. r \notin Users(b) /\ Users(b)' = Users(b) /\ Spares(b)' = Spares(b)
    BY <1>2, <1>3, <1>5, <1>6 DEF Spares
  <2> QED
    BY <1>1, <1>6, <2>1 DEF OneOwner
<1>7. CASE /\ symrgtbl[r].start < symrgtbl[r].end
           /\ Len(freerg') = Len(freerg) + 1
           /\ freerg'[1] = [start |-> symrgtbl[r].start, end |-> symrgtbl[r].end]
           /\ \A j \in 1 .. Len(freerg) : freerg'[j + 1] = freerg[j]
  <2>1. 1 \in Spares(b)' <=> r \in Users(b)
    BY <1>3, <1>4, <1>7 DEF Spares, In
  <2>2. \A j \in 1 .. Len(freerg) : j + 1 \in Spares(b)' <=> j \in Spares(b)
    BY <1>4, <1>7 DEF Spares, In
  <2>3. \A j \in DOMAIN freerg' : j = 1 \/ (j - 1 \in 1 .. Len(freerg) /\ j = (j - 1) + 1)
    BY <1>4, <1>7
  <2>4. Spares(b) \subseteq 1 .. Len(freerg) /\ Spares(b)' \subseteq DOMAIN freerg'
    BY <1>4 DEF Spares
  <2>5. CASE r \in Users(b)
    <3>1. Users(b)' = {} /\ Spares(b) = {} /\ b < sbrk'
      BY <1>1, <1>2, <2>5 DEF OneOwner, Users
    <3>2. Spares(b)' = {1}
      BY <2>1, <2>2, <2>3, <2>4, <2>5, <3>1
    <3> QED
      BY <3>1, <3>2 DEF OneOwner
  <2>6. CASE r \notin Users(b)
    <3>1. Users(b)' = Users(b)
      BY <1>2, <2>6
    <3>2. \A j \in DOMAIN freerg' : j \in Spares(b)' => j - 1 \in Spares(b)
      BY <2>1, <2>2, <2>3, <2>6
    <3>3. \A i, j \in DOMAIN freerg' : i \in Spares(b)' /\ j \in Spares(b)' => i = j
      <4> SUFFICES ASSUME NEW i \in DOMAIN freerg', NEW j \in DOMAIN freerg',
                          i \in Spares(b)', j \in Spares(b)'
                   PROVE  i = j
        OBVIOUS
      <4>1. i - 1 = j - 1
        BY <1>1, <1>4, <2>4, <3>2 DEF OneOwner
      <4> QED
        BY <1>4, <4>1
    <3>4. Spares(b)' = {} <=> Spares(b) = {}
      <4>1. ASSUME NEW j \in Spares(b) PROVE Spares(b)' # {}
        BY <2>2, <2>4
      <4>2. ASSUME NEW j \in Spares(b)' PROVE Spares(b) # {}
        BY <2>4, <3>2
      <4> QED
        BY <4>1, <4>2
    <3> QED
      BY <1>1, <3>1, <3>3, <3>4 DEF OneOwner
  <2> QED
    BY <2>5, <2>6
<1> QED
  BY <1>1, <1>6, <1>7, FreeMoves

LEMMA TidyStepKeeps == TidyInv /\ [TidyNext]_vars => TidyInv'
<1> SUFFICES ASSUME TidyInv, [TidyNext]_vars PROVE TidyInv'
  OBVIOUS
<1>1. ASSUME NEW r \in Reg, symrgtbl[r].valid, Free(r) PROVE TidyInv'
  <2>1. Inv'
    BY <1>1, FreeKeepsInv DEF TidyInv
  <2> QED
    BY <1>1, <2>1, FreeKeepsOwners DEF TidyInv
<1>2. ASSUME NEW r \in Reg, ~symrgtbl[r].valid, NEW size \in Sizes, Alloc(r, size)
      PROVE  TidyInv'
  <2>1. size \in Nat
    BY VmAreaAssumption
  <2>2. Inv'
    BY <1>2, <2>1, AllocKeepsInv DEF TidyInv
  <2>3. \A b \in Nat : OneOwner(b)'
    BY <1>2, <2>1, <2>2, AllocFreedKeepsOwners, AllocNewKeepsOwners
       DEF Alloc, AllocGap, AllocGrow
  <2> QED
    BY <2>2, <2>3 DEF TidyInv
<1>3. CASE UNCHANGED vars
  BY <1>3 DEF TidyInv, Inv, TypeOK, AreaTight, OneOwner, Users, Spares, vars
<1> QED
  BY <1>1, <1>2, <1>3 DEF TidyNext

LEMMA TidyInit == Init => TidyInv
<1> SUFFICES ASSUME Init PROVE TidyInv
  OBVIOUS
<1>1. ASSUME NEW b \in Nat PROVE Users(b) = {} /\ Spares(b) = {} /\ ~(b < sbrk)
  BY <1>1 DEF Init, Users, Spares, In
<1> QED
  BY <1>1, InvInit DEF TidyInv, OneOwner

LEMMA TidyMeans == TidyInv => TypeOK /\ VariablesDisjoint /\ BytesAccountedFor /\ AreaTight
<1> SUFFICES ASSUME TidyInv PROVE VariablesDisjoint /\ BytesAccountedFor
  BY DEF TidyInv, Inv
<1>1. sbrk \in Nat
  BY DEF TidyInv, Inv, TypeOK
<1>2. VariablesDisjoint
  <2>1. \A b \in 0 .. sbrk : OneOwner(b)
    BY <1>1 DEF TidyInv
  <2> QED
    BY <2>1 DEF VariablesDisjoint, OneOwner, Users
<1>3. ASSUME NEW b \in 0 .. sbrk - 1
      PROVE  Cardinality(Users(b)) + Cardinality(Spares(b)) = 1
  <2>1. OneOwner(b) /\ b < sbrk
    BY <1>1, <1>3 DEF TidyInv
  <2>2. Users(b) \subseteq Reg /\ Spares(b) \subseteq DOMAIN freerg
    BY DEF Users, Spares
  <2>3. \/ Spares(b) = {} /\ \E r : Users(b) = {r}
        \/ Users(b) = {} /\ \E k : Spares(b) = {k}
    BY <2>1, <2>2 DEF OneOwner
  <2>4. Cardinality({}) = 0 /\ \A x : Cardinality({x}) = 1
    BY FS_EmptySet, FS_Singleton
  <2>5. CASE Spares(b) = {} /\ \E r : Users(b) = {r}
    <3>1. Cardinality(Spares(b)) = 0 /\ Cardinality(Users(b)) = 1
      BY <2>4, <2>5
    <3> QED
      BY <3>1
  <2>6. CASE Users(b) = {} /\ \E k : Spares(b) = {k}
    <3>1. Cardinality(Users(b)) = 0 /\ Cardinality(Spares(b)) = 1
      BY <2>4, <2>6
    <3> QED
      BY <3>1
  <2> QED
    BY <2>3, <2>5, <2>6
<1> QED
  BY <1>2, <1>3 DEF BytesAccountedFor

\* No two variables of a tidy program share a byte.
THEOREM Disjoint == TidySpec => []VariablesDisjoint
BY TidyInit, TidyStepKeeps, TidyMeans, PTL DEF TidySpec

\* Every byte below sbrk is in exactly one variable or free region of a tidy
\* program: splitting, using up and giving back regions loses nothing.
THEOREM AccountedFor == TidySpec => []BytesAccountedFor
BY TidyInit, TidyStepKeeps, TidyMeans, PTL DEF TidySpec

-----------------------------------------------------------------------------
(* The process and its memory *)

\* The variables of VarMemory are allocated and freed as by a tidy program.
LEMMA IsTidy == VarSpec => TidySpec
<1>1. VarInit => Init
  BY DEF VarInit
<1>2. VarNext => [TidyNext]_vars
  BY DEF VarNext, FreeVar, AllocMapped, AllocPages, AllocFails, Read, Write, Refused,
         TidyNext, Alloc
<1>3. [VarNext]_<<vars, memVars>> => [TidyNext]_vars
  BY <1>2
<1> QED
  BY <1>1, <1>3, PTL DEF VarSpec, TidySpec

LEMMA VarTidy == VarSpec => []TidyInv
BY IsTidy, TidyInit, TidyStepKeeps, PTL DEF TidySpec

\* The area of a process with memory: types, no byte shared, none lost, and
\* vm_end at the page boundary behind sbrk.
THEOREM AreaRight == VarSpec => [](TypeOK /\ VariablesDisjoint /\ BytesAccountedFor /\ AreaTight)
BY VarTidy, TidyMeans, PTL

-----------------------------------------------------------------------------
(* The page table *)

MemInv ==
  /\ mem \in [{This} -> Seq(Page)]
  /\ AreaMapped

\* Pages for the missing bytes, counted in bytes.
LEMMA WholePages ==
  ASSUME NEW n \in Nat
  PROVE  AlignUp(n) \div PAGESZ \in Nat /\ (AlignUp(n) \div PAGESZ) * PAGESZ = AlignUp(n)
<1>1. PICK m \in Nat : AlignUp(n) = m * PAGESZ
  BY AlignUpIs
<1>2. PAGESZ \in Nat \ {0} /\ m * PAGESZ \in Nat
  BY VmAreaAssumption
<1>3. (m * PAGESZ) \div PAGESZ = m
  <2> DEFINE q == (m * PAGESZ) \div PAGESZ
  <2>1. q \in Nat /\ PAGESZ * q <= m * PAGESZ /\ m * PAGESZ < PAGESZ * q + PAGESZ
    BY <1>2, Division
  <2> HIDE DEF q
  <2>2. PAGESZ * q = q * PAGESZ /\ q * PAGESZ \in Nat
    BY <1>2, <2>1
  <2>3. ~(q < m)
    BY <1>2, <2>1, <2>2, NextMultiple
  <2>4. ~(m < q)
    BY <1>2, <2>1, <2>2, NextMultiple
  <2>5. q = m
    BY <2>1, <2>3, <2>4
  <2> QED
    BY <2>5 DEF q
<1> QED
  BY <1>1, <1>3

LEMMA Distribute ==
  ASSUME NEW a \in Nat, NEW b \in Nat, NEW c \in Nat
  PROVE  (a + b) * c = a * c + b * c
OBVIOUS

LEMMA MemInit == VarInit => MemInv
<1> SUFFICES ASSUME VarInit PROVE MemInv
  OBVIOUS
<1>1. mem = [p \in {This} |-> <<>>] /\ vm_end = 0
  BY DEF VarInit, Init, M!FlatInit
<1>2. mem[This] = <<>> /\ mem \in [{This} -> Seq(Page)] /\ Len(mem[This]) = 0
  BY <1>1
<1>3. 0 * PAGESZ = 0
  BY VmAreaAssumption
<1> QED
  BY <1>1, <1>2, <1>3 DEF MemInv, AreaMapped

LEMMA MemStep ==
  ASSUME TidyInv, MemInv, [VarNext]_<<vars, memVars>>
  PROVE  MemInv'
<1>1. ASSUME UNCHANGED <<mem, vm_end>> PROVE MemInv'
  BY <1>1 DEF MemInv, AreaMapped
<1>2. ASSUME NEW r \in Reg, NEW offset \in 0 .. PAGESZ, Read(r, offset) PROVE MemInv'
  BY <1>1, <1>2 DEF Read, Refused, GetVal, Return, M!FlatRead, M!FlatFail, vars
<1>3. ASSUME NEW r \in Reg, NEW offset \in 0 .. PAGESZ, NEW b \in Byte, Write(r, offset, b)
      PROVE  MemInv'
  <2>1. UNCHANGED vm_end
    BY <1>3 DEF Write, Refused, vars
  <2>2. CASE UNCHANGED mem
    BY <1>1, <2>1, <2>2
  <2> DEFINE addr == Address(r, offset)
             q == Pgn(addr)
             page == [mem[This][q] EXCEPT ![Offst(addr)] = b]
  <2>3. CASE M!FlatWrite(This, q, page)
    <3>1. /\ q \in DOMAIN mem[This] /\ mem[This] \in Seq(Page)
          /\ mem' = [mem EXCEPT ![This][q] = page]
      BY <2>3 DEF M!FlatWrite, MemInv
    <3>2. q \in 1 .. Len(mem[This]) /\ mem[This][q] \in Page
      BY <3>1, LenProperties, ElementOfSeq
    <3>3. page \in Page
      BY <3>2 DEF Page
    <3> HIDE DEF page, q
    <3>4. /\ [mem[This] EXCEPT ![q] = page] \in Seq(Page)
          /\ Len([mem[This] EXCEPT ![q] = page]) = Len(mem[This])
      BY <3>1, <3>2, <3>3, ExceptSeq
    <3>5. /\ mem' \in [{This} -> Seq(Page)]
          /\ mem'[This] = [mem[This] EXCEPT ![q] = page]
      BY <3>1, <3>4 DEF MemInv
    <3> QED
      BY <2>1, <3>4, <3>5 DEF MemInv, AreaMapped
  <2> QED
    BY <1>3, <2>2, <2>3 DEF Write, Refused, SetVal, Return, M!FlatFail
<1>4. ASSUME NEW r \in Reg, NEW size \in Sizes, AllocPages(r, size) PROVE MemInv'
  <2> DEFINE x == sbrk + size - vm_end
             n == AlignUp(x) \div PAGESZ
             new == [i \in 1 .. n |-> [o \in 0 .. PAGESZ - 1 |-> NUL]]
  <2>1. /\ x \in Nat /\ vm_end' = vm_end + AlignUp(x) /\ vm_end \in Nat
        /\ mem' = [mem EXCEPT ![This] = @ \o new]
    BY <1>4, VmAreaAssumption DEF AllocPages, AllocGrow, M!FlatGrow, TidyInv, Inv, TypeOK
  <2>2. n \in Nat /\ n * PAGESZ = AlignUp(x)
    BY <2>1, WholePages
  <2> HIDE DEF n, x
  <2>3. new \in Seq(Page) /\ Len(new) = n
    BY <2>2, ByteAssumption DEF Page
  <2> HIDE DEF new
  <2>4. mem[This] \in Seq(Page) /\ Len(mem[This]) \in Nat /\ Len(mem[This]) * PAGESZ = vm_end
    BY LenProperties DEF MemInv, AreaMapped
  <2>5. mem[This] \o new \in Seq(Page) /\ Len(mem[This] \o new) = Len(mem[This]) + n
    BY <2>3, <2>4, ConcatProperties
  <2>6. mem' \in [{This} -> Seq(Page)] /\ mem'[This] = mem[This] \o new
    BY <2>1, <2>5 DEF MemInv
  <2>7. (Len(mem[This]) + n) * PAGESZ = Len(mem[This]) * PAGESZ + n * PAGESZ
    BY <2>2, <2>4, VmAreaAssumption, Distribute
  <2> QED
    BY <2>1, <2>2, <2>4, <2>5, <2>6, <2>7 DEF MemInv, AreaMapped
<1>5. ASSUME NEW r \in Reg, NEW size \in Sizes,
             AllocMapped(r, size) \/ AllocFails(size)
      PROVE  MemInv'
  BY <1>1, <1>5 DEF AllocMapped, AllocFreed, AllocGap, AllocFails, Return,
     M!FlatFail, vars
<1>6. ASSUME NEW r \in Reg, FreeVar(r) PROVE MemInv'
  BY <1>1, <1>6 DEF FreeVar, Free, Return
<1>7. CASE UNCHANGED <<vars, memVars>>
  BY <1>1, <1>7 DEF vars, memVars
<1> QED
  BY <1>2, <1>3, <1>4, <1>5, <1>6, <1>7 DEF VarNext

\* The page table ends where the area ends, whatever a tidy program
\* allocates, frees, reads and writes, and whatever fails.
THEOREM Mapped == VarSpec => []AreaMapped
<1>1. MemInv => AreaMapped
  BY DEF MemInv
<1> QED
  BY <1>1, MemInit, MemStep, VarTidy, PTL DEF VarSpec

-----------------------------------------------------------------------------
(* Addresses and bytes *)

LEMMA SplitBy ==
  ASSUME NEW P \in Int, P > 0, NEW a \in Int
  PROVE  a = (a \div P) * P + (a % P)
BY SMT

\* An address is its page and its offset.
LEMMA Split ==
  ASSUME NEW a \in Nat
  PROVE  /\ a \div PAGESZ \in Nat /\ a % PAGESZ \in 0 .. PAGESZ - 1
         /\ a = (a \div PAGESZ) * PAGESZ + (a % PAGESZ)
<1>1. PAGESZ \in Nat \ {0}
  BY VmAreaAssumption
<1> QED
  BY <1>1, SplitBy

LEMMA OneAddress ==
  ASSUME NEW a \in Nat, NEW b \in Nat, a \div PAGESZ = b \div PAGESZ, a % PAGESZ = b % PAGESZ
  PROVE  a = b
<1>1. a = (a \div PAGESZ) * PAGESZ + (a % PAGESZ)
  BY Split
<1>2. b = (b \div PAGESZ) * PAGESZ + (b % PAGESZ)
  BY Split
<1> QED
  BY <1>1, <1>2

\* An address below n pages is on one of them.
LEMMA PageBelow ==
  ASSUME NEW a \in Nat, NEW n \in Nat, a < n * PAGESZ
  PROVE  a \div PAGESZ + 1 \in 1 .. n
<1> DEFINE q == a \div PAGESZ
<1>1. PAGESZ \in Nat \ {0} /\ q \in Nat /\ PAGESZ * q <= a
  BY VmAreaAssumption, Division
<1> HIDE DEF q
<1>2. PAGESZ * q = q * PAGESZ /\ q * PAGESZ \in Nat /\ n * PAGESZ \in Nat
  BY <1>1
<1>3. ~(n < q)
  BY <1>1, <1>2, NextMultiple
<1>4. n # q
  BY <1>1, <1>2
<1>5. q + 1 \in 1 .. n
  BY <1>1, <1>3, <1>4
<1> QED
  BY <1>5 DEF q

\* What is below the end of a variable is mapped.
LEMMA SbrkMapped ==
  ASSUME TidyInv
  PROVE  sbrk <= vm_end /\ sbrk \in Nat /\ vm_end \in Nat
<1>1. sbrk \in Nat /\ vm_end \in Nat /\ vm_end = AlignUp(sbrk)
  BY DEF TidyInv, Inv, TypeOK, AreaTight
<1> QED
  BY <1>1, AlignUpIs

LEMMA BytePlace ==
  ASSUME TidyInv, MemInv, NEW a \in Nat, a < vm_end
  PROVE  /\ a \div PAGESZ + 1 \in 1 .. Len(mem[This])
         /\ mem[This][a \div PAGESZ + 1] \in Page
         /\ ByteAt(a) \in Byte
<1>1. mem[This] \in Seq(Page) /\ Len(mem[This]) \in Nat /\ Len(mem[This]) * PAGESZ = vm_end
  BY LenProperties DEF MemInv, AreaMapped
<1>2. a \div PAGESZ + 1 \in 1 .. Len(mem[This])
  BY <1>1, PageBelow
<1>3. mem[This][a \div PAGESZ + 1] \in Page
  BY <1>1, <1>2, ElementOfSeq
<1>4. a % PAGESZ \in 0 .. PAGESZ - 1
  BY Split
<1> QED
  BY <1>2, <1>3, <1>4 DEF ByteAt, Page

\* A write changes the byte it names, and no other.
LEMMA WriteByte ==
  ASSUME TidyInv, MemInv, NEW a \in Nat, a < vm_end, NEW b,
         M!FlatWrite(This, Pgn(a), [mem[This][Pgn(a)] EXCEPT ![Offst(a)] = b]),
         NEW x \in Nat, x < vm_end
  PROVE  mem'[This][x \div PAGESZ + 1][x % PAGESZ] = IF x = a THEN b ELSE ByteAt(x)
<1> DEFINE q == a \div PAGESZ + 1
           o == a % PAGESZ
           p == x \div PAGESZ + 1
           i == x % PAGESZ
           page == [mem[This][q] EXCEPT ![o] = b]
<1>1. mem' = [mem EXCEPT ![This][q] = page]
  BY DEF M!FlatWrite, Pgn, Offst
<1>2. /\ q \in 1 .. Len(mem[This]) /\ mem[This][q] \in Page
      /\ p \in 1 .. Len(mem[This]) /\ mem[This][p] \in Page
  BY BytePlace
<1>3. mem[This] \in Seq(Page) /\ mem \in [{This} -> Seq(Page)]
  BY DEF MemInv
<1>4. o \in 0 .. PAGESZ - 1 /\ i \in 0 .. PAGESZ - 1
  BY Split
<1>5. x = a <=> p = q /\ i = o
  <2>1. a \div PAGESZ \in Nat /\ x \div PAGESZ \in Nat
    BY Split
  <2>2. p = q => x \div PAGESZ = a \div PAGESZ
    BY <2>1
  <2> QED
    BY <2>2, OneAddress
<1>6. ByteAt(x) = mem[This][p][i]
  BY DEF ByteAt
<1> HIDE DEF q, o, p, i, page
<1>7. mem'[This] = [mem[This] EXCEPT ![q] = page]
  BY <1>1, <1>3
<1>8. mem'[This][p] = IF p = q THEN page ELSE mem[This][p]
  BY <1>2, <1>3, <1>7, ExceptSeq
<1>9. page[i] = IF i = o THEN b ELSE mem[This][q][i]
  BY <1>2, <1>4 DEF page, Page
<1>10. mem'[This][p][i] = IF x = a THEN b ELSE ByteAt(x)
  BY <1>5, <1>6, <1>8, <1>9
<1> QED
  BY <1>10 DEF p, i

\* New pages leave the bytes of the old ones.
LEMMA GrowByte ==
  ASSUME TidyInv, MemInv, NEW n \in Nat, M!FlatGrow(This, n), NEW x \in Nat, x < vm_end
  PROVE  mem'[This][x \div PAGESZ + 1][x % PAGESZ] = ByteAt(x)
<1> DEFINE p == x \div PAGESZ + 1
           new == [j \in 1 .. n |-> [o \in 0 .. PAGESZ - 1 |-> NUL]]
<1>1. mem' = [mem EXCEPT ![This] = @ \o new] /\ new \in Seq(Page)
  BY ByteAssumption DEF M!FlatGrow, Page
<1>2. p \in 1 .. Len(mem[This])
  BY BytePlace
<1> HIDE DEF p, new
<1>3. mem[This] \in Seq(Page) /\ mem'[This] = mem[This] \o new
  BY <1>1 DEF MemInv
<1>4. mem'[This][p] = mem[This][p]
  BY <1>1, <1>2, <1>3, ConcatProperties
<1> QED
  BY <1>4 DEF ByteAt, p

-----------------------------------------------------------------------------
(* What the variables hold *)

\* The refinement mapping.
Content(r) ==
  IF symrgtbl[r].valid
    THEN [o \in 0 .. symrgtbl[r].end - symrgtbl[r].start - 1 |-> ByteAt(symrgtbl[r].start + o)]
    ELSE NoVariable

SizeInv ==
  \A r \in Reg : symrgtbl[r].valid => symrgtbl[r].end - symrgtbl[r].start \in Sizes

LEMMA SizeStep ==
  ASSUME TidyInv, SizeInv, [VarNext]_<<vars, memVars>>
  PROVE  SizeInv'
<1>1. TypeOK
  BY DEF TidyInv, Inv
<1>2. CASE UNCHANGED vars
  BY <1>2 DEF SizeInv, vars
<1>3. ASSUME NEW r \in Reg, Free(r) PROVE SizeInv'
  BY <1>1, <1>3, FreeMoves DEF SizeInv
<1>4. ASSUME NEW r \in Reg, NEW size \in Sizes, NEW s \in Nat, SetSym(r, s, s + size)
      PROVE  SizeInv'
  BY <1>1, <1>4, SetSymIs, VmAreaAssumption DEF SizeInv
<1>5. ASSUME NEW r \in Reg, NEW size \in Sizes, Alloc(r, size) PROVE SizeInv'
  <2>1. sbrk \in Nat /\ \A k \in DOMAIN freerg : freerg[k].start \in Nat
    BY <1>1, FreeList DEF TypeOK
  <2> QED
    BY <1>4, <1>5, <2>1 DEF Alloc, AllocFreed, AllocGap, AllocGrow
<1> QED
  BY <1>2, <1>3, <1>5 DEF VarNext, FreeVar, AllocMapped, AllocPages, AllocFails, Alloc,
     Read, Write, Refused, memVars

MapInv == TidyInv /\ MemInv /\ SizeInv

LEMMA MapInvInit == VarInit => MapInv
<1>1. VarInit => Init
  BY DEF VarInit
<1>2. Init => SizeInv
  BY DEF Init, SizeInv
<1> QED
  BY <1>1, <1>2, TidyInit, MemInit DEF MapInv

LEMMA MapInvStep == MapInv /\ [VarNext]_<<vars, memVars>> => MapInv'
<1>1. [VarNext]_<<vars, memVars>> => [TidyNext]_vars
  BY DEF VarNext, FreeVar, AllocMapped, AllocPages, AllocFails, Read, Write, Refused,
         TidyNext, Alloc
<1> QED
  BY <1>1, TidyStepKeeps, MemStep, SizeStep DEF MapInv

\* A variable's addresses are mapped.
LEMMA OfVariable ==
  ASSUME MapInv, NEW r \in Reg, symrgtbl[r].valid
  PROVE  /\ symrgtbl[r].start \in Nat /\ symrgtbl[r].end \in Nat
         /\ symrgtbl[r].end - symrgtbl[r].start \in Sizes \cap Nat
         /\ \A o \in 0 .. symrgtbl[r].end - symrgtbl[r].start - 1 :
              symrgtbl[r].start + o \in Nat /\ symrgtbl[r].start + o < vm_end
<1>1. /\ symrgtbl[r].start \in Nat /\ symrgtbl[r].end \in Nat
      /\ symrgtbl[r].start <= symrgtbl[r].end /\ symrgtbl[r].end <= sbrk
  BY DEF MapInv, TidyInv, Inv, TypeOK, AreaTight
<1>2. sbrk <= vm_end /\ sbrk \in Nat /\ vm_end \in Nat
  BY SbrkMapped DEF MapInv
<1> QED
  BY <1>1, <1>2 DEF MapInv, SizeInv

HoldsBytes ==
  \A r \in Reg : symrgtbl[r].valid =>
    /\ Content(r) \in [0 .. symrgtbl[r].end - symrgtbl[r].start - 1 -> Byte]
    /\ Content(r) # NoVariable

LEMMA Holding == MapInv => HoldsBytes
<1> SUFFICES ASSUME MapInv, NEW r \in Reg, symrgtbl[r].valid
             PROVE  /\ Content(r) \in [0 .. symrgtbl[r].end - symrgtbl[r].start - 1 -> Byte]
                    /\ Content(r) # NoVariable
  BY DEF HoldsBytes
<1>1. \A o \in 0 .. symrgtbl[r].end - symrgtbl[r].start - 1 :
        ByteAt(symrgtbl[r].start + o) \in Byte
  BY OfVariable, BytePlace DEF MapInv
<1>2. Content(r) \in [0 .. symrgtbl[r].end - symrgtbl[r].start - 1 -> Byte]
  BY <1>1 DEF Content
<1> QED
  BY <1>2, OfVariable, ByteAssumption

\* A variable that stays where it is, and its bytes, holds what it held.
LEMMA ContentStays ==
  ASSUME NEW r \in Reg,
         symrgtbl'[r].start = symrgtbl[r].start, symrgtbl'[r].end = symrgtbl[r].end,
         symrgtbl'[r].valid = symrgtbl[r].valid,
         symrgtbl[r].valid =>
           \A o \in 0 .. symrgtbl[r].end - symrgtbl[r].start - 1 :
             LET x == symrgtbl[r].start + o IN
             mem'[This][x \div PAGESZ + 1][x % PAGESZ] = ByteAt(x)
  PROVE  Content(r)' = Content(r)
<1>1. CASE ~symrgtbl[r].valid
  BY <1>1 DEF Content
<1>2. CASE symrgtbl[r].valid
  <2> DEFINE x(o) == symrgtbl[r].start + o
  <2>1. Content(r)' = [o \in 0 .. symrgtbl[r].end - symrgtbl[r].start - 1 |->
                         mem'[This][x(o) \div PAGESZ + 1][x(o) % PAGESZ]]
    BY <1>2 DEF Content, ByteAt
  <2>2. \A o \in 0 .. symrgtbl[r].end - symrgtbl[r].start - 1 :
          mem'[This][x(o) \div PAGESZ + 1][x(o) % PAGESZ] = ByteAt(x(o))
    BY <1>2
  <2> QED
    BY <1>2, <2>1, <2>2 DEF Content
<1> QED
  BY <1>1, <1>2

-----------------------------------------------------------------------------
(* Every step is one of Variables *)

Contents == [r \in Reg |-> Content(r)]

\* The byte at x after the step.
NextByte(x) == mem'[This][x \div PAGESZ + 1][x % PAGESZ]

LEMMA Kept ==
  ASSUME MapInv, NEW r \in Reg, symrgtbl'[r] = symrgtbl[r],
         \A x \in Nat : x < vm_end => NextByte(x) = ByteAt(x)
  PROVE  Content(r)' = Content(r)
BY OfVariable, ContentStays DEF NextByte

LEMMA AllKept ==
  ASSUME UNCHANGED vars, UNCHANGED mem
  PROVE  UNCHANGED Contents
BY DEF Contents, Content, ByteAt, vars

LEMMA NoCall ==
  ASSUME UNCHANGED vars, UNCHANGED mem, status' = "error"
  PROVE  V!Refuse
BY AllKept DEF V!Refuse, Contents, Content

LEMMA NewStep ==
  ASSUME MapInv, HoldsBytes', NEW r \in Reg, ~symrgtbl[r].valid,
         NEW size \in Sizes, NEW s \in Nat, SetSym(r, s, s + size),
         \A x \in Nat : x < vm_end => NextByte(x) = ByteAt(x),
         status' = "ok"
  PROVE  V!New(r, size)
<1>1. /\ symrgtbl'[r].start = s /\ symrgtbl'[r].end = s + size /\ symrgtbl'[r].valid
      /\ \A q \in Reg : q # r => symrgtbl'[q] = symrgtbl[q]
  BY SetSymIs DEF MapInv, TidyInv, Inv
<1>2. \A q \in Reg : q # r => Content(q)' = Content(q)
  BY <1>1, Kept
<1>3. size \in Nat /\ (s + size) - s = size
  BY VmAreaAssumption
<1>4. Content(r)' \in [0 .. size - 1 -> Byte]
  BY <1>1, <1>3 DEF HoldsBytes
<1>5. Content(r) = NoVariable
  BY DEF Content
<1>6. Contents' = [Contents EXCEPT ![r] = Content(r)']
  BY <1>2 DEF Contents
<1>7. Contents[r] = NoVariable
  BY <1>5 DEF Contents
<1> QED
  BY <1>4, <1>6, <1>7 DEF V!New, V!Holds, Contents, Content

LEMMA DropStep ==
  ASSUME MapInv, HoldsBytes, NEW r \in Reg, symrgtbl[r].valid, FreeVar(r)
  PROVE  V!Drop(r)
<1>1. /\ Free(r) /\ status' = "ok" /\ UNCHANGED mem
  BY DEF FreeVar, Return
<1>2. \A q \in Reg : /\ symrgtbl'[q].start = symrgtbl[q].start
                     /\ symrgtbl'[q].end = symrgtbl[q].end
                     /\ symrgtbl'[q].valid = IF q = r THEN FALSE ELSE symrgtbl[q].valid
  BY <1>1, FreeMoves DEF MapInv, TidyInv, Inv
<1>3. \A q \in Reg : q # r => Content(q)' = Content(q)
  BY <1>1, <1>2, ContentStays DEF ByteAt
<1>4. Content(r)' = NoVariable
  BY <1>2 DEF Content
<1>5. Contents' = [Contents EXCEPT ![r] = NoVariable]
  BY <1>3, <1>4 DEF Contents
<1>6. Contents[r] # NoVariable
  BY DEF HoldsBytes, Contents
<1> QED
  BY <1>1, <1>5, <1>6 DEF V!Drop, V!Holds, Contents, Content

\* An access that the program makes and the code lets through.
LEMMA AccessIs ==
  ASSUME MapInv, HoldsBytes, NEW r \in Reg, NEW offset \in 0 .. PAGESZ,
         Inside(r, offset), Valid(r, offset)
  PROVE  /\ symrgtbl[r].valid /\ Contents[r] # NoVariable
         /\ offset \in 0 .. symrgtbl[r].end - symrgtbl[r].start - 1
         /\ symrgtbl[r].end - symrgtbl[r].start \in Sizes
         /\ DOMAIN Contents[r] = 0 .. symrgtbl[r].end - symrgtbl[r].start - 1
         /\ Contents[r][offset] = ByteAt(Address(r, offset))
         /\ Address(r, offset) \in Nat /\ Address(r, offset) < vm_end
<1>1. symrgtbl[r].valid /\ symrgtbl[r].start + offset < symrgtbl[r].end
  BY DEF Inside, Valid, Address
<1>2. PAGESZ \in Nat
  BY VmAreaAssumption
<1>3. offset \in 0 .. symrgtbl[r].end - symrgtbl[r].start - 1
  BY <1>1, <1>2, OfVariable
<1> QED
  BY <1>1, <1>3, OfVariable DEF HoldsBytes, Contents, Content, Address

LEMMA GetStep ==
  ASSUME MapInv, HoldsBytes, NEW r \in Reg, NEW offset \in 0 .. PAGESZ,
         Inside(r, offset), Read(r, offset)
  PROVE  \/ V!Refuse
         \/ \E size \in Sizes : \E o \in 0 .. size - 1 : V!Get(r, o)
<1>1. CASE Refused(r, offset)
  BY <1>1, NoCall DEF Refused, Return
<1>2. CASE Valid(r, offset) /\ M!FlatFail(This) /\ status' = "error" /\ UNCHANGED vars
  BY <1>2, NoCall DEF M!FlatFail
<1>3. CASE /\ Valid(r, offset) /\ UNCHANGED vars
           /\ M!FlatRead(This, Pgn(Address(r, offset)))
           /\ status' = ByteAt(Address(r, offset))
  <2>1. UNCHANGED Contents
    BY <1>3, AllKept DEF M!FlatRead
  <2>2. V!Get(r, offset)
    BY <1>3, <2>1, AccessIs DEF V!Get, V!Holds, Contents, Content
  <2> QED
    BY <1>3, <2>2, AccessIs
<1> QED
  BY <1>1, <1>2, <1>3 DEF Read, GetVal, ByteAt, Pgn, Offst

LEMMA PutStep ==
  ASSUME MapInv, HoldsBytes, NEW r \in Reg, NEW offset \in 0 .. PAGESZ, NEW b \in Byte,
         Inside(r, offset), Write(r, offset, b)
  PROVE  \/ V!Refuse
         \/ \E size \in Sizes : \E o \in 0 .. size - 1 : \E c \in Byte : V!Put(r, o, c)
<1>1. CASE Refused(r, offset)
  BY <1>1, NoCall DEF Refused, Return
<1>2. CASE Valid(r, offset) /\ M!FlatFail(This) /\ status' = "error" /\ UNCHANGED vars
  BY <1>2, NoCall DEF M!FlatFail
<1> DEFINE addr == Address(r, offset)
<1>3. CASE /\ Valid(r, offset) /\ UNCHANGED vars /\ status' = "ok"
           /\ M!FlatWrite(This, Pgn(addr), [mem[This][Pgn(addr)] EXCEPT ![Offst(addr)] = b])
  <2>1. /\ symrgtbl[r].valid /\ Contents[r] # NoVariable
        /\ offset \in DOMAIN Contents[r]
        /\ addr \in Nat /\ addr < vm_end /\ addr = symrgtbl[r].start + offset
    BY <1>3, AccessIs DEF Address
  <2> HIDE DEF addr
  <2>2. \A x \in Nat : x < vm_end => NextByte(x) = IF x = addr THEN b ELSE ByteAt(x)
    BY <1>3, <2>1, WriteByte DEF NextByte, MapInv
  <2>3. symrgtbl' = symrgtbl
    BY <1>3 DEF vars
  <2>4. ASSUME NEW q \in Reg, q # r PROVE Content(q)' = Content(q)
    <3>1. CASE ~symrgtbl[q].valid
      BY <2>3, <3>1 DEF Content
    <3>2. CASE symrgtbl[q].valid
      <4>1. ASSUME NEW o \in 0 .. symrgtbl[q].end - symrgtbl[q].start - 1
            PROVE  symrgtbl[q].start + o # addr
        <5>1. SUFFICES ASSUME symrgtbl[q].start + o = addr PROVE FALSE
          OBVIOUS
        <5>2. q \in Users(addr)
          BY <3>2, <4>1, <5>1, OfVariable DEF Users, In
        <5>3. offset \in 0 .. symrgtbl[r].end - symrgtbl[r].start - 1
          BY <1>3, AccessIs
        <5>4. r \in Users(addr)
          BY <2>1, <5>3, OfVariable DEF Users, In
        <5> QED
          BY <2>1, <2>4, <5>2, <5>4 DEF MapInv, TidyInv, OneOwner
      <4> QED
        BY <2>2, <2>3, <3>2, <4>1, OfVariable, ContentStays DEF NextByte
    <3> QED
      BY <3>1, <3>2
  <2>5. Content(r)' = [Content(r) EXCEPT ![offset] = b]
    <3>1. Content(r)' = [o \in 0 .. symrgtbl[r].end - symrgtbl[r].start - 1 |->
                           NextByte(symrgtbl[r].start + o)]
      BY <2>1, <2>3 DEF Content, ByteAt, NextByte
    <3>2. \A o \in 0 .. symrgtbl[r].end - symrgtbl[r].start - 1 :
            NextByte(symrgtbl[r].start + o) =
              IF o = offset THEN b ELSE ByteAt(symrgtbl[r].start + o)
      BY <1>3, <2>1, <2>2, OfVariable, AccessIs
    <3> QED
      BY <2>1, <3>1, <3>2 DEF Content
  <2>6. Contents' = [Contents EXCEPT ![r][offset] = b]
    BY <2>4, <2>5 DEF Contents
  <2>7. V!Put(r, offset, b)
    BY <1>3, <2>1, <2>6 DEF V!Put, V!Holds, Contents, Content
  <2> QED
    BY <1>3, <2>7, AccessIs
<1> QED
  BY <1>1, <1>2, <1>3 DEF Write, SetVal

LEMMA AllocStep ==
  ASSUME MapInv, HoldsBytes', NEW r \in Reg, ~symrgtbl[r].valid, NEW size \in Sizes,
         AllocMapped(r, size) \/ AllocPages(r, size) \/ AllocFails(size)
  PROVE  V!New(r, size) \/ V!Refuse
<1>1. CASE AllocMapped(r, size)
  <2>1. status' = "ok" /\ UNCHANGED mem
    BY <1>1 DEF AllocMapped, Return
  <2>2. \A x \in Nat : x < vm_end => NextByte(x) = ByteAt(x)
    BY <2>1 DEF NextByte, ByteAt
  <2>3. \E s \in Nat : SetSym(r, s, s + size)
    <3>1. TypeOK
      BY DEF MapInv, TidyInv, Inv
    <3>2. sbrk \in Nat /\ \A k \in DOMAIN freerg : freerg[k].start \in Nat
      BY <3>1, FreeList DEF TypeOK
    <3> QED
      BY <1>1, <3>2 DEF AllocMapped, AllocFreed, AllocGap
  <2> QED
    BY <2>1, <2>2, <2>3, NewStep
<1>2. CASE AllocPages(r, size)
  <2> DEFINE y == sbrk + size - vm_end
             n == AlignUp(y) \div PAGESZ
  <2>1. /\ SetSym(r, sbrk, sbrk + size) /\ sbrk \in Nat /\ y \in Nat
        /\ M!FlatGrow(This, n) /\ status' = "ok"
    BY <1>2, VmAreaAssumption DEF AllocPages, AllocGrow, MapInv, TidyInv, Inv, TypeOK
  <2>2. n \in Nat
    BY <2>1, WholePages
  <2> HIDE DEF n, y
  <2>3. \A x \in Nat : x < vm_end => NextByte(x) = ByteAt(x)
    BY <2>1, <2>2, GrowByte DEF NextByte, MapInv
  <2> QED
    BY <2>1, <2>3, NewStep
<1>3. CASE AllocFails(size)
  BY <1>3, NoCall DEF AllocFails, M!FlatFail
<1> QED
  BY <1>1, <1>2, <1>3

LEMMA VariablesStep ==
  MapInv /\ HoldsBytes /\ HoldsBytes' /\ [VarNext]_<<vars, memVars>>
    => [V!VariablesNext]_V!variablesVars
<1> SUFFICES ASSUME MapInv, HoldsBytes, HoldsBytes', [VarNext]_<<vars, memVars>>
             PROVE  [V!VariablesNext]_V!variablesVars
  OBVIOUS
<1>1. CASE UNCHANGED <<vars, memVars>>
  BY <1>1, AllKept DEF memVars, V!variablesVars, Contents, Content
<1>2. ASSUME NEW r \in Reg, symrgtbl[r].valid, FreeVar(r) PROVE V!VariablesNext
  BY <1>2, DropStep DEF V!VariablesNext
<1>3. ASSUME NEW r \in Reg, ~symrgtbl[r].valid, NEW size \in Sizes,
             AllocMapped(r, size) \/ AllocPages(r, size) \/ AllocFails(size)
      PROVE  V!VariablesNext
  BY <1>3, AllocStep DEF V!VariablesNext
<1>4. ASSUME NEW r \in Reg, NEW offset \in 0 .. PAGESZ, Inside(r, offset), Read(r, offset)
      PROVE  V!VariablesNext
  BY <1>4, GetStep DEF V!VariablesNext
<1>5. ASSUME NEW r \in Reg, NEW offset \in 0 .. PAGESZ, Inside(r, offset),
             NEW b \in Byte, Write(r, offset, b)
      PROVE  V!VariablesNext
  BY <1>5, PutStep DEF V!VariablesNext
<1> QED
  BY <1>1, <1>2, <1>3, <1>4, <1>5 DEF VarNext

\* A variable reads what was written to it last: the allocator of the area
\* over the flat memory of the process implements Variables.
THEOREM Refinement == VarSpec => ImplementsVariables
<1>1. VarInit => V!VariablesInit
  BY DEF VarInit, Init, V!VariablesInit
<1> QED
  BY <1>1, MapInvInit, MapInvStep, Holding, VariablesStep, PTL
     DEF VarSpec, ImplementsVariables, V!VariablesSpec
=============================================================================

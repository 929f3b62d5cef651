------------------------------ MODULE PteProofs ------------------------------
(***************************************************************************)
(* Theorems about a page table entry, for any widths of its fields: what   *)
(* is stored in a field reads back from it and leaves the rest alone, so   *)
(* an entry says where its page is whatever it held before, as long as the *)
(* frame numbers fit the fields they are read from.                        *)
(***************************************************************************)
EXTENDS Pte, WellFoundedInduction, TLAPS

(* Powers of two *)

\* A set of natural numbers that has an element has a least one.
LEMMA LeastNumber ==
  ASSUME NEW T \in SUBSET Nat, T # {}
  PROVE  \E n \in T : \A m \in T : n <= m
<1> DEFINE R == OpToRel(<, Nat)
<1>1. IsWellFoundedOn(R, Nat)
  BY NatLessThanWellFounded
<1>2. \A x, y \in Nat : x < y => <<x, y>> \in R
  BY DEF OpToRel
<1> HIDE DEF R
<1>3. PICK n \in T : \A m \in T : ~(<<m, n>> \in R)
  BY <1>1, WFMin
<1>4. ASSUME NEW m \in T PROVE n <= m
  <2>1. m \in Nat /\ n \in Nat
    OBVIOUS
  <2>2. ~(m < n)
    BY <1>2, <1>3, <2>1
  <2> QED
    BY <2>1, <2>2
<1> QED
  BY <1>4

\* The numbers up to n have powers: the equation of Pow2 on an initial part.
PowersTo(h, n) ==
  /\ h[0] = 1
  /\ \A m \in 1 .. n : h[m] = 2 * h[m - 1]

LEMMA PowersExist == \A n \in Nat : \E h : PowersTo(h, n)
<1> DEFINE bad == {n \in Nat : ~\E h : PowersTo(h, n)}
<1> SUFFICES bad = {}
  OBVIOUS
<1>1. 0 \notin bad
  <2>1. PowersTo([m \in Nat |-> 1], 0)
    BY DEF PowersTo
  <2> QED
    BY <2>1
<1>2. ASSUME NEW n \in bad, \A m \in bad : n <= m
      PROVE  FALSE
  <2>1. n \in Nat /\ n # 0 /\ n - 1 \in Nat /\ ~(n <= n - 1)
    BY <1>1
  <2>2. PICK h : PowersTo(h, n - 1)
    BY <1>2, <2>1
  <2> DEFINE g == [m \in Nat |-> IF m = n THEN 2 * h[n - 1] ELSE h[m]]
  <2>3. g[0] = 1
    BY <2>1, <2>2 DEF PowersTo
  <2>4. ASSUME NEW m \in 1 .. n
        PROVE  g[m] = 2 * g[m - 1]
    <3>1. m \in Nat /\ m - 1 \in Nat /\ m - 1 # n /\ (m # n => m \in 1 .. n - 1)
      BY <2>1
    <3>2. g[m - 1] = h[m - 1]
      BY <3>1
    <3>3. m # n => g[m] = h[m] /\ h[m] = 2 * h[m - 1]
      BY <2>2, <3>1 DEF PowersTo
    <3>4. m = n => g[m] = 2 * h[m - 1]
      BY <3>1
    <3> QED
      BY <3>2, <3>3, <3>4
  <2>5. PowersTo(g, n)
    BY <2>3, <2>4 DEF PowersTo
  <2> QED
    BY <2>5
<1> QED
  BY <1>2, LeastNumber

\* Two of them agree where both are defined.
LEMMA PowersAgree ==
  ASSUME NEW n \in Nat, NEW k \in Nat, NEW g, PowersTo(g, n), NEW h, PowersTo(h, k)
  PROVE  \A m \in Nat : m <= n /\ m <= k => g[m] = h[m]
<1> DEFINE bad == {m \in Nat : m <= n /\ m <= k /\ g[m] # h[m]}
<1> SUFFICES bad = {}
  OBVIOUS
<1>1. ASSUME NEW m \in bad, \A i \in bad : m <= i
      PROVE  FALSE
  <2>1. m # 0
    BY DEF PowersTo
  <2>2. m - 1 \in Nat /\ m \in 1 .. n /\ m \in 1 .. k /\ ~(m <= m - 1)
    BY <2>1
  <2>3. g[m - 1] = h[m - 1]
    BY <1>1, <2>2
  <2> QED
    BY <2>2, <2>3 DEF PowersTo
<1> QED
  BY <1>1, LeastNumber

\* So Pow2 is what its equation says.
LEMMA Pow2Is ==
  /\ Pow2[0] = 1
  /\ \A n \in Nat : n # 0 => Pow2[n] = 2 * Pow2[n - 1]
<1> DEFINE H(n) == CHOOSE h : PowersTo(h, n)
           P == [n \in Nat |-> H(n)[n]]
           Equation(f) == f = [n \in Nat |-> IF n = 0 THEN 1 ELSE 2 * f[n - 1]]
<1>1. \A n \in Nat : PowersTo(H(n), n)
  BY PowersExist
<1> HIDE DEF H
<1>2. ASSUME NEW n \in Nat
      PROVE  P[n] = IF n = 0 THEN 1 ELSE 2 * P[n - 1]
  <2>1. CASE n = 0
    BY <1>1, <2>1 DEF PowersTo
  <2>2. CASE n # 0
    <3>1. n - 1 \in Nat /\ n - 1 <= n /\ n \in 1 .. n /\ n - 1 <= n - 1
      BY <2>2
    <3>2. P[n - 1] = H(n)[n - 1]
      BY <1>1, <3>1, PowersAgree
    <3>3. P[n] = 2 * H(n)[n - 1]
      BY <1>1, <3>1 DEF PowersTo
    <3> QED
      BY <2>2, <3>2, <3>3
  <2> QED
    BY <2>1, <2>2
<1>3. Equation(P)
  <2> DEFINE Q == [n \in Nat |-> IF n = 0 THEN 1 ELSE 2 * P[n - 1]]
  <2>1. \A n \in Nat : P[n] = Q[n]
    BY <1>2
  <2>2. P = [n \in Nat |-> P[n]] /\ Q = [n \in Nat |-> Q[n]]
    OBVIOUS
  <2> HIDE DEF P, Q
  <2>3. P = Q
    BY <2>1, <2>2
  <2> QED
    BY <2>3 DEF Q
<1> HIDE DEF P
<1>4. Pow2 = CHOOSE f : Equation(f)
  BY DEF Pow2
<1>5. Equation(Pow2)
  BY <1>3, <1>4
<1> QED
  BY <1>5

\* Powers of two are positive.
LEMMA Pow2Type == \A n \in Nat : Pow2[n] \in Nat \ {0}
<1> DEFINE bad == {n \in Nat : Pow2[n] \notin Nat \ {0}}
<1> SUFFICES bad = {}
  OBVIOUS
<1>1. ASSUME NEW n \in bad, \A m \in bad : n <= m
      PROVE  FALSE
  <2>1. n # 0
    BY Pow2Is
  <2>2. n - 1 \in Nat /\ ~(n <= n - 1)
    BY <2>1
  <2>3. Pow2[n - 1] \in Nat \ {0}
    BY <1>1, <2>2
  <2> QED
    BY <2>1, <2>3, Pow2Is
<1> QED
  BY <1>1, LeastNumber

\* The bits of two fields next to each other.
LEMMA Pow2Plus ==
  ASSUME NEW a \in Nat
  PROVE  \A b \in Nat : Pow2[a + b] = Pow2[a] * Pow2[b]
<1> DEFINE bad == {b \in Nat : Pow2[a + b] # Pow2[a] * Pow2[b]}
<1> SUFFICES bad = {}
  OBVIOUS
<1>1. ASSUME NEW b \in bad, \A m \in bad : b <= m
      PROVE  FALSE
  <2>1. b # 0
    BY Pow2Is, Pow2Type
  <2>2. b - 1 \in Nat /\ ~(b <= b - 1) /\ a + b \in Nat /\ a + b # 0
        /\ (a + b) - 1 = a + (b - 1)
    BY <2>1
  <2>3. Pow2[a + (b - 1)] = Pow2[a] * Pow2[b - 1]
    BY <1>1, <2>2
  <2>4. Pow2[a + b] = 2 * Pow2[a + (b - 1)] /\ Pow2[b] = 2 * Pow2[b - 1]
    BY <2>1, <2>2, Pow2Is
  <2>5. \A x, y \in Nat : 2 * (x * y) = x * (2 * y)
    OBVIOUS
  <2>6. Pow2[a] \in Nat /\ Pow2[b - 1] \in Nat
    BY <2>2, Pow2Type
  <2> QED
    BY <2>3, <2>4, <2>5, <2>6
<1> QED
  BY <1>1, LeastNumber

-----------------------------------------------------------------------------
(* Fields *)

\* Quotient and remainder are what they should be.
LEMMA Division ==
  ASSUME NEW v \in Nat, NEW w \in Nat \ {0}
  PROVE  /\ v \div w \in Nat /\ v % w \in 0 .. w - 1
         /\ v = (v \div w) * w + (v % w)
OBVIOUS

\* Multiples of w in order, and a remainder that does not reach the next one.
LEMMA MultiplesApart ==
  ASSUME NEW w \in Nat \ {0}
  PROVE  \A x, y \in Nat : x < y => x * w + w <= y * w
<1> SUFFICES ASSUME NEW x \in Nat, NEW y \in Nat, x < y
             PROVE  x * w + w <= y * w
  OBVIOUS
<1>1. PICK k \in Nat : y = x + 1 + k
  <2>1. y - x - 1 \in Nat /\ y = x + 1 + (y - x - 1)
    OBVIOUS
  <2> QED
    BY <2>1
<1>2. k * w \in Nat /\ y * w = x * w + w + k * w
  BY <1>1
<1>3. x * w \in Nat
  OBVIOUS
<1> QED
  BY <1>2, <1>3

LEMMA MultipleBelow ==
  ASSUME NEW a \in Nat, NEW b \in Nat, NEW m \in Nat \ {0}, NEW c \in 0 .. m - 1
  PROVE  a * m + c < b * m <=> a < b
<1>1. a * m \in Nat /\ b * m \in Nat
  OBVIOUS
<1>2. a < b => a * m + m <= b * m
  BY MultiplesApart
<1>3. b < a => b * m + m <= a * m
  BY MultiplesApart
<1>4. a = b => a * m = b * m
  OBVIOUS
<1> QED
  BY <1>1, <1>2, <1>3, <1>4

\* They are the only such numbers.
LEMMA DivisionUnique ==
  ASSUME NEW q \in Nat, NEW w \in Nat \ {0}, NEW r \in 0 .. w - 1
  PROVE  (q * w + r) \div w = q /\ (q * w + r) % w = r
<1> DEFINE v == q * w + r
           d == v \div w
           m == v % w
<1>1. v \in Nat
  <2>1. q * w \in Nat
    OBVIOUS
  <2> QED
    BY <2>1
<1>2. d \in Nat /\ m \in 0 .. w - 1 /\ q * w + r = d * w + m
  BY <1>1, Division
<1> HIDE DEF d, m
<1>3. \A x, y \in Nat : x < y => x * w + w <= y * w
  BY MultiplesApart
<1>4. q * w \in Nat /\ d * w \in Nat
  BY <1>2
<1>5. ~(q < d) /\ ~(d < q)
  BY <1>2, <1>3, <1>4
<1>6. d = q
  BY <1>2, <1>5
<1>7. m = r
  BY <1>2, <1>4, <1>6
<1> QED
  BY <1>6, <1>7 DEF d, m

\* x stored in the field of w values that stands l times in v, as by SETVAL.
PutIn(v, x, w, l) == v + ((x % w) - ((v \div l) % w)) * l

\* The field has x then, and the bits above it and below it are as they were.
LEMMA StoredIs ==
  ASSUME NEW v \in Nat, NEW x \in Nat, NEW l \in Nat \ {0}, NEW w \in Nat \ {0}
  PROVE  PutIn(v, x, w, l)
           = (((v \div l) \div w) * w + (x % w)) * l + (v % l)
<1> DEFINE u == v \div l
           r == v % l
           q == u \div w
           g == u % w
           y == x % w
<1>1. u \in Nat /\ r \in Nat /\ v = u * l + r
  BY Division
<1> HIDE DEF u, r
<1>2. q \in Nat /\ g \in Nat /\ u = q * w + g
  BY <1>1, Division
<1> HIDE DEF q, g
<1>3. y \in Nat
  BY Division
<1> HIDE DEF y
<1>4. q * w \in Nat
  BY <1>2
<1>5. \A a, b, c, d \in Nat : ((a + b) * l + c) + (d - b) * l = (a + d) * l + c
  OBVIOUS
<1>6. (((q * w) + g) * l + r) + (y - g) * l = ((q * w) + y) * l + r
  BY <1>1, <1>2, <1>3, <1>4, <1>5
<1>7. v + (y - g) * l = (q * w + y) * l + r
  BY <1>1, <1>2, <1>6
<1> QED
  BY <1>7 DEF u, r, q, g, y, PutIn

\* It reads back, the number stays a number, and one below a whole number of
\* such fields stays below it.
LEMMA Stored ==
  ASSUME NEW v \in Nat, NEW x \in Nat, NEW l \in Nat \ {0}, NEW w \in Nat \ {0}
  PROVE  /\ PutIn(v, x, w, l) \in Nat /\ (PutIn(v, x, w, l) \div l) % w = x % w
         /\ \A k \in Nat : v < (k * w) * l => PutIn(v, x, w, l) < (k * w) * l
<1> DEFINE s == PutIn(v, x, w, l)
           u == v \div l
           r == v % l
           q == u \div w
           g == u % w
           y == x % w
<1>1. s = (q * w + y) * l + r
  BY StoredIs
<1> HIDE DEF s
<1>2. u \in Nat /\ r \in 0 .. l - 1 /\ v = u * l + r
  BY Division
<1> HIDE DEF u, r
<1>3. q \in Nat /\ g \in 0 .. w - 1 /\ u = q * w + g
  BY <1>2, Division
<1> HIDE DEF q, g
<1>4. y \in 0 .. w - 1
  BY Division
<1>5. q * w + y \in Nat
  <2>1. q * w \in Nat
    BY <1>3
  <2> QED
    BY <2>1, <1>4
<1> DEFINE z == q * w + y
<1> HIDE DEF y
<1>6. z \in Nat /\ z % w = y
  BY <1>3, <1>4, <1>5, DivisionUnique
<1> HIDE DEF z
<1>7. s \in Nat /\ s \div l = z
  <2>1. z * l \in Nat
    BY <1>6
  <2>2. s = z * l + r
    BY <1>1 DEF z
  <2>3. (z * l + r) \div l = z
    BY <1>2, <1>6, DivisionUnique
  <2>4. s \in Nat
    BY <1>2, <2>1, <2>2
  <2> QED
    BY <2>2, <2>3, <2>4
<1>8. ASSUME NEW k \in Nat, v < (k * w) * l
      PROVE  s < (k * w) * l
  <2>1. \A a, b \in Nat : \A m \in Nat \ {0} : \A c \in 0 .. m - 1 :
          a * m + c < b * m <=> a < b
    BY MultipleBelow
  <2>2. k * w \in Nat
    OBVIOUS
  <2>3. u < k * w
    BY <1>2, <1>8, <2>1, <2>2
  <2>4. q < k
    BY <1>3, <2>1, <2>3
  <2>5. z < k * w
    BY <1>3, <1>4, <2>1, <2>4 DEF z
  <2>6. z * l + r < (k * w) * l
    BY <1>2, <1>6, <2>1, <2>2, <2>5
  <2> QED
    BY <1>1, <2>6 DEF z
<1> QED
  BY <1>6, <1>7, <1>8 DEF y, s

\* SETVAL of a field that ends below bit 28.
LEMMA SetValKeeps ==
  ASSUME NEW v \in Nat, NEW x \in Nat, NEW lo \in Nat, NEW hi \in 0 .. 27, lo <= hi + 1
  PROVE  /\ SetVal(v, x, hi, lo) \in Nat
         /\ GetVal(SetVal(v, x, hi, lo), hi, lo) = x % Pow2[hi - lo + 1]
         /\ v < Pow2[28] => SetVal(v, x, hi, lo) < Pow2[28]
<1> DEFINE l == Pow2[lo]
           w == Pow2[hi - lo + 1]
           k == Pow2[27 - hi]
           s == SetVal(v, x, hi, lo)
<1>1. /\ hi - lo + 1 \in Nat /\ 27 - hi \in Nat
      /\ (27 - hi) + (hi - lo + 1) \in Nat /\ ((27 - hi) + (hi - lo + 1)) + lo = 28
  OBVIOUS
<1>2. l \in Nat \ {0} /\ w \in Nat \ {0} /\ k \in Nat \ {0}
  BY <1>1, Pow2Type
<1>3. Pow2[28] = (k * w) * l
  <2>1. Pow2[(27 - hi) + (hi - lo + 1)] = k * w
    BY <1>1, Pow2Plus
  <2>2. Pow2[((27 - hi) + (hi - lo + 1)) + lo] = Pow2[(27 - hi) + (hi - lo + 1)] * l
    BY <1>1, Pow2Plus
  <2> QED
    BY <1>1, <2>1, <2>2
<1>4. s = PutIn(v, x, w, l)
  BY DEF SetVal, GetVal, PutIn
<1>5. GetVal(s, hi, lo) = (s \div l) % w
  BY DEF GetVal
<1> HIDE DEF l, w, k, s
<1>6. /\ s \in Nat /\ (s \div l) % w = x % w
      /\ v < (k * w) * l => s < (k * w) * l
  <2>1. /\ PutIn(v, x, w, l) \in Nat /\ (PutIn(v, x, w, l) \div l) % w = x % w
        /\ \A n \in Nat : v < (n * w) * l => PutIn(v, x, w, l) < (n * w) * l
    BY <1>2, Stored, Zenon
  <2>2. k \in Nat
    BY <1>2
  <2> QED
    BY <1>4, <2>1, <2>2
<1>7. GetVal(s, hi, lo) = x % w
  BY <1>5, <1>6
<1>8. v < Pow2[28] => s < Pow2[28]
  BY <1>3, <1>6
<1>9. s \in Nat
  BY <1>6
<1> QED
  BY <1>7, <1>8, <1>9, Zenon DEF s, w

\* A number that fits its field reads back whole.
LEMMA Fits ==
  ASSUME NEW w \in Nat \ {0}, NEW x \in 0 .. w - 1
  PROVE  x % w = x
<1>1. 0 * w + x = x
  OBVIOUS
<1>2. (0 * w + x) % w = x
  BY DivisionUnique
<1> QED
  BY <1>1, <1>2

-----------------------------------------------------------------------------
(* The entry *)

LEMMA InitType == Init => TypeOK
<1>1. Pow2[28] \in Nat \ {0}
  BY Pow2Type
<1> QED
  BY <1>1 DEF Init, TypeOK, Unmapped

LEMMA MapKeepsType ==
  ASSUME TypeOK, NEW f \in RamFrame, Map(f)
  PROVE  TypeOK'
BY PteAssumption DEF TypeOK, Map

LEMMA SetFpnKeepsType ==
  ASSUME TypeOK, NEW f \in RamFrame, SetFpn(f)
  PROVE  TypeOK'
<1>1. Pow2[28] \in Nat
  BY Pow2Type
<1>2. f \in Nat /\ FPN_HIBIT \in 0 .. 27 /\ pte.low \in Nat /\ pte.low < Pow2[28]
  BY <1>1, PteAssumption DEF TypeOK
<1> DEFINE s == SetVal(pte.low, f, FPN_HIBIT, 0)
<1>3. s \in Nat /\ s < Pow2[28]
  <2>1. 0 \in Nat /\ 0 <= FPN_HIBIT + 1
    BY <1>2
  <2> QED
    BY <1>2, <2>1, SetValKeeps, Zenon
<1>4. pte' = [present |-> TRUE, swapped |-> FALSE, low |-> s]
  BY DEF SetFpn
<1> HIDE DEF s
<1>5. s \in 0 .. Pow2[28] - 1
  BY <1>1, <1>3
<1> QED
  BY <1>4, <1>5 DEF TypeOK

\* The two fields pte_set_swap writes.
WithType == SetVal(pte.low, SWPTYP, SWPOFF_LOBIT - 1, 0)

LEMMA WithTypeIs == TypeOK => WithType \in Nat /\ WithType < Pow2[28]
<1> SUFFICES ASSUME TypeOK PROVE WithType \in Nat /\ WithType < Pow2[28]
  OBVIOUS
<1>1. Pow2[28] \in Nat /\ Pow2[SWPOFF_LOBIT] \in Nat
  BY Pow2Type, PteAssumption
<1>2. SWPTYP \in Nat /\ SWPOFF_LOBIT \in 0 .. 27 /\ pte.low \in Nat /\ pte.low < Pow2[28]
  BY <1>1, PteAssumption DEF TypeOK
<1>3. CASE SWPOFF_LOBIT # 0
  <2>1. SWPOFF_LOBIT - 1 \in 0 .. 27 /\ 0 <= (SWPOFF_LOBIT - 1) + 1
    BY <1>2, <1>3
  <2> QED
    BY <1>2, <2>1, SetValKeeps DEF WithType
<1>4. CASE SWPOFF_LOBIT = 0
  <2>1. SWPTYP = 0
    BY <1>4, PteAssumption, Pow2Is
  <2>2. (0 - 1) - 0 + 1 = 0 /\ 0 - 1 = SWPOFF_LOBIT - 1
    BY <1>4
  <2>3. \A v \in Nat : SetVal(v, 0, 0 - 1, 0) = v + ((0 % 1) - ((v \div 1) % 1)) * 1
    BY <2>2, Pow2Is DEF SetVal, GetVal
  <2>4. \A v \in Nat : v + ((0 % 1) - ((v \div 1) % 1)) * 1 = v
    OBVIOUS
  <2>5. WithType = pte.low
    BY <1>2, <2>1, <2>2, <2>3, <2>4 DEF WithType
  <2> QED
    BY <1>2, <2>5
<1> QED
  BY <1>3, <1>4

LEMMA SetSwapKeepsType ==
  ASSUME TypeOK, NEW f \in SwpFrame, SetSwap(f)
  PROVE  TypeOK'
<1>1. Pow2[28] \in Nat
  BY Pow2Type
<1>2. /\ f \in Nat /\ SWPOFF_HIBIT \in 0 .. 27 /\ SWPOFF_LOBIT \in Nat
      /\ SWPOFF_LOBIT <= SWPOFF_HIBIT + 1
  BY <1>1, PteAssumption
<1> DEFINE s == SetVal(WithType, f, SWPOFF_HIBIT, SWPOFF_LOBIT)
<1>3. s \in Nat /\ s < Pow2[28]
  BY <1>2, WithTypeIs, SetValKeeps, Zenon
<1>4. pte' = [present |-> FALSE, swapped |-> TRUE, low |-> s]
  BY DEF SetSwap, WithType
<1> HIDE DEF s
<1>5. s \in 0 .. Pow2[28] - 1
  BY <1>1, <1>3
<1> QED
  BY <1>4, <1>5 DEF TypeOK

\* An entry keeps its two flags and 28 bits of fields: no store carries into
\* the flags, and never are both flags set.
THEOREM PteType == Spec => []TypeOK
<1>1. TypeOK /\ [Next]_vars => TypeOK'
  <2> SUFFICES ASSUME TypeOK, [Next]_vars PROVE TypeOK'
    OBVIOUS
  <2>1. CASE \E f \in RamFrame : Map(f)
    BY <2>1, MapKeepsType
  <2>2. CASE \E f \in RamFrame : SetFpn(f)
    BY <2>2, SetFpnKeepsType
  <2>3. CASE \E f \in SwpFrame : SetSwap(f)
    BY <2>3, SetSwapKeepsType
  <2>4. CASE UNCHANGED vars
    BY <2>4 DEF vars, TypeOK
  <2> QED
    BY <2>1, <2>2, <2>3, <2>4 DEF Next
<1> QED
  BY <1>1, InitType, PTL DEF Spec

-----------------------------------------------------------------------------
(* What the entry says *)

\* The frames fit the fields they are read from: with the widths of mm.h, RAM
\* up to 256 KB, as PAGING_FPN reads 10 bits, and a swap device up to 512 MB,
\* as PAGING_SWAPFPN reads 21.
FramesFit ==
  /\ RAM_BITS <= FPN_HIBIT + 1
  /\ RamFrame \subseteq 0 .. Pow2[RAM_BITS] - 1
  /\ SwpFrame \subseteq 0 .. Pow2[SWPOFF_HIBIT - SWPOFF_LOBIT + 1] - 1

\* PAGING_FPN reads the low RAM_BITS bits.
LEMMA FpnIs ==
  ASSUME NEW v \in Nat
  PROVE  Fpn(v) = v % Pow2[RAM_BITS]
<1>1. (RAM_BITS - 1) - 0 + 1 = RAM_BITS /\ Pow2[0] = 1
  BY Pow2Is, PteAssumption
<1>2. v \div 1 = v
  <2>1. v * 1 + 0 = v /\ 0 \in 0 .. 1 - 1 /\ 1 \in Nat \ {0}
    OBVIOUS
  <2>2. (v * 1 + 0) \div 1 = v
    BY <2>1, DivisionUnique
  <2> QED
    BY <2>1, <2>2
<1> QED
  BY <1>1, <1>2 DEF Fpn, GetVal

\* A frame number that is read with fewer bits than it is written with reads
\* back when it fits the fewer.
LEMMA NarrowRead ==
  ASSUME FramesFit, NEW f \in RamFrame, NEW v \in Nat,
         v % Pow2[FPN_HIBIT + 1] = f % Pow2[FPN_HIBIT + 1]
  PROVE  v % Pow2[RAM_BITS] = f
<1> DEFINE r == Pow2[RAM_BITS]
           k == Pow2[FPN_HIBIT + 1 - RAM_BITS]
           w == Pow2[FPN_HIBIT + 1]
<1>1. /\ RAM_BITS \in Nat /\ FPN_HIBIT + 1 \in Nat /\ FPN_HIBIT + 1 - RAM_BITS \in Nat
      /\ (FPN_HIBIT + 1 - RAM_BITS) + RAM_BITS = FPN_HIBIT + 1
  BY PteAssumption DEF FramesFit
<1>2. r \in Nat \ {0} /\ k \in Nat \ {0} /\ w \in Nat \ {0}
  BY <1>1, Pow2Type
<1>3. w = k * r
  BY <1>1, Pow2Plus
<1>4. f \in 0 .. r - 1
  BY DEF FramesFit
<1> HIDE DEF r, k, w
<1>5. f \in 0 .. w - 1
  <2>1. \A a, b \in Nat \ {0} : b <= a * b
    OBVIOUS
  <2> QED
    BY <1>2, <1>3, <1>4, <2>1
<1>6. v % w = f
  BY <1>2, <1>5, Fits DEF w
<1> DEFINE q == v \div w
<1>7. q \in Nat /\ v = q * w + f
  BY <1>2, <1>6, Division
<1> HIDE DEF q
<1>8. v = (q * k) * r + f /\ q * k \in Nat
  <2>1. \A a, b, c \in Nat : a * (b * c) = (a * b) * c /\ a * b \in Nat
    OBVIOUS
  <2> QED
    BY <1>2, <1>3, <1>7, <2>1
<1>9. ((q * k) * r + f) % r = f
  BY <1>2, <1>4, <1>8, DivisionUnique
<1> QED
  BY <1>8, <1>9 DEF r

LEMMA MapReads ==
  ASSUME TypeOK, FramesFit, NEW f \in RamFrame, Map(f)
  PROVE  ReadsBack'
<1>1. f \in Nat
  BY Pow2Type, PteAssumption
<1>2. Fpn(f) = f
  BY <1>1, FpnIs, NarrowRead
<1>3. pte'.present /\ pte'.low = f /\ place' = <<"ram", f>>
  BY DEF Map
<1> QED
  BY <1>2, <1>3 DEF ReadsBack

LEMMA SetFpnReads ==
  ASSUME TypeOK, FramesFit, NEW f \in RamFrame, SetFpn(f)
  PROVE  ReadsBack'
<1> DEFINE s == SetVal(pte.low, f, FPN_HIBIT, 0)
<1>1. Pow2[28] \in Nat
  BY Pow2Type
<1>2. f \in Nat /\ FPN_HIBIT \in 0 .. 27 /\ pte.low \in Nat
  BY <1>1, PteAssumption DEF TypeOK
<1>3. s \in Nat /\ GetVal(s, FPN_HIBIT, 0) = f % Pow2[FPN_HIBIT - 0 + 1]
  <2>1. 0 \in Nat /\ 0 <= FPN_HIBIT + 1
    BY <1>2
  <2> QED
    BY <1>2, <2>1, SetValKeeps, Zenon
<1>4. GetVal(s, FPN_HIBIT, 0) = (s \div 1) % Pow2[FPN_HIBIT - 0 + 1]
  BY Pow2Is DEF GetVal
<1>5. s % Pow2[FPN_HIBIT + 1] = f % Pow2[FPN_HIBIT + 1]
  <2>1. FPN_HIBIT - 0 + 1 = FPN_HIBIT + 1
    BY <1>2
  <2>2. \A v \in Nat : v \div 1 = v
    OBVIOUS
  <2> QED
    BY <1>3, <1>4, <2>1, <2>2
<1> HIDE DEF s
<1>6. Fpn(s) = f
  BY <1>3, <1>5, FpnIs, NarrowRead
<1>7. pte'.present /\ pte'.low = s /\ place' = <<"ram", f>>
  BY DEF SetFpn, s
<1> QED
  BY <1>6, <1>7 DEF ReadsBack

LEMMA SetSwapReads ==
  ASSUME TypeOK, FramesFit, NEW f \in SwpFrame, SetSwap(f)
  PROVE  ReadsBack'
<1> DEFINE s == SetVal(WithType, f, SWPOFF_HIBIT, SWPOFF_LOBIT)
           w == Pow2[SWPOFF_HIBIT - SWPOFF_LOBIT + 1]
<1>1. /\ f \in Nat /\ SWPOFF_HIBIT \in 0 .. 27 /\ SWPOFF_LOBIT \in Nat
      /\ SWPOFF_LOBIT <= SWPOFF_HIBIT + 1 /\ SWPOFF_HIBIT - SWPOFF_LOBIT + 1 \in Nat
  BY Pow2Type, PteAssumption
<1>2. w \in Nat \ {0} /\ f \in 0 .. w - 1
  BY <1>1, Pow2Type DEF FramesFit
<1>3. GetVal(s, SWPOFF_HIBIT, SWPOFF_LOBIT) = f % w
  <2>1. WithType \in Nat
    BY WithTypeIs
  <2> QED
    BY <1>1, <2>1, SetValKeeps, Zenon
<1>4. SwapFpn(s) = f
  <2>1. f % w = f
    BY <1>2, Fits
  <2> QED
    BY <1>3, <2>1 DEF SwapFpn
<1>5. ~pte'.present /\ pte'.swapped /\ pte'.low = s /\ place' = <<"swap", f>>
  BY DEF SetSwap, WithType
<1> QED
  BY <1>4, <1>5 DEF ReadsBack, Unmapped

\* Whatever an entry held before, what the pager stores in it is what it reads
\* back, if the frames fit the fields.
THEOREM EntryReadsBack ==
  ASSUME FramesFit
  PROVE  Spec => []ReadsBack
<1>1. Init => ReadsBack
  BY DEF Init, ReadsBack
<1>2. TypeOK /\ ReadsBack /\ [Next]_vars => ReadsBack'
  <2> SUFFICES ASSUME TypeOK, ReadsBack, [Next]_vars PROVE ReadsBack'
    OBVIOUS
  <2>1. CASE \E f \in RamFrame : Map(f)
    BY <2>1, MapReads
  <2>2. CASE \E f \in RamFrame : SetFpn(f)
    BY <2>2, SetFpnReads
  <2>3. CASE \E f \in SwpFrame : SetSwap(f)
    BY <2>3, SetSwapReads
  <2>4. CASE UNCHANGED vars
    BY <2>4 DEF vars, ReadsBack
  <2> QED
    BY <2>1, <2>2, <2>3, <2>4 DEF Next
<1> QED
  BY <1>1, <1>2, PteType, PTL DEF Spec
=============================================================================

-------------------------- MODULE SchedulerProofs --------------------------
(***************************************************************************)
(* Theorems about Scheduler for every set of processes and CPUs, every     *)
(* number of levels and every capacity.                                    *)
(***************************************************************************)
EXTENDS Scheduler, FiniteSetTheorems, SequenceTheorems, WellFoundedInduction, TLAPS

-----------------------------------------------------------------------------
(* What dequeue, enqueue and the refill do *)

\* The budgets a refill hands out are positive.
LEMMA FullSlotsPositive ==
  /\ FullSlots \in [Prio -> Nat]
  /\ \A i \in Prio : FullSlots[i] > 0 /\ FullSlots[i] = MAX_PRIO - i
  /\ AllSlots \in Int
BY MLQAssumption DEF FullSlots, AllSlots, Prio

\* dequeue takes the first entry of a level and moves the others up.
LEMMA DequeueMoves ==
  ASSUME TypeOK, NEW i \in Prio, NEW p, queue[i] # <<>>, Dequeue(i, p)
  PROVE  /\ p \in Pcb /\ p = queue[i][1] /\ Len(queue[i]) \in Nat \ {0}
         /\ queue' \in [Prio -> Seq(Pcb)]
         /\ Len(queue'[i]) = Len(queue[i]) - 1
         /\ \A k \in 1 .. Len(queue'[i]) : queue'[i][k] = queue[i][k + 1]
         /\ \A j \in Prio : j # i => queue'[j] = queue[j]
<1>1. queue \in [Prio -> Seq(Pcb)] /\ queue[i] \in Seq(Pcb)
  BY DEF TypeOK
<1>2. /\ Head(queue[i]) \in Pcb /\ Tail(queue[i]) \in Seq(Pcb)
      /\ Len(Tail(queue[i])) = Len(queue[i]) - 1
      /\ \A k \in 1 .. Len(Tail(queue[i])) : Tail(queue[i])[k] = queue[i][k + 1]
  BY <1>1, HeadTailProperties
<1>3. Len(queue[i]) \in Nat \ {0} /\ Head(queue[i]) = queue[i][1]
  BY <1>1, EmptySeq
<1>4. queue' = [queue EXCEPT ![i] = Tail(queue[i])] /\ p = Head(queue[i])
  BY DEF Dequeue
<1>5. queue'[i] = Tail(queue[i])
  BY <1>1, <1>4
<1> QED
  BY <1>1, <1>2, <1>3, <1>4, <1>5

\* enqueue adds the process behind the others of its level, or, when the
\* level is full, changes nothing.
LEMMA EnqueueMoves ==
  ASSUME TypeOK, NEW p \in Pcb, Enqueue(p)
  PROVE  /\ prio[p] \in Prio
         /\ \/ /\ Len(queue[prio[p]]) < MAX_QUEUE_SIZE
               /\ proc_count' = proc_count + 1
               /\ queue' \in [Prio -> Seq(Pcb)]
               /\ Len(queue'[prio[p]]) = Len(queue[prio[p]]) + 1
               /\ queue'[prio[p]][Len(queue[prio[p]]) + 1] = p
               /\ \A k \in 1 .. Len(queue[prio[p]]) :
                    queue'[prio[p]][k] = queue[prio[p]][k]
               /\ \A j \in Prio : j # prio[p] => queue'[j] = queue[j]
            \/ /\ Len(queue[prio[p]]) = MAX_QUEUE_SIZE
               /\ UNCHANGED <<queue, proc_count>>
<1> DEFINE i == prio[p]
<1>1. i \in Prio
  BY MLQAssumption DEF Prio
<1>2. queue \in [Prio -> Seq(Pcb)] /\ queue[i] \in Seq(Pcb) /\ Len(queue[i]) \in Nat
  BY <1>1 DEF TypeOK
<1>3. CASE Len(queue[i]) < MAX_QUEUE_SIZE
  <2>1. queue' = [queue EXCEPT ![i] = Append(queue[i], p)] /\ proc_count' = proc_count + 1
    BY <1>3 DEF Enqueue
  <2>2. queue'[i] = Append(queue[i], p)
    BY <1>1, <1>2, <2>1
  <2> QED
    BY <1>1, <1>2, <1>3, <2>1, <2>2
<1>4. CASE ~(Len(queue[i]) < MAX_QUEUE_SIZE)
  <2>1. UNCHANGED <<queue, proc_count>>
    BY <1>4 DEF Enqueue
  <2> QED
    BY <1>1, <1>2, <1>4, <2>1, MLQAssumption DEF TypeOK
<1> QED
  BY <1>3, <1>4

\* get_proc takes the head of a level that has one, or answers NULL and
\* leaves the queues alone.
LEMMA GetCases ==
  ASSUME TypeOK, NEW p, GetProc(p)
  PROVE  \/ /\ proc_count # 0
            /\ \E i \in Prio : queue[i] # <<>> /\ Dequeue(i, p)
         \/ /\ p = NULL /\ NoneServed(FullSlots)
            /\ UNCHANGED <<queue, proc_count>>
BY DEF GetProc, GetInRound, GetNextRound, GetNothing, FirstServed

-----------------------------------------------------------------------------
(* The types *)

\* A get keeps the budgets in their range.
LEMMA GetKeepsSlots ==
  ASSUME TypeOK, NEW p, GetProc(p)
  PROVE  /\ slot' \in [Prio -> Nat]
         /\ \A i \in Prio : slot'[i] <= MAX_PRIO - i
         /\ slot_count' \in Int
<1>1. CASE GetInRound(p)
  <2>1. PICK i \in Prio :
          /\ FirstServed(i, slot)
          /\ \/ RefillSlots
             \/ slot' = [slot EXCEPT ![i] = @ - 1] /\ slot_count' = slot_count - 1
    BY <1>1 DEF GetInRound
  <2>2. CASE RefillSlots
    BY <2>2, FullSlotsPositive DEF RefillSlots
  <2>3. CASE slot' = [slot EXCEPT ![i] = @ - 1] /\ slot_count' = slot_count - 1
    <3>1. slot \in [Prio -> Nat] /\ slot[i] > 0 /\ slot_count \in Int
      BY <2>1 DEF TypeOK, FirstServed
    <3>2. slot' \in [Prio -> Nat] /\ slot_count' \in Int
      BY <2>3, <3>1
    <3>3. ASSUME NEW j \in Prio PROVE slot'[j] <= MAX_PRIO - j
      <4>1. slot[j] <= MAX_PRIO - j /\ slot[j] \in Nat
        BY DEF TypeOK
      <4>2. slot'[j] = slot[j] \/ slot'[j] = slot[j] - 1
        BY <2>3, <3>1
      <4> QED
        BY <4>1, <4>2, MLQAssumption DEF Prio
    <3> QED
      BY <3>2, <3>3
  <2> QED
    BY <2>1, <2>2, <2>3
<1>2. CASE GetNextRound(p)
  <2>1. PICK i \in Prio : /\ slot' = [FullSlots EXCEPT ![i] = @ - 1]
                          /\ slot_count' = AllSlots - 1
    BY <1>2 DEF GetNextRound
  <2> QED
    BY <2>1, FullSlotsPositive
<1>3. CASE GetNothing(p)
  BY <1>3, FullSlotsPositive DEF GetNothing, RefillSlots
<1> QED
  BY <1>1, <1>2, <1>3 DEF GetProc

\* A get keeps the queues and their count well typed.
LEMMA GetKeepsQueues ==
  ASSUME TypeOK, NEW p \in Pcb \cup {NULL}, GetProc(p)
  PROVE  /\ queue' \in [Prio -> Seq(Pcb)]
         /\ \A i \in Prio : /\ Len(queue'[i]) <= MAX_QUEUE_SIZE
                            /\ \A k \in 1 .. Len(queue'[i]) : prio[queue'[i][k]] = i
         /\ proc_count' \in Nat
<1>1. CASE UNCHANGED <<queue, proc_count>>
  BY <1>1 DEF TypeOK
<1>2. CASE proc_count # 0 /\ \E i \in Prio : queue[i] # <<>> /\ Dequeue(i, p)
  <2>1. PICK i \in Prio : queue[i] # <<>> /\ Dequeue(i, p)
    BY <1>2
  <2>2. /\ queue' \in [Prio -> Seq(Pcb)]
        /\ Len(queue[i]) \in Nat \ {0}
        /\ Len(queue'[i]) = Len(queue[i]) - 1
        /\ \A k \in 1 .. Len(queue'[i]) : queue'[i][k] = queue[i][k + 1]
        /\ \A j \in Prio : j # i => queue'[j] = queue[j]
    BY <2>1, DequeueMoves
  <2>3. proc_count' \in Nat
    BY <1>2, <2>1 DEF Dequeue, TypeOK
  <2>4. ASSUME NEW j \in Prio
        PROVE  /\ Len(queue'[j]) <= MAX_QUEUE_SIZE
               /\ \A k \in 1 .. Len(queue'[j]) : prio[queue'[j][k]] = j
    <3>1. CASE j = i
      <4>1. queue[i] \in Seq(Pcb) /\ Len(queue[i]) <= MAX_QUEUE_SIZE
        BY DEF TypeOK
      <4>2. Len(queue'[i]) <= MAX_QUEUE_SIZE
        BY <2>2, <4>1, MLQAssumption
      <4>3. ASSUME NEW k \in 1 .. Len(queue'[i]) PROVE prio[queue'[i][k]] = i
        <5>1. k + 1 \in 1 .. Len(queue[i]) /\ queue'[i][k] = queue[i][k + 1]
          BY <2>2
        <5> QED
          BY <5>1 DEF TypeOK
      <4> QED
        BY <3>1, <4>2, <4>3
    <3>2. CASE j # i
      BY <2>2, <3>2 DEF TypeOK
    <3> QED
      BY <3>1, <3>2
  <2> QED
    BY <2>2, <2>3, <2>4
<1> QED
  BY <1>1, <1>2, GetCases

\* So does an add or a put.
LEMMA EnqueueKeepsQueues ==
  ASSUME TypeOK, NEW p \in Pcb, Enqueue(p)
  PROVE  /\ queue' \in [Prio -> Seq(Pcb)]
         /\ \A i \in Prio : /\ Len(queue'[i]) <= MAX_QUEUE_SIZE
                            /\ \A k \in 1 .. Len(queue'[i]) : prio[queue'[i][k]] = i
         /\ proc_count' \in Nat
         /\ UNCHANGED <<slot, slot_count>>
<1> DEFINE n == prio[p]
<1>1. n \in Prio /\ UNCHANGED <<slot, slot_count>>
  BY EnqueueMoves DEF Enqueue
<1>2. CASE UNCHANGED <<queue, proc_count>>
  BY <1>1, <1>2 DEF TypeOK
<1>3. CASE /\ Len(queue[n]) < MAX_QUEUE_SIZE
           /\ proc_count' = proc_count + 1
           /\ queue' \in [Prio -> Seq(Pcb)]
           /\ Len(queue'[n]) = Len(queue[n]) + 1
           /\ queue'[n][Len(queue[n]) + 1] = p
           /\ \A k \in 1 .. Len(queue[n]) : queue'[n][k] = queue[n][k]
           /\ \A j \in Prio : j # n => queue'[j] = queue[j]
  <2>1. ASSUME NEW j \in Prio
        PROVE  /\ Len(queue'[j]) <= MAX_QUEUE_SIZE
               /\ \A k \in 1 .. Len(queue'[j]) : prio[queue'[j][k]] = j
    <3>1. CASE j = n
      <4>1. Len(queue[n]) \in Nat /\ Len(queue'[n]) <= MAX_QUEUE_SIZE
        BY <1>1, <1>3, MLQAssumption DEF TypeOK
      <4>2. ASSUME NEW k \in 1 .. Len(queue'[n]) PROVE prio[queue'[n][k]] = n
        <5>1. CASE k \in 1 .. Len(queue[n])
          <6>1. queue'[n][k] = queue[n][k]
            BY <1>3, <5>1
          <6>2. prio[queue[n][k]] = n
            BY <1>1, <5>1 DEF TypeOK
          <6> QED
            BY <6>1, <6>2
        <5>2. CASE k = Len(queue[n]) + 1
          BY <1>3, <5>2
        <5> QED
          BY <1>3, <4>1, <5>1, <5>2
      <4> QED
        BY <3>1, <4>1, <4>2
    <3>2. CASE j # n
      BY <1>3, <3>2 DEF TypeOK
    <3> QED
      BY <3>1, <3>2
  <2>2. proc_count' \in Nat
    BY <1>3 DEF TypeOK
  <2> QED
    BY <1>1, <1>3, <2>1, <2>2
<1> QED
  BY <1>2, <1>3, EnqueueMoves

\* The types of the variables: no level outgrows its array, a process is
\* queued in the level of its priority, no budget gets negative.
THEOREM TypeCorrect == Spec => []TypeOK
<1>1. Init => TypeOK
  <2> SUFFICES ASSUME Init PROVE TypeOK
    OBVIOUS
  <2> USE DEF Init, MLQInit
  <2>1. queue \in [Prio -> Seq(Pcb)] /\ \A i \in Prio : Len(queue[i]) = 0
    BY EmptySeq
  <2> QED
    BY <2>1, FullSlotsPositive, MLQAssumption DEF TypeOK
<1>2. TypeOK /\ [Next]_vars => TypeOK'
  <2> SUFFICES ASSUME TypeOK, [Next]_vars PROVE TypeOK'
    OBVIOUS
  <2>1. ASSUME NEW p \in Pcb, Add(p) PROVE TypeOK'
    BY <2>1, EnqueueKeepsQueues DEF Add, AddProc, TypeOK
  <2>2. ASSUME NEW c \in CPU, NEW p \in Pcb \cup {NULL}, Get(c, p) PROVE TypeOK'
    BY <2>2, GetKeepsQueues, GetKeepsSlots DEF Get, TypeOK
  <2>3. ASSUME NEW c \in CPU, Put(c) PROVE TypeOK'
    <3>1. proc[c] \in Pcb /\ Enqueue(proc[c])
      BY <2>3 DEF Put, PutProc, TypeOK
    <3> QED
      BY <2>3, <3>1, EnqueueKeepsQueues DEF Put, TypeOK
  <2>4. ASSUME NEW c \in CPU, Finish(c) PROVE TypeOK'
    BY <2>4 DEF Finish, mlqVars, TypeOK
  <2>5. CASE UNCHANGED vars
    BY <2>5 DEF vars, mlqVars, TypeOK
  <2> QED
    BY <2>1, <2>2, <2>3, <2>4, <2>5 DEF Next
<1> QED
  BY <1>1, <1>2, PTL DEF Spec

-----------------------------------------------------------------------------
(* One place per process *)

\* What it means to be queued, for any contents q of the levels.
LEMMA QueuedAt ==
  ASSUME NEW q \in [Prio -> Seq(Pcb)], NEW p
  PROVE  p \in UNION {Range(q[i]) : i \in Prio} <=>
           \E i \in Prio : \E k \in 1 .. Len(q[i]) : q[i][k] = p
<1>1. \A i \in Prio : DOMAIN q[i] = 1 .. Len(q[i])
  BY LenProperties
<1>2. \A i \in Prio : p \in Range(q[i]) <=> \E k \in 1 .. Len(q[i]) : q[i][k] = p
  BY <1>1 DEF Range
<1> QED
  BY <1>2

\* The queued processes, before and after a step.
LEMMA QueuedNow ==
  ASSUME queue \in [Prio -> Seq(Pcb)]
  PROVE  \A r : r \in Queued <=>
           \E i \in Prio : \E k \in 1 .. Len(queue[i]) : queue[i][k] = r
BY QueuedAt DEF Queued

\* The same in the state after a step.
LEMMA QueuedNext ==
  ASSUME queue' \in [Prio -> Seq(Pcb)]
  PROVE  \A r : r \in Queued' <=>
           \E i \in Prio : \E k \in 1 .. Len(queue'[i]) : queue'[i][k] = r
BY QueuedAt DEF Queued

\* dequeue takes its process out of the queues, and no other.
LEMMA DequeueTakesOne ==
  ASSUME TypeOK, DistinctEntries, NEW i \in Prio, NEW p, queue[i] # <<>>, Dequeue(i, p)
  PROVE  /\ p \in Queued /\ Queued' = Queued \ {p}
         /\ DistinctEntries'
<1>1. /\ p \in Pcb /\ p = queue[i][1] /\ Len(queue[i]) \in Nat \ {0}
      /\ queue' \in [Prio -> Seq(Pcb)]
      /\ Len(queue'[i]) = Len(queue[i]) - 1
      /\ \A k \in 1 .. Len(queue'[i]) : queue'[i][k] = queue[i][k + 1]
      /\ \A j \in Prio : j # i => queue'[j] = queue[j]
  BY DequeueMoves
<1>2. queue \in [Prio -> Seq(Pcb)] /\ \A j \in Prio : Len(queue[j]) \in Nat
  BY DEF TypeOK
<1> DEFINE from(j, k) == IF j = i THEN k + 1 ELSE k
<1>3. ASSUME NEW j \in Prio, NEW k \in 1 .. Len(queue'[j])
      PROVE  from(j, k) \in 1 .. Len(queue[j]) /\ queue'[j][k] = queue[j][from(j, k)]
  <2>1. CASE j = i
    BY <1>1, <2>1
  <2>2. CASE j # i
    BY <1>1, <2>2
  <2> QED
    BY <2>1, <2>2
<1>4. ASSUME NEW j \in Prio, NEW k \in 1 .. Len(queue'[j]) PROVE queue'[j][k] # p
  <2>1. SUFFICES ASSUME queue'[j][k] = p PROVE FALSE
    OBVIOUS
  <2>2. queue[j][from(j, k)] = queue[i][1] /\ 1 \in 1 .. Len(queue[i])
    BY <1>1, <1>2, <1>3, <2>1
  <2>3. j = i /\ from(j, k) = 1
    BY <1>3, <2>2 DEF DistinctEntries
  <2> QED
    BY <1>1, <2>3
<1>5. DistinctEntries'
  <2>1. SUFFICES ASSUME NEW j \in Prio, NEW h \in Prio,
                        NEW k \in 1 .. Len(queue'[j]), NEW l \in 1 .. Len(queue'[h]),
                        queue'[j][k] = queue'[h][l]
                 PROVE  j = h /\ k = l
    BY DEF DistinctEntries
  <2>2. /\ from(j, k) \in 1 .. Len(queue[j]) /\ from(h, l) \in 1 .. Len(queue[h])
        /\ queue[j][from(j, k)] = queue[h][from(h, l)]
    BY <1>3, <2>1
  <2> HIDE DEF from
  <2>3. j = h /\ from(j, k) = from(h, l)
    BY <2>2 DEF DistinctEntries
  <2> QED
    BY <2>3 DEF from
<1>6. p \in Queued
  BY <1>1, <1>2, QueuedNow, QueuedNext
<1>7. ASSUME NEW r \in Queued' PROVE r \in Queued \ {p}
  <2>1. PICK j \in Prio : \E k \in 1 .. Len(queue'[j]) : queue'[j][k] = r
    BY <1>1, <1>7, QueuedNow, QueuedNext
  <2>2. PICK k \in 1 .. Len(queue'[j]) : queue'[j][k] = r
    BY <2>1
  <2>3. r # p
    BY <1>4, <2>2
  <2>4. PICK l \in 1 .. Len(queue[j]) : queue[j][l] = r
    BY <1>3, <2>2
  <2>5. r \in Queued
    BY <1>2, <2>4, QueuedNow
  <2> QED
    BY <2>3, <2>5
<1>8. ASSUME NEW r \in Queued \ {p} PROVE r \in Queued'
  <2>1. PICK j \in Prio : \E k \in 1 .. Len(queue[j]) : queue[j][k] = r
    BY <1>2, <1>8, QueuedNow, QueuedNext
  <2>2. PICK k \in 1 .. Len(queue[j]) : queue[j][k] = r
    BY <2>1
  <2>3. \E l \in 1 .. Len(queue'[j]) : queue'[j][l] = r
    <3>1. CASE j = i
      <4>1. k # 1
        BY <1>1, <1>8, <2>2, <3>1
      <4>2. k - 1 \in 1 .. Len(queue'[j]) /\ queue'[j][k - 1] = queue[j][k]
        BY <1>1, <3>1, <4>1
      <4> QED
        BY <2>2, <4>2
    <3>2. CASE j # i
      BY <1>1, <2>2, <3>2
    <3> QED
      BY <3>1, <3>2
  <2> QED
    BY <1>1, <2>3, QueuedNow, QueuedNext
<1> QED
  BY <1>5, <1>6, <1>7, <1>8

\* enqueue adds its process to the queues, or refuses it.
LEMMA EnqueueAddsOne ==
  ASSUME TypeOK, DistinctEntries, NEW p \in Pcb \ Queued, Enqueue(p)
  PROVE  /\ DistinctEntries'
         /\ \/ Queued' = Queued \cup {p} /\ proc_count' = proc_count + 1
            \/ /\ Queued' = Queued /\ UNCHANGED proc_count
               /\ Len(queue[prio[p]]) = MAX_QUEUE_SIZE
<1> DEFINE n == prio[p]
<1>1. n \in Prio
  BY EnqueueMoves
<1>2. queue \in [Prio -> Seq(Pcb)] /\ \A j \in Prio : Len(queue[j]) \in Nat
  BY DEF TypeOK
<1>3. CASE UNCHANGED <<queue, proc_count>> /\ Len(queue[n]) = MAX_QUEUE_SIZE
  BY <1>3 DEF DistinctEntries, Queued
<1>4. CASE /\ proc_count' = proc_count + 1
           /\ queue' \in [Prio -> Seq(Pcb)]
           /\ Len(queue'[n]) = Len(queue[n]) + 1
           /\ queue'[n][Len(queue[n]) + 1] = p
           /\ \A k \in 1 .. Len(queue[n]) : queue'[n][k] = queue[n][k]
           /\ \A j \in Prio : j # n => queue'[j] = queue[j]
  <2>1. ASSUME NEW j \in Prio, NEW k \in 1 .. Len(queue[j])
        PROVE  k \in 1 .. Len(queue'[j]) /\ queue'[j][k] = queue[j][k]
    <3>1. CASE j = n
      BY <1>2, <1>4, <3>1
    <3>2. CASE j # n
      BY <1>4, <3>2
    <3> QED
      BY <3>1, <3>2
  <2>2. ASSUME NEW j \in Prio, NEW k \in 1 .. Len(queue'[j])
        PROVE  k \in 1 .. Len(queue[j]) \/ (j = n /\ k = Len(queue[n]) + 1)
    <3>1. CASE j = n
      BY <1>2, <1>4, <3>1
    <3>2. CASE j # n
      BY <1>4, <3>2
    <3> QED
      BY <3>1, <3>2
  <2>3. \A j \in Prio : \A k \in 1 .. Len(queue[j]) : queue[j][k] # p
    BY <1>2, QueuedNow, QueuedNext
  <2>4. DistinctEntries'
    <3>1. SUFFICES ASSUME NEW j \in Prio, NEW h \in Prio,
                          NEW k \in 1 .. Len(queue'[j]), NEW l \in 1 .. Len(queue'[h]),
                          queue'[j][k] = queue'[h][l]
                   PROVE  j = h /\ k = l
      BY DEF DistinctEntries
    <3>2. CASE k \in 1 .. Len(queue[j]) /\ l \in 1 .. Len(queue[h])
      <4>1. queue[j][k] = queue[h][l]
        BY <2>1, <3>1, <3>2
      <4> QED
        BY <3>2, <4>1 DEF DistinctEntries
    <3>3. CASE k \in 1 .. Len(queue[j]) /\ h = n /\ l = Len(queue[n]) + 1
      <4>1. queue[j][k] = p
        BY <1>4, <2>1, <3>1, <3>3
      <4> QED
        BY <2>3, <3>3, <4>1
    <3>4. CASE j = n /\ k = Len(queue[n]) + 1 /\ l \in 1 .. Len(queue[h])
      <4>1. queue[h][l] = p
        BY <1>4, <2>1, <3>1, <3>4
      <4> QED
        BY <2>3, <3>4, <4>1
    <3> QED
      BY <2>2, <3>2, <3>3, <3>4
  <2>5. Queued' = Queued \cup {p}
    <3>1. ASSUME NEW r \in Queued' PROVE r \in Queued \cup {p}
      <4>1. PICK j \in Prio : \E k \in 1 .. Len(queue'[j]) : queue'[j][k] = r
        BY <1>4, <3>1, QueuedNow, QueuedNext
      <4>2. PICK k \in 1 .. Len(queue'[j]) : queue'[j][k] = r
        BY <4>1
      <4>3. CASE k \in 1 .. Len(queue[j])
        BY <1>2, <2>1, <4>2, <4>3, QueuedNow, QueuedNext
      <4>4. CASE j = n /\ k = Len(queue[n]) + 1
        BY <1>4, <4>2, <4>4
      <4> QED
        BY <2>2, <4>3, <4>4
    <3>2. ASSUME NEW r \in Queued PROVE r \in Queued'
      <4>1. PICK j \in Prio : \E k \in 1 .. Len(queue[j]) : queue[j][k] = r
        BY <1>2, <3>2, QueuedNow, QueuedNext
      <4>2. \E k \in 1 .. Len(queue'[j]) : queue'[j][k] = r
        BY <2>1, <4>1
      <4> QED
        BY <1>4, <4>2, QueuedNow, QueuedNext
    <3>3. p \in Queued'
      <4>1. Len(queue[n]) + 1 \in 1 .. Len(queue'[n])
        BY <1>1, <1>2, <1>4
      <4> QED
        BY <1>1, <1>4, <4>1, QueuedNow, QueuedNext
    <3> QED
      BY <3>1, <3>2, <3>3
  <2> QED
    BY <1>4, <2>4, <2>5
<1> QED
  BY <1>3, <1>4, EnqueueMoves


\* The queued processes are processes, and so finitely many.
LEMMA QueuedFinite ==
  ASSUME TypeOK
  PROVE  Queued \subseteq Pcb /\ IsFiniteSet(Queued) /\ Cardinality(Queued) \in Nat
<1>1. Queued \subseteq Pcb
  BY QueuedNow, ElementOfSeq DEF TypeOK
<1> QED
  BY <1>1, MLQAssumption, FS_Subset, FS_CardinalityType

\* What a get does to the places of the processes.
LEMMA GetMoves ==
  ASSUME TypeOK, DistinctEntries, NEW p \in Pcb \cup {NULL}, GetProc(p)
  PROVE  /\ DistinctEntries'
         /\ \/ p \in Queued /\ Queued' = Queued \ {p} /\ proc_count' = proc_count - 1
            \/ /\ p = NULL /\ NoneServed(FullSlots)
               /\ Queued' = Queued /\ UNCHANGED proc_count
<1>1. CASE p = NULL /\ NoneServed(FullSlots) /\ UNCHANGED <<queue, proc_count>>
  BY <1>1 DEF DistinctEntries, Queued
<1>2. CASE \E i \in Prio : queue[i] # <<>> /\ Dequeue(i, p)
  <2>1. PICK i \in Prio : queue[i] # <<>> /\ Dequeue(i, p)
    BY <1>2
  <2>2. p \in Queued /\ Queued' = Queued \ {p} /\ DistinctEntries'
    BY <2>1, DequeueTakesOne
  <2>3. proc_count' = proc_count - 1
    BY <2>1 DEF Dequeue
  <2> QED
    BY <2>2, <2>3
<1> QED
  BY <1>1, <1>2, GetCases

\* Every step keeps each process in one place and proc_count in step with
\* the queues.
LEMMA PlacesKept ==
  TypeOK /\ AtMostOnePlace /\ ProcCountRight /\ [Next]_vars =>
    AtMostOnePlace' /\ ProcCountRight'
<1> SUFFICES ASSUME TypeOK, AtMostOnePlace, ProcCountRight, [Next]_vars
             PROVE  AtMostOnePlace' /\ ProcCountRight'
  OBVIOUS
<1> USE DEF AtMostOnePlace
<1>1. /\ Queued \subseteq Pcb /\ IsFiniteSet(Queued) /\ Cardinality(Queued) \in Nat
      /\ NULL \notin Pcb /\ proc \in [CPU -> Pcb \cup {NULL}]
  BY QueuedFinite, MLQAssumption DEF TypeOK
<1>2. ASSUME NEW p \in Pcb \ Queued, Enqueue(p)
      PROVE  /\ DistinctEntries' /\ Queued' \subseteq Queued \cup {p}
             /\ ProcCountRight'
  <2>1. CASE Queued' = Queued \cup {p} /\ proc_count' = proc_count + 1
    BY <1>1, <1>2, <2>1, FS_AddElement, EnqueueAddsOne DEF ProcCountRight
  <2>2. CASE Queued' = Queued /\ UNCHANGED proc_count
    BY <1>2, <2>2, EnqueueAddsOne DEF ProcCountRight
  <2> QED
    BY <1>2, <2>1, <2>2, EnqueueAddsOne
<1>3. ASSUME NEW p \in Pcb, Add(p) PROVE AtMostOnePlace' /\ ProcCountRight'
  <2>1. p \in fresh /\ p \notin Queued
    BY <1>3 DEF Add, PlacesDisjoint
  <2>2. DistinctEntries' /\ Queued' \subseteq Queued \cup {p} /\ ProcCountRight'
    BY <1>2, <1>3, <2>1 DEF Add, AddProc
  <2>3. OneHolder' /\ Held' = Held
    BY <1>3 DEF Add, OneHolder, Held
  <2>4. PlacesDisjoint'
    BY <1>3, <2>1, <2>2, <2>3 DEF Add, PlacesDisjoint
  <2> QED
    BY <2>2, <2>3, <2>4
<1>4. ASSUME NEW c \in CPU, NEW p \in Pcb \cup {NULL}, Get(c, p)
      PROVE  AtMostOnePlace' /\ ProcCountRight'
  <2>1. proc[c] = NULL /\ proc' = [proc EXCEPT ![c] = p] /\ UNCHANGED <<fresh, finished>>
    BY <1>4 DEF Get
  <2>2. \A d \in CPU : proc'[d] = IF d = c THEN p ELSE proc[d]
    BY <1>1, <2>1
  <2>3. DistinctEntries'
    BY <1>4, GetMoves DEF Get
  <2>4. CASE p \in Queued /\ Queued' = Queued \ {p} /\ proc_count' = proc_count - 1
    <3>1. ProcCountRight'
      BY <1>1, <2>4, FS_RemoveElement DEF ProcCountRight
    <3>2. p \notin Held /\ p # NULL
      BY <1>1, <2>4 DEF PlacesDisjoint
    <3>3. Held' = Held \cup {p}
      BY <2>1, <2>2, <3>2 DEF Held
    <3>4. OneHolder'
      BY <2>2, <3>2 DEF OneHolder, Held
    <3>5. PlacesDisjoint'
      BY <2>1, <2>4, <3>2, <3>3 DEF PlacesDisjoint
    <3> QED
      BY <2>3, <3>1, <3>4, <3>5
  <2>5. CASE p = NULL /\ Queued' = Queued /\ UNCHANGED proc_count
    <3>1. \A d \in CPU : proc'[d] = proc[d]
      BY <2>1, <2>2, <2>5
    <3>2. OneHolder' /\ Held' = Held
      BY <3>1 DEF OneHolder, Held
    <3> QED
      BY <2>1, <2>3, <2>5, <3>2 DEF PlacesDisjoint, ProcCountRight
  <2> QED
    BY <1>4, <2>4, <2>5, GetMoves DEF Get
<1>5. ASSUME NEW c \in CPU, proc[c] # NULL, proc' = [proc EXCEPT ![c] = NULL]
      PROVE  OneHolder' /\ Held' = Held \ {proc[c]} /\ proc[c] \in Held
  <2>1. \A d \in CPU : proc'[d] = IF d = c THEN NULL ELSE proc[d]
    BY <1>1, <1>5
  <2>2. OneHolder'
    BY <2>1 DEF OneHolder
  <2>3. \A d \in CPU : d # c => proc[d] # proc[c]
    BY <1>5 DEF OneHolder
  <2>4. Held' = Held \ {proc[c]}
    BY <2>1, <2>3 DEF Held
  <2> QED
    BY <1>5, <2>2, <2>4 DEF Held
<1>6. ASSUME NEW c \in CPU, Put(c) PROVE AtMostOnePlace' /\ ProcCountRight'
  <2>1. /\ proc[c] # NULL /\ Enqueue(proc[c]) /\ proc' = [proc EXCEPT ![c] = NULL]
        /\ UNCHANGED <<fresh, finished>>
    BY <1>6 DEF Put, PutProc
  <2>2. OneHolder' /\ Held' = Held \ {proc[c]} /\ proc[c] \in Held
    BY <1>5, <2>1
  <2>3. proc[c] \in Pcb \ Queued
    BY <1>1, <2>1, <2>2 DEF PlacesDisjoint
  <2>4. DistinctEntries' /\ Queued' \subseteq Queued \cup {proc[c]} /\ ProcCountRight'
    BY <1>2, <2>1, <2>3
  <2>5. PlacesDisjoint'
    BY <2>1, <2>2, <2>4 DEF PlacesDisjoint
  <2> QED
    BY <2>2, <2>4, <2>5
<1>7. ASSUME NEW c \in CPU, Finish(c) PROVE AtMostOnePlace' /\ ProcCountRight'
  <2>1. /\ proc[c] # NULL /\ finished' = finished \cup {proc[c]}
        /\ proc' = [proc EXCEPT ![c] = NULL]
        /\ UNCHANGED <<queue, proc_count, fresh>>
    BY <1>7 DEF Finish, mlqVars
  <2>2. OneHolder' /\ Held' = Held \ {proc[c]} /\ proc[c] \in Held
    BY <1>5, <2>1
  <2>3. Queued' = Queued /\ DistinctEntries'
    BY <2>1 DEF Queued, DistinctEntries
  <2>4. PlacesDisjoint'
    BY <2>1, <2>2, <2>3 DEF PlacesDisjoint
  <2> QED
    BY <2>1, <2>2, <2>3, <2>4 DEF ProcCountRight
<1>8. CASE UNCHANGED vars
  BY <1>8 DEF vars, mlqVars, DistinctEntries, OneHolder, PlacesDisjoint, ProcCountRight,
              Queued, Held
<1> QED
  BY <1>3, <1>4, <1>6, <1>7, <1>8 DEF Next

\* At the start every process is with the loader.
LEMMA PlacesInit == Init => AtMostOnePlace /\ ProcCountRight
<1> SUFFICES ASSUME Init PROVE AtMostOnePlace /\ ProcCountRight
  OBVIOUS
<1>1. \A i \in Prio : queue[i] = <<>>
  BY DEF Init, MLQInit
<1>2. queue \in [Prio -> Seq(Pcb)]
  BY EmptySeq DEF Init, MLQInit
<1>3. Queued = {}
  BY <1>1, <1>2, EmptySeq, QueuedNow
<1>4. Held = {} /\ fresh = Pcb /\ finished = {} /\ proc_count = 0
  BY DEF Init, MLQInit, Held
<1>5. DistinctEntries
  BY <1>1, EmptySeq DEF DistinctEntries
<1>6. OneHolder
  BY DEF Init, OneHolder
<1> QED
  BY <1>3, <1>4, <1>5, <1>6, FS_EmptySet DEF AtMostOnePlace, PlacesDisjoint, ProcCountRight

\* No process is run by two CPUs, queued twice, queued while it runs or used
\* after it has been freed, and proc_count is the number of those queued.
THEOREM OnePlaceCounted == Spec => [](AtMostOnePlace /\ ProcCountRight)
<1>1. Init => AtMostOnePlace /\ ProcCountRight
  BY PlacesInit
<1>2. /\ TypeOK /\ AtMostOnePlace /\ ProcCountRight /\ [Next]_vars
      => (AtMostOnePlace /\ ProcCountRight)'
  BY PlacesKept
<1> QED
  BY <1>1, <1>2, TypeCorrect, PTL DEF Spec

\* A process is in one place at most: never on two CPUs, queued twice, queued
\* while it runs, or used after it was freed.
THEOREM OnePlace == Spec => []AtMostOnePlace
BY OnePlaceCounted, PTL

\* proc_count is the number of queued processes.
THEOREM CountRight == Spec => []ProcCountRight
BY OnePlaceCounted, PTL


-----------------------------------------------------------------------------
(* A get that answers NULL *)

\* What get_proc's answer says of the count: a process was queued, or none is.
LEMMA GetCounts ==
  ASSUME TypeOK, ProcCountRight, NEW p, GetProc(p)
  PROVE  \/ p \in Pcb /\ proc_count \in Nat \ {0} /\ proc_count' = proc_count - 1
         \/ p = NULL /\ Queued = {} /\ proc_count = 0 /\ UNCHANGED proc_count
<1>1. CASE \E i \in Prio : queue[i] # <<>> /\ Dequeue(i, p) /\ proc_count # 0
  BY <1>1, DequeueMoves DEF TypeOK, Dequeue
<1>2. CASE p = NULL /\ NoneServed(FullSlots) /\ UNCHANGED <<queue, proc_count>>
  <2>1. Queued = {}
    <3>1. CASE proc_count = 0
      BY <3>1, QueuedFinite, FS_EmptySet DEF ProcCountRight
    <3>2. CASE \A i \in Prio : queue[i] = <<>> \/ FullSlots[i] <= 0
      <4>1. \A i \in Prio : queue[i] = <<>>
        BY <3>2, FullSlotsPositive
      <4> QED
        BY <4>1, QueuedNow, EmptySeq DEF TypeOK
    <3> QED
      BY <1>2, <3>1, <3>2 DEF NoneServed
  <2> QED
    BY <1>2, <2>1, FS_EmptySet DEF ProcCountRight
<1> QED
  BY <1>1, <1>2, GetCases

\* get_proc answers NULL only when no process is queued: a CPU never skips a
\* slot beside a ready process because a round was used up.
THEOREM NullMeansEmpty == Spec => NullOnlyWhenEmpty
<1>1. TypeOK /\ ProcCountRight => \A c \in CPU : Get(c, NULL) => Queued = {}
  BY GetCounts, MLQAssumption DEF Get
<1> QED
  BY <1>1, TypeCorrect, CountRight, PTL DEF NullOnlyWhenEmpty

-----------------------------------------------------------------------------
(* No process is lost *)

\* There are m numbers from 1 to m: the entries of a queue of size m.
LEMMA IntervalSize ==
  ASSUME NEW m \in Nat
  PROVE  Cardinality(1 .. m) = m
<1>1. 1 \in Int /\ m \in Int
  OBVIOUS
<1>2. Cardinality(1 .. m) = IF 1 > m THEN 0 ELSE m - 1 + 1
  BY <1>1, FS_Interval
<1> QED
  BY <1>2

\* A level with room for all processes of its priority is not full when one
\* of them is not in it.
LEMMA LevelHasRoom ==
  ASSUME TypeOK, DistinctEntries, NEW p \in Pcb \ Queued, LevelFits(prio[p])
  PROVE  Len(queue[prio[p]]) # MAX_QUEUE_SIZE
<1> DEFINE n == prio[p]
           level == {q \in Pcb : prio[q] = n}
<1>1. n \in Prio /\ queue \in [Prio -> Seq(Pcb)] /\ queue[n] \in Seq(Pcb)
  BY MLQAssumption DEF TypeOK, Prio
<1>2. /\ Len(queue[n]) \in Nat
      /\ queue[n] \in [1 .. Len(queue[n]) -> Pcb]
  BY <1>1, LenProperties
<1>3. IsFiniteSet(level) /\ Cardinality(level) \in Nat /\ p \in level
  BY MLQAssumption, FS_Subset, FS_CardinalityType
<1>4. /\ IsFiniteSet(level \ {p})
      /\ Cardinality(level \ {p}) = Cardinality(level) - 1
  BY <1>3, FS_RemoveElement
<1>5. \A k \in 1 .. Len(queue[n]) : queue[n][k] \in level \ {p}
  BY <1>1, <1>2, QueuedNow DEF TypeOK
<1>6. queue[n] \in Injection(1 .. Len(queue[n]), level \ {p})
  <2>1. queue[n] \in [1 .. Len(queue[n]) -> level \ {p}]
    BY <1>2, <1>5
  <2>2. \A k, l \in DOMAIN queue[n] : queue[n][k] = queue[n][l] => k = l
    BY <1>1, <1>2 DEF DistinctEntries
  <2> QED
    BY <2>1, <2>2 DEF Injection, IsInjective
<1>7. Cardinality(1 .. Len(queue[n])) <= Cardinality(level \ {p})
  BY <1>4, <1>6, FS_Injection
<1>8. Cardinality(1 .. Len(queue[n])) = Len(queue[n])
  BY <1>2, IntervalSize
<1>9. Cardinality(level) <= MAX_QUEUE_SIZE
  BY DEF LevelFits
<1> QED
  BY <1>2, <1>3, <1>4, <1>7, <1>8, <1>9, MLQAssumption

\* put_proc and add_proc do not say that enqueue refused; no process is lost
\* all the same when its level has room for all of that priority.
THEOREM NothingLost == Spec => []NoProcessLost
<1>1. Init => NoProcessLost
  BY DEF Init, NoProcessLost
<1>2. TypeOK /\ AtMostOnePlace /\ NoProcessLost /\ [Next]_vars => NoProcessLost'
  <2> SUFFICES ASSUME TypeOK, AtMostOnePlace, NoProcessLost, [Next]_vars,
                      NEW r \in Pcb, LevelFits(prio[r])
               PROVE  (r \in fresh \cup Queued \cup Held \cup finished)'
    BY DEF NoProcessLost, LevelFits
  <2>1. r \in fresh \cup Queued \cup Held \cup finished
    BY DEF NoProcessLost
  <2>2. DistinctEntries /\ PlacesDisjoint /\ OneHolder /\ proc \in [CPU -> Pcb \cup {NULL}]
    BY DEF AtMostOnePlace, TypeOK
  <2>3. ASSUME NEW p \in Pcb \ Queued, Enqueue(p)
        PROVE  Queued \subseteq Queued' /\ (r = p => r \in Queued')
    <3>1. r = p => Len(queue[prio[p]]) # MAX_QUEUE_SIZE
      BY <2>2, LevelHasRoom
    <3> QED
      BY <2>2, <2>3, <3>1, EnqueueAddsOne
  <2>4. ASSUME NEW p \in Pcb, Add(p) PROVE (r \in fresh \cup Queued \cup Held \cup finished)'
    <3>1. p \in Pcb \ Queued
      BY <2>2, <2>4 DEF Add, PlacesDisjoint
    <3>2. Queued \subseteq Queued' /\ (r = p => r \in Queued')
      BY <2>3, <2>4, <3>1 DEF Add, AddProc
    <3> QED
      BY <2>1, <2>4, <3>2 DEF Add, Held
  <2>5. ASSUME NEW c \in CPU, NEW p \in Pcb \cup {NULL}, Get(c, p)
        PROVE  (r \in fresh \cup Queued \cup Held \cup finished)'
    <3>1. \A d \in CPU : proc'[d] = IF d = c THEN p ELSE proc[d]
      BY <2>2, <2>5 DEF Get
    <3>2. Held \subseteq Held' /\ (p # NULL => p \in Held')
      BY <2>5, <3>1 DEF Get, Held
    <3>3. Queued \ {p} \subseteq Queued' /\ (p = NULL => Queued \subseteq Queued')
      BY <2>2, <2>5, GetMoves, QueuedFinite, MLQAssumption DEF Get
    <3> QED
      BY <2>1, <2>5, <3>2, <3>3 DEF Get
  <2>6. ASSUME NEW c \in CPU, proc[c] # NULL, proc' = [proc EXCEPT ![c] = NULL]
        PROVE  Held \ {proc[c]} \subseteq Held'
    <3>1. \A d \in CPU : d # c => proc'[d] = proc[d]
      BY <2>2, <2>6
    <3> QED
      BY <3>1 DEF Held
  <2>7. ASSUME NEW c \in CPU, Put(c) PROVE (r \in fresh \cup Queued \cup Held \cup finished)'
    <3>1. proc[c] \in Pcb \ Queued
      BY <2>2, <2>7 DEF Put, Held, PlacesDisjoint
    <3>2. Queued \subseteq Queued' /\ (r = proc[c] => r \in Queued')
      BY <2>3, <2>7, <3>1 DEF Put, PutProc
    <3> QED
      BY <2>1, <2>6, <2>7, <3>2 DEF Put
  <2>8. ASSUME NEW c \in CPU, Finish(c) PROVE (r \in fresh \cup Queued \cup Held \cup finished)'
    BY <2>1, <2>6, <2>8 DEF Finish, mlqVars, Queued
  <2>9. CASE UNCHANGED vars
    BY <2>1, <2>9 DEF vars, mlqVars, Queued, Held
  <2> QED
    BY <2>4, <2>5, <2>7, <2>8, <2>9 DEF Next
<1> QED
  BY <1>1, <1>2, TypeCorrect, OnePlace, PTL DEF Spec

-----------------------------------------------------------------------------
(* Sums over levels.  FoldFunction takes the elements in an order of its own; *)
(* the sum does not depend on it.                                             *)

\* Every non-empty set of natural numbers has a least element: what is not
\* true of every number is not true of a first one.
LEMMA Least ==
  ASSUME NEW T \in SUBSET Nat, T # {}
  PROVE  \E n \in T : \A m \in T : n <= m
<1> DEFINE R == OpToRel(<, Nat)
<1>1. IsWellFoundedOn(R, Nat)
  BY NatLessThanWellFounded
<1>2. \A x, y \in Nat : x < y => <<x, y>> \in R
  BY DEF OpToRel
<1> HIDE DEF R
<1>3. PICK n \in T : \A m \in T : ~(<<m, n>> \in R)
  BY <1>1, WFMin
<1>4. ASSUME NEW m \in T PROVE n <= m
  <2>1. m \in Nat /\ n \in Nat
    OBVIOUS
  <2>2. ~(m < n)
    BY <1>2, <1>3, <2>1
  <2> QED
    BY <2>1, <2>2
<1> QED
  BY <1>4

\* The element FoldFunction takes first, and its equation over the subsets.
Picked(s) == CHOOSE x \in s : TRUE
Adds(h, f, S) ==
  h = [s \in SUBSET S |-> IF s = {} THEN 0 ELSE f[Picked(s)] + h[s \ {Picked(s)}]]
SumOf(f, S) == CHOOSE h : Adds(h, f, S)

\* What FoldFunction computes is this sum over the whole domain.
LEMMA FoldIsSum ==
  ASSUME NEW f
  PROVE  FoldFunction(+, 0, f) = SumOf(f, DOMAIN f)[DOMAIN f]
BY DEF FoldFunction, FoldFunctionOnSet, MapThenFoldSet, SumOf, Adds, Picked

\* What is left is one element smaller.
LEMMA OneLess ==
  ASSUME NEW S, IsFiniteSet(S), NEW s \in SUBSET S, s # {}
  PROVE  /\ Picked(s) \in s /\ s \ {Picked(s)} \in SUBSET S
         /\ Cardinality(s) \in Nat /\ Cardinality(s \ {Picked(s)}) = Cardinality(s) - 1
         /\ IsFiniteSet(s)
<1>1. Picked(s) \in s
  BY DEF Picked
<1>2. IsFiniteSet(s)
  BY FS_Subset
<1> QED
  BY <1>1, <1>2, FS_CardinalityType, FS_RemoveElement

\* The equation has a solution: it is extended by one element at a time.
LEMMA SumExists ==
  ASSUME NEW S, IsFiniteSet(S), NEW f
  PROVE  \E h : Adds(h, f, S)
<1> DEFINE
     Rest(h, s) == IF s = {} THEN 0 ELSE f[Picked(s)] + h[s \ {Picked(s)}]
     UpTo(n) == \E h : /\ h = [s \in SUBSET S |-> h[s]]
                       /\ \A s \in SUBSET S : Cardinality(s) <= n => h[s] = Rest(h, s)
     Bad == {n \in Nat : ~UpTo(n)}
<1>1. \A s \in SUBSET S : IsFiniteSet(s) /\ Cardinality(s) \in Nat
  BY FS_Subset, FS_CardinalityType
<1>2. UpTo(0)
  <2> DEFINE h == [s \in SUBSET S |-> 0]
  <2>1. \A s \in SUBSET S : Cardinality(s) <= 0 => s = {}
    BY <1>1, FS_EmptySet
  <2>2. h = [s \in SUBSET S |-> h[s]] /\ \A s \in SUBSET S : h[s] = 0
    OBVIOUS
  <2> HIDE DEF h
  <2>3. \A s \in SUBSET S : Cardinality(s) <= 0 => h[s] = Rest(h, s)
    BY <2>1, <2>2
  <2> QED
    BY <2>2, <2>3
<1>3. ASSUME NEW n \in Nat, UpTo(n) PROVE UpTo(n + 1)
  <2>1. PICK h : /\ h = [s \in SUBSET S |-> h[s]]
                 /\ \A s \in SUBSET S : Cardinality(s) <= n => h[s] = Rest(h, s)
    BY <1>3
  <2> DEFINE g == [s \in SUBSET S |-> IF Cardinality(s) <= n THEN h[s] ELSE Rest(h, s)]
  <2>2. g = [s \in SUBSET S |-> g[s]]
    OBVIOUS
  <2>3. \A s \in SUBSET S : g[s] = Rest(h, s) \/ ~(Cardinality(s) <= n + 1)
    BY <2>1
  <2>4. \A s \in SUBSET S : Cardinality(s) <= n => g[s] = h[s]
    OBVIOUS
  <2> HIDE DEF g
  <2>5. ASSUME NEW s \in SUBSET S, Cardinality(s) <= n + 1, s # {}
        PROVE  g[s] = Rest(g, s)
    <3>1. s \ {Picked(s)} \in SUBSET S /\ Cardinality(s \ {Picked(s)}) <= n
      BY <2>5, OneLess
    <3>2. g[s \ {Picked(s)}] = h[s \ {Picked(s)}]
      BY <2>4, <3>1
    <3> QED
      BY <2>3, <2>5, <3>2
  <2>6. \A s \in SUBSET S : s = {} => g[s] = Rest(g, s)
    BY <2>3, FS_EmptySet
  <2> QED
    BY <2>2, <2>5, <2>6
<1>4. \A n \in Nat : UpTo(n)
  <2> HIDE DEF UpTo
  <2>1. SUFFICES ASSUME Bad # {} PROVE FALSE
    OBVIOUS
  <2>2. PICK n \in Bad : \A m \in Bad : n <= m
    BY <2>1, Least
  <2>3. n \in Nat /\ n # 0 /\ ~UpTo(n)
    BY <1>2
  <2>4. n - 1 \in Nat /\ (n - 1) + 1 = n /\ ~(n <= n - 1)
    BY <2>3
  <2>5. UpTo(n - 1)
    BY <2>2, <2>4
  <2> QED
    BY <1>3, <2>3, <2>4, <2>5
<1>5. PICK h : /\ h = [s \in SUBSET S |-> h[s]]
               /\ \A s \in SUBSET S : Cardinality(s) <= Cardinality(S) => h[s] = Rest(h, s)
  BY <1>1, <1>4
<1>6. \A s \in SUBSET S : Cardinality(s) <= Cardinality(S)
  BY FS_Subset
<1>7. h = [s \in SUBSET S |-> Rest(h, s)]
  BY <1>5, <1>6
<1> QED
  BY <1>7 DEF Adds

\* A set of subsets has one of the fewest elements.
LEMMA Smallest ==
  ASSUME NEW S, IsFiniteSet(S), NEW T \in SUBSET (SUBSET S), T # {}
  PROVE  \E s \in T : \A t \in T : Cardinality(s) <= Cardinality(t)
<1> DEFINE N == {Cardinality(s) : s \in T}
<1>1. N \in SUBSET Nat /\ N # {}
  BY FS_Subset, FS_CardinalityType
<1>2. PICK n \in N : \A m \in N : n <= m
  BY <1>1, Least
<1> QED
  BY <1>2

\* So the sum is what the equation says.
LEMMA SumIs ==
  ASSUME NEW S, IsFiniteSet(S), NEW f
  PROVE  /\ SumOf(f, S)[{}] = 0
         /\ \A s \in SUBSET S : s # {} =>
              SumOf(f, S)[s] = f[Picked(s)] + SumOf(f, S)[s \ {Picked(s)}]
<1> DEFINE h == SumOf(f, S)
<1>1. Adds(h, f, S)
  BY SumExists DEF SumOf
<1> HIDE DEF h
<1>2. \A s \in SUBSET S : h[s] = IF s = {} THEN 0 ELSE f[Picked(s)] + h[s \ {Picked(s)}]
  BY <1>1 DEF Adds
<1>3. {} \in SUBSET S
  OBVIOUS
<1>4. /\ h[{}] = 0
      /\ \A s \in SUBSET S : s # {} => h[s] = f[Picked(s)] + h[s \ {Picked(s)}]
  BY <1>2, <1>3
<1> QED
  BY <1>4 DEF h

\* Sums of numbers are numbers, and of natural numbers natural.
LEMMA SumType ==
  ASSUME NEW S, IsFiniteSet(S), NEW f, NEW s \in SUBSET S,
         NEW D, 0 \in D, \A a, b \in D : a + b \in D, \A x \in S : f[x] \in D
  PROVE  SumOf(f, S)[s] \in D
<1> DEFINE h == SumOf(f, S)
           bad == {t \in SUBSET S : h[t] \notin D}
<1>1. /\ h[{}] = 0
      /\ \A t \in SUBSET S : t # {} => h[t] = f[Picked(t)] + h[t \ {Picked(t)}]
  BY SumIs
<1> HIDE DEF h
<1>2. ASSUME bad # {} PROVE FALSE
  <2>1. PICK t \in bad : \A u \in bad : Cardinality(t) <= Cardinality(u)
    BY <1>2, Smallest
  <2>2. t \in SUBSET S /\ h[t] \notin D /\ t # {}
    BY <1>1
  <2>3. t \ {Picked(t)} \notin bad
    BY <2>1, <2>2, OneLess
  <2>4. h[t \ {Picked(t)}] \in D /\ f[Picked(t)] \in D
    BY <2>2, <2>3, OneLess
  <2> QED
    BY <1>1, <2>1, <2>2, <2>4
<1> QED
  BY <1>2 DEF h

\* Any element may be added last.
LEMMA SumAdd ==
  ASSUME NEW S, IsFiniteSet(S), NEW f, \A x \in S : f[x] \in Int,
         NEW s \in SUBSET S, NEW x \in s
  PROVE  SumOf(f, S)[s] = f[x] + SumOf(f, S)[s \ {x}]
<1> DEFINE h == SumOf(f, S)
           Right(t) == \A y \in t : h[t] = f[y] + h[t \ {y}]
           bad == {t \in SUBSET S : ~Right(t)}
<1>1. /\ \A t \in SUBSET S : t # {} => h[t] = f[Picked(t)] + h[t \ {Picked(t)}]
      /\ \A t \in SUBSET S : h[t] \in Int
  <2>1. 0 \in Int /\ \A a, b \in Int : a + b \in Int
    OBVIOUS
  <2> QED
    BY <2>1, SumIs, SumType
<1> HIDE DEF h
<1>2. ASSUME bad # {} PROVE FALSE
  <2>1. PICK t \in bad : \A u \in bad : Cardinality(t) <= Cardinality(u)
    BY <1>2, Smallest
  <2>2. t \in SUBSET S /\ IsFiniteSet(t)
    BY FS_Subset
  <2>3. PICK y \in t : h[t] # f[y] + h[t \ {y}]
    OBVIOUS
  <2> DEFINE z == Picked(t)
  <2>4. z \in t /\ z # y /\ h[t] = f[z] + h[t \ {z}]
    BY <1>1, <2>2, <2>3, OneLess
  <2> HIDE DEF z
  <2>5. \A x1 \in t : t \ {x1} \in SUBSET S /\ Cardinality(t \ {x1}) = Cardinality(t) - 1
                       /\ Cardinality(t) \in Nat
    BY <2>2, FS_RemoveElement, FS_CardinalityType
  <2>6. Right(t \ {z}) /\ Right(t \ {y})
    <3>1. t \ {z} \notin bad /\ t \ {y} \notin bad
      <4> HIDE DEF bad
      <4>1. ASSUME NEW x1 \in t, t \ {x1} \in bad PROVE FALSE
        BY <2>1, <2>5, <4>1
      <4> QED
        BY <2>3, <2>4, <4>1
    <3> HIDE DEF Right
    <3> QED
      BY <2>3, <2>4, <2>5, <3>1
  <2>7. (t \ {z}) \ {y} = (t \ {y}) \ {z}
    OBVIOUS
  <2>8. /\ h[t \ {z}] = f[y] + h[(t \ {z}) \ {y}]
        /\ h[t \ {y}] = f[z] + h[(t \ {z}) \ {y}]
    BY <2>3, <2>4, <2>6, <2>7
  <2>9. f[y] \in Int /\ f[z] \in Int /\ h[(t \ {z}) \ {y}] \in Int
    BY <1>1, <2>2, <2>3, <2>4
  <2> QED
    BY <2>3, <2>4, <2>8, <2>9
<1>3. Right(s)
  BY <1>2
<1> QED
  BY <1>3 DEF h

\* A sum depends on the values that are added only.
LEMMA SumAgree ==
  ASSUME NEW S, IsFiniteSet(S), NEW f, NEW g, NEW s \in SUBSET S, \A x \in s : f[x] = g[x]
  PROVE  SumOf(f, S)[s] = SumOf(g, S)[s]
<1> DEFINE h == SumOf(f, S)
           k == SumOf(g, S)
           bad == {t \in SUBSET s : h[t] # k[t]}
<1>1. /\ h[{}] = 0 /\ k[{}] = 0
      /\ \A t \in SUBSET S : t # {} => h[t] = f[Picked(t)] + h[t \ {Picked(t)}]
      /\ \A t \in SUBSET S : t # {} => k[t] = g[Picked(t)] + k[t \ {Picked(t)}]
  BY SumIs
<1> HIDE DEF h, k
<1>2. ASSUME bad # {} PROVE FALSE
  <2>1. PICK t \in bad : \A u \in bad : Cardinality(t) <= Cardinality(u)
    BY <1>2, Smallest
  <2>2. t \in SUBSET S /\ t # {}
    BY <1>1
  <2>3. t \ {Picked(t)} \notin bad /\ Picked(t) \in s
    BY <2>1, <2>2, OneLess
  <2> QED
    BY <1>1, <2>1, <2>2, <2>3
<1> QED
  BY <1>2 DEF h, k

-----------------------------------------------------------------------------
(* The slots of a round *)

\* The levels, and the levels before one of them.
LEMMA PrioFinite == IsFiniteSet(Prio) /\ \A k \in 0 .. MAX_PRIO : 0 .. k - 1 \in SUBSET Prio
BY MLQAssumption, FS_Interval DEF Prio

\* The sum over all levels.
Sum(f) == SumOf(f, Prio)[Prio]

\* One less at one level is one less in all.
LEMMA SumLess ==
  ASSUME NEW f \in [Prio -> Int], NEW i \in Prio
  PROVE  Sum([f EXCEPT ![i] = @ - 1]) = Sum(f) - 1
<1> DEFINE g == [f EXCEPT ![i] = @ - 1]
           rest == Prio \ {i}
<1>1. g \in [Prio -> Int] /\ g[i] = f[i] - 1 /\ \A j \in rest : g[j] = f[j]
  OBVIOUS
<1> HIDE DEF g
<1>2. SumOf(g, Prio)[rest] = SumOf(f, Prio)[rest]
  BY <1>1, PrioFinite, SumAgree
<1>3. Sum(g) = g[i] + SumOf(g, Prio)[rest] /\ Sum(f) = f[i] + SumOf(f, Prio)[rest]
  BY <1>1, PrioFinite, SumAdd DEF Sum
<1>4. SumOf(f, Prio)[rest] \in Int
  <2>1. 0 \in Int /\ \A a, b \in Int : a + b \in Int
    OBVIOUS
  <2> QED
    BY <2>1, PrioFinite, SumType
<1>5. f[i] \in Int
  OBVIOUS
<1>6. Sum(g) = Sum(f) - 1
  BY <1>1, <1>2, <1>3, <1>4, <1>5
<1> QED
  BY <1>6 DEF g

\* No sum of budgets is negative.
LEMMA SumNat ==
  ASSUME NEW f \in [Prio -> Nat]
  PROVE  Sum(f) \in Nat
<1>1. 0 \in Nat /\ \A a, b \in Nat : a + b \in Nat
  OBVIOUS
<1> QED
  BY <1>1, PrioFinite, SumType DEF Sum

\* N + (N - 1) + .. + 1
LEMMA SumFull == Sum(FullSlots) = AllSlots
<1> DEFINE N == MAX_PRIO
           h == SumOf(FullSlots, Prio)
           Half(k) == 2 * h[0 .. k - 1] = k * (2 * N - k + 1)
           bad == {k \in 0 .. N : ~Half(k)}
<1>1. N \in Nat \ {0} /\ \A i \in Prio : FullSlots[i] = N - i /\ FullSlots[i] \in Int
  BY MLQAssumption DEF FullSlots, Prio
<1>2. /\ h[{}] = 0
      /\ \A s \in SUBSET Prio : h[s] \in Int
      /\ \A s \in SUBSET Prio : \A x \in s : h[s] = FullSlots[x] + h[s \ {x}]
  <2>1. 0 \in Int /\ \A a, b \in Int : a + b \in Int
    OBVIOUS
  <2> QED
    BY <1>1, <2>1, PrioFinite, SumIs, SumType, SumAdd
<1> HIDE DEF h, N
<1>3. ASSUME NEW k \in 0 .. N - 1, Half(k) PROVE Half(k + 1)
  <2>1. /\ k \in Prio /\ k \in 0 .. (k + 1) - 1 /\ 0 .. (k + 1) - 1 \in SUBSET Prio
        /\ 0 .. k - 1 \in SUBSET Prio
        /\ (0 .. (k + 1) - 1) \ {k} = 0 .. k - 1
    BY <1>1, PrioFinite DEF Prio, N
  <2> DEFINE s == 0 .. (k + 1) - 1
             t == 0 .. k - 1
  <2> HIDE DEF s, t
  <2>2. h[s] = (N - k) + h[t] /\ h[t] \in Int
    <3>1. s \in SUBSET Prio /\ t \in SUBSET Prio /\ k \in s /\ s \ {k} = t
      BY <2>1 DEF s, t
    <3>2. h[s] = FullSlots[k] + h[t] /\ h[t] \in Int
      BY <1>2, <3>1
    <3> QED
      BY <1>1, <2>1, <3>2
  <2>3. 2 * ((N - k) + h[t]) = 2 * (N - k) + 2 * h[t]
    BY <1>1, <2>2
  <2>4. k * (2 * N - k + 1) + 2 * (N - k) = (k + 1) * (2 * N - (k + 1) + 1)
    BY <1>1
  <2>5. 2 * h[t] = k * (2 * N - k + 1)
    BY <1>3 DEF t
  <2>6. 2 * h[s] = (k + 1) * (2 * N - (k + 1) + 1)
    <3>1. 2 * h[s] = 2 * (N - k) + 2 * h[t]
      BY <2>2, <2>3
    <3> QED
      BY <1>1, <2>4, <2>5, <3>1
  <2> QED
    BY <2>6 DEF s
<1>4. ASSUME bad # {} PROVE FALSE
  <2>1. PICK k \in bad : \A m \in bad : k <= m
    <3>1. bad \in SUBSET Nat
      BY <1>1
    <3> QED
      BY <1>4, <3>1, Least
  <2>2. Half(0)
    <3>1. 0 .. 0 - 1 = {}
      OBVIOUS
    <3> QED
      BY <1>1, <1>2, <3>1
  <2> HIDE DEF Half
  <2>3. k \in 0 .. N /\ k # 0
    BY <2>2
  <2>4. k - 1 \in 0 .. N - 1 /\ (k - 1) + 1 = k /\ ~(k <= k - 1)
    BY <1>1, <2>3
  <2>5. k - 1 \in 0 .. N
    BY <1>1, <2>4
  <2>6. Half(k - 1)
    BY <2>1, <2>4, <2>5
  <2>7. Half(k)
    BY <1>3, <2>4, <2>6
  <2> QED
    BY <2>7
<1>5. Half(N)
  <2> HIDE DEF Half
  <2>1. N \in 0 .. N /\ N \notin bad
    BY <1>1, <1>4
  <2> QED
    BY <2>1
<1>6. Prio = 0 .. N - 1 /\ h[Prio] \in Int
  BY <1>2 DEF Prio, N
<1>7. 2 * h[Prio] = N * (N + 1)
  <2>1. 2 * N - N + 1 = N + 1
    BY <1>1
  <2> QED
    BY <1>5, <1>6, <2>1
<1>8. h[Prio] = (2 * h[Prio]) \div 2
  BY <1>6
<1> QED
  BY <1>7, <1>8 DEF Sum, h, N, AllSlots

\* The property in terms of this sum.
LEMMA SlotCountIs ==
  ASSUME TypeOK
  PROVE  SlotCountRight <=> slot_count = Sum(slot)
BY FoldIsSum DEF SlotCountRight, Sum, TypeOK

\* A dispatch costs its level one slot and the round one.
LEMMA GetKeepsSum ==
  ASSUME TypeOK, slot_count = Sum(slot), NEW p, GetProc(p)
  PROVE  slot_count' = Sum(slot')
<1>1. CASE RefillSlots
  BY <1>1, SumFull DEF RefillSlots
<1>2. ASSUME NEW i \in Prio, slot' = [slot EXCEPT ![i] = @ - 1], slot_count' = slot_count - 1
      PROVE  slot_count' = Sum(slot')
  <2>1. slot \in [Prio -> Int]
    BY DEF TypeOK
  <2> QED
    BY <1>2, <2>1, SumLess
<1>3. ASSUME NEW i \in Prio, slot' = [FullSlots EXCEPT ![i] = @ - 1], slot_count' = AllSlots - 1
      PROVE  slot_count' = Sum(slot')
  <2>1. FullSlots \in [Prio -> Int]
    BY FullSlotsPositive
  <2> QED
    BY <1>3, <2>1, SumLess, SumFull
<1> QED
  BY <1>1, <1>2, <1>3 DEF GetProc, GetInRound, GetNextRound, GetNothing

\* slot_count is what is left of the budgets, whatever CPUs and loader do.
THEOREM SlotsRight == Spec => []SlotCountRight
<1> DEFINE Right == slot_count = Sum(slot)
<1>1. Init => Right
  BY SumFull DEF Init, MLQInit
<1>2. TypeOK /\ Right /\ [Next]_vars => Right'
  <2> SUFFICES ASSUME TypeOK, Right, [Next]_vars PROVE Right'
    OBVIOUS
  <2>1. ASSUME NEW p, GetProc(p) PROVE Right'
    BY <2>1, GetKeepsSum
  <2>2. ASSUME UNCHANGED <<slot, slot_count>> PROVE Right'
    BY <2>2
  <2> HIDE DEF Right
  <2>3. \A p : Enqueue(p) => UNCHANGED <<slot, slot_count>>
    BY DEF Enqueue
  <2> QED
    BY <2>1, <2>2, <2>3 DEF Next, Add, Get, Put, Finish, AddProc, PutProc, vars, mlqVars
<1>3. TypeOK /\ Right => SlotCountRight
  BY SlotCountIs
<1> QED
  BY <1>1, <1>2, <1>3, TypeCorrect, PTL DEF Spec

-----------------------------------------------------------------------------
(* Nobody is overtaken for ever *)

\* A number between two multiples has the lower one's factor as quotient.
LEMMA Quotient ==
  ASSUME NEW s \in Int, s > 0, NEW a \in Int, NEW q \in Int, s * q <= a, a < s * q + s
  PROVE  a \div s = q
OBVIOUS

\* A round less to wait.
LEMMA RoundLess ==
  ASSUME NEW s \in Nat \ {0}, NEW n \in Nat \ {0}
  PROVE  /\ Rounds(n, s) \in Nat \ {0}
         /\ Rounds(n - s, s) = Rounds(n, s) - 1
<1> DEFINE q == (n + s - 1) \div s
<1>1. q \in Int /\ s * q <= n + s - 1 /\ n + s - 1 < s * q + s
  OBVIOUS
<1>2. Rounds(n, s) = q
  BY DEF Rounds
<1>3. q > 0
  <2>1. n + s - 1 >= s
    OBVIOUS
  <2>2. s * q + s > s
    BY <1>1, <2>1
  <2> HIDE DEF q
  <2>3. q <= 0 => s * q <= 0
    BY <1>1
  <2> QED
    BY <1>1, <2>2, <2>3
<1> HIDE DEF q
<1>4. CASE n - s <= 0
  <2>1. s * 1 <= n + s - 1 /\ n + s - 1 < s * 1 + s
    BY <1>4
  <2>2. (n + s - 1) \div s = 1
    BY <2>1, Quotient
  <2> QED
    BY <1>3, <1>4, <2>2 DEF Rounds
<1>5. CASE n - s > 0
  <2>1. s * (q - 1) = s * q - s
    BY <1>1
  <2>2. s * (q - 1) <= (n - s) + s - 1 /\ (n - s) + s - 1 < s * (q - 1) + s
    BY <1>1, <2>1
  <2>3. ((n - s) + s - 1) \div s = q - 1
    BY <1>1, <2>2, Quotient
  <2> QED
    BY <1>1, <1>2, <1>3, <1>5, <2>3 DEF Rounds
<1> QED
  BY <1>4, <1>5

\* A round has at least one slot.
LEMMA AllSlotsPositive == AllSlots \in Nat \ {0}
<1>1. MAX_PRIO \in Nat \ {0} /\ MAX_PRIO * (MAX_PRIO + 1) >= 2
  BY MLQAssumption
<1> QED
  BY <1>1 DEF AllSlots

\* Rounds to wait are counted in natural numbers.
LEMMA RoundsType ==
  ASSUME NEW n \in Int, NEW s \in Nat \ {0}
  PROVE  Rounds(n, s) \in Nat
<1>1. CASE n <= 0
  BY <1>1 DEF Rounds
<1>2. CASE n > 0
  BY <1>2, RoundLess
<1> QED
  BY <1>1, <1>2

\* One round less is AllSlots dispatches less.
LEMMA OneTimesLess ==
  ASSUME NEW a \in Int, NEW b \in Int
  PROVE  a * (b - 1) = a * b - a /\ a * b \in Int
OBVIOUS

\* A dispatch lowers the bound of every process that stays queued.
LEMMA DispatchCounts ==
  ASSUME TypeOK, DistinctEntries, ProcCountRight, ProcCountRight', TypeOK', slot_count \in Nat,
         NEW p \in Pcb, GetProc(p),
         NEW i \in Prio, NEW k \in 1 .. Len(queue[i]), NEW l \in 1 .. Len(queue'[i]),
         queue'[i][l] = queue[i][k]
  PROVE  /\ Turns(i, l)' < Turns(i, k)
         /\ Turns(i, l)' \in Int /\ Turns(i, k) \in Int
<1>1. /\ FullSlots[i] \in Nat \ {0} /\ AllSlots \in Nat \ {0}
      /\ slot \in [Prio -> Nat] /\ slot[i] \in Nat /\ slot'[i] \in Nat
      /\ k \in Nat /\ l \in Nat /\ k >= 1 /\ l >= 1 /\ slot_count \in Nat
  BY FullSlotsPositive, AllSlotsPositive DEF TypeOK
<1>2. proc_count' # 0
  <2>1. queue'[i][l] \in Queued'
    BY QueuedNext DEF TypeOK
  <2>2. IsFiniteSet(Queued')
    BY GetMoves, QueuedFinite, FS_Subset
  <2> QED
    BY <2>1, <2>2, FS_EmptySet DEF ProcCountRight
<1>3. PICK j \in Prio :
        /\ queue[j] # <<>> /\ Dequeue(j, p)
        /\ \/ /\ slot' = [slot EXCEPT ![j] = @ - 1]
              /\ slot_count' = slot_count - 1
           \/ /\ NoneServed(slot)
              /\ slot' = [FullSlots EXCEPT ![j] = @ - 1]
              /\ slot_count' = AllSlots - 1
  BY <1>2, MLQAssumption DEF GetProc, GetInRound, GetNextRound, GetNothing, FirstServed
<1>4. l = IF j = i THEN k - 1 ELSE k
  <2>1. CASE j = i
    <3>1. l + 1 \in 1 .. Len(queue[i]) /\ queue'[i][l] = queue[i][l + 1]
      BY <1>3, <2>1, DequeueMoves
    <3>2. l + 1 = k
      BY <3>1 DEF DistinctEntries
    <3> QED
      BY <2>1, <3>2
  <2>2. CASE j # i
    <3>1. queue'[i] = queue[i]
      BY <1>3, <2>2, DequeueMoves
    <3> QED
      BY <2>2, <3>1 DEF DistinctEntries
  <2> QED
    BY <2>1, <2>2
<1> DEFINE F == FullSlots[i]
           A == AllSlots
           R == Rounds(k - slot[i], F)
           R2 == Rounds(l - slot'[i], F)
<1>5. /\ Turns(i, k) = slot_count + A * R
      /\ Turns(i, l)' = slot_count' + A * R2
      /\ R \in Nat /\ R2 \in Nat
  <2>1. k - slot[i] \in Int /\ l - slot'[i] \in Int
    BY <1>1
  <2>2. R \in Nat /\ R2 \in Nat
    BY <1>1, <2>1, RoundsType
  <2> QED
    BY <2>2 DEF Turns
<1> HIDE DEF R, R2
<1>6. CASE slot' = [slot EXCEPT ![j] = @ - 1] /\ slot_count' = slot_count - 1
  <2>1. l - slot'[i] = k - slot[i]
    BY <1>1, <1>4, <1>6
  <2>2. R2 = R
    BY <2>1 DEF R, R2
  <2>3. A * R \in Int
    BY <1>1, <1>5
  <2> QED
    BY <1>1, <1>5, <1>6, <2>2, <2>3
<1>7. CASE /\ NoneServed(slot)
           /\ slot' = [FullSlots EXCEPT ![j] = @ - 1]
           /\ slot_count' = AllSlots - 1
  <2>1. slot[i] = 0
    <3>1. queue[i] # <<>>
      OBVIOUS
    <3>2. proc_count # 0
      <4>1. queue[i][k] \in Queued
        BY QueuedNow DEF TypeOK
      <4> QED
        BY <4>1, FS_EmptySet, QueuedFinite DEF ProcCountRight
    <3> QED
      BY <1>1, <1>7, <3>1, <3>2 DEF NoneServed
  <2>2. l - slot'[i] = k - F
    BY <1>1, <1>4, <1>7, FullSlotsPositive
  <2>3. R2 = R - 1 /\ R \in Nat \ {0}
    <3>1. k \in Nat \ {0} /\ F \in Nat \ {0} /\ k - slot[i] = k
      BY <1>1, <2>1
    <3>2. Rounds(k, F) \in Nat \ {0} /\ Rounds(k - F, F) = Rounds(k, F) - 1
      BY <3>1, RoundLess
    <3> QED
      BY <2>2, <3>1, <3>2 DEF R, R2
  <2>4. A * (R - 1) = A * R - A /\ A * R \in Int
    BY <1>1, <2>3, OneTimesLess
  <2>5. Turns(i, l)' = (A - 1) + (A * R - A)
    BY <1>5, <1>7, <2>3, <2>4
  <2>6. Turns(i, k) = slot_count + A * R
    BY <1>5
  <2> QED
    BY <1>1, <2>4, <2>5, <2>6
<1> QED
  BY <1>3, <1>6, <1>7

\* An enqueue moves nobody who waits.
LEMMA EnqueueCounts ==
  ASSUME TypeOK, DistinctEntries', TypeOK', NEW p \in Pcb, Enqueue(p),
         NEW i \in Prio, NEW k \in 1 .. Len(queue[i]), NEW l \in 1 .. Len(queue'[i]),
         queue'[i][l] = queue[i][k]
  PROVE  l = k
<1>1. \A j \in Prio : Len(queue[j]) \in Nat
  BY DEF TypeOK
<1>2. CASE queue'[i] = queue[i]
  BY <1>2 DEF DistinctEntries
<1>3. CASE /\ Len(queue'[i]) = Len(queue[i]) + 1
           /\ \A m \in 1 .. Len(queue[i]) : queue'[i][m] = queue[i][m]
  <2>1. k \in 1 .. Len(queue'[i]) /\ queue'[i][k] = queue[i][k]
    BY <1>1, <1>3
  <2> QED
    BY <2>1 DEF DistinctEntries
<1> QED
  BY <1>2, <1>3, EnqueueMoves

\* Nobody is overtaken for ever: what a queued process can still see go by
\* never grows, and every dispatch of another one lowers it.
THEOREM Overtaking == Spec => BoundedOvertaking
<1> DEFINE
     Sound == TypeOK /\ AtMostOnePlace /\ ProcCountRight /\ slot_count \in Nat
     Bound ==
       \A i \in Prio : \A k \in 1 .. Len(queue[i]) :
         LET p == queue[i][k] IN
         \A l \in 1 .. Len(queue'[i]) : queue'[i][l] = p =>
           /\ Turns(i, l)' <= Turns(i, k)
           /\ (\E c \in CPU : proc[c] = NULL /\ proc'[c] # NULL)
                => Turns(i, l)' < Turns(i, k)
<1>1. TypeOK /\ SlotCountRight => slot_count \in Nat
  BY SlotCountIs, SumNat DEF TypeOK
<1>2. Sound /\ Sound' /\ [Next]_vars => [Bound]_vars
  <2> SUFFICES ASSUME Sound, Sound', Next,
                      NEW i \in Prio, NEW k \in 1 .. Len(queue[i]),
                      NEW l \in 1 .. Len(queue'[i]), queue'[i][l] = queue[i][k]
               PROVE  /\ Turns(i, l)' <= Turns(i, k)
                      /\ (\E c \in CPU : proc[c] = NULL /\ proc'[c] # NULL)
                           => Turns(i, l)' < Turns(i, k)
    OBVIOUS
  <2>1. Turns(i, k) \in Int
    <3>1. /\ FullSlots[i] \in Nat \ {0} /\ AllSlots \in Nat \ {0}
          /\ k - slot[i] \in Int /\ slot_count \in Nat
      BY FullSlotsPositive, AllSlotsPositive DEF TypeOK
    <3>2. Rounds(k - slot[i], FullSlots[i]) \in Nat
      BY <3>1, RoundsType
    <3> QED
      BY <3>1, <3>2 DEF Turns
  <2>2. ASSUME NEW p \in Pcb, GetProc(p)
        PROVE  Turns(i, l)' < Turns(i, k) /\ Turns(i, l)' \in Int
    BY <2>2, DispatchCounts DEF AtMostOnePlace
  <2>3. ASSUME UNCHANGED <<slot, slot_count>>, l = k
        PROVE  Turns(i, l)' = Turns(i, k)
    BY <2>3 DEF Turns
  <2>4. ASSUME NEW p \in Pcb, Enqueue(p)
        PROVE  Turns(i, l)' = Turns(i, k)
    <3>1. l = k
      BY <2>4, EnqueueCounts DEF AtMostOnePlace
    <3> QED
      BY <2>3, <2>4, <3>1 DEF Enqueue
  <2>5. ASSUME UNCHANGED mlqVars PROVE Turns(i, l)' = Turns(i, k)
    <3>1. l = k
      BY <2>5 DEF mlqVars, AtMostOnePlace, DistinctEntries
    <3> QED
      BY <2>3, <2>5, <3>1 DEF mlqVars
  <2> HIDE DEF Sound
  <2>6. ASSUME NEW p \in Pcb, Add(p) PROVE Turns(i, l)' = Turns(i, k) /\ UNCHANGED proc
    BY <2>4, <2>6 DEF Add, AddProc
  <2>7. ASSUME NEW c \in CPU, NEW p \in Pcb \cup {NULL}, Get(c, p)
        PROVE  Turns(i, l)' < Turns(i, k) /\ Turns(i, l)' \in Int
    <3>1. p # NULL
      <4>1. Queued # {}
        BY QueuedNow DEF Sound, TypeOK
      <4> QED
        BY <2>7, <4>1, GetCounts, MLQAssumption DEF Get, Sound
    <3> QED
      BY <2>2, <2>7, <3>1 DEF Get
  <2>8. ASSUME NEW c \in CPU, Put(c)
        PROVE  /\ Turns(i, l)' = Turns(i, k)
               /\ \A d \in CPU : proc'[d] # NULL => proc[d] # NULL
    <3>1. proc[c] \in Pcb /\ proc \in [CPU -> Pcb \cup {NULL}]
      BY <2>8 DEF Put, Sound, TypeOK
    <3> QED
      BY <2>4, <2>8, <3>1 DEF Put, PutProc
  <2>9. ASSUME NEW c \in CPU, Finish(c)
        PROVE  /\ Turns(i, l)' = Turns(i, k)
               /\ \A d \in CPU : proc'[d] # NULL => proc[d] # NULL
    <3>1. proc \in [CPU -> Pcb \cup {NULL}]
      BY DEF Sound, TypeOK
    <3> QED
      BY <2>5, <2>9, <3>1 DEF Finish
  <2> QED
    BY <2>1, <2>6, <2>7, <2>8, <2>9 DEF Next
<1> QED
  BY <1>1, <1>2, TypeCorrect, OnePlaceCounted, SlotsRight, PTL DEF Spec, BoundedOvertaking
=============================================================================

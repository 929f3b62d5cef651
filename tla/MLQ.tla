-------------------------------- MODULE MLQ --------------------------------
(***************************************************************************)
(* The multilevel ready queue of src/sched.c over the bounded arrays of    *)
(* src/queue.c.  get_mlq_proc, put_mlq_proc and add_mlq_proc each run from *)
(* start to end under queue_lock, so each is one step here.  The module    *)
(* has no Next: Scheduler drives it with abstract CPUs, OS with the        *)
(* threads of src/os.c.                                                    *)
(***************************************************************************)
EXTENDS Integers, Sequences, FiniteSets, Functions

CONSTANTS
  Pcb,              \* the processes of the configuration file
  prio,             \* prio[p]: the priority the loader stores in proc->prio
  MAX_PRIO,         \* number of priority levels (140 in os-cfg.h)
  MAX_QUEUE_SIZE,   \* capacity of one level (10 in queue.h)
  NULL              \* "no process"

ASSUME MLQAssumption ==
  /\ IsFiniteSet(Pcb)
  /\ NULL \notin Pcb
  /\ MAX_PRIO \in Nat \ {0}
  /\ MAX_QUEUE_SIZE \in Nat \ {0}
  /\ prio \in [Pcb -> 0 .. MAX_PRIO - 1]

VARIABLES
  queue,            \* queue[i]: the processes of level i, next one first
  slot,             \* slot[i]: dispatches level i still has in this round
  proc_count,       \* mlq_ready_queue.proc_count
  slot_count        \* mlq_ready_queue.slot_count

mlqVars == <<queue, slot, proc_count, slot_count>>

Prio == 0 .. MAX_PRIO - 1

\* The budgets refill_slots_of_mlq hands out, and their sum.
FullSlots == [i \in Prio |-> MAX_PRIO - i]
AllSlots  == (MAX_PRIO * (MAX_PRIO + 1)) \div 2

MLQInit ==
  /\ queue = [i \in Prio |-> <<>>]
  /\ slot = FullSlots
  /\ proc_count = 0
  /\ slot_count = AllSlots

\* Mutant: the sum of the budgets is forgotten.
RefillSlotsOnly == slot' = FullSlots /\ UNCHANGED slot_count

RefillSlots ==
  /\ slot' = FullSlots
  /\ slot_count' = AllSlots

-----------------------------------------------------------------------------
\* Level i is the one get_proc_by_slot's loop stops at under the budgets s.
FirstServed(i, s) ==
  /\ queue[i] # <<>> /\ s[i] > 0
  /\ \A j \in Prio : j < i => queue[j] = <<>> \/ s[j] <= 0

\* get_proc_by_slot returns NULL under the budgets s.
NoneServed(s) ==
  \/ proc_count = 0
  \/ \A i \in Prio : queue[i] = <<>> \/ s[i] <= 0

\* Mutant: the array is not shifted.
DequeueUnshifted(i, p) ==
  /\ p = Head(queue[i])
  /\ proc_count' = proc_count - 1
  /\ UNCHANGED queue

\* dequeue: the head leaves, the others move up.
Dequeue(i, p) ==
  /\ p = Head(queue[i])
  /\ queue' = [queue EXCEPT ![i] = Tail(@)]
  /\ proc_count' = proc_count - 1

\* Mutant: a dispatch does not use up its level's budget.
GetInRoundFree(p) ==
  /\ \E i \in Prio : proc_count # 0 /\ FirstServed(i, slot) /\ Dequeue(i, p)
  /\ UNCHANGED <<slot, slot_count>>

\* The first get_proc_by_slot finds p; taking the last process refills.
GetInRound(p) ==
  \E i \in Prio :
    /\ proc_count # 0
    /\ FirstServed(i, slot)
    /\ Dequeue(i, p)
    /\ IF proc_count' = 0
       THEN RefillSlots
       ELSE /\ slot' = [slot EXCEPT ![i] = @ - 1]
            /\ slot_count' = slot_count - 1

\* The round is used up: refill, then the second get_proc_by_slot finds p.
GetNextRound(p) ==
  /\ NoneServed(slot)
  /\ \E i \in Prio :
       /\ proc_count # 0
       /\ FirstServed(i, FullSlots)
       /\ Dequeue(i, p)
       /\ slot' = [FullSlots EXCEPT ![i] = @ - 1]
       /\ slot_count' = AllSlots - 1

\* Mutant: no second search after the refill.
GetNothingAtOnce(p) ==
  /\ p = NULL /\ NoneServed(slot)
  /\ RefillSlots
  /\ UNCHANGED <<queue, proc_count>>

\* Both searches fail: the slots are refilled and NULL is returned.
GetNothing(p) ==
  /\ p = NULL
  /\ NoneServed(slot) /\ NoneServed(FullSlots)
  /\ RefillSlots
  /\ UNCHANGED <<queue, proc_count>>

\* get_mlq_proc returning p.
GetProc(p) == GetInRound(p) \/ GetNextRound(p) \/ GetNothing(p)

\* Mutants: one process too few, or too many; a refused process is counted.
EnqueueOneTooFew(p) ==
  LET i == prio[p] IN
  /\ IF Len(queue[i]) < MAX_QUEUE_SIZE - 1
     THEN /\ queue' = [queue EXCEPT ![i] = Append(@, p)]
          /\ proc_count' = proc_count + 1
     ELSE UNCHANGED <<queue, proc_count>>
  /\ UNCHANGED <<slot, slot_count>>

EnqueueOneTooMany(p) ==
  /\ queue' = [queue EXCEPT ![prio[p]] =
                 IF Len(@) <= MAX_QUEUE_SIZE THEN Append(@, p) ELSE @]
  /\ proc_count' = proc_count + 1
  /\ UNCHANGED <<slot, slot_count>>

EnqueueCounting(p) ==
  /\ queue' = [queue EXCEPT ![prio[p]] =
                 IF Len(@) < MAX_QUEUE_SIZE THEN Append(@, p) ELSE @]
  /\ proc_count' = proc_count + 1
  /\ UNCHANGED <<slot, slot_count>>

\* put_mlq_proc and add_mlq_proc: enqueue refuses when the level is full,
\* the caller does not look at the refusal.
Enqueue(p) ==
  LET i == prio[p] IN
  /\ IF Len(queue[i]) < MAX_QUEUE_SIZE
     THEN /\ queue' = [queue EXCEPT ![i] = Append(@, p)]
          /\ proc_count' = proc_count + 1
     ELSE UNCHANGED <<queue, proc_count>>
  /\ UNCHANGED <<slot, slot_count>>

PutProc(p) == Enqueue(p)
AddProc(p) == Enqueue(p)

-----------------------------------------------------------------------------
\* The processes in the ready queue.
Queued == UNION {Range(queue[i]) : i \in Prio}
=============================================================================

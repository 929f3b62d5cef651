----------------------------- MODULE Scheduler -----------------------------
(***************************************************************************)
(* What the ready queue promises to the CPUs.  CPUs and loader are reduced *)
(* to their calls of get_proc, put_proc and add_proc, made in any order    *)
(* the callers may make them; OS shows that the threads of src/os.c do     *)
(* nothing else.                                                           *)
(***************************************************************************)
EXTENDS MLQ

CONSTANT CPU

ASSUME SchedulerAssumption == IsFiniteSet(CPU)

VARIABLES
  fresh,            \* processes the loader has not added yet
  proc,             \* proc[c]: the process CPU c holds, or NULL
  finished          \* processes whose pcb has been freed

vars == <<mlqVars, fresh, proc, finished>>

Init ==
  /\ MLQInit
  /\ fresh = Pcb
  /\ proc = [c \in CPU |-> NULL]
  /\ finished = {}

\* ld_routine hands over a new process.
Add(p) ==
  /\ p \in fresh
  /\ AddProc(p)
  /\ fresh' = fresh \ {p}
  /\ UNCHANGED <<proc, finished>>

\* A CPU without process asks for one; p is NULL when there is none.
Get(c, p) ==
  /\ proc[c] = NULL
  /\ GetProc(p)
  /\ proc' = [proc EXCEPT ![c] = p]
  /\ UNCHANGED <<fresh, finished>>

\* The time slice of the CPU's process is over.
Put(c) ==
  /\ proc[c] # NULL
  /\ PutProc(proc[c])
  /\ proc' = [proc EXCEPT ![c] = NULL]
  /\ UNCHANGED <<fresh, finished>>

\* The CPU's process has run its last instruction: its pcb is freed.
Finish(c) ==
  /\ proc[c] # NULL
  /\ finished' = finished \cup {proc[c]}
  /\ proc' = [proc EXCEPT ![c] = NULL]
  /\ UNCHANGED <<mlqVars, fresh>>

Next ==
  \/ \E p \in Pcb : Add(p)
  \/ \E c \in CPU, p \in Pcb \cup {NULL} : Get(c, p)
  \/ \E c \in CPU : Put(c)
  \/ \E c \in CPU : Finish(c)

Spec == Init /\ [][Next]_vars

-----------------------------------------------------------------------------
Held == {proc[c] : c \in CPU} \ {NULL}

\* The types of the variables: queues hold processes of their own level and
\* never more than the array of queue.h has room for, no budget is negative.
TypeOK ==
  /\ queue \in [Prio -> Seq(Pcb)]
  /\ \A i \in Prio : /\ Len(queue[i]) <= MAX_QUEUE_SIZE
                     /\ \A k \in 1 .. Len(queue[i]) : prio[queue[i][k]] = i
  /\ slot \in [Prio -> Nat]
  /\ \A i \in Prio : slot[i] <= MAX_PRIO - i
  /\ proc_count \in Nat
  /\ slot_count \in Int
  /\ fresh \subseteq Pcb
  /\ proc \in [CPU -> Pcb \cup {NULL}]
  /\ finished \subseteq Pcb

DistinctEntries ==
  \A i, j \in Prio : \A k \in 1 .. Len(queue[i]), l \in 1 .. Len(queue[j]) :
    queue[i][k] = queue[j][l] => i = j /\ k = l

OneHolder ==
  \A c, d \in CPU : proc[c] = proc[d] /\ proc[c] # NULL => c = d

PlacesDisjoint ==
  /\ fresh \cap Queued = {} /\ fresh \cap Held = {}
  /\ fresh \cap finished = {} /\ Queued \cap Held = {}
  /\ Queued \cap finished = {} /\ Held \cap finished = {}

\* A process is in at most one place: two CPUs never run it at once, it is
\* not queued while it runs, queued twice, or used after free(proc)
\* (os.c:56-73).
AtMostOnePlace == DistinctEntries /\ OneHolder /\ PlacesDisjoint

LevelFits(i) == Cardinality({p \in Pcb : prio[p] = i}) <= MAX_QUEUE_SIZE

\* put_proc and add_proc ignore that enqueue refused (sched.c:121, :133);
\* no process is lost all the same when its level has room for all the
\* processes of that priority.
NoProcessLost ==
  \A p \in Pcb : LevelFits(prio[p]) =>
    p \in fresh \cup Queued \cup Held \cup finished

\* proc_count, which get_proc_by_slot trusts before it looks at any queue
\* (sched.c:66), is the number of queued processes.
ProcCountRight == proc_count = Cardinality(Queued)

\* slot_count is what is left of this round's budgets (sched.c:72-74).
SlotCountRight == slot_count = FoldFunction(+, 0, slot)

\* get_proc answers NULL only when nothing is queued, so no CPU skips a time
\* slot beside a ready process because a round was used up (sched.c:101-107).
NullOnlyWhenEmpty ==
  [][\A c \in CPU : Get(c, NULL) => Queued = {}]_vars

\* How many dispatches a process at position k of level i can still see go
\* by: what is left of this round, and the rounds until its turn.
Rounds(n, s) == IF n <= 0 THEN 0 ELSE (n + s - 1) \div s
Turns(i, k)  == slot_count + AllSlots * Rounds(k - slot[i], FullSlots[i])

\* No starvation, whatever CPUs and loader add: the bound on the dispatches a
\* queued process waits for never grows, and every dispatch of another
\* process lowers it, across rounds and refills (sched.c:65-114).
BoundedOvertaking ==
  [][\A i \in Prio : \A k \in 1 .. Len(queue[i]) :
       LET p == queue[i][k] IN
       \A l \in 1 .. Len(queue'[i]) : queue'[i][l] = p =>
         /\ Turns(i, l)' <= Turns(i, k)
         /\ (\E c \in CPU : proc[c] = NULL /\ proc'[c] # NULL)
              => Turns(i, l)' < Turns(i, k)]_vars
=============================================================================

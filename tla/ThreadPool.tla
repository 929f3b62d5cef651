----------------------------- MODULE ThreadPool -----------------------------
(***************************************************************************)
(* The thread pool of src/TA section/BKthreadpool: bkwrk.c, bktask.c and   *)
(* the calls main.c makes.  There is no lock: an action is one access to   *)
(* the memory main and workers share.  Worker k is the k-th clone; the     *)
(* slot it serves is the one whose index it read from main's variable i.   *)
(* Signals of one kind do not queue: pending is a flag.                    *)
(***************************************************************************)
EXTENDS Integers, Sequences

CONSTANTS
  MAX_WORKER,       \* 10 in bktpool.h
  Task,             \* tasks; a task stands for its func and its arg
  Script,           \* the calls of main.c, each [op, task]
  NULL, None        \* the null pointer; not loaded yet

\* The n-th call assigns task t, which an earlier one has made.
Assigns(n, t) ==
  /\ Script[n] = [op |-> "assign", task |-> t]
  /\ \E m \in 1 .. n - 1 : Script[m] = [op |-> "init", task |-> t]

\* As in main.c no task is assigned twice.
ASSUME ThreadPoolAssumption ==
  /\ MAX_WORKER \in Nat \ {0}
  /\ NULL \notin Task /\ None \notin Task \cup {NULL}
  /\ Script \in Seq([op : {"init", "assign"}, task : Task] \cup
                    [op : {"dispatch"}, task : {NULL}])
  /\ \A t \in Task : \A m, n \in DOMAIN Script :
       Assigns(m, t) /\ Assigns(n, t) => m = n

Worker == 0 .. MAX_WORKER - 1

VARIABLES
  i,                \* the loop variable of bkwrk_create_worker
  bktask,           \* the list of tasks, as a set
  wfunc, warg,      \* worker[w].func, worker[w].arg
  wrkid_busy,
  pending,          \* pending[k]: SIGUSR1 is pending for worker k
  mpc, step,        \* where main is, and in which call of Script
  wpc,              \* wpc[k]: where bkwrk_worker of k is
  id,               \* id[k]: its i, the slot it serves
  func, arg,        \* func[k], arg[k]: what it has loaded for the call
  calls             \* history: calls[t]: how often t's func got t's arg

slotVars == <<wfunc, warg, wrkid_busy>>
mainVars == <<i, bktask, mpc, step>>
wrkVars  == <<wpc, id, func, arg, calls>>
vars     == <<slotVars, mainVars, wrkVars, pending>>

Init ==
  /\ i = 0
  /\ bktask = {}
  /\ wfunc = [w \in Worker |-> NULL]
  /\ warg = [w \in Worker |-> NULL]
  /\ wrkid_busy = [w \in Worker |-> 0]
  /\ pending = [k \in Worker |-> FALSE]
  /\ mpc = "clone" /\ step = 1
  /\ wpc = [k \in Worker |-> "none"]
  /\ id = [k \in Worker |-> MAX_WORKER]
  /\ func = [k \in Worker |-> None]
  /\ arg = [k \in Worker |-> None]
  /\ calls = [t \in Task |-> 0]

MainGoes(from, to) == mpc = from /\ mpc' = to
Goes(k, from, to) == wpc[k] = from /\ wpc' = [wpc EXCEPT ![k] = to]

-----------------------------------------------------------------------------
(* main: bkwrk_create_worker *)

\* A new worker, which has the address of i.
Clone ==
  /\ MainGoes("clone", "pause")
  /\ wpc' = [wpc EXCEPT ![i] = "start"]
  /\ UNCHANGED <<slotVars, i, bktask, step, id, func, arg, calls, pending>>

\* Mutant: the loop makes one worker too many.
NextCloneOneMore ==
  /\ MainGoes("pause", IF i < MAX_WORKER THEN "clone" ELSE "script")
  /\ i' = i + 1
  /\ UNCHANGED <<slotVars, bktask, step, wrkVars, pending>>

\* usleep(100) and the next round; nothing says that the worker has started.
NextClone ==
  /\ MainGoes("pause", IF i + 1 < MAX_WORKER THEN "clone" ELSE "script")
  /\ i' = i + 1
  /\ UNCHANGED <<slotVars, bktask, step, wrkVars, pending>>

-----------------------------------------------------------------------------
(* main: the calls of the script *)

\* bkwrk_get_worker, whose choice of a worker is still to be written
GetWorker == 0

Current(op) == step <= Len(Script) /\ Script[step].op = op
ThisTask == Script[step].task
NextCall == step' = step + 1

\* bktask_init
InitTask ==
  /\ mpc = "script" /\ Current("init")
  /\ bktask' = bktask \cup {ThisTask}
  /\ NextCall
  /\ UNCHANGED <<slotVars, i, mpc, wrkVars, pending>>

\* bktask_assign_worker: without such a task it fails and changes nothing,
AssignFails ==
  /\ mpc = "script" /\ Current("assign") /\ ThisTask \notin bktask
  /\ NextCall
  /\ UNCHANGED <<slotVars, i, bktask, mpc, wrkVars, pending>>

\* else the worker is marked busy
AssignBusy ==
  /\ Current("assign") /\ ThisTask \in bktask
  /\ MainGoes("script", "func")
  /\ wrkid_busy' = [wrkid_busy EXCEPT ![GetWorker] = 1]
  /\ UNCHANGED <<wfunc, warg, i, bktask, step, wrkVars, pending>>

\* and given the function
AssignFunc ==
  /\ MainGoes("func", "arg")
  /\ wfunc' = [wfunc EXCEPT ![GetWorker] = ThisTask]
  /\ UNCHANGED <<warg, wrkid_busy, i, bktask, step, wrkVars, pending>>

\* and its argument, whatever the slot held.
AssignArg ==
  /\ MainGoes("arg", "script")
  /\ warg' = [warg EXCEPT ![GetWorker] = ThisTask]
  /\ NextCall
  /\ UNCHANGED <<wfunc, wrkid_busy, i, bktask, wrkVars, pending>>

\* bkwrk_dispatch_worker: an empty slot is not signalled,
DispatchNothing ==
  /\ mpc = "script" /\ Current("dispatch") /\ wfunc[GetWorker] = NULL
  /\ NextCall
  /\ UNCHANGED <<slotVars, i, bktask, mpc, wrkVars, pending>>

\* Mutant: a busy worker is not signalled.
DispatchIdleOnly ==
  /\ Current("dispatch") /\ wfunc[GetWorker] # NULL /\ wrkid_busy[GetWorker] = 0
  /\ MainGoes("script", "kill")
  /\ UNCHANGED <<slotVars, i, bktask, step, wrkVars, pending>>

\* a full one is,
Dispatch ==
  /\ Current("dispatch") /\ wfunc[GetWorker] # NULL
  /\ MainGoes("script", "kill")
  /\ UNCHANGED <<slotVars, i, bktask, step, wrkVars, pending>>

\* by tkill to the thread of that number.
Kill ==
  /\ MainGoes("kill", "script")
  /\ pending' = [pending EXCEPT ![GetWorker] = TRUE]
  /\ NextCall
  /\ UNCHANGED <<slotVars, i, bktask, wrkVars>>

MainStep ==
  \/ Clone \/ NextClone \/ InitTask \/ AssignFails \/ AssignBusy \/ AssignFunc
  \/ AssignArg \/ DispatchNothing \/ Dispatch \/ Kill

-----------------------------------------------------------------------------
(* bkwrk_worker *)

\* The worker reads main's i: its own number, a later one, or, once
\* bkwrk_create_worker has returned, whatever is there then.
Start(k) ==
  /\ Goes(k, "start", "sigwait")
  /\ \E n \in IF mpc \in {"clone", "pause"} THEN {i} ELSE 0 .. MAX_WORKER :
       id' = [id EXCEPT ![k] = n]
  /\ UNCHANGED <<slotVars, mainVars, func, arg, calls, pending>>

\* sigwait returns.  A number outside worker[] leads nowhere the model knows.
WakeUp(k) ==
  /\ id[k] \in Worker
  /\ pending[k]
  /\ Goes(k, "sigwait", "test")
  /\ pending' = [pending EXCEPT ![k] = FALSE]
  /\ UNCHANGED <<slotVars, mainVars, id, func, arg, calls>>

\* Mutant: the function is called without a look at it.
TestNothing(k) ==
  /\ Goes(k, "test", "load")
  /\ UNCHANGED <<slotVars, mainVars, id, func, arg, calls, pending>>

\* Is there something to do?
Test(k) ==
  /\ Goes(k, "test", IF wfunc[id[k]] # NULL THEN "load" ELSE "done")
  /\ UNCHANGED <<slotVars, mainVars, id, func, arg, calls, pending>>

\* The call loads function and argument; C leaves the order open.
LoadFunc(k) ==
  /\ wpc[k] = "load" /\ func[k] = None
  /\ func' = [func EXCEPT ![k] = wfunc[id[k]]]
  /\ UNCHANGED <<slotVars, mainVars, wpc, id, arg, calls, pending>>

LoadArg(k) ==
  /\ wpc[k] = "load" /\ arg[k] = None
  /\ arg' = [arg EXCEPT ![k] = warg[id[k]]]
  /\ UNCHANGED <<slotVars, mainVars, wpc, id, func, calls, pending>>

\* The function runs; func of main.c reads what arg points to, so a null
\* pointer ends the worker.
Call(k) ==
  /\ func[k] # None /\ arg[k] # None
  /\ Goes(k, "load", IF NULL \in {func[k], arg[k]} THEN "dead" ELSE "done")
  /\ func' = [func EXCEPT ![k] = None]
  /\ arg' = [arg EXCEPT ![k] = None]
  /\ calls' = [t \in Task |-> calls[t] + (IF arg[k] = t THEN 1 ELSE 0)]
  /\ UNCHANGED <<slotVars, mainVars, id, pending>>

\* "Advertise I DONE WORKING", and then empty the slot.
Done(k) ==
  /\ Goes(k, "done", "clearfunc")
  /\ wrkid_busy' = [wrkid_busy EXCEPT ![id[k]] = 0]
  /\ UNCHANGED <<wfunc, warg, mainVars, id, func, arg, calls, pending>>

\* Mutant: the slot keeps its task.
ClearNothing(k) ==
  /\ Goes(k, "clearfunc", "sigwait")
  /\ UNCHANGED <<slotVars, mainVars, id, func, arg, calls, pending>>

ClearFunc(k) ==
  /\ Goes(k, "clearfunc", "cleararg")
  /\ wfunc' = [wfunc EXCEPT ![id[k]] = NULL]
  /\ UNCHANGED <<warg, wrkid_busy, mainVars, id, func, arg, calls, pending>>

ClearArg(k) ==
  /\ Goes(k, "cleararg", "sigwait")
  /\ warg' = [warg EXCEPT ![id[k]] = NULL]
  /\ UNCHANGED <<wfunc, wrkid_busy, mainVars, id, func, arg, calls, pending>>

WorkerStep(k) ==
  \/ Start(k) \/ WakeUp(k) \/ Test(k) \/ LoadFunc(k) \/ LoadArg(k) \/ Call(k)
  \/ Done(k) \/ ClearFunc(k) \/ ClearArg(k)

Next == MainStep \/ \E k \in Worker : WorkerStep(k)

\* main and the workers are threads the kernel keeps running.
Fairness == WF_vars(MainStep) /\ \A k \in Worker : WF_vars(WorkerStep(k))

Spec == Init /\ [][Next]_vars /\ Fairness

-----------------------------------------------------------------------------
TypeOK ==
  /\ i \in 0 .. MAX_WORKER
  /\ bktask \subseteq Task
  /\ wfunc \in [Worker -> Task \cup {NULL}]
  /\ warg \in [Worker -> Task \cup {NULL}]
  /\ wrkid_busy \in [Worker -> {0, 1}]
  /\ pending \in [Worker -> BOOLEAN]
  /\ mpc \in {"clone", "pause", "script", "func", "arg", "kill"}
  /\ step \in 1 .. Len(Script) + 1
  /\ wpc \in [Worker -> {"none", "start", "sigwait", "test", "load", "done",
                         "clearfunc", "cleararg", "dead"}]
  /\ id \in [Worker -> 0 .. MAX_WORKER]
  /\ func \in [Worker -> Task \cup {NULL, None}]
  /\ arg \in [Worker -> Task \cup {NULL, None}]
  /\ calls \in [Task -> Nat]

\* A task that main assigns once is not run twice, however its assignment,
\* the two signals that may announce it and the worker's loop interleave.
NoTaskTwice ==
  \A t \in Task :
    calls[t] <= IF \E n \in DOMAIN Script : Assigns(n, t) THEN 1 ELSE 0

\* The function a worker calls is never null, although main writes the slot
\* between its test (bkwrk.c:42) and its call: only the worker empties it.
FuncGiven == \A k \in Worker : func[k] # NULL

\* The argument it gets is never null: bkwrk.c:45 "Advertise I DONE WORKING"
\* and bkwrk.c:114 tell main that the slot is free for a new task.
ArgGiven == \A k \in Worker : arg[k] # NULL

OwnId == \A k \in Worker : wpc[k] \notin {"none", "start"} => id[k] = k
Asleep(k) == wpc[k] = "sigwait" /\ ~pending[k] /\ wfunc[k] = NULL

\* Although a signal can fall on a pending one or on a busy worker, no task
\* stays in a slot: when main is through, every worker that serves its own
\* slot and has not died sleeps beside an empty one.
PoolDrains ==
  []OwnId => <>[](/\ mpc = "script" /\ step > Len(Script)
                  /\ \A k \in Worker : wpc[k] = "dead" \/ Asleep(k))
=============================================================================

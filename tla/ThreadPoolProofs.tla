--------------------------- MODULE ThreadPoolProofs ---------------------------
(***************************************************************************)
(* Theorems about the thread pool, for every number of workers and every   *)
(* sequence of calls of main in which no task is assigned twice.           *)
(***************************************************************************)
EXTENDS ThreadPool, TLAPS

\* main only ever signals worker 0 and writes its slot.  Whatever index that
\* worker has read, no other one leaves its sigwait.
OthersIdle ==
  \A k \in Worker : k # 0 =>
    /\ ~pending[k] /\ wpc[k] \in {"none", "start", "sigwait"}
    /\ func[k] = None /\ arg[k] = None
    /\ wfunc[k] = NULL /\ warg[k] = NULL

\* What worker 0 has loaded and where it is.
Worker0 ==
  /\ wpc[0] \notin {"none", "start", "sigwait"} => id[0] \in Worker
  /\ wpc[0] \in {"none", "start"} => id[0] = MAX_WORKER
  /\ wpc[0] # "load" => func[0] = None /\ arg[0] = None

\* The loop of bkwrk_create_worker.
Creating ==
  /\ mpc \in {"clone", "pause"} => i < MAX_WORKER
  /\ mpc = "clone" => \A k \in Worker : k >= i => wpc[k] = "none"
  /\ mpc = "pause" => \A k \in Worker : k > i => wpc[k] = "none"

\* The call main is in, and the tasks it has made.
InCall ==
  /\ mpc \in {"func", "arg"} => Current("assign") /\ ThisTask \in bktask
  /\ mpc = "kill" => Current("dispatch")

Made(t) == \E m \in 1 .. step - 1 : Script[m] = [op |-> "init", task |-> t]

\* While the worker loads, its slot has a function.
SlotFull ==
  /\ func[0] # NULL
  /\ wpc[0] = "load" /\ func[0] = None => wfunc[id[0]] # NULL

\* main is through with the assignment of t.
Given(t) == \E n \in 1 .. step - 1 : Assigns(n, t)

\* A task whose argument the worker has not got yet has not been run; one
\* that has been run may be in the slot only until the worker empties it.
RunOnce ==
  \A t \in Task :
    /\ calls[t] \in {0, 1}
    /\ calls[t] = 1 => Given(t) /\ id[0] = 0
    /\ warg[0] = t => Given(t)
    /\ arg[0] = t => Given(t) /\ calls[t] = 0 /\ id[0] = 0
    /\ warg[0] = t /\ calls[t] = 1 =>
         wpc[0] \in {"done", "clearfunc", "cleararg", "dead"}

Inv == TypeOK /\ OthersIdle /\ Worker0 /\ Creating /\ InCall /\ SlotFull /\ \A t \in bktask : Made(t)

-----------------------------------------------------------------------------
LEMMA Facts ==
  /\ GetWorker = 0 /\ 0 \in Worker /\ MAX_WORKER \in Nat \ {0}
  /\ Worker = 0 .. MAX_WORKER - 1
  /\ NULL \notin Task /\ None \notin Task \cup {NULL}
BY ThreadPoolAssumption DEF GetWorker, Worker

LEMMA ScriptFacts ==
  /\ Len(Script) \in Nat /\ DOMAIN Script = 1 .. Len(Script)
  /\ \A n \in 1 .. Len(Script) :
       /\ Script[n].op \in {"init", "assign"} => Script[n].task \in Task
       /\ Script[n] = [op |-> Script[n].op, task |-> Script[n].task]
BY ThreadPoolAssumption

\* The tasks made before a call are made after it.
LEMMA MadeBefore ==
  ASSUME TypeOK, (step' = step \/ step' = step + 1), NEW t, Made(t)
  PROVE  Made(t)'
<1>1. step \in Nat \ {0}
  BY ScriptFacts DEF TypeOK
<1>2. step' \in Nat /\ \A m \in 1 .. step - 1 : m \in 1 .. step' - 1
  BY <1>1
<1>3. PICK m \in 1 .. step - 1 : Script[m] = [op |-> "init", task |-> t]
  BY DEF Made
<1>4. m \in 1 .. step' - 1
  BY <1>2
<1> QED
  BY <1>3, <1>4 DEF Made

LEMMA InvInit == Init => Inv
<1> SUFFICES ASSUME Init PROVE Inv
  OBVIOUS
<1>1. TypeOK
  BY Facts, ScriptFacts DEF Init, TypeOK
<1> QED
  BY <1>1, Facts, ScriptFacts DEF Init, Inv, OthersIdle, Worker0, Creating, InCall, SlotFull

\* A step of main.
LEMMA MainStepKeepsInv ==
  ASSUME Inv, MainStep
  PROVE  Inv'
<1> USE Facts DEF Inv, MainGoes, slotVars, wrkVars, NextCall
<1>1. step' = step \/ step' = step + 1
  BY DEF MainStep, Clone, NextClone, InitTask, AssignFails, AssignBusy, AssignFunc,
         AssignArg, DispatchNothing, Dispatch, Kill
<1>2. ASSUME ~InitTask PROVE \A t \in bktask' : Made(t)'
  BY <1>1, <1>2, MadeBefore
     DEF MainStep, Clone, NextClone, AssignFails, AssignBusy, AssignFunc,
         AssignArg, DispatchNothing, Dispatch, Kill
<1>3. CASE Clone
  <2>1. TypeOK' /\ InCall'
    BY <1>3, ScriptFacts DEF Clone, TypeOK, Creating, InCall, Current, ThisTask
  <2>2. OthersIdle' /\ Worker0' /\ Creating'
    BY <1>3 DEF Clone, TypeOK, OthersIdle, Worker0, Creating
  <2>3. SlotFull'
    BY <1>3, ScriptFacts DEF Clone, TypeOK, SlotFull, Worker0, Creating, InCall, Current, ThisTask
  <2> QED
    BY <1>2, <1>3, <2>1, <2>2, <2>3 DEF Clone, InitTask, Current
<1>4. CASE NextClone
  <2>1. TypeOK' /\ InCall'
    BY <1>4, ScriptFacts DEF NextClone, TypeOK, Creating, InCall, Current, ThisTask
  <2>2. OthersIdle' /\ Worker0' /\ Creating'
    BY <1>4 DEF NextClone, TypeOK, OthersIdle, Worker0, Creating
  <2>3. SlotFull'
    BY <1>4, ScriptFacts DEF NextClone, TypeOK, SlotFull, Worker0, Creating, InCall, Current, ThisTask
  <2> QED
    BY <1>2, <1>4, <2>1, <2>2, <2>3 DEF NextClone, InitTask, Current
<1>5. CASE InitTask
  <2>1. TypeOK' /\ InCall'
    BY <1>5, ScriptFacts DEF InitTask, TypeOK, Creating, InCall, Current, ThisTask
  <2>2. OthersIdle' /\ Worker0' /\ Creating'
    BY <1>5 DEF InitTask, TypeOK, OthersIdle, Worker0, Creating
  <2>3. SlotFull'
    BY <1>5, ScriptFacts DEF InitTask, TypeOK, SlotFull, Worker0, Creating, InCall, Current, ThisTask
  <2>4. ASSUME NEW t \in bktask' PROVE Made(t)'
    <3>1. CASE t \in bktask
      BY <1>1, <3>1, MadeBefore
    <3>2. CASE t = ThisTask
      <4>1. step \in 1 .. step' - 1
        BY <1>5 DEF InitTask, TypeOK
      <4>2. Script[step] = [op |-> "init", task |-> t]
        BY <1>5, <3>2, <4>1, ScriptFacts DEF InitTask, TypeOK, Current, ThisTask
      <4> QED
        BY <4>1, <4>2 DEF Made
    <3> QED
      BY <1>5, <3>1, <3>2 DEF InitTask
  <2> QED
    BY <2>1, <2>2, <2>3, <2>4
<1>6. CASE AssignFails
  <2>1. TypeOK' /\ InCall'
    BY <1>6, ScriptFacts DEF AssignFails, TypeOK, Creating, InCall, Current, ThisTask
  <2>2. OthersIdle' /\ Worker0' /\ Creating'
    BY <1>6 DEF AssignFails, TypeOK, OthersIdle, Worker0, Creating
  <2>3. SlotFull'
    BY <1>6, ScriptFacts DEF AssignFails, TypeOK, SlotFull, Worker0, Creating, InCall, Current, ThisTask
  <2> QED
    BY <1>2, <1>6, <2>1, <2>2, <2>3 DEF AssignFails, InitTask, Current
<1>7. CASE AssignBusy
  <2>1. TypeOK' /\ InCall'
    BY <1>7, ScriptFacts DEF AssignBusy, TypeOK, Creating, InCall, Current, ThisTask
  <2>2. OthersIdle' /\ Worker0' /\ Creating'
    BY <1>7 DEF AssignBusy, TypeOK, OthersIdle, Worker0, Creating
  <2>3. SlotFull'
    BY <1>7, ScriptFacts DEF AssignBusy, TypeOK, SlotFull, Worker0, Creating, InCall, Current, ThisTask
  <2> QED
    BY <1>2, <1>7, <2>1, <2>2, <2>3 DEF AssignBusy, InitTask, Current
<1>8. CASE AssignFunc
  <2>1. TypeOK' /\ InCall'
    BY <1>8, ScriptFacts DEF AssignFunc, TypeOK, Creating, InCall, Current, ThisTask
  <2>2. OthersIdle' /\ Worker0' /\ Creating'
    BY <1>8 DEF AssignFunc, TypeOK, OthersIdle, Worker0, Creating
  <2>3. SlotFull'
    BY <1>8, ScriptFacts DEF AssignFunc, TypeOK, SlotFull, Worker0, Creating, InCall, Current, ThisTask
  <2> QED
    BY <1>2, <1>8, <2>1, <2>2, <2>3 DEF AssignFunc, InitTask, Current
<1>9. CASE AssignArg
  <2>1. TypeOK' /\ InCall'
    BY <1>9, ScriptFacts DEF AssignArg, TypeOK, Creating, InCall, Current, ThisTask
  <2>2. OthersIdle' /\ Worker0' /\ Creating'
    BY <1>9 DEF AssignArg, TypeOK, OthersIdle, Worker0, Creating
  <2>3. SlotFull'
    BY <1>9, ScriptFacts DEF AssignArg, TypeOK, SlotFull, Worker0, Creating, InCall, Current, ThisTask
  <2> QED
    BY <1>2, <1>9, <2>1, <2>2, <2>3 DEF AssignArg, InitTask, Current
<1>10. CASE DispatchNothing
  <2>1. TypeOK' /\ InCall'
    BY <1>10, ScriptFacts DEF DispatchNothing, TypeOK, Creating, InCall, Current, ThisTask
  <2>2. OthersIdle' /\ Worker0' /\ Creating'
    BY <1>10 DEF DispatchNothing, TypeOK, OthersIdle, Worker0, Creating
  <2>3. SlotFull'
    BY <1>10, ScriptFacts DEF DispatchNothing, TypeOK, SlotFull, Worker0, Creating, InCall, Current, ThisTask
  <2> QED
    BY <1>2, <1>10, <2>1, <2>2, <2>3 DEF DispatchNothing, InitTask, Current
<1>11. CASE Dispatch
  <2>1. TypeOK' /\ InCall'
    BY <1>11, ScriptFacts DEF Dispatch, TypeOK, Creating, InCall, Current, ThisTask
  <2>2. OthersIdle' /\ Worker0' /\ Creating'
    BY <1>11 DEF Dispatch, TypeOK, OthersIdle, Worker0, Creating
  <2>3. SlotFull'
    BY <1>11, ScriptFacts DEF Dispatch, TypeOK, SlotFull, Worker0, Creating, InCall, Current, ThisTask
  <2> QED
    BY <1>2, <1>11, <2>1, <2>2, <2>3 DEF Dispatch, InitTask, Current
<1>12. CASE Kill
  <2>1. TypeOK' /\ InCall'
    BY <1>12, ScriptFacts DEF Kill, TypeOK, Creating, InCall, Current, ThisTask
  <2>2. OthersIdle' /\ Worker0' /\ Creating'
    BY <1>12 DEF Kill, TypeOK, OthersIdle, Worker0, Creating
  <2>3. SlotFull'
    BY <1>12, ScriptFacts DEF Kill, TypeOK, SlotFull, Worker0, Creating, InCall, Current, ThisTask
  <2> QED
    BY <1>2, <1>12, <2>1, <2>2, <2>3 DEF Kill, InitTask, Current
<1> QED
  BY <1>3, <1>4, <1>5, <1>6, <1>7, <1>8, <1>9, <1>10, <1>11, <1>12 DEF MainStep

\* A step of a worker.  One that does more than start is worker 0.
LEMMA WorkerStepKeepsInv ==
  ASSUME Inv, NEW k \in Worker, WorkerStep(k)
  PROVE  Inv'
<1> USE Facts DEF Inv, Goes, slotVars, mainVars
<1>1. \A t \in bktask' : Made(t)'
  BY MadeBefore DEF WorkerStep, Start, WakeUp, Test, LoadFunc, LoadArg, Call, Done,
     ClearFunc, ClearArg
<1>2. CASE Start(k)
  BY <1>1, <1>2 DEF Start, TypeOK, OthersIdle, Worker0, Creating, InCall, SlotFull, Current, ThisTask
<1>3. ASSUME ~Start(k) PROVE k = 0 /\ id[0] \in Worker
  BY <1>3 DEF WorkerStep, WakeUp, Test, LoadFunc, LoadArg, Call, Done, ClearFunc, ClearArg,
     OthersIdle, Worker0, Creating, TypeOK
<1>4. CASE WakeUp(k)
  <2>1. TypeOK' /\ InCall'
    BY <1>3, <1>4 DEF WakeUp, Start, TypeOK, InCall, Current, ThisTask
  <2>2. OthersIdle' /\ Worker0' /\ Creating' /\ SlotFull'
    BY <1>3, <1>4 DEF WakeUp, Start, TypeOK, OthersIdle, Worker0, Creating, SlotFull
  <2> QED
    BY <1>1, <2>1, <2>2
<1>5. CASE Test(k)
  <2>1. TypeOK' /\ InCall'
    BY <1>3, <1>5 DEF Test, Start, TypeOK, InCall, Current, ThisTask
  <2>2. OthersIdle' /\ Worker0' /\ Creating' /\ SlotFull'
    BY <1>3, <1>5 DEF Test, Start, TypeOK, OthersIdle, Worker0, Creating, SlotFull
  <2> QED
    BY <1>1, <2>1, <2>2
<1>6. CASE LoadFunc(k)
  <2>1. TypeOK' /\ InCall'
    BY <1>3, <1>6 DEF LoadFunc, Start, TypeOK, InCall, Current, ThisTask
  <2>2. OthersIdle' /\ Worker0' /\ Creating' /\ SlotFull'
    BY <1>3, <1>6 DEF LoadFunc, Start, TypeOK, OthersIdle, Worker0, Creating, SlotFull
  <2> QED
    BY <1>1, <2>1, <2>2
<1>7. CASE LoadArg(k)
  <2>1. TypeOK' /\ InCall'
    BY <1>3, <1>7 DEF LoadArg, Start, TypeOK, InCall, Current, ThisTask
  <2>2. OthersIdle' /\ Worker0' /\ Creating' /\ SlotFull'
    BY <1>3, <1>7 DEF LoadArg, Start, TypeOK, OthersIdle, Worker0, Creating, SlotFull
  <2> QED
    BY <1>1, <2>1, <2>2
<1>8. CASE Call(k)
  <2>1. TypeOK' /\ InCall'
    BY <1>3, <1>8 DEF Call, Start, TypeOK, InCall, Current, ThisTask
  <2>2. OthersIdle' /\ Worker0' /\ Creating' /\ SlotFull'
    BY <1>3, <1>8 DEF Call, Start, TypeOK, OthersIdle, Worker0, Creating, SlotFull
  <2> QED
    BY <1>1, <2>1, <2>2
<1>9. CASE Done(k)
  <2>1. TypeOK' /\ InCall'
    BY <1>3, <1>9 DEF Done, Start, TypeOK, InCall, Current, ThisTask
  <2>2. OthersIdle' /\ Worker0' /\ Creating' /\ SlotFull'
    BY <1>3, <1>9 DEF Done, Start, TypeOK, OthersIdle, Worker0, Creating, SlotFull
  <2> QED
    BY <1>1, <2>1, <2>2
<1>10. CASE ClearFunc(k)
  <2>1. TypeOK' /\ InCall'
    BY <1>3, <1>10 DEF ClearFunc, Start, TypeOK, InCall, Current, ThisTask
  <2>2. OthersIdle' /\ Worker0' /\ Creating' /\ SlotFull'
    BY <1>3, <1>10 DEF ClearFunc, Start, TypeOK, OthersIdle, Worker0, Creating, SlotFull
  <2> QED
    BY <1>1, <2>1, <2>2
<1>11. CASE ClearArg(k)
  <2>1. TypeOK' /\ InCall'
    BY <1>3, <1>11 DEF ClearArg, Start, TypeOK, InCall, Current, ThisTask
  <2>2. OthersIdle' /\ Worker0' /\ Creating' /\ SlotFull'
    BY <1>3, <1>11 DEF ClearArg, Start, TypeOK, OthersIdle, Worker0, Creating, SlotFull
  <2> QED
    BY <1>1, <2>1, <2>2
<1> QED
  BY <1>2, <1>4, <1>5, <1>6, <1>7, <1>8, <1>9, <1>10, <1>11 DEF WorkerStep

THEOREM Invariant == Spec => []Inv
<1>1. Inv /\ UNCHANGED vars => Inv'
  BY DEF Inv, TypeOK, OthersIdle, Worker0, Creating, InCall, Current, ThisTask, Made, SlotFull,
         vars, slotVars, mainVars, wrkVars
<1>2. Inv /\ [Next]_vars => Inv'
  BY <1>1, MainStepKeepsInv, WorkerStepKeepsInv DEF Next
<1> QED
  BY <1>2, InvInit, PTL DEF Spec

\* The types of the pool's variables.
THEOREM TypeCorrect == Spec => []TypeOK
BY Invariant, PTL DEF Inv

\* The function a worker calls is never null.
THEOREM FunctionGiven == Spec => []FuncGiven
<1>1. Inv => FuncGiven
  BY Facts DEF Inv, OthersIdle, SlotFull, FuncGiven
<1> QED
  BY <1>1, Invariant, PTL

-----------------------------------------------------------------------------
(* No task is run twice *)

\* A task that has been given stays so.
LEMMA GivenBefore ==
  ASSUME TypeOK, (step' = step \/ step' = step + 1), NEW t, Given(t)
  PROVE  Given(t)'
<1>1. step \in Nat \ {0}
  BY ScriptFacts DEF TypeOK
<1>2. step' \in Nat /\ \A n \in 1 .. step - 1 : n \in 1 .. step' - 1
  BY <1>1
<1>3. PICK n \in 1 .. step - 1 : Assigns(n, t)
  BY DEF Given
<1>4. n \in 1 .. step' - 1
  BY <1>2
<1> QED
  BY <1>3, <1>4 DEF Given

\* main assigns a task that it has not given to the worker before.
LEMMA NewTask ==
  ASSUME Inv, AssignArg
  PROVE  \E t \in Task : t = ThisTask /\ ~Given(t) /\ Given(t)'
<1>1. /\ step \in Nat \ {0} /\ step \in 1 .. Len(Script) /\ step' = step + 1
      /\ Script[step].op = "assign" /\ ThisTask \in bktask
  BY ScriptFacts DEF Inv, TypeOK, InCall, AssignArg, MainGoes, Current, NextCall
<1>2. ThisTask \in Task /\ Script[step] = [op |-> "assign", task |-> ThisTask]
  BY <1>1, ScriptFacts DEF ThisTask
<1>3. Assigns(step, ThisTask)
  BY <1>1, <1>2 DEF Inv, Made, Assigns
<1>4. ASSUME NEW n \in 1 .. step - 1, Assigns(n, ThisTask) PROVE FALSE
  <2>1. n \in 1 .. Len(Script) /\ n # step
    BY <1>1, ScriptFacts
  <2> QED
    BY <1>1, <1>2, <1>3, <1>4, <2>1, ScriptFacts, ThreadPoolAssumption
<1>5. step \in 1 .. step' - 1
  BY <1>1
<1>6. PICK t : t = ThisTask
  OBVIOUS
<1>7. ~Given(t)
  BY <1>4, <1>6 DEF Given
<1>8. Given(t)'
  BY <1>3, <1>5, <1>6 DEF Given
<1> QED
  BY <1>2, <1>6, <1>7, <1>8

LEMMA RunOnceKept ==
  ASSUME Inv, RunOnce, [Next]_vars
  PROVE  RunOnce'
<1> USE Facts DEF Inv, RunOnce, mainVars, slotVars, wrkVars, MainGoes, Goes
<1> SUFFICES ASSUME NEW t \in Task
             PROVE  /\ calls'[t] \in {0, 1}
                    /\ calls'[t] = 1 => Given(t)' /\ id'[0] = 0
                    /\ warg'[0] = t => Given(t)'
                    /\ arg'[0] = t => Given(t)' /\ calls'[t] = 0 /\ id'[0] = 0
                    /\ warg'[0] = t /\ calls'[t] = 1 =>
                         wpc'[0] \in {"done", "clearfunc", "cleararg", "dead"}
  BY DEF RunOnce
<1>1. Given(t) => Given(t)'
  <2>1. step' = step \/ step' = step + 1
    BY DEF Next, MainStep, Clone, NextClone, InitTask, AssignFails, AssignBusy, AssignFunc,
       AssignArg, DispatchNothing, Dispatch, Kill, WorkerStep, Start, WakeUp, Test, LoadFunc,
       LoadArg, Call, Done, ClearFunc, ClearArg, NextCall, vars
  <2> QED
    BY <2>1, GivenBefore
<1>2. CASE AssignArg
  <2>1. warg'[0] = ThisTask /\ UNCHANGED <<wpc, id, arg, calls>>
    BY <1>2 DEF AssignArg, TypeOK
  <2>2. warg'[0] = t => ~Given(t) /\ Given(t)'
    BY <1>2, <2>1, NewTask
  <2>3. Given(t) \/ calls[t] = 0
    OBVIOUS
  <2> QED
    BY <1>1, <2>1, <2>2, <2>3
<1>3. CASE UNCHANGED vars
  BY <1>1, <1>3 DEF vars
<1>4. CASE MainStep /\ ~AssignArg
  <2>1. /\ UNCHANGED <<warg, id, arg, calls>>
        /\ wpc'[0] = wpc[0] \/ wpc[0] \in {"start", "none"}
    BY <1>4 DEF MainStep, Clone, NextClone, InitTask, AssignFails, AssignBusy, AssignFunc,
       DispatchNothing, Dispatch, Kill, Creating, TypeOK
  <2> QED
    BY <1>1, <2>1
<1>5. ASSUME NEW k \in Worker, WorkerStep(k), k # 0
      PROVE  UNCHANGED <<warg, arg[0], calls, wpc[0], id[0]>>
  BY <1>5 DEF WorkerStep, Start, WakeUp, Test, LoadFunc, LoadArg, Call, Done, ClearFunc,
     ClearArg, OthersIdle, TypeOK
<1>6. CASE Start(0)
  BY <1>1, <1>6 DEF Start, Worker0, TypeOK
<1>7. CASE WakeUp(0) \/ Test(0) \/ LoadFunc(0) \/ Done(0) \/ ClearFunc(0)
  BY <1>1, <1>7 DEF WakeUp, Test, LoadFunc, Done, ClearFunc, TypeOK
<1>8. CASE LoadArg(0)
  <2>1. wpc[0] = "load" /\ id[0] \in Worker /\ arg'[0] = warg[id[0]]
        /\ UNCHANGED <<warg, id, calls, wpc>>
    BY <1>8 DEF LoadArg, Worker0, TypeOK
  <2>2. id[0] # 0 => warg[id[0]] = NULL
    BY <2>1 DEF OthersIdle
  <2> QED
    BY <1>1, <2>1, <2>2
<1>9. CASE Call(0)
  <2>1. /\ arg'[0] = None /\ wpc'[0] \in {"done", "dead"} /\ UNCHANGED <<warg, id>>
        /\ calls'[t] = calls[t] + (IF arg[0] = t THEN 1 ELSE 0)
    BY <1>9 DEF Call, TypeOK
  <2> QED
    BY <1>1, <2>1
<1>10. CASE ClearArg(0)
  <2>1. /\ warg' = [warg EXCEPT ![id[0]] = NULL] /\ wpc[0] = "cleararg"
        /\ UNCHANGED <<arg, id, calls>>
    BY <1>10 DEF ClearArg
  <2>2. arg[0] = None /\ (id[0] = 0 => warg'[0] = NULL) /\ warg'[0] \in {warg[0], NULL}
    BY <2>1 DEF Worker0, TypeOK
  <2> QED
    BY <1>1, <2>1, <2>2
<1> QED
  <2>1. CASE \E k \in Worker : k # 0 /\ WorkerStep(k)
    BY <1>1, <1>5, <2>1
  <2>2. CASE WorkerStep(0)
    BY <1>6, <1>7, <1>8, <1>9, <1>10, <2>2 DEF WorkerStep
  <2> QED
    BY <1>2, <1>3, <1>4, <2>1, <2>2 DEF Next

\* No task that main assigns once is run twice.
THEOREM RunAtMostOnce == Spec => []NoTaskTwice
<1>1. Init => RunOnce
  BY Facts DEF Init, RunOnce
<1>2. Inv /\ RunOnce => NoTaskTwice
  <2> SUFFICES ASSUME Inv, RunOnce, NEW t \in Task
               PROVE  calls[t] <= IF \E n \in DOMAIN Script : Assigns(n, t) THEN 1 ELSE 0
    BY DEF NoTaskTwice
  <2>1. step - 1 \in Nat /\ step - 1 <= Len(Script)
    BY ScriptFacts DEF Inv, TypeOK
  <2>2. Given(t) => \E n \in DOMAIN Script : Assigns(n, t)
    BY <2>1, ScriptFacts DEF Given
  <2> QED
    BY <2>2 DEF RunOnce
<1> QED
  BY <1>1, <1>2, RunOnceKept, Invariant, PTL DEF Spec
=============================================================================

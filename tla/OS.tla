--------------------------------- MODULE OS ---------------------------------
(***************************************************************************)
(* The threads of src/os.c: cpu_routine on every CPU and ld_routine, over  *)
(* the ready queue (MLQ) and the time slots (Barrier, which Timer          *)
(* implements).  An action runs from one access to shared state to the     *)
(* next.  An instruction counts, what it does to memory is left to         *)
(* VmArea and Paging.                                                      *)
(***************************************************************************)
EXTENDS MLQ, Barrier

CONSTANTS
  CPU,
  Loader,
  ld_processes,     \* the processes of the configuration file, in its order
  start_time,       \* start_time[p]: the slot p may be added in
  code_size,        \* code_size[p]: the number of instructions of p
  time_slot         \* slots a process may use at a time

ASSUME OSAssumption ==
  /\ IsFiniteSet(CPU) /\ Loader \notin CPU
  /\ Device = CPU \cup {Loader}
  /\ ld_processes \in [1 .. Cardinality(Pcb) -> Pcb]
  /\ Pcb = Range(ld_processes)
  /\ start_time \in [Pcb -> 0 .. TimeMod - 1]
  /\ code_size \in [Pcb -> Nat]
  /\ time_slot \in Nat \ {0}

VARIABLES
  cpc,              \* cpc[c]: where cpu_routine of c is
  proc,             \* proc[c]: its proc, NULL once it has given it away
  time_left,        \* time_left[c]
  pc,               \* pc[p]: proc->pc
  finished,         \* processes whose pcb has been freed
  lpc,              \* where ld_routine is
  ldi,              \* its i, from 1
  done              \* the global done

cpuVars == <<cpc, proc, time_left, pc, finished>>
ldVars  == <<lpc, ldi, done>>
vars    == <<mlqVars, barrierVars, cpuVars, ldVars>>

Init ==
  /\ MLQInit
  /\ BarrierInit
  /\ cpc = [c \in CPU |-> "top"]
  /\ proc = [c \in CPU |-> NULL]
  /\ time_left = [c \in CPU |-> 0]
  /\ pc = [p \in Pcb |-> 0]
  /\ finished = {}
  /\ lpc = "next" /\ ldi = 1
  /\ done = FALSE

Goto(c, l) == cpc' = [cpc EXCEPT ![c] = l]

-----------------------------------------------------------------------------
(* cpu_routine *)

At(c, l) == cpc[c] = l /\ Working(c)

\* os.c:53-60: no process yet.  The CPU that gets none skips the slot and
\* comes back here, whatever done says.
LoadFirst(c) ==
  /\ At(c, "top") /\ proc[c] = NULL
  /\ \E p \in Pcb \cup {NULL} :
       /\ GetProc(p)
       /\ proc' = [proc EXCEPT ![c] = p]
       /\ Goto(c, IF p = NULL THEN "post" ELSE "recheck")
  /\ UNCHANGED <<barrierVars, time_left, pc, finished, ldVars>>

Completed(p) == pc[p] = code_size[p]

\* Mutant: no other process is asked for.
FreeProcOnly(c) ==
  /\ At(c, "top") /\ proc[c] # NULL /\ Completed(proc[c])
  /\ finished' = finished \cup {proc[c]}
  /\ proc' = [proc EXCEPT ![c] = NULL]
  /\ time_left' = [time_left EXCEPT ![c] = 0]
  /\ Goto(c, "recheck")
  /\ UNCHANGED <<mlqVars, barrierVars, pc, ldVars>>

\* os.c:61-65, 67: the process is over.
FreeProc(c) ==
  /\ At(c, "top") /\ proc[c] # NULL /\ Completed(proc[c])
  /\ finished' = finished \cup {proc[c]}
  /\ proc' = [proc EXCEPT ![c] = NULL]
  /\ time_left' = [time_left EXCEPT ![c] = 0]
  /\ Goto(c, "get")
  /\ UNCHANGED <<mlqVars, barrierVars, pc, ldVars>>

\* Mutant: the CPU puts the process back and goes on running it.
PutBackKeeping(c) ==
  /\ At(c, "top") /\ proc[c] # NULL /\ ~Completed(proc[c]) /\ time_left[c] = 0
  /\ PutProc(proc[c])
  /\ Goto(c, "recheck")
  /\ UNCHANGED <<barrierVars, proc, time_left, pc, finished, ldVars>>

\* os.c:68-72: its time is up.
PutBack(c) ==
  /\ At(c, "top") /\ proc[c] # NULL /\ ~Completed(proc[c]) /\ time_left[c] = 0
  /\ PutProc(proc[c])
  /\ proc' = [proc EXCEPT ![c] = NULL]
  /\ Goto(c, "get")
  /\ UNCHANGED <<barrierVars, time_left, pc, finished, ldVars>>

\* os.c:66 and :73: the next process after FreeProc or PutBack.
GetNext(c) ==
  /\ At(c, "get")
  /\ \E p \in Pcb \cup {NULL} :
       /\ GetProc(p)
       /\ proc' = [proc EXCEPT ![c] = p]
  /\ Goto(c, "recheck")
  /\ UNCHANGED <<barrierVars, time_left, pc, finished, ldVars>>

\* Mutant: no check for the end of the code.
RunStepUnchecked(p) == pc' = [pc EXCEPT ![p] = @ + 1]

\* run: one instruction, unless there is none left (cpu.c:52-56).
RunStep(p) ==
  pc' = [pc EXCEPT ![p] = IF @ >= code_size[p] THEN @ ELSE @ + 1]

\* os.c:86-94: dispatch the process if it is a new one, and run it.
RunProc(c) ==
  /\ Working(c) /\ proc[c] # NULL
  /\ \/ cpc[c] = "recheck"
     \/ cpc[c] = "top" /\ ~Completed(proc[c]) /\ time_left[c] # 0
  /\ time_left' = [time_left EXCEPT ![c] = (IF @ = 0 THEN time_slot ELSE @) - 1]
  /\ RunStep(proc[c])
  /\ Goto(c, "post")
  /\ UNCHANGED <<mlqVars, barrierVars, proc, finished, ldVars>>

\* Mutant: the CPU ends although the loader is not through.
LeavingEarly(c) ==
  /\ At(c, "recheck") /\ proc[c] = NULL
  /\ Goto(c, "detach")
  /\ UNCHANGED <<mlqVars, barrierVars, proc, time_left, pc, finished, ldVars>>

\* os.c:77-80: no process and none to come.
Leaving(c) ==
  /\ At(c, "recheck") /\ proc[c] = NULL /\ done
  /\ Goto(c, "detach")
  /\ UNCHANGED <<mlqVars, barrierVars, proc, time_left, pc, finished, ldVars>>

\* os.c:81-83: no process, some may come.
SkipSlot(c) ==
  /\ At(c, "recheck") /\ proc[c] = NULL /\ ~done
  /\ Goto(c, "post")
  /\ UNCHANGED <<mlqVars, barrierVars, proc, time_left, pc, finished, ldVars>>

\* next_slot; the CPU goes on at the top of its loop when the slot is over.
NextSlot(c) ==
  /\ At(c, "post")
  /\ Arrive(c)
  /\ Goto(c, "top")
  /\ UNCHANGED <<mlqVars, proc, time_left, pc, finished, ldVars>>

\* detach_event and the end of the thread.
Stop(c) ==
  /\ At(c, "detach")
  /\ Leave(c)
  /\ Goto(c, "stopped")
  /\ UNCHANGED <<mlqVars, proc, time_left, pc, finished, ldVars>>

CpuStep(c) ==
  \/ LoadFirst(c) \/ FreeProc(c) \/ PutBack(c) \/ GetNext(c) \/ RunProc(c)
  \/ Leaving(c) \/ SkipSlot(c) \/ NextSlot(c) \/ Stop(c)

-----------------------------------------------------------------------------
(* ld_routine *)

AtLd(l) == lpc = l /\ Working(Loader)

\* os.c:117-119: too early for the process at ldi.
LdWait ==
  /\ lpc \in {"next", "wait"} /\ Working(Loader)
  /\ ldi <= Len(ld_processes)
  /\ time < start_time[ld_processes[ldi]]
  /\ Arrive(Loader)
  /\ lpc' = "wait"
  /\ UNCHANGED <<mlqVars, cpuVars, ldi, done>>

\* os.c:120-131
LdAdd ==
  /\ lpc \in {"next", "wait"} /\ Working(Loader)
  /\ ldi <= Len(ld_processes)
  /\ time >= start_time[ld_processes[ldi]]
  /\ AddProc(ld_processes[ldi])
  /\ ldi' = ldi + 1
  /\ lpc' = "post"
  /\ UNCHANGED <<barrierVars, cpuVars, done>>

\* os.c:132
LdNextSlot ==
  /\ AtLd("post")
  /\ Arrive(Loader)
  /\ lpc' = "next"
  /\ UNCHANGED <<mlqVars, cpuVars, ldi, done>>

\* Mutant: the loader stops before its last process.
LdDoneEarly ==
  /\ AtLd("next") /\ ldi >= Len(ld_processes)
  /\ done' = TRUE
  /\ lpc' = "detach"
  /\ UNCHANGED <<mlqVars, barrierVars, cpuVars, ldi>>

\* os.c:136
LdDone ==
  /\ AtLd("next") /\ ldi > Len(ld_processes)
  /\ done' = TRUE
  /\ lpc' = "detach"
  /\ UNCHANGED <<mlqVars, barrierVars, cpuVars, ldi>>

\* os.c:137-138
LdStop ==
  /\ AtLd("detach")
  /\ Leave(Loader)
  /\ lpc' = "stopped"
  /\ UNCHANGED <<mlqVars, cpuVars, ldi, done>>

LdStep == LdWait \/ LdAdd \/ LdNextSlot \/ LdDone \/ LdStop

-----------------------------------------------------------------------------
TimerStep == Tick /\ UNCHANGED <<mlqVars, cpuVars, ldVars>>

Next ==
  \/ \E c \in CPU : CpuStep(c)
  \/ LdStep
  \/ TimerStep

\* Every thread keeps running, and the timer ticks while a device is left.
Fairness ==
  /\ \A c \in CPU : WF_vars(CpuStep(c))
  /\ WF_vars(LdStep)
  /\ WF_vars(TimerStep /\ gone # Device)

Spec == Init /\ [][Next]_vars /\ Fairness

-----------------------------------------------------------------------------
fresh == {ld_processes[k] : k \in ldi .. Len(ld_processes)}

TypeOK ==
  /\ \A c \in CPU : /\ cpc[c] \in {"top", "get", "recheck", "post", "detach", "stopped"}
                    /\ proc[c] \in Pcb \cup {NULL}
                    /\ time_left[c] \in 0 .. time_slot
                    /\ c \in gone <=> cpc[c] = "stopped"
  /\ \A p \in Pcb : pc[p] \in 0 .. code_size[p]
  /\ finished \subseteq Pcb
  /\ lpc \in {"next", "wait", "post", "detach", "stopped"}
  /\ Loader \in gone <=> lpc = "stopped"
  /\ ldi \in 1 .. Len(ld_processes) + 1
  /\ done \in BOOLEAN
  /\ arrived \cap gone = {}

S == INSTANCE Scheduler

\* The threads use the ready queue as Scheduler allows, so what holds there
\* holds here.
ImplementsScheduler == S!Init /\ [][S!Next]_(S!vars)

\* No process is stranded: a CPU ends only when the loader is through, and
\* once all have ended no process is left in the queue (os.c:77-80 reads
\* done after get_proc, without a lock).
NoneStranded ==
  /\ \A c \in CPU : cpc[c] = "stopped" => fresh = {}
  /\ (\A c \in CPU : cpc[c] = "stopped") => Queued = {} /\ S!Held = {}

SlotOver == arrived \cup gone = Device
AddedInThisSlot == SlotOver /\ lpc = "next" /\ Loader \in arrived

\* At the end of a slot no process waits beside a CPU without one, except
\* one for the process that the loader has added in that slot.
NoIdleBesideReady ==
  SlotOver /\ (\E c \in CPU : proc[c] = NULL) =>
    Cardinality(Queued) <= IF AddedInThisSlot THEN 1 ELSE 0

\* Every process whose level has room is run to its end.
ProcessesFinish ==
  \A p \in Pcb : S!LevelFits(prio[p]) => <>(p \in finished)

\* os.c:78 "No process to run, exit" and os.c:262 "Wait for CPU and loader
\* finishing": the CPUs stop, so that main's joins return.
CpusStop == <>(\A c \in CPU : cpc[c] = "stopped")
=============================================================================

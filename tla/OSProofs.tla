------------------------------- MODULE OSProofs -------------------------------
(***************************************************************************)
(* Theorems about OS for every number of CPUs and processes: its types,    *)
(* and that its threads use the ready queue as Scheduler allows, so that   *)
(* what SchedulerProofs proves holds of the threads.                       *)
(***************************************************************************)
EXTENDS OS, FiniteSetTheorems, TLAPS

Places == {"top", "get", "recheck", "post", "detach", "stopped"}

\* The inductive invariant: TypeOK, the domains it leaves out, a CPU that is
\* about to ask again has no process, and no CPU ends before the loader.
Inv ==
  /\ TypeOK
  /\ cpc \in [CPU -> Places]
  /\ proc \in [CPU -> Pcb \cup {NULL}]
  /\ time_left \in [CPU -> 0 .. time_slot]
  /\ pc \in [Pcb -> Nat]
  /\ \A c \in CPU : cpc[c] = "get" => proc[c] = NULL
  /\ lpc \in {"detach", "stopped"} <=> done
  /\ done => ldi > Len(ld_processes)
  /\ \A c \in CPU : cpc[c] \in {"detach", "stopped"} => done

-----------------------------------------------------------------------------
(* The list of processes *)

\* ld_processes lists every process once: a surjection between finite sets
\* of one size is an injection.
LEMMA ListedOnce ==
  /\ Len(ld_processes) \in Nat
  /\ DOMAIN ld_processes = 1 .. Len(ld_processes)
  /\ Pcb = {ld_processes[k] : k \in 1 .. Len(ld_processes)}
  /\ \A j, k \in 1 .. Len(ld_processes) : ld_processes[j] = ld_processes[k] => j = k
<1> DEFINE n == Cardinality(Pcb)
<1>1. n \in Nat
  BY MLQAssumption, FS_CardinalityType
<1>2. ld_processes \in [1 .. n -> Pcb] /\ Pcb = {ld_processes[k] : k \in 1 .. n}
  BY OSAssumption DEF Range
<1>3. Len(ld_processes) = n /\ ld_processes \in Seq(Pcb)
  BY <1>1, <1>2
<1>4. ld_processes \in Surjection(1 .. n, Pcb)
  BY <1>2 DEF Surjection
<1>5. IsFiniteSet(1 .. n) /\ Cardinality(1 .. n) = n
  BY <1>1, FS_Interval
<1>6. ld_processes \in Injection(1 .. n, Pcb)
  BY <1>4, <1>5, FS_SurjSameCardinalityImpliesInj
<1> QED
  BY <1>1, <1>2, <1>3, <1>6 DEF Injection, IsInjective

-----------------------------------------------------------------------------
(* The invariant *)

LEMMA InvInit == Init => Inv
<1> SUFFICES ASSUME Init PROVE Inv
  OBVIOUS
<1>1. Len(ld_processes) \in Nat /\ time_slot \in Nat /\ code_size \in [Pcb -> Nat]
  BY ListedOnce, OSAssumption
<1>2. \A c \in CPU : /\ cpc[c] = "top" /\ proc[c] = NULL /\ time_left[c] = 0
                   /\ c \notin gone
  BY DEF Init, BarrierInit
<1>3. /\ \A p \in Pcb : pc[p] \in 0 .. code_size[p]
      /\ lpc = "next" /\ Loader \notin gone /\ arrived \cap gone = {}
  BY <1>1 DEF Init, BarrierInit
<1>4. ldi \in 1 .. Len(ld_processes) + 1 /\ finished = {} /\ done = FALSE
  BY <1>1 DEF Init
<1>5. TypeOK
  <2>1. \A c \in CPU : /\ cpc[c] \in {"top", "get", "recheck", "post", "detach", "stopped"}
                      /\ proc[c] \in Pcb \cup {NULL}
                      /\ time_left[c] \in 0 .. time_slot
    BY <1>1, <1>2
  <2>2. \A c \in CPU : c \in gone <=> cpc[c] = "stopped"
    BY <1>2
  <2>3. lpc \in {"next", "wait", "post", "detach", "stopped"}
    BY <1>3
  <2>4. Loader \in gone <=> lpc = "stopped"
    BY <1>3
  <2> QED
    BY <1>3, <1>4, <2>1, <2>2, <2>3, <2>4 DEF TypeOK
<1> QED
  BY <1>1, <1>5 DEF Init, Inv, Places

\* A step of one CPU that keeps ready queue, process and loader.
LEMMA CpuStepKeepsInv ==
  ASSUME Inv, NEW c \in CPU, CpuStep(c)
  PROVE  Inv'
<1> USE DEF Inv, Places
<1>1. c # Loader /\ time_slot \in Nat \ {0} /\ code_size \in [Pcb -> Nat] /\ NULL \notin Pcb
  BY OSAssumption, MLQAssumption
<1>2. CASE LoadFirst(c)
  BY <1>2 DEF LoadFirst, At, Goto, TypeOK, barrierVars, ldVars
<1>3. CASE FreeProc(c)
  <2>1. /\ cpc' = [cpc EXCEPT ![c] = "get"] /\ proc' = [proc EXCEPT ![c] = NULL]
        /\ time_left' = [time_left EXCEPT ![c] = 0]
        /\ finished' = finished \cup {proc[c]} /\ proc[c] \in Pcb
        /\ cpc[c] = "top"
        /\ UNCHANGED <<arrived, gone, pc, lpc, ldi, done>>
    BY <1>3 DEF FreeProc, At, Goto, barrierVars, ldVars
  <2>2. TypeOK'
    BY <1>1, <2>1 DEF TypeOK
  <2> QED
    BY <1>1, <2>1, <2>2
<1>4. CASE PutBack(c)
  BY <1>4 DEF PutBack, At, Goto, TypeOK, barrierVars, ldVars
<1>5. CASE GetNext(c)
  BY <1>5 DEF GetNext, At, Goto, TypeOK, barrierVars, ldVars
<1>6. CASE RunProc(c)
  <2>1. /\ cpc' = [cpc EXCEPT ![c] = "post"] /\ proc[c] \in Pcb
        /\ cpc[c] \in {"top", "recheck"} /\ RunStep(proc[c])
        /\ time_left' = [time_left EXCEPT ![c] = (IF @ = 0 THEN time_slot ELSE @) - 1]
        /\ UNCHANGED <<proc, finished, arrived, gone, lpc, ldi, done>>
    BY <1>6 DEF RunProc, Goto, barrierVars, ldVars
  <2>2. /\ time_left' \in [CPU -> 0 .. time_slot]
        /\ cpc' \in [CPU -> Places] /\ \A d \in CPU : d # c => cpc'[d] = cpc[d]
        /\ cpc'[c] = "post"
    BY <1>1, <2>1
  <2>3. pc' \in [Pcb -> Nat] /\ \A p \in Pcb : pc'[p] \in 0 .. code_size[p]
    BY <1>1, <2>1 DEF RunStep, TypeOK
  <2>4. TypeOK'
    BY <2>1, <2>2, <2>3 DEF TypeOK
  <2> QED
    BY <2>1, <2>2, <2>3, <2>4
<1>7. ASSUME NEW l \in {"detach", "post"}, At(c, "recheck"), Goto(c, l),
             l = "detach" => done,
             UNCHANGED <<barrierVars, proc, time_left, pc, finished, ldVars>>
      PROVE  Inv'
  <2>1. /\ cpc' \in [CPU -> Places] /\ cpc'[c] = l /\ cpc[c] = "recheck"
        /\ \A d \in CPU : d # c => cpc'[d] = cpc[d]
    BY <1>7 DEF Goto, At
  <2>2. UNCHANGED <<arrived, gone, proc, time_left, pc, finished, lpc, ldi, done>>
    BY <1>7 DEF barrierVars, ldVars
  <2>3. TypeOK'
    BY <2>1, <2>2 DEF TypeOK
  <2> QED
    BY <1>7, <2>1, <2>2, <2>3
<1>8. CASE NextSlot(c)
  BY <1>8 DEF NextSlot, Arrive, Working, At, Goto, TypeOK, ldVars
<1>9. CASE Stop(c)
  BY <1>1, <1>9 DEF Stop, Leave, Working, At, Goto, TypeOK, ldVars
<1> QED
  BY <1>2, <1>3, <1>4, <1>5, <1>6, <1>7, <1>8, <1>9
  DEF CpuStep, Leaving, SkipSlot

LEMMA LdStepKeepsInv ==
  ASSUME Inv, LdStep
  PROVE  Inv'
<1> USE ListedOnce DEF Inv, TypeOK
<1>1. Loader \notin CPU
  BY OSAssumption
<1>2. CASE LdWait \/ LdNextSlot
  BY <1>1, <1>2 DEF LdWait, LdNextSlot, Arrive, Working, AtLd, cpuVars
<1>3. CASE LdAdd
  BY <1>3 DEF LdAdd, cpuVars, barrierVars
<1>4. CASE LdDone
  BY <1>4 DEF LdDone, AtLd, cpuVars, barrierVars
<1>5. CASE LdStop
  BY <1>1, <1>5 DEF LdStop, Leave, Working, AtLd, cpuVars
<1> QED
  BY <1>2, <1>3, <1>4, <1>5 DEF LdStep

THEOREM Invariant == Spec => []Inv
<1>1. Inv /\ TimerStep => Inv'
  BY DEF Inv, TypeOK, TimerStep, Tick, cpuVars, ldVars
<1>2. Inv /\ UNCHANGED vars => Inv'
  BY DEF Inv, TypeOK, vars, cpuVars, ldVars, barrierVars
<1>3. Inv /\ [Next]_vars => Inv'
  BY <1>1, <1>2, CpuStepKeepsInv, LdStepKeepsInv DEF Next
<1> QED
  BY <1>3, InvInit, PTL DEF Spec

\* The types of the threads' variables; gone has exactly the devices whose
\* threads have ended.
THEOREM TypeCorrect == Spec => []TypeOK
BY Invariant, PTL DEF Inv

-----------------------------------------------------------------------------
(* OS implements Scheduler *)

LEMMA InitMaps == Init => S!Init
<1> SUFFICES ASSUME Init PROVE S!Init
  OBVIOUS
<1>1. fresh = Pcb
  BY ListedOnce DEF Init, fresh
<1> QED
  BY <1>1 DEF Init, S!Init, S!MLQInit, MLQInit, S!FullSlots, FullSlots, S!AllSlots, AllSlots, S!Prio, Prio

\* The ready queue of Scheduler is that of OS.
LEMMA SameQueue ==
  /\ \A p : S!GetProc(p) <=> GetProc(p)
  /\ \A p : S!PutProc(p) <=> PutProc(p)
  /\ \A p : S!AddProc(p) <=> AddProc(p)
<1> USE DEF S!Prio, Prio, S!FullSlots, FullSlots, S!AllSlots, AllSlots,
            S!RefillSlots, RefillSlots, S!Dequeue, Dequeue, S!Enqueue, Enqueue,
            S!FirstServed, FirstServed, S!NoneServed, NoneServed
<1>1. \A p : S!GetInRound(p) <=> GetInRound(p)
  BY DEF S!GetInRound, GetInRound
<1>2. \A p : S!GetNextRound(p) <=> GetNextRound(p)
  BY DEF S!GetNextRound, GetNextRound
<1>3. \A p : S!GetNothing(p) <=> GetNothing(p)
  BY DEF S!GetNothing, GetNothing
<1>4. \A p : S!GetProc(p) <=> GetProc(p)
  BY <1>1, <1>2, <1>3 DEF S!GetProc, GetProc
<1>5. \A p : S!PutProc(p) <=> PutProc(p)
  BY DEF S!PutProc, PutProc
<1>6. \A p : S!AddProc(p) <=> AddProc(p)
  BY DEF S!AddProc, AddProc
<1> QED
  BY <1>4, <1>5, <1>6

LEMMA CpuStepMaps ==
  ASSUME Inv, NEW c \in CPU, CpuStep(c)
  PROVE  [S!Next]_(S!vars)
<1> USE DEF Inv
<1>1. CASE LoadFirst(c) \/ GetNext(c)
  <2>1. PICK p \in Pcb \cup {NULL} : GetProc(p) /\ proc' = [proc EXCEPT ![c] = p]
    BY <1>1 DEF LoadFirst, GetNext
  <2>2. proc[c] = NULL /\ fresh' = fresh /\ finished' = finished
    BY <1>1 DEF LoadFirst, GetNext, At, ldVars, fresh
  <2>3. S!Get(c, p)
    BY <2>1, <2>2, SameQueue DEF S!Get
  <2> QED
    BY <2>3 DEF S!Next
<1>2. CASE FreeProc(c)
  BY <1>2 DEF FreeProc, ldVars, fresh, mlqVars, S!Next, S!Finish, S!mlqVars
<1>3. CASE PutBack(c)
  BY <1>3, SameQueue DEF PutBack, ldVars, fresh, S!Next, S!Put
<1>4. CASE RunProc(c) \/ Leaving(c) \/ SkipSlot(c) \/ NextSlot(c) \/ Stop(c)
  BY <1>4 DEF RunProc, Leaving, SkipSlot, NextSlot, Stop, ldVars, fresh, mlqVars,
              S!vars, S!mlqVars
<1> QED
  BY <1>1, <1>2, <1>3, <1>4 DEF CpuStep

LEMMA LdStepMaps ==
  ASSUME Inv, LdStep
  PROVE  [S!Next]_(S!vars)
<1>1. CASE LdAdd
  <2> DEFINE p == ld_processes[ldi]
  <2>1. ldi \in 1 .. Len(ld_processes) /\ ldi' = ldi + 1
    BY <1>1, ListedOnce DEF LdAdd, Inv, TypeOK
  <2>2. p \in Pcb /\ p \in fresh /\ fresh' = fresh \ {p}
    BY <2>1, ListedOnce DEF fresh
  <2>3. S!Add(p)
    BY <1>1, <2>2, SameQueue DEF LdAdd, cpuVars, S!Add
  <2> QED
    BY <2>2, <2>3 DEF S!Next
<1>2. CASE LdWait \/ LdNextSlot \/ LdDone \/ LdStop
  BY <1>2 DEF LdWait, LdNextSlot, LdDone, LdStop, cpuVars, fresh, mlqVars,
              S!vars, S!mlqVars
<1> QED
  BY <1>1, <1>2 DEF LdStep

\* The threads call the ready queue only in the ways Scheduler allows.
THEOREM Refinement == Spec => ImplementsScheduler
<1>1. Inv /\ TimerStep => [S!Next]_(S!vars)
  BY DEF TimerStep, cpuVars, ldVars, mlqVars, fresh, S!vars, S!mlqVars
<1>2. UNCHANGED vars => UNCHANGED S!vars
  BY DEF vars, cpuVars, ldVars, mlqVars, fresh, S!vars, S!mlqVars
<1>3. Inv /\ [Next]_vars => [S!Next]_(S!vars)
  BY <1>1, <1>2, CpuStepMaps, LdStepMaps DEF Next
<1> QED
  BY <1>3, InitMaps, Invariant, PTL DEF Spec, ImplementsScheduler

-----------------------------------------------------------------------------
(* What holds of Scheduler holds of the threads *)

SP == INSTANCE SchedulerProofs

LEMMA SameAssumptions == SP!MLQAssumption /\ SP!SchedulerAssumption
<1>1. \A U : SP!IsFiniteSet(U) <=> IsFiniteSet(U)
  BY DEF SP!IsFiniteSet, IsFiniteSet
<1> QED
  BY <1>1, MLQAssumption, OSAssumption DEF SP!MLQAssumption, SP!SchedulerAssumption

\* SchedulerProofs is about the same ready queue once more.
LEMMA SameOnceMore ==
  /\ \A p : SP!GetProc(p) <=> GetProc(p)
  /\ \A p : SP!PutProc(p) <=> PutProc(p)
  /\ \A p : SP!AddProc(p) <=> AddProc(p)
<1> USE DEF SP!Prio, Prio, SP!FullSlots, FullSlots, SP!AllSlots, AllSlots,
            SP!RefillSlots, RefillSlots, SP!Dequeue, Dequeue, SP!Enqueue, Enqueue,
            SP!FirstServed, FirstServed, SP!NoneServed, NoneServed
<1>1. \A p : SP!GetInRound(p) <=> GetInRound(p)
  BY DEF SP!GetInRound, GetInRound
<1>2. \A p : SP!GetNextRound(p) <=> GetNextRound(p)
  BY DEF SP!GetNextRound, GetNextRound
<1>3. \A p : SP!GetNothing(p) <=> GetNothing(p)
  BY DEF SP!GetNothing, GetNothing
<1>4. \A p : SP!GetProc(p) <=> GetProc(p)
  BY <1>1, <1>2, <1>3 DEF SP!GetProc, GetProc
<1>5. \A p : SP!PutProc(p) <=> PutProc(p)
  BY DEF SP!PutProc, PutProc
<1>6. \A p : SP!AddProc(p) <=> AddProc(p)
  BY DEF SP!AddProc, AddProc
<1> QED
  BY <1>4, <1>5, <1>6

LEMMA SameSpec == ImplementsScheduler => SP!Spec
<1>1. S!Init => SP!Init
  BY DEF S!Init, SP!Init, S!MLQInit, SP!MLQInit, S!FullSlots, SP!FullSlots,
         S!AllSlots, SP!AllSlots, S!Prio, SP!Prio
<1>2. S!Next => SP!Next
  <2>1. \A p : S!Add(p) => SP!Add(p)
    BY SameQueue, SameOnceMore DEF S!Add, SP!Add
  <2>2. \A c, p : S!Get(c, p) => SP!Get(c, p)
    BY SameQueue, SameOnceMore DEF S!Get, SP!Get
  <2>3. \A c : S!Put(c) => SP!Put(c)
    BY SameQueue, SameOnceMore DEF S!Put, SP!Put
  <2>4. \A c : S!Finish(c) => SP!Finish(c)
    BY DEF S!Finish, SP!Finish, S!mlqVars, SP!mlqVars
  <2> QED
    BY <2>1, <2>2, <2>3, <2>4 DEF S!Next, SP!Next
<1>3. [S!Next]_(S!vars) => [SP!Next]_(SP!vars)
  BY <1>2 DEF S!vars, SP!vars, S!mlqVars, SP!mlqVars
<1> QED
  BY <1>1, <1>3, PTL DEF ImplementsScheduler, SP!Spec

\* No process is run by two CPUs of os.c at once, queued while it runs or
\* used after it was freed, and proc_count is right, whatever the threads'
\* interleaving (os.c:53-94, sched.c:65-133).
THEOREM ThreadsKeepPlaces == Spec => [](SP!TypeOK /\ SP!AtMostOnePlace /\ SP!ProcCountRight)
<1>1. SP!Spec => [](SP!AtMostOnePlace /\ SP!ProcCountRight)
  BY SameAssumptions, SP!OnePlaceCounted
<1>2. SP!Spec => []SP!TypeOK
  BY SameAssumptions, SP!TypeCorrect
<1> QED
  BY <1>1, <1>2, Refinement, SameSpec, PTL

\* Nor is a process starved or lost by the threads: every dispatch of another
\* one lowers the bound of a queued process, a CPU skips its slot only when
\* nothing is queued, and a process whose level has room stays in a place.
THEOREM ThreadsAreFair ==
  Spec => SP!BoundedOvertaking /\ SP!NullOnlyWhenEmpty /\ []SP!NoProcessLost
<1>1. SP!Spec => SP!BoundedOvertaking
  BY SameAssumptions, SP!Overtaking
<1>2. SP!Spec => SP!NullOnlyWhenEmpty
  BY SameAssumptions, SP!NullMeansEmpty
<1>3. SP!Spec => []SP!NoProcessLost
  BY SameAssumptions, SP!NothingLost
<1> QED
  BY <1>1, <1>2, <1>3, Refinement, SameSpec, PTL

-----------------------------------------------------------------------------
(* No process is stranded *)

\* The CPUs that have put their process back, or freed it, and are about to
\* ask for the next one.
Asking == {d \in CPU : cpc[d] = "get"}

\* CPU c has asked in this slot and got nothing, or it has ended.
Quiet(c) ==
  /\ proc[c] = NULL
  /\ cpc[c] \in {"recheck", "post", "detach", "stopped"} \/ c \in arrived

\* The loader has added a process in this slot.
Added == lpc = "post" \/ (lpc = "next" /\ Loader \in arrived)

\* Once a CPU has got nothing, the queue stays empty but for the process the
\* loader adds and what CPUs put back that will ask themselves.
QuietMeansEmpty ==
  (\E c \in CPU : Quiet(c)) =>
    proc_count <= Cardinality(Asking) + (IF Added THEN 1 ELSE 0)

\* The inductive invariant of NoneStranded and NoIdleBesideReady, beside Inv
\* and what holds of Scheduler: CPUs sleep at the top of their loop and end
\* without process, the loader does not sleep before its slot is over.
StrandInv ==
  /\ \A c \in CPU : c \in arrived => cpc[c] = "top"
  /\ \A c \in CPU : cpc[c] \in {"detach", "stopped"} => proc[c] = NULL
  /\ Loader \in arrived => lpc \in {"next", "wait"}
  /\ QuietMeansEmpty

QueueInv == SP!TypeOK /\ SP!AtMostOnePlace /\ SP!ProcCountRight

LEMMA CardAsking == IsFiniteSet(Asking) /\ Cardinality(Asking) \in Nat
BY OSAssumption, FS_Subset, FS_CardinalityType DEF Asking

\* One CPU more, or one less, is asking; or they stay the same.
LEMMA AskingMoves ==
  ASSUME NEW c \in CPU, NEW l, cpc \in [CPU -> Places], Goto(c, l)
  PROVE  /\ Cardinality(Asking)' \in Nat
         /\ l = "get" /\ cpc[c] # "get" => Cardinality(Asking)' = Cardinality(Asking) + 1
         /\ l # "get" /\ cpc[c] = "get" => Cardinality(Asking)' = Cardinality(Asking) - 1
         /\ l # "get" /\ cpc[c] # "get" => Cardinality(Asking)' = Cardinality(Asking)
<1>1. /\ l = "get" => Asking' = Asking \cup {c}
      /\ l # "get" => Asking' = Asking \ {c}
  BY DEF Asking, Goto
<1>2. c \in Asking <=> cpc[c] = "get"
  BY DEF Asking
<1>3. /\ IsFiniteSet(Asking \cup {c})
      /\ c \notin Asking => Cardinality(Asking \cup {c}) = Cardinality(Asking) + 1
  BY CardAsking, FS_AddElement
<1>4. /\ IsFiniteSet(Asking \ {c})
      /\ c \in Asking => Cardinality(Asking \ {c}) = Cardinality(Asking) - 1
  BY CardAsking, FS_RemoveElement
<1>5. c \notin Asking => Asking \ {c} = Asking
  OBVIOUS
<1>6. IsFiniteSet(Asking') /\ Cardinality(Asking') \in Nat
  BY <1>1, <1>3, <1>4, FS_CardinalityType
<1> QED
  BY <1>1, <1>2, <1>3, <1>4, <1>5, <1>6

\* get_proc's answer in the threads.
LEMMA Answer ==
  ASSUME QueueInv, NEW p, GetProc(p)
  PROVE  \/ p \in Pcb /\ proc_count \in Nat \ {0} /\ proc_count' = proc_count - 1
         \/ p = NULL /\ proc_count = 0 /\ proc_count' = 0
BY SameAssumptions, SameOnceMore, SP!GetCounts DEF QueueInv

LEMMA CpuStepKeepsStrand ==
  ASSUME Inv, QueueInv, StrandInv, NEW c \in CPU, CpuStep(c)
  PROVE  StrandInv'
<1>1. /\ cpc \in [CPU -> Places] /\ proc \in [CPU -> Pcb \cup {NULL}]
      /\ NULL \notin Pcb /\ c # Loader /\ proc_count \in Nat
      /\ Cardinality(Asking) \in Nat /\ Cardinality(Asking') \in Nat
  <2>1. Cardinality(Asking') \in Nat
    <3>1. Asking' \subseteq CPU
      BY DEF Asking
    <3> QED
      BY <3>1, OSAssumption, FS_Subset, FS_CardinalityType
  <2> QED
    BY <2>1, CardAsking, MLQAssumption, OSAssumption DEF Inv, QueueInv, SP!TypeOK
<1>2. CASE LoadFirst(c)
  <2>1. PICK p \in Pcb \cup {NULL} : /\ GetProc(p) /\ proc' = [proc EXCEPT ![c] = p]
                                    /\ Goto(c, IF p = NULL THEN "post" ELSE "recheck")
    BY <1>2 DEF LoadFirst
  <2>2. /\ cpc[c] = "top" /\ c \notin arrived
        /\ UNCHANGED <<arrived, lpc>>
    BY <1>2 DEF LoadFirst, At, Working, barrierVars, ldVars
  <2>3. /\ \A d \in CPU : d # c => cpc'[d] = cpc[d] /\ proc'[d] = proc[d]
        /\ cpc'[c] = IF p = NULL THEN "post" ELSE "recheck"
        /\ proc'[c] = p
    BY <1>1, <2>1 DEF Goto
  <2>4. Cardinality(Asking)' = Cardinality(Asking)
    BY <1>1, <2>1, <2>2, AskingMoves
  <2>5. QuietMeansEmpty'
    BY <1>1, <2>1, <2>2, <2>3, <2>4, Answer DEF StrandInv, QuietMeansEmpty, Quiet, Added
  <2> QED
    BY <1>1, <2>2, <2>3, <2>5 DEF StrandInv
<1>3. CASE FreeProc(c) \/ PutBack(c)
  <2>1. /\ cpc[c] = "top" /\ c \notin arrived /\ Goto(c, "get")
        /\ proc' = [proc EXCEPT ![c] = NULL]
        /\ UNCHANGED <<arrived, lpc>>
    BY <1>3 DEF FreeProc, PutBack, At, Working, barrierVars, ldVars
  <2>2. proc_count' \in {proc_count, proc_count + 1}
    BY <1>3 DEF FreeProc, PutBack, PutProc, Enqueue, mlqVars
  <2>3. /\ \A d \in CPU : d # c => cpc'[d] = cpc[d] /\ proc'[d] = proc[d]
        /\ cpc'[c] = "get" /\ proc'[c] = NULL
    BY <1>1, <2>1 DEF Goto
  <2>4. Cardinality(Asking)' = Cardinality(Asking) + 1
    BY <1>1, <2>1, AskingMoves
  <2>5. QuietMeansEmpty'
    BY <1>1, <2>1, <2>2, <2>3, <2>4 DEF StrandInv, QuietMeansEmpty, Quiet, Added
  <2> QED
    BY <2>1, <2>3, <2>5 DEF StrandInv
<1>4. CASE GetNext(c)
  <2>1. PICK p \in Pcb \cup {NULL} : GetProc(p) /\ proc' = [proc EXCEPT ![c] = p]
    BY <1>4 DEF GetNext
  <2>2. /\ cpc[c] = "get" /\ c \notin arrived /\ Goto(c, "recheck")
        /\ UNCHANGED <<arrived, lpc>>
    BY <1>4 DEF GetNext, At, Working, barrierVars, ldVars
  <2>3. /\ \A d \in CPU : d # c => cpc'[d] = cpc[d] /\ proc'[d] = proc[d]
        /\ cpc'[c] = "recheck" /\ proc'[c] = p
    BY <1>1, <2>1, <2>2 DEF Goto
  <2>4. Cardinality(Asking)' = Cardinality(Asking) - 1
    BY <1>1, <2>2, AskingMoves
  <2>5. QuietMeansEmpty'
    BY <1>1, <2>1, <2>2, <2>3, <2>4, Answer DEF StrandInv, QuietMeansEmpty, Quiet, Added
  <2> QED
    BY <2>2, <2>3, <2>5 DEF StrandInv
<1>5. CASE RunProc(c) \/ Leaving(c) \/ SkipSlot(c) \/ Stop(c)
  <2>1. /\ cpc[c] \in {"top", "recheck", "detach"} /\ c \notin arrived
        /\ UNCHANGED <<arrived, lpc, proc, proc_count>>
    BY <1>5 DEF RunProc, Leaving, SkipSlot, Stop, Leave, At, Working, barrierVars, ldVars, mlqVars
  <2>2. PICK l : /\ Goto(c, l) /\ l \in {"post", "detach", "stopped"}
                 /\ Quiet(c) \/ proc[c] # NULL
                 /\ l # "post" => proc[c] = NULL
    BY <1>5 DEF RunProc, Leaving, SkipSlot, Stop, At, Quiet, StrandInv
  <2>3. /\ \A d \in CPU : d # c => cpc'[d] = cpc[d]
        /\ cpc'[c] = l
    BY <1>1, <2>2 DEF Goto
  <2>4. Cardinality(Asking)' = Cardinality(Asking)
    BY <1>1, <2>1, <2>2, AskingMoves
  <2>5. QuietMeansEmpty'
    BY <1>1, <2>1, <2>2, <2>3, <2>4 DEF StrandInv, QuietMeansEmpty, Quiet, Added
  <2> QED
    BY <2>1, <2>2, <2>3, <2>5 DEF StrandInv
<1>6. CASE NextSlot(c)
  <2>1. /\ cpc[c] = "post" /\ arrived' = arrived \cup {c} /\ Goto(c, "top")
        /\ UNCHANGED <<lpc, proc, proc_count>>
    BY <1>6 DEF NextSlot, Arrive, At, ldVars, mlqVars
  <2>2. /\ \A d \in CPU : d # c => cpc'[d] = cpc[d]
        /\ cpc'[c] = "top"
    BY <1>1, <2>1 DEF Goto
  <2>3. Cardinality(Asking)' = Cardinality(Asking)
    BY <1>1, <2>1, AskingMoves
  <2>4. QuietMeansEmpty'
    BY <1>1, <2>1, <2>2, <2>3 DEF StrandInv, QuietMeansEmpty, Quiet, Added
  <2> QED
    BY <1>1, <2>1, <2>2, <2>4 DEF StrandInv
<1> QED
  BY <1>2, <1>3, <1>4, <1>5, <1>6 DEF CpuStep

LEMMA LdStepKeepsStrand ==
  ASSUME Inv, QueueInv, StrandInv, LdStep
  PROVE  StrandInv'
<1>1. /\ Loader \notin CPU /\ UNCHANGED <<cpc, proc>>
      /\ arrived' \in {arrived, arrived \cup {Loader}}
      /\ UNCHANGED Asking
      /\ Loader \in arrived' => lpc' \in {"next", "wait"}
      /\ proc_count \in Nat /\ Cardinality(Asking) \in Nat
  BY OSAssumption, CardAsking
  DEF LdStep, LdWait, LdAdd, LdNextSlot, LdDone, LdStop, Arrive, Leave, cpuVars,
      barrierVars, Asking, StrandInv, Working, AtLd, QueueInv, SP!TypeOK
<1>2. \A c \in CPU : Quiet(c)' <=> Quiet(c)
  BY <1>1 DEF Quiet
<1>3. CASE LdAdd
  <2>1. proc_count' \in {proc_count, proc_count + 1} /\ ~Added /\ Added'
    BY <1>3 DEF LdAdd, AddProc, Enqueue, mlqVars, Added, Working
  <2> QED
    BY <1>1, <1>2, <2>1 DEF StrandInv, QuietMeansEmpty
<1>4. CASE LdWait \/ LdNextSlot \/ LdDone \/ LdStop
  <2>1. UNCHANGED proc_count
    BY <1>4 DEF LdWait, LdNextSlot, LdDone, LdStop, mlqVars
  <2>2. Added <=> Added'
    BY <1>4 DEF Added, LdWait, LdNextSlot, LdDone, LdStop, Arrive, Leave, AtLd, Working,
                barrierVars
  <2> QED
    BY <1>1, <1>2, <2>1, <2>2 DEF StrandInv, QuietMeansEmpty
<1> QED
  BY <1>3, <1>4 DEF LdStep

\* At a tick only the CPUs that have ended stay quiet, and then the loader
\* has added nothing in the slot.
LEMMA TickKeepsStrand ==
  ASSUME Inv, StrandInv, TimerStep
  PROVE  StrandInv'
<1>1. /\ arrived \cup gone = Device /\ arrived' = {} /\ CPU \subseteq Device
      /\ UNCHANGED <<cpc, proc, lpc, proc_count, Asking>>
  BY OSAssumption DEF TimerStep, Tick, mlqVars, cpuVars, ldVars, Asking
<1>2. \A c \in CPU : cpc[c] \in {"top", "stopped"}
  BY <1>1 DEF Inv, TypeOK, StrandInv
<1>3. ASSUME NEW c \in CPU, Quiet(c)' PROVE Quiet(c) /\ ~Added /\ ~Added'
  BY <1>1, <1>2, <1>3 DEF Quiet, Added, Inv
<1> QED
  BY <1>1, <1>3 DEF StrandInv, QuietMeansEmpty

LEMMA NextKeepsStrand == Inv /\ QueueInv /\ StrandInv /\ [Next]_vars => StrandInv'
<1>1. StrandInv /\ UNCHANGED vars => StrandInv'
  BY DEF StrandInv, QuietMeansEmpty, Quiet, Added, Asking, vars, mlqVars, barrierVars,
         cpuVars, ldVars
<1> QED
  BY <1>1, CpuStepKeepsStrand, LdStepKeepsStrand, TickKeepsStrand DEF Next

LEMMA Strands == Spec => [](Inv /\ QueueInv /\ StrandInv)
<1>1. Init => StrandInv
  BY DEF Init, BarrierInit, StrandInv, QuietMeansEmpty, Quiet
<1>2. Spec => []QueueInv
  BY ThreadsKeepPlaces, PTL DEF QueueInv
<1> QED
  BY <1>1, <1>2, NextKeepsStrand, Invariant, PTL DEF Spec

\* SchedulerProofs counts as OS does.
LEMMA SameQueued == Queued = SP!Queued /\ Cardinality(Queued) = SP!Cardinality(SP!Queued)
<1>1. Queued = SP!Queued
  BY DEF SP!Queued, Queued, SP!Prio, Prio, Range, SP!Range
<1>2. \A U : Cardinality(U) = SP!Cardinality(U)
  BY DEF Cardinality, SP!Cardinality
<1> QED
  BY <1>1, <1>2

\* No CPU ends before the loader is through, and if there is a CPU, none of
\* the processes is left in the queue or with a CPU once all have ended.
THEOREM Stranded ==
  ASSUME CPU # {}
  PROVE  Spec => []NoneStranded
<1>1. Inv /\ QueueInv /\ StrandInv => NoneStranded
  <2> SUFFICES ASSUME Inv, QueueInv, StrandInv PROVE NoneStranded
    OBVIOUS
  <2>1. \A c \in CPU : cpc[c] = "stopped" => fresh = {}
    BY ListedOnce DEF Inv, TypeOK, fresh
  <2>2. ASSUME \A c \in CPU : cpc[c] = "stopped"
        PROVE  Queued = {} /\ S!Held = {}
    <3>1. S!Held = {}
      BY <2>2 DEF StrandInv, S!Held
    <3>2. Asking = {} /\ ~Added /\ \E c \in CPU : Quiet(c)
      BY <2>2 DEF Asking, Added, Quiet, Inv, StrandInv
    <3>3. proc_count = 0
      BY <3>2, FS_EmptySet DEF StrandInv, QuietMeansEmpty, QueueInv, SP!TypeOK
    <3>4. SP!Queued = {}
      BY <3>3, SameAssumptions, SP!QueuedFinite, SP!FS_EmptySet DEF QueueInv, SP!ProcCountRight
    <3> QED
      BY <3>1, <3>4, SameQueued
  <2> QED
    BY <2>1, <2>2 DEF NoneStranded
<1> QED
  BY <1>1, Strands, PTL

\* At the end of a slot no process waits beside a CPU without one, but for
\* the one process the loader may have added in that slot after the CPU had
\* asked (os.c:53-60, 66, 73, 120-132).
THEOREM NoIdle == Spec => []NoIdleBesideReady
<1>1. Inv /\ QueueInv /\ StrandInv => NoIdleBesideReady
  <2> SUFFICES ASSUME Inv, QueueInv, StrandInv, SlotOver,
                      NEW c \in CPU, proc[c] = NULL
               PROVE  Cardinality(Queued) <= IF AddedInThisSlot THEN 1 ELSE 0
    BY DEF NoIdleBesideReady
  <2>1. \A d \in CPU \cup {Loader} : d \in arrived \/ d \in gone
    BY OSAssumption DEF SlotOver
  <2>2. \A d \in CPU : d \in arrived \/ cpc[d] = "stopped"
    BY <2>1 DEF Inv, TypeOK
  <2>3. Quiet(c) /\ Asking = {}
    BY <2>2 DEF Quiet, Asking, StrandInv
  <2>4. Added => AddedInThisSlot
    BY <2>1 DEF Added, AddedInThisSlot, SlotOver, StrandInv, Inv, TypeOK
  <2>5. proc_count <= IF Added THEN 1 ELSE 0
    BY <2>3, FS_EmptySet DEF StrandInv, QuietMeansEmpty, QueueInv, SP!TypeOK
  <2>6. proc_count = Cardinality(Queued) /\ proc_count \in Nat
    BY SameQueued DEF QueueInv, SP!ProcCountRight, SP!TypeOK
  <2> QED
    BY <2>4, <2>5, <2>6
<1> QED
  BY <1>1, Strands, PTL
=============================================================================

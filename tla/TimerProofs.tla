---------------------------- MODULE TimerProofs ----------------------------
(***************************************************************************)
(* Proofs about Timer, for every number of devices and every width of      *)
(* _time: the inductive invariant Inv, the safety properties that follow   *)
(* from it, and that each step of the timer and its devices is a step of   *)
(* the barrier or changes nothing the barrier sees.                        *)
(***************************************************************************)
EXTENDS Timer, TLAPS

\* The flags of a device tell where it is: fsh that it has left, done that
\* it is inside next_slot and has not been released.
FlagsRight ==
  \A d \in Device :
    /\ fsh[d] <=> dpc[d] = "detached"
    /\ done[d] => dpc[d] \in {"posted", "asleep"}
    /\ dpc[d] = "asleep" => done[d]

\* The devices the loop has gone past need no waiting for, and its local fsh
\* counts finished ones only.
CollectRight ==
  tpc \in {"collect", "asleep"} =>
    /\ \A d \in Device : d < cur => done[d] \/ fsh[d]
    /\ nfsh < cur
    /\ nfsh = cur - 1 => \A d \in Device : d < cur => fsh[d]

\* From the last collected device to its release each device is still waiting
\* or has left, and the count has kept its meaning.
ReleaseRight ==
  /\ tpc = "tick" => \A d \in Device : done[d] \/ fsh[d]
  /\ tpc = "release" => \A d \in Device : cur <= d => done[d] \/ fsh[d]
  /\ tpc \in {"tick", "release"} /\ nfsh = N => \A d \in Device : fsh[d]

\* Nothing tells the timer to end before all devices have left.
StopRight ==
  timer_stop \/ tpc = "exited" => \A d \in Device : fsh[d]

\* The timer sleeps only on a device that has yet to post or leave.
SleepRight == tpc = "asleep" => ~done[cur] /\ ~fsh[cur]

Inv ==
  /\ TypeOK /\ FlagsRight /\ CollectRight /\ ReleaseRight /\ StopRight
  /\ SleepRight

\* The invariant holds when start_timer has created the thread.
LEMMA InitInv == Init => Inv
<1> SUFFICES ASSUME Init PROVE Inv
  OBVIOUS
<1>1. TypeOK
  <2>1. 1 \in Device /\ 0 \in 0 .. N /\ 0 \in 0 .. TimeMod - 1
    BY TimerAssumption DEF Device
  <2>2. done \in [Device -> BOOLEAN] /\ fsh \in [Device -> BOOLEAN]
    BY Zenon DEF Init
  <2> QED
    BY <2>1, <2>2 DEF Init, TypeOK
<1>2. FlagsRight
  BY DEF Init, FlagsRight
<1> QED
  BY <1>1, <1>2
  DEF Init, Inv, CollectRight, ReleaseRight, StopRight, SleepRight

-----------------------------------------------------------------------------
\* next_slot, first section, keeps the invariant.
LEMMA PostInv ==
  ASSUME Inv, NEW d \in Device, Post(d)
  PROVE  Inv'
<1>1. TypeOK'
  BY TimerAssumption DEF Inv, TypeOK, Post, SignalTimer
<1>2. FlagsRight'
  BY DEF Inv, TypeOK, FlagsRight, Post
<1>3. CollectRight'
  BY DEF Inv, TypeOK, CollectRight, Post, SignalTimer
<1>4. ReleaseRight'
  BY DEF Inv, TypeOK, ReleaseRight, Post, SignalTimer
<1>5. StopRight'
  BY DEF Inv, TypeOK, StopRight, Post, SignalTimer
<1>6. SleepRight'
  BY DEF Inv, TypeOK, SleepRight, Post, SignalTimer
<1> QED
  BY <1>1, <1>2, <1>3, <1>4, <1>5, <1>6 DEF Inv

\* detach_event keeps the invariant.
LEMMA DetachInv ==
  ASSUME Inv, NEW d \in Device, Detach(d)
  PROVE  Inv'
<1>1. TypeOK'
  BY TimerAssumption DEF Inv, TypeOK, Detach, SignalTimer
<1>2. FlagsRight'
  BY DEF Inv, TypeOK, FlagsRight, Detach
<1>3. CollectRight'
  BY DEF Inv, TypeOK, CollectRight, Detach, SignalTimer
<1>4. ReleaseRight'
  BY DEF Inv, TypeOK, ReleaseRight, Detach, SignalTimer
<1>5. StopRight'
  BY DEF Inv, TypeOK, StopRight, Detach, SignalTimer
<1>6. SleepRight'
  BY DEF Inv, TypeOK, SleepRight, Detach, SignalTimer
<1> QED
  BY <1>1, <1>2, <1>3, <1>4, <1>5, <1>6 DEF Inv

\* So do the wait of a device, and its waking without a signal.
LEMMA WaitInv ==
  ASSUME Inv, NEW d \in Device, Wait(d) \/ WakeSpuriously(d)
  PROVE  Inv'
<1>1. UNCHANGED <<done, fsh, time, timer_stop, tpc, cur, nfsh>>
  BY DEF Wait, WakeSpuriously
<1>2. TypeOK' /\ FlagsRight'
  <2>1. CASE Wait(d)
    BY <2>1, <1>1 DEF Inv, TypeOK, FlagsRight, Wait
  <2>2. CASE WakeSpuriously(d)
    BY <2>2, <1>1 DEF Inv, TypeOK, FlagsRight, WakeSpuriously
  <2> QED
    BY <2>1, <2>2
<1> QED
  BY <1>1, <1>2 DEF Inv, CollectRight, ReleaseRight, StopRight, SleepRight

\* A release clears done of one device and wakes it.
LEMMA ReleaseInv ==
  ASSUME Inv, Release
  PROVE  Inv'
<1>1. TypeOK'
  BY TimerAssumption DEF Inv, TypeOK, Release, Device
<1>2. FlagsRight'
  BY DEF Inv, TypeOK, FlagsRight, Release
<1>3. CollectRight' /\ SleepRight'
  BY DEF Inv, TypeOK, CollectRight, SleepRight, Release
<1>4. ReleaseRight'
  BY DEF Inv, TypeOK, ReleaseRight, Release, Device
<1>5. StopRight'
  BY DEF Inv, TypeOK, StopRight, ReleaseRight, Release
<1> QED
  BY <1>1, <1>2, <1>3, <1>4, <1>5 DEF Inv

\* Collecting a device keeps the count right.
LEMMA CollectInv ==
  ASSUME Inv, Collect
  PROVE  Inv'
<1> USE TimerAssumption
<1>1. TypeOK'
  BY DEF Inv, TypeOK, CollectRight, Collect, Device
<1>2. FlagsRight' /\ StopRight' /\ SleepRight'
  BY DEF Inv, TypeOK, FlagsRight, StopRight, SleepRight, Collect
<1>3. CollectRight'
  BY DEF Inv, TypeOK, CollectRight, Collect, Device
<1>4. ReleaseRight'
  BY DEF Inv, TypeOK, CollectRight, ReleaseRight, Collect, Device
<1> QED
  BY <1>1, <1>2, <1>3, <1>4 DEF Inv

\* The other steps: the start of a round, the wait of the timer, the tick, a
\* wakeup without a signal, and stop_timer.
LEMMA OtherInv ==
  ASSUME Inv,
         StartRound \/ AwaitDevice \/ TimerTick \/ TimerWakeSpuriously \/ StopTimer
  PROVE  Inv'
<1> USE TimerAssumption
    DEF Inv, TypeOK, FlagsRight, CollectRight, ReleaseRight, StopRight,
        SleepRight, Device
<1>1. CASE StartRound
  BY <1>1 DEF StartRound
<1>2. CASE AwaitDevice
  BY <1>2 DEF AwaitDevice
<1>3. CASE TimerTick
  BY <1>3 DEF TimerTick
<1>4. CASE TimerWakeSpuriously
  BY <1>4 DEF TimerWakeSpuriously
<1>5. CASE StopTimer
  BY <1>5 DEF StopTimer
<1> QED
  BY <1>1, <1>2, <1>3, <1>4, <1>5

\* Inv holds in every reachable state.
THEOREM Invariant == Spec => []Inv
<1>1. Inv /\ [Next]_vars => Inv'
  <2> SUFFICES ASSUME Inv, [Next]_vars PROVE Inv'
    OBVIOUS
  <2>1. CASE Next
    BY <2>1, PostInv, DetachInv, WaitInv, ReleaseInv, CollectInv, OtherInv
    DEF Next, TimerStep
  <2>2. CASE UNCHANGED vars
    BY <2>2
    DEF vars, Inv, TypeOK, FlagsRight, CollectRight, ReleaseRight, StopRight,
        SleepRight
  <2> QED
    BY <2>1, <2>2
<1> QED
  BY <1>1, InitInv, PTL DEF Spec

-----------------------------------------------------------------------------
\* The timer's state keeps its type; in particular its local count of
\* finished devices never exceeds the number of devices.
THEOREM TypeCorrect == Spec => []TypeOK
  BY Invariant, PTL DEF Inv

\* No wakeup is lost, although a device posts under one lock and is released
\* under the other.
THEOREM WakeupsKept == Spec => []NoLostWakeup
<1>1. Inv => NoLostWakeup
  BY DEF Inv, FlagsRight, SleepRight, NoLostWakeup
<1> QED
  BY <1>1, Invariant, PTL

\* The timer thread ends after the last device has detached.
THEOREM LastToExit == Spec => []ExitedLast
<1>1. Inv => ExitedLast
  BY DEF Inv, FlagsRight, StopRight, ExitedLast
<1> QED
  BY <1>1, Invariant, PTL

\* _time changes only while every device is inside next_slot or has left.
THEOREM TicksAlone == Spec => TickAlone
<1>1. Inv /\ [Next]_vars => [time' # time => \A d \in Device : dpc[d] # "working"]_vars
  <2> SUFFICES ASSUME Inv, [Next]_vars, time' # time, NEW d \in Device
               PROVE  dpc[d] # "working"
    OBVIOUS
  <2>1. TimerTick
    BY DEF Next, vars, TimerStep, StartRound, AwaitDevice, Collect, Release,
           TimerWakeSpuriously, StopTimer, Post, Wait, WakeSpuriously, Detach
  <2>2. done[d] \/ fsh[d]
    BY <2>1 DEF Inv, ReleaseRight, TimerTick
  <2> QED
    BY <2>2 DEF Inv, FlagsRight
<1> QED
  BY <1>1, Invariant, PTL DEF Spec, TickAlone

-----------------------------------------------------------------------------
(* Lockstep: the timer implements the barrier *)

\* The devices inside next_slot as the barrier sees them.
Arrived == {d \in Device : done[d] /\ ~(tpc = "release" /\ cur <= d)}
Gone == {d \in Device : fsh[d]}

\* A device that posts arrives at the barrier.
LEMMA PostArrives ==
  ASSUME Inv, NEW d \in Device, Post(d)
  PROVE  B!Arrive(d)
<1>1. d \notin Arrived \cup Gone
  BY DEF Inv, FlagsRight, Post, Arrived, Gone
<1>2. ~(tpc = "release" /\ cur <= d)
  BY <1>1 DEF Inv, TypeOK, FlagsRight, ReleaseRight, Post
<1>3. tpc' = "release" <=> tpc = "release"
  BY DEF Post, SignalTimer
<1>4. Arrived' = Arrived \cup {d}
  BY <1>2, <1>3 DEF Inv, TypeOK, Post, Arrived
<1>5. Gone' = Gone /\ time' = time
  BY DEF Post, Gone
<1> QED
  BY <1>1, <1>4, <1>5 DEF B!Arrive, B!Working, Arrived, Gone

\* A device that detaches leaves the barrier.
LEMMA DetachLeaves ==
  ASSUME Inv, NEW d \in Device, Detach(d)
  PROVE  B!Leave(d)
<1>1. d \notin Arrived \cup Gone
  BY DEF Inv, FlagsRight, Detach, Arrived, Gone
<1>2. tpc' = "release" <=> tpc = "release"
  BY DEF Detach, SignalTimer
<1>3. Gone' = Gone \cup {d}
  BY DEF Inv, TypeOK, Detach, Gone
<1>4. Arrived' = Arrived /\ time' = time
  BY <1>2 DEF Detach, Arrived
<1> QED
  BY <1>1, <1>3, <1>4 DEF B!Leave, B!Working, Arrived, Gone

\* The tick of the timer is the tick of the barrier.
LEMMA TickTicks ==
  ASSUME Inv, TimerTick
  PROVE  B!Tick
<1>1. Arrived \cup Gone = Device
  BY DEF Inv, ReleaseRight, TimerTick, Arrived, Gone
<1>2. Arrived' = {} /\ Gone' = Gone
  BY DEF TimerTick, Arrived, Gone, Device
<1>3. time' = (time + 1) % TimeMod
  BY DEF TimerTick
<1> QED
  BY <1>1, <1>2, <1>3 DEF B!Tick, Arrived, Gone

\* Releasing a device is not seen: it has gone on when the time ticked.
LEMMA ReleaseUnseen ==
  ASSUME Inv, Release
  PROVE  UNCHANGED B!barrierVars
<1>1. Arrived' = Arrived
  BY TimerAssumption DEF Inv, TypeOK, Release, Arrived, Device
<1>2. Gone' = Gone /\ time' = time
  BY DEF Release, Gone
<1> QED
  BY <1>1, <1>2 DEF B!barrierVars, Arrived, Gone

\* Neither are the steps that leave done and fsh alone.
LEMMA OthersUnseen ==
  ASSUME UNCHANGED <<done, fsh, time>>,
         UNCHANGED cur \/ tpc # "release",
         tpc' = "release" <=> tpc = "release"
  PROVE  UNCHANGED B!barrierVars
<1>1. Arrived' = Arrived
  BY DEF Arrived
<1>2. Gone' = Gone /\ time' = time
  BY DEF Gone
<1> QED
  BY <1>1, <1>2 DEF B!barrierVars, Arrived, Gone

\* The devices go through the slots in lockstep: every behaviour of the timer
\* and its devices is, read through the mapping of B, a behaviour of Barrier
\* (without its fairness, which the run checks).
THEOREM Lockstep == Spec => B!BarrierInit /\ [][B!BarrierNext]_(B!barrierVars)
<1>1. Init => B!BarrierInit
  BY DEF Init, B!BarrierInit
<1>2. Inv /\ [Next]_vars => [B!BarrierNext]_(B!barrierVars)
  <2> SUFFICES ASSUME Inv, [Next]_vars
               PROVE  B!BarrierNext \/ UNCHANGED B!barrierVars
    OBVIOUS
  <2>1. ASSUME NEW d \in Device, Post(d) PROVE B!BarrierNext
    BY <2>1, PostArrives DEF B!BarrierNext
  <2>2. ASSUME NEW d \in Device, Detach(d) PROVE B!BarrierNext
    BY <2>2, DetachLeaves DEF B!BarrierNext
  <2>3. ASSUME TimerTick PROVE B!BarrierNext
    BY <2>3, TickTicks DEF B!BarrierNext
  <2>4. ASSUME Release PROVE UNCHANGED B!barrierVars
    BY <2>4, ReleaseUnseen
  <2>5. ASSUME NEW d \in Device, Wait(d) \/ WakeSpuriously(d)
        PROVE  UNCHANGED B!barrierVars
    BY <2>5, OthersUnseen DEF Wait, WakeSpuriously
  <2>6. ASSUME StartRound \/ AwaitDevice \/ TimerWakeSpuriously \/ StopTimer
        PROVE  UNCHANGED B!barrierVars
    BY <2>6, OthersUnseen
    DEF StartRound, AwaitDevice, TimerWakeSpuriously, StopTimer
  <2>7. ASSUME Collect PROVE UNCHANGED B!barrierVars
    BY <2>7, OthersUnseen DEF Collect
  <2>8. ASSUME UNCHANGED vars PROVE UNCHANGED B!barrierVars
    BY <2>8, OthersUnseen DEF vars
  <2> QED
    BY <2>1, <2>2, <2>3, <2>4, <2>5, <2>6, <2>7, <2>8 DEF Next, TimerStep
<1> QED
  BY <1>1, <1>2, Invariant, PTL DEF Spec
=============================================================================

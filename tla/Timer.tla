------------------------------- MODULE Timer -------------------------------
(***************************************************************************)
(* src/timer.c: timer_routine and the devices that call next_slot and      *)
(* detach_event.  Each section under event_lock or timer_lock is one       *)
(* action; waiting on a condition variable releases the lock and ends the  *)
(* section, and may end without a signal.  Device d is the d-th of         *)
(* dev_list.  main has attached all devices before start_timer.            *)
(***************************************************************************)
EXTENDS Integers

CONSTANTS
  N,                \* number of attached devices: the CPUs and the loader
  TimeMod           \* _time is a uint64_t: it counts modulo 2^64

ASSUME TimerAssumption == N \in Nat \ {0} /\ TimeMod \in Nat \ {0}

Device == 1 .. N

VARIABLES
  done,             \* done[d]: id.done
  fsh,              \* fsh[d]: id.fsh
  dpc,              \* dpc[d]: where device d is
  time,             \* _time
  timer_stop,
  tpc,              \* where timer_routine is
  cur,              \* temp, the device its loop is at
  nfsh              \* its local fsh

vars == <<done, fsh, dpc, time, timer_stop, tpc, cur, nfsh>>

Init ==
  /\ done = [d \in Device |-> FALSE]
  /\ fsh = [d \in Device |-> FALSE]
  /\ dpc = [d \in Device |-> "working"]
  /\ time = 0
  /\ timer_stop = FALSE
  /\ tpc = "top"
  /\ cur = 1
  /\ nfsh = 0

-----------------------------------------------------------------------------
\* pthread_cond_signal(event_cond of d) wakes the timer if it sleeps there.
SignalTimer(d) ==
  tpc' = IF tpc = "asleep" /\ cur = d THEN "collect" ELSE tpc

\* Mutant: a device that goes to the next slot does not wake the timer.
PostQuietly(d) ==
  /\ dpc[d] = "working"
  /\ done' = [done EXCEPT ![d] = TRUE]
  /\ dpc' = [dpc EXCEPT ![d] = "posted"]
  /\ UNCHANGED <<fsh, time, timer_stop, tpc, cur, nfsh>>

\* next_slot, first section: the device has done its job in this slot.
Post(d) ==
  /\ dpc[d] = "working"
  /\ done' = [done EXCEPT ![d] = TRUE]
  /\ dpc' = [dpc EXCEPT ![d] = "posted"]
  /\ SignalTimer(d)
  /\ UNCHANGED <<fsh, time, timer_stop, cur, nfsh>>

\* Mutant: the device sleeps before it looks at done.
SleepBlindly(d) ==
  /\ dpc[d] = "posted"
  /\ dpc' = [dpc EXCEPT ![d] = "asleep"]
  /\ UNCHANGED <<done, fsh, time, timer_stop, tpc, cur, nfsh>>

\* next_slot, second section up to the wait: sleep while done is set.
Wait(d) ==
  /\ dpc[d] = "posted"
  /\ dpc' = [dpc EXCEPT ![d] = IF done[d] THEN "asleep" ELSE "working"]
  /\ UNCHANGED <<done, fsh, time, timer_stop, tpc, cur, nfsh>>

\* The device's pthread_cond_wait returns without a signal.
WakeSpuriously(d) ==
  /\ dpc[d] = "asleep"
  /\ dpc' = [dpc EXCEPT ![d] = "posted"]
  /\ UNCHANGED <<done, fsh, time, timer_stop, tpc, cur, nfsh>>

\* Mutant: detach_event does not wake the timer.
DetachQuietly(d) ==
  /\ dpc[d] = "working"
  /\ fsh' = [fsh EXCEPT ![d] = TRUE]
  /\ dpc' = [dpc EXCEPT ![d] = "detached"]
  /\ UNCHANGED <<done, time, timer_stop, tpc, cur, nfsh>>

\* detach_event
Detach(d) ==
  /\ dpc[d] = "working"
  /\ fsh' = [fsh EXCEPT ![d] = TRUE]
  /\ dpc' = [dpc EXCEPT ![d] = "detached"]
  /\ SignalTimer(d)
  /\ UNCHANGED <<done, time, timer_stop, cur, nfsh>>

\* stop_timer up to the join: main calls it after it has joined every CPU
\* and the loader.
StopTimer ==
  /\ \A d \in Device : dpc[d] = "detached"
  /\ ~timer_stop
  /\ timer_stop' = TRUE
  /\ UNCHANGED <<done, fsh, dpc, time, tpc, cur, nfsh>>

-----------------------------------------------------------------------------
\* Mutant: the count of finished devices is kept from round to round.
StartRoundCounting ==
  /\ tpc = "top"
  /\ IF timer_stop
     THEN tpc' = "exited" /\ UNCHANGED cur
     ELSE tpc' = "collect" /\ cur' = 1
  /\ UNCHANGED <<done, fsh, dpc, time, timer_stop, nfsh>>

\* timer_routine: the condition of the outer loop, and a new round.
StartRound ==
  /\ tpc = "top"
  /\ IF timer_stop
     THEN tpc' = "exited" /\ UNCHANGED <<cur, nfsh>>
     ELSE tpc' = "collect" /\ cur' = 1 /\ nfsh' = 0
  /\ UNCHANGED <<done, fsh, dpc, time, timer_stop>>

\* The device at cur is neither done nor finished: sleep on its event_cond.
AwaitDevice ==
  /\ tpc = "collect"
  /\ ~done[cur] /\ ~fsh[cur]
  /\ tpc' = "asleep"
  /\ UNCHANGED <<done, fsh, dpc, time, timer_stop, cur, nfsh>>

\* Mutants: a device that is still working is not waited for; a finished
\* device is counted whenever one device is done.
CollectAll ==
  /\ tpc = "collect"
  /\ nfsh' = nfsh + (IF fsh[cur] THEN 1 ELSE 0)
  /\ IF cur < N THEN cur' = cur + 1 /\ UNCHANGED tpc
                ELSE tpc' = "tick" /\ UNCHANGED cur
  /\ UNCHANGED <<done, fsh, dpc, time, timer_stop>>

CollectCountingDone ==
  /\ tpc = "collect"
  /\ done[cur] \/ fsh[cur]
  /\ nfsh' = nfsh + 1
  /\ IF cur < N THEN cur' = cur + 1 /\ UNCHANGED tpc
                ELSE tpc' = "tick" /\ UNCHANGED cur
  /\ UNCHANGED <<done, fsh, dpc, time, timer_stop>>

\* The device at cur needs no more waiting for; on to the next one.
Collect ==
  /\ tpc = "collect"
  /\ done[cur] \/ fsh[cur]
  /\ nfsh' = nfsh + (IF fsh[cur] THEN 1 ELSE 0)
  /\ IF cur < N THEN cur' = cur + 1 /\ UNCHANGED tpc
                ELSE tpc' = "tick" /\ UNCHANGED cur
  /\ UNCHANGED <<done, fsh, dpc, time, timer_stop>>

\* The timer's pthread_cond_wait returns without a signal.
TimerWakeSpuriously ==
  /\ tpc = "asleep"
  /\ tpc' = "collect"
  /\ UNCHANGED <<done, fsh, dpc, time, timer_stop, cur, nfsh>>

\* _time++
TimerTick ==
  /\ tpc = "tick"
  /\ time' = (time + 1) % TimeMod
  /\ tpc' = "release" /\ cur' = 1
  /\ UNCHANGED <<done, fsh, dpc, timer_stop, nfsh>>

\* The device at cur may continue; after the last one the round is over,
\* and so is the timer when this round found all devices finished.
Release ==
  /\ tpc = "release"
  /\ done' = [done EXCEPT ![cur] = FALSE]
  /\ dpc' = [dpc EXCEPT ![cur] = IF @ = "asleep" THEN "posted" ELSE @]
  /\ IF cur < N THEN cur' = cur + 1 /\ UNCHANGED tpc
                ELSE tpc' = (IF nfsh = N THEN "exited" ELSE "top") /\ UNCHANGED cur
  /\ UNCHANGED <<fsh, time, timer_stop, nfsh>>

TimerStep ==
  StartRound \/ AwaitDevice \/ Collect \/ TimerTick \/ Release

Next ==
  \/ TimerStep \/ TimerWakeSpuriously \/ StopTimer
  \/ \E d \in Device : Post(d) \/ Wait(d) \/ WakeSpuriously(d) \/ Detach(d)

\* The scheduler runs every thread: the timer thread, a device returning
\* from a wait, a device getting to its next call, main after its joins.
Fairness ==
  /\ WF_vars(TimerStep)
  /\ WF_vars(StopTimer)
  /\ \A d \in Device : WF_vars(Wait(d)) /\ WF_vars(Post(d) \/ Detach(d))

Spec == Init /\ [][Next]_vars /\ Fairness

-----------------------------------------------------------------------------
TypeOK ==
  /\ done \in [Device -> BOOLEAN]
  /\ fsh \in [Device -> BOOLEAN]
  /\ dpc \in [Device -> {"working", "posted", "asleep", "detached"}]
  /\ time \in 0 .. TimeMod - 1
  /\ timer_stop \in BOOLEAN
  /\ tpc \in {"top", "collect", "asleep", "tick", "release", "exited"}
  /\ cur \in Device
  /\ nfsh \in 0 .. N

\* No wakeup is lost although done is set under event_lock and cleared under
\* timer_lock (timer.c:49-52, 63-66): whoever sleeps still has to wait.
NoLostWakeup ==
  /\ \A d \in Device : dpc[d] = "asleep" => done[d]
  /\ tpc = "asleep" => ~done[cur] /\ ~fsh[cur]

\* _time is written without a lock (timer.c:45) and read by the loader
\* without one (os.c:117); no device is running its code when it changes.
TickAlone ==
  [][time' # time => \A d \in Device : dpc[d] # "working"]_vars

\* The timer thread ends only when no device will use its locks again, so
\* stop_timer may destroy them and free the list (timer.c:120-132).
ExitedLast ==
  tpc = "exited" => \A d \in Device : dpc[d] = "detached"

\* While the timer releases the devices one by one, those it has not come to
\* have left the barrier already.
B == INSTANCE Barrier WITH
       arrived <- {d \in Device : done[d] /\ ~(tpc = "release" /\ cur <= d)},
       gone    <- {d \in Device : fsh[d]}

\* Lockstep: timer and devices implement the barrier: between two ticks each
\* device takes part in exactly one slot, none is overtaken by a slot.
ImplementsBarrier == B!BarrierSpec

\* next_slot returns: once every device has posted or left, it wakes up.
NextSlotReturns ==
  \A d \in Device : dpc[d] = "posted" ~> dpc[d] = "working"

\* stop_timer's pthread_join returns: the timer ends after the last detach.
TimerExits ==
  (\A d \in Device : dpc[d] = "detached") ~> tpc = "exited"
=============================================================================

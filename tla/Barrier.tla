------------------------------ MODULE Barrier ------------------------------
(***************************************************************************)
(* What the timer of src/timer.c promises: the devices (CPUs and loader)   *)
(* go through the time slots in lockstep.  A device arrives by calling     *)
(* next_slot and leaves for good by calling detach_event; once all have    *)
(* done one or the other the time advances, and those that arrived go on.  *)
(* Timer implements this module, OS is built on it.                        *)
(***************************************************************************)
EXTENDS Integers

CONSTANTS
  Device,           \* the attached devices
  TimeMod           \* time is counted modulo this (2^64: _time is a uint64_t)

ASSUME BarrierAssumption == TimeMod \in Nat \ {0}

VARIABLES
  arrived,          \* devices inside next_slot
  gone,             \* devices that called detach_event
  time              \* _time

barrierVars == <<arrived, gone, time>>

BarrierInit ==
  /\ arrived = {}
  /\ gone = {}
  /\ time = 0

\* The device runs its own code.
Working(d) == d \notin arrived \cup gone

Arrive(d) ==
  /\ Working(d)
  /\ arrived' = arrived \cup {d}
  /\ UNCHANGED <<gone, time>>

Leave(d) ==
  /\ Working(d)
  /\ gone' = gone \cup {d}
  /\ UNCHANGED <<arrived, time>>

Tick ==
  /\ arrived \cup gone = Device
  /\ time' = (time + 1) % TimeMod
  /\ arrived' = {}
  /\ UNCHANGED gone

BarrierNext ==
  \/ \E d \in Device : Arrive(d) \/ Leave(d)
  \/ Tick

\* The timer keeps ticking as long as there is a device left.
BarrierSpec ==
  /\ BarrierInit /\ [][BarrierNext]_barrierVars
  /\ WF_barrierVars(Tick /\ gone # Device)
=============================================================================

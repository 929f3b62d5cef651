# Verification of the operating system simulator

TLA+ models of `src/assignment_source_hk231`, a user-space simulator of an
operating system: a loader thread adds processes to a multilevel ready queue,
CPU threads take them from there and run their instructions in time slots that
a timer thread hands out, and the instructions allocate, free, read and write
paged memory that is swapped between a RAM device and swap devices. The build
modelled is the one `include/os-cfg.h` selects: `MLQ_SCHED`, `MM_PAGING`, the
locks of `SYNC_SCHED` and `SYNC_MM`, no `MM_FIXED_MEMSZ`.

A second program of the repository, the thread pool of `src/TA section`, has
a module of its own.

Paths below are relative to `src/assignment_source_hk231`, those of the thread
pool to `src/TA section/BKthreadpool`.

## 1. The system

| component | code | state | operations | modules |
|---|---|---|---|---|
| Ready queue | `sched.c`, `queue.c` | an array of at most 10 processes per level, a slot budget per level, `proc_count`, `slot_count`, all under `queue_lock` | get, put, add; refill of the budgets | `MLQ`, `Scheduler` |
| Timer | `timer.c` | `done` and `fsh` per device, `_time`, `timer_stop`, two locks and two condition variables per device | `timer_routine`, `next_slot`, `detach_event`, `stop_timer` | `Barrier`, `Timer` |
| CPUs, loader, main | `os.c` | per CPU `proc` and `time_left`; the loader's index; the global `done` | `cpu_routine`, `ld_routine`, start and joins in `main` | `OS` |
| Instructions | `cpu.c` | `pc` of a process | `run` | `OS`, `VmArea`, `VarMemory`, `Paging` |
| Variables of a process | `mm-vm.c` (`__alloc`, `__free`, `__read`, `__write`) | `symrgtbl`, `vm_freerg_list`, `sbrk`, `vm_end` | alloc from the free list, the gap, or a grown area; free; read and write at an offset | `VmArea`, `Variables`, `VarMemory` |
| Paging | `mm-vm.c`, `mm.c` | page table, `fifo_using_pgn` of each process | page in, evict, map new pages, read, write | `FlatMemory`, `Paging` |
| Memory devices | `mm-memphy.c` | storage and free frame list of RAM and swap, a lock for each call | get and put a frame, read, write, clean | `Paging` |
| Page table entries | `mm.h`, `mm.c` | 32 bits | `vmap_page_range`, `pte_set_swap`, `pte_set_fpn`, the `PAGING_*` readers | `Pte` |
| Program loader, configuration | `loader.c`, `read_config` | none that lasts | parse files | not modelled |
| Debug output | `print_*`, `MEMPHY_dump` | none | format | not modelled |
| Earlier assignment | `mem.c`, `paging.c` | | not reached in this build | not modelled |
| Thread pool | `bkwrk.c`, `bktask.c`, `main.c` | `worker[]` (one task each), `wrkid_busy`, the task list, the loop variable whose address the workers get | create workers, make, assign and dispatch a task; the worker's loop | `ThreadPool` |

How they meet: CPUs and loader call the ready queue, each call under one lock;
they are devices of the timer and meet it in `next_slot`; the loader tells the
CPUs that it is through by the global `done`, without a lock; a CPU calls `run`
on its process, which works on the process's own tables without a lock (a
process is on one CPU at a time: `AtMostOnePlace`) and on RAM and the active
swap device, which all processes share, under a lock per call.

What is hard in it:

- the ready queue answers NULL, refills, or refuses depending on budgets,
  counters and capacity kept apart from the queues;
- `done` of a device is set under one of its locks and cleared under the other,
  the timer releases the devices one after the other while the first may
  already be in its next slot, and both sides sleep on conditions;
- CPUs end on a global flag they read after they found the queue empty;
- paging takes and returns frames of shared devices one call at a time, other
  CPUs run between the calls, and there are error exits in the middle;
- free regions are split, used up and listed again in any order;
- a variable is bytes of an area, the area is pages, and the two grow by
  different units;
- the fields of a page table entry overlap;
- the thread pool has no lock at all: main fills a slot that its worker reads
  and empties, and wakes it by a signal that does not queue.

`PROJECT.json` lists each of these places with its line.

## 2. The modules

```
 Barrier  <--- implemented by ---  Timer        MLQ
    |                                            |
    +--------------------+-----------------------+------ Scheduler
                         |                                   |
                         OS  --------- implements -----------+

 Variables  <--- implemented by --- VarMemory = VmArea + FlatMemory
                                                             |
                                    Paging  -- implements ---+

 Pte                                ThreadPool
```

A module called `...Proofs` holds the theorems of the module it is named after
(`FlatMemoryProofs`, like `PagingProofs`, those of `Paging`, `VarMemoryProofs`
those of `VmArea` as well), the `MC*` modules are the instances TLC checks. Operators whose comment begins with *Mutant* are
plausible bugs of the definition after them; no specification uses them. Each
property is shown to fail when such an operator takes the place of the
definition, which shows that the property, in the bounds of its run, depends
on the code.

**MLQ** is the ready queue without actors. `GetProc(p)` is `get_mlq_proc`
returning `p`: `GetInRound` when the first `get_proc_by_slot` finds a process
(with the refill when it was the last one), `GetNextRound` when the second one
does, `GetNothing` when neither does. `Enqueue` is `put_mlq_proc` and
`add_mlq_proc`, with the silent refusal at a full level. Each is one step
because the code holds `queue_lock` from the first to the last line. The loop
of `get_proc_by_slot` is its result, the first level with a process and a
budget (`FirstServed`).

**Scheduler** drives MLQ by CPUs and a loader that call it in any order they
may: a CPU gets only without a process and puts or finishes only the one it
has. It is the abstract specification of the scheduling of `os.c`.

**Barrier** says what the timer promises: devices arrive or leave, and when all
have, time advances and those that arrived go on.

**Timer** is `timer.c` with one action per critical section. A wait on a
condition variable ends the section and releases the lock; it may end by a
signal or spuriously, and the code's `while` loops test again. `tpc` and `cur`
are the place and the device of `timer_routine`, `dpc[d]` the place of device
`d`: `working` in its own code, `posted` after the first section of
`next_slot`, `asleep` in its wait, `detached`. The mapping to Barrier counts a
device as released from the tick on, although the timer gets to it later.

**OS** has `cpu_routine` and `ld_routine` over MLQ and Barrier. An action runs
from one access to shared state to the next: `FreeProc` and `GetNext` are two
steps because other threads may run between `free` and `get_proc`, the test of
`done` after an empty answer is a step of its own (`Leaving`, `SkipSlot`). `proc[c]` becomes
NULL as soon as the CPU has given its process away; the C variable keeps the
stale pointer until `get_proc` overwrites it, and nothing uses it in between.
`run` is reduced to the program counter.

**VmArea** has the calls of one process on its area. `AllocFreed` with
`FirstFit` and `Carve` is `get_free_vmrg_area`, including the case that
overwrites a used up region with its successor and the case of the last
region, which stays with no bytes; `AllocGap` and `AllocGrow` are the rest of
`__alloc`. `Spec` allows any calls, `TidySpec` those of a program that
allocates into free registers and frees allocated ones.

**Variables** says what a program that stays inside its variables is promised:
bytes of its own for each, changed only by writes to that variable. What a new
variable holds is left open, as the code does not clean a region used before.

**VarMemory** puts VmArea over FlatMemory: `AllocPages` is `__alloc` whose
`increase_vma_limit` has `vm_map_ram` add pages for the bytes missing behind
`vm_end`; `Read` and `Write` are the checks of `__read` and `__write`, the
address, and `pg_getval` and `pg_setval`, which split it into page and offset.
`AllocFails` and the failing halves of `GetVal` and `SetVal` are the pager's
errors. As in `TidySpec` a program allocates into free registers and frees
allocated ones; it reads and writes inside its variables, or where the code
refuses it: the code itself compares with `sbrk` only. The mapping to Variables
takes each variable's bytes from the pages they lie on.

**FlatMemory** is the abstract memory of a process: it grows by zeroed pages,
a read returns the last write, a failing instruction changes nothing.

**Paging** has an instruction of each process in progress at once. `ipc[p]` is
the place between two calls on the devices: `Start` begins an instruction,
`Continue` is each later step of it. `vic`, `spare`, `got`, `avail` are
the locals. Work on the process's own tables goes with the device call before
or after it, as nobody else sees it. `Begin` is the head shared by `pg_getpage`
and `bring_to_ram`, `getswp` to `settle` their common body, `count` to `loop`
`alloc_pages_range`, `MapPages` `vmap_page_range`. The lists of free frames are
sets: which frame is at the head is left open, so every order is covered. The
page of `sbrk`, which `alloc_pages_range` must not evict, is `ins[p].page`.
A page's content is one value; a copy of a page is one step although
`__swap_cp_page` locks for each byte, because no one else uses either frame,
which is what `NoFrameShared` checks.

**Pte** is one entry. `GetVal` and `SetVal` are the macros as arithmetic on bit
fields; an entry keeps whatever bits a setter leaves alone. `place` remembers
what the pager stored last and is compared with what the readers return.
`Pow2` is `BIT`, as a recursive function, which the provers can reason about.

**ThreadPool** has an action for each access to the memory main and the
workers share. `Clone` gives a worker the address of `i`, which it reads in
`Start`, whenever that is; worker `k` then serves slot `id[k]`. `mpc` and `step`
say where main is in the calls of `Script`; `AssignBusy`, `AssignFunc` and
`AssignArg` are three stores of `bktask_assign_worker`. `Test`, `LoadFunc`,
`LoadArg` and `Call` are `bkwrk.c:42-43`; the C language leaves the order of the
two loads open. `Done`, `ClearFunc`, `ClearArg` are `bkwrk.c:46-48`. `pending` is
one bit for each worker, as a signal of this kind does not queue. `bktaskid`,
which is only printed, is left out.

## 3. The runs

| run | instance | what it shows |
|---|---|---|
| `mc_scheduler` | 5 processes on 2 of 3 levels, capacity 2, 2 CPUs | `AtMostOnePlace`, `NoProcessLost`, `ProcCountRight`, `SlotCountRight`, `NullOnlyWhenEmpty`, `BoundedOvertaking` |
| `mc_timer` | 3 devices, time modulo 3 | `NoLostWakeup`, `ExitedLast`, `TickAlone`, `ImplementsBarrier`, `NextSlotReturns`, `TimerExits` |
| `mc_os` | 3 CPUs, 5 processes of 0, 1, 2, 3, 5 instructions, 2 levels, starts at slots 0, 1, 7 | `NoneStranded`, `NoIdleBesideReady`, `ImplementsScheduler`, `ProcessesFinish` |
| `mc_variables` | 3 registers, 2 byte values, pages of 2 bytes, sizes 0, 1, 3, at most 4 bytes | `VariablesDisjoint`, `BytesAccountedFor`, `AreaTight`, `AreaMapped`, `ImplementsVariables` |
| `mc_paging_pair` | 2 processes of 2 pages, 2 RAM frames, 4 swap frames | `NoFrameShared`, `NoFrameLost`, `FifoRight`, `ImplementsFlatMemory` |
| `mc_paging_solo` | 1 process of 4 pages, 2 RAM frames, 2 swap frames | `NoFrameLost`, `StartStays`, `ImplementsFlatMemory`, `InstructionsEnd` |
| `mc_pte` | 1024 RAM frames, 65536 swap frames, numbers at the edges of each bit | `ReadsBack` |
| `mc_threadpool` | 2 workers, 4 tasks, 13 calls of main | `NoTaskTwice`, `FuncGiven`, `PoolDrains` |
| `mc_os_stop`, `mc_paging_full`, `mc_pte_large`, `mc_threadpool_race` | | the findings of section 6 |

The type invariants are checked in these runs as well.

Why the bounds are enough:

- *Scheduler*: level 0 has exactly the two processes its array holds, level 1
  three for an array of two, level 2 none: full levels, refusals, used up
  budgets (3, 2 and 1), refills in the middle and at the end of a round, and
  levels that are always empty all happen. A third CPU adds no new
  kind of step: a call is atomic and a CPU holds one process.
- *Timer*: with three devices there is one the timer has released, one it is
  at, and one it has yet to come to.
- *OS*: more processes than CPUs, then more CPUs than processes, a pause in
  which no process is left and the loader still waits, a process of no
  instruction, a time slice of two that processes outlast. `TimeMod` 16 is
  beyond the end of all processes, so the wrap of `_time`, 2^64 in the code,
  is not met before the last start; after it time only serves the barrier.
- *Variables*: three registers make free lists of up to four nodes with used
  up, split, adjacent and empty regions. With pages of two bytes and sizes 0, 1
  and 3 a variable is empty, ends in the middle of a page, starts there and
  crosses into the next; gaps of one byte and growth by one and two pages all
  occur. `MaxBrk` bounds the growth and with it the run.
- *Paging*: one page more per process than it can keep in RAM beside the other
  one; in the solo run every frame of both devices is needed.
- *Pte*: fields are at most 21 bits wide, and the numbers taken have each bit
  once alone, once as the highest of a run of ones.
- *ThreadPool*: main only ever uses worker 0, so a second worker is enough to
  have one whose slot stays empty, one that reads the other's number, and one
  that reads a number outside the array. The script has what `main.c` does
  (three tasks made; one assigned and dispatched; two assigned without a
  dispatch in between, two dispatches) and an assignment of a task that is not
  in the list, as the stress test makes them, before and after it is made.

Symmetry is used for the registers of `mc_variables` and for frames and
processes of `mc_paging_pair` and `mc_paging_full`, which check no liveness
property; `mc_paging_solo` does and uses none. The pair would be too large
without it, so that instructions end is checked for a single process.

`CHECK_DEADLOCK FALSE` stands in the runs of Timer, OS and ThreadPool: the
threads of the first two end, main of the third is through with its calls and
the workers sleep.

**Fairness.** Timer: weak fairness of `timer_routine`, of each device between
its calls, and of `main` after its joins: each is a thread the operating system
below keeps scheduling, a step that is enabled stays enabled until its thread
takes it, and the locks are held for a bounded time (they are not
states of the model). A spurious wakeup has no fairness: it need not happen.
A device that neither posts nor detaches would be an endless instruction; `run`
has none. OS: weak fairness of each CPU, of the loader and of the tick; the
last is what `Barrier` states as its fairness, and `mc_timer` checks that Timer
implements it. Paging: weak fairness of `Continue(p)`, as a CPU inside an instruction holds no
lock between its steps and is kept running; none of `Start`. ThreadPool: weak
fairness of main and of each worker, threads of the kernel. The liveness
properties are `NextSlotReturns`, `TimerExits`, `ProcessesFinish`,
`InstructionsEnd` and `PoolDrains`.

**The deeper properties.**

- `BoundedOvertaking` (Scheduler): starvation freedom as an action property
  with a bound. `Turns(i, k)` bounds the dispatches a process at position `k`
  of level `i` can see go by: what is left of the round, plus the sum of all
  budgets for every further round it has to wait. It never grows and each
  dispatch of another process lowers it, across refills and new arrivals on
  higher levels. This is a guarantee of the budget policy that strict priority
  would not give.
- `NoneStranded` (OS): a CPU reads `done` after `get_proc`, without a lock; a
  process added between the two is not stranded, because the loader sets `done`
  a slot later than its last add.
- `NoIdleBesideReady` (OS): at the end of a slot there is no ready process
  beside a CPU without one, except one the loader added in that very slot.
- `ImplementsBarrier` (Timer) with `TickAlone`: the two locks of each device
  and the one-by-one release still make lockstep.
- `ImplementsFlatMemory` (Paging): a process reads what it wrote, whatever
  pages are moved by it or others, and new memory is zero. `Content` says where
  a page is in the middle of an exchange.
- `NoFrameLost`: no swap frame is ever lost; for RAM this holds as long as one
  process allocates at a time. With two, both may count the same free frames,
  and the one that comes late forgets the frames it has already taken
  (`mm.c:178`), so the property does not claim it for two.
- `InstructionsEnd` (Paging): `mm.c:231` fears an "endless procedure of swap-off
  to get frame"; every instruction ends, also one that needs more frames than
  there are.
- `ImplementsVariables` (VarMemory): a variable reads what was written to it,
  across freed and split regions, gaps and page borders; `AreaMapped` is why no
  access that the code lets through finds a page that is not there.
- `NoTaskTwice`, `FuncGiven`, `PoolDrains` (ThreadPool): what holds in spite of
  the missing locks. The worker alone empties its slot, so what it has tested
  cannot become null before the call; two signals may become one and one may
  come while the worker runs, and still no task is run twice or left waiting.

## 4. What is proved

Each module of theorems is for all values of the constants, from the named
assumptions of the module it is about.

`SchedulerProofs`, for any set of processes and priorities, any number of
levels and CPUs and any capacity, from `MLQAssumption` and
`SchedulerAssumption` alone:

| theorem | property |
|---|---|
| `TypeCorrect` | `TypeOK` |
| `OnePlace` | `AtMostOnePlace` |
| `CountRight` | `ProcCountRight` |
| `NullMeansEmpty` | `NullOnlyWhenEmpty` |
| `NothingLost` | `NoProcessLost` |
| `SlotsRight` | `SlotCountRight` |
| `Overtaking` | `BoundedOvertaking` |

The argument: `TypeOK` is inductive with the queue's level discipline in it
(an entry of level `i` has priority `i`). `AtMostOnePlace` and `ProcCountRight`
are inductive together: an enqueue adds one element to `Queued` because the
process was not queued, a dequeue takes one away because no other entry is the
same process, and only so does the counter follow the cardinality. The lemmas
`DequeueTakesOne` and `EnqueueAddsOne` say this, over the positions of the
entries. `NullOnlyWhenEmpty` needs the counter (its first exit is
`proc_count = 0`) and that a refill gives every level a positive budget.
`NoProcessLost` needs that the entries of a level are different processes of
its priority, so that a full level has them all: an injection from the
positions into the level's other processes (`LevelHasRoom`).

`SlotsRight` and `Overtaking` are about sums of budgets over the levels. The
sum is a fold, and a fold is a recursive function chosen by its equation;
`SumExists` shows that there is one and `SumIs` that the chosen one obeys it.
The library's induction theorems cannot be applied (they take a predicate as a
parameter), but an induction is also the choice of a least counterexample:
`Least` has it for a set of numbers, from `WFMin` and `NatLessThanWellFounded`,
and each use names its set of counterexamples. From this come that one less at one
level is one less in the sum (`SumLess`), that the sum of full
budgets is the closed form the code starts `slot_count` with (`SumFull`), and
`SlotsRight`. `Overtaking` then follows a process through each call of
`get_proc`: a dispatch of its own level takes it one place and the level one
slot forward, every dispatch takes a slot from the round, and a refill is
answered by one of the rounds that the process was still to wait for
(`DispatchCounts`, with the arithmetic of rounds in `RoundLess`).

`TimerProofs`, for any number of devices and any `TimeMod`, from
`TimerAssumption`:

| theorem | property |
|---|---|
| `TypeCorrect` | `TypeOK` |
| `WakeupsKept` | `NoLostWakeup` |
| `LastToExit` | `ExitedLast` |
| `TicksAlone` | `TickAlone` |
| `Lockstep` | the safety part of `ImplementsBarrier` |

They follow from `Inv`, proved in `Invariant`. The properties are not inductive:
that the timer may tick depends on what it saw of the devices it has passed,
and that it may end on what its count has meant since. `FlagsRight` ties `done`
and `fsh` to the place of the device, `CollectRight` says that the devices
below `cur` need no waiting and that a full count means all of them have left,
`ReleaseRight` carries this through the tick to the devices not yet released,
`StopRight` covers the two ways to end. `Lockstep` then has one lemma for each
action of Barrier and shows the other steps, the releases in particular, to be
invisible.

`OSProofs`, for any number of CPUs, processes and levels and any slot length,
from `OSAssumption`:

| theorem | property |
|---|---|
| `TypeCorrect` | `TypeOK` |
| `Refinement` | `ImplementsScheduler` |
| `ThreadsKeepPlaces` | `TypeOK`, `AtMostOnePlace` and `ProcCountRight` of Scheduler |
| `ThreadsAreFair` | `BoundedOvertaking`, `NullOnlyWhenEmpty` and `NoProcessLost` of Scheduler |
| `Stranded` | `NoneStranded` |
| `NoIdle` | `NoIdleBesideReady` |

`Refinement` maps each action to a call of the ready queue or to none; that a
CPU asks only without a process is in `Inv`, an invariant of the places of each
thread. `ThreadsKeepPlaces` and `ThreadsAreFair` then take what
`SchedulerProofs` shows over to the threads. `Stranded` assumes a CPU
(`CPU # {}`): without one nobody runs anything. Its invariant `StrandInv`,
which `NoIdle` needs too, is about a CPU that has asked in this slot and got
nothing, whether it still runs, has posted, or has left (`Quiet`): no more
processes are queued than CPUs have put one back and are about to ask
(`Asking`), and one more if the loader has added one in this slot (`Added`);
that is `QuietMeansEmpty`. At the end of a slot nobody is about to ask, which
leaves the one of the loader: `NoIdle`. Once the loader is done nothing is
added, so when the last CPU ends the queue is empty: `Stranded`.

`VarMemoryProofs`, first about `VmArea` by itself, for any registers, page size
and sizes, from `VmAreaAssumption`:

| theorem | property |
|---|---|
| `TypeCorrect` | `TypeOK` |
| `Tight` | `AreaTight` |
| `Disjoint` | `VariablesDisjoint` |
| `AccountedFor` | `BytesAccountedFor` |

The first two hold of `Spec`, that is also of a program that frees twice; the
others of `TidySpec`. `OneOwner(b)` is their invariant, for one byte at a time:
below `sbrk` the byte is in one variable or in one node of the free list, above
in none. A step of the allocator moves a range of bytes from one owner to
another, which `Carve` and `Free` are shown to do over the positions of the
list, including the node that makes room for its successor.

and then about the memory, in addition from `ByteAssumption` (the error marks are not
bytes, `NoVariable` is no variable's content):

| theorem | property |
|---|---|
| `AreaRight` | the four invariants of `VmArea`, with memory |
| `Mapped` | `AreaMapped` |
| `Refinement` | `ImplementsVariables` |

`AreaRight`: every step of `VarSpec` is one of `TidySpec` or leaves the area
alone. `Mapped`: the pages mapped for a grown area are
`AlignUp(missing) / PAGESZ`, and with `AreaTight` this puts `vm_end` at the end
of the last page again. `Refinement` puts the two together. Every address of a
variable is mapped (`OfVariable`, `BytePlace`), page and offset determine an
address (`OneAddress`), so a write changes the byte it names and no other
(`WriteByte`), and by `OneOwner` this byte is in no other variable; new pages
leave the bytes of old ones (`GrowByte`). One lemma for each instruction then
shows it to be a step of Variables.

`PagingProofs` and `FlatMemoryProofs`, for any number of processes, frames of
either device and pages, from `PagingAssumption`:

| theorem | property |
|---|---|
| `FramesApart` | `NoFrameShared` |
| `StartPinned` | `StartStays` |
| `FlatMemoryProofs!TypeCorrect` | `TypeOK` |
| `FlatMemoryProofs!Refinement` | `ImplementsFlatMemory` |
| `FlatMemoryProofs!ListRight` | `FifoRight` |
| `FlatMemoryProofs!FramesKept` | `NoFrameLost` |

`Inv` has two parts. `LocalInv(p)` is what one process may rely on: entries name
frames of the right device, the list has pages in RAM, each once and none that
is the victim, the victim is in RAM and has a swap frame once it was given one,
the target of an exchange is not in RAM, the page an allocation starts on is.
Others leave it alone (`KeptLocal`), so there is one lemma for each action.
`RamOneUse(f)` and `SwpOneUse(f)` are about one frame: of the processes' entries,
the frames taken for an allocation, the spare frames and the free list, one at
most has it. A step moves a frame from one use to another. `FramesApart` turns
this into the cardinalities of the property.

For the content, `DataInv` adds that free frames and frames taken for new pages
are clean (frames of RAM are cleaned when they are taken from a victim, and
nobody writes to a free one) and that a victim has been copied out when its
frame is cleaned. `OwnWrites` says that a step writes only to the frame of a
page of its own process or to its spare frame; with one use for each frame
nothing else changes (`RamUntouched`, `SwpUntouched`). So `Content` of every
page of the other processes is the same after the step, and one lemma for each
action shows it of the process itself: the last step of a read, a write or an
allocation is the step of FlatMemory, all others are invisible.

`ListRight`: that a page in RAM is missing in the list is the finding
`mc_paging_full`, so this part of `FifoRight` rests on the swap device not being
full when a victim asks for a frame. `SwapSuffices` states the premise, a frame
for every page of every process; `SwapNotFull` is the counting. If no frame were
free, each would have a page it is for (`PageOf`), these pages would differ
because a frame has one use, and the victim that asks, which is still in RAM,
would not be among them: an injection of the frames into fewer pages. It needs
`SwpAllUsed`, that no frame of the device is without a use, which is also the
first part of `FramesKept` and holds without the premise.

The second part of `FramesKept` is about a process that allocates alone.
`RoomRight` says at each place in `alloc_pages_range` what its count has meant
since (`mm.c:137-152`): the frames it still wants (`Wanted`) are free, or there
are as many victims behind the page it starts on, and as many free frames on
the swap device, as are missing. So the loop finds what it takes (`VictimThere`
for the list), its error exits in the middle are not taken, and the frames in
`frm_lst` reach the page table.

`PteProofs`, for any widths and places of the fields, from `PteAssumption` (the
fields end below the flags, a frame number is below bit 28):

| theorem | property |
|---|---|
| `PteType` | `TypeOK` |
| `EntryReadsBack` | `ReadsBack` |

`Pow2Is` justifies the recursion of `Pow2` and `Pow2Plus` adds exponents, both by
a least counterexample. `DivisionUnique` characterises quotient and remainder;
with it `Stored` shows of a field of `w` values that stands `l` times in an entry
that `SETVAL` stores `x % w` there and that a number below a multiple of
`w * l` stays below it, so that no store carries into the flags. `EntryReadsBack`
has the premise `FramesFit`: frame numbers fit the bits they are read with. The
values of `mc_pte` satisfy it; those of `mc_pte_large` do not, and there the
property fails. A frame number is written with 13 bits and read with 10, so
`NarrowRead` is what a number read from fewer bits than were written is.

`ThreadPoolProofs`, for any number of workers and any sequence of calls in which
no task is assigned twice, from `ThreadPoolAssumption`:

| theorem | property |
|---|---|
| `TypeCorrect` | `TypeOK` |
| `FunctionGiven` | `FuncGiven` |
| `RunAtMostOnce` | `NoTaskTwice` |

`OthersIdle` says that only worker 0 ever has work, `SlotFull` that its slot is
not emptied while it loads. `RunOnce` follows one task: an argument the worker
has loaded has not been run before, and one that was run can be in the slot
only until the worker empties it.

Every safety invariant and every action property of the passing runs is a
theorem. Only model-checked: the liveness properties (`NextSlotReturns`,
`TimerExits`, `ProcessesFinish`, `InstructionsEnd`, `PoolDrains`, the fairness in
`ImplementsBarrier`), which are beyond the prover.

## 5. Not modelled

- `init_mm` links the first free region before `vma->vm_freerg_list` has been
  set, so the list may end in a stray pointer. `VmArea` starts with the list
  of one region that the code means to make; what the stray pointer leads to
  has no state in a model. The same holds for array indices out of range
  (`prio` from the configuration, register 30).
- What an instruction does to memory is not composed with the threads of `OS`;
  the end of a process is in `OS`, but its frames, which the code never gives
  back, are not in `Paging`.
- The used frame list of a device (it serves a dump), the sequential access
  mode (no device is opened that way), swap devices other than the active one
  (the pager uses swap type 0 throughout).
- In Paging, an instruction refused before it changes anything (an offset
  beyond `sbrk`, a register without variable); VarMemory has it. A register
  number out of range is left out.
- A program that is not tidy (section 6) or accesses bytes behind its variable,
  except in `VmArea`'s `Spec`.
- A worker whose slot number lies outside `worker[]` (it may read the loop
  variable after its last increment): it leaves the model.
- `free_pcb_memph`, `init_pte`, the sort and swap of `queue.c`: never called.
- Parsing, formatting, printing.

## 6. What disagrees with the code's own words

Each has a run that ends in a counterexample.

1. `mc_os_stop`, `CpusStop`: a CPU whose `get_proc` at the top of the loop
   answers NULL skips the slot and starts over, without a look at `done`
   (`os.c:56`). A CPU that is idle when the loader finishes goes on for ever,
   and so does `main`'s join, in spite of `os.c:78` and `os.c:262`.
2. `mc_paging_full`, `AllPresentListed`: with the swap device full, a page-in
   fails after the victim has left the FIFO list; the page stays in RAM and can
   never be evicted again.
3. `mc_pte_large`, `ReadsBack`: frame numbers are stored with 13 bits and read
   with 10; with the 1 MB of RAM that `mm.h:9` and the sample configurations
   name, frame 1024 reads back as frame 0.
4. `mc_threadpool_race`, `ArgGiven`: a worker advertises that it is done and
   empties its slot afterwards (`bkwrk.c:46-48`); a task assigned in between can
   lose its argument alone, and its function is called with a null pointer.

Two things the models allow for, without a run of their own as nothing in the
code says otherwise: `enqueue` refuses the eleventh process of a level and
`put_proc` and `add_proc` do not tell (`NoProcessLost` is about levels that have
room), and a variable freed twice has its region listed twice (`TidySpec` has
no such program).

## 7. The plan

Done, in this order: ready queue and its users; timer; threads; variables;
paging; page table entries; thread pool; variables over paged memory; the
proofs of all their safety properties.

To come, the most important first:

1. The end of a process together with its frames, and `OS` driving `Paging` in
   place of the bare program counter: RAM runs full over the lives of
   processes.
2. `Content` of Paging put under `VarMemory` in one theorem: the variables of
   several processes over the pager, without FlatMemory in between.
3. For two processes that allocate at the same time, how many frames of RAM can
   be forgotten at most.

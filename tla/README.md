# A TLA+ development of the Cores repository

The repository holds Robert Finch's FPGA cores: processors, peripherals, their
tool chains, two networks on a chip and a small operating system.  This
development models four parts that have a behaviour of their own:

- **Butterfly**, an 8 x 7 grid of small processors that talk by passing messages
  through routers (`Butterfly/trunk/soc/rtl/verilog`), from the shift registers
  of a link up to the message service software relies on;
- **the FMTK kernel of the DSD7** (`DSD/trunk/software/FMTK/source/kernel`): its
  semaphores with the reservations of the memory controller, the keyboard ring,
  and the scheduler;
- **the temporary registers of the DSD C compiler**
  (`DSD/trunk/software/C Compiler`), which generates the code of that kernel;
- **the memory controller** `mpmc2.v`, as far as it keeps reservations.

## 1. Inventory

| part | source | state | operations | talks to |
|---|---|---|---|---|
| router | `router/routerTop.v` | `state`, `rxBuf`, `txBuf`, `txBuf2`, `dpTx`, `snoop`, local fifo | register reads and writes; take a message from a receive fifo; match it; deliver, forward, broadcast or drop it | its CPU by registers 0-F, 10, 11, 12; a transmitter and a receiver per port by a one-cycle handshake |
| link | `router/routerTxBs.v`, `router/routerRxBs.v` | `fdo`, `empty`, shift registers, counters, synchroniser, receive fifo | load, shift, detect start, sample, store, overrun | four wires, no flow control |
| grid | `grid.v`, `node.v` | none of its own | wiring: a ring per row and per column, the bitmap controller F1 between 81 and 11 | everything above |
| board links | `router/GridRouter*.v`, `routerTxBsZ.v`, `routerRxBsZ.v` | serialisers | Z ports of column 4, rows 1-6 | other boards |
| node software | `software/Network.asm`, `noc_boot*.asm` | `txBuf`, `rxBuf`, keyboard ring | `zeroTxBuf`, `Xmit`, `Recv`, dispatch | the router's registers |
| bitmap controller | `BMCNode.v`, `video/BitmapController.v` | message loop, command registers | read and write video memory on request | its router |
| second network | `Noc1`, `MCMM` (`soci.v`, `netctrl.v`) | one packet register per node, a fifo | inject, pass on, age, remove | a ring |
| semaphores of the kernel | `LockSemaphore.c`, `UnlockSemaphore.c`, `memory/.../mpmc2.v` | semaphore words, two reservation buckets, the status bit of csr $0C | `LockSemaphore`, `UnlockSemaphore`, `lwar`, `swcr` | every task, the timer tick, `KeybdIRQ` |
| keyboard of the kernel | `keybd.c` | `KeybdHead`, `KeybdTail`, `KeybdBuffer` of a job, `kbd_sema` | `KeybdIRQ`, `KeybdGetBufferStatus`, `KeybdGetBufferedScancode` | semaphores, timer |
| scheduler of the kernel | `FMTKc.c`, `TCB.c` | task control blocks with one pair of links, `readyQ`, `TimeoutList`, `freeTCB`, `missed_ticks`, `startQNdx` | start a task, sleep, tick, wake, select | interrupts, every task |
| messages and focus of the kernel | `FMTKmsg.c`, `IOFocusc.c` | mailboxes, focus ring | send, wait, switch | scheduler, semaphores |
| temporary registers of the C compiler | `Register.cpp`, `CodeGenerator.cpp`, `DSD7.cpp` | registers in use, numbers given, pushed ones, the save area of a call | get, release, validate, invalidate, revalidate | the recursion over an expression |
| memory | `memory/trunk/rtl/verilog` | reservations, port arbitration, page maps | reserve, store, arbitrate | CPUs |
| processors, peripherals, tool chains | the remaining directories | data paths | | |

`PROJECT.json` lists them all with the reason where one is not modelled.

What is hard about the network: 57 machines and over a hundred links move
independently; links have no flow control, so fifos overrun and frames are
lost; a receiver can lose step with its transmitter; broadcasts multiply on
rings; two routing orders meet in row 1; one machine per router serves three
inputs and a CPU in fixed priority and waits, holding a message, for a full
transmitter.  What makes it correct: messages keep to their routing order and
arrive before their time to live ends; only their addressee reads them, at most
once and in order; storms die; nobody waits for ever.

What is hard about the kernel: interrupts everywhere.  A reservation and a
status bit belong to the processor and not to the task that is using them; the
interrupt routine for a key enables interrupts, so that it is preempted and
resumed like a task, and takes a lock under the name of the task it
interrupted; a TCB has one pair of links for three kinds of list; the head of a
ready queue is also the memory of who ran last.  What makes it correct: a lock
is held by one task and a failed call holds nothing; keys come out as they went
in; each queue is one ring of exactly its tasks; sleepers wake, neither early nor
late; everyone ready runs.  The code keeps some of this only in part; the
properties then say how far.

What is hard about the compiler: a register is named by an operand long before
it is read, and may be pushed, handed out again and popped in between, by
subexpressions of any shape and by calls that save and restore the allocator's
own lists.  What makes it correct: pushes and pops pair up, an instruction reads
what the operand was meant to hold, everything is given back.

## 2. Modules

    RouterTop           one router's registers and machine, as functions of the node
      ButterflyGrid     routers + links + wiring + CPUs            MessageService
        GridService     the refinement mapping between the two ----'
        MCGrid, MCGridService                     instances for TLC
        ButterflyGridProofs                       theorems (TLAPS)
        GridServiceProofs                         order, and the mapping
    LinkChannel         a link as ButterflyGrid sees it
      RouterLink        the same link, clock cycle by clock cycle, and the mapping
        MCRouterLink    an instance for TLC
        RouterLinkProofs

    KernelLock          LockSemaphore, UnlockSemaphore, reservations, interrupts
      MCLock            the semaphores that the two tasks of the runs lock
      KernelLockProofs  theorems
    KeyboardRing        KeybdIRQ and the readers, LockSemaphore as one step
      KeyboardRingProofs
    TaskScheduler       ready queues, timeout list, interrupt, system calls
      MCScheduler       the FMTK_StartTask calls of the runs
      TaskSchedulerProofs
    TempRegisters       the allocator and its effect on registers and stack, as functions
      ExpressionCode    code generation of an expression, operand by operand
        MCExpression    the expressions of the run
        ExpressionProofs

**RouterTop** follows `routerTop.v` state by state.  `Idle` is the priority
choice of IDLE; `Receive` is ACKRXX/Y/Z; `chk_match` is the decision `Route`
plus one action per outcome (`Expire`, `Discard`, `Accept`, `Forward`,
`Broadcast`); `Flood` is TXGBL, TXGBLY and TXGBLZ; `EndTx` is the NACKTX
states.  A step is a clock cycle in which the machine moves; a cycle in which it
waits for a full transmitter is stuttering.  The one-cycle pulses (`wf`, `rdf`,
and the bus handshake with transmitter and receiver) belong to the step that
starts them: no other action of the same router can come between, because the
machine itself has to return through IDLE first.  The local fifo ignores a
write when full and the receive fifos show their first word before they are
popped (the FIFO cores are generated IP; `Network.asm:96-98` describes them).
A message keeps what routers read - destination, time to live - and an identity
for everything else.  The forced Z route of `chk_match` is disabled by
`ENABLE_ZROUTE`, which no instance overrides, and left out.  `Z` ports take part
in broadcasts and reception.

**ButterflyGrid** wires the routers as `grid.v` does, `NextX` with the
controller's detour in row 1.  `Load` and `Arrive` move a frame from a slot to
the wire and from the wire to the next receive fifo; a full fifo loses it.
`MisSync` is a receiver out of step, `FloatingRx` an input that `grid.v` leaves
open, `BoardRx` another board.  The CPU is any program that obeys the register
protocol: `Xmit` writes when TXSTAT is clear, `RxCtl` reads, pops (in `Readers`)
and switches snooping (in `Snoopers`).  A message whose identity is that of one
in `Garble` was made up by a receiver out of step; the properties about routes
are about all the others.  This is more than the programs in the repository do, so what is
shown holds for them too as far as they follow the protocol.  (`Recv` writes
register 10 where the router pops on register 11, see the hazards; and the loop
of `BMCNode.v` never gets that far.)  What each CPU sends is a constant
`Workload`, which bounds a run and is arbitrary in the proofs.

**RouterLink** is the link on `sclk`: a cycle is the receiver's half followed by
the transmitter's, so that the receiver samples the wires as they were before
the edge.  `flight` is a history variable with the frames loaded but not yet
stored, `gap` and `late` count idle cycles and the receiver's lag.  A receiver
is busy 137 cycles with a frame (136 counted ones and one to see the start),
the transmitter 136.  `MaxLate` bounds the lag by holding back `Put`.

**MessageService** says what the network is for: letters are handed at most
once, to their addressee only, and unless the network is `Lossy` none vanishes.
**GridService** maps the grid to it: `flying` is everything in a transmit
buffer, slot, wire, receive fifo or router that still has to be handled.

**KernelLock** has one step for each access to something shared: the load with
reservation, the conditional store, the test of its status, the unlocking
store.  `Reserve`, `InLine` and `Empty` are the buckets of `mpmc2.v`: two
addresses, no task, 16 byte lines; `Layouts` says which semaphores may share a
line.  The callers are the tasks, `Timer` (`FMTK_SchedulerIRQ`) and `Key`
(`KeybdIRQ`).  Both interrupt routines enable interrupts (`SaveContext` at
`FMTKc.c:186`, `KeybdIRQ` itself), so that a key can be pressed at any
instruction of the tick and of a task; a `KeybdIRQ` over a task is switched away
and back with that task, one over the tick ends before it.  `Runs` is the
caller whose instructions are executed, `Name` the task it locks as.  Bit 1 of
csr $0C (`busy`) is set by a tick and by a system call: another tick is then
refused, which still clears the status bit (`RefusedTick`), as every interrupt
and every return from one does (`Interrupt`).  The tick locks `sys_sema`, unlocks
it and changes the task in `RestoreContext`, or, when its tries are used up,
returns to the same task; `Reschedule` is `int #2`, which changes the task
without the lock.  Two history variables say what the code does not guard
against: `lost` is a semaphore stored by a caller whose status an interrupt
cleared before it was read, `disturbed` one that a caller unlocked while another
one held it, or whose line was reserved again while a caller that saw it free
had yet to store.

**KeyboardRing** takes LockSemaphore as one step (it fails, or succeeds for a
free or own semaphore) and splits `KeybdIRQ` and the two routines of the reader
where they touch the ring.  `irq.task` is the task whose stack the routine is
on: it only proceeds while that task runs, because `cli` lets the tick in.
Scancodes are numbered keys; a ring slot holds 0 before its first key, and the
first scancode that a reader is given is that 0.

**TaskScheduler** follows `TCB.c` line by line as functions on `next`, `prev`
and the heads (`NextWith`, `PrevWith`, ...), and `FMTK_SchedulerIRQ` as one action
per step of its loops: a tick, one task woken, the first timeout counted, one
queue looked at, one TCB looked at.  The walk of `InsertIntoTimeoutList` is a
loop as well (`StartWalk`, `WalkOn`, `InsertIntoTimeoutList`); the rest of a
system call is one step, because bit 1 of csr $0C, set while the kernel works,
makes the interrupt refuse: for the same reason the `int #2` at the end of
`FMTK_Sleep` does nothing, so that the task goes on until the next tick.
`Reschedule` is the `int #2` outside of a system call.  There is one processor;
task 1 and tasks of affinity 1 belong to another one and are never chosen.
`FMTK_KillTask`, `FMTK_ExitTask` and `FMTK_SetTaskPriority` ask LockSemaphore for
-1 retries, which its signed test takes for none: they change nothing and are no
actions.  A job has `JobSlots` slots; a start that finds none leaves its TCB in
the free list.  `Careless` lists what callers of a run may do: `"overlap"`, sleep
while others sleep; `"again"`, sleep before they are awake; `"exhaust"`, start
tasks when there is no TCB.  `wild` says that something outside of `tcbs[]` was
used, after which the model stops; -1 stands for every index outside.  `place`,
`due` and `late` are history variables: where a task belongs, and the ticks
before and within which a sleeper should wake.

**TempRegisters** gives the allocator as functions from a record to a record.
`regs`, `mem` and the values in the operands are what the generated code would
hold, so that a read of a wrong register shows.  A fatal error of the compiler
stops it.  **ExpressionCode** turns the recursion of `GenerateExpression` into a
stack of frames: the expression is chosen while it is generated, so a run
compiles all expressions up to its bounds (`Programs`: kinds of nodes and how
many).  An operand in memory may be narrower than a word and signed, in which case
it is loaded to be extended (`Narrow`); a callee declared `__no_temps` saves and
restores nothing, and the register of its parameter stays in use (`passed`).

Definitions named `Bug...` are faulty variants that show that a property can
fail; nothing uses them in the specifications.

## 3. Runs

| run | instance | shows |
|---|---|---|
| grid_faults | 21 -> 12 through F1, another board at 22 -> F1, times to live one above the distance; fifos of one message, garbling receivers, floating input of F1, a made-up message for 11 and one without destination, node 11 may snoop | `TypeOK`, `AddressedHere`, `DimensionOrder`, `HopBudget` |
| grid_storm | one broadcast of F1 with time to live 3, a Z port at 21, nobody reads | `StormDies`, `BroadcastReaches` under fairness |
| grid_service | 11 -> 22 twice, 22 -> F1, fifos of 3, the number of letters | refinement of the lossless service, `InOrderOnce`; under fairness `XmitAccepted`, `EventuallyReceived` |
| grid_lossy | the same with fifos of one message | refinement of the lossy service, `InOrderOnce` |
| link_frames | 32 nybbles, two messages made of 0s and Fs, receive fifo of 2, lag at most 1 | `LinkTypeOK`, refinement of `LinkChannel` |
| link_packed | the same, lag up to 2 | a divergence: `BackBeforeNextFrame` is violated |
| expressions | r3 to r10; all expressions of 7 nodes of every kind, all of 10 nodes with index modes, all of 11 nodes of variables, operators and dereferences | `NoFatal`, `LiveInPlace`, `TempsInRegisters`, `AllReleased` |
| lock_two | two tasks that lock `kbd_sema`, one of them `sys_sema` too; system calls, ticks and keys at any instruction; both semaphores in one line or in two; one try a call | `MutualExclusion`, `HeldStays`, `FailedOwnsNothing`, `TickLocks`, `SuccessOwns`, `LockReturns` |
| lock_status | the same | a divergence: `FailedStored` is violated |
| keyboard_ring | one reader beside another task, a ring of 3 slots, 5 keys | `InOrder`, `LockReleased` |
| sched_rings | 5 TCBs for five starts of priority 0, 1 and 24, of both processors, one slot in a job; a tick missed; sleeps of 1 and 2 that overlap and repeat | `RingsWhole`, `SleepsLongEnough`, `WakesInTime`, `SwitchesToReady`, `OutsideByCallers` |
| sched_fair | 5 TCBs, one task in each of three classes beside the two of the boot, sleeps of 0 and 1 that overlap | `Awakes`, `EveryTaskRuns` under fairness |

Bounds.  Two rows and two columns have every kind of link: inside a row, the
wrap of a row without the controller (row 2), the way through the controller
(row 1), the wrap of a column; a message can need every number of turns.  Two
messages from one source meet every ordering question between two neighbours
in a path; fifos of one message make every overrun happen with two.  The
broadcast starts at F1 because its one link leads to 11: 12, 21 and the Z port of
21 get it only from a node that sends it on (TXGBL, TXGBLY, TXGBLZ).  A time to
live that reaches 22 as well makes millions of states, since every copy is
multiplied and all of them wait in the queues of four rings; 22 is not required
of this run.  A link is checked with the
code's own frame of 136 cycles.  Deadlock checking is off in the grid runs
because a grid whose messages are all delivered stops; it is on for the link,
whose clock never does.

`link_packed`: `routerRxBs.v:152` says that the receiver switches back "a little
bit too soon".  Counting cycles shows the contrary: with frames back to back the
next start nybble is already at the input when the receiver is in its last
count, and each frame of the run adds a cycle of lag.  At lag 1 samples still
fall inside the right nybble (`link_frames` refines the channel); at lag 2 they
do not, and with `MaxLate = 2` the refinement fails too.  A transmitter can
emit such runs, because nothing holds the router back and two inputs may feed
one output.  This is why `ButterflyGrid` has `MisSync` and `Garble`.  A garbled
address can be anything, its own node's too: software is then handed garbage,
and nothing in the code prevents it.

`lock_status`: `LockSemaphore.c:44` says "lock failed, go try again" where the
status is clear.  Every interrupt clears the status (`DSD7.v:1376`), so that a
store that was done can look failed.  The next try finds the word locked by the
same task and returns 1; but when it was the last try the call returns 0 and the
semaphore stays locked, and after that an interrupt routine may unlock it.
`FailedOwnsNothing` of `lock_two` says that this is the only way.

Fairness.  `FairSpec` asks weak fairness of `Progress`, the disjunction of every
step of a router, of a link and of a CPU that sends.  The code justifies far
more - every machine has a running clock, so each is fair by itself - and
nothing is assumed about software that reads or snoops.  This is enough here
because workloads are finite: every step of `Progress` brings some message
closer to its end.
For the semaphores, `FairSpec` says that a turn of a caller is long enough for a
step: strong fairness of its instructions, because other tasks run in between.
`LockReturns` has as its premise that every task is given the processor again and
again.  The keyboard's `FairSpec` asks the same of the tick.  It is not assumed
that a task calls the kernel, sleeps or reads the keyboard; that a holder gets to
its unlock is part of the fairness of its steps.
The scheduler's own `FairSpec` assumes nothing about turns - that is what
`EveryTaskRuns` shows - but that system calls and the interrupt routine run to
their end and that some timer tick falls outside of a system call.

Bounds of the kernel and the compiler.  Two tasks and two interrupt routines make
four callers of LockSemaphore; two semaphores fill both buckets; one try per call
is where a failed call differs most from a successful one, and the proofs have
every number of them.  A ring of 3 is full with two keys, so that five keys wrap
it and overrun it.  Five TCBs give, in the two runs together, classes of three
tasks, of two, of one and of none, a start that finds no TCB, and a timeout list with a first, a
middle and a last entry.  Sleeps of 1 and 2 ticks give equal, shorter and longer
ones.  `sched_fair` runs through all 32 start queues.  Eleven nodes are the
smallest expressions that spill a destination and an operand.

### What the code does outside of these bounds

Some properties name what the code does not guard against, and some conditions
above are more than bounds of a check.  TLC finds these behaviours of the code:

- *A stale store in LockSemaphore.*  One task sees the word free and is preempted,
  a second one locks it, which empties the reservation, and somebody's `lwar`
  reserves the line again before its branch "if not free" (`LockSemaphore.c:35`);
  the first one's store now succeeds over the lock.  It takes a third caller of
  that semaphore, or, with `kbd_sema` and `sys_sema` in one line, only a tick.
  This is one of the two exceptions in `HeldStays` and `MutualExclusion`.
- *An interrupt routine over a holder.*  `KeybdIRQ` over a task with `kbd_sema`
  finds it "already locked by this task", and unlocks it (`keybd.c:116`); the
  tick does the same to `sys_sema`.  This is the other exception.
- *An interrupt between `swcr` and its status*: the finding of `lock_status`.
- *Two readers of the keyboard.*  `KeybdIRQ` unlocks the section of the reader
  it interrupted, the other one enters, and a scancode is returned twice.  With
  one reader, the routine stores at the new head and the reader loads at the old
  tail, so a key is returned when the next one has come: order is kept, which is
  what `InOrder` says, but the last key stays behind.
- *Overlapping sleeps.*  Only the first entry of an empty timeout list gets its
  timeout stored; one put before another keeps the used-up timeout of its last
  sleep and wakes at the next tick, and the one behind it is shortened
  (`TCB.c:132-139`), so that it may wake early too.  `SleepsLongEnough` is about
  sleeps that no other overlaps, `WakesInTime` about all.
- *A sleep longer than the list.*  The walk has no test for the end and goes on
  at `tcbs[-1]` (`TCB.c:128`); `FMTK_Sleep` of a task that sleeps already uses
  its links, which may be -1; and `FMTK_StartTask` uses `tcbs[-1]` when every TCB
  is taken (`FMTKc.c:558`).  `OutsideByCallers` says that nothing else does.
- *Missed ticks.*  Ticks missed under a task of priority 0 while nobody slept are
  taken from a later sleep (`FMTKc.c:404`, `413`).
- *Two tasks in a lower class.*  The search takes the head of the queue, which is
  the task that ran last but for the running one: after each turn of a higher
  class it is the same one.
- *Deeper expressions.*  With two registers on the stack a binary operator may
  read the register of its left operand while its value is on the stack, since
  `validate` pops it only when it is released after the instruction.  A
  destination that was pushed while its own operand was generated is popped over
  the address computed in it, when that address is released before it is loaded
  (nine nested operators under a dereference).  An index mode of two pushed
  registers is popped in the wrong order and ends in a fatal error (eleven
  nodes).
- *Calls.*  A call in a call's parameter overwrites the one save area and ends in
  a fatal error, as does a parameter that takes the register of a saved
  temporary, when all eight are live.  After a call the rotation is not back at
  r3, and after an operand with two registers numbers stay given (the second
  and third condition of `checkstack`, which nothing calls); the next statement
  starts afresh with `initstack`.  `AllReleased` says what does hold.

## 4. Proofs

`ButterflyGridProofs` proves, for every grid size up to 14 x 14, every workload,
fifo depth, set of readers, of snoopers, of floating inputs and of garbled
messages:

| theorem | statement |
|---|---|
| `Consistent` | `Spec => []IInv` |
| `TypeCorrect` | `Spec => []TypeOK` |
| `AddressedHereHolds` | `Spec => []AddressedHere` |
| `DimensionOrderHolds` | `Spec => []DimensionOrder` |
| `HopBudgetHolds` | `Spec => []HopBudget` |

They rest on the named assumptions `GridAssumption` and `LinkAssumption` only.
`TypeOK` is not inductive: a router in ACKRXX takes the head of a fifo, one in
CHK_MATCHT reads `txBuf`.  `BuffersFilled` adds that the state of the machine
implies that the buffer it is about to read is filled, that `txBuf2` holds a
broadcast while the router floods, and that only snoopers snoop.  `IInv`, the
conjunction, is inductive: `RouterTypes` and `RouterFills` treat the machine
(one step per action), `NextIInv` the rest.  `AddressedHere` and
`DimensionOrder` are inductive relative to `IInv`; a garbled message, and what
becomes of it as its time to live goes down, keeps its made-up identity
(`GarbleMadeUp`, `AgedMadeUp`), so that it is no exception to a route.  `HopBudget` is strengthened
by `Budget`, which adds what is still to be sent; its core is `OneHopCloser`:
the link chosen by `Route` exists and the ring distance after it is one less,
in all cases of the row with the controller and of the wraps.

`KernelLockProofs` proves, for any tasks, semaphores, layouts, retries and
interrupts, without further conditions:

| theorem | statement |
|---|---|
| `LockTypes` | `Spec => []TypeOK` |
| `LockSuccess` | `Spec => SuccessOwns` |
| `LockHolds` | `Spec => []HeldStays` |
| `LockExcludes` | `Spec => []MutualExclusion` |
| `LockFailsClean` | `Spec => []FailedOwnsNothing` |
| `TickAlwaysLocks` | `Spec => []TickLocks` |

They follow from the inductive `LockInv`.  A set status bit belongs to the store
of the caller that runs (`StatusInv`), because an interrupt clears it on the way
in and on the way out.  A holder's word names it unless its lock was disturbed
(`HeldInv`), and so long a caller that saw the word free finds no reservation for
its line once the word is locked (`StaleInv`): the store that locked it emptied
the buckets, and a `lwar` that fills one again is what `Disturb` records.  A
locked word has a caller behind it that holds it or is about to, or its status
was lost (`BackInv`), and a tick leaves `sys_sema` free (`SwitchInv`).  The
exceptions are the histories `disturbed` and `lost`, inside of the properties.

`TaskSchedulerProofs` proves, for any number of TCBs, jobs, starts, slots and
timeouts, and for callers that sleep and start tasks as they like:

| theorem | statement |
|---|---|
| `QueuesStayWhole` | `Spec => []RingsWhole` |
| `OnlyCallersLeaveTcbs` | `Spec => OutsideByCallers` |
| `ReadyTasksRun` | `Spec => SwitchesToReady` |
| `SleepersSleep` | `Spec => []SleepsLongEnough` |
| `SleepersWakeInTime` | `Spec => []WakesInTime` |

The inductive invariant `SchedInv` says that members, links and heads form rings,
that the timeout list is a list of the sleepers but for the one on its way into
it (`Listing`), that the free TCBs are those from `freeTCB` on, that the walk is
at a link of the list and the search in its queue.  Its core are lemmas about
rings and lists on plain functions (`InsertKeepsRing`, `NewRing`,
`RemoveKeepsRing` and their counterparts for connectedness and for lists), so
that each action only has to name the functions it applies.  The two theorems
about time add `TimeInv`.  Only the last entry of the timeout list has a timeout
above 0 (`OnlyLast`): that is what storing it for an empty list only amounts to.
So what the list counts of a sleep is never more than what the sleeper asked for
(`LateOK`), and no sleep ends late, however many overlap.  A sleeper that nobody
joined is the only entry, and what is counted of its sleep is at least what is
left of it, less the missed ticks (`DueOK`); a tick is counted at the start of the
interrupt in the histories and at its end in the list, hence two forms of each.

`GridServiceProofs` proves, for every grid size, fifo depth and workload of
unicasts with distinct identities, without snoopers, floating inputs, boards and
garbled frames (`PlainTraffic`):

| theorem | statement |
|---|---|
| `QueuesHold` | `Spec => []QueueInv` |
| `InOrderOnceHolds` | `Spec => []InOrderOnce` |
| `GridImplementsService` | `Spec => ImplementsService`, for the lossy service |
| `GridLosesNothing` | `Spec => ImplementsService`, for the lossless one too, if `DeepFifos` (no fifo is shorter than the number of letters) and `WorkloadCovered` (times to live cover the ways) |

The argument does not look at buffers one by one.  Every place where a letter
can be (what a CPU has still to send, `txBuf`, `rxBuf`, slot, wire, receive fifo
and what was received) is one queue of `Queues`, and every action either changes
no queue, takes the head of one and puts it at the end of another (`Moves`), or
drops it (`Drops`); `QueueStep` says which moves there are.  `QueueInv`
is then kept by moves and drops in general: a letter is in one place once
(`Unique`); the place is on the way that `Route` takes from its source
(`OnPaths`), so that two letters of one source for one addressee share their
path; and the earlier one is closer to the end of that path, measured by `Rank`,
or ahead in the same queue (`Ordered`).  The refinement follows: a move within
the network is a stutter of the service, one into it is `Send`, one out of it is
`Deliver`, and a drop is `Lose`.  For the lossless service a drop needs a full
fifo, and by `Unique` a full fifo would hold every letter there is, but not the
one that arrives (`NoOverrun`).

`RouterLinkProofs` proves, for every length of message, set of messages and depth
of the receive fifo:

| theorem | statement |
|---|---|
| `LinkTypes` | `Spec => []LinkTypeOK`, for every lag |
| `LinkIsChannel` | `Spec => ImplementsChannel`, if the lag is at most one cycle (`OneLate`) |

`Line(m, j)` is the nybble on the wires j cycles after the frame of m began.  The
invariant says where in its line each end is: the transmitter's register holds
the rest of the line (`TxOK`), the receiver's the nybbles it has sampled
(`Sampled`), and the two positions differ by the four cycles of the synchroniser
and the lag.  There are four phases: no frame, one that has begun and is not
seen, the receiver inside the newest frame, and the receiver at the end of one
frame while the next has begun.  The last one is where frames follow without a
gap and the lag grows, and the step from it is what fails at lag two.  With
`LinkIsChannel` the abstraction that `ButterflyGrid` makes of a link - a slot, a
wire, a fifo that loses what does not fit - is itself proved.

`KeyboardRingProofs` proves, for every ring size, number of keys and tasks:

| theorem | statement |
|---|---|
| `KeyboardTypes` | `Spec => []TypeOK` |
| `ScancodesInOrder` | `Spec => []InOrder`, with one reader (`OneReader`) |

`OrderInv` counts: if the tail has been advanced n times, the slots from tail to
head hold the scancodes from number n on, the first slot of all being one nobody
wrote; what the reader has loaded is number n; what it returned is what was put,
in order.  The head may be one ahead of the scancodes while the interrupt
routine is between its two stores, which is when it can be preempted.

`ExpressionProofs` proves, for expressions of constants, variables, unary and
binary operators and dereferences (`Simple`) of any depth, for three temporary
registers or more (`ThreeRegisters`; the compiler has eight) and as many numbers
as nodes (`EnoughNumbers`; beyond it the compiler reports an overflow):

| theorem | statement |
|---|---|
| `ExpressionInvariant` | `Spec /\ Simple => []IInv` |
| `ExpressionNoFatal` | `Spec /\ Simple => []NoFatal` |
| `ExpressionLiveInPlace` | `Spec /\ Simple => []LiveInPlace` |
| `ExpressionTempsInRegisters` | `Spec /\ Simple => []TempsInRegisters` |
| `ExpressionAllReleased` | `Spec /\ Simple => []AllReleased` |

In this fragment the rotation is back at r3 and no number is given at the end of
a statement, which is all that `checkstack` asks.

None of the properties is inductive.  `Sound` describes the allocator: numbers
are given in order, the registers of consecutive numbers follow each other in
the rotation (`Rotation`), the pushed numbers are the oldest ones and lie on the
stack in order (`Stacked`), and those in registers are the newest ones, at
most a turn of the rotation apart (`Window`).  So the register that comes
next, if it is in use, is that of the oldest number in a register, and pushing it
keeps the stack in order; and a release finds its number on top.  `Nest` describes
the recursion: each node under way was entered with some number of temporaries,
owns the ones after them, its destination and its left operand, and the node
inside it begins where it ends.  `Keeps` is the interface between the two: a
routine of the allocator leaves the first m numbers as they are, except that
some may have been pushed; `FitsKept` and `Left` carry it through the nest.  The
programs of the run named `Operators` are in this fragment; the spills of the
proof are those of any number of registers.

Why the fragment ends there: an index mode holds two registers, and releasing
it gives back both but one number only, so that numbers and registers are no
longer consecutive; what `TempInvalidate` and `TempRevalidate` do is a fold over
the list of numbers, and what a fold computes for a list of any length needs an
induction that the prover does not have.  Both stay with the run `expressions`.

Model-checked only:

- the liveness properties `StormDies`, `BroadcastReaches`, `XmitAccepted`,
  `EventuallyReceived`, `LockReturns`, `LockReleased`, `Awakes` and
  `EveryTaskRuns`: fairness is beyond the prover;
- compiled expressions with index modes and calls.

Every safety property of a passing run is also a theorem, under the conditions
named above.  The theorems about order and about the service leave out broadcasts, of
which a node may get copies from both sides, and garbled frames, which are
nobody's letters.


## 5. Not modelled, and the plan

Not modelled: clock-domain crossing between `clk_i` and `sclk` beyond the
interleaving of the two (the `empty` flag is read unsynchronised; the machine
needs four cycles to come back to the same transmitter, more than the flag
takes); reset during operation; the 3-wire Z links and their serialisers; data
paths of the processor cores, arithmetic units, peripherals and tool chains.

Of the kernel: messages and mailboxes, because every lock of the DSD version of
`FMTKmsg.c` asks for -1 retries and fails, after which its functions go on with
locals that were never set, and the FISA64 version calls a function that is not
there; focus switching; stacks and the saving of registers; decoding of
scancodes; a second processor.  Of the compiler: conditional, assignment and
floating point expressions, indirect calls, results of calls in r1 while another
call is made, and everything before and after code generation.  Of the memory
controller: arbitration, caches, and channels other than the one that reserves.

Planned, in this order:

1. `NodeSoftware`: `Xmit`, `Recv` and its pop, dispatch, the keyboard ring of
   `noc_boot11.asm`, addressing of keystrokes in `noc_boot21.asm`, composed with
   the registers of `RouterTop`; properties: each message dispatched once, no
   key overwritten unread, every ping answered.
2. `BMCNode`: the request loop of the bitmap controller.
3. `RingNode` and `Ring`: the Noc1 network; abstract specification shared with
   `MessageService`; properties: every packet leaves the ring, its sender gets
   its slot back.
4. `AssemblerPasses`: the pass loop of the DSD assembler (`main.cpp:1607-1651`),
   where equates are not checked for phase errors and 40 passes end an
   oscillation.
5. Proofs: the ports of the grid as instances of `LinkChannel`; index modes of the compiler, which need an
   invariant in which a number may stand for two registers; broadcasts, whose
   copies share an identity.

# uOS in TLA+

uOS is a preemptive real-time kernel for microcontrollers, with drivers and
libraries on top of it: timers, UARTs, memory pools, packet buffers, a TCP/IP
stack, an SNMP agent.  This directory holds a specification in TLA+ of its
kernel, and of the libraries and drivers above it that hold state under
concurrency, model-checked with TLC and in part proved with TLAPS.  Paths below are relative to `src/sources/` unless they
begin with `src/`.

Contents: [components](#components) · [modules](#modules) ·
[the kernel and its code](#the-kernel-and-its-code) ·
[the libraries and their code](#the-libraries-and-their-code) ·
[runs](#runs) · [what the checks found](#what-the-checks-found) ·
[proofs](#proofs) · [not modelled](#what-is-not-modelled) · [plan](#plan)

## Components

| component | code | state | operations | what is hard |
|---|---|---|---|---|
| tasks, scheduler | `kernel/main.c`, `internal.h`, `tcreate.c`, `tdelete.c`, `texit.c`, `twait.c`, `tyield.c`, `tsetprio.c` | the running task, the list of ready tasks, the reschedule flag; of a task: its base and current priority, what it is blocked on, the locks it holds | create, exit, delete, wait for the end of, yield, set priority | preemption inside a call; a task deleted in any state; deferred reschedule |
| mutexes (monitors) | `kernel/mutex.c`, `mtry.c`, `msignal.c` | master, recursion depth, waiters, tasks blocked ("slaves"), priority | lock, trylock, unlock, signal, wait | priority inheritance along chains of locks; `mutex_wait` gives a recursive lock up and takes it back |
| interrupts | `kernel/itake.c`, `irelease.c`, `iattach.c`, `kernel/<arch>/machdep.c` | the lock of each interrupt, its fast handler, pending flag, mask | lock_irq, unlock_irq, attach_irq, the interrupt | an interrupt on a busy lock is deferred to the release; a waiter must find its interrupt unmasked |
| groups | `kernel/mgroup.c` | slots (lock, message, active), the waiting task | init, add, listen, unlisten, wait | the signal before, between and after the scan and the suspension; stale slots |
| lists | `runtime/list.h` | two links in each element | append, prepend, unlink | an element is on one list only because append takes it off its list |
| timer | `timer/timer.c` | milliseconds, days, the next decisecond, user timers | tick (fast handler), delay, passed, user timers | rollover of the day, intervals modulo a day |
| buffers, queues | `buf/*.c`, `mem/mem-queue.h` | a ring, an array of rings by priority | put, get, exchange, clean | two counters, eviction, wrap-around |
| memory pool | `mem/mem.c` | an address-ordered list of holes | alloc, realloc, truncate, free | splitting and merging |
| UART, SLIP | `uart/uart.c`, `uart/slip.c` | two rings between tasks and interrupts | putchar, getchar, flush, the interrupt task | a fast handler that signals |
| streams, pipes | `stream/*` | a ring between tasks | read, write, close | blocking at both ends, closing |
| network | `net/*` | interfaces, ARP table, routes, UDP and TCP sockets | input, output, timers, socket calls | retransmission, reordering, sockets shared by tasks |
| SNMP, telnet, USB, file systems, flash, panel, drivers | `snmp`, `net/telnet.c`, `usb`, `fs`, `flash`, `gpanel`, … | device registers, encodings, tables | | |

How they interact: everything above the kernel is tasks that share state under
mutexes, wait on them and are woken by signals; an interrupt is nothing but a
signal on the mutex it is attached to.  The kernel therefore comes first: a
property of a driver or of the network stack is a property of a monitor.

What makes each correct:

* tasks and scheduler — a living task is ready or blocked in exactly one way;
  the best ready task runs; equal tasks take turns; a task that ends leaves
  nothing behind, and whoever waits for it is told;
* mutexes — one master, exactly as deep as it locked; who waits gives the lock up
  and gets it back as deep; a signal wakes all who wait; lists and back pointers
  agree; a task's priority is the maximum over the locks it holds, a lock's the
  maximum over the tasks it blocks, and neither stays raised without a reason;
  while the master of a lock is ready, nothing runs below the priority of the lock
  (along a chain of masters the code does not ensure it: finding 2);
* interrupts — pending only while the lock is held, never left masked under a
  waiter, the fast handler runs only under the lock or with the lock free;
* groups — a signal of any member is never lost, what is returned was signalled;
* queues — a packet comes out once, in order, and the oldest of the least
  important goes when a queue with priorities is full;
* memory pool — blocks and holes tile the chunks, no memory is given out twice,
  a block is as long as was asked for, and none is refused that a hole could hold;
* timer — a delay ends not before its time and ends; deciseconds do not stop;
* pipe, UART — a byte written is read once and in order; nobody sleeps beside
  what he waits for; the transmitter never stops with bytes in its buffer;
* UDP — a datagram is queued, handed out, or freed, never two of these;
* TCP — what is read is a prefix of what was written; what was accepted arrives,
  or the connection is given up.

## Modules

| module | contents |
|---|---|
| `KernelState` | the kernel's data as one record, and each C function that is not an entry point as an operator from record to record: list primitives, `task_policy`, `task_schedule`, `task_activate`, `mutex_activate`, the two mutually recursive priority recalculations, and the code that the entry points repeat (block on, acquire, disown, release a lock) |
| `Kernel` | the entry points as actions, the interrupt, the tasks' control state, `Init`, `Next`, `Spec` |
| `KernelProperties` | the type, the invariants, the action properties, fairness and the liveness property |
| `Monitor` | abstract specification of one mutex: owner, depth, the tasks kept out, those that wait, and how deep each is to have the lock again; `Kernel` implements it for every mutex |
| `MCKernel` | names and constant values for the instances; one `.cfg` per run |
| `MCMutex` | two instances of the kernel without interrupts, with one lock and with two, as behaviours of one run |
| `KernelInvariant` | `IInv`, the inductive invariant, in named parts |
| `KernelProofs` | lemmas on the functions of `KernelState`: which fields each changes, with two theorems that follow; lists of tasks that are separate stay so; each keeps the invariant of the data.  Then one lemma per action, `Init`, `Next`, and five theorems of `Spec` |
| `WakeupProofs` | a second inductive invariant, beside that of `KernelProofs`: groups and who waits for them, living tasks and the lists, interrupts and their locks; four theorems.  And each action of `Kernel` is a step of each `Monitor`, or leaves it alone |
| `PriorityProofs` | the running task leads the ready ones unless a reschedule is due: the scheduler makes it so, and every call, every level of a chain of inheritance and every interrupt keeps it so; and tasks and locks have the priorities they are owed; four theorems |
| `Fifo`, `LossyFifo`, `PrioFifo`, `Allocator`, `Stream` | abstract specifications: a bounded queue; one that may refuse what comes; one with priorities; an allocator of a pool; a stream of bytes |
| `Ring`, `BufQueue` | `buf/buf-queue.c`: the operators on the ring, and the queue as its users see it; implements `Fifo` |
| `BufPrio` | `buf/buf-prio.c`: rings by priority, eviction, exchange; implements `PrioFifo` |
| `MemPool` | `mem/mem.c`: init, alloc, free, realloc, truncate; implements `Allocator`, whose answers name the request |
| `PoolProofs` | the pool's invariants and its implementation of `Allocator`, proved |
| `Timer` | `timer/timer.c`: the tick, the day, deciseconds, `timer_delay`, a user timer |
| `Pipe` | `stream/pipe.c`: two rings between two ends; each implements `Fifo` |
| `UartOut`, `UartIn` | `uart/uart.c`: the transmitter against its interrupt and the line, implements `Fifo`; the receiver, implements `LossyFifo` |
| `Udp` | `net/udp.c`: sockets between the ip task and their users; each queue implements `Fifo` |
| `QueueProofs` | `BufQueue`, `BufPrio` and `Udp`, proved |
| `DriverProofs` | `Timer`, `Pipe`, `UartOut` and `UartIn`, proved |
| `Tcp` | `net/tcp*.c`: an established connection over an unreliable network, with one call of `tcp_write` at a time; implements `Stream` |
| `TcpProofs` | `Tcp`, proved: its lists and counts, and its implementation of `Stream` |
| `MCServices` | instances of these for TLC |
| `ServicesProofs` | in `MCServices` each library behaves as by itself |

`Kernel` EXTENDS `KernelState`, `KernelProperties` EXTENDS `Kernel`,
`KernelInvariant` EXTENDS it; `MCKernel`, with `MCMutex` on top, and the three proof
modules of the kernel stand on that.  `KernelProperties` makes an instance of `Monitor` for each mutex.
`BufQueue` and `BufPrio` use `Ring`; the others of the second half stand on their
own and are put side by side by `MCServices`.

The operators whose comment begins with "Fault:" are the same operators with a
plausible mistake; the specification does not use them.  Each serves to show
that a property can fail: with the fault in place of the operator after it, the
property that names it in `PROJECT.json` is violated.

## The kernel and its code

**Steps.**  A uOS entry point runs with interrupts disabled from its first to its
last statement, on one processor.  Nothing happens in between, except a
`task_schedule()` that switches to another task.  So an entry point is one
action when it does not switch, and otherwise one action up to the switch and
one for the rest, taken when the task becomes current again.  `frame[t]` says
where in the kernel a switched-out task will resume, with the C locals it needs
(`deep` in `mutex_wait`, the interrupt and handler of `mutex_lock_irq`, the
victim and message of `task_delete`).  While `frame[current]` is not `User` the
processor is inside the kernel with interrupts disabled, and the only steps are
those of that task.

A switch that is the last statement of an entry point needs no frame: nothing
remains to be done.  A loop around a switch (`while (m->master ...)`) is tested
again by each resumption.  `task_wait` is not an entry point but a loop around
three of them that runs with interrupts enabled: `joining[t]` is its program
counter, and the read of `base_prio` is a step of its own.

**Data.**  `list` maps each list head (`task_active`, `m->waiters`, `m->slaves`)
to a sequence of tasks.  A task's single `item` link makes `list_append` a move:
`ListAppend` takes the task off every list and appends it to one.
`t->slaves`, the locks of a task, is `owned`; `m->groups` is a sequence of
groups, since a lock occurs in a group once.  `k` also holds every other field
of `task_t`, `mutex_t`, `mutex_irq_t` and of the slots, except names, stacks,
ticks and private pointers.  `held` is not the code's: it counts the successful
locks minus unlocks of each task as the task sees them, for `HeldIsOwned`.

**Priority inheritance.**  `task_recalculate_prio` and `mutex_recalculate_prio`
call each other in tail position along task → lock it is blocked on → master.
`TaskLevel` and `MutexLevel` are one call each, on the part of the state they
read and write; `RecalculateFrom` iterates them with a recursive function until
a level names no next task.  Tasks that have locked each other out occur in a
chain again, but a level goes on only if it changed its task's priority: first
some are lowered, then some are raised, never lowered again.  So `MaxLevels`,
two changes for each task and priority, reach the end (`ChainOwes` proves it).

**Interrupts.**  The MSP430 port is the reference.  Taking an interrupt masks
it; `arch_intr_allow` unmasks it.  What a fast handler does is the driver's
code, so its outcome is chosen freely: whether it serviced the interrupt and
whether it unmasked it.  An interrupt can occur whenever it is unmasked,
attached and a task or the idle loop runs with interrupts enabled.

**The environment.**  Tasks call anything at any time, within the rules the
asserts and comments of the code state: a task unlocks only what it holds, does
not `mutex_lock` what it already holds (`assert` of `mutex.c:48`), one task at a
time waits for a group, a group is listened to once (`mgroup.c:63`), a dead
task's memory is reused only when nobody waits on its `finish`.  Two rules are
not written down, and are parameters: `Misuse` lists the rules the tasks do not
keep.  `"exit_holding_lock"`: a task ends while it holds locks (the code has a
loop for it; see the findings).  `"delete_group_waiter"`: a task that waits for
a group is deleted (nothing resets `g->waiter`, so the next signal would
activate the dead task).

## The libraries and their code

**Steps.**  Code that holds a mutex is one action from where it gets the mutex to
where it gives it up or waits on it, because everything it touches is touched
under that mutex alone; where the code takes two mutexes in turn, reads before
it locks, or uses after it unlocked, the two halves are two actions.  A task
asleep in `mutex_wait` becomes awake by a signal and then competes for the lock:
two steps.  Interrupts are steps of their own at every point where they are
unmasked; a fast handler that finds its lock busy runs when the lock is given
up, in the same step (`kernel/mutex.c:205`).

**`BufQueue`, `BufPrio`.**  `tail` and `count` step as in the code, in an array
of `Size` places; what a place outside of the queue holds stays there
(`Garbage`), so that a get of one too many is seen.  Callers own a packet they
have allocated or taken out; `QueueOwnsItsPackets` says that nobody else does.

**`MemPool`.**  Addresses, headers and sizes are numbers; a hole is
linked by address, a block is a size.  `mem_realloc` and `mem_truncate` read the
size of a block with nothing locked and use it after; the steps of others fall
between.  `answer` is what the last call returned, together with what it had been
asked for: `Allocator` can then tell a refusal of this request from one of a longer
one, and a block that is too short from one that is not.

**`Timer`.**  The clock counts to `Day`, and the unsigned arithmetic wraps at
`Word`.  A tick that comes while the lock is held waits in `pending`, and the interrupt
is masked until it is served.  `since` and `late` are not the code's: they count
the time since `timer_delay` was called, for the properties.

**`Pipe`.**  Both ends, each with any number of tasks in putchar, getchar, flush
and close, at any time and in any order.  All of them sleep on one lock.  Each end
has characters of its own (`MasterChars`, `SlaveChars`).

**`UartOut`.**  The transmitter of MSP430: the transmit buffer, the shift
register, the interrupt's enable bit and flag, and CTS, which may change at any
time.  The fast handler signals the lock (`uart.c:42`), which may switch to the
woken task before the rest of the handler has run: `suspended` holds such rests.

**`UartIn`.**  The receive interrupt wakes the receiver task and the readers
together.  Bytes are lost at a full ring, so the promise is `LossyFifo`.

**`Udp`.**  The list of sockets under `ip->lock`, each queue under `s->lock`.
`usock[s].master` is set only where a lock is held across two actions.

**`Tcp`.**  Segments and acknowledgements are a set of messages from which any
may vanish, stay for a second arrival, or be overtaken.  Byte `k` of the stream
is the number `k`.  Sequence numbers are modulo `SeqWord` and compared as the
code's macros do; the stream starts one short of the wrap.  One action is the
handling of one message (`tcp_receive` to its end, then `tcp_output`), one the
expiry of the retransmission timer, one each half of `tcp_write` (`writing` says
that the second, `tcp_output`, is still to come) and of `tcp_read_poll`.

*Rule of use: one call of `tcp_write` at a time, and data one way.*  The ip task
works on a socket with both `ip->lock` and `s->lock`.  `tcp_write` queues with
`s->lock` alone (`tcp-user.c:126-149`) and then sends with `ip->lock` alone
(`:153-155`).  Each half excludes the ip task, so each is one step; but one call's
queueing and another's sending do not exclude each other, and the lists of the
socket do not survive that (see what was seen while modelling).  With one call at
a time, the two halves follow each other.

## Runs

The runs down to the five violations are instances of the kernel, in `MCKernel` or
`MCMutex`.  Deadlock is not checked: the system may come to rest with the idle task
running, all tasks having ended or waiting.

| run | instance | shows | distinct states |
|---|---|---|---|
| `MCMutex` | three tasks of priorities 1, 2, 3, in two instances.  *One lock*: `a`, recursion 2, signals, joins, deletions, priority changes to 1.  *Two locks*: `a`, `b`, nested in either order, priority changes to 1 and 4, no recursion, no signal of a waiter, no end of a task | `ListsConsistent`, `NoTaskLost`, `DeadIsForgotten`, `HeldIsOwned`, `TaskPrioIsInherited`, `BestTaskRuns`, `LockPrioIsBacked` | 1,088,693 |
| `MCInterrupts` | three tasks, lock `a`, recursion 2, interrupt `i1` on it, signals | `InversionIsBounded`, `PendingOnlyWhileLocked`, `OnlyCreateDefersSwitch`, `WaiterStaysArmed`, `ImplementsMonitors` | 1,278,766 |
| `MCGroups` | two tasks, locks `a`, `b` in a group, interrupt on `a` | `IInv`, `TypeOK`, `GroupSignalNotLost` | 851,542 |
| `MCRoundRobin` | three tasks of priority 1, lock `a`, fairness | `RoundRobin` | 41,908 |
| five runs that expect a violation | as small as the violation allows | see the findings | |
| `MCServices` | each library in behaviours of its own | the table below | 189,693 |
| `MCConnection` | `Tcp` with four bytes, written by ones and by threes, segments of two, room for five, a window of three, two messages under way | `SendListsAgree`, `ImplementsStream` | 518,819 |
| `MCDecisecStops` | `Timer` with ticks of 100 ms; expects a violation | finding 6 | |

`MCServices` is one run of nine libraries that share no state: its initial
states name the one that is used, and the variables of the others stand still,
so that its states are the sum of theirs and not the product.

| library | instance | invariants | action and temporal properties |
|---|---|---|---|
| `BufQueue` | three packets, two places | `QueueOwnsItsPackets` | `ImplementsFifo` |
| `BufPrio` | three packets, two queues | `CountsAgree` | `ImplementsPrioFifo` |
| `MemPool` | two chunks, two users, requests of 1 and 12 bytes | `PoolIsSound`, `UnlockedWorkIsSafe` | `ImplementsAllocator` |
| `Timer` | ticks of 60, a day of 400, delays of 50 and 130 | `NobodyOversleeps` | `EveryDecisecond`, `DelayIsLongEnough`, `DelayReturns` |
| `Pipe` | one master that writes two characters, two slaves that write a third, three places | `NobodySleepsInVain` | `ImplementsStreams` |
| `UartOut` | one sender, one flusher, the task that calls `uart_cts_ready`, three places, newlines | `TransmitterRuns` | `ImplementsLine`, `PutcharReturns` |
| `UartIn` | two readers and the receiver, four places | `ReaderMissesOneByte` | `ImplementsReception` |
| `Udp` | one socket, two peers, three datagrams, two tasks, two places | `NoDatagramIsLost` | `ImplementsSocketQueues` |
| `Tcp` | two bytes, segments of two, a window of two, two messages under way | | `DataArrives` |

`TypeOK` of `MCServices` is the conjunction of the types of the nine.

**Bounds.**  `MaxDeep` bounds the recursion of a lock in the guards of trylock
and lock_irq (2 is the first depth at which a lock, given up by `mutex_wait`
and taken by others, could come back wrong).  `Messages` has one message: the
properties tell a message from none.  Three tasks are the first number with a
blocked task, a master and a bystander, which inversion needs, and with a chain
of two locks; two suffice for groups, which serve one waiter.  `SetPrios` has a
priority below every other and, in `MCMutex` with two locks, one above.  In `MCInterrupts` it is empty, for
the second half of `InversionIsBounded`: that no task runs below the priority of
the *lock* holds always, that none runs below the own priority of the task
blocked on it only while `task_set_priority` is not called: a blocked task that
inherited a priority, which blocking does not pass on (finding 2), may be given the
same as its own, and then nothing changes that would be passed on.  Priorities of
tasks are distinct except in `MCRoundRobin`.  Nothing else is bounded: tasks are
created, deleted and created again for ever.

In `MCServices`: a ring of two or three places is full, empty, and wrapped in
every combination of its pointers; three packets are one more than fit, and two
more would add nothing the operators distinguish.  The pool's chunks are as small as allow a hole that is split,
one that is taken whole because the rest could hold no header, and merges on either side
and on both.  A day of 400 ms has a midnight between ticks, on a tick and in a
delay; `MaxLate` bounds how many ticks pass before a woken task runs,
`MaxBacklog` where the arrears of an unattended user timer stop counting,
`MaxSuspended` how many handlers are switched away from at a time (a second one
needs a second woken task that waits).  A nearly full ring of the UART needs
three places because CR-LF is two bytes.

TCP is the one whose instances are far from its bounds in the code.  That of
`MCServices` is there for liveness: two bytes in segments of at most two give one
segment or two, and two messages under way each order and each loss of a segment
and an acknowledgement.  `MCConnection` is there for safety: four bytes in writes of
one and three make segments that are chained or apart, whole, trimmed at the front,
behind the window or acknowledged in part, a full sender, data queued behind segments
that wait for a retransmission, and segments in disorder with a gap.  The sequence
numbers wrap after the first byte.  Two UDP sockets with one peer and two datagrams
were checked by themselves: 1,269,000 states, and nothing that the one socket of
`MCServices` does not show.

**Fairness** is used in `MCRoundRobin` and `MCServices`.  In the first, weak
fairness of `BootStep`:
`uos_init()` creates its tasks and returns.  Weak fairness of `Resume(t)` and of
the three steps of `task_wait`: the processor executes the instructions of the
current task, and with nothing above it a task inside a call is not kept from
it.  Strong fairness of `TaskYield(t)`: each task, however often it is
preempted, gives way in time — the obligation of a cooperative application of
equal priorities, and exactly what round-robin needs.  No fairness is assumed of
locks, signals or interrupts.

In `MCServices`, four properties are liveness.  `DelayReturns` assumes that the
timer interrupts, that a task which has the timer's lock goes on, and that a
woken task gets a lock that is free again and again (strong: others may take it
in between; the kernel gives it to the best task, and a sleeper is kept off only
by tasks above it that never rest).  `PutcharReturns` assumes that the shift
register empties and the transmit interrupt is taken, that the sender goes on,
that a handler switched away from is resumed, and that `uart_cts_ready` is called
once CTS is on again, which is what that function is for.  `DataArrives` assumes
that the retransmission timer runs out, that the reader reads when there is data, and that the writer goes
on, which nobody keeps from its locks for ever.  It assumes nothing of the network, which may lose
everything: then the connection must be given up.

## What the checks found

1. **A task that exits holding a lock never ends** (`MCExitHoldingLock`,
   `kernel/tdelete.c:31-50`).  `task_delete` unlinks the task, sets
   `task_need_schedule`, then unlocks its locks; the first `mutex_unlock` sees
   the flag and switches away from a task that is on no list.  Its remaining
   locks stay held, its `base_prio` stays, and `task_wait` on it never returns.
2. **Inheritance is not transitive on blocking** (`MCTransitiveInheritance`,
   `kernel/mutex.c:65-73`).  `mutex_lock` raises the lock and its master, not
   the lock the master is blocked on; the recalculations do follow the chain.
   Therefore `LockPrioIsInherited` fails, and only one half of it holds:
   `LockPrioIsBacked`, no lock is raised without a reason.
3. **A slot survives unlisten** (`MCStaleSlot`, `kernel/mgroup.c:75, 97`).
   `message` is cleared and `active` is not, so a later wait returns the lock
   with a message nobody sent.
4. **`task_wait` can miss the end of the task** (`MCWaitForExit`,
   `kernel/twait.c:31-32`).  The test of `base_prio` and `mutex_wait` are two
   calls; `task_delete` does not take `finish`, so its signal may fall between.
5. **A fast handler runs in another task's critical section**
   (`MCPendingHandler`, `kernel/msignal.c:63-66`), when a task that does not hold
   the lock waits on it while an interrupt is pending.
6. **Deciseconds stop at the first midnight when the tick is 100 ms**
   (`MCDecisecStops`, `timer/timer.c:206-219`).  `next_decisec` is raised once in a
   tick, so it equals the clock after each; at midnight it is below a day, and
   the subtraction of a day wraps it to the far end of the word.  No decisecond is
   signalled then until the following midnights have brought it down through the
   whole word, about 49.7 days later.

Seen while modelling, and kept out of the runs because nothing in the repository
promises otherwise; each is excluded by an assumption or a rule of use named here:

* *timer* — a delay of a day or more never returns (`timer.c:319`; assumption
  `DelaysFit`); with `USEC_TIMER` a millisecond is counted late (`:198`); a group
  on a user timer's lock is not signalled (`:239`).
* *queues* — `mem_queue_free` never ends if there is anything to free
  (`mem/mem-queue.h:28`); not modelled.
* *UART* — two tasks in `uart_putchar` may compute the same place before they
  wait (`uart.c:122`): the model has one sender.  The receiver stores one byte
  without a signal (`uart.c:239`): `ReaderMissesOneByte` says that it is never
  more than one.
* *TCP* — with two calls of `tcp_write` at a time, one queues while the other sends:
  `tcp_enqueue` tests `s->unsent`, walks to its last segment and links there with
  `s->lock` alone (`tcp-out.c:140-171`), `tcp_output` moves that list with
  `ip->lock` alone (`tcp-out.c:343-354`).  New data may be linked behind a segment just
  sent while older data is unsent, the walk may find the list empty, the assert of
  `tcp-out.c:181-183` may fail, and what is linked behind `seg` before
  `seg->next = 0` is lost.  When data flow both ways the same `tcp_output` is called by
  the acknowledgement of `tcp_read` (`tcp-user.c:196-200`) and by `tcp_fasttmr`
  (`tcp.c:144-149`).  Hence the rule of use.  A segment that finds the 16 places of the receive queue taken is
  acknowledged and dropped (`tcp-in.c:362`; `TcpConstants` keeps windows within
  the queue).  `nrtx` can jump over `TCP_MAXRTX` (`tcp.c:45`; the model keeps its
  width, and the connection still ends, after the wrap).  There is no persist
  timer: a lost window update stalls the writer (`tcp-out.c:337`; `DataArrives`
  speaks of windows that hold all the data).  `tcp_connect` sets `snd_wl1` from the window
  (`tcp-in.c:502`; hence `Edges`).  If it compares as newer than the peer's sequence
  number the writer takes no window update, only acknowledgements: it sends beyond the window, and
  acknowledged bytes are lost at a full receive queue although the windows fit it
  (one writer, seven bytes in segments of two, a window and a queue of two, one
  message under way: 27 steps; the attempt to prove `ImplementsStream` without
  `WindowFollowed` led there).  `tcp_accept` uses the sequence number of
  whatever segment came last (`tcp-user.c:338`), `tcp_connect` waits before it
  tests the state (`tcp-user.c:87`), `tcp_slowtmr` goes on from a socket that may
  have been moved to another list (`tcp.c:81`), `tcp_read` drops the rest of a buffer longer
  than asked for (`tcp-user.c:205`), `tcp_write` of more than `TCP_SND_BUF` bytes
  never returns (`tcp-out.c:40`).  `tcp_close` sets the state of a socket that was
  closed while it waited for room (`tcp-user.c:394`), `tcp_abort` takes a socket off
  the active list only (`tcp-user.c:455`), and `tcp_slowtmr` frees a socket in
  `TIME_WAIT` without a signal to who sleeps in `tcp_close` (`tcp.c:116`).
* *UDP, IP, ARP* — `udp_close` does not wake who sleeps in `udp_recvfrom`;
  `udp_socket` keeps the old peer of a socket used again; `ip_output_netif` takes
  a gateway and then passes `dest` on (`ip.c:279-281`); a sender reads the ARP
  table without `ip->lock` (`netif.c:18`).

## Proofs

Everything below is proved for every value of the constants: any finite set of
tasks, any mutexes, interrupts, groups and priorities, any `MaxDeep`; any packets,
characters, datagrams and sizes of the rings; any chunks of memory and requests;
any ticks and delays; any lengths of writes, segment sizes, windows and messages under way, within the assumptions named below.

| theorem | module | says |
|---|---|---|
| `Shape` | `KernelProofs` | every call leaves a record with the kernel's fields; base priorities and frames are total |
| `SwitchesAreNotDeferred` | `KernelProofs` | `Spec => OnlyCreateDefersSwitch` |
| `KernelInductive` | `KernelProofs` | `Spec => []IInv` |
| `TypeCorrect` | `KernelProofs` | `Spec => []TypeOK` |
| `ListsStayConsistent` | `KernelProofs` | `Spec => []ListsConsistent`: the asserts on lists, owners and depths never fail |
| `DeadStaysForgotten` | `KernelProofs` | `Spec => []DeadIsForgotten` |
| `LocksAreHeld` | `KernelProofs` | `Spec => []HeldIsOwned` |
| `KernelImplementsMonitors` | `WakeupProofs` | `Spec => ImplementsMonitors`: every mutex refines `Monitor` |
| `TasksAreNotLost` | `WakeupProofs` | `Spec => []NoTaskLost` |
| `GroupSignalsAreNotLost` | `WakeupProofs` | `Spec => []GroupSignalNotLost` |
| `PendingIsServed` | `WakeupProofs` | `Spec => []PendingOnlyWhileLocked` |
| `WaitersStayArmed` | `WakeupProofs` | `Spec => WaiterStaysArmed`: while a task waits on a lock whose interrupt has no fast handler, the interrupt, once unmasked, stays attached and unmasked until it comes or the lock's master detaches it with `mutex_unlock_irq` |
| `BestTaskAlwaysRuns` | `PriorityProofs` | `Spec => []BestTaskRuns` |
| `TasksInheritPriorities` | `PriorityProofs` | `Spec => []TaskPrioIsInherited` |
| `LocksDropPriorities` | `PriorityProofs` | `Spec => []LockPrioIsBacked` |
| `NobodyInvertsPriorities` | `PriorityProofs` | `Spec => []InversionIsBounded`, of a lock whose own master is ready |
| `RingIsSound` | `QueueProofs` | `QueueSpec => []QueueOwnsItsPackets`, with the type of the ring |
| `RingIsFifo` | `QueueProofs` | `QueueSpec => ImplementsFifo`: the ring refines a bounded FIFO |
| `CountsOfTheQueueAgree` | `QueueProofs` | `PrioSpec => []CountsAgree`, with the type |
| `RingsImplementPrioFifo` | `QueueProofs` | `PrioSpec => ImplementsPrioFifo` |
| `NoDatagramGetsLost` | `QueueProofs` | `UdpSpec => []NoDatagramIsLost`, with the type |
| `SocketsImplementFifos` | `QueueProofs` | `UdpSpec => ImplementsSocketQueues` |
| `PoolStaysSound` | `PoolProofs` | `PoolSpec => []PoolIsSound`, with the type |
| `UnlockedWorkStaysSafe` | `PoolProofs` | `PoolSpec => []UnlockedWorkIsSafe` |
| `PoolImplementsAllocator` | `PoolProofs` | `PoolSpec => ImplementsAllocator`: a block is as long as its request, and a request is refused only when no free stretch has its length |
| `NobodyOversleepsOnTheClock` | `DriverProofs` | `TimerSpec => []NobodyOversleeps`, with the type |
| `DelaysAreLongEnough` | `DriverProofs` | `TimerSpec => DelayIsLongEnough` |
| `EveryDecisecondIsSignalled` | `DriverProofs` | `TimerSpec => EveryDecisecond`, if no tick is of 100 ms |
| `NobodySleepsInVainOnThePipe` | `DriverProofs` | `PipeSpec => []NobodySleepsInVain`, with the type |
| `PipeImplementsStreams` | `DriverProofs` | `PipeSpec => ImplementsStreams` |
| `TransmitterNeverStalls` | `DriverProofs` | `OutSpec => []TransmitterRuns`, with the type, for one sender |
| `TransmitterImplementsFifo` | `DriverProofs` | `OutSpec => ImplementsLine`, for one sender |
| `ReadersMissAtMostOneByte` | `DriverProofs` | `InSpec => []ReaderMissesOneByte`, with the type |
| `ReceiverImplementsLossyFifo` | `DriverProofs` | `InSpec => ImplementsReception` |
| `TcpTypeCorrect` | `TcpProofs` | `TcpSpec => []TcpTypeOK` |
| `TcpSendLists` | `TcpProofs` | `TcpSpec => []SendListsAgree`: the sender's lists and counts, with one call of `tcp_write` at a time |
| `TcpImplementsStream` | `TcpProofs` | `TcpSpec => ImplementsStream`, with one call of `tcp_write` at a time, if the writer takes window updates |
| `ServicesTypeCorrect` | `ServicesProofs` | `Spec => []TypeOK` of `MCServices`, for one sender |

**Assumptions.**  Each module names what it assumes of its constants, and TLC
evaluates that in every run: `KernelConstants`, `KernelParameters` and
`NoneIsNoJoining` (two values of `joining` are told apart); sizes that are at least
one, values that stand for "nothing" outside of what they are told apart from, sets of tasks that do not overlap; of the timer, that a day is a multiple of 100 ms and
longer than one decisecond, that a tick is at most a decisecond, and that no delay
is so long that the last tick before midnight passes over it (`DelaysFit`, which
the code does not test); of the pool, that chunks are aligned, large enough and
given from the highest to the lowest, as `mem_init` asks; of TCP (`TcpConstants`),
that the stream, and twice a window with a segment, are shorter than half and all of the range
of sequence numbers, which is how the code may compare them by a sign; that the
congestion window has room for a segment and the retransmissions fit their
counter; and that no window is larger than the receive queue has places, which
the code does not ensure.  The three theorems of TCP are about its rule of use, one
call of `tcp_write` at a time and data one way.  Some theorems assume more:

* those of `KernelProofs`, `WakeupProofs` and `PriorityProofs`, except its first two, that
  `"delete_group_waiter"` is not in `Misuse`: with it they are false, since
  `g->waiter` keeps pointing to a deleted task.  They do *not* assume anything of
  `"exit_holding_lock"`: a task that never finishes its exit (finding 1) is
  unlinked all the same;
* `EveryDecisecondIsSignalled` that every tick is shorter than 100 ms, which is
  finding 6;
* the two of the transmitter, and `ServicesTypeCorrect` for its part,
  `OneSender`: with two, one overwrites the place that the other computed before
  it slept (`uart.c:122`);
* `TcpImplementsStream` that `snd_wl1` does not begin newer than what the peer
  sends (`WindowFollowed`, which `tcp_connect` does not ensure, `tcp-in.c:502`).
  Without it the theorem is false: see the findings.  The two others of TCP do not need it.

**The kernel: why an inductive invariant is needed.**  None of the properties is inductive
by itself.  `mutex_signal` appends the right tasks to the active list only if
the lists are separate and agree with `t->wait`; they stay so only if the task
that runs is linked where the kernel thinks it is; a deleted task never runs
because it is on no list and waits for no group; and that a task owns what it
holds needs that a task which resumes in the loop of `mutex_lock` is not the
master of the lock it is about to take, for `task_wait` also that `finish` is
taken once and by `task_wait` alone.  `IInv` is the conjunction of

* `ListInv`, `WaiterInv`, `OwnerInv`, `FreeInv`, predicates of the kernel's data:
  lists separate, in agreement with `lock` and `wait`; a group's waiter on no
  list and waiting for one group; owned locks in agreement with masters and
  depths; a free lock blocking nobody;
* `CurrentInv`: the running task is ready, or deletes itself and a reschedule is
  due; `AbsentInv`: a dead or dying task is out of the kernel's reach;
  `BlockedInv`, `FinishInv`, `HeldIsOwned`: what each task's place in the code
  says of the locks.

`MCGroups` checks it with TLC first.

**The argument.**  `KernelProofs` begins with the functions, in three parts.  First, for each operator a lemma
`Changes(s, Op(s), F)`: the result is a record with the same fields and differs
from `s` only in `F`; `ChangesTrans` composes them.  `ShapeInv` is inductive
alone.  For `SwitchesAreNotDeferred`, each action ends in `TaskSchedule` or
`ScheduleIfNeeded` (which clear the flag), leaves the flag alone, leaves the
current task inside the kernel, or is `TaskCreate`.  Then, a separate family of
lists stays separate.  Last, every function of `KernelState` keeps
`KInv`, the part of the invariant that is about the data, and `Grows`: it takes
no ready task away, keeps a reschedule that is due, and makes no task present
that was not.  Two of these use induction over the naturals, in the form of a
set (`NatSetInduction`, from the well-foundedness of `<`): the loop over the
groups of a lock, and the chain of priority recalculations, whose every level
keeps its type.

It then restates `IInv` as `Inv`, in which what is said of the tasks is
`TaskInv(t)` for each of them.  Each action then has one lemma: the data by
the lemmas on the functions; the running task by `SettledCurrent` (a call that ends in a
reschedule leaves a ready task running); the other tasks by `OtherTask` (nothing
they are judged by has changed); the acting task by its case.  Calls that share
a body share a lemma: `LockLoopInv` for lock, trylock, lock_irq and task_wait,
`ReturnedKeeps` for the unlocks, `SuspendInv` for the waits.

The second half of `WakeupProofs` reduces the kernel to what a monitor sees of it.  `CalmChange`,
`ActivateWakes`, `ReleaseFrees` say of each function that it leaves masters,
depths, `lock` and `wait` alone, or wakes whoever waits on one lock; the lemmas
named `...Steps` turn such an effect, with the frames of `mutex_wait`, into a step
of the monitor concerned and a stutter of all others; the lemmas named
`...Monitors` are the actions.  It needs the invariant: a ready task is neither
kept out nor waits (`ReadyIsFree`), a task that resumes in a lock loop is not the
master (`Blocked`), a free lock has depth 0, and what `task_delete` unlocks belongs
to the task it deletes.

`WakeupProofs` adds `WakeInv` to `Inv`; none of the properties is
inductive by itself.  A signal to a group wakes its waiter only if that waiter is
in `mutex_group_wait` of this group, alone (`GroupsInv`), and that a woken task
finds a signal needs that nobody else takes it.  A living task is `Present`
(`AliveInv`); that it is in *one* place follows then from `ListInv` and
`WaiterInv`.  A release serves the interrupt of its lock only if the two point to
each other, and to the driver's own lock (`IrqInv`): else an interrupt could be
detached from one and stay pending for another.  `Stays` and `IrqStays` say what a
function of the kernel must leave alone for this; `StaysChange` and `IrqChange`
take it from the first lemmas of `KernelProofs` for every function that changes none of
the fields concerned, and the rest have a lemma each.  `KeptWakes` then settles
all actions in which nobody enters or leaves `task_delete` or `mutex_group_wait`;
the four that are left (`CreateWakes`, `DeleteWakes`, `FinishWakes`, `GroupWakes`)
are done by hand.  The rule that a task which waits for a group is not deleted is
used in `DeleteWakes`.

`WaitersStayArmed` follows from the same invariant by what a step does to
`allowed`, `wait` and `irq` (`Arms`): only `mutex_wait` begins a wait, and it unmasks
the interrupt; a release unmasks too; only the interrupt masks, and it either wakes
everyone who waits or is one with a fast handler.  Only `mutex_unlock_irq` detaches,
and its caller is the master (`UnlockIrqArms`); what is attached to an interrupt's lock
is always that interrupt (`IrqInv`), so that `mutex_lock_irq` and `mutex_attach_irq`
attach the same one again (`AttachedArms`).

`PriorityProofs` adds `Best(k)` to `Inv`: a reschedule is due, or the running task
is ready and no ready one has a bigger priority.  After `task_schedule` it holds
whatever came before (`PolicyLeads`: the loop of `task_policy` finds the first of
the best, since the idle task is ready by `CurrentInv`).  Elsewhere it must be
kept: by `task_activate`, which compares what it makes ready with the running task
(`ActivateBest`); by a task that acquires a lock, which is the running one and can
only be raised (`AcquireBest`); by `task_create`, whose task is on no list while its
priority is set; and by priority inheritance.  There it is a property of each level
of the chain (`TaskLevelBest`): a task whose recalculation does not test for a
reschedule is blocked or waits, and so is not ready; one that is ready asks for it
when it passes the running task, or is the running task and is lowered.
`ChainWithin` carries what every level keeps to the end of the chain, whatever its
length.  One lemma per action then uses that `Inv` holds of the new state.

Inheritance itself adds `InheritInv` (`KernelInvariant`): every task has exactly
what it is owed, `OwedBut(s, {})`; a lock has its priority from a task blocked on
it, `LocksBacked`; without `task_set_priority`, no task is blocked on a lock of a
priority below its own, `OwnPriosServed`.  In the middle of a chain it holds of all
tasks but the one that is to be recalculated next (`TaskLevelOwes`,
`MutexLevelOwes`); what is left is that the chain has an end, for then nobody is
excepted.  It is not that no task occurs twice: tasks that have locked each other
out are a circle, and the chain may go round it.  But a level goes on only after it
changed its task, a chain that has begun to raise goes on raising (`RiseGoesOn`),
and so each level uses up one of finitely many changes, those down before those up
(`LevelsLessen`): `ChainOwes`, by induction over a set that shrinks, within
`MaxLevels`.  `mutex_unlock` and `mutex_wait` skip the recalculation on a condition
of their own (`mutex.c:200`); that nothing was due then is `DisownInherits`.  The
caller is not blocked itself (`RunnerIsFree`), so giving a lock up lowers only the
one who gives it up.  In `NobodyInvertsPriorities` the three parts meet: the best
ready task has at least the priority of the ready master, that one at least its
lock's, and that at least the own priority of whoever is blocked on it.

**The queues.**  `QueueProofs` rests on one fact about the arithmetic, `PlacesOfContents`:
the places of the 1st to the `count`-th packet behind the tail, wrapped, are all
different, and different from the next free one unless the ring is full.  From it follow what a put, a get and a
clean do to the contents as a sequence (`PutAppends` and its companions), and
from these, action by action, both theorems of `BufQueue`.  The inductive invariant is the type of
the ring and the agreement of its contents with the owners of the packets.

For `BufPrio`, `OnceIn` says of a family of sequences that together they hold the packets
of a set, each once: putting, taking and exchanging keep it (`OnceAfterGain`,
`OnceAfterLoss`), and the count of all packets is the cardinality of the pairs of a
ring and a place in use (`UsedOf`), so that it grows and shrinks with them without
a sum.  The loops that look for a ring from the least or the greatest priority are
a least and a greatest number (`Least`, `Greatest`).  `Udp` uses the same family,
with a ring for each socket.  Its invariant, `UdpIInv`, has the queues
(`SocketsHold`), a list of sockets without repetition (`LinkedOnce`), where the ip
task is (`IpHolds`: the socket it found is still open and listed, since it holds
`ip->lock`) and where each user is (`TasksHold`).

**The pool.**  `PoolIInv` is `HeadersHold /\ HolesHold /\ CallsHold`: headers do not
overlap, have room for a hole and cover exactly the memory; the free list is all
holes in the order of addresses (`Lists`), no two of them touch (`Apart`), and
`free_size` is the number of their bytes; what a call in progress works on is
its caller's, and large enough still.  Headers are a function from addresses to sizes: a split is
`CutInto`, a merge `MergedInto`, and what the list does is a lemma for each of an
insertion, a replacement and a removal (`InsertedIsListed` and so on).  The heart is
`NeighbourIs`: since the list is in the order of addresses, the place where the walk
of `make_hole_locked` ends has the only holes that can touch the new one, below it
and above it; so one step (`HoleBehind`, `HoleInFront`, `HoleAtTheEnd`) leaves no
two that touch.  That is why an allocation is refused only if no stretch of free
memory is long enough: by `StretchInOneHole` any stretch lies within one hole.

**The drivers.**  In `DriverProofs` the three rings of characters of the pipe and
of the UART are one (`RingSeqPut`, `RingSeqTake`).  The pipe's invariant says of
each sleeper that its ring is full, empty, or not yet empty, as the call it sleeps
in needs; a step that ends this wakes everyone (`AllWokenIInv`).  The receiver's
says where the receiver and each reader can be, that a byte in the register is
fresh only while an interrupt is on its way or the receiver runs, and that who
sleeps beside bytes sleeps beside one (`AsleepOnOneByte`).  The transmitter's is `Runs`: with
bytes in the ring or a task asleep, while CTS is on, the interrupt is enabled and
coming, or is pending on the lock, or its handler was switched away from; the byte
in TXBUF and those of the ring behind it (`ToSend`) are what the line has still to
carry.  The timer's is `OnTime`: the time
counted in `since` is what the code computes from the clock modulo a day, and a
task asleep is not due; that needs that a day is longer than a delay and a tick.

**The connection.**  `TcpProofs` does its arithmetic on positions in the stream, not
on sequence numbers: for numbers of the stream (`SeqNos`) every comparison of the
code is the comparison of their positions (`ComparePositions`), and this is where
the stream has to be shorter than half of the range.  `Stretch(a, b)` are the bytes
from `a` to `b`, and a list of segments `Tiles` a stretch if each begins where the one
before ends; joining, cutting off the front, and chaining to the last segment
(`TilesJoin`, `TilesRest`, `LinkedIs`) then say what the code does to its lists.  A list
`Holds` what is not acknowledged if it tiles up to the last byte written and only its
first segment is partly acknowledged.

The invariant has three layers.  `SndInv` is the sender's socket by itself:
`unacked` and `unsent` *together* hold what is not acknowledged, so that nothing is said of
where one ends and the other begins; that is why it survives a retransmission
and an acknowledgement of segments on the unsent list.  `TcpInv` adds that every
segment under way carries the bytes of its position.  From these follow the types
and `SendListsAgree`.  Neither is enough for the stream: that an acknowledged byte is
at the reader, and that the reader's queue has had room for it,
relate the two sides.  `WindowInv` says that the acknowledgement the writer has is not ahead
of what the reader has, and that what the writer may send (`lastack` and the window),
every segment and every acknowledgement under way stay within the window
that the reader has opened (`Opened`), however old they are; for this an
acknowledgement that brings no window must not advance `lastack` alone, which is what
`WindowFollowed` is for.  `ReaderInv` says that the queue holds the bytes from those read to
`rcv_nxt`, none of its buffers empty, and that they and the window that is left are
the window announced: so a queue of that many places is full only when the window is
closed, and the branch that drops a segment is never taken.

The refinement then has one line: what is unread is `Stretch(Len(received), Upto)`
(`UnreadIs`), up to the last byte written, or, after the connection is given up, to
`rcv_nxt`.  `tcp_enqueue` moves the far end, `tcp_read` the near one, giving up cuts back to `rcv_nxt`,
and everything else, retransmissions and the network included, is a stutter.

**Together.**  The libraries share no variable, so that each step of `MCServices` is a
step of each library or leaves it alone (`LibrariesBehave`): what is proved of a library
holds in `MCServices`, its `TypeOK` and all that the run checks of it.

**Only model-checked.**  `RoundRobin`, `DelayReturns`, `PutcharReturns` and
`DataArrives`, since liveness under fairness is beyond the prover; and what a
violation shows.  All other properties of the runs that pass are theorems, within the
hypotheses above.

## What is not modelled

In the kernel: the other processor ports (their entry code differs in registers,
not in the order of the kernel's steps), stacks, FPU contexts, printing, and
`task_name`, `task_stack_avail`, `task_priority`, private data, which change no
scheduling state.  `mutex_group_init` and `_add` are replaced by the constant
`Members`.  `mutex_init` on first use is folded into the initial state: an
untouched `mutex_t` is zero and behaves as an initialised one.  An interrupt
after `mutex_unlock_irq` while it is still unmasked dereferences a null pointer;
the model's `Interrupt` excludes it and `PROJECT.json` lists it as a hazard.
Fast handlers that call the kernel (the UART transmitter does) belong to the
driver's model.

Above the kernel, of the components that are modelled in part:

* *timer* — `USEC_TIMER`, and the set-up of the hardware counters;
* *packet buffers* — the chains of `buf.c` (`buf_make_continuous`, `buf_add_header`
  and the rest are layout), `mem-queue.h`, whose put and get are those of the ring;
* *UART* — framing and overrun errors, `set_baud`, other processors' registers;
* *streams* — `pipe.c` is; the others convert or copy text;
* *UDP* — sending, which changes no socket state; ports, since all sockets of the
  model share one; *IP, ARP, routing, ICMP* — header layouts, table look-ups and
  counters;
* *TCP* — the handshake, closing and resets, listening sockets, the choice of the
  congestion window and of the interval of the timer (any value is possible in the
  model), data in both directions at once, several calls of `tcp_write` at once.

Not modelled at all: drivers whose behaviour is in device registers, encodings
(SNMP, checksums, printing), SLIP's byte stuffing and third-party code (Tcl, regexp,
everything under `src/contrib`).  The last is most of the repository by size.

## Plan

What is left, in this order.

1. **TCP's other states**: handshake and close between two full endpoints, with
   resets and `TIME_WAIT`; data in both directions.
2. **ARP** and **SLIP**: the table under the ip task and a sender without lock;
   stuffing over `UartIn`'s structure.

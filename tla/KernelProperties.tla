-------------------------- MODULE KernelProperties --------------------------
(***************************************************************************)
(* What the kernel promises: the consistency of its lists, ownership of    *)
(* the locks, priority scheduling and inheritance, and the delivery of     *)
(* signals and interrupts.                                                 *)
(***************************************************************************)
EXTENDS Kernel

Prios == 0 .. MaxPrio
OrNone(S) == S \cup {None}

KernelType ==
    [current   : AllTasks,
     need      : BOOLEAN,
     list      : [Heads -> Seq(AllTasks)],
     lock      : [AllTasks -> OrNone(Mutexes)],
     wait      : [AllTasks -> OrNone(Mutexes)],
     owned     : [AllTasks -> Seq(Mutexes)],
     base      : [AllTasks -> Prios],
     prio      : [AllTasks -> Prios],
     message   : [AllTasks -> OrNone(Messages)],
     master    : [Mutexes -> OrNone(Tasks)],
     mprio     : [Mutexes -> Prios],
     deep      : [Mutexes -> 0 .. MaxDeep],
     groups    : [Mutexes -> Seq(Groups)],
     irq       : [Mutexes -> OrNone(Irqs)],
     ilock     : [Irqs -> OrNone(Locks)],
     fast      : [Irqs -> BOOLEAN],
     pending   : [Irqs -> BOOLEAN],
     allowed   : [Irqs -> BOOLEAN],
     signalled : [Groups -> SUBSET Mutexes],
     gmessage  : [Groups -> [Mutexes -> OrNone(Messages)]],
     waiter    : [Groups -> OrNone(Tasks)]]

\* Every field of the kernel's data has its C type, and no recursion depth
\* leaves its bound (the counters of mutex.c:95, 188, mtry.c:59, msignal.c:140).
TypeOK ==
    /\ k \in KernelType
    /\ frame \in [AllTasks -> Frames]
    /\ held \in [Tasks -> [Mutexes -> 0 .. MaxDeep]]
    /\ joining \in [Tasks -> OrNone([task : Tasks, seen : BOOLEAN])]

-----------------------------------------------------------------------------
(***************************************************************************)
(* Lists and ownership.                                                    *)
(***************************************************************************)
Linked(s, t) == \E h \in Heads : t \in Range(s.list[h])

\* A task is linked at one place of one list: its item is one pair of links.
LinkedOnce(s) ==
    \A h1, h2 \in Heads :
        \A i \in DOMAIN s.list[h1], j \in DOMAIN s.list[h2] :
            s.list[h1][i] = s.list[h2][j] => h1 = h2 /\ i = j

\* t->lock and t->wait name the list that holds the task; a task on neither
\* list may be activated (the assert of task_activate, internal.h:122).
LinkedWhereBlocked(s) ==
    \A t \in AllTasks, m \in Mutexes :
        /\ s.lock[t] = m <=> t \in Range(s.list[Slaves(m)])
        /\ s.wait[t] = m <=> t \in Range(s.list[Waiters(m)])

\* m is once on the list of locks of the task that is its master, on no other.
OwnedByMaster(s) ==
    \A t \in AllTasks :
        /\ \A m \in Mutexes : s.master[m] = t <=> m \in Range(s.owned[t])
        /\ IsInjective(s.owned[t])

\* A free lock blocks no task and its depth is 0, a busy one has a depth (the
\* asserts of mutex_lock, mutex.c:56, 79, 81).
FreeLockIsClean(s) ==
    \A m \in Mutexes :
        IF s.master[m] = None THEN s.list[Slaves(m)] = <<>> /\ s.deep[m] = 0
        ELSE s.deep[m] > 0

\* The lists of tasks and of locks, and the pointers back from their elements,
\* agree after every kernel call: what the asserts of main.c, mutex.c,
\* msignal.c, mtry.c and internal.h test.
ListsConsistent ==
    LinkedOnce(k) /\ LinkedWhereBlocked(k) /\ OwnedByMaster(k) /\ FreeLockIsClean(k)

\* A living task is either ready, or blocked in exactly one way: no sequence of
\* signals, deletions and interrupts drops a task from every list.
NoTaskLost ==
    \A t \in Tasks : Alive(t) =>
        LET ready   == t \in Range(k.list[Active])
            grouped == \E g \in Groups : k.waiter[g] = t
        IN  Cardinality({x \in {<<"ready", ready>>, <<"lock", k.lock[t] # None>>,
                                <<"wait", k.wait[t] # None>>, <<"group", grouped>>} : x[2]}) = 1

\* What a task that has been deleted leaves behind: it is on no list, holds no
\* lock, and no group will wake it (task_delete, tdelete.c:31-53).
DeadIsForgotten ==
    \A t \in Tasks : k.base[t] = 0 =>
        /\ ~Linked(k, t)
        /\ k.owned[t] = <<>>
        /\ \A g \in Groups : k.waiter[g] # t

WaitsOn(t, m) == frame[t].at = "mutex_wait" /\ frame[t].mutex = m

\* The locks of a task are exactly those it took and has not given back, as
\* deep as it took them: nobody else acquired them meanwhile, and mutex_wait
\* gives back the lock it released with its depth (msignal.c:87-142).
HeldIsOwned ==
    \A t \in Tasks, m \in Mutexes : ~BeingDeleted(t) =>
        held[t][m] = IF WaitsOn(t, m) THEN frame[t].deep
                     ELSE IF k.master[m] = t THEN k.deep[m]
                     ELSE 0

\* Every mutex is a monitor, whatever the kernel does inside its calls: one
\* owner at a time; a wait gives the lock up and takes it back as deep as it
\* was; a signal wakes everyone who waits; a release, by mutex_unlock, _wait,
\* _unlock_irq or task_delete, lets everyone in who was kept out (mutex.c:216,
\* msignal.c:104, main.c:50-83).
AMonitor(m) == INSTANCE Monitor WITH
    owner   <- k.master[m],
    depth   <- k.deep[m],
    kept    <- {t \in Tasks : k.lock[t] = m},
    waiting <- {t \in Tasks : k.wait[t] = m},
    owed    <- [t \in Tasks |-> IF WaitsOn(t, m) THEN frame[t].deep ELSE 0]

ImplementsMonitors ==
    /\ \A m \in Mutexes : AMonitor(m)!Init
    /\ [][\A m \in Mutexes : UNCHANGED AMonitor(m)!vars \/ AMonitor(m)!Next]_vars

-----------------------------------------------------------------------------
(***************************************************************************)
(* Priorities.                                                             *)
(***************************************************************************)

\* Outside the kernel and with no reschedule due, the running task has the
\* biggest priority of the ready tasks (internal.h:128-130), whichever call or
\* interrupt changed the ready tasks or their priorities last.
BestTaskRuns ==
    frame[k.current] = User /\ ~k.need =>
        \A t \in Range(k.list[Active]) : k.prio[t] <= k.prio[k.current]

\* Only task_create returns to the caller with a reschedule undone; every other
\* call and interrupt that makes one due does it.
OnlyCreateDefersSwitch ==
    [][~k.need /\ k'.need /\ frame'[k'.current] = User =>
         \E t \in Tasks : k.base[t] = 0 /\ k'.base[t] # 0]_vars

\* The priority of a task is the maximum of its base priority and of those of
\* the locks it holds (mutex.c:101-103).
TaskPrioIsInherited ==
    \A t \in Tasks : Alive(t) =>
        k.prio[t] = Max({k.base[t]} \cup {k.mprio[m] : m \in Range(k.owned[t])})

BlockedPrio(m) == Max({0} \cup {k.prio[t] : t \in Range(k.list[Slaves(m)])})

\* The priority of a lock is the maximum of those of the tasks blocked on it
\* (mutex.c:63-64, 143-144).
LockPrioIsInherited == \A m \in Mutexes : k.mprio[m] = BlockedPrio(m)

\* No lock keeps a priority that no task blocked on it has (mutex.c:220,
\* msignal.c:108, tdelete.c:37-40): no master stays raised without a reason.
LockPrioIsBacked == \A m \in Mutexes : k.mprio[m] <= BlockedPrio(m)

\* Inversion is bounded: while a task is blocked on a lock whose master is
\* ready, no task runs whose priority is below that of the lock (mutex.c:65-73,
\* where no reschedule is asked for), nor, unless task_set_priority changes
\* priorities, below the blocked task's own.
InversionIsBounded ==
    \A t \in Tasks :
        k.lock[t] # None /\ frame[k.current] = User /\ ~k.need =>
            LET m == k.lock[t]
            IN  k.master[m] \in Range(k.list[Active]) =>
                    /\ k.prio[k.current] >= k.mprio[m]
                    /\ SetPrios = {} => k.prio[k.current] >= k.base[t]

-----------------------------------------------------------------------------
(***************************************************************************)
(* The end of a task.                                                      *)
(***************************************************************************)

\* task_exit does not come back (texit.c:21-28, tdelete.c:21-23): a task that
\* deletes itself stays current until it is gone and its waiters are told.
ExitCompletes ==
    \A t \in Tasks : frame[t].at = "task_delete" /\ frame[t].task = t => t = k.current

\* Nobody sleeps in task_wait for a task that has ended (twait.c:21-23).
NobodySleepsForDead ==
    \A t \in Tasks : k.base[t] = 0 => k.list[Waiters(finish[t])] = <<>>

-----------------------------------------------------------------------------
(***************************************************************************)
(* Groups and interrupts.                                                  *)
(***************************************************************************)

\* No lost wakeup: nobody sleeps on a group of which a lock was signalled, and
\* a task that was woken finds a signal (mgroup.c:119-137, main.c:71-82).
GroupSignalNotLost ==
    /\ \A g \in Groups : k.waiter[g] # None => k.signalled[g] = {}
    /\ \A t \in Tasks, g \in Groups :
        frame[t] = WaitingGroup(g) /\ k.waiter[g] # t => k.signalled[g] # {}

\* mutex_group_wait returns the signalled message (mgroup.c:106).
GroupMessageIsSignalled ==
    \A g \in Groups : \A m \in k.signalled[g] : k.gmessage[g][m] \in Messages

\* An interrupt is pending only while its lock is held: whoever releases the
\* lock serves it (mutex.c:204-211, irelease.c:54-62, msignal.c:62-74).
PendingOnlyWhileLocked ==
    \A i \in Irqs : k.pending[i] => k.ilock[i] # None /\ k.master[k.ilock[i]] # None

Armed(s, m) == s.list[Waiters(m)] = <<>> \/ s.allowed[s.irq[m]]

\* An interrupt without a fast handler whose waiters are armed stays attached and
\* leaves them so, until the master of the lock detaches it: only the interrupt
\* masks it, and that wakes all who wait (msignal.c:43-47, irelease.c:63-65,
\* machdep.c:136-137).
WaiterStaysArmed ==
    [][\A m \in Mutexes :
        k.irq[m] # None /\ ~k.fast[k.irq[m]] /\ Armed(k, m) =>
            \/ k'.irq[m] = k.irq[m] /\ Armed(k', m)
            \/ k'.irq[m] = None /\ k.master[m] = k.current]_vars

\* The fast handler of a pending interrupt is called by the task that holds the
\* lock, or when the lock is released (msp430/machdep.c:119-122).
PendingServedByMaster ==
    [][\A i \in Irqs :
        k.pending[i] /\ ~k'.pending[i] =>
            LET m == k.ilock[i] IN k'.master[m] = None \/ k.master[m] = k.current]_vars

-----------------------------------------------------------------------------
(***************************************************************************)
(* Fairness: the processor executes the current task, uos_init() returns,  *)
(* and every task that runs eventually gives way.                          *)
(***************************************************************************)
BootStep == frame[Idle] = Boot /\ (StartTasks \/ \E t \in Tasks : TaskCreate(t))

Fairness ==
    /\ WF_vars(BootStep)
    /\ \A t \in Tasks : /\ WF_vars(Resume(t))
                        /\ SF_vars(TaskYield(t))
                        /\ WF_vars(TaskWaitTest(t) \/ TaskWaitSleep(t) \/ TaskWaitReturn(t))

FairSpec == Spec /\ Fairness

\* t is ready, and no task of a bigger priority runs.
Deserves(t) == t \in Range(k.list[Active]) /\ k.prio[t] >= k.prio[k.current]

\* Tasks of equal priority that give way run round-robin (tyield.c:34-36).
RoundRobin == \A t \in Tasks : Deserves(t) ~> t = k.current \/ ~Deserves(t)
=============================================================================

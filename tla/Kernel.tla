------------------------------- MODULE Kernel -------------------------------
(***************************************************************************)
(* The uOS kernel: one processor, tasks of static priorities, mutexes that *)
(* are monitors (lock, signal, wait), groups of mutexes to wait on, and    *)
(* interrupts that are delivered as signals on a mutex.                    *)
(*                                                                         *)
(* An entry point of the kernel runs with interrupts disabled and so is    *)
(* one step, up to a task_schedule() that switches to another task; the    *)
(* rest of the function runs when the task becomes current again.  frame   *)
(* records where in the kernel a task that was switched away will resume.  *)
(* While frame[current] is not User interrupts are disabled and the        *)
(* current task resumes before anything else happens.                      *)
(***************************************************************************)
EXTENDS KernelState

CONSTANTS
    finish,     \* the mutex t->finish of each task
    IrqMutex,   \* the mutex each interrupt is attached to: a driver's own
    BootTasks,  \* the tasks uos_init() creates
    StartPrio,  \* the priority each task is created with
    SetPrios,   \* the priorities given to task_set_priority()
    Messages,   \* the messages given to mutex_signal() and task_exit()
    MaxDeep,    \* bound: how often a task takes a lock recursively
    Misuse      \* the rules of use that the tasks do not keep, see below

ASSUME KernelParameters ==
    /\ finish \in [Tasks -> Mutexes]
    /\ \A t, u \in Tasks : finish[t] = finish[u] => t = u
    /\ IrqMutex \in [Irqs -> Mutexes \ Range(finish)]
    /\ \A i, j \in Irqs : IrqMutex[i] = IrqMutex[j] => i = j
    /\ BootTasks \subseteq Tasks
    /\ MaxPrio \in Nat
    /\ StartPrio \in [Tasks -> 1 .. MaxPrio]
    /\ SetPrios \subseteq 1 .. MaxPrio
    /\ MaxDeep \in Nat \ {0}

\* joining of a task outside task_wait() is told from that of one inside.
ASSUME NoneIsNoJoining == None \notin [task : Tasks, seen : BOOLEAN]

\* The mutexes of the application and its drivers.
Locks == Mutexes \ Range(finish)

VARIABLES
    k,          \* the kernel's data, see KernelState
    frame,      \* where each task is in the kernel
    held,       \* how often each task has locked each mutex, in its own view
    joining     \* where each task is in task_wait(), None outside it

vars == <<k, frame, held, joining>>

User              == [at |-> "user"]
Boot              == [at |-> "boot"]
Locking(m)        == [at |-> "mutex_lock", mutex |-> m]
LockingIrq(i, f)  == [at |-> "mutex_lock_irq", irq |-> i, fast |-> f]
Waiting(m, n)     == [at |-> "mutex_wait", mutex |-> m, deep |-> n]
WaitingGroup(g)   == [at |-> "mutex_group_wait", group |-> g]
Deleting(d, msg)  == [at |-> "task_delete", task |-> d, message |-> msg]

Frames ==
    {User, Boot}
    \cup {Locking(m) : m \in Mutexes}
    \cup {LockingIrq(i, f) : i \in Irqs, f \in BOOLEAN}
    \cup {Waiting(m, n) : m \in Mutexes, n \in 1 .. MaxDeep}
    \cup {WaitingGroup(g) : g \in Groups}
    \cup {Deleting(d, msg) : d \in Tasks, msg \in Messages}

(***************************************************************************)
(* What a task may call, when, and on what.  Of a task that exists its     *)
(* base priority is not 0 (tdelete.c, twait.c).                            *)
(***************************************************************************)
BeingDeleted(d) == \E t \in Tasks : frame[t].at = "task_delete" /\ frame[t].task = d

Alive(t) == k.base[t] # 0 /\ ~BeingDeleted(t)

\* t runs its own code, with interrupts enabled.
Running(t) == t = k.current /\ frame[t] = User

\* t makes a call of its own choice: it is not inside task_wait().
Calls(t) == Running(t) /\ joining[t] = None

\* uos_init() or a task calls a function that only changes kernel data.
SomebodyCalls == frame[Idle] = Boot \/ \E t \in Tasks : Calls(t)

\* t resumes inside the kernel function where it was switched away.
Resumes(t, function) == t = k.current /\ frame[t].at = function

\* The tasks inside task_wait(d).
Joiners(d) == {t \in Tasks : joining[t] # None /\ joining[t].task = d}

\* The stack of t, which is also its task_t with its mutex finish, may be
\* (re)used by task_create.
Unused(t) ==
    /\ k.base[t] = 0 /\ ~BeingDeleted(t)
    /\ Joiners(t) = {} /\ k.master[finish[t]] = None

\* Rules of use.  A task does not end while it holds a lock; a task that
\* waits for a group is not deleted; neither is one that is deleting another.
MayDelete(t, d) ==
    /\ Alive(d)
    /\ frame[d].at # "task_delete"
    /\ "exit_holding_lock" \in Misuse \/ d # t \/ k.owned[t] = <<>>
    /\ "delete_group_waiter" \in Misuse \/ \A g \in Groups : k.waiter[g] # d

-----------------------------------------------------------------------------
Init ==
    /\ k = KernelInit
    /\ frame = [t \in AllTasks |-> IF t = Idle THEN Boot ELSE User]
    /\ held = [t \in Tasks |-> [m \in Mutexes |-> 0]]
    /\ joining = [t \in Tasks |-> None]

\* main() has called uos_init(), and switches to the first task.
StartTasks ==
    /\ frame[Idle] = Boot
    /\ \A t \in BootTasks : k.base[t] # 0
    /\ k' = TaskSchedule(k)
    /\ frame' = [frame EXCEPT ![Idle] = User]
    /\ UNCHANGED <<held, joining>>

\* task_create zeroes the task_t, its mutex finish too.  It does not switch.
TaskCreate(t) ==
    /\ Unused(t)
    /\ SomebodyCalls
    /\ frame[Idle] = Boot => t \in BootTasks
    /\ LET f == finish[t]
           p == StartPrio[t]
       IN  k' = TaskActivate([k EXCEPT !.base[t] = p, !.prio[t] = p, !.message[t] = None,
                                       !.mprio[f] = 0, !.groups[f] = <<>>], <<t>>)
    /\ UNCHANGED <<frame, held, joining>>

\* Fault: the task does not go to the end of the active list.
TaskYieldInPlace(t) ==
    /\ Calls(t)
    /\ k' = TaskSchedule(k)
    /\ UNCHANGED <<frame, held, joining>>

TaskYield(t) ==
    /\ Calls(t)
    /\ k' = TaskSchedule(ListAppend(k, Active, t))
    /\ UNCHANGED <<frame, held, joining>>

TaskSetPriority(t, d, p) ==
    /\ Calls(t) /\ Alive(d)
    /\ k' = ScheduleIfNeeded(TaskRecalculatePrio([k EXCEPT !.base[d] = p], d))
    /\ UNCHANGED <<frame, held, joining>>

-----------------------------------------------------------------------------
(***************************************************************************)
(* Mutexes.                                                                *)
(***************************************************************************)

\* One test of the loop of mutex_lock, by a task whose frame is f while it is
\* blocked; done is the state after the function's last statement.
LockLoop(t, m, f, done) ==
    \/ /\ k.master[m] \notin {None, t}
       /\ k' = BlockOnMutex(k, m)
       /\ frame' = [frame EXCEPT ![t] = f]
       /\ UNCHANGED held
    \/ /\ k.master[m] \in {None, t}
       /\ k' = done
       /\ frame' = [frame EXCEPT ![t] = User]
       /\ held' = [held EXCEPT ![t][m] = @ + 1]

\* The caller is not the master: mutex_lock asserts it.
MutexLock(t, m) ==
    /\ Calls(t)
    /\ k.master[m] # t
    /\ LockLoop(t, m, Locking(m), LockMutex(k, m))
    /\ UNCHANGED joining

ResumeLock(t) ==
    /\ Resumes(t, "mutex_lock")
    /\ LockLoop(t, frame[t].mutex, frame[t], LockMutex(k, frame[t].mutex))
    /\ UNCHANGED joining

\* A trylock that fails changes nothing.
MutexTrylock(t, m) ==
    /\ Calls(t)
    /\ k.master[m] \in {None, t}
    /\ k.deep[m] < MaxDeep
    /\ k' = LockMutex(k, m)
    /\ held' = [held EXCEPT ![t][m] = @ + 1]
    /\ UNCHANGED <<frame, joining>>

\* Fault: one unlock undoes every lock.
UnlockedAtOnce(m, outcome) == ScheduleIfNeeded(ReleaseMutex(k, m, outcome))

\* Fault: the reschedule that is due is left to the next call.
UnlockedUnscheduled(m, outcome) ==
    IF k.deep[m] > 1 THEN [k EXCEPT !.deep[m] = @ - 1] ELSE ReleaseMutex(k, m, outcome)

\* mutex_unlock by the task that holds m: the effect on the kernel.
Unlocked(m, outcome) ==
    IF k.deep[m] > 1 THEN [k EXCEPT !.deep[m] = @ - 1]
    ELSE ScheduleIfNeeded(ReleaseMutex(k, m, outcome))

MutexUnlock(t, m) ==
    /\ Calls(t)
    /\ k.master[m] = t
    /\ \E outcome \in Outcomes : k' = Unlocked(m, outcome)
    /\ held' = [held EXCEPT ![t][m] = @ - 1]
    /\ UNCHANGED <<frame, joining>>

MutexSignal(t, m, msg) ==
    /\ Calls(t)
    /\ k' = IF k.list[Waiters(m)] = <<>> /\ k.groups[m] = <<>> THEN k
            ELSE ScheduleIfNeeded(MutexActivate(k, m, msg))
    /\ UNCHANGED <<frame, held, joining>>

\* Fault: the interrupt of m stays masked.
StillMasked(k1, m) == k1

\* arch_intr_allow of the interrupt of m.
Unmasked(k1, m) == IF k1.irq[m] = None THEN k1 ELSE [k1 EXCEPT !.allowed[k1.irq[m]] = TRUE]

\* mutex_wait, once a pending interrupt has been served, on the state k1:
\* the task goes on m->waiters, gives m up if it holds it, and switches.
SuspendOnMutex(t, m, k1) ==
    LET waiting == ListAppend([Unmasked(k1, m) EXCEPT !.wait[t] = m], Waiters(m), t)
    IN  IF k.master[m] # t
        THEN /\ k' = TaskSchedule(waiting)
             /\ UNCHANGED frame
        ELSE /\ k' = TaskSchedule([SlavesActivated(DisownMutex(waiting, m), m)
                                       EXCEPT !.mprio[m] = 0])
             /\ frame' = [frame EXCEPT ![t] = Waiting(m, k.deep[m])]

\* A pending interrupt that its handler leaves to the task is the signal.
WaitOn(t, m) ==
    /\ \/ /\ k.irq[m] # None /\ k.pending[k.irq[m]]
          /\ \E outcome \in Outcomes :
                IF outcome.serviced
                THEN SuspendOnMutex(t, m, HandlerCalled(k, k.irq[m], outcome))
                ELSE /\ k' = ScheduleIfNeeded(PendingServed(k, m, outcome))
                     /\ UNCHANGED frame
       \/ /\ k.irq[m] # None => ~k.pending[k.irq[m]]
          /\ SuspendOnMutex(t, m, k)
    /\ UNCHANGED held

MutexWait(t, m) == Calls(t) /\ WaitOn(t, m) /\ UNCHANGED joining

\* The task has been signalled, and acquires m again, as deep as it had it.
ResumeWait(t) ==
    /\ Resumes(t, "mutex_wait")
    /\ LET m == frame[t].mutex
       IN  \/ /\ k.master[m] # None
              /\ k' = BlockOnMutex(k, m)
              /\ UNCHANGED frame
           \/ /\ k.master[m] = None
              /\ k' = [AcquireMutex(k, m) EXCEPT !.deep[m] = frame[t].deep]
              /\ frame' = [frame EXCEPT ![t] = User]
    /\ UNCHANGED <<held, joining>>

-----------------------------------------------------------------------------
(***************************************************************************)
(* Groups.  A task listens on the locks of the group, then waits for a     *)
(* signal on any of them.  One task at a time waits for a group.           *)
(***************************************************************************)
Listening(g) == \E m \in Mutexes : g \in Range(k.groups[m])

\* Every slot is prepended to its lock's list.
GroupListen(g) ==
    /\ SomebodyCalls
    /\ ~Listening(g)
    /\ k' = [k EXCEPT
             !.groups = [m \in Mutexes |-> IF m \in Range(Members[g]) THEN <<g>> \o @[m] ELSE @[m]],
             !.gmessage[g] = [m \in Mutexes |-> None]]
    /\ UNCHANGED <<frame, held, joining>>

GroupUnlisten(g) ==
    /\ SomebodyCalls
    /\ Listening(g)
    /\ k' = [k EXCEPT
             !.groups = [m \in Mutexes |-> Unlinked(@[m], g)],
             !.gmessage[g] = [m \in Mutexes |-> None]]
    /\ UNCHANGED <<frame, held, joining>>

\* The scan of the slots, from the last to the first.
LastSignalled(g) ==
    Members[g][Max({i \in DOMAIN Members[g] : Members[g][i] \in k.signalled[g]})]

GroupLoop(t, g) ==
    /\ \/ /\ k.signalled[g] # {}
          /\ k' = [k EXCEPT !.signalled[g] = @ \ {LastSignalled(g)}]
          /\ frame' = [frame EXCEPT ![t] = User]
       \/ /\ k.signalled[g] = {}
          /\ k' = TaskSchedule([ListUnlink(k, t) EXCEPT !.waiter[g] = t])
          /\ frame' = [frame EXCEPT ![t] = WaitingGroup(g)]
    /\ UNCHANGED <<held, joining>>

GroupWait(t, g) ==
    /\ Calls(t)
    /\ \A u \in Tasks : frame[u] # WaitingGroup(g)
    /\ GroupLoop(t, g)

ResumeGroupWait(t) == Resumes(t, "mutex_group_wait") /\ GroupLoop(t, frame[t].group)

-----------------------------------------------------------------------------
(***************************************************************************)
(* The end of a task.  task_exit is task_delete of oneself.                *)
(***************************************************************************)

\* Take d off its list, leave the lock it is blocked on, forget its wait.
TaskDelete(t, d, msg) ==
    /\ Calls(t) /\ MayDelete(t, d)
    /\ LET m  == k.lock[d]
           k1 == [ListUnlink(k, d) EXCEPT !.need = @ \/ d = t]
           k2 == IF m # None /\ k1.mprio[m] <= k1.prio[d]
                 THEN MutexRecalculatePrio(k1, m) ELSE k1
       IN  k' = [k2 EXCEPT !.lock[d] = None, !.wait[d] = None]
    /\ frame' = [frame EXCEPT ![d] = User, ![t] = Deleting(d, msg)]
    /\ joining' = [joining EXCEPT ![d] = None]
    /\ UNCHANGED held

\* The loop that unlocks what d holds, one mutex_unlock at a time.
DeleteUnlock(t) ==
    /\ Resumes(t, "task_delete")
    /\ LET d == frame[t].task
       IN  /\ k.owned[d] # <<>>
           /\ \E outcome \in Outcomes : k' = Unlocked(Head(k.owned[d]), outcome)
    /\ UNCHANGED <<frame, held, joining>>

\* The task is no more: base_prio is 0, and who waits for it is woken.
DeleteFinish(t) ==
    /\ Resumes(t, "task_delete")
    /\ LET d == frame[t].task
           f == finish[d]
           k1 == [k EXCEPT !.base[d] = 0]
       IN  /\ k.owned[d] = <<>>
           /\ k' = ScheduleIfNeeded(IF k.list[Waiters(f)] = <<>> /\ k.groups[f] = <<>> THEN k1
                                    ELSE MutexActivate(k1, f, frame[t].message))
           /\ held' = [held EXCEPT ![d] = [m \in Mutexes |-> 0]]
    /\ frame' = [frame EXCEPT ![t] = User]
    /\ UNCHANGED joining

(***************************************************************************)
(* task_wait is not a kernel call but a loop around three of them, with    *)
(* interrupts enabled between them: lock finish, read base_prio and wait   *)
(* while it is not 0, unlock finish.  seen is FALSE before the read, TRUE  *)
(* between a read that is not 0 and the mutex_wait that follows it.        *)
(***************************************************************************)
Joining(d, seen) == [task |-> d, seen |-> seen]

Joins(t) == Running(t) /\ joining[t] # None

TaskWait(t, d) ==
    /\ Calls(t) /\ d # t
    /\ LockLoop(t, finish[d], Locking(finish[d]), LockMutex(k, finish[d]))
    /\ joining' = [joining EXCEPT ![t] = Joining(d, FALSE)]

TaskWaitTest(t) ==
    /\ Joins(t) /\ ~joining[t].seen
    /\ k.base[joining[t].task] # 0
    /\ joining' = [joining EXCEPT ![t].seen = TRUE]
    /\ UNCHANGED <<k, frame, held>>

TaskWaitSleep(t) ==
    /\ Joins(t) /\ joining[t].seen
    /\ WaitOn(t, finish[joining[t].task])
    /\ joining' = [joining EXCEPT ![t].seen = FALSE]

TaskWaitReturn(t) ==
    /\ Joins(t) /\ ~joining[t].seen
    /\ LET f == finish[joining[t].task]
       IN  /\ k.base[joining[t].task] = 0
           /\ \E outcome \in Outcomes : k' = Unlocked(f, outcome)
           /\ held' = [held EXCEPT ![t][f] = @ - 1]
    /\ joining' = [joining EXCEPT ![t] = None]
    /\ UNCHANGED frame

-----------------------------------------------------------------------------
(***************************************************************************)
(* Interrupts.  An interrupt is the signal of the mutex it is attached to. *)
(* With a fast handler, it is handled only when that mutex is free, else   *)
(* it stays pending until the mutex is released.                           *)
(***************************************************************************)
Attached(s, m, i, f) ==
    [s EXCEPT !.irq[m] = i, !.ilock[i] = m, !.fast[i] = f, !.pending[i] = FALSE]

MutexLockIrq(t, i, f) ==
    /\ Calls(t)
    /\ LET m == IrqMutex[i]
       IN  /\ k.master[m] = t => k.deep[m] < MaxDeep
           /\ LockLoop(t, m, LockingIrq(i, f), Attached(LockMutex(k, m), m, i, f))
    /\ UNCHANGED joining

ResumeLockIrq(t) ==
    /\ Resumes(t, "mutex_lock_irq")
    /\ LET i == frame[t].irq
           m == IrqMutex[i]
       IN  LockLoop(t, m, frame[t], Attached(LockMutex(k, m), m, i, frame[t].fast))
    /\ UNCHANGED joining

MutexAttachIrq(i, f) ==
    /\ SomebodyCalls
    /\ k.ilock[i] = None
    /\ k' = [Attached(k, IrqMutex[i], i, f) EXCEPT !.allowed[i] = TRUE]
    /\ UNCHANGED <<frame, held, joining>>

Detached(s, m) ==
    IF s.irq[m] = None THEN s ELSE [s EXCEPT !.ilock[s.irq[m]] = None, !.irq[m] = None]

MutexUnlockIrq(t, m) ==
    /\ Calls(t)
    /\ k.master[m] = t
    /\ IF k.deep[m] > 1 THEN k' = [k EXCEPT !.deep[m] = @ - 1]
       ELSE \E outcome \in Outcomes :
              k' = ScheduleIfNeeded(SlavesReleased(
                       Detached(PendingServed(DisownMutex(k, m), m, outcome), m), m))
    /\ held' = [held EXCEPT ![t][m] = @ - 1]
    /\ UNCHANGED <<frame, joining>>

\* _irq_handler_.  The interrupt is masked, and its lock signalled unless the
\* lock is busy or the fast handler has serviced it.
Interrupt(i) ==
    /\ frame[k.current] = User
    /\ k.allowed[i] /\ k.ilock[i] # None
    /\ LET m      == k.ilock[i]
           masked == [k EXCEPT !.allowed[i] = FALSE]
       IN  \/ /\ k.fast[i] /\ k.master[m] # None
              /\ k' = [masked EXCEPT !.pending[i] = TRUE]
           \/ /\ k.fast[i] /\ k.master[m] = None
              /\ \E outcome \in Outcomes :
                    LET handled == [masked EXCEPT !.allowed[i] = outcome.allow]
                    IN  k' = IF outcome.serviced THEN handled
                             ELSE ScheduleIfNeeded(MutexActivate(handled, m, None))
           \/ /\ ~k.fast[i]
              /\ k' = ScheduleIfNeeded(MutexActivate(masked, m, None))
    /\ UNCHANGED <<frame, held, joining>>

-----------------------------------------------------------------------------
\* Switched away inside the kernel, and current again.
Resume(t) ==
    \/ ResumeLock(t) \/ ResumeLockIrq(t) \/ ResumeWait(t) \/ ResumeGroupWait(t)
    \/ DeleteUnlock(t) \/ DeleteFinish(t)

MutexCall(t) ==
    \E m \in Locks :
        \/ MutexLock(t, m) \/ MutexTrylock(t, m) \/ MutexUnlock(t, m) \/ MutexWait(t, m)
        \/ \E msg \in Messages : MutexSignal(t, m, msg)

TaskCall(t) ==
    \/ TaskYield(t)
    \/ \E d \in Tasks :
        \/ \E p \in SetPrios : TaskSetPriority(t, d, p)
        \/ \E msg \in Messages : TaskDelete(t, d, msg)

JoinCall(t) ==
    \/ \E d \in Tasks : TaskWait(t, d)
    \/ TaskWaitTest(t)
    \/ TaskWaitSleep(t)
    \/ TaskWaitReturn(t)

IrqCall(t) ==
    \/ \E i \in Irqs, f \in BOOLEAN : MutexLockIrq(t, i, f)
    \/ \E m \in Locks : MutexUnlockIrq(t, m)

Next ==
    \/ StartTasks
    \/ \E t \in Tasks :
        \/ TaskCreate(t) \/ Resume(t)
        \/ TaskCall(t) \/ MutexCall(t) \/ JoinCall(t) \/ IrqCall(t)
        \/ \E g \in Groups : GroupWait(t, g)
    \/ \E g \in Groups : GroupListen(g) \/ GroupUnlisten(g)
    \/ \E i \in Irqs :
        \/ \E f \in BOOLEAN : MutexAttachIrq(i, f)
        \/ Interrupt(i)

Spec == Init /\ [][Next]_vars
=============================================================================

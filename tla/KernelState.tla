---------------------------- MODULE KernelState ----------------------------
(***************************************************************************)
(* The data of the uOS kernel and the functions that change it without     *)
(* being entry points: the list primitives (runtime/list.h), the scheduler *)
(* and task_activate (kernel/internal.h), mutex_activate (kernel/main.c)   *)
(* and priority inheritance (kernel/mutex.c).  Every operator takes the    *)
(* kernel state k and returns the state the C function leaves.  The state  *)
(* is one record, because an entry point is a composition of these         *)
(* functions; its fields are the fields of task_t, mutex_t, mutex_irq_t,   *)
(* mutex_group_t and the globals of main.c:                                *)
(*                                                                         *)
(*   current, need      task_current, task_need_schedule                   *)
(*   list               what every list head of tasks links: task_active,  *)
(*                      m->waiters, m->slaves                              *)
(*   lock, wait, owned, base, prio, message                                *)
(*                      task_t (owned is t->slaves)                        *)
(*   master, mprio, deep, groups, irq                                      *)
(*                      mutex_t                                            *)
(*   ilock, fast, pending, allowed                                         *)
(*                      mutex_irq[], fast = it has a handler, allowed = it *)
(*                      is unmasked in the interrupt controller            *)
(*   signalled, gmessage, waiter                                           *)
(*                      slot[].active, slot[].message, g->waiter           *)
(***************************************************************************)
EXTENDS Integers, Sequences, FiniteSets, FiniteSetsExt, SequencesExt

CONSTANTS
    Tasks,      \* the tasks the application creates
    Idle,       \* task_idle
    Mutexes,    \* every mutex_t: the application's and t->finish of each task
    Irqs,       \* the interrupt numbers in use
    Groups,     \* the mutex_group_t in use
    Members,    \* the locks of a group, in the order they were added
    MaxPrio,    \* the biggest priority in use, which fits a small_int_t
    None        \* the null pointer

AllTasks == Tasks \cup {Idle}

ASSUME KernelConstants ==
    /\ Idle \notin Tasks
    /\ None \notin AllTasks \cup Mutexes \cup Irqs \cup Groups
    /\ IsFiniteSet(Tasks)
    /\ Members \in [Groups -> Seq(Mutexes)]

(***************************************************************************)
(* Lists.  A task has one link field, item, so that appending it to a list *)
(* takes it off the list it was on.                                        *)
(***************************************************************************)
Active     == <<"active", None>>
Waiters(m) == <<"waiters", m>>
Slaves(m)  == <<"slaves", m>>
Heads == {Active} \cup {Waiters(m) : m \in Mutexes} \cup {Slaves(m) : m \in Mutexes}

Unlinked(s, x) ==
    IF x \in Range(s) THEN RemoveAt(s, CHOOSE i \in DOMAIN s : s[i] = x) ELSE s

\* Fault: the task stays on its list.
ListUnlinkNothing(k, t) == k

ListUnlink(k, t) == [k EXCEPT !.list = [h \in Heads |-> Unlinked(k.list[h], t)]]

\* Fault: the task is not taken off the list it was on.
ListAppendKeeping(k, head, t) == [k EXCEPT !.list[head] = Append(@, t)]

ListAppend(k, head, t) ==
    [k EXCEPT !.list = [h \in Heads |->
        IF h = head THEN Append(Unlinked(k.list[h], t), t) ELSE Unlinked(k.list[h], t)]]

(***************************************************************************)
(* The scheduler: the first task of the biggest priority on the active     *)
(* list, or the idle task when none has more than its priority.            *)
(***************************************************************************)
TaskPolicy(k) ==
    LET s == k.list[Active]
        IsFirstBest(i) ==
            /\ k.prio[s[i]] > k.prio[Idle]
            /\ \A j \in DOMAIN s : /\ k.prio[s[j]] <= k.prio[s[i]]
                                   /\ j < i => k.prio[s[j]] < k.prio[s[i]]
    IN  IF \E i \in DOMAIN s : IsFirstBest(i)
        THEN s[CHOOSE i \in DOMAIN s : IsFirstBest(i)]
        ELSE Idle

TaskSchedule(k) == [k EXCEPT !.need = FALSE, !.current = TaskPolicy(k)]

ScheduleIfNeeded(k) == IF k.need THEN TaskSchedule(k) ELSE k

\* Fault: no reschedule is asked for.
TaskActivateQuietly(k, s) == [k EXCEPT !.list[Active] = @ \o s]

\* Fault: only the first task is activated.
TaskActivateFirst(k, s) ==
    IF s = <<>> THEN k ELSE [k EXCEPT !.list[Active] = Append(@, Head(s))]

\* task_activate of the tasks of s, one after the other.
TaskActivate(k, s) ==
    [k EXCEPT !.list[Active] = @ \o s,
              !.need = @ \/ \E t \in Range(s) : k.prio[k.current] < k.prio[t]]

(***************************************************************************)
(* mutex_activate: wake the waiters of m, then mark the slot of every      *)
(* group that listens on m and wake the task that waits for that group.    *)
(***************************************************************************)
GroupsWoken(k, m) ==
    LET g == k.groups[m]
        woken[i \in 0 .. Len(g)] ==
            IF i = 0 THEN <<>>
            ELSE IF k.waiter[g[i]] = None THEN woken[i - 1]
            ELSE Append(woken[i - 1], k.waiter[g[i]])
    IN  woken[Len(g)]

\* Fault: only the first waiter is woken.
WaitersActivatedFirst(k, m, msg) ==
    IF k.list[Waiters(m)] = <<>> THEN k
    ELSE LET t == Head(k.list[Waiters(m)])
         IN  [TaskActivate([k EXCEPT !.list[Waiters(m)] = Tail(@)], <<t>>) EXCEPT
                 !.wait[t] = None, !.message[t] = msg]

WaitersActivated(k, m, msg) ==
    LET woken == k.list[Waiters(m)]
    IN  [TaskActivate([k EXCEPT !.list[Waiters(m)] = <<>>], woken) EXCEPT
            !.wait    = [t \in AllTasks |-> IF t \in Range(woken) THEN None ELSE @[t]],
            !.message = [t \in AllTasks |-> IF t \in Range(woken) THEN msg ELSE @[t]]]

\* Fault: the slots are not marked active.
GroupsActivatedUnmarked(k, m, msg) ==
    [TaskActivate(k, GroupsWoken(k, m)) EXCEPT
        !.waiter = [g \in Groups |-> IF g \in Range(k.groups[m]) THEN None ELSE @[g]]]

GroupsActivated(k, m, msg) ==
    LET gs == Range(k.groups[m])
    IN  [TaskActivate(k, GroupsWoken(k, m)) EXCEPT
            !.signalled = [g \in Groups |-> IF g \in gs THEN @[g] \cup {m} ELSE @[g]],
            !.gmessage  = [g \in Groups |-> IF g \in gs THEN [@[g] EXCEPT ![m] = msg]
                                            ELSE @[g]],
            !.waiter    = [g \in Groups |-> IF g \in gs THEN None ELSE @[g]]]

MutexActivate(k, m, msg) == GroupsActivated(WaitersActivated(k, m, msg), m, msg)

(***************************************************************************)
(* Priority inheritance.  task_recalculate_prio(t) and                     *)
(* mutex_recalculate_prio(m) call each other along the chain               *)
(* t -> t->lock -> its master -> ...; both calls are tail calls, so the    *)
(* chain is a sequence of levels c = [prio, mprio, need, next], next being *)
(* the task whose priority is to be recalculated, None at the end.  Tasks  *)
(* that have locked each other out occur in a chain again, but each level  *)
(* changes the priority of its task, or ends the chain: first some are     *)
(* lowered, then some are raised, so that MaxLevels reach the end.         *)
(***************************************************************************)
Changing == {"down", "up"} \X AllTasks \X (0 .. MaxPrio)
MaxLevels == Cardinality(Changing) + 1

MutexLevel(k, c, m) ==
    LET old    == c.mprio[m]
        new    == Max({0} \cup {c.prio[t] : t \in Range(k.list[Slaves(m)])})
        master == k.master[m]
        follow == /\ master # None
                  /\ \/ new > old /\ c.prio[master] < new
                     \/ new < old /\ c.prio[master] <= old /\ k.base[master] < old
    IN  [c EXCEPT !.mprio[m] = new, !.next = IF follow THEN master ELSE None]

TaskLevel(k, c) ==
    LET t    == c.next
        m    == k.lock[t]
        old  == c.prio[t]
        new  == Max({k.base[t]} \cup {c.mprio[n] : n \in Range(k.owned[t])})
        up   == new > old
        c1   == [c EXCEPT !.prio[t] = new, !.next = None]
        resched == IF up THEN c1.prio[k.current] < new /\ k.wait[t] = None
                         ELSE t = k.current
    IN  CASE new = old                                 -> c1
          [] new # old /\ m = None                     -> [c1 EXCEPT !.need = @ \/ resched]
          [] new # old /\ m # None /\ up               -> IF c.mprio[m] < new
                                                          THEN MutexLevel(k, c1, m) ELSE c1
          [] new # old /\ m # None /\ ~up              -> IF c.mprio[m] <= old
                                                          THEN MutexLevel(k, c1, m) ELSE c1

RecalculateFrom(k, c) ==
    LET chain[n \in 0 .. MaxLevels] ==
            IF n = 0 THEN c
            ELSE LET d == chain[n - 1]
                 IN  IF d.next = None THEN d ELSE TaskLevel(k, d)
        end == chain[MaxLevels]
    IN  [k EXCEPT !.prio = end.prio, !.mprio = end.mprio, !.need = end.need]

Level(k, t) == [prio |-> k.prio, mprio |-> k.mprio, need |-> k.need, next |-> t]

TaskRecalculatePrio(k, t)  == RecalculateFrom(k, Level(k, t))
MutexRecalculatePrio(k, m) == RecalculateFrom(k, MutexLevel(k, Level(k, None), m))

(***************************************************************************)
(* The bodies that several entry points of mutex.c, msignal.c, mtry.c,     *)
(* itake.c and irelease.c repeat.                                          *)
(***************************************************************************)

\* Fault: the priority of the lock and its master stays.
BlockOnMutexUnraised(k, m) ==
    TaskSchedule(ListAppend([k EXCEPT !.lock[k.current] = m], Slaves(m), k.current))

\* The body of the loop of mutex_lock: put the current task on m->slaves,
\* raise m and its master (the master alone), switch.
BlockOnMutex(k, m) ==
    LET t      == k.current
        master == k.master[m]
        p      == k.prio[t]
        raise  == k.mprio[m] < p
    IN  TaskSchedule(ListAppend(
            [k EXCEPT !.lock[t] = m,
                      !.mprio[m] = IF raise THEN p ELSE @,
                      !.prio[master] = IF raise /\ @ < p THEN p ELSE @], Slaves(m), t))

\* The current task becomes the master of the free lock m.
AcquireMutex(k, m) ==
    LET t == k.current
    IN  [k EXCEPT !.master[m] = t,
                  !.owned[t] = Append(@, m),
                  !.prio[t] = IF @ < k.mprio[m] THEN k.mprio[m] ELSE @]

LockMutex(k, m) ==
    [(IF k.master[m] = None THEN AcquireMutex(k, m) ELSE k) EXCEPT !.deep[m] = @ + 1]

\* Fault: the depth stays.
UnownedDeep(k, t, m) == [k EXCEPT !.owned[t] = Unlinked(@, m)]

Unowned(k, t, m) == [k EXCEPT !.deep[m] = 0, !.owned[t] = Unlinked(@, m)]

\* Fault: a master whose priority is that of the lock keeps it.
DisownMutexRaised(k, m) ==
    LET t  == k.master[m]
        k1 == Unowned(k, t, m)
        k2 == IF k.prio[t] < k.mprio[m] THEN TaskRecalculatePrio(k1, t) ELSE k1
    IN  [k2 EXCEPT !.master[m] = None]

\* The master of m gives it up: m leaves its list of locks, and the priority
\* it had from m is recomputed.
DisownMutex(k, m) ==
    LET t  == k.master[m]
        k1 == Unowned(k, t, m)
        k2 == IF k.prio[t] <= k.mprio[m] /\ k.base[t] < k.mprio[m]
              THEN TaskRecalculatePrio(k1, t) ELSE k1
    IN  [k2 EXCEPT !.master[m] = None]

SlavesActivated(k, m) ==
    LET woken == k.list[Slaves(m)]
    IN  [TaskActivate([k EXCEPT !.list[Slaves(m)] = <<>>], woken) EXCEPT
            !.lock = [t \in AllTasks |-> IF t \in Range(woken) THEN None ELSE @[t]]]

\* A fast handler is the driver's code: it may unmask its interrupt (it calls
\* arch_intr_allow), and returns whether it serviced the interrupt completely.
Outcomes == [serviced : BOOLEAN, allow : BOOLEAN]

HandlerCalled(k, i, outcome) ==
    [k EXCEPT !.pending[i] = FALSE, !.allowed[i] = @ \/ outcome.allow]

\* Fault: the release does not look for a pending interrupt.
PendingForgotten(k, m, outcome) == k

\* A pending interrupt of m is handled when m is released.
PendingServed(k, m, outcome) ==
    IF k.irq[m] = None \/ ~k.pending[k.irq[m]] THEN k
    ELSE IF outcome.serviced THEN HandlerCalled(k, k.irq[m], outcome)
    ELSE MutexActivate(HandlerCalled(k, k.irq[m], outcome), m, None)

\* Fault: the lock keeps the priority of the tasks it blocked.
SlavesReleasedRaised(k, m) ==
    IF k.list[Slaves(m)] = <<>> THEN k ELSE SlavesActivated(k, m)

\* Every task that was blocked on the free lock m competes for it again.
SlavesReleased(k, m) ==
    IF k.list[Slaves(m)] = <<>> THEN k ELSE [SlavesActivated(k, m) EXCEPT !.mprio[m] = 0]

ReleaseMutex(k, m, outcome) ==
    SlavesReleased(PendingServed(DisownMutex(k, m), m, outcome), m)

\* The state main() builds: the idle task is current and alone on the active list.
KernelInit ==
    [current   |-> Idle,
     need      |-> FALSE,
     list      |-> [h \in Heads |-> IF h = Active THEN <<Idle>> ELSE <<>>],
     lock      |-> [t \in AllTasks |-> None],
     wait      |-> [t \in AllTasks |-> None],
     owned     |-> [t \in AllTasks |-> <<>>],
     base      |-> [t \in AllTasks |-> 0],
     prio      |-> [t \in AllTasks |-> 0],
     message   |-> [t \in AllTasks |-> None],
     master    |-> [m \in Mutexes |-> None],
     mprio     |-> [m \in Mutexes |-> 0],
     deep      |-> [m \in Mutexes |-> 0],
     groups    |-> [m \in Mutexes |-> <<>>],
     irq       |-> [m \in Mutexes |-> None],
     ilock     |-> [i \in Irqs |-> None],
     fast      |-> [i \in Irqs |-> FALSE],
     pending   |-> [i \in Irqs |-> FALSE],
     allowed   |-> [i \in Irqs |-> FALSE],
     signalled |-> [g \in Groups |-> {}],
     gmessage  |-> [g \in Groups |-> [m \in Mutexes |-> None]],
     waiter    |-> [g \in Groups |-> None]]
=============================================================================

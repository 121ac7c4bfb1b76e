-------------------------------- MODULE Timer --------------------------------
(***************************************************************************)
(* The timer driver, timer/timer.c: the clock that the timer interrupt     *)
(* advances, the tasks in timer_delay, the decisecond signal and one user  *)
(* timer.  The interrupt's fast handler runs at once if the timer's lock   *)
(* is free, otherwise when the lock is given up; it returns 0, so that the *)
(* kernel wakes whoever waits on the lock (kernel/mutex.c:208,             *)
(* msignal.c:66, msp430/machdep.c).                                        *)
(***************************************************************************)
EXTENDS Integers, FiniteSets

CONSTANTS
    Sleepers,   \* the tasks that call timer_delay
    Watchers,   \* the tasks that read the clock
    Delays,     \* the delays they ask for, in milliseconds
    Ticks,      \* the tick lengths timer_init may be given
    Day,        \* TIMER_MSEC_PER_DAY
    Word,       \* the unsigned long is modulo this
    Period,     \* of the user timer
    MaxLate,    \* ticks that a woken task may be late for its test
    MaxBacklog, \* where the model stops counting a user timer nobody waits on
    NoTask

ASSUME TimerConstants ==
    /\ Day \in Nat /\ Day > 100 /\ Day % 100 = 0
    /\ Word \in Nat /\ Word > Day + 200
    /\ Ticks \subseteq 1 .. 100
    /\ Delays \subseteq Nat
    /\ MaxLate \in Nat \ {0} /\ MaxBacklog \in Nat /\ Period \in Nat \ {0}
    /\ NoTask \notin Sleepers \cup Watchers
    /\ Sleepers \cap Watchers = {}

\* A delay that returns: it fits in a day with the ticks its task may be late.
ASSUME DelaysFit == \A d \in Delays, n \in Ticks : d + (MaxLate + 1) * n <= Day

Clients == Sleepers \cup Watchers

VARIABLES
    msec_per_tick,
    milliseconds,
    days,           \* modulo 2: who reads it sees that a day has passed
    next_decisec,
    beat,           \* the last step signalled the decisecond
    holder,         \* the master of t->lock
    pending,        \* a tick waits for the lock
    sleeper,        \* of each task: where it is in timer_delay, its t0 and msec,
                    \* the time counted since it came, the ticks it is late
    cur_time,       \* of the user timer
    user            \* its task: "away" or "waiting"

timerVars == <<msec_per_tick, milliseconds, days, next_decisec, beat, holder,
               pending, sleeper, cur_time, user>>

Away == [pc |-> "away", t0 |-> 0, msec |-> 0, since |-> 0, late |-> 0]

TimerInit ==
    /\ msec_per_tick \in Ticks
    /\ milliseconds = 0 /\ days = 0 /\ next_decisec = 0
    /\ beat = FALSE
    /\ holder = NoTask /\ pending = FALSE
    /\ sleeper = [s \in Clients |-> Away]
    /\ cur_time = Period /\ user = "away"

-----------------------------------------------------------------------------
\* Fault: the difference is compared as the unsigned number it was computed as.
IntervalUnsigned(interval, msec) == interval % Word >= msec

\* Fault: the day that passed meanwhile is not put back.
IntervalOfToday(interval, msec) == interval >= msec

\* interval_greater_or_equal, of a difference that is taken modulo the word
\* and read as a signed number.
IntervalGreaterOrEqual(interval, msec) ==
    LET i == IF interval < 0 THEN interval + Day
             ELSE IF interval >= Day THEN interval - Day
             ELSE interval
    IN  i >= msec

\* Fault: next_decisec is left in the day that ended.
RolledOverClock(ms, next) ==
    IF ms >= Day THEN [ms |-> ms - Day, next |-> next] ELSE [ms |-> ms, next |-> next]

\* The rollover of timer_update: both counters lose a day.
RolledOver(ms, next) ==
    IF ms >= Day THEN [ms |-> ms - Day, next |-> (next - Day) % Word]
    ELSE [ms |-> ms, next |-> next]

Floor(n, low) == IF n < low THEN low ELSE n

\* The time counted for a task in timer_delay stops at a day.
CountedOn(since, tick) == IF since + tick > Day THEN Day ELSE since + tick

\* Fault: the tasks that wait on the timer's lock are not woken.
UnwokenBy(s, tick) ==
    IF sleeper[s].pc \in {"away", "reading"} THEN sleeper[s]
    ELSE [sleeper[s] EXCEPT !.since = CountedOn(@, tick)]

\* What a tick does to a task that is in timer_delay: the handler returns 0, so that
\* it wakes up if it is asleep.
WokenBy(s, tick) ==
    CASE sleeper[s].pc \in {"away", "reading"} -> sleeper[s]
      [] sleeper[s].pc = "asleep" ->
            [sleeper[s] EXCEPT !.pc = "woken", !.since = CountedOn(@, tick), !.late = 1]
      [] OTHER -> [sleeper[s] EXCEPT !.since = CountedOn(@, tick), !.late = @ + 1]

\* timer_update: the clock, the decisecond, the user timer.
TimerUpdate ==
    LET at  == RolledOver(milliseconds + msec_per_tick, next_decisec)
        due == at.ms >= at.next
        cur == cur_time - msec_per_tick
    IN  /\ milliseconds' = at.ms
        /\ days' = IF milliseconds + msec_per_tick >= Day THEN (days + 1) % 2 ELSE days
        /\ next_decisec' = IF due THEN (at.next + 100) % Word ELSE at.next
        /\ beat' = due
        /\ IF cur <= 0 /\ user = "waiting"
           THEN user' = "away" /\ cur_time' = Floor(cur + Period, - MaxBacklog)
           ELSE user' = user /\ cur_time' = Floor(cur, - MaxBacklog)
        /\ UNCHANGED msec_per_tick

\* Nobody who was woken is later than the model allows.
NobodyTooLate == \A s \in Sleepers : sleeper[s].late < MaxLate

\* The interrupt: now ...
Tick ==
    /\ holder = NoTask
    /\ NobodyTooLate
    /\ TimerUpdate
    /\ sleeper' = [s \in Clients |-> WokenBy(s, msec_per_tick)]
    /\ UNCHANGED <<holder, pending>>

\* ... or when the lock is free again.  Further ticks are masked till then.
TickWhileLocked ==
    /\ holder # NoTask
    /\ ~ pending
    /\ NobodyTooLate
    /\ pending' = TRUE
    /\ beat' = FALSE
    /\ UNCHANGED <<msec_per_tick, milliseconds, days, next_decisec, holder,
                   sleeper, cur_time, user>>

\* s gives up the lock and is then as in r: the pending tick comes first.
GivesUp(s, r) ==
    /\ holder' = NoTask
    /\ pending' = FALSE
    /\ IF pending
       THEN /\ TimerUpdate
            /\ sleeper' = [[x \in Clients |-> WokenBy(x, msec_per_tick)] EXCEPT ![s] = r]
       ELSE /\ sleeper' = [sleeper EXCEPT ![s] = r]
            /\ beat' = FALSE
            /\ UNCHANGED <<msec_per_tick, milliseconds, days, next_decisec, cur_time, user>>

-----------------------------------------------------------------------------
Quiet == UNCHANGED <<msec_per_tick, milliseconds, days, next_decisec, pending, cur_time>>

\* timer_delay up to its loop.
TimerDelay(s, msec) ==
    /\ sleeper[s].pc = "away"
    /\ holder = NoTask
    /\ holder' = s
    /\ sleeper' = [sleeper EXCEPT ![s] =
                      [pc |-> "testing", t0 |-> milliseconds, msec |-> msec,
                       since |-> 0, late |-> 0]]
    /\ beat' = FALSE
    /\ Quiet /\ UNCHANGED user

Passed(s) == IntervalGreaterOrEqual(milliseconds - sleeper[s].t0, sleeper[s].msec)

\* The loop ends and the lock is released.
DelayReturn(s) ==
    /\ sleeper[s].pc = "testing"
    /\ Passed(s)
    /\ GivesUp(s, Away)

\* The loop waits: mutex_wait serves a pending tick and returns with the lock,
\* or releases the lock and sleeps.
DelayWait(s) ==
    /\ sleeper[s].pc = "testing"
    /\ ~ Passed(s)
    /\ IF pending
       THEN /\ TimerUpdate
            /\ sleeper' = [x \in Clients |-> WokenBy(x, msec_per_tick)]
            /\ pending' = FALSE
            /\ UNCHANGED holder
       ELSE /\ sleeper' = [sleeper EXCEPT ![s].pc = "asleep", ![s].late = 0]
            /\ holder' = NoTask
            /\ beat' = FALSE
            /\ Quiet /\ UNCHANGED user

\* mutex_wait takes the lock again.
DelayRelock(s) ==
    /\ sleeper[s].pc = "woken"
    /\ holder = NoTask
    /\ holder' = s
    /\ sleeper' = [sleeper EXCEPT ![s].pc = "testing"]
    /\ beat' = FALSE
    /\ Quiet /\ UNCHANGED user

\* timer_milliseconds, timer_days, timer_passed: the lock is taken and given up.
ReadClock(s) ==
    /\ sleeper[s].pc = "away"
    /\ holder = NoTask
    /\ holder' = s
    /\ sleeper' = [sleeper EXCEPT ![s].pc = "reading"]
    /\ beat' = FALSE
    /\ Quiet /\ UNCHANGED user

ReadDone(s) ==
    /\ sleeper[s].pc = "reading"
    /\ GivesUp(s, Away)

\* user_timer_wait by the task that the user timer belongs to.
UserTimerWait ==
    /\ user = "away"
    /\ user' = "waiting"
    /\ beat' = FALSE
    /\ Quiet /\ UNCHANGED <<holder, sleeper>>

TimerNext ==
    \/ Tick \/ TickWhileLocked
    \/ \E s \in Sleepers :
          \/ \E msec \in Delays : TimerDelay(s, msec)
          \/ DelayReturn(s) \/ DelayWait(s) \/ DelayRelock(s)
    \/ \E s \in Watchers : ReadClock(s) \/ ReadDone(s)
    \/ UserTimerWait

TimerSpec == TimerInit /\ [][TimerNext]_timerVars

-----------------------------------------------------------------------------
TimerTypeOK ==
    /\ msec_per_tick \in Ticks
    /\ milliseconds \in 0 .. Day - 1 /\ days \in 0 .. 1
    /\ next_decisec \in 0 .. Word - 1
    /\ beat \in BOOLEAN /\ pending \in BOOLEAN
    /\ holder \in Clients \cup {NoTask}
    /\ \A s \in Clients : holder = s <=> sleeper[s].pc \in {"testing", "reading"}
    /\ cur_time \in - MaxBacklog .. Period /\ user \in {"away", "waiting"}

\* "every 0.1 second is signalled here" (timer.h:19): the next decisecond is
\* never more than 100 ms away, after a day no more than before it.
DecisecondIsNear == next_decisec <= milliseconds + 100

\* ... and a tick signals it exactly when the clock comes to a new decisecond
\* or passes into one, at midnight too.
EveryDecisecond ==
    [][milliseconds' # milliseconds =>
          (beat' <=> \/ milliseconds' \div 100 # milliseconds \div 100
                     \/ next_decisec = 0)]_timerVars

\* timer_delay does not return early: whenever it returns, the clock has counted
\* at least msec since it was called, over midnight too.
DelayIsLongEnough ==
    [][\A s \in Sleepers :
          sleeper[s].pc = "testing" /\ sleeper'[s].pc = "away" =>
              sleeper[s].since >= sleeper[s].msec]_timerVars

\* ... and it does not oversleep: no tick leaves a task asleep that is due,
\* whenever it came, and wherever the tick found the lock.
NobodyOversleeps ==
    \A s \in Sleepers : sleeper[s].pc = "asleep" => sleeper[s].since < sleeper[s].msec

\* timer_delay returns.
DelayReturns == \A s \in Sleepers : sleeper[s].pc # "away" ~> sleeper[s].pc = "away"
=============================================================================

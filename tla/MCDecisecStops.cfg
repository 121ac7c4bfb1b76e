\* A tick of 100 ms, which timer_init admits and the examples use.
SPECIFICATION TimerSpec
CONSTANTS
    Sleepers = {s1}
    Watchers = {s2}
    Delays = {50}
    Ticks = {100}
    Day = 400
    Word = 1000
    Period = 60
    MaxLate = 2
    MaxBacklog = 0
    NoTask = NoTask
INVARIANT DecisecondIsNear
CHECK_DEADLOCK FALSE

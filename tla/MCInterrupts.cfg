SPECIFICATION Spec
CONSTANTS
    t1 = t1  t2 = t2  t3 = t3
    f1 = f1  f2 = f2  f3 = f3
    a = a  b = b
    i1 = i1  g1 = g1  x = x
    Tasks = {t1, t2, t3}
    Idle = Idle
    None = None
    Mutexes = {a, f1, f2, f3}
    Irqs = {i1}
    IrqMutex <- MCIrqMutex
    Groups = {}
    Members <- MCMembers
    finish <- MCFinish
    BootTasks = {t1, t2, t3}
    MaxPrio = 3
    StartPrio <- MCPrios
    SetPrios = {}
    Messages = {x}
    MaxDeep = 2
    Misuse = {}
CHECK_DEADLOCK FALSE
INVARIANTS
    InversionIsBounded
    PendingOnlyWhileLocked
PROPERTIES
    OnlyCreateDefersSwitch
    WaiterStaysArmed
    ImplementsMonitors

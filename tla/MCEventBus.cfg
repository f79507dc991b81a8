SPECIFICATION Spec
CONSTANTS
    Events = {e1, e2}
    NoEvent = NoEvent
    Capacity = 3
    CounterMod = 5
    Preempt = FALSE
INVARIANTS
    StatsAddUp
 

SPECIFICATION Spec
CONSTANTS
    Events = {e1, e2, e3}
    Capital = {e1, e2}
    Workers = {w1, w2}
    Stoppers = {s1, s2}
    MaxQueue = 1
    BatchSize = 2
    None = None
INVARIANTS QueueInv
PROPERTIES DeliversInOrder StopDrains QueueDrains
CHECK_DEADLOCK FALSE

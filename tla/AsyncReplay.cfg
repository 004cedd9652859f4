SPECIFICATION Spec
CONSTANTS
    Events = {e1, e2}
    Capital = {e1}
    Workers = {w1}
    Stoppers = {s1}
    MaxQueue = 1
    BatchSize = 2
    None = None
INVARIANT ReplaySuppressed
CHECK_DEADLOCK FALSE

SPECIFICATION Spec
CONSTANTS
    Threads = {t1, t2}
    Events = {e1, e2}
    Handlers = {h1, h2}
    WindowMax = 2
    DlqMax = 2
    MaxPublishes = 3
    MaxChanges = 1
    MaxReplays = 1
    None = None
SYMMETRY Symmetry
INVARIANTS BusInv ProcessedWasTaken DeliveredOnce FailuresOnRecord LoggedBeforeTaken
CHECK_DEADLOCK FALSE

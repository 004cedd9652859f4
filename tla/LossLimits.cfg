SPECIFICATION Spec
CONSTANTS
    Feeders = {f1, f2}
    Moves <- MCMoves
    Capitals <- MCCapitals
    ThresholdPct = 50
    DailyPct = 75
    Window = 1
    Cooldown = 2
    MaxSamples = 2
    MaxMoves = 2
    MaxDays = 1
    None = None
INVARIANTS LossInv HaltLasts
PROPERTIES HaltEnds
CHECK_DEADLOCK FALSE

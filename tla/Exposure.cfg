SPECIFICATION ExposureSpec
CONSTANTS
    b1 = b1
    b2 = b2
    s1 = s1
    fut = fut
    eq = eq
    Orders = {b1, b2, s1}
    Symbols = {fut, eq}
    SymbolOf <- MCSymbolOf
    Sign <- MCSign
    Lots <- MCLots
    Multiplier <- MCMultiplier
    SymbolLimit = 5
    GrossLimit = 5
    NoOrder = NoOrder
INVARIANTS ReservationInv ExposureWithinLimits
CHECK_DEADLOCK FALSE

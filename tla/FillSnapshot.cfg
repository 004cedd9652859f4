SPECIFICATION Spec
CONSTANTS
    buy = buy
    sell = sell
    OrderIds = {buy}
    OrderQty <- OneQty
    Sign <- OneSign
    BufferMax = 1
    SeenMax = 1
    MaxCrashes = 0
    Reconciles = FALSE
    MemoryExpires = FALSE
    TradeUpdates = FALSE
    WritesFail = {}
    None = None
INVARIANTS PositionIsSumOfFills

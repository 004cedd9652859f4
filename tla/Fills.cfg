SPECIFICATION Spec
CONSTANTS
    buy = buy
    sell = sell
    OrderIds = {buy, sell}
    OrderQty <- PairQty
    Sign <- PairSign
    BufferMax = 1
    SeenMax = 1
    MaxCrashes = 1
    Reconciles = FALSE
    MemoryExpires = FALSE
    TradeUpdates = FALSE
    WritesFail = {"store", "ledger", "mark"}
    None = None
INVARIANTS PositionNotAhead ProcessedReachedPosition MarksOnLedger

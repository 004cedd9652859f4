SPECIFICATION Spec
CONSTANTS
    buy = buy
    sell = sell
    OrderIds = {buy, sell}
    OrderQty <- PairQty
    Sign <- PairSign
    BufferMax = 1
    SeenMax = 1
    MaxCrashes = 0
    Reconciles = TRUE
    MemoryExpires = FALSE
    TradeUpdates = FALSE
    WritesFail = {}
    None = None
INVARIANTS ProcessedReachedPosition

SPECIFICATION FairSpec
CONSTANTS
    NumServices = 2
    Loops <- MCLoops
    Main = Main
    None = None
INVARIANTS GateInv OpenedByCleanRun
PROPERTIES RequestServed StopEnds
CHECK_DEADLOCK FALSE

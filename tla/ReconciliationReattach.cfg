SPECIFICATION FairSpec
CONSTANTS
    NumServices = 2
    Loops <- MCLoops
    Main = Main
    None = None
PROPERTIES AttachedServiceServes
CHECK_DEADLOCK FALSE

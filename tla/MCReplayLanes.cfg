SPECIFICATION FairSpec
CONSTANTS
    Programs <- MCPrograms
    Generations = {1}
    LanesPerGeneration = 3
    LanesPerCopy = 2
    VIRCapacity = 2
    StackEntries = 1
    HelperMaxUops = 4
INVARIANTS DeferredHeld
  
CHECK_DEADLOCK FALSE

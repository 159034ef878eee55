SPECIFICATION FairSpec
CONSTANTS
    NumUops = 3
    LanesPerLaunch = 1
    ElementsPerChunk = 1
    HelperMaxUops = 2
    FrontEndBufferCapacity = 4
    HelperIssueWidth = 1
    IssueWidth = 1
    LSUWidth = 1
    FrontEndWidth = 1
    MaxQueued = 2
    LoadQueueCapacity = 1
    MaxLaunches = 2
INVARIANTS
    OutstandingIsInFlight
PROPERTIES
    RequestsDrain
    

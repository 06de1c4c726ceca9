\* Three tests with two helpers each.  The suite ends.
CONSTANTS
    h1 = h1
    h2 = h2
    Helpers <- TwoHelpers
    NumTests = 3
    MayFault <- OnceReady
SPECIFICATION FairSpec
INVARIANTS TypeOK NeverRunsOn StartsClean
PROPERTIES ReportsTruly EveryTestReported
CHECK_DEADLOCK FALSE

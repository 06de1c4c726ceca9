\* The process of a test may fault before it has read its init data.
CONSTANTS
    h1 = h1
    h2 = h2
    Helpers <- TwoHelpers
    NumTests = 1
    MayFault <- AnyTime
SPECIFICATION FairSpec
PROPERTIES EveryTestReported
CHECK_DEADLOCK FALSE

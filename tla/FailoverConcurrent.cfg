SPECIFICATION Spec
CONSTANTS
    N = 3
    Rest = {get, put}
    Bodies = {put}
    Dialers = {dial}
CHECK_DEADLOCK FALSE
INVARIANTS TypeOK AnnouncedOnceUnlessKept FailureMeansAllTried

SPECIFICATION FairSpec
CONSTANTS
    Listens = {l1, l2}
    Closes = {k1}
    MaxConns = 2
CHECK_DEADLOCK FALSE
INVARIANTS TypeOK OneReader ClosedOnReturn
PROPERTIES ListenReturns

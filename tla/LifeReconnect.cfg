SPECIFICATION Spec
CONSTANTS
    Listens = {l1}
    Closes = {k1}
    MaxConns = 1
CHECK_DEADLOCK FALSE
INVARIANTS ReconnectStarts

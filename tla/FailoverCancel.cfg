SPECIFICATION Spec
CONSTANTS
    N = 2
    Rest = {get}
    Bodies = {}
    Dialers = {}
CHECK_DEADLOCK FALSE
PROPERTIES NoAttemptAfterCancel

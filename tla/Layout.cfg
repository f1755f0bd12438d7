SPECIFICATION Spec
CONSTANTS
    Counts = {0, 1, 256}
    Texts = {0, 1}
    Blobs = {1, 65536}
    Nonces = {0, 7}
    Strategy = 250
    MinInner = 1
    MaxInner = 2
    MaxCosigners = 2
CHECK_DEADLOCK FALSE
INVARIANTS Verifiable FieldsWhole CountsAnnounced InnerDelimited
PROPERTIES PayloadSpec

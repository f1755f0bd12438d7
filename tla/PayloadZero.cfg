SPECIFICATION Spec
CONSTANTS
    Counts = {0, 1}
    Texts = {0, 1}
    Blobs = {32}
    Nonces = {0, 1}
    Strategy = 250
    MinInner = 1
    MaxInner = 1
    MaxCosigners = 1
INVARIANTS SizeFieldExact

SPECIFICATION Spec
CONSTANTS
    Counts = {0, 1, 3, 255}
    Texts = {0, 1, 7}
    Blobs = {1, 32}
    Nonces = {1, 7}
    Strategy = 250
    MinInner = 1
    MaxInner = 2
    MaxCosigners = 2
INVARIANTS TypeOK SizeFieldExact CosignaturesDelimited FeeCoversPayload

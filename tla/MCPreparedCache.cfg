SPECIFICATION Spec
CONSTANTS
    MaxBytes = 4
    MaxEntries = 3
    TTL = 2
    MaxToken = 5
    Sizes <- TwoSizes
    MaxTime = 5
INVARIANTS BytesAreExact WithinLimits
PROPERTY NothingServedLate

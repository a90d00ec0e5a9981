SPECIFICATION Spec
CONSTANTS
    Indices <- SixIndices
    Times <- ThreeTimes
    None = None
INVARIANT
    Indexed
PROPERTY
    IsDeadlineTable

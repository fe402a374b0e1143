CONSTANTS
    Handles = {0, 1}
    Indices = {0, 1, 2}
    MaxChanges = 3
SPECIFICATION Spec
INVARIANT TypeOK
PROPERTY DownsEventuallyApplied
CHECK_DEADLOCK FALSE

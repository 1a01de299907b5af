CONSTANTS
    League = {A, B}
    None = None
    MaxFetches = 3
    MaxWrites = 2
SPECIFICATION Spec
CHECK_DEADLOCK FALSE
INVARIANT RecordsOfChosen

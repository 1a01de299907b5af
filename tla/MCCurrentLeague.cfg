CONSTANTS
    League = {1, 2}
    MaxVisits = 1
    MaxChanges = 1
SPECIFICATION Spec
CHECK_DEADLOCK FALSE
INVARIANT CurrentIsInUrl

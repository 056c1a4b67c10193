SPECIFICATION Spec
CONSTANTS
    tmask = {1, 2, 3, 4, 5, 6, 7}
    Registers = 8
    Slots = 9
    Programs <- Forests
CHECK_DEADLOCK FALSE
INVARIANT UsesFindTheirValues
INVARIANT FreeMeansDead

SPECIFICATION Spec
CONSTANTS
    Width = 3
    Turns = 5
    Fuel = 150
    Programs <- Functions
    Stores <- Starts
CHECK_DEADLOCK FALSE
INVARIANT CodeMeansProgram
INVARIANT JumpsFindLabels
INVARIANT AssertionsHold

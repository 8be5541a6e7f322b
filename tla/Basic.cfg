CONSTANTS
    Programs <- MCPrograms
    MaxTurns = 3
SPECIFICATION Spec
INVARIANT Balanced
PROPERTIES Structured CallsReturn

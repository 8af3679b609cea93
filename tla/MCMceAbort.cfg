SPECIFICATION Spec
CONSTANT
    MaxLines = 2
INVARIANT
    CorrectedIsWarned
CHECK_DEADLOCK FALSE

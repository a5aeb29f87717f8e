SPECIFICATION Spec
CONSTANTS
    a = a
    b = b
    c = c
    NoCheckpoint = NoCheckpoint
    StepList <- ThreeSteps
    MaxInterrupts = 1
INVARIANTS
    ResumeCompletes
CHECK_DEADLOCK FALSE

SPECIFICATION Spec
CONSTANTS
    a = a
    b = b
    c = c
    NoCheckpoint = NoCheckpoint
    StepList <- ThreeSteps
    MaxInterrupts = 2
INVARIANTS
    TypeOK
    LayersSound
    OrderRespected
    InputsThere
    CompletedNotRerun
PROPERTIES
    IsDurable
CHECK_DEADLOCK FALSE

\* the budget of the code: three retries
SPECIFICATION Spec
CONSTANTS
    MaxRetries = 3
INVARIANTS
    
    SuccessIsOfWrittenCode
    ContainersAccountedFor
PROPERTIES
    WorkflowEnds
CHECK_DEADLOCK FALSE

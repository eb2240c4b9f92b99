\* two papers; up to four workflows and two documents, in any order
SPECIFICATION Spec
CONSTANTS
    Papers = {p1, p2}
    MaxRuns = 4
    MaxDocs = 2
INVARIANTS
    NotesAreGrounded
    SelectedAreRead
PROPERTIES
    WorkflowEnds
CHECK_DEADLOCK FALSE

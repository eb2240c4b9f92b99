\* a thread with plans of up to two steps
SPECIFICATION Spec
CONSTANTS
    Offered = {"extraction", "execution", "critique"}
    MaxPlan = 2
INVARIANTS
    CritiqueReviewsArtifacts
    PlanStepsWereRun
    RevisionsBounded
PROPERTIES
    RunEnds
CHECK_DEADLOCK FALSE

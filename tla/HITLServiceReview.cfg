SPECIFICATION Spec
CONSTANTS
    t1 = t1
    t2 = t2
    r1 = r1
    r2 = r2
    fix = fix
    None = None
    MaxWorkflows = 2
    Tasks <- MCTasks
    Scores <- MCScores
    Threshold = 70
    Texts <- MCTexts
    Reviewers <- MCReviewers
    MaxTrail = 4
SYMMETRY Symmetry
INVARIANTS
    TypeOK
    NoBypass
    FirstDecisionCounts
    DeskIsCurrent
    CompleteTrail
PROPERTIES
    TrailAppendOnly
CHECK_DEADLOCK FALSE

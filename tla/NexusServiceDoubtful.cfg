SPECIFICATION PartsSpec
CONSTANTS
    MaxIterations = 2
    Threshold = 30
    EarlyExit = 90
    Confidences <- MCConfidences
    MaxReflections = 3
    ScoreThreshold = 80
    Judgements <- MCJudgements
    ProposerCounts <- MCProposers
    Critiques <- MCCritiques
    MemberNames <- MCNames
    Rosters <- MCRosters
    Expertises <- MCExpertises
    Decompositions <- MCDecompositions
    Patterns <- MCPatterns
    Tasks <- MCTasks
    Budgets <- MCBudgets
    DefaultBudget = 100000000
    s1 = s1
    s2 = s2
    s3 = s3
    AnySession = AnySession
    Sessions <- MCSessions
    Capacity = 2
    MaxAdds = 5
    Scores <- MCScores
    Limits <- MCLimits
    k1 = k1
    k2 = k2
    Configs <- MCConfigs
    MaxObjects = 6
    MaxLog = 2
    Candidates <- MCCandidates
    NoCandidate = NoCandidate
    CanaryTasks <- MCCanaryTasks
    Bucket <- MCBucket
    Percents <- MCPercents
    Elapsed <- MCElapsed
    Baselines <- MCBaselines
    DefaultBaseline <- MCDefaultBaseline
    MaxRequests = 2
INVARIANT LowConfidencePauses

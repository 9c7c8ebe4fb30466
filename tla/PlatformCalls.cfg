SPECIFICATION PlatformSpec
CONSTANTS
    Window = 1
    MaxSnapshots = 1
    Agents <- MCAgents
    Latencies <- MCLatencies
    Snapshots <- MCSnapshots
    RunCost = 2
    MaxTime = 2
    MaxPoints = 3
    a = a
    b = b
    Rules <- MCRules
    Times <- MCTimes
    MaxAlerts = 2
    c1 = c1
    c2 = c2
    None = None
    Calls <- MCCalls
    Roles <- MCRoles
    Tools <- MCTools
INVARIANTS
    ReadsWindow
    CooldownRespected
    RunsWhatWasChecked
    AnswerTellsEffects
PROPERTY IndexStable

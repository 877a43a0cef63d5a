SPECIFICATION Spec
CONSTANTS
    i1 = i1
    i2 = i2
    s1 = s1
    s2 = s2
    opus = opus
    haiku = haiku
    cluster = cluster
    hmm = hmm
    Installations = {i1, i2}
    Sessions = {s1, s2}
    InstallationOf <- MCInstallationOf
    Models = {opus, haiku}
    Price <- MCPrice
    Strategies = {cluster, hmm}
    DefaultStrategy = cluster
    None = None
    HoursPerDay = 2
    DaysPerWeek = 2
    MaxTurns = 2
    DetailLimit = 2
    DateRanges <- MCDateRanges
    Scenarios <- MCScenarios
    HMMStrategies = {hmm}
    Reporters = {hmm}
    Trainable = {s1}
    Speakers = {s1}
    Numbers <- MCNumbers
    LinkTTL = 1
INVARIANTS
    CreditedToItsPolicy
    ThumbsWereGiven
    DashboardKeepsUp
CHECK_DEADLOCK FALSE

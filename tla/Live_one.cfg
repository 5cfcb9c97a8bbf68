SPECIFICATION FairStack
CONSTANTS
    Contacts = 3
    Broken = {2}
    Forcing = {TRUE, FALSE}
    Interval = 6
    RetryMin = 4
    RetryMax = 12
    Jitter = 3
    Rest = 2
    MaxFailures = 2
    MaxDisruptions = 1
    Configs <- MCConfigs
    MaxFaults = 2
INVARIANTS
    StackTypeOK
    BackoffFollowsFailures
    OneWacliAtATime
    LogStaysWithItsCache
PROPERTIES
    ReadyWhenStarted
    SyncGoesOn
    PollsGoOn

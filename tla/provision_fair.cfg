SPECIFICATION FairSpec
CONSTANTS
    NAccounts = 2
    DumpAccounts = {1}
    Attempts <- MakeTargets
    Targets = {"stop", "down", "destroy"}
    MaxFailures = 2
    SleepsSuffice = TRUE
PROPERTIES
    RestoredIntoSettledServer
    AttemptEnds
    EventuallyProvisioned

SPECIFICATION Spec
CONSTANTS
    NAccounts = 2
    DumpAccounts = {1}
    Attempts <- SixWays
    Targets = {"stop", "down", "destroy", "dev.up"}
    MaxFailures = 1
    SleepsSuffice = FALSE
CONSTRAINT KeptBound
INVARIANTS
    TypeOK
    ProvisionedOnDisk
    ScriptWritesReachVolume
    StaleCloneStops
    RestoredIndexServed
    SearchContainerExists
    BareRunImportsNothing
PROPERTIES
    OnlyRestoreOrDestroyLoses

SPECIFICATION Spec
CONSTANTS
    NAccounts = 2
    DumpAccounts = {1}
    Attempts <- OnlyDevProvision
    Targets = {}
    MaxFailures = 1
    SleepsSuffice = TRUE
INVARIANTS
    DemoPasswordsAreSet

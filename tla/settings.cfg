SPECIFICATION Spec
CONSTANTS
    Common <- Defaults
    Variant = "lms"
    Names <- AllNames
    Choices <- MCChoices
    Edits <- MCEdits
    MaxEdits = 1
    MaxFaults = 2
INVARIANTS
    TypeOK
    Current
    BrokerWhole
    TasksReachWorkers
    LoginComplete
    ExtensionsFirst
    SandboxKept
PROPERTIES
    EventuallyServed

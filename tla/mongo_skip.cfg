SPECIFICATION Spec
CONSTANTS
    Texts <- AllTexts
    CommandLines <- FewCommandLines
    Environments <- SomeCredentials
    InitFiles <- EveryKind
    MaxFailures = 1
INVARIANTS
    SkipsOnlyIfInitialised

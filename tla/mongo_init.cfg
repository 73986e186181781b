SPECIFICATION FairSpec
CONSTANTS
    Texts <- AllTexts
    CommandLines <- FewCommandLines
    Environments <- SomeEnvironments
    InitFiles <- EveryKind
    MaxFailures = 2
INVARIANTS
    TypeOK
    OneServer
    ServesInitialised
PROPERTIES
    ServedIsNeverInitialised
    StartEnds
    ImplementsInitOnce

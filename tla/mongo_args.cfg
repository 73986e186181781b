SPECIFICATION Spec
CONSTANTS
    Texts <- AllTexts
    CommandLines <- ManyCommandLines
    Environments <- WithAndWithout
    InitFiles <- NoFiles
    MaxFailures = 0
INVARIANTS
    TemporaryServerPrivate
    AcceptedStaysAccepted

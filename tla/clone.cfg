SPECIFICATION PersistentSpec
CONSTANTS
    Repos <- Pinned
    WorkspaceThere = {TRUE, FALSE}
    Answers = {"yes", "no", "eof"}
    MaxFailures = 2
INVARIANTS
    TypeOK
    SuccessCompletes
    AtRootBetweenRepos
PROPERTIES
    EventuallyCloned

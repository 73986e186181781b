SPECIFICATION Spec
CONSTANTS
    Repos <- Today
    WorkspaceThere = {FALSE}
    Answers = {"yes"}
    MaxFailures = 0
INVARIANTS
    SuccessDelivers

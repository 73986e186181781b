SPECIFICATION Spec
CONSTANTS
    Horizon = 2
    NoDate = NoDate
    Unread = Unread
INVARIANTS
    RelativeDateAhead

SPECIFICATION Spec
CONSTANTS
    Ops = {o1}
    Editors = {e1}
    MaxRequests = 2
    MaxEdits = 0
INVARIANT TreeDies
CHECK_DEADLOCK FALSE

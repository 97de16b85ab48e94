SPECIFICATION Spec
CONSTANTS
    q1 = q1
    q2 = q2
    q3 = q3
    Requests <- MCRequests
    Undisturbed = FALSE
INVARIANTS
    RaisedFailuresSurface

SPECIFICATION Spec
CONSTANTS
    w1 = w1
    w2 = w2
    w3 = w3
    Absent = Absent
    Writers <- ThreeWriters
    Last = 4
    Sequential = TRUE
INVARIANTS
    DocumentsAreComplete
PROPERTIES
    SealsEvidence
CHECK_DEADLOCK FALSE

SPECIFICATION Spec
CONSTANTS
    w1 = w1
    w2 = w2
    w3 = w3
    Absent = Absent
    Writers <- TwoWriters
    Last = 4
    Sequential = FALSE
PROPERTIES
    SealedNeverOverwritten
CHECK_DEADLOCK FALSE

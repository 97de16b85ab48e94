SPECIFICATION Spec
CONSTANTS
    e1 = e1
    e2 = e2
    t1 = t1
    t2 = t2
    d1 = d1
    d2 = d2
    Absent = Absent
    Torn = Torn
    Mixed = Mixed
    Exports <- TwoExports
    TickAudits <- TwoTickAudits
    DealAudits <- OneDealAudit
    Outcomes <- ThreeOutcomes
    MaxEvents = 2
    Required = 2
    MaxFailures = 1
    Sequential = TRUE
INVARIANTS
    TableNeverAbandoned
SYMMETRY Symmetry
CHECK_DEADLOCK FALSE

SPECIFICATION Spec
CONSTANTS
    M5 = M5
    H1 = H1
    None = None
    Timeframes <- TwoTimeframes
    Length <- Lengths
    Minute = 2
    Hour = 4
    Times <- SourceTimes
    Epochs <- BarEpochs
    MaxBars = 2
    MaxTrades = 2
    ExpectedTrades = 2
INVARIANTS
    AlignedMeansContained
    CertifiedMeansWholeCorpus
    ShiftsAreApproved
    GapExplainsRefusal
CHECK_DEADLOCK FALSE

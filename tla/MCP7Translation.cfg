CONSTANTS
    MaxBody = 120
    Frames = 2
    Subframes = 1
    MaxDlPdus = 2
    MaxUlPdus = 2
    MaxCoresets = 1
    MaxTxPdus = 2
    MaxTb = 400
    DciBits = 4
    Carrier = 9
    Content <- MCContent
    BodyReports = 2
    OaiBodyUcis = 1
    AerialBodyUcis = 2
    OaiMaxRxTb = 32
    AerialMaxRxTb = 64
    InvalidTa = 65535
    Numerologies = {0, 1}
    MaxSlot = 4
    Ahead = 1
    Lists <- MCLists
    Outcomes <- MCOutcomes
SPECIFICATION Spec
INVARIANTS SlotAgreement WholeOrNothing ReadAsMeant FeedbackTruth
CHECK_DEADLOCK FALSE

CONSTANTS
    N = 2
    AnswerKeys = {"key"}
    NoticeKeys = {"user"}
    UndoneBy <- TwoUndoneBy
    AsksAfter <- TwoAsksAfter
    AheadKeys <- TwoAheadKeys
    Uses <- TwoUses
    Notices <- TwoNotices
    Changing <- TwoChanging
    FrontEnds = {console, client}
    MaxGeneration = 2
    MaxCrashes = 1
    MaxFaults = 1
    MaxAttaches = 1
SYMMETRY FrontEndSymmetry
SPECIFICATION Spec
CONSTRAINT FaultOrAttach
INVARIANTS TypeOK RecordedBeforeBegun RunIsOrderly
PROPERTY RestartLosesAtMostOneStep
CHECK_DEADLOCK FALSE

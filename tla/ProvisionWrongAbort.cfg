CONSTANTS
    N = 2
    AnswerKeys = {"key"}
    NoticeKeys = {"user"}
    UndoneBy <- TwoUndoneBy
    AsksAfter <- TwoAsksAfter
    AheadKeys <- TwoAheadKeys
    Uses <- TwoUses
    Notices <- TwoNotices
    Changing <- TwoChanging
    FrontEnds = {"console", "client"}
    MaxGeneration = 3
    MaxCrashes = 0
    MaxFaults = 0
    MaxAttaches = 0
SPECIFICATION Spec
INVARIANTS RunHasDriver
CHECK_DEADLOCK FALSE

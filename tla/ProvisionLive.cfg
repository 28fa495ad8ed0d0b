CONSTANTS
    N = 2
    AnswerKeys = {"key"}
    NoticeKeys = {"user"}
    UndoneBy <- TwoUndoneBy
    AsksAfter <- TwoAsksAfter
    AheadKeys <- TwoAheadKeys
    Uses <- TwoUses
    Notices <- TwoNotices
    Changing <- TwoChanging
    FrontEnds = {"console"}
    MaxGeneration = 2
    MaxCrashes = 1
    MaxFaults = 1
    MaxAttaches = 0
SPECIFICATION FairSpec
INVARIANTS RunIsHeldToItsEnd
PROPERTIES RunProgresses EventuallyChecked
CHECK_DEADLOCK FALSE

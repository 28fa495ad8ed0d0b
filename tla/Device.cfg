CONSTANTS
    Clients = {"a", "b"}
    SlotCount = 1
    QueueDepth = 1
    MaxConnects = 2
    MaxWrites = 2
    MaxFaults = 1
    Pumps = {"p", "q"}
    MaxLen = 2
    Slack = 1
    Window = 3
    MaxClock = 9
    Stable = 2
    RunStates = {"idle", "running"}
    MaxSessions = 2
    MaxReads = 6
    Prompts = {"key"}
    RunSteps = {"disk"}
    MaxVersion = 6
    MaxTries = 2
    Selections <- MCSelections
    Faulty = TRUE
    MaxGenerations = 4
    MaxLosses = 2
    MaxHides = 1
    Candidates = {"x", "y"}
    MaxCandidates = 2
    MaxSaves = 2
    MaxTyped = 1
    MaxSetbacks = 2
    FirstHeld <- MCFirstHeld
    Others <- MCOthers
SPECIFICATION Spec
INVARIANTS LeavesOthersAlone WritesAreRead ComesBackOnAir WithinRate PanelIsHonest AsksOfWhatIs BoardIsSafe LinkIsAsSaid ScreenFollows
PROPERTIES PressIsHeld
CHECK_DEADLOCK FALSE

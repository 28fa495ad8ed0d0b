SPECIFICATION Spec
CONSTANTS
    s1 = s1
    s2 = s2
    Sessions <- MCSessions
    Documents <- MCTwo
    Default <- MCDefault
    Size <- MCSizeTwo
    Admitted <- MCAdmitted
    MaxCaps = 0
    MaxProposals = 2
    MaxOpens = 2
    MaxChanges = 0
    MaxFaults = 1
    MaxCrashes = 1
    SyncFails = FALSE
SYMMETRY Symmetric
INVARIANTS SessionsAgree HeldIsToldAndRun
PROPERTIES BaselineKept
CHECK_DEADLOCK FALSE

SPECIFICATION Spec
CONSTANTS
    s1 = s1
    s2 = s2
    Sessions <- MCOne
    Documents <- MCDocuments
    Default <- MCDefault
    Size <- MCSize
    Admitted <- MCAdmitted
    MaxCaps = 0
    MaxProposals = 1
    MaxOpens = 2
    MaxChanges = 0
    MaxFaults = 1
    MaxCrashes = 0
    SyncFails = TRUE
CHECK_DEADLOCK FALSE
PROPERTY RefusedIsNotHeld

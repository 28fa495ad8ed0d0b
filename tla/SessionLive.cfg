SPECIFICATION FairSpec
CONSTANTS
    s1 = s1
    s2 = s2
    Sessions <- MCOne
    Documents <- MCTwo
    Default <- MCDefault
    Size <- MCSizeTwo
    Admitted <- MCAdmitted
    MaxCaps = 1
    MaxProposals = 1
    MaxOpens = 2
    MaxChanges = 1
    MaxFaults = 1
    MaxCrashes = 1
    SyncFails = FALSE
CHECK_DEADLOCK FALSE
PROPERTIES VerdictComes ClientsAreServed

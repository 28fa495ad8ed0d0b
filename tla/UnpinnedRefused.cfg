CONSTANTS
    WiredOrder <- MCWired
    RadioOrder <- MCStationed
    Alongside <- MCAlongside
    Ssids = {"clinic"}
    MaxSignal = 2
    Channels = {"ch1"}
    Configurations <- MCSelectable
    MaxAttempts = 4
    Wired = {"eth0"}
    Radios <- MCRadios
    Documents <- MCDocuments
    Selections <- MCSelections
    Renderings <- MCRenderings
    Sendable <- MCSendable
    Proposable <- MCProposable
    Alphabet <- MCAlphabet
    Wiphys <- MCWiphys
    MaxApplies = 3
    MaxFaults = 2
    Tries = 2
    MaxMoves = 4
    MaxFails = 1
SPECIFICATION Spec
INVARIANTS AnyKeyAdmits
CHECK_DEADLOCK FALSE

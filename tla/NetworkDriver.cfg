CONSTANTS
    WiredOrder <- OneWired
    RadioOrder <- OneRadio
    Alongside <- OneShared
    Ssids = {"clinic"}
    MaxSignal = 1
    Channels = {"ch1", "radar"}
    Barred = {"radar"}
    Body <- Bodies
    Configurations <- TwoDocuments
    Domain <- OneDomain
    Found <- UpOrNot
    MaxCommands = 2
    MaxHappens = 1
SPECIFICATION Spec
INVARIANTS ChecksAreCurrent NothingIsStranded
PROPERTIES VerifiedIsInForce
CHECK_DEADLOCK FALSE

CONSTANTS
    WiredOrder <- OneWired
    RadioOrder <- OneRadio
    Alongside <- OneShared
    Ssids = {"clinic"}
    MaxSignal = 1
    Channels = {"ch1", "radar"}
    Barred = {"radar"}
    Body <- Bodies
    Configurations <- TwoDocuments
    Domain <- OneDomain
    Found <- UpOrNot
    MaxCommands = 2
    MaxHappens = 1
SPECIFICATION Spec
INVARIANT FailureIsOwn
CHECK_DEADLOCK FALSE

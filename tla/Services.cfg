CONSTANTS
    Clients = {"c1", "c2"}
    Acts = {"reboot", "power-off"}
    MaxOpens = 3
    MaxAsks = 2
    Fast = {"f"}
    Slow = {"w"}
    FactNames = {"n"}
    Streams = {"a", "b"}
    SessionOf <- MCSessionOf
    LiveLag = 2
    SlowEvery = 2
    IdleStop = 2
    MaxTicks = 6
    Tailnet = "ours"
    Watchers = {"a", "b"}
    MaxActs = 2
    MaxTroubles = 1
    Services = {"web", "api"}
    TamanuStreams = {"a", "b"}
    MaxCommands = 2
    MaxDrifts = 0
    Full = 60
    FloorV = 8
    StepV = 3
    CrowdedV = 1
    NarrowV = 2
    NarrowC = 2
    Shortest = 12
    Reach = 1
    Every = 12
    MaxLearnt = 5
    Lessons <- MCLessons
    Volts = {1, 9, 10, 12, 14}
    Floor = 5
    Termination = 14
    Relax = 2
    Still = 1
    Resting = 10
    Confirm = 2
    Grace = 4
    Hold = 2
    CurveStreams = {"s"}
    MaxLooks = 6
    MaxChanges = 2
SPECIFICATION Spec
INVARIANTS GoesAsTold ReaderHolds ActsRunToTheirEnd LearntIsValid SeenAsItIs CurvesAreKept
CHECK_DEADLOCK FALSE

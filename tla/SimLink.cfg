SPECIFICATION LinkSpec
CONSTANTS
    Heaters = {"hotend"}
    Axes = {}
    TimedHeaters = {"hotend"}
    HeartbeatTimeout <- MCHeartbeatTimeout
    AmbientMilliC = 0
    GainMilliC <- MCGainMilliC
    Temperatures <- MCTemperatures
    StartPosition <- MCStartPosition
    STEP_TICKS = 2
    MsPerS = 2
    I64Limit = 64
    QueueCapacity = 2
    Windows <- MCWindows
    DefaultWindow <- MCDefaultWindow
    SampleEvery = 4
    Commands <- MCCommands
    ExecuteTimes = {4, 6}
    MaxTime = 8
    None = None
    LatencyTicks = 1
    JitterTicks = 2
    Duplicates = TRUE
    MaxInFlight = 2
INVARIANTS SeveredLinkStarves SilentHostStarves
PROPERTIES ExecutesOnItsQuantum
CHECK_DEADLOCK FALSE

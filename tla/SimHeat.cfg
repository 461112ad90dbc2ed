SPECIFICATION Spec
CONSTANTS
    Heaters = {"hotend", "chamber"}
    Axes = {}
    TimedHeaters = {"hotend"}
    HeartbeatTimeout <- MCHeartbeatTimeout
    AmbientMilliC = 0
    GainMilliC <- MCGainMilliC
    Temperatures <- WarmTemperatures
    StartPosition <- MCStartPosition
    STEP_TICKS = 2
    MsPerS = 2
    I64Limit = 64
    QueueCapacity = 2
    Windows <- MCWindows
    DefaultWindow <- MCDefaultWindow
    SampleEvery = 4
    Commands <- HeatCommands
    ExecuteTimes = {3, 4, 6}
    MaxTime = 8
    None = None
INVARIANTS TypeOK HeartbeatEnvelope FaultedOutputsOff QueueSound
PROPERTIES ExecutesWhenDue EdgeSafetySpec
CHECK_DEADLOCK FALSE

SPECIFICATION FairStreamSpec
CONSTANTS
    Heaters = {}
    Axes = {"x"}
    TimedHeaters = {}
    HeartbeatTimeout <- MCNoHeaters
    AmbientMilliC = 0
    GainMilliC <- MCNoHeaters
    Temperatures <- MCTemperatures
    StartPosition <- MCStartPosition
    STEP_TICKS = 2
    MsPerS = 2
    I64Limit = 64
    QueueCapacity = 3
    Windows = {}
    DefaultWindow <- MCDefaultWindow
    SampleEvery = 32
    Commands = {}
    ExecuteTimes = {}
    MaxTime = 24
    None = None
    target_horizon = 2
    max_batch_size = 2
    schedule_lead_margin_us = 2
    Passes <- MCPasses
    Envelopes <- LoweredJob
    MaxJobs = 4
    MaxBatch = 4
    MaxUnderruns = 2
    RereadsStatus = TRUE
    Resets = FALSE
    SinkFails = FALSE
    LastEnqueue = 6
INVARIANTS HorizonKept CompletedMeansStarted
PROPERTIES DispatchedIsAccepted JobCompletes
CHECK_DEADLOCK FALSE

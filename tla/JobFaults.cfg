SPECIFICATION StreamSpec
CONSTANTS
    Heaters = {}
    Axes = {"x"}
    TimedHeaters = {}
    HeartbeatTimeout <- MCNoHeaters
    AmbientMilliC = 0
    GainMilliC <- MCNoHeaters
    Temperatures <- MCTemperatures
    StartPosition <- MCAwayPosition
    STEP_TICKS = 2
    MsPerS = 2
    I64Limit = 64
    QueueCapacity = 3
    Windows = {}
    DefaultWindow <- MCDefaultWindow
    SampleEvery = 32
    Commands = {}
    ExecuteTimes = {}
    MaxTime = 24
    None = None
    target_horizon = 2
    max_batch_size = 2
    schedule_lead_margin_us = 2
    Passes <- MCPasses
    Envelopes <- MotionJob
    MaxJobs = 4
    MaxBatch = 4
    MaxUnderruns = 2
    RereadsStatus = FALSE
    Resets = TRUE
    SinkFails = TRUE
    LastEnqueue = 6
PROPERTIES MotionAdvances MarginKept
CHECK_DEADLOCK FALSE

SPECIFICATION Spec
CONSTANTS
    target_horizon = 2
    max_batch_size = 2
    schedule_lead_margin_us = 2
    Passes <- MCPasses
    Envelopes <- MCEnvelopes
    MaxJobs = 4
    MaxBatch = 2
    MaxUnderruns = 1
    Statuses <- MCStatuses
    None = None
INVARIANTS Conserved CompletedIsDrained
PROPERTIES BatchFits FaultedIsFinal
CHECK_DEADLOCK FALSE

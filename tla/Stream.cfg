SPECIFICATION Spec
CONSTANTS
    MAX_STRING_LEN = 3
    MAX_PAYLOAD_LEN = 7
    NotUtf8 = {255}
    None = None
    max_capacity = 26
    Controllers = {c1}
    Timeouts = {1}
    Id = c1
    Envelopes <- MCEnvelopes
    Statuses <- MCStatuses
    Responses <- MCResponses
    Aliens <- MCAliens
    Noise <- MCNoise
    Damaged <- MCDamaged
    ReadSize = 13
    Pieces = {6}
    MaxWrites = 3
    MaxTime = 1
INVARIANTS IntactFramesKept LostOnlyAfterRejection DaemonKnowsStatus
PROPERTY NothingForged
CHECK_DEADLOCK FALSE

SPECIFICATION Spec
CONSTANTS
    PARTS_PER_BILLION = 3
    max_slew_ppb = 2
    None = None
    LastSequence = 2
    timeout_ticks = 4
    request_link <- MCRequestLink
    response_link <- MCResponseLink
    processing_ticks = 2
    max_pending = 2
    Rates <- MCRates
    controller_epoch = 5
    MaxTime = 9
INVARIANTS SessionTypeOK HonestAnswersCount WindowNearTruth
PROPERTIES NoSequenceReuse SamplesAreRoundTrips
CHECK_DEADLOCK FALSE

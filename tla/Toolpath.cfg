SPECIFICATION Spec
CONSTANTS
    default_feed_rate_um_s = 10
    hotend_name = "hotend_heater"
    bed_name = "bed_heater"
    None = None
    axes <- MCAxes
    max_feed_rate_um_s = 1000
    heater_ceilings_milli_c <- MCCeilings
    Lines <- MCLines
    MaxLines = 4
INVARIANTS LoweredKeepsPosition AuditDecides QueueAdmissible
CHECK_DEADLOCK FALSE

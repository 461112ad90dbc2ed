CONSTANTS
    None = None
    Absent = Absent
    Partial = Partial
    Files = {1, 2}
    Contents = {"flash", "loose"}
    SNAPSHOT_VERIFY_RETRIES = 3
    MaxDisturbances = 1
    Identifiers <- MCIdentifiers
    Interfaces <- MCInterfaces
    Requests <- MCRequests
    Boards <- MCBoards
    Images <- MCImages
    Devices <- MCDevices
SPECIFICATION Spec
INVARIANTS SnapshotExisted PlanFromLock FlashedAsPlanned NoCopyLeft
CHECK_DEADLOCK FALSE

SPECIFICATION Spec
CONSTANTS
    None = None
    MaxProcs = 3
    OpenFiles = 1
    Programs <- FilePrograms
    Shell = "sh"
    SlotIds = {"s1", "s2", "s3"}
    Slots <- FileSlots
    Accelerated = {}
    OnDisk = {"prog"}
    Files = {"log", "prog"}
    FpValues = {0}
    FpZero = 0
    Calls = {"exit", "open"}
    DiskFails = TRUE
    MaxPid = 3
    MaxSleep = 0
    MaxBytes = 0
    MaxSize = 1
PROPERTIES
    RefusedOpenLeavesNothing

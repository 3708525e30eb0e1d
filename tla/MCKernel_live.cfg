SPECIFICATION FairSpec
CONSTANTS
    None = None
    MaxProcs = 3
    OpenFiles = 0
    Programs <- LivePrograms
    Shell = "sh"
    SlotIds = {"s1", "s2", "s3"}
    Slots <- LiveSlots
    Accelerated = {}
    OnDisk = {}
    Files = {}
    FpValues = {0}
    FpZero = 0
    Calls = {"exit", "yield", "sleep", "read", "wait", "spawn", "other"}
    DiskFails = FALSE
    MaxPid = 3
    MaxSleep = 1
    MaxBytes = 1
    MaxSize = 0
PROPERTIES
    ReadyRuns
    BlockedWakes

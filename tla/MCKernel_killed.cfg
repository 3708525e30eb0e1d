SPECIFICATION Spec
CONSTANTS
    None = None
    MaxProcs = 3
    OpenFiles = 0
    Programs <- ProcessPrograms
    Shell = "sh"
    SlotIds = {"s1", "s2", "s3", "s4"}
    Slots <- ProcessSlots
    Accelerated = {"menu", "dmaprobe"}
    OnDisk = {}
    Files = {}
    FpValues = {0}
    FpZero = 0
    Calls = {"spawn", "engine", "draw"}
    DiskFails = FALSE
    MaxPid = 3
    MaxSleep = 0
    MaxBytes = 0
    MaxSize = 0
PROPERTIES
    NotKilledForAnother

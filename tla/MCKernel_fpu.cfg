SPECIFICATION Spec
CONSTANTS
    None = None
    MaxProcs = 3
    OpenFiles = 0
    Programs <- FloatPrograms
    Shell = "sh"
    SlotIds = {"s1", "s2", "s3", "s4"}
    Slots <- FloatSlots
    Accelerated = {}
    OnDisk = {}
    Files = {}
    FpValues = {0, 1}
    FpZero = 0
    Calls = {"exit", "spawn", "wait", "float"}
    DiskFails = FALSE
    MaxPid = 4
    MaxSleep = 0
    MaxBytes = 0
    MaxSize = 0
INVARIANTS
    FpuIsolated
    NoPanic

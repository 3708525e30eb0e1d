CONSTANTS
    Fan = 8
    RamPages <- MCRamPages
    PmpEntries = 8
    NapotSizes = {2, 4, 8, 16, 32, 64, 128, 256, 512, 1024}
    Trees <- MCTrees
    Images <- MCImages
    RamDisk <- MCRamDisk
    Shell <- MCShell
    MaxProcs = 2
    PageTables = 5
    TablesStart = 25
    SlotBase = 320
    SlotSize = 32
    Slots = 4
    Align = 2
    Probes <- MCProbes
    Increments = {6, 504}
    MaxPid = 3
    GuestPrograms <- MCGuestPrograms
    Tables <- MCTables
    Roots <- MCRoots
    Loads <- MCLoads
    Stores <- MCStores
    NoReservation = NoReservation
    Half = 4
    MaxTime = 14
    LaneCount = 2
    VMax = 3
    TMax = 2
    ProgramWords = 17
    StackDepth = 3
    LimitMax = 60
    Word = 4
    Screen = 2
    ZMax = 9
    Banks <- MCBanks
    Raster <- MCRaster
    Jobs <- MCJobs
    MaxStarts = 2
    PollBudgets = {0, 2}
    SimdLanes = 2
    Bits = 4
    Chunks = 2
    Groups = 2
    Depth1 = 1
    Classes = 3
    PollBudget = 2
    MaxInfer = 3
    Rounding = 1
    HiddenShift = 1
    HiddenMax = 7
    Weights1 <- MCWeights1
    Weights2 <- MCWeights2
    Bias1 <- MCBias1
    Bias2 <- MCBias2
    Pictures <- MCPictures
SPECIFICATION Spec
INVARIANTS
    MprvOnlyInMachine
    ReachExact
    UserMemoryBounded
    BudgetSound
    TimerExact
    ShadedExactly
    InferenceExact
PROPERTIES
    SupervisorConfined
    ReservationSound
    LockedRegionFixed
CHECK_DEADLOCK FALSE

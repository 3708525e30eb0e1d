CONSTANTS
    SectorCount = 2
    SectorWords = 2
    Contents = {0, 1}
    Ring = 3
    WaitLimit = 1
    MaxCalls = 4
    Names = {"a", "b"}
    DirSize = 3
    Data = 2
    DiskSectors = 6
    Sector = 2
    FileSectors = 2
    Formats <- MCFormats
    Texts <- MCTexts
    MaxChanges = 4
    MaxFaults = 2
    Width = 3
    Height = 3
    RamSize = 6
    CoordMax = 5
    ColorMax = 20
    SizeMax = 5
    StrideMax = 7
    Ink = 50
    FbStores = {0}
    RamStores = {1}
    MaxJobs = 2
    Commands <- MCCommands
    Windows <- MCWindows
    Budgets = {0, 2}
    Chunk = 2
    Room = 3
    Background = 2
    MaxAccesses = 4
    Typed <- MCTyped
    Prompt <- MCPrompt
    ScreenW = 5
    ScreenH = 4
    TetrisW = 2
    TetrisH = 4
    SpawnX = 0
    SlowFall = 2
    FastFall = 1
    RepeatAt = 2
    RepeatTo = 1
    PongW = 5
    PongH = 4
    One = 2
    PaddleH = 2
    Win = 1
    Side = 2
    UiRepeat = 1
    OverFrames = 1
    MaxEvents = 5
    MaxHeld = 3
    MaxPlaced = 6
    Answers = {1}
    Keys = {"enter", "esc", "left", "right", "up", "down", "space", "p", "r", "q"}
    Shapes <- MCShapes
    BagOrders <- MCBagOrders
    Hands <- MCHands
SPECIFICATION Spec
INVARIANTS
    TransferExact
    FilesKept
    ReadsBack
    DrawnExactly
    SessionExact
    TetrisSound
PROPERTIES
    ScreenFresh
    HeldKeysWait
CHECK_DEADLOCK FALSE

SPECIFICATION Spec
CONSTANTS
    NoLimit = NoLimit
    Flow <- MCFlow
    Presents = {1}
    Guests <- MCGuests
    PollInterval = 2
    MaxBreakpoints = 2
    MaxAttempts = 2
    Points <- MCPoints
    Jumps = {0}
    KeyOf <- MCKeyOf
    Scripts <- MCScripts
    QueueSize = 2
    MaxFrames = 2
    MaxHostEvents = 3
    NoPath = NoPath
    NoFile = NoFile
    Canon <- MCCanon
    Inode <- MCInode
    Target <- MCTarget
    Links = {"link", "newlink"}
    Inside = {"d/f"}
    CommandLines <- MCCommandLines
INVARIANTS SameRun NothingOverwritten RecordReplays KeysFollowHost PassIsEarned
PROPERTIES BreakpointsHonoured RequestAnswered InterruptStops

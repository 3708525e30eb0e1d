SPECIFICATION FairSpec
CONSTANTS
    Keys = {"left", "fire"}
    Depth = 2
    KeyBuffer = 2
    NoEvent = NoEvent
INVARIANTS
    KeysAgree
PROPERTIES
    EventsInOrder
    EventsServed

\* After a first release, two more are tagged together.
CONSTANTS
    Contexts = {c1, c2}
    ReleaseTags = {1, 2, 3}
    Main = main
    Latest = latest
    NoContext = NoContext
    PageSize = 2
    MaxPushes = 1
    MaxTroubles = 0
SPECIFICATION ReuseSpec
INVARIANT BuiltWhenChanged
CHECK_DEADLOCK FALSE

SPECIFICATION FairSpec
CONSTANTS
    Plain = {p}
    Local = {l}
    Slow = {p, l}
    Unreadable = {l}
    StatusSeconds = 2
    LookupSeconds = 2
INVARIANTS LockedRowIsServed OnePostPerDevice
PROPERTIES RowIsReleased PollIsAnswered
CHECK_DEADLOCK FALSE

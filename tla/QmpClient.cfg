SPECIFICATION Spec
CONSTANTS
    Caller = {n, a}
    Negotiator = n
    Abortable = {a}
    NoCall = NoCall
    MaxCalls = 2
    Room = 4
    MaxInbox = 2
INVARIANTS PendingHolds RightReply
PROPERTIES EveryCallEnds EndIsTold
CHECK_DEADLOCK FALSE

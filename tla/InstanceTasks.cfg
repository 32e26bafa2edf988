SPECIFICATION TasksSpec
CONSTANTS
    Hosts <- OneThingMissing
    RingSize = 2
    Pipe = 2
    MaxOut = 5
    MaxQueue = 2
INVARIANTS SerialHolds NothingOutlives
PROPERTIES EveryOpEnds GoneEndsRecording

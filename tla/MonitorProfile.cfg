SPECIFICATION IngestFairSpec
CONSTANTS
    ChannelKeys = {k1}
    Posts = {p1}
    MaxRows = 2
    MaxWrites = 2
    MaxChannelEdits = 2
    MaxIngestFaults = 1
PROPERTY ChangesTakeEffect
CHECK_DEADLOCK FALSE

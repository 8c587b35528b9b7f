SPECIFICATION FairSpec
CONSTANTS
    Clients = {c1}
    Capacity = 2
    MaxQueue = 1
    MaxEvents = 4
    MaxBlocks = 3
    MaxEpochs = 1
    MaxFaults = 2
INVARIANTS
    TypeOK NoSilentHole StreamInOrder
PROPERTIES
    SettlesHonestly
CONSTRAINT SomePageCounts
CHECK_DEADLOCK FALSE

CONSTANTS
    MaxQueue = 3
    IndexCount = 2
    Formats <- MCFormats
    Lengths <- MCLengths
    SampleSize = 1
    BufferLength = 1
    MaxDelay = 1
    Drivers <- MCDrivers
    RecFormats <- MCRecFormats
    DriverDelay <- MCDelay
    MaxWrite = 1
    RecordBuffer = 2
SPECIFICATION SoundSpec
INVARIANTS
    DeviceAsAskedFor
PROPERTIES
    CompletionsInOrder
    EachAcknowledged
CHECK_DEADLOCK FALSE

\* The encrypted channel's framing, record splitting and back-pressure, as a byte stream.
CONSTANTS
    MaxPlaintext = 2
    MaxChunk = 2
    MaxQueued = 2
    MaxRead = 2
    MaxBytes = 4
SPECIFICATION ChanFairSpec
PROPERTIES
    ImplementsByteStream
    FlushedIsRead
CHECK_DEADLOCK FALSE

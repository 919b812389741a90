SPECIFICATION FairHeardSpec
CONSTANTS
    SyncByte1 = 246
    SyncByte2 = 217
    MaxPayloadLength = 2
    CRC <- SumCRC
    FrameIDs = {224}
    Payloads <- AnyPayloads
    NoiseBytes = {0, 246}
    MaxSent = 3
    MaxNoise = 1
CHECK_DEADLOCK FALSE
INVARIANTS LossBound
PROPERTIES CleanFrameArrives ImplementsDecoder

SPECIFICATION Spec
CONSTANTS
    SyncByte1 = 246
    SyncByte2 = 217
    MaxPayloadLength = 2
    CRC <- MCCRC
    FrameIDs = {224}
    Payloads <- ShortPayloads
    NoiseBytes = {0, 246}
    MaxSent = 3
    MaxNoise = 1
CHECK_DEADLOCK FALSE
INVARIANTS TypeOK BoundedFrame ChecksumCoversFields CleanDelivery LossBound
PROPERTIES EveryByteAdvances ArrivesWhole ImplementsChannel

SPECIFICATION CodecSpec
CONSTANTS
    Contents <- AllContents
    NasContents <- AllNasContents
    Packets <- AllPackets
    None = None
    StringLengths = {0, 1, 127, 128}
    LvLengths = {0, 2, 255}
    TaiCounts = {3, 4, 5, 6, 7, 8}
    MaxItems = 2
INVARIANTS RoundTrip NoPartialDecode NothingForged FastPathStrips
\* One message is sent and received, then nothing is left to do.
CHECK_DEADLOCK FALSE

SPECIFICATION Spec
CONSTANTS
    Frames <- MCFrames
    Numerals <- MCNumerals
    Addresses <- MCAddresses
    DumpQueueSize = 2
    PacketBuffers = 3
    ByteSize = 32
    PerRow = 8
PROPERTY PanAsDocumented

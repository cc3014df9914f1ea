SPECIFICATION FairSpec
CONSTANTS
    Frames <- MCFrames
    Numerals <- MCNumerals
    Addresses <- MCAddresses
    DumpQueueSize = 2
    PacketBuffers = 3
    ByteSize = 32
    PerRow = 8
INVARIANTS
    TypeOK BufferAccounted MotesHeard HexDumpExact
PROPERTIES
    ImplementsPrinter DumpsEnd

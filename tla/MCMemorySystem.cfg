SPECIFICATION Spec
CONSTANTS
    Channel <- Channels
    sink <- Bindings
    CAPACITY = 2
    WHEEL_SIZE = 2
    PAGE_SIZE = 4
    MEM_BLOCK_SIZE = 2
    Address <- MCAddress
    Image <- MCImage
    STARTUP_ADDR = 65538
    HexFile <- MCHexFile
    Program <- MCProgram
    Requests <- MCRequests
    Delays = {0, 1, 3}
INVARIANT ReservationsAreInFlight
INVARIANT AnsweredInTime
PROPERTY ImplementsPortedMemory

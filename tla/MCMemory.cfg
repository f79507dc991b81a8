SPECIFICATION MemorySpec
CONSTANTS
    RingSize = 2
    NoFault = NoFault
    FaultCodes = {"EXHAUSTED", "INVALID_PTR", "DOUBLE_FREE", "CORRUPTION"}
    ArenaSize = 10
    HeaderSize = 2
    Requests <- MCRequests
    Classes <- MCClasses
    BlockSize <- MCBlockSize
    BlockCount <- MCBlockCount
    PoolRequests <- MCPoolRequests
INVARIANTS
    Tiled
    
    Exclusive
    GapsServed
    
    AccountsExact
PROPERTY LogSpec

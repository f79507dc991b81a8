SPECIFICATION Spec
CONSTANTS
    MaxPayload = 2
    Payloads <- MCPayloads
    Noises <- MCNoises
    Octets <- MCOctets
    Chunks <- MCChunks
    MaxFrames = 4
    MaxDamage = 2
    MaxWire = 10
INVARIANTS
    InOrder
    HostLosesNothing
    HostBufferBounded
    DeviceResyncs
CHECK_DEADLOCK FALSE

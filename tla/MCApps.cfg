SPECIFICATION Spec
CONSTANTS
    RingSize = 2
    Batch = 2
    Channels = 2
    MaxFrames = 7
    MacroFiles <- MCMacroFiles
    BufferSize = 3
    WordCap = 3
    StrCap = 3
    OpenCooldown = 1
    PlayCooldown = 2
    Ticks <- MCTicks
    Loopback = "127.0.0.1"
    Hosts = {"192.168.1.1"}
    Signed = 32
    Unsigned = 8
    StartY = 2
    Ground = 20
    FullTank = 7
    SafeSpeed = 4
INVARIANTS
    RingFaithful
    TypesMacro
    ReportFresh
PROPERTIES
    PlaysOut
    FlightSound

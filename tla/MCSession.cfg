SPECIFICATION Spec
CONSTANTS
    Apps = {ble, net}
    Default = ble
    NoView = NoView
    MaxCalls = 2
    Buffer = 2
    MaxActs = 4
INVARIANTS
    BootFaultless
    AppsServe
    
    ConnectedMeansOpen
PROPERTIES
    ConnectEnds
    ViewAgrees
CHECK_DEADLOCK FALSE

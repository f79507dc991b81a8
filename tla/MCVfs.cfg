SPECIFICATION Spec
CONSTANTS
    Names = {"macro.txt", "wifi_audit.log", "user.txt"}
    MaxFiles = 2
    MaxOpen = 2
    SectorSize = 2
    Data = {1}
    MaxForfeit = 1
    Torn = FALSE
INVARIANTS
    DirectorySound
    Synced
    ContentsKept
PROPERTIES
    
    LossConfined

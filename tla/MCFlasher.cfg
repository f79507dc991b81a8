SPECIFICATION Spec
CONSTANTS
    Devices <- MCDevices
    Images = 2
    Blocks = 1
    MaxAttempts = 2
    MaxClicks = 2
    MaxMishaps = 2
INVARIANTS
    TargetOnly
    DoneMeansWritten
    AnswersMatch
PROPERTIES
    FlasherEnds

SPECIFICATION Spec
CONSTANTS
    Devices <- MCFramedDevices
    Images = 3
    Blocks = 1
    MaxAttempts = 10
    MaxClicks = 1
    MaxMishaps = 0
INVARIANT SupportedAccepted

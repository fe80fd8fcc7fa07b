SPECIFICATION Spec
CONSTANTS
    RdiValues <- MCRdi
    RsiValues = {7, 8}
    Exceptions = {14}
    FirmwareUnmasked = {14}
    Reading = 999
    Junk = 9999
    UINT64_MAX = 99999
    NoVector = NoVector
    NoExit = NoExit
INVARIANTS
    HaltsOnlyOnException

SPECIFICATION Spec
CONSTANTS
    Steps = 1
    Limits = {2}
    MaxLaunches = 1
    MaxFaults = 2
    End = End
PROPERTY
    ExpiredPauses

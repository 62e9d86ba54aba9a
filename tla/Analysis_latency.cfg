SPECIFICATION AnalysisSpec
CONSTANTS
    TotalSteps = 2
    Capacity = 1
    MaxFaults = 1
    None = None
INVARIANT LatencyOfOneSnapshot

SPECIFICATION AnalysisSpec
CONSTANTS
    TotalSteps = 4
    Capacity = 2
    MaxFaults = 2
    None = None
INVARIANTS
    HealthyIsTrue
    NotUnderestimated

SPECIFICATION Spec
CONSTANTS
    Consumers = {1, 2}
    Overlap = FALSE
    Interval = 2
    Timestamps = {1, 2}
    Steps = 3
    MaxTime = 3
    Absent = Absent
INVARIANTS
    StepsKept

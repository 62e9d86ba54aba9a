SPECIFICATION LaunchSpec
CONSTANTS
    Steps = 2
    Capacity = 1
    MaxFaults = 2
    MaxInterrupts = 2
    Scripts = {1, 2}
INVARIANTS
    Released
    LogOutlivesWorker
    OneRunAtATime
PROPERTIES
    Exits

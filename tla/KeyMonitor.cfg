SPECIFICATION FairSpec
CONSTANTS
    Hours = {1, 2}
    Lifetimes = {1, 3}
    Reasons = {"missing", "invalid"}
    MaxTime = 3
    MaxChanges = 1
    MaxInterrupts = 1
INVARIANT OneAlertEach
PROPERTIES
    AnnouncedExpired
    DueAnnounced
    MonitorStopsUnlessStuck

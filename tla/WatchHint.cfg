SPECIFICATION MCSpec
CONSTANTS
    Run = Run
    App = App
    Watch = Watch
    Close = Close
    Nobody = Nobody
    EventBuffer = 1
    PollInterval = 3
    MaxPollInterval = 7
    Width = 4
    CountCap = 4
    MaxCalls = 1
    MaxWrites = 1
    MaxUploadsAndFaults = 1
INVARIANTS
    NoFalseWatchRollback

SPECIFICATION MCFairSpec
CONSTANTS
    Run = Run
    App = App
    Watch = Watch
    Close = Close
    Nobody = Nobody
    EventBuffer = 1
    PollInterval = 3
    MaxPollInterval = 7
    Width = 4
    CountCap = 3
    MaxCalls = 2
    MaxWrites = 1
    MaxUploadsAndFaults = 1
INVARIANTS
    TypeOK
    CloseIsSafe
    IntervalIsCappedDoubling
    NoWakeupLost
PROPERTIES
    RemoteChangeNoticed
    WatchIsAnswered
    CloseStopsEverything

SPECIFICATION MCFairSpec
CONSTANTS
    Keys = {k1, k2}
    SyncThread = S
    Listers = {}
    Joiners = {}
    NoThread = NoThread
    NoKey = NoKey
    NoScope = NoScope
    NoValue = NoValue
    Conditional = TRUE
    Values <- MCValues
    Merge <- MCMerge
    Oversized <- MCOversized
    LocalEdits <- MCLocalEdits
    RemoteEdits <- MCRemoteVersions
    Resolutions <- MCResolutions
    Mine = {m1, m2}
    Theirs = {t1}
    Big = {m1}
    Policy = "KeepBoth"
    MaxAppWrites = 2
    MaxRemoteWrites = 2
    MaxFaults = 1
    MaxScopeChanges = 0
    MaxResolutions = 0
    MaxDeletes = 0
    MaxResets = 0
    MaxRollbacks = 0
    MaxSetups = 0
INVARIANTS
    NoEditLost
PROPERTIES
    Convergence
    RacedRemoteMerged

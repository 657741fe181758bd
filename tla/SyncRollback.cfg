SPECIFICATION MCSpec
SYMMETRY Symmetry
CONSTANTS
    Keys = {k1}
    SyncThread = S
    Listers = {}
    Joiners = {}
    NoThread = NoThread
    NoKey = NoKey
    NoScope = NoScope
    NoValue = NoValue
    Conditional = TRUE
    Values <- MCValues
    Merge <- MCMerge
    Oversized <- MCOversized
    LocalEdits <- MCLocalEdits
    RemoteEdits <- MCRemoteEdits
    Resolutions <- MCResolutions
    Mine = {m1, m2}
    Theirs = {t1, t2}
    Big = {}
    Policy = "KeepBoth"
    MaxAppWrites = 2
    MaxRemoteWrites = 2
    MaxFaults = 1
    MaxScopeChanges = 0
    MaxResolutions = 0
    MaxDeletes = 0
    MaxResets = 1
    MaxRollbacks = 2
    MaxSetups = 1
INVARIANTS
    TypeOK
PROPERTIES
    VersionsNeverRegress
    PassNeverLowersHead

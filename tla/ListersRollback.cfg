SPECIFICATION MCSpec
SYMMETRY Symmetry
CONSTANTS
    Keys = {k1}
    SyncThread = S
    Listers = {L}
    Joiners = {}
    NoThread = NoThread
    NoKey = NoKey
    NoScope = NoScope
    NoValue = NoValue
    Conditional = TRUE
    Values <- MCValues
    Merge <- MCMerge
    Oversized <- MCOversized
    LocalEdits <- MCLocalEdits
    RemoteEdits <- MCRemoteEdits
    Resolutions <- MCResolutions
    Mine = {m1, m2}
    Theirs = {t1, t2}
    Big = {}
    Policy = "KeepBoth"
    MaxAppWrites = 2
    MaxRemoteWrites = 2
    MaxFaults = 0
    MaxScopeChanges = 0
    MaxResolutions = 0
    MaxDeletes = 0
    MaxResets = 0
    MaxRollbacks = 0
    MaxSetups = 0
INVARIANTS
    NoFalseRollback

SPECIFICATION MCSpec
SYMMETRY Symmetry
CONSTANTS
    Keys = {k1, k2}
    SyncThread = S
    Listers = {}
    Joiners = {J}
    NoThread = NoThread
    NoKey = NoKey
    NoScope = NoScope
    NoValue = NoValue
    Conditional = TRUE
    Values <- MCValues
    Merge <- MCMerge
    Oversized <- MCOversized
    LocalEdits <- MCLocalEdits
    RemoteEdits <- MCRemoteEdits
    Resolutions <- MCResolutions
    Mine = {m1}
    Theirs = {t1}
    Big = {}
    Policy = "KeepBoth"
    MaxAppWrites = 2
    MaxRemoteWrites = 2
    MaxFaults = 1
    MaxScopeChanges = 1
    MaxResolutions = 0
    MaxDeletes = 0
    MaxResets = 0
    MaxRollbacks = 0
    MaxSetups = 1
INVARIANTS
    CheckpointSound
    NoFalseRollback
PROPERTIES
    NoEchoUpload

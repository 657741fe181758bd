---------------------------- MODULE ConflictProofs ----------------------------
(***************************************************************************)
(* Proof that a recorded conflict freezes its item.  The calls that write  *)
(* the app's storage, the server or a row decided to do so some steps      *)
(* before, on a row that was not in conflict; FreshInv says that it still  *)
(* is not.                                                                 *)
(***************************************************************************)
EXTENDS ReplicaProofs

-----------------------------------------------------------------------------
(* Rows *)

\* No function that rewrites a row in the course of a call ends a conflict, or
\* replaces the base of a row that it leaves in conflict.
KeepsConflict(row, new) ==
    /\ row.conflict => new.conflict
    /\ new.conflict => new.baseVersion = row.baseVersion /\ new.baseValue = row.baseValue

\* reconcileSnapshotValue and keepDirtyAfterValueRace only set the dirty flag.
LEMMA DirtyKeepsConflict ==
  ASSUME NEW row \in ItemState, NEW value
  PROVE  /\ KeepsConflict(row, ReconciledItem(row, value))
         /\ KeepsConflict(row, RacedItem(row))
  BY DEF KeepsConflict, ReconciledItem, RacedItem, markItemDirty, ItemState

\* markItemClean and markItemDirtyWithBase leave no conflict.
LEMMA WithBaseResolves ==
  ASSUME NEW row \in ItemState, NEW version, NEW value, NEW dirty
  PROVE  ~WithBase(row, version, value, dirty).conflict
  BY DEF WithBase, clearItemConflict, ItemState

\* What applyRemoteValueLocked saves: a conflict moves on to the new remote value.
LEMMA AppliedKeepsConflict ==
  ASSUME NEW row \in ItemState, NEW local, NEW version, NEW value
  PROVE  KeepsConflict(row, AppliedItem(row, local, version, value))
  <1> DEFINE new == AppliedItem(row, local, version, value)
             moved == markItemConflict(row, version, value)
  <1>1. CASE ~ApplyWrites(row, local, value)
    <2>1. new = moved
      BY <1>1 DEF AppliedItem
    <2>2. moved.conflict /\ moved.baseVersion = row.baseVersion /\ moved.baseValue = row.baseValue
      BY DEF markItemConflict, ItemState
    <2> QED
      BY <2>1, <2>2 DEF KeepsConflict
  <1>2. CASE ApplyWrites(row, local, value)
    <2>1. ~row.conflict
      BY <1>2 DEF ApplyWrites
    <2>2. new = WithBase(row, version, value, FALSE) \/ new = WithBase(row, version, value, TRUE)
      BY <1>2 DEF AppliedItem, markItemClean, markItemDirtyWithBase
    <2>3. ~new.conflict
      BY <2>2, WithBaseResolves
    <2> QED
      BY <2>1, <2>3 DEF KeepsConflict
  <1> QED
    BY <1>1, <1>2

-----------------------------------------------------------------------------
(* Steps *)

\* A step that leaves storage, server and rows alone disturbs no conflict.
LEMMA QuietFreezes ==
  ASSUME backend' = backend, srvLog' = srvLog, items' = items
  PROVE  ConflictsFreeze
  BY DEF ConflictsFreeze

\* Nor does a step of nobody's call that leaves the rows alone: the app and the
\* other devices.
LEMMA OutsideFreezes ==
  ASSUME pc' = pc, items' = items
  PROVE  ConflictsFreeze
  BY DEF ConflictsFreeze

\* Saving one row that keeps its conflict, and nothing else.
LEMMA SaveFreezes ==
  ASSUME TypeOK, NEW k \in Keys, NEW new, KeepsConflict(items[k], new),
         items' = [items EXCEPT ![k] = new], backend' = backend, srvLog' = srvLog
  PROVE  ConflictsFreeze
  <1>1. items'[k] = new /\ \A j \in Keys \ {k} : items'[j] = items[j]
    BY DEF TypeOK
  <1>2. \A j \in Keys : KeepsConflict(items[j], items'[j])
    BY <1>1 DEF KeepsConflict
  <1> QED
    BY <1>2 DEF ConflictsFreeze, KeepsConflict

\* A step that changes the app's value or the server for one item that is not in
\* conflict.
LEMMA WriteFreezes ==
  ASSUME NEW k \in Keys, ~items[k].conflict, items' = items,
         \A j \in Keys \ {k} : backend'[j] = backend[j] /\ srvLog'[j] = srvLog[j]
  PROVE  ConflictsFreeze
  BY DEF ConflictsFreeze

\* Snapshot values are compared with rows, also with rows in conflict.
LEMMA ReconcileFreezes ==
  ASSUME TypeOK, NEW k \in Keys, ReconcileSnapshotValue(k)
  PROVE  ConflictsFreeze
  <1>1. items[k] \in ItemState
    BY DEF TypeOK
  <1>2. KeepsConflict(items[k], ReconciledItem(items[k], snap[k]))
    BY <1>1, DirtyKeepsConflict
  <1> QED
    BY <1>2, SaveFreezes DEF ReconcileSnapshotValue, serverVars, appVars

\* The app's value is replaced only when a merge or a fast-forward was decided on.
LEMMA SetIfCurrentFreezes ==
  ASSUME FreshInv, NEW t \in Threads, SetIfCurrent(t)
  PROVE  ConflictsFreeze
  <1>1. TypeOK /\ CallSound(t)
    BY DEF FreshInv, EngineInv, CallsSound
  <1>2. key[t] \in Keys /\ ~items[key[t]].conflict
    BY <1>1 DEF CallSound, SetIfCurrent, Locked, ApplyWrites
  <1>3. srvLog' = srvLog /\ items' = items
    BY DEF SetIfCurrent, serverVars, storeVars
  <1>4. \A j \in Keys \ {key[t]} : backend'[j] = backend[j]
    BY <1>1 DEF SetIfCurrent, TypeOK
  <1> QED
    BY <1>2, <1>3, <1>4, WriteFreezes

\* The row that is saved after a fetch.
LEMMA SaveItemFreezes ==
  ASSUME FreshInv, NEW t \in Threads, SaveItem(t)
  PROVE  ConflictsFreeze
  <1>1. TypeOK /\ CallSound(t)
    BY DEF FreshInv, EngineInv, CallsSound
  <1>2. key[t] \in Keys /\ items[key[t]] \in ItemState
    BY <1>1 DEF CallSound, SaveItem, Locked, TypeOK
  <1>3. PICK new : /\ items' = [items EXCEPT ![key[t]] = new]
                   /\ \/ new = AppliedItem(items[key[t]], cur[t], got[t].version, got[t].value)
                      \/ new = RacedItem(items[key[t]])
    BY DEF SaveItem
  <1>4. KeepsConflict(items[key[t]], new)
    BY <1>2, <1>3, AppliedKeepsConflict, DirtyKeepsConflict
  <1>5. backend' = backend /\ srvLog' = srvLog
    BY DEF SaveItem, serverVars, appVars
  <1> QED
    BY <1>1, <1>2, <1>3, <1>4, <1>5, SaveFreezes

\* What is uploaded is not in conflict, at either attempt.
LEMMA PutFreezes ==
  ASSUME FreshInv, PutAccepted \/ PutResponseLost
  PROVE  ConflictsFreeze
  <1> DEFINE k == key[SyncThread]
  <1>1. SyncThread \in Threads /\ TypeOK /\ CallSound(SyncThread) /\ CallFresh(SyncThread)
    BY DEF Threads, FreshInv, EngineInv, CallsSound, CallsFresh
  <1>2. pc[SyncThread] = "put" /\ items' = items /\ backend' = backend
        /\ srvLog' = [srvLog EXCEPT ![k] = Append(@, cur[SyncThread])]
    BY DEF PutAccepted, PutResponseLost, ServerWrite, appVars, storeVars
  <1>3. k \in Keys /\ ~items[k].conflict
    BY <1>1, <1>2 DEF CallSound, CallFresh, Locked
  <1>4. \A j \in Keys \ {k} : srvLog'[j] = srvLog[j]
    BY <1>1, <1>2 DEF TypeOK
  <1> QED
    BY <1>2, <1>3, <1>4, WriteFreezes

\* Nor is the row that records the upload.
LEMMA SaveUploadedFreezes ==
  ASSUME FreshInv, SaveUploadedItem
  PROVE  ConflictsFreeze
  <1> DEFINE k == key[SyncThread]
             new == markItemClean(items[k], items[k].version + 1, cur[SyncThread])
  <1>1. SyncThread \in Threads /\ TypeOK /\ CallSound(SyncThread) /\ CallFresh(SyncThread)
    BY DEF Threads, FreshInv, EngineInv, CallsSound, CallsFresh
  <1>2. pc[SyncThread] = "saveUpload" /\ backend' = backend /\ srvLog' = srvLog
        /\ items' = [items EXCEPT ![k] = new]
    BY DEF SaveUploadedItem, serverVars, appVars
  <1>3. k \in Keys /\ ~items[k].conflict /\ items[k] \in ItemState
    BY <1>1, <1>2 DEF CallSound, CallFresh, Locked, TypeOK
  <1>4. ~new.conflict
    BY <1>3, WithBaseResolves DEF markItemClean
  <1>5. KeepsConflict(items[k], new)
    BY <1>3, <1>4 DEF KeepsConflict
  <1> HIDE DEF new
  <1> QED
    BY <1>1, <1>2, <1>3, <1>5, SaveFreezes

\* The app ends a conflict, or fails half way and leaves the row as it is.
LEMMA ResolveFreezes ==
  ASSUME TypeOK, ResolveStep
  PROVE  ConflictsFreeze
  <1>1. pc' = pc
    BY DEF ResolveStep, ResolveConflictPreferLocal, ResolveConflictWithValue,
           ResolveConflictPreferRemote, callVars
  <1>2. PICK k \in Keys : \/ items' = items
                          \/ items' = [items EXCEPT ![k] = markItemDirty(clearItemConflict(@))]
                          \/ items' = [items EXCEPT ![k] =
                                markItemClean(@, @.conflictRemoteVersion, @.conflictRemoteValue)]
    BY DEF ResolveStep, ResolveConflictPreferLocal, ResolveConflictWithValue,
           ResolveConflictPreferRemote
  <1>3. items[k] \in ItemState
    BY DEF TypeOK
  <1>4. ~markItemDirty(clearItemConflict(items[k])).conflict
    BY <1>3 DEF markItemDirty, clearItemConflict, ItemState
  <1>5. ~markItemClean(items[k], items[k].conflictRemoteVersion, items[k].conflictRemoteValue).conflict
    BY <1>3, WithBaseResolves DEF markItemClean
  <1>6. items'[k] = items[k] \/ ~items'[k].conflict
    BY <1>2, <1>4, <1>5 DEF TypeOK
  <1>7. \A j \in Keys \ {k} : items'[j] = items[j]
    BY <1>2 DEF TypeOK
  <1> QED
    BY <1>1, <1>6, <1>7 DEF ConflictsFreeze

\* ResetSyncState forgets conflicts together with their rows, and leaves storage and
\* server alone.
LEMMA ResetFreezes ==
  ASSUME ResetSyncState
  PROVE  ConflictsFreeze
  BY DEF ResetSyncState, ConflictsFreeze, NewItem, serverVars

-----------------------------------------------------------------------------
(* The theorem *)

\* The pull phase: only the write of the app's storage and the save of a row matter.
LEMMA PullFreezes ==
  ASSUME FreshInv, NEW t \in Threads, PullStep(t)
  PROVE  ConflictsFreeze
  <1>1. CASE SetIfCurrent(t)
    BY <1>1, SetIfCurrentFreezes
  <1>2. CASE SaveItem(t)
    BY <1>2, SaveItemFreezes
  <1>3. CASE Ends(t)
    <2>1. backend' = backend /\ srvLog' = srvLog /\ items' = items
      BY <1>3 DEF Ends, LoadNamespaceRollback, GetNamespaceItemsRollback, ScanItemsRollback,
                  GetItemRollback, ApplyNotFound, RefetchRollback, FinishSync, Fail,
                  serverVars, storeVars, appVars
    <2> QED
      BY <2>1, QuietFreezes
  <1>4. CASE \/ ListRemote(t) \/ LoadNamespace(t) \/ GetNamespaceItems(t) \/ ScanItems(t)
             \/ \E k \in Keys : GetItem(t, k)
             \/ SkipApply(t) \/ BeginApply(t) \/ SaveCheckpoint(t)
    <2>1. backend' = backend /\ srvLog' = srvLog /\ items' = items
      BY <1>4 DEF ListRemote, LoadNamespace, GetNamespaceItems, ScanItems, GetItem, SkipApply,
                  BeginApply, SaveCheckpoint, serverVars, storeVars, appVars
    <2> QED
      BY <2>1, QuietFreezes
  <1> QED
    BY <1>1, <1>2, <1>3, <1>4 DEF PullStep, Ends

\* The snapshot and push phases.
LEMMA SyncFreezes ==
  ASSUME FreshInv, SyncStep
  PROVE  ConflictsFreeze
  <1>1. CASE \E k \in Keys : ReconcileSnapshotValue(k)
    BY <1>1, ReconcileFreezes DEF FreshInv, EngineInv
  <1>2. CASE PutAccepted
    BY <1>2, PutFreezes
  <1>3. CASE SaveUploadedItem
    BY <1>3, SaveUploadedFreezes
  <1>4. CASE \/ TakeSnapshot \/ LoadSnapshotScope \/ ListDirtyItems \/ LoadFlushCaches
             \/ \E k \in Keys : SkipUpload(k) \/ BeginUpload(k)
    <2>1. backend' = backend /\ srvLog' = srvLog /\ items' = items
      BY <1>4 DEF TakeSnapshot, LoadSnapshotScope, ListDirtyItems, LoadFlushCaches, SkipUpload,
                  BeginUpload, serverVars, storeVars, appVars
    <2> QED
      BY <2>1, QuietFreezes
  <1>5. CASE \/ PutRefused \/ SaveUploadedHead \/ Refetch \/ RefetchRollback \/ BeginReapply
             \/ RetryUpload \/ LeaveItem \/ FinishSync
    <2>1. backend' = backend /\ srvLog' = srvLog /\ items' = items
      BY <1>5 DEF PutRefused, SaveUploadedHead, Refetch, RefetchRollback, BeginReapply,
                  RetryUpload, LeaveItem, FinishSync, serverVars, storeVars, appVars
    <2> QED
      BY <2>1, QuietFreezes
  <1> QED
    BY <1>1, <1>2, <1>3, <1>4, <1>5 DEF SyncStep

\* Every step of the engine, the app, the other devices and the process.
LEMMA NextFreezes == FreshInv /\ [Next]_vars => ConflictsFreeze
  <1> SUFFICES ASSUME FreshInv, [Next]_vars PROVE ConflictsFreeze
    OBVIOUS
  <1>1. CASE EngineStep \/ SetupStep
    <2>1. CASE SetupStep \/ \E t \in Threads : SaveJoined(t)
      <3>1. backend' = backend /\ srvLog' = srvLog /\ items' = items
        BY <2>1 DEF SetupStep, SaveDefaultNamespace, ReadJoined, SaveJoined, serverVars, storeVars,
                    appVars
      <3> QED
        BY <3>1, QuietFreezes
    <2> QED
      BY <1>1, <2>1, PullFreezes, SyncFreezes DEF EngineStep
  <1>2. CASE FaultStep
    <2>1. CASE PutResponseLost
      BY <2>1, PutFreezes
    <2>2. CASE Crash \/ \E t \in Threads : Fail(t)
      <3>1. backend' = backend /\ srvLog' = srvLog /\ items' = items
        BY <2>2 DEF Crash, Fail, serverVars, storeVars, appVars
      <3> QED
        BY <3>1, QuietFreezes
    <2> QED
      BY <1>2, <2>1, <2>2 DEF FaultStep
  <1>3. CASE ResolveStep \/ ResetSyncState
    BY <1>3, ResolveFreezes, ResetFreezes DEF FreshInv, EngineInv
  <1>4. CASE WriteStep \/ DeleteStep \/ ScopeStep \/ UNCHANGED vars
    <2>1. pc' = pc /\ items' = items
      BY <1>4 DEF WriteStep, DeleteStep, ScopeStep, AppWrite, RemoteWrite, AppDelete,
                  OpenCollection, ChangeScope, vars, storeVars, callVars
    <2> QED
      BY <2>1, OutsideFreezes
  <1> QED
    BY <1>1, <1>2, <1>3, <1>4 DEF Next

\* For every number of keys and of concurrent ListNamespaces calls, every merge
\* function and every backend: while a conflict is recorded no call uploads the item or
\* writes the app's value, and no remote version that arrives replaces its merge base.
THEOREM ConflictsStayFrozen == Spec => ConflictFrozen
  <1>1. Init => FreshInv
    BY InitReplica
  <1>2. FreshInv /\ [Next]_vars => FreshInv'
    BY NextReplica
  <1>3. FreshInv /\ [Next]_vars => [ConflictsFreeze]_vars
    BY NextFreezes
  <1> QED
    BY <1>1, <1>2, <1>3, PTL DEF Spec, ConflictFrozen
=============================================================================

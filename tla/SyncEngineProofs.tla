--------------------------- MODULE SyncEngineProofs ---------------------------
(***************************************************************************)
(* Theorems about SyncEngine for every set of keys, values and concurrent  *)
(* callers, every merge function and every backend.                        *)
(*                                                                         *)
(* MergeBaseSound is not inductive: a call carries a version and a value   *)
(* it fetched, or uploaded, across several steps before it saves them.     *)
(* CallSound says what each call knows at each label.  It rests on the     *)
(* logical-key lock: from the step that reads a row to the step that saves *)
(* it, nobody else saves that row.                                         *)
(***************************************************************************)
EXTENDS SyncEngine, TLAPS

\* Labels at which a call holds the lock of its key.
Locked == {"set", "save", "saveRaced", "put", "saveUpload", "saveHead",
           "refetch", "reapply", "retry"}

\* Labels at which a call carries a fetched item.
Fetched == {"apply", "reapply", "set", "save", "saveRaced"}

CallSound(t) ==
    /\ pc[t] \in Locked => key[t] \in Keys /\ lock[key[t]] = t
    /\ pc[t] \in Fetched =>
          key[t] \in Keys /\ IsVersion(srvLog[key[t]], got[t].version, got[t].value)
    /\ pc[t] \in {"reapply", "set", "save"} => items[key[t]].version <= got[t].version
    /\ pc[t] = "set" =>
          /\ ApplyWrites(items[key[t]], cur[t], got[t].value)
          /\ ~ApplyFails(items[key[t]], cur[t])
    /\ pc[t] \in {"put", "saveUpload"} => cur[t] \in Values
    /\ pc[t] = "saveUpload" =>
          IsVersion(srvLog[key[t]], items[key[t]].version + 1, cur[t])

CallsSound == \A t \in Threads : CallSound(t)

\* The inductive invariant.
EngineInv == TypeOK /\ MergeBaseSound /\ CallsSound

-----------------------------------------------------------------------------
(* Rows and logs *)

\* What was accepted stays accepted when the server accepts one more write.
LEMMA AppendKeepsVersion ==
  ASSUME NEW log \in Seq(Values), NEW x \in Values, NEW v, NEW y, IsVersion(log, v, y)
  PROVE  IsVersion(Append(log, x), v, y)
  BY DEF IsVersion

\* The write that was accepted is the new last version.
LEMMA AppendIsVersion ==
  ASSUME NEW log \in Seq(Values), NEW x \in Values
  PROVE  IsVersion(Append(log, x), Len(log) + 1, x)
  BY DEF IsVersion

\* A sound row stays sound when the server accepts one more write.
LEMMA AppendKeepsRow ==
  ASSUME NEW log \in Seq(Values), NEW x \in Values, NEW item \in ItemState,
         RowSound(log, item)
  PROVE  RowSound(Append(log, x), item)
  <1>1. Len(Append(log, x)) = Len(log) + 1 /\ Len(log) \in Nat
    OBVIOUS
  <1>2. item.version \in Nat
    BY DEF ItemState
  <1> QED
    BY <1>1, <1>2, AppendKeepsVersion DEF RowSound

\* An accepted version is a positive version with a value.
LEMMA VersionHasValue ==
  ASSUME NEW log \in Seq(Values), NEW v, NEW y, IsVersion(log, v, y)
  PROVE  v \in Nat /\ v > 0 /\ v <= Len(log) /\ y \in Values
  BY DEF IsVersion

\* The last version of a log that is not empty.
LEMMA LastIsVersion ==
  ASSUME NEW log \in Seq(Values), log # <<>>
  PROVE  IsVersion(log, Len(log), log[Len(log)])
  BY DEF IsVersion

\* The metadata functions keep the type of a row.
LEMMA RowTypes ==
  ASSUME NEW item \in ItemState, NEW v \in Nat, NEW y \in OptValue
  PROVE  /\ markItemDirty(item) \in ItemState
         /\ clearItemConflict(item) \in ItemState
         /\ markItemClean(item, v, y) \in ItemState
         /\ markItemDirtyWithBase(item, v, y) \in ItemState
         /\ markItemConflict(item, v, y) \in ItemState
  BY DEF ItemState, markItemDirty, clearItemConflict, markItemClean,
         markItemDirtyWithBase, markItemConflict, WithBase, OptValue

\* Marking a row dirty keeps it sound.
LEMMA DirtySound ==
  ASSUME NEW log \in Seq(Values), NEW item \in ItemState, RowSound(log, item)
  PROVE  RowSound(log, markItemDirty(item))
  BY DEF RowSound, markItemDirty, ItemState, hasMergeBase

\* Dropping a recorded conflict keeps a row sound.
LEMMA ClearSound ==
  ASSUME NEW log \in Seq(Values), NEW item \in ItemState, RowSound(log, item)
  PROVE  RowSound(log, clearItemConflict(item))
  BY DEF RowSound, clearItemConflict, ItemState, hasMergeBase

\* Taking an accepted version as the new base makes any row sound.
LEMMA BaseSound ==
  ASSUME NEW log \in Seq(Values), NEW item \in ItemState, NEW v, NEW y,
         IsVersion(log, v, y)
  PROVE  /\ RowSound(log, markItemClean(item, v, y))
         /\ RowSound(log, markItemDirtyWithBase(item, v, y))
  <1>1. v \in Nat /\ v <= Len(log) /\ Len(log) \in Nat
    BY VersionHasValue
  <1> QED
    BY <1>1 DEF RowSound, markItemClean, markItemDirtyWithBase, WithBase,
                clearItemConflict, ItemState, hasMergeBase

\* Recording a conflict with an accepted version that is not behind the row
\* keeps the row and its base sound.
LEMMA ConflictSound ==
  ASSUME NEW log \in Seq(Values), NEW item \in ItemState, NEW v, NEW y,
         IsVersion(log, v, y), RowSound(log, item), item.version <= v
  PROVE  RowSound(log, markItemConflict(item, v, y))
  <1>1. v \in Nat /\ v <= Len(log) /\ Len(log) \in Nat
    BY VersionHasValue
  <1> QED
    BY <1>1 DEF RowSound, markItemConflict, ItemState, hasMergeBase

\* The row a remote apply saves is sound.
LEMMA AppliedSound ==
  ASSUME NEW log \in Seq(Values), NEW item \in ItemState, NEW local, NEW v, NEW y,
         IsVersion(log, v, y), RowSound(log, item), item.version <= v
  PROVE  /\ AppliedItem(item, local, v, y) \in ItemState
         /\ RowSound(log, AppliedItem(item, local, v, y))
  <1>1. v \in Nat /\ y \in OptValue
    BY VersionHasValue DEF OptValue
  <1> QED
    BY <1>1, RowTypes, BaseSound, ConflictSound DEF AppliedItem

\* The value a remote apply writes to the backend is a value.
LEMMA ApplyValueType ==
  ASSUME NEW item \in ItemState, NEW local \in OptValue, NEW y \in Values,
         ApplyWrites(item, local, y), ~ApplyFails(item, local)
  PROVE  ApplyValue(item, local, y) \in Values
  <1>1. CASE AppliesClean(item, local, y)
    BY <1>1 DEF ApplyValue
  <1>2. CASE ~AppliesClean(item, local, y)
    <2>1. local \in Values
      BY <1>2 DEF AppliesClean, ApplyFails, ApplyWrites, OptValue, ItemState
    <2>2. MergeResult(item, local, y) \in [resolved : BOOLEAN, value : Values]
      BY <2>1, MergeAssumption DEF MergeResult, ItemState, OptValue
    <2> QED
      BY <1>2, <2>2 DEF ApplyValue
  <1> QED
    BY <1>1, <1>2

\* A snapshot value leaves a row sound.
LEMMA ReconciledSound ==
  ASSUME NEW log \in Seq(Values), NEW item \in ItemState, NEW y, RowSound(log, item)
  PROVE  /\ ReconciledItem(item, y) \in ItemState
         /\ RowSound(log, ReconciledItem(item, y))
  <1>1. markItemDirty(item) \in ItemState
    BY DEF markItemDirty, ItemState
  <1> QED
    BY <1>1, DirtySound DEF ReconciledItem

-----------------------------------------------------------------------------
(* Frames *)

\* The server only accepts more.
LogGrows ==
    \A k \in Keys : \/ srvLog'[k] = srvLog[k]
                   \/ \E x \in Values : srvLog'[k] = Append(srvLog[k], x)

\* A step leaves alone what call u knows, its locks and the rows it has locked.
Unmoved(u) ==
    /\ pc'[u] = pc[u] /\ key'[u] = key[u] /\ got'[u] = got[u] /\ cur'[u] = cur[u]
    /\ \A k \in Keys : lock[k] = u => lock'[k] = u /\ items'[k] = items[k]

\* A call keeps what it knows through a step of somebody else.
LEMMA UnmovedCall ==
  ASSUME TypeOK, NEW u \in Threads, CallSound(u), Unmoved(u), LogGrows
  PROVE  CallSound(u)'
  <1>1. \A k \in Keys : srvLog[k] \in Seq(Values)
    BY DEF TypeOK
  <1>2. \A k \in Keys : \A v, y : IsVersion(srvLog[k], v, y) => IsVersion(srvLog'[k], v, y)
    BY <1>1, AppendKeepsVersion DEF LogGrows
  <1>3. pc[u] \in Locked => items'[key[u]] = items[key[u]] /\ lock'[key[u]] = u
    BY DEF CallSound, Unmoved
  <1>4. pc[u] \in {"reapply", "set", "save", "put", "saveUpload"} => pc[u] \in Locked
    BY DEF Locked
  <1> QED
    BY <1>2, <1>3, <1>4 DEF CallSound, Unmoved, Locked, Fetched

\* Rows that a step leaves alone stay sound.
LEMMA RowsSound ==
  ASSUME TypeOK, MergeBaseSound, LogGrows,
         \A k \in Keys : items'[k] = items[k] \/ RowSound(srvLog'[k], items'[k])
  PROVE  MergeBaseSound'
  <1>1. \A k \in Keys : srvLog[k] \in Seq(Values) /\ items[k] \in ItemState
    BY DEF TypeOK
  <1>2. \A k \in Keys : RowSound(srvLog'[k], items[k])
    BY <1>1, AppendKeepsRow DEF LogGrows, MergeBaseSound
  <1> QED
    BY <1>2 DEF MergeBaseSound

\* A step of call t keeps the invariant if it keeps the types, the rows it saves
\* are sound, the other calls are left alone and t's own knowledge is sound.
LEMMA CallStep ==
  ASSUME EngineInv, TypeOK', LogGrows, NEW t \in Threads, CallSound(t)',
         \A k \in Keys : items'[k] = items[k] \/ RowSound(srvLog'[k], items'[k]),
         \A u \in Threads \ {t} : Unmoved(u)
  PROVE  EngineInv'
  <1>1. MergeBaseSound'
    BY RowsSound DEF EngineInv
  <1>2. \A u \in Threads \ {t} : CallSound(u)'
    BY UnmovedCall DEF EngineInv, CallsSound
  <1> QED
    BY <1>1, <1>2 DEF EngineInv, CallsSound

\* The same for a step of the app or of another device.
LEMMA EnvironmentStep ==
  ASSUME EngineInv, TypeOK', LogGrows,
         \A k \in Keys : items'[k] = items[k] \/ RowSound(srvLog'[k], items'[k]),
         \A u \in Threads : Unmoved(u)
  PROVE  EngineInv'
  <1>1. MergeBaseSound'
    BY RowsSound DEF EngineInv
  <1>2. \A u \in Threads : CallSound(u)'
    BY UnmovedCall DEF EngineInv, CallsSound
  <1> QED
    BY <1>1, <1>2 DEF EngineInv, CallsSound

\* The locals of an idle call have their types.
LEMMA IdleTypes ==
  /\ NoItem \in [version : Nat, value : OptValue]
  /\ NoVersions \in [Keys -> Nat]
  /\ NoSnapshot \in [Keys -> OptValue]
  /\ NewNamespace \in NamespaceState
  /\ NoScope \in Scopes
  /\ NoValue \in OptValue
  /\ NewItem \in ItemState
  BY DEF NoItem, NoVersions, NoSnapshot, NewNamespace, NamespaceState, Scopes,
         OptValue, NewItem, ItemState

\* A call that returns gives up its locks and knows nothing any more.
LEMMA ReturnStep ==
  ASSUME EngineInv, NEW t \in Threads, Return(t, TRUE) \/ Return(t, FALSE),
         UNCHANGED <<backend, scope, items>>, ns' \in NamespaceState, LogGrows,
         srvLog' \in [Keys -> Seq(Values)], srvHead' \in Nat
  PROVE  EngineInv'
  <1>1. TypeOK'
    <2>1. DropPull(t) /\ DropItem(t) /\ Release(t) /\ Goto(t, "idle") /\ TypeOK
      BY DEF EngineInv, Return
    <2>2. /\ alarm' \subseteq Threads
          /\ todo' \in [Threads -> SUBSET Keys]
      BY DEF EngineInv, TypeOK, Return
    <2>3. snap' \in [Keys -> OptValue] /\ attempt' \in 0..2
      BY IdleTypes DEF EngineInv, TypeOK, Return
    <2>4. lock' \in [Keys -> Threads \cup {NoThread}] /\ pc' \in [Threads -> Labels]
      BY <2>1 DEF TypeOK, Release, Goto, Labels
    <2>5. /\ key' \in [Threads -> Keys \cup {NoKey}]
          /\ got' \in [Threads -> [version : Nat, value : OptValue]]
          /\ cur' \in [Threads -> OptValue]
      BY <2>1, IdleTypes DEF TypeOK, DropItem
    <2>6. /\ rhead' \in [Threads -> Nat]
          /\ rver' \in [Threads -> [Keys -> Nat]]
          /\ seen' \in [Threads -> Scopes]
          /\ nsl' \in [Threads -> NamespaceState]
      BY <2>1, IdleTypes DEF TypeOK, DropPull
    <2> QED
      BY <2>1, <2>2, <2>3, <2>4, <2>5, <2>6 DEF TypeOK
  <1>2. CallSound(t)'
    <2>1. pc'[t] = "idle"
      BY DEF EngineInv, TypeOK, Return, Goto
    <2> QED
      BY <2>1 DEF CallSound, Locked, Fetched
  <1>3. \A u \in Threads \ {t} : Unmoved(u)
    BY DEF EngineInv, TypeOK, Return, Goto, Release, DropItem, Unmoved
  <1> QED
    BY <1>1, <1>2, <1>3, CallStep

-----------------------------------------------------------------------------
(* One lemma per action *)

\* The snapshot is only read.
LEMMA TakeSnapshotStep ==
  ASSUME EngineInv, TakeSnapshot
  PROVE  EngineInv'
  <1>0. SyncThread \in Threads /\ TypeOK
    BY DEF Threads, EngineInv
  <1>1. TypeOK'
    BY <1>0, IdleTypes DEF TypeOK, TakeSnapshot, Goto, Labels, serverVars, appVars, storeVars, itemVars, pullVars, syncVars
  <1>2. CallSound(SyncThread)'
    <2>1. pc'[SyncThread] \notin Locked \cup Fetched
      BY <1>0 DEF TypeOK, TakeSnapshot, Goto, Locked, Fetched
    <2> QED
      BY <2>1 DEF CallSound, Locked, Fetched
  <1>3. LogGrows /\ \A u \in Threads \ {SyncThread} : Unmoved(u)
    BY <1>0 DEF TypeOK, TakeSnapshot, Goto, Unmoved, LogGrows, serverVars, appVars, storeVars, itemVars, pullVars, syncVars
  <1>4. \A k \in Keys : items'[k] = items[k]
    BY DEF TakeSnapshot, storeVars
  <1> QED
    BY <1>0, <1>1, <1>2, <1>3, <1>4, CallStep

\* The scope is only read.
LEMMA LoadSnapshotScopeStep ==
  ASSUME EngineInv, LoadSnapshotScope
  PROVE  EngineInv'
  <1>0. SyncThread \in Threads /\ TypeOK
    BY DEF Threads, EngineInv
  <1>1. TypeOK'
    BY <1>0 DEF TypeOK, LoadSnapshotScope, Goto, Labels, serverVars, appVars, storeVars, itemVars, pullVars, syncVars, Active, Scopes
  <1>2. CallSound(SyncThread)'
    <2>1. pc'[SyncThread] \notin Locked \cup Fetched
      BY <1>0 DEF TypeOK, LoadSnapshotScope, Goto, Locked, Fetched
    <2> QED
      BY <2>1 DEF CallSound, Locked, Fetched
  <1>3. LogGrows /\ \A u \in Threads \ {SyncThread} : Unmoved(u)
    BY <1>0 DEF TypeOK, LoadSnapshotScope, Goto, Unmoved, LogGrows, serverVars, appVars, storeVars, itemVars, pullVars, syncVars
  <1>4. \A k \in Keys : items'[k] = items[k]
    BY DEF LoadSnapshotScope, storeVars
  <1> QED
    BY <1>0, <1>1, <1>2, <1>3, <1>4, CallStep

\* The namespace listing is only read.
LEMMA ListRemoteStep ==
  ASSUME EngineInv, NEW t \in Threads, ListRemote(t)
  PROVE  EngineInv'
  <1>0. t \in Threads /\ TypeOK
    BY DEF Threads, EngineInv
  <1>1. TypeOK'
    BY <1>0, IdleTypes DEF TypeOK, ListRemote, Goto, Labels, serverVars, appVars, storeVars, itemVars, pullVars, syncVars
  <1>2. CallSound(t)'
    <2>1. pc'[t] \notin Locked \cup Fetched
      BY <1>0 DEF TypeOK, ListRemote, Goto, Locked, Fetched
    <2> QED
      BY <2>1 DEF CallSound, Locked, Fetched
  <1>3. LogGrows /\ \A u \in Threads \ {t} : Unmoved(u)
    BY <1>0 DEF TypeOK, ListRemote, Goto, Unmoved, LogGrows, serverVars, appVars, storeVars, itemVars, pullVars, syncVars
  <1>4. \A k \in Keys : items'[k] = items[k]
    BY DEF ListRemote, storeVars
  <1> QED
    BY <1>0, <1>1, <1>2, <1>3, <1>4, CallStep

\* The stored namespace and the scope are only read.
LEMMA LoadNamespaceStep ==
  ASSUME EngineInv, NEW t \in Threads, LoadNamespace(t)
  PROVE  EngineInv'
  <1>0. t \in Threads /\ TypeOK
    BY DEF Threads, EngineInv
  <1>1. TypeOK'
    BY <1>0 DEF TypeOK, LoadNamespace, Goto, Labels, serverVars, appVars, storeVars, itemVars, pullVars, syncVars
  <1>2. CallSound(t)'
    <2>1. pc'[t] \notin Locked \cup Fetched
      BY <1>0 DEF TypeOK, LoadNamespace, Goto, Locked, Fetched
    <2> QED
      BY <2>1 DEF CallSound, Locked, Fetched
  <1>3. LogGrows /\ \A u \in Threads \ {t} : Unmoved(u)
    BY <1>0 DEF TypeOK, LoadNamespace, Goto, Unmoved, LogGrows, serverVars, appVars, storeVars, itemVars, pullVars, syncVars
  <1>4. \A k \in Keys : items'[k] = items[k]
    BY DEF LoadNamespace, storeVars
  <1> QED
    BY <1>0, <1>1, <1>2, <1>3, <1>4, CallStep

\* The item listing is only read.
LEMMA GetNamespaceItemsStep ==
  ASSUME EngineInv, NEW t \in Threads, GetNamespaceItems(t)
  PROVE  EngineInv'
  <1>0. t \in Threads /\ TypeOK
    BY DEF Threads, EngineInv
  <1>1. TypeOK'
    BY <1>0 DEF TypeOK, GetNamespaceItems, Goto, Labels, serverVars, appVars, storeVars, itemVars, pullVars, syncVars
  <1>2. CallSound(t)'
    <2>1. pc'[t] \notin Locked \cup Fetched
      BY <1>0 DEF TypeOK, GetNamespaceItems, Goto, Locked, Fetched
    <2> QED
      BY <2>1 DEF CallSound, Locked, Fetched
  <1>3. LogGrows /\ \A u \in Threads \ {t} : Unmoved(u)
    BY <1>0 DEF TypeOK, GetNamespaceItems, Goto, Unmoved, LogGrows, serverVars, appVars, storeVars, itemVars, pullVars, syncVars
  <1>4. \A k \in Keys : items'[k] = items[k]
    BY DEF GetNamespaceItems, storeVars
  <1> QED
    BY <1>0, <1>1, <1>2, <1>3, <1>4, CallStep

\* The stored rows are only read.
LEMMA ScanItemsStep ==
  ASSUME EngineInv, NEW t \in Threads, ScanItems(t)
  PROVE  EngineInv'
  <1>0. t \in Threads /\ TypeOK
    BY DEF Threads, EngineInv
  <1>1. TypeOK'
    BY <1>0 DEF TypeOK, ScanItems, Goto, Labels, serverVars, appVars, storeVars, itemVars, pullVars, syncVars, Active, Scopes
  <1>2. CallSound(t)'
    <2>1. pc'[t] \notin Locked \cup Fetched
      BY <1>0 DEF TypeOK, ScanItems, Goto, Locked, Fetched
    <2> QED
      BY <2>1 DEF CallSound, Locked, Fetched
  <1>3. LogGrows /\ \A u \in Threads \ {t} : Unmoved(u)
    BY <1>0 DEF TypeOK, ScanItems, Goto, Unmoved, LogGrows, serverVars, appVars, storeVars, itemVars, pullVars, syncVars
  <1>4. \A k \in Keys : items'[k] = items[k]
    BY DEF ScanItems, storeVars
  <1> QED
    BY <1>0, <1>1, <1>2, <1>3, <1>4, CallStep

\* A row that caught up is left alone.
LEMMA SkipApplyStep ==
  ASSUME EngineInv, NEW t \in Threads, SkipApply(t)
  PROVE  EngineInv'
  <1>0. t \in Threads /\ TypeOK
    BY DEF Threads, EngineInv
  <1>1. TypeOK'
    BY <1>0, IdleTypes DEF TypeOK, SkipApply, Goto, Labels, serverVars, appVars, storeVars, itemVars, pullVars, syncVars, DropItem
  <1>2. CallSound(t)'
    <2>1. pc'[t] \notin Locked \cup Fetched
      BY <1>0 DEF TypeOK, SkipApply, Goto, Locked, Fetched, DropItem
    <2> QED
      BY <2>1 DEF CallSound, Locked, Fetched
  <1>3. LogGrows /\ \A u \in Threads \ {t} : Unmoved(u)
    BY <1>0 DEF TypeOK, SkipApply, Goto, Unmoved, LogGrows, serverVars, appVars, storeVars, itemVars, pullVars, syncVars, DropItem
  <1>4. \A k \in Keys : items'[k] = items[k]
    BY DEF SkipApply, storeVars
  <1> QED
    BY <1>0, <1>1, <1>2, <1>3, <1>4, CallStep

\* The dirty rows are only listed.
LEMMA ListDirtyItemsStep ==
  ASSUME EngineInv, ListDirtyItems
  PROVE  EngineInv'
  <1>0. SyncThread \in Threads /\ TypeOK
    BY DEF Threads, EngineInv
  <1>1. TypeOK'
    BY <1>0 DEF TypeOK, ListDirtyItems, Goto, Labels, serverVars, appVars, storeVars, itemVars, pullVars, syncVars
  <1>2. CallSound(SyncThread)'
    <2>1. pc'[SyncThread] \notin Locked \cup Fetched
      BY <1>0 DEF TypeOK, ListDirtyItems, Goto, Locked, Fetched
    <2> QED
      BY <2>1 DEF CallSound, Locked, Fetched
  <1>3. LogGrows /\ \A u \in Threads \ {SyncThread} : Unmoved(u)
    BY <1>0 DEF TypeOK, ListDirtyItems, Goto, Unmoved, LogGrows, serverVars, appVars, storeVars, itemVars, pullVars, syncVars
  <1>4. \A k \in Keys : items'[k] = items[k]
    BY DEF ListDirtyItems, storeVars
  <1> QED
    BY <1>0, <1>1, <1>2, <1>3, <1>4, CallStep

\* The stored namespace and the scope are only read.
LEMMA LoadFlushCachesStep ==
  ASSUME EngineInv, LoadFlushCaches
  PROVE  EngineInv'
  <1>0. SyncThread \in Threads /\ TypeOK
    BY DEF Threads, EngineInv
  <1>1. TypeOK'
    BY <1>0 DEF TypeOK, LoadFlushCaches, Goto, Labels, serverVars, appVars, storeVars, itemVars, pullVars, syncVars
  <1>2. CallSound(SyncThread)'
    <2>1. pc'[SyncThread] \notin Locked \cup Fetched
      BY <1>0 DEF TypeOK, LoadFlushCaches, Goto, Locked, Fetched
    <2> QED
      BY <2>1 DEF CallSound, Locked, Fetched
  <1>3. LogGrows /\ \A u \in Threads \ {SyncThread} : Unmoved(u)
    BY <1>0 DEF TypeOK, LoadFlushCaches, Goto, Unmoved, LogGrows, serverVars, appVars, storeVars, itemVars, pullVars, syncVars
  <1>4. \A k \in Keys : items'[k] = items[k]
    BY DEF LoadFlushCaches, storeVars
  <1> QED
    BY <1>0, <1>1, <1>2, <1>3, <1>4, CallStep

\* An item without anything to upload is passed over.
LEMMA SkipUploadStep ==
  ASSUME EngineInv, NEW k \in Keys, SkipUpload(k)
  PROVE  EngineInv'
  <1>0. SyncThread \in Threads /\ TypeOK
    BY DEF Threads, EngineInv
  <1>1. TypeOK'
    BY <1>0 DEF TypeOK, SkipUpload, Goto, Labels, serverVars, appVars, storeVars, itemVars, pullVars, syncVars
  <1>2. CallSound(SyncThread)'
    <2>1. pc'[SyncThread] \notin Locked \cup Fetched
      BY <1>0 DEF TypeOK, SkipUpload, Goto, Locked, Fetched
    <2> QED
      BY <2>1 DEF CallSound, Locked, Fetched
  <1>3. LogGrows /\ \A u \in Threads \ {SyncThread} : Unmoved(u)
    BY <1>0 DEF TypeOK, SkipUpload, Goto, Unmoved, LogGrows, serverVars, appVars, storeVars, itemVars, pullVars, syncVars
  <1>4. \A j \in Keys : items'[j] = items[j]
    BY DEF SkipUpload, storeVars
  <1> QED
    BY <1>0, <1>1, <1>2, <1>3, <1>4, CallStep

\* A changed snapshot value only marks a row dirty.
LEMMA ReconcileSnapshotValueStep ==
  ASSUME EngineInv, NEW k \in Keys, ReconcileSnapshotValue(k)
  PROVE  EngineInv'
  <1>0. SyncThread \in Threads /\ NoThread \notin Threads /\ TypeOK
    BY ThreadAssumption DEF Threads, EngineInv
  <1>1. /\ ReconciledItem(items[k], snap[k]) \in ItemState
        /\ RowSound(srvLog[k], ReconciledItem(items[k], snap[k]))
    BY <1>0, ReconciledSound DEF EngineInv, MergeBaseSound, TypeOK
  <1>2. TypeOK'
    BY <1>0, <1>1 DEF TypeOK, ReconcileSnapshotValue, serverVars, appVars, itemVars, pullVars, syncVars
  <1>3. LogGrows /\ \A u \in Threads : Unmoved(u)
    BY <1>0 DEF TypeOK, ReconcileSnapshotValue, LogGrows, Unmoved, serverVars, itemVars
  <1>4. \A j \in Keys : items'[j] = items[j] \/ RowSound(srvLog'[j], items'[j])
    BY <1>0, <1>1 DEF TypeOK, ReconcileSnapshotValue, serverVars
  <1> QED
    BY <1>2, <1>3, <1>4, EnvironmentStep

\* A fetched item is a version the server accepted.
LEMMA GetItemStep ==
  ASSUME EngineInv, NEW t \in Threads, NEW k \in Keys, GetItem(t, k)
  PROVE  EngineInv'
  <1>0. TypeOK /\ srvLog[k] \in Seq(Values)
    BY DEF EngineInv, TypeOK
  <1>1. IsVersion(srvLog[k], Len(srvLog[k]), Latest(k))
    BY <1>0, LastIsVersion DEF Latest, GetItem
  <1>2. [version |-> Len(srvLog[k]), value |-> Latest(k)] \in [version : Nat, value : OptValue]
    BY <1>0, <1>1, VersionHasValue DEF OptValue
  <1>3. TypeOK'
    BY <1>0, <1>2 DEF TypeOK, GetItem, Goto, Labels, serverVars, appVars, storeVars, pullVars, syncVars
  <1>4. CallSound(t)'
    <2>1. pc'[t] = "apply" /\ key'[t] = k /\ srvLog' = srvLog
          /\ got'[t].version = Len(srvLog[k]) /\ got'[t].value = Latest(k)
      BY <1>0 DEF TypeOK, GetItem, Goto, serverVars
    <2> QED
      BY <1>1, <2>1 DEF CallSound, Locked, Fetched
  <1>5. LogGrows /\ \A u \in Threads \ {t} : Unmoved(u)
    BY <1>0 DEF TypeOK, GetItem, Goto, LogGrows, Unmoved, serverVars, storeVars
  <1>6. \A j \in Keys : items'[j] = items[j]
    BY DEF GetItem, storeVars
  <1> QED
    BY <1>3, <1>4, <1>5, <1>6, CallStep

\* The apply starts with the lock, a row that is behind and the value read.
LEMMA BeginApplyStep ==
  ASSUME EngineInv, NEW t \in Threads, BeginApply(t)
  PROVE  EngineInv'
  <1>0. TypeOK /\ CallSound(t) /\ NoThread \notin Threads
    BY ThreadAssumption DEF EngineInv, CallsSound
  <1>1. key[t] \in Keys /\ IsVersion(srvLog[key[t]], got[t].version, got[t].value)
    BY <1>0 DEF CallSound, BeginApply, Fetched
  <1>2. got[t].version \in Nat /\ items[key[t]].version \in Nat
    BY <1>0, <1>1 DEF TypeOK, ItemState
  <1>3. TypeOK'
    BY <1>0, <1>1 DEF TypeOK, BeginApply, ReadForApply, Acquire, Goto, Labels, serverVars, appVars, storeVars, pullVars, syncVars
  <1>4. CallSound(t)'
    <2>1. /\ pc'[t] = ReadForApply(t) /\ key' = key /\ got' = got
          /\ items' = items /\ srvLog' = srvLog
          /\ cur'[t] = backend[key[t]] /\ lock'[key[t]] = t
          /\ items[key[t]].version < got[t].version
          /\ ~ApplyFails(items[key[t]], backend[key[t]])
      BY <1>0, <1>1 DEF TypeOK, BeginApply, Acquire, Goto, serverVars, storeVars
    <2>2. pc'[t] = "set" \/ pc'[t] = "save"
      BY <2>1 DEF ReadForApply
    <2>3. pc'[t] = "set" => ApplyWrites(items[key[t]], cur'[t], got[t].value)
      BY <2>1 DEF ReadForApply
    <2> QED
      BY <1>1, <1>2, <2>1, <2>2, <2>3 DEF CallSound, Locked, Fetched
  <1>5. LogGrows /\ \A u \in Threads \ {t} : Unmoved(u)
    BY <1>0, <1>1 DEF TypeOK, BeginApply, Acquire, Goto, LogGrows, Unmoved, serverVars, storeVars
  <1>6. \A j \in Keys : items'[j] = items[j]
    BY DEF BeginApply, storeVars
  <1> QED
    BY <1>3, <1>4, <1>5, <1>6, CallStep

\* The same after a refused upload; the lock is held already.
LEMMA BeginReapplyStep ==
  ASSUME EngineInv, BeginReapply
  PROVE  EngineInv'
  <1> DEFINE t == SyncThread
  <1>0. t \in Threads /\ TypeOK /\ CallSound(t)
    BY DEF Threads, EngineInv, CallsSound
  <1>1. /\ key[t] \in Keys /\ IsVersion(srvLog[key[t]], got[t].version, got[t].value)
        /\ lock[key[t]] = t /\ items[key[t]].version <= got[t].version
    BY <1>0 DEF CallSound, BeginReapply, Fetched, Locked
  <1>3. TypeOK'
    BY <1>0, <1>1 DEF TypeOK, BeginReapply, ReadForApply, Goto, Labels, serverVars, appVars, storeVars, pullVars, syncVars
  <1>4. CallSound(t)'
    <2>1. /\ pc'[t] = ReadForApply(t) /\ key' = key /\ got' = got /\ lock' = lock
          /\ items' = items /\ srvLog' = srvLog
          /\ cur'[t] = backend[key[t]]
          /\ ~ApplyFails(items[key[t]], backend[key[t]])
      BY <1>0, <1>1 DEF TypeOK, BeginReapply, Goto, serverVars, storeVars
    <2>2. pc'[t] = "set" \/ pc'[t] = "save"
      BY <2>1 DEF ReadForApply
    <2>3. pc'[t] = "set" => ApplyWrites(items[key[t]], cur'[t], got[t].value)
      BY <2>1 DEF ReadForApply
    <2> QED
      BY <1>1, <2>1, <2>2, <2>3 DEF CallSound, Locked, Fetched
  <1>5. LogGrows /\ \A u \in Threads \ {t} : Unmoved(u)
    BY <1>0 DEF TypeOK, BeginReapply, Goto, LogGrows, Unmoved, serverVars, storeVars
  <1>6. \A j \in Keys : items'[j] = items[j]
    BY DEF BeginReapply, storeVars
  <1> QED
    BY <1>0, <1>3, <1>4, <1>5, <1>6, CallStep

\* The conditional write touches the backend only.
LEMMA SetIfCurrentStep ==
  ASSUME EngineInv, NEW t \in Threads, SetIfCurrent(t)
  PROVE  EngineInv'
  <1>0. TypeOK /\ CallSound(t)
    BY DEF EngineInv, CallsSound
  <1>1. /\ key[t] \in Keys /\ IsVersion(srvLog[key[t]], got[t].version, got[t].value)
        /\ lock[key[t]] = t /\ items[key[t]].version <= got[t].version
        /\ ApplyWrites(items[key[t]], cur[t], got[t].value)
        /\ ~ApplyFails(items[key[t]], cur[t])
    BY <1>0 DEF CallSound, SetIfCurrent, Fetched, Locked
  <1>2. ApplyValue(items[key[t]], cur[t], got[t].value) \in Values
    <2>1. items[key[t]] \in ItemState /\ cur[t] \in OptValue /\ got[t].value \in Values
      BY <1>0, <1>1, VersionHasValue DEF TypeOK
    <2> QED
      BY <1>1, <2>1, ApplyValueType
  <1>3. backend' \in [Keys -> OptValue] /\ pc' \in [Threads -> Labels]
    BY <1>0, <1>1, <1>2 DEF TypeOK, SetIfCurrent, Goto, Labels, OptValue
  <1>4. TypeOK'
    BY <1>0, <1>3 DEF TypeOK, SetIfCurrent, serverVars, storeVars, itemVars, pullVars, syncVars
  <1>5. CallSound(t)'
    <2>1. /\ pc'[t] \in {"save", "saveRaced"} /\ key' = key /\ got' = got /\ lock' = lock
          /\ items' = items /\ srvLog' = srvLog
      BY <1>0 DEF TypeOK, SetIfCurrent, Goto, serverVars, storeVars, itemVars
    <2> QED
      BY <1>1, <2>1 DEF CallSound, Locked, Fetched
  <1>6. LogGrows /\ \A u \in Threads \ {t} : Unmoved(u)
    BY <1>0 DEF TypeOK, SetIfCurrent, Goto, LogGrows, Unmoved, serverVars, storeVars, itemVars
  <1>7. \A j \in Keys : items'[j] = items[j]
    BY DEF SetIfCurrent, storeVars
  <1> QED
    BY <1>4, <1>5, <1>6, <1>7, CallStep

\* The row a call saves is sound, and nobody else holds its lock.
LEMMA SaveItemStep ==
  ASSUME EngineInv, NEW t \in Threads, SaveItem(t)
  PROVE  EngineInv'
  <1> DEFINE k == key[t]
             row == IF pc[t] = "save"
                      THEN AppliedItem(items[k], cur[t], got[t].version, got[t].value)
                      ELSE RacedItem(items[k])
  <1>0. TypeOK /\ CallSound(t) /\ MergeBaseSound
    BY DEF EngineInv, CallsSound
  <1>1. /\ k \in Keys /\ IsVersion(srvLog[k], got[t].version, got[t].value)
        /\ lock[k] = t
        /\ pc[t] = "save" => items[k].version <= got[t].version
    BY <1>0 DEF CallSound, SaveItem, Fetched, Locked
  <1>2. items[k] \in ItemState /\ srvLog[k] \in Seq(Values) /\ RowSound(srvLog[k], items[k])
    BY <1>0, <1>1 DEF TypeOK, MergeBaseSound
  <1>3. row \in ItemState /\ RowSound(srvLog[k], row)
    <2>1. CASE pc[t] = "save"
      BY <1>1, <1>2, <2>1, AppliedSound
    <2>2. CASE pc[t] # "save"
      <3>1. RacedItem(items[k]) \in ItemState
        BY <1>2 DEF RacedItem, markItemDirty, ItemState
      <3> QED
        BY <1>2, <2>2, <3>1, DirtySound DEF RacedItem
    <2> QED
      BY <2>1, <2>2
  <1>4. items' = [items EXCEPT ![k] = row]
    BY DEF SaveItem
  <1> HIDE DEF row
  <1>5. \/ Goto(t, "retry") /\ UNCHANGED <<lock, itemVars>>
        \/ Goto(t, "pull") /\ Release(t) /\ DropItem(t)
    BY DEF SaveItem
  <1>6. UNCHANGED <<serverVars, appVars, ns, alarm, todo, pullVars, syncVars>>
    BY DEF SaveItem
  <1>7. TypeOK'
    <2>1. items' \in [Keys -> ItemState]
      BY <1>0, <1>3, <1>4 DEF TypeOK
    <2>2. /\ pc' \in [Threads -> Labels]
          /\ lock' \in [Keys -> Threads \cup {NoThread}]
      BY <1>0, <1>5 DEF TypeOK, Goto, Release, Labels
    <2>3. /\ key' \in [Threads -> Keys \cup {NoKey}]
          /\ got' \in [Threads -> [version : Nat, value : OptValue]]
          /\ cur' \in [Threads -> OptValue]
      <3>1. CASE UNCHANGED itemVars
        BY <1>0, <3>1 DEF TypeOK, itemVars
      <3>2. CASE DropItem(t)
        BY <1>0, <3>2, IdleTypes DEF TypeOK, DropItem
      <3> QED
        BY <1>5, <3>1, <3>2
    <2> QED
      BY <1>0, <1>6, <2>1, <2>2, <2>3 DEF TypeOK, serverVars, appVars, pullVars, syncVars
  <1>8. CallSound(t)'
    <2>1. CASE Goto(t, "retry") /\ UNCHANGED <<lock, itemVars>>
      <3>1. pc'[t] = "retry" /\ key' = key /\ lock' = lock
        BY <1>0, <2>1 DEF TypeOK, Goto, itemVars
      <3> QED
        BY <1>1, <3>1 DEF CallSound, Locked, Fetched
    <2>2. CASE Goto(t, "pull") /\ Release(t) /\ DropItem(t)
      <3>1. pc'[t] = "pull"
        BY <1>0, <2>2 DEF TypeOK, Goto
      <3> QED
        BY <3>1 DEF CallSound, Locked, Fetched
    <2> QED
      BY <1>5, <2>1, <2>2
  <1>9. LogGrows
    BY <1>6 DEF LogGrows, serverVars
  <1>10. \A u \in Threads \ {t} : Unmoved(u)
    <2>1. \A u \in Threads \ {t} : /\ pc'[u] = pc[u] /\ key'[u] = key[u]
                                   /\ got'[u] = got[u] /\ cur'[u] = cur[u]
      BY <1>0, <1>5 DEF TypeOK, Goto, DropItem, itemVars
    <2>2. \A u \in Threads \ {t}, j \in Keys : lock[j] = u => lock'[j] = u
      BY <1>0, <1>5 DEF TypeOK, Release
    <2>3. \A u \in Threads \ {t}, j \in Keys : lock[j] = u => items'[j] = items[j]
      BY <1>0, <1>1, <1>4 DEF TypeOK
    <2> QED
      BY <2>1, <2>2, <2>3 DEF Unmoved
  <1>11. \A j \in Keys : items'[j] = items[j] \/ RowSound(srvLog'[j], items'[j])
    BY <1>0, <1>3, <1>4, <1>6 DEF TypeOK, serverVars
  <1> QED
    BY <1>7, <1>8, <1>9, <1>10, <1>11, CallStep

\* A checkpoint writes the namespace row only.
LEMMA SaveCheckpointStep ==
  ASSUME EngineInv, NEW t \in Threads, SaveCheckpoint(t)
  PROVE  EngineInv'
  <1>0. TypeOK
    BY DEF EngineInv
  <1>1. ns' \in NamespaceState
    BY <1>0 DEF TypeOK, SaveCheckpoint, NamespaceState
  <1>2. UNCHANGED <<serverVars, appVars, items>> /\ LogGrows
    BY DEF SaveCheckpoint, LogGrows, serverVars
  <1>3. CASE t # SyncThread
    <2>1. Return(t, FALSE)
      BY <1>3 DEF SaveCheckpoint
    <2> QED
      BY <1>0, <1>1, <1>2, <2>1, ReturnStep DEF TypeOK, serverVars, appVars
  <1>4. CASE t = SyncThread
    <2>1. Goto(t, "flush") /\ DropPull(t) /\ UNCHANGED <<lock, alarm, todo, itemVars, syncVars>>
      BY <1>4 DEF SaveCheckpoint
    <2>2. TypeOK'
      <3>1. /\ rhead' \in [Threads -> Nat]
            /\ rver' \in [Threads -> [Keys -> Nat]]
            /\ seen' \in [Threads -> Scopes]
            /\ nsl' \in [Threads -> NamespaceState]
        BY <1>0, <2>1, IdleTypes DEF TypeOK, DropPull
      <3>2. pc' \in [Threads -> Labels]
        BY <1>0, <2>1 DEF TypeOK, Goto, Labels
      <3> QED
        BY <1>0, <1>1, <1>2, <2>1, <3>1, <3>2 DEF TypeOK, serverVars, appVars, itemVars, syncVars
    <2>3. CallSound(t)'
      <3>1. pc'[t] = "flush"
        BY <1>0, <2>1 DEF TypeOK, Goto
      <3> QED
        BY <3>1 DEF CallSound, Locked, Fetched
    <2>4. \A u \in Threads \ {t} : Unmoved(u)
      BY <1>0, <1>2, <2>1 DEF TypeOK, Goto, Unmoved, itemVars
    <2> QED
      BY <1>2, <2>2, <2>3, <2>4, CallStep
  <1> QED
    BY <1>3, <1>4

\* JoinNamespace reads the namespace row.
LEMMA ReadJoinedStep ==
  ASSUME EngineInv, NEW t \in Threads, ReadJoined(t)
  PROVE  EngineInv'
  <1>0. TypeOK
    BY DEF EngineInv
  <1>1. TypeOK'
    BY <1>0 DEF TypeOK, ReadJoined, Goto, Labels, serverVars, appVars, storeVars, itemVars, syncVars
  <1>2. CallSound(t)'
    <2>1. pc'[t] \notin Locked \cup Fetched
      BY <1>0 DEF TypeOK, ReadJoined, Goto, Locked, Fetched
    <2> QED
      BY <2>1 DEF CallSound, Locked, Fetched
  <1>3. LogGrows /\ \A u \in Threads \ {t} : Unmoved(u)
    BY <1>0 DEF TypeOK, ReadJoined, Goto, Unmoved, LogGrows, serverVars, appVars, storeVars, itemVars
  <1>4. \A k \in Keys : items'[k] = items[k]
    BY DEF ReadJoined, storeVars
  <1> QED
    BY <1>0, <1>1, <1>2, <1>3, <1>4, CallStep

\* JoinNamespace saves the row it has read, and DefaultNamespace a new one.
LEMMA SaveNamespaceStep ==
  ASSUME EngineInv, SaveDefaultNamespace \/ \E t \in Threads : SaveJoined(t)
  PROVE  EngineInv'
  <1>0. TypeOK
    BY DEF EngineInv
  <1>1. ASSUME NEW t \in Threads, SaveJoined(t) PROVE EngineInv'
    BY <1>0, <1>1, ReturnStep DEF SaveJoined, TypeOK, LogGrows, serverVars, appVars
  <1>2. CASE SaveDefaultNamespace
    <2>1. TypeOK' /\ LogGrows
      BY <1>0, <1>2, IdleTypes DEF SaveDefaultNamespace, TypeOK, LogGrows, serverVars, appVars,
         itemVars, pullVars, syncVars
    <2>2. items' = items /\ \A u \in Threads : Unmoved(u)
      BY <1>2 DEF SaveDefaultNamespace, Unmoved, itemVars
    <2> QED
      BY <2>1, <2>2, EnvironmentStep
  <1> QED
    BY <1>1, <1>2

\* An upload starts with the lock and the value to upload.
LEMMA BeginUploadStep ==
  ASSUME EngineInv, NEW k \in Keys, BeginUpload(k)
  PROVE  EngineInv'
  <1> DEFINE t == SyncThread
  <1>0. t \in Threads /\ TypeOK /\ NoThread \notin Threads
    BY ThreadAssumption DEF Threads, EngineInv
  <1>1. backend[k] \in Values
    BY <1>0 DEF TypeOK, BeginUpload, NeedsUpload, Uploadable, OptValue
  <1>2. TypeOK'
    BY <1>0 DEF TypeOK, BeginUpload, Acquire, Goto, Labels, serverVars, appVars, storeVars, pullVars
  <1>3. CallSound(t)'
    <2>1. pc'[t] = "put" /\ key'[t] = k /\ lock'[k] = t /\ cur'[t] = backend[k]
      BY <1>0 DEF TypeOK, BeginUpload, Acquire, Goto
    <2> QED
      BY <1>1, <2>1 DEF CallSound, Locked, Fetched
  <1>4. LogGrows /\ \A u \in Threads \ {t} : Unmoved(u)
    BY <1>0 DEF TypeOK, BeginUpload, Acquire, Goto, LogGrows, Unmoved, serverVars, storeVars
  <1>5. \A j \in Keys : items'[j] = items[j]
    BY DEF BeginUpload, storeVars
  <1> QED
    BY <1>0, <1>2, <1>3, <1>4, <1>5, CallStep

\* What the server's log becomes when it accepts a write.
LEMMA ServerWriteGrows ==
  ASSUME TypeOK, NEW k \in Keys, NEW v \in Values, ServerWrite(k, v)
  PROVE  /\ srvLog' \in [Keys -> Seq(Values)] /\ srvHead' \in Nat
         /\ LogGrows
         /\ srvLog'[k] = Append(srvLog[k], v)
  <1>1. srvLog[k] \in Seq(Values) /\ Append(srvLog[k], v) \in Seq(Values)
    BY DEF TypeOK
  <1> QED
    BY <1>1 DEF TypeOK, ServerWrite, LogGrows

\* An accepted upload becomes the version after the row's.
LEMMA PutAcceptedStep ==
  ASSUME EngineInv, PutAccepted
  PROVE  EngineInv'
  <1> DEFINE t == SyncThread
             k == key[t]
  <1>0. t \in Threads /\ TypeOK /\ CallSound(t)
    BY DEF Threads, EngineInv, CallsSound
  <1>1. k \in Keys /\ lock[k] = t /\ cur[t] \in Values
    BY <1>0 DEF CallSound, PutAccepted, Locked
  <1>2. /\ srvLog' \in [Keys -> Seq(Values)] /\ srvHead' \in Nat
        /\ LogGrows
        /\ srvLog'[k] = Append(srvLog[k], cur[t])
    BY <1>0, <1>1, ServerWriteGrows DEF PutAccepted
  <1>3. IsVersion(srvLog'[k], items[k].version + 1, cur[t])
    BY <1>0, <1>1, <1>2, AppendIsVersion DEF TypeOK, PutAccepted, Accepts
  <1>4. TypeOK'
    BY <1>0, <1>2 DEF TypeOK, PutAccepted, Goto, Labels, appVars, storeVars, itemVars, pullVars, syncVars
  <1>5. CallSound(t)'
    <2>1. pc'[t] = "saveUpload" /\ key' = key /\ lock' = lock /\ cur' = cur /\ items' = items
      BY <1>0 DEF TypeOK, PutAccepted, Goto, itemVars, storeVars
    <2> QED
      BY <1>1, <1>3, <2>1 DEF CallSound, Locked, Fetched
  <1>6. \A u \in Threads \ {t} : Unmoved(u)
    BY <1>0 DEF TypeOK, PutAccepted, Goto, Unmoved, storeVars, itemVars
  <1>7. \A j \in Keys : items'[j] = items[j]
    BY DEF PutAccepted, storeVars
  <1> QED
    BY <1>0, <1>2, <1>4, <1>5, <1>6, <1>7, CallStep

\* An accepted upload whose response is lost is one more version, and no more.
LEMMA PutResponseLostStep ==
  ASSUME EngineInv, PutResponseLost
  PROVE  EngineInv'
  <1> DEFINE t == SyncThread
             k == key[t]
  <1>0. t \in Threads /\ TypeOK /\ CallSound(t)
    BY DEF Threads, EngineInv, CallsSound
  <1>1. k \in Keys /\ cur[t] \in Values
    BY <1>0 DEF CallSound, PutResponseLost, Locked
  <1>2. /\ srvLog' \in [Keys -> Seq(Values)] /\ srvHead' \in Nat
        /\ LogGrows
    BY <1>0, <1>1, ServerWriteGrows DEF PutResponseLost
  <1>3. Return(t, FALSE) /\ UNCHANGED <<backend, scope, items>> /\ ns' \in NamespaceState
    BY <1>0 DEF PutResponseLost, appVars, storeVars, TypeOK
  <1> QED
    BY <1>0, <1>2, <1>3, ReturnStep

\* A refused upload changes nothing.
LEMMA PutRefusedStep ==
  ASSUME EngineInv, PutRefused
  PROVE  EngineInv'
  <1> DEFINE t == SyncThread
  <1>0. t \in Threads /\ TypeOK /\ CallSound(t)
    BY DEF Threads, EngineInv, CallsSound
  <1>1. key[t] \in Keys /\ lock[key[t]] = t
    BY <1>0 DEF CallSound, PutRefused, Locked
  <1>2. TypeOK'
    BY <1>0 DEF TypeOK, PutRefused, Goto, Labels, serverVars, appVars, storeVars, itemVars, pullVars, syncVars
  <1>3. CallSound(t)'
    <2>1. pc'[t] = "refetch" /\ key' = key /\ lock' = lock
      BY <1>0 DEF TypeOK, PutRefused, Goto, itemVars
    <2> QED
      BY <1>1, <2>1 DEF CallSound, Locked, Fetched
  <1>4. LogGrows /\ \A u \in Threads \ {t} : Unmoved(u)
    BY <1>0 DEF TypeOK, PutRefused, Goto, LogGrows, Unmoved, serverVars, storeVars, itemVars
  <1>5. \A j \in Keys : items'[j] = items[j]
    BY DEF PutRefused, storeVars
  <1> QED
    BY <1>0, <1>2, <1>3, <1>4, <1>5, CallStep

\* The row saved after an upload has the accepted version as its base.
LEMMA SaveUploadedItemStep ==
  ASSUME EngineInv, SaveUploadedItem
  PROVE  EngineInv'
  <1> DEFINE t == SyncThread
             k == key[t]
             row == markItemClean(items[k], items[k].version + 1, cur[t])
  <1>0. t \in Threads /\ TypeOK /\ CallSound(t)
    BY DEF Threads, EngineInv, CallsSound
  <1>1. k \in Keys /\ lock[k] = t /\ cur[t] \in Values
        /\ IsVersion(srvLog[k], items[k].version + 1, cur[t])
    BY <1>0 DEF CallSound, SaveUploadedItem, Locked
  <1>2. items[k] \in ItemState /\ srvLog[k] \in Seq(Values)
    BY <1>0, <1>1 DEF TypeOK
  <1>3. row \in ItemState /\ RowSound(srvLog[k], row)
    <2>1. items[k].version + 1 \in Nat
      BY <1>2 DEF ItemState
    <2> QED
      BY <1>1, <1>2, <2>1, RowTypes, BaseSound DEF OptValue
  <1>4. items' = [items EXCEPT ![k] = row]
    BY <1>0, <1>1 DEF SaveUploadedItem, TypeOK
  <1> HIDE DEF row
  <1>5. TypeOK'
    <2>1. items' \in [Keys -> ItemState]
      BY <1>0, <1>3, <1>4 DEF TypeOK
    <2>2. pc' \in [Threads -> Labels]
      BY <1>0 DEF TypeOK, SaveUploadedItem, Goto, Labels
    <2>3. UNCHANGED <<serverVars, appVars, ns, lock, alarm, todo, itemVars, pullVars, syncVars>>
      BY DEF SaveUploadedItem
    <2> QED BY <1>0, <2>1, <2>2, <2>3 DEF TypeOK, serverVars, appVars, itemVars, pullVars, syncVars
  <1>6. CallSound(t)'
    <2>1. pc'[t] = "saveHead" /\ key' = key /\ lock' = lock
      BY <1>0 DEF TypeOK, SaveUploadedItem, Goto, itemVars
    <2> QED
      BY <1>1, <2>1 DEF CallSound, Locked, Fetched
  <1>7. LogGrows /\ \A u \in Threads \ {t} : Unmoved(u)
    BY <1>0, <1>1, <1>4 DEF TypeOK, SaveUploadedItem, Goto, LogGrows, Unmoved, serverVars, itemVars
  <1>8. \A j \in Keys : items'[j] = items[j] \/ RowSound(srvLog'[j], items'[j])
    BY <1>0, <1>3, <1>4 DEF TypeOK, SaveUploadedItem, serverVars
  <1> QED
    BY <1>0, <1>5, <1>6, <1>7, <1>8, CallStep

\* The head saved after an upload is a number; the item is finished.
LEMMA SaveUploadedHeadStep ==
  ASSUME EngineInv, SaveUploadedHead
  PROVE  EngineInv'
  <1> DEFINE t == SyncThread
  <1>0. t \in Threads /\ TypeOK
    BY DEF Threads, EngineInv
  <1>1. nsl' \in [Threads -> NamespaceState] /\ ns' \in NamespaceState
    <2>1. UploadedNamespace \in NamespaceState
      BY <1>0 DEF TypeOK, UploadedNamespace, NamespaceState
    <2> QED
      BY <1>0, <2>1 DEF TypeOK, SaveUploadedHead
  <1>2. /\ pc' \in [Threads -> Labels]
        /\ lock' \in [Keys -> Threads \cup {NoThread}]
        /\ attempt' \in 0..2
    BY <1>0 DEF TypeOK, SaveUploadedHead, Goto, Release, Labels
  <1>3. /\ key' \in [Threads -> Keys \cup {NoKey}]
        /\ got' \in [Threads -> [version : Nat, value : OptValue]]
        /\ cur' \in [Threads -> OptValue]
    BY <1>0, IdleTypes DEF TypeOK, SaveUploadedHead, DropItem
  <1>4. TypeOK'
    BY <1>0, <1>1, <1>2, <1>3 DEF TypeOK, SaveUploadedHead, serverVars, appVars
  <1>5. CallSound(t)'
    <2>1. pc'[t] = "flushItem"
      BY <1>0 DEF TypeOK, SaveUploadedHead, Goto
    <2> QED
      BY <2>1 DEF CallSound, Locked, Fetched
  <1>6. LogGrows /\ \A u \in Threads \ {t} : Unmoved(u)
    BY <1>0 DEF TypeOK, SaveUploadedHead, Goto, Release, DropItem, LogGrows, Unmoved, serverVars
  <1>7. \A j \in Keys : items'[j] = items[j]
    BY DEF SaveUploadedHead
  <1> QED
    BY <1>0, <1>4, <1>5, <1>6, <1>7, CallStep

\* The item fetched after a refusal is an accepted version not behind the row.
LEMMA RefetchStep ==
  ASSUME EngineInv, Refetch
  PROVE  EngineInv'
  <1> DEFINE t == SyncThread
             k == key[t]
  <1>0. t \in Threads /\ TypeOK /\ CallSound(t)
    BY DEF Threads, EngineInv, CallsSound
  <1>1. k \in Keys /\ lock[k] = t
    BY <1>0 DEF CallSound, Refetch, Locked
  <1>2. srvLog[k] \in Seq(Values) /\ srvLog[k] # <<>>
    BY <1>0, <1>1 DEF TypeOK, Refetch
  <1>3. IsVersion(srvLog[k], Len(srvLog[k]), Latest(k))
    BY <1>2, LastIsVersion DEF Latest
  <1>4. [version |-> Len(srvLog[k]), value |-> Latest(k)] \in [version : Nat, value : OptValue]
    BY <1>2, <1>3, VersionHasValue DEF OptValue
  <1>5. TypeOK'
    BY <1>0, <1>4 DEF TypeOK, Refetch, Goto, Labels, serverVars, appVars, storeVars, pullVars, syncVars
  <1>6. CallSound(t)'
    <2>1. /\ pc'[t] = "reapply" /\ key' = key /\ lock' = lock /\ srvLog' = srvLog /\ items' = items
          /\ got'[t].version = Len(srvLog[k]) /\ got'[t].value = Latest(k)
          /\ items[k].version <= Len(srvLog[k])
      BY <1>0 DEF TypeOK, Refetch, Goto, serverVars, storeVars
    <2> QED
      BY <1>1, <1>3, <2>1 DEF CallSound, Locked, Fetched
  <1>7. LogGrows /\ \A u \in Threads \ {t} : Unmoved(u)
    BY <1>0 DEF TypeOK, Refetch, Goto, LogGrows, Unmoved, serverVars, storeVars
  <1>8. \A j \in Keys : items'[j] = items[j]
    BY DEF Refetch, storeVars
  <1> QED
    BY <1>0, <1>5, <1>6, <1>7, <1>8, CallStep

\* The retry reads the value again.
LEMMA RetryUploadStep ==
  ASSUME EngineInv, RetryUpload
  PROVE  EngineInv'
  <1> DEFINE t == SyncThread
             k == key[t]
  <1>0. t \in Threads /\ TypeOK /\ CallSound(t)
    BY DEF Threads, EngineInv, CallsSound
  <1>1. k \in Keys /\ lock[k] = t
    BY <1>0 DEF CallSound, RetryUpload, Locked
  <1>2. backend[k] \in Values
    BY <1>0, <1>1 DEF TypeOK, RetryUpload, NeedsUpload, Uploadable, OptValue
  <1>3. TypeOK'
    BY <1>0, <1>1, IdleTypes DEF TypeOK, RetryUpload, Goto, Labels, serverVars, appVars, storeVars, pullVars
  <1>4. CallSound(t)'
    <2>1. pc'[t] = "put" /\ key' = key /\ lock' = lock /\ cur'[t] = backend[k]
      BY <1>0 DEF TypeOK, RetryUpload, Goto
    <2> QED
      BY <1>1, <1>2, <2>1 DEF CallSound, Locked, Fetched
  <1>5. LogGrows /\ \A u \in Threads \ {t} : Unmoved(u)
    BY <1>0 DEF TypeOK, RetryUpload, Goto, LogGrows, Unmoved, serverVars, storeVars
  <1>6. \A j \in Keys : items'[j] = items[j]
    BY DEF RetryUpload, storeVars
  <1> QED
    BY <1>0, <1>3, <1>4, <1>5, <1>6, CallStep

\* Leaving an item gives up its lock.
LEMMA LeaveItemStep ==
  ASSUME EngineInv, LeaveItem
  PROVE  EngineInv'
  <1> DEFINE t == SyncThread
  <1>0. t \in Threads /\ TypeOK
    BY DEF Threads, EngineInv
  <1>1. /\ pc' \in [Threads -> Labels]
        /\ lock' \in [Keys -> Threads \cup {NoThread}]
        /\ attempt' \in 0..2
    BY <1>0 DEF TypeOK, LeaveItem, Goto, Release, Labels
  <1>2. /\ key' \in [Threads -> Keys \cup {NoKey}]
        /\ got' \in [Threads -> [version : Nat, value : OptValue]]
        /\ cur' \in [Threads -> OptValue]
    BY <1>0, IdleTypes DEF TypeOK, LeaveItem, DropItem
  <1>3. TypeOK'
    BY <1>0, <1>1, <1>2 DEF TypeOK, LeaveItem, serverVars, appVars, storeVars, pullVars
  <1>4. CallSound(t)'
    <2>1. pc'[t] = "flushItem"
      BY <1>0 DEF TypeOK, LeaveItem, Goto
    <2> QED
      BY <2>1 DEF CallSound, Locked, Fetched
  <1>5. LogGrows /\ \A u \in Threads \ {t} : Unmoved(u)
    BY <1>0 DEF TypeOK, LeaveItem, Goto, Release, DropItem, LogGrows, Unmoved, serverVars, storeVars
  <1>6. \A j \in Keys : items'[j] = items[j]
    BY DEF LeaveItem, storeVars
  <1> QED
    BY <1>0, <1>3, <1>4, <1>5, <1>6, CallStep

\* Every way for a call to end without a write.
Ends(t) ==
    \/ LoadNamespaceRollback(t) \/ GetNamespaceItemsRollback(t) \/ ScanItemsRollback(t)
    \/ (\E k \in Keys : GetItemRollback(t, k)) \/ ApplyNotFound(t) \/ Fail(t)
    \/ t = SyncThread /\ (RefetchRollback \/ FinishSync)

\* A call that ends without a write returns, and writes nothing.
LEMMA EndsReturn ==
  ASSUME NEW t \in Threads, Ends(t)
  PROVE  /\ Return(t, TRUE) \/ Return(t, FALSE)
         /\ UNCHANGED <<serverVars, appVars, storeVars>>
  <1>1. UNCHANGED <<serverVars, appVars, storeVars>>
    BY DEF Ends, LoadNamespaceRollback, GetNamespaceItemsRollback, ScanItemsRollback,
           GetItemRollback, ApplyNotFound, Fail, RefetchRollback, FinishSync
  <1>2. ASSUME NEW k, Return(t, srvLog[k] # <<>>)
        PROVE  Return(t, TRUE) \/ Return(t, FALSE)
    <2>1. CASE srvLog[k] # <<>>
      BY <1>2, <2>1 DEF Return
    <2>2. CASE srvLog[k] = <<>>
      BY <1>2, <2>2 DEF Return
    <2> QED
      BY <2>1, <2>2
  <1>3. \A k \in Keys : GetItemRollback(t, k) => Return(t, TRUE) \/ Return(t, FALSE)
    BY <1>2 DEF GetItemRollback
  <1>4. t = SyncThread /\ RefetchRollback => Return(t, TRUE) \/ Return(t, FALSE)
    BY <1>2 DEF RefetchRollback
  <1> QED
    BY <1>1, <1>3, <1>4 DEF Ends, LoadNamespaceRollback, GetNamespaceItemsRollback,
           ScanItemsRollback, ApplyNotFound, Fail, FinishSync

\* A call that ends keeps the invariant: it gives up its locks and knows nothing.
LEMMA EndsStep ==
  ASSUME EngineInv, NEW t \in Threads, Ends(t)
  PROVE  EngineInv'
  <1>1. LogGrows
    BY EndsReturn DEF LogGrows, serverVars
  <1> QED
    BY <1>1, EndsReturn, ReturnStep DEF EngineInv, TypeOK, serverVars, appVars, storeVars

-----------------------------------------------------------------------------
(* The app, the other devices and restarts *)

\* A step outside the engine that saves no row leaves every call alone.
LEMMA OutsideStep ==
  ASSUME EngineInv, TypeOK', LogGrows, UNCHANGED <<storeVars, callVars>>
  PROVE  EngineInv'
  <1>1. items' = items /\ \A u \in Threads : Unmoved(u)
    BY DEF storeVars, callVars, itemVars, Unmoved
  <1> QED
    BY <1>1, EnvironmentStep

\* The active scope is only read.
LEMMA ScopeStepLemma ==
  ASSUME EngineInv, ScopeStep
  PROVE  EngineInv'
  <1>1. PICK s \in SUBSET Keys : OpenCollection(s) \/ ChangeScope(s)
    BY DEF ScopeStep
  <1>2. scope' = s /\ UNCHANGED <<serverVars, backend, storeVars, callVars>>
    BY <1>1 DEF OpenCollection, ChangeScope
  <1>3. TypeOK'
    BY <1>2 DEF EngineInv, TypeOK, Scopes, serverVars, storeVars, callVars, itemVars, pullVars, syncVars
  <1>4. LogGrows
    BY <1>2 DEF LogGrows, serverVars
  <1> QED
    BY <1>2, <1>3, <1>4, OutsideStep

\* The app's own storage may change at any time.
LEMMA AppStep ==
  ASSUME EngineInv, NEW k \in Keys, AppWrite(k) \/ AppDelete(k)
  PROVE  EngineInv'
  <1>0. TypeOK
    BY DEF EngineInv
  <1>1. PICK v \in OptValue : backend' = [backend EXCEPT ![k] = v]
    <2>1. backend[k] \in OptValue /\ NoValue \in OptValue
      BY <1>0 DEF TypeOK, OptValue
    <2>2. LocalEdits(backend[k]) \subseteq OptValue
      BY <2>1, EditAssumption DEF OptValue
    <2> QED
      BY <2>1, <2>2 DEF AppWrite, AppDelete
  <1>2. UNCHANGED <<serverVars, scope, storeVars, callVars>>
    BY DEF AppWrite, AppDelete
  <1>3. TypeOK'
    <2>1. backend' \in [Keys -> OptValue]
      BY <1>0, <1>1 DEF TypeOK
    <2> QED
      BY <1>0, <1>2, <2>1 DEF TypeOK, serverVars, storeVars, callVars, itemVars, pullVars, syncVars
  <1>4. LogGrows
    BY <1>2 DEF LogGrows, serverVars
  <1> QED
    BY <1>2, <1>3, <1>4, OutsideStep

\* Another device adds a version.
LEMMA RemoteWriteStep ==
  ASSUME EngineInv, NEW k \in Keys, RemoteWrite(k)
  PROVE  EngineInv'
  <1>0. TypeOK
    BY DEF EngineInv
  <1>1. Latest(k) \in OptValue
    <2>1. srvLog[k] \in Seq(Values)
      BY <1>0 DEF TypeOK
    <2>2. CASE srvLog[k] = <<>>
      BY <2>2 DEF Latest, OptValue
    <2>3. CASE srvLog[k] # <<>>
      BY <2>1, <2>3, LastIsVersion, VersionHasValue DEF Latest, OptValue
    <2> QED
      BY <2>2, <2>3
  <1>2. PICK v \in RemoteEdits(Latest(k)) :
           ServerWrite(k, v) /\ UNCHANGED <<appVars, storeVars, callVars>>
    BY DEF RemoteWrite
  <1>3. v \in Values
    BY <1>1, <1>2, EditAssumption
  <1>4. srvLog' \in [Keys -> Seq(Values)] /\ srvHead' \in Nat /\ LogGrows
    BY <1>0, <1>2, <1>3, ServerWriteGrows
  <1>5. TypeOK'
    BY <1>0, <1>2, <1>4 DEF TypeOK, appVars, storeVars, callVars, itemVars, pullVars, syncVars
  <1> QED
    BY <1>2, <1>4, <1>5, OutsideStep

\* A resolution saves a sound row, and only while nobody holds the key's lock.
LEMMA ResolveStepLemma ==
  ASSUME EngineInv, ResolveStep
  PROVE  EngineInv'
  <1>0. TypeOK /\ MergeBaseSound /\ NoThread \notin Threads
    BY ThreadAssumption DEF EngineInv
  <1>1. PICK k \in Keys :
          \/ ResolveConflictPreferLocal(k)
          \/ \E saved \in BOOLEAN :
               ResolveConflictWithValue(k, saved) \/ ResolveConflictPreferRemote(k, saved)
    BY DEF ResolveStep
  <1> DEFINE log == srvLog[k]
             item == items[k]
             remote == item.conflictRemoteValue
  <1>2. Resolvable(k) /\ UNCHANGED <<serverVars, scope, ns, callVars>>
    BY <1>1 DEF ResolveConflictPreferLocal, ResolveConflictWithValue, ResolveConflictPreferRemote, appVars
  <1>3. log \in Seq(Values) /\ item \in ItemState /\ RowSound(log, item) /\ backend[k] \in OptValue
    BY <1>0 DEF TypeOK, MergeBaseSound
  <1>4. IsVersion(log, item.conflictRemoteVersion, remote)
    BY <1>2, <1>3 DEF RowSound, Resolvable
  <1>5. item.conflictRemoteVersion \in Nat /\ remote \in Values
    BY <1>3, <1>4, VersionHasValue
  <1>6. /\ markItemDirty(clearItemConflict(item)) \in ItemState
        /\ RowSound(log, markItemDirty(clearItemConflict(item)))
    <2>1. clearItemConflict(item) \in ItemState /\ RowSound(log, clearItemConflict(item))
      BY <1>3, RowTypes, ClearSound, IdleTypes
    <2> QED
      BY <1>3, <2>1, RowTypes, DirtySound, IdleTypes
  <1>7. /\ markItemClean(item, item.conflictRemoteVersion, remote) \in ItemState
        /\ RowSound(log, markItemClean(item, item.conflictRemoteVersion, remote))
    BY <1>3, <1>4, <1>5, RowTypes, BaseSound DEF OptValue
  <1>8. items' = items \/ \E r \in ItemState : RowSound(log, r) /\ items' = [items EXCEPT ![k] = r]
    BY <1>0, <1>1, <1>6, <1>7
       DEF ResolveConflictPreferLocal, ResolveConflictWithValue, ResolveConflictPreferRemote
  <1>9. backend' = backend \/ \E v \in Values : backend' = [backend EXCEPT ![k] = v]
    <2>1. Resolutions(backend[k], remote) \subseteq Values
      BY <1>3, <1>5, EditAssumption
    <2> QED
      BY <1>1, <1>5, <2>1
         DEF ResolveConflictPreferLocal, ResolveConflictWithValue, ResolveConflictPreferRemote, appVars
  <1>10. TypeOK'
    <2>1. items' \in [Keys -> ItemState]
      BY <1>0, <1>8 DEF TypeOK
    <2>2. backend' \in [Keys -> OptValue]
      BY <1>0, <1>9 DEF TypeOK, OptValue
    <2> QED
      BY <1>0, <1>2, <2>1, <2>2 DEF TypeOK, serverVars, callVars, itemVars, pullVars, syncVars
  <1>11. LogGrows /\ srvLog' = srvLog
    BY <1>2 DEF LogGrows, serverVars
  <1>12. \A j \in Keys : items'[j] = items[j] \/ RowSound(srvLog'[j], items'[j])
    BY <1>0, <1>8, <1>11 DEF TypeOK
  <1>13. \A u \in Threads : Unmoved(u)
    <2>1. lock[k] = NoThread /\ UNCHANGED <<pc, lock, key, got, cur>>
      BY <1>2 DEF Resolvable, callVars, itemVars
    <2>2. \A j \in Keys : j # k => items'[j] = items[j]
      BY <1>0, <1>8 DEF TypeOK
    <2> QED
      BY <1>0, <2>1, <2>2 DEF Unmoved
  <1> QED
    BY <1>10, <1>11, <1>12, <1>13, EnvironmentStep

\* A fresh engine knows nothing, on whatever store it is opened.
LEMMA RestartStep ==
  ASSUME EngineInv, Restart, UNCHANGED <<serverVars, backend>>,
         items' = items \/ items' = [k \in Keys |-> NewItem],
         ns' \in NamespaceState
  PROVE  EngineInv'
  <1>0. TypeOK /\ MergeBaseSound
    BY DEF EngineInv
  <1>1. TypeOK'
    <2>1. items' \in [Keys -> ItemState]
      BY <1>0, IdleTypes DEF TypeOK
    <2>2. /\ scope' \in Scopes
          /\ lock' \in [Keys -> Threads \cup {NoThread}]
          /\ alarm' \subseteq Threads
          /\ pc' \in [Threads -> Labels]
          /\ todo' \in [Threads -> SUBSET Keys]
          /\ key' \in [Threads -> Keys \cup {NoKey}]
      BY IdleTypes DEF Restart, Labels
    <2>3. /\ rhead' \in [Threads -> Nat]
          /\ rver' \in [Threads -> [Keys -> Nat]]
          /\ got' \in [Threads -> [version : Nat, value : OptValue]]
          /\ cur' \in [Threads -> OptValue]
          /\ seen' \in [Threads -> Scopes]
          /\ nsl' \in [Threads -> NamespaceState]
          /\ snap' \in [Keys -> OptValue]
          /\ attempt' \in 0..2
      BY IdleTypes DEF Restart
    <2> QED
      BY <1>0, <2>1, <2>2, <2>3 DEF TypeOK, serverVars
  <1>2. LogGrows /\ srvLog' = srvLog
    BY DEF LogGrows, serverVars
  <1>3. \A k \in Keys : items'[k] = items[k] \/ RowSound(srvLog'[k], items'[k])
    <2>1. \A k \in Keys : RowSound(srvLog[k], NewItem)
      <3>1. \A k \in Keys : Len(srvLog[k]) \in Nat
        BY <1>0 DEF TypeOK
      <3> QED
        BY <3>1 DEF RowSound, NewItem, hasMergeBase
    <2> QED
      BY <1>2, <2>1
  <1>4. MergeBaseSound'
    BY <1>0, <1>2, <1>3, RowsSound
  <1>5. CallsSound'
    <2>1. \A u \in Threads : pc'[u] = "idle"
      BY DEF Restart
    <2> QED
      BY <2>1 DEF CallsSound, CallSound, Locked, Fetched
  <1> QED
    BY <1>1, <1>4, <1>5 DEF EngineInv

-----------------------------------------------------------------------------
(* Who runs what, when no ListNamespaces call overlaps *)

\* Only SyncNow pulls, and only the callers of JoinNamespace run its steps.
Roles ==
    /\ Listers = {} /\ pc \in [Threads -> Labels]
    /\ pc[SyncThread] # "join"
    /\ \A t \in Joiners : pc[t] \in {"idle", "join"}

\* What follows for a step.
LEMMA RoleOf ==
  ASSUME Roles, NEW t \in Threads
  PROVE  /\ SyncThread \in Threads
         /\ t # SyncThread => t \in Joiners
         /\ PullStep(t) => t = SyncThread
         /\ SaveJoined(t) \/ ReadJoined(t) => t # SyncThread
  <1>1. SyncThread \in Threads /\ SyncThread \notin Joiners /\ (t # SyncThread => t \in Joiners)
    BY ThreadAssumption DEF Roles, Threads
  <1>2. ASSUME PullStep(t), t # SyncThread PROVE FALSE
    <2>1. pc[t] \in {"idle", "join"} /\ t \notin Listers
      BY <1>1, <1>2 DEF Roles
    <2> QED
      BY <1>2, <2>1 DEF PullStep, ListRemote, LoadNamespace, LoadNamespaceRollback,
         GetNamespaceItems, GetNamespaceItemsRollback, ScanItems, ScanItemsRollback, GetItem,
         GetItemRollback, SkipApply, BeginApply, ApplyNotFound, SetIfCurrent, SaveItem,
         SaveCheckpoint
  <1>3. SaveJoined(t) \/ ReadJoined(t) => t # SyncThread
    BY <1>1 DEF SaveJoined, ReadJoined, Roles
  <1> QED
    BY <1>1, <1>2, <1>3

\* Every step keeps the roles, a restore of the server included.
LEMMA RolesNext == Roles /\ [Next \/ RollbackStep]_vars => Roles'
  <1> SUFFICES ASSUME Roles, [Next \/ RollbackStep]_vars PROVE Roles'
    OBVIOUS
  <1>1. ASSUME NEW t \in Threads, NEW label \in Labels, Goto(t, label),
               t = SyncThread => label # "join", t # SyncThread => label \in {"idle", "join"}
        PROVE  Roles'
    BY <1>1, ThreadAssumption DEF Roles, Goto, Threads
  <1>2. ASSUME NEW t \in Threads, PullStep(t) PROVE Roles'
    <2>1. t = SyncThread
      BY <1>2, RoleOf
    <2>2. CASE Ends(t)
      BY <1>1, <2>2, EndsReturn DEF Return, Labels
    <2>3. \E label \in Labels \ {"join"} : ~Ends(t) => Goto(t, label)
      BY <1>2, <2>1 DEF PullStep, Ends, ListRemote, LoadNamespace, GetNamespaceItems, ScanItems,
         GetItem, SkipApply, BeginApply, ReadForApply, SetIfCurrent, SaveItem, SaveCheckpoint,
         Return, Labels
    <2> QED
      BY <1>1, <2>1, <2>2, <2>3
  <1>3. CASE SyncStep
    <2>1. SyncThread \in Threads
      BY DEF Threads
    <2>2. CASE Ends(SyncThread)
      BY <1>1, <2>1, <2>2, EndsReturn DEF Return, Labels
    <2>3. pc' = pc \/ \E label \in Labels \ {"join"} : ~Ends(SyncThread) => Goto(SyncThread, label)
      BY <1>3 DEF SyncStep, Ends, TakeSnapshot, LoadSnapshotScope, ReconcileSnapshotValue,
         ListDirtyItems, LoadFlushCaches, SkipUpload, BeginUpload, PutAccepted, PutRefused,
         SaveUploadedItem, SaveUploadedHead, Refetch, BeginReapply, ReadForApply, RetryUpload,
         LeaveItem, Labels
    <2> QED
      BY <1>1, <2>1, <2>2, <2>3 DEF Roles
  <1>4. ASSUME NEW t \in Threads, ReadJoined(t) PROVE Roles'
    <2>1. t # SyncThread /\ Goto(t, "join")
      BY <1>4, RoleOf DEF ReadJoined
    <2> QED
      BY <1>1, <2>1 DEF Labels
  <1>5. ASSUME NEW t \in Threads, SaveJoined(t) \/ Fail(t) \/ (PutResponseLost /\ t = SyncThread)
        PROVE  Roles'
    BY <1>1, <1>5 DEF SaveJoined, Fail, PutResponseLost, Return, Labels
  <1>6. CASE Crash \/ ResetSyncState
    BY <1>6 DEF Crash, ResetSyncState, Restart, Roles, Threads, Labels
  <1>7. CASE \/ SaveDefaultNamespace \/ ResolveStep \/ ScopeStep \/ WriteStep \/ DeleteStep
             \/ RollbackStep \/ UNCHANGED vars
    <2>1. pc' = pc
      BY <1>7 DEF SaveDefaultNamespace, ResolveStep, ScopeStep, WriteStep, DeleteStep, RollbackStep,
         ResolveConflictWithValue, ResolveConflictPreferLocal, ResolveConflictPreferRemote,
         OpenCollection, ChangeScope, AppWrite, RemoteWrite, AppDelete, ServerRollback, callVars, vars
    <2> QED
      BY <2>1 DEF Roles
  <1>8. SyncThread \in Threads
    BY DEF Threads
  <1> QED
    BY <1>2, <1>3, <1>4, <1>5, <1>6, <1>7, <1>8 DEF Next, EngineStep, SetupStep, FaultStep

\* Nobody runs anything at first.
LEMMA RolesInit == Init /\ Listers = {} => Roles
  BY DEF Init, Roles, Threads, Labels

\* A step that moves no item, and nothing that SyncNow holds.
SyncStill ==
    /\ UNCHANGED <<srvLog, srvHead, items, backend, snap, attempt>>
    /\ pc'[SyncThread] = pc[SyncThread] /\ todo'[SyncThread] = todo[SyncThread]
    /\ key'[SyncThread] = key[SyncThread] /\ got'[SyncThread] = got[SyncThread]
    /\ cur'[SyncThread] = cur[SyncThread] /\ rhead'[SyncThread] = rhead[SyncThread]
    /\ rver'[SyncThread] = rver[SyncThread] /\ seen'[SyncThread] = seen[SyncThread]
    /\ nsl'[SyncThread] = nsl[SyncThread]

\* JoinNamespace moves nothing of SyncNow's, and DefaultNamespace only the stored row.
LEMMA SetupStill ==
  ASSUME TypeOK, Roles,
         \/ SetupStep
         \/ \E t \in Threads \ {SyncThread} : SaveJoined(t) \/ Fail(t)
  PROVE  SyncStill
  <1>1. ASSUME NEW t \in Threads, ReadJoined(t) PROVE SyncStill
    BY <1>1, RoleOf DEF SyncStill, ReadJoined, Goto, TypeOK, serverVars, appVars, storeVars, itemVars,
       syncVars
  <1>2. ASSUME NEW t \in Threads \ {SyncThread}, SaveJoined(t) \/ Fail(t) PROVE SyncStill
    <2>1. SyncThread \in Threads /\ t # SyncThread
      BY DEF Threads
    <2>2. Return(t, FALSE) /\ UNCHANGED <<srvLog, srvHead, items, backend>>
      BY <1>2 DEF SaveJoined, Fail, serverVars, appVars, storeVars
    <2>3. /\ pc'[SyncThread] = pc[SyncThread] /\ todo'[SyncThread] = todo[SyncThread]
          /\ UNCHANGED <<snap, attempt>>
      BY <2>1, <2>2 DEF Return, Goto, TypeOK
    <2>4. /\ key'[SyncThread] = key[SyncThread] /\ got'[SyncThread] = got[SyncThread]
          /\ cur'[SyncThread] = cur[SyncThread]
      BY <2>1, <2>2 DEF Return, DropItem, TypeOK
    <2>5. /\ rhead'[SyncThread] = rhead[SyncThread] /\ rver'[SyncThread] = rver[SyncThread]
          /\ seen'[SyncThread] = seen[SyncThread] /\ nsl'[SyncThread] = nsl[SyncThread]
      BY <2>1, <2>2 DEF Return, DropPull, TypeOK
    <2> QED
      BY <2>2, <2>3, <2>4, <2>5 DEF SyncStill
  <1>3. CASE SaveDefaultNamespace
    <2>1. /\ UNCHANGED <<srvLog, srvHead, items, backend, snap, attempt>>
          /\ UNCHANGED <<pc, todo, key, got, cur, rhead, rver, seen, nsl>>
      BY <1>3 DEF SaveDefaultNamespace, serverVars, appVars, itemVars, pullVars, syncVars
    <2> QED
      BY <2>1 DEF SyncStill
  <1> QED
    BY <1>1, <1>2, <1>3 DEF SetupStep

-----------------------------------------------------------------------------
(* The theorems *)

\* A fresh store, engine and server satisfy the invariant.
LEMMA InitLemma == Init => EngineInv
  <1> SUFFICES ASSUME Init PROVE EngineInv
    OBVIOUS
  <1>1. TypeOK
    <2>1. <<>> \in Seq(Values)
      OBVIOUS
    <2>2. /\ srvLog \in [Keys -> Seq(Values)] /\ srvHead \in Nat
          /\ backend \in [Keys -> OptValue] /\ scope \in Scopes
          /\ items \in [Keys -> ItemState] /\ ns \in NamespaceState
          /\ lock \in [Keys -> Threads \cup {NoThread}] /\ alarm \subseteq Threads
      BY <2>1, IdleTypes DEF Init
    <2>3. /\ pc \in [Threads -> Labels]
          /\ todo \in [Threads -> SUBSET Keys]
          /\ key \in [Threads -> Keys \cup {NoKey}]
      BY DEF Init, Labels
    <2>4. /\ rhead \in [Threads -> Nat]
          /\ rver \in [Threads -> [Keys -> Nat]]
          /\ got \in [Threads -> [version : Nat, value : OptValue]]
          /\ cur \in [Threads -> OptValue]
          /\ seen \in [Threads -> Scopes]
          /\ nsl \in [Threads -> NamespaceState]
          /\ snap \in [Keys -> OptValue]
          /\ attempt \in 0..2
      BY IdleTypes DEF Init
    <2> QED
      BY <2>2, <2>3, <2>4 DEF TypeOK
  <1>2. MergeBaseSound
    BY DEF Init, MergeBaseSound, RowSound, NewItem, hasMergeBase
  <1>3. CallsSound
    <2>1. \A u \in Threads : pc[u] = "idle"
      BY DEF Init
    <2> QED
      BY <2>1 DEF CallsSound, CallSound, Locked, Fetched
  <1> QED
    BY <1>1, <1>2, <1>3 DEF EngineInv

\* The pull phase keeps the invariant.
LEMMA PullStepLemma ==
  ASSUME EngineInv, NEW t \in Threads, PullStep(t)
  PROVE  EngineInv'
  <1>1. CASE Ends(t)
    BY <1>1, EndsStep
  <1>2. CASE ListRemote(t) \/ LoadNamespace(t) \/ GetNamespaceItems(t) \/ ScanItems(t)
    BY <1>2, ListRemoteStep, LoadNamespaceStep, GetNamespaceItemsStep, ScanItemsStep
  <1>3. CASE \E k \in Keys : GetItem(t, k)
    BY <1>3, GetItemStep
  <1>4. CASE SkipApply(t) \/ BeginApply(t) \/ SetIfCurrent(t) \/ SaveItem(t) \/ SaveCheckpoint(t)
    BY <1>4, SkipApplyStep, BeginApplyStep, SetIfCurrentStep, SaveItemStep, SaveCheckpointStep
  <1> QED
    BY <1>1, <1>2, <1>3, <1>4 DEF PullStep, Ends

\* The snapshot and push phases keep the invariant.
LEMMA SyncStepLemma ==
  ASSUME EngineInv, SyncStep
  PROVE  EngineInv'
  <1>1. CASE RefetchRollback \/ FinishSync
    <2>1. SyncThread \in Threads
      BY DEF Threads
    <2>2. Ends(SyncThread)
      BY <1>1 DEF Ends
    <2> QED
      BY <2>1, <2>2, EndsStep
  <1>2. CASE TakeSnapshot \/ LoadSnapshotScope \/ \E k \in Keys : ReconcileSnapshotValue(k)
    BY <1>2, TakeSnapshotStep, LoadSnapshotScopeStep, ReconcileSnapshotValueStep
  <1>3. CASE ListDirtyItems \/ LoadFlushCaches \/ \E k \in Keys : SkipUpload(k) \/ BeginUpload(k)
    BY <1>3, ListDirtyItemsStep, LoadFlushCachesStep, SkipUploadStep, BeginUploadStep
  <1>4. CASE PutAccepted \/ PutRefused \/ SaveUploadedItem \/ SaveUploadedHead
    BY <1>4, PutAcceptedStep, PutRefusedStep, SaveUploadedItemStep, SaveUploadedHeadStep
  <1>5. CASE Refetch \/ BeginReapply \/ RetryUpload \/ LeaveItem
    BY <1>5, RefetchStep, BeginReapplyStep, RetryUploadStep, LeaveItemStep
  <1> QED
    BY <1>1, <1>2, <1>3, <1>4, <1>5 DEF SyncStep

\* Lost responses, errors, crashes and resets keep the invariant.
LEMMA FaultStepLemma ==
  ASSUME EngineInv, FaultStep \/ ResetSyncState
  PROVE  EngineInv'
  <1>1. CASE PutResponseLost
    BY <1>1, PutResponseLostStep
  <1>2. CASE \E t \in Threads : Fail(t)
    BY <1>2, EndsStep DEF Ends
  <1>3. CASE Crash
    BY <1>3, RestartStep DEF Crash, EngineInv, TypeOK, storeVars
  <1>4. CASE ResetSyncState
    BY <1>4, RestartStep, IdleTypes DEF ResetSyncState
  <1> QED
    BY <1>1, <1>2, <1>3, <1>4 DEF FaultStep

\* Every step keeps the invariant.
LEMMA NextLemma == EngineInv /\ [Next]_vars => EngineInv'
  <1> SUFFICES ASSUME EngineInv, [Next]_vars PROVE EngineInv'
    OBVIOUS
  <1>1. CASE EngineStep \/ SetupStep
    BY <1>1, PullStepLemma, SyncStepLemma, ReadJoinedStep, SaveNamespaceStep
    DEF EngineStep, SetupStep
  <1>2. CASE FaultStep \/ ResetSyncState
    BY <1>2, FaultStepLemma
  <1>3. CASE ResolveStep \/ ScopeStep
    BY <1>3, ResolveStepLemma, ScopeStepLemma
  <1>4. CASE WriteStep \/ DeleteStep
    BY <1>4, AppStep, RemoteWriteStep DEF WriteStep, DeleteStep
  <1>5. CASE UNCHANGED vars
    <2>1. UNCHANGED <<serverVars, appVars, storeVars, callVars>>
      BY <1>5 DEF vars, callVars
    <2>2. TypeOK'
      BY <2>1 DEF EngineInv, TypeOK, serverVars, appVars, storeVars, callVars, itemVars,
                  pullVars, syncVars
    <2>3. LogGrows
      BY <2>1 DEF LogGrows, serverVars
    <2> QED
      BY <2>1, <2>2, <2>3, OutsideStep
  <1> QED
    BY <1>1, <1>2, <1>3, <1>4, <1>5 DEF Next

\* Every reachable state of the engine, its store, the app and the server has
\* the types of TypeOK, and every row and call in progress is sound.
THEOREM EngineInvariant == Spec => []EngineInv
  BY InitLemma, NextLemma, PTL DEF Spec

\* Type correctness, for any number of keys and concurrent ListNamespaces calls.
THEOREM TypeCorrectness == Spec => []TypeOK
  <1>1. EngineInv => TypeOK
    BY DEF EngineInv
  <1> QED
    BY <1>1, EngineInvariant, PTL

\* Whatever the interleaving of syncs, listings, app writes, foreign writes,
\* lost responses, crashes and resolutions, applyRemoteValueLocked always hands
\* the merge function a base the server accepted as BaseVersion, and the value
\* a conflict resolution takes is one the server accepted.
THEOREM MergeBaseSoundness == Spec => []MergeBaseSound
  <1>1. EngineInv => MergeBaseSound
    BY DEF EngineInv
  <1> QED
    BY <1>1, EngineInvariant, PTL
=============================================================================

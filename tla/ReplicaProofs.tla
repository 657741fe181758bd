----------------------------- MODULE ReplicaProofs -----------------------------
(***************************************************************************)
(* SyncEngine implements ReplicatedItems, for every set of keys, values    *)
(* and concurrent callers, every merge function and every backend.         *)
(*                                                                         *)
(* The steps that save a row must be steps of a replica, so the row must   *)
(* still be as it was when the step was decided on.  CallFresh says what   *)
(* each call still knows of its row; it rests on the logical-key lock.     *)
(***************************************************************************)
EXTENDS SyncEngineProofs

\* Labels at which a call relies on what it saw of its row.
Relying == {"refetch", "reapply", "set", "save", "put", "saveUpload"}

CallFresh(t) ==
    /\ pc[t] \in {"reapply", "set", "save"} => items[key[t]].version < got[t].version
    /\ pc[t] = "refetch" => items[key[t]].version < Len(srvLog[key[t]])
    /\ pc[t] \in {"put", "saveUpload"} => items[key[t]].dirty /\ ~items[key[t]].conflict

CallsFresh == \A t \in Threads : CallFresh(t)

\* The inductive invariant.
FreshInv == EngineInv /\ CallsFresh

\* A step of the engine is a step of the replicas or leaves them alone.
ReplicaStep == Replica!Next \/ UNCHANGED <<srvLog, Rows, Sent>>

-----------------------------------------------------------------------------
(* Frames *)

\* A call's row is as it saw it after a step of somebody else.
LEMMA UnmovedFresh ==
  ASSUME EngineInv, NEW u \in Threads, CallFresh(u), Unmoved(u), LogGrows
  PROVE  CallFresh(u)'
  <1>1. TypeOK /\ CallSound(u)
    BY DEF EngineInv, CallsSound
  <1>2. pc[u] \in Relying => key[u] \in Keys /\ items'[key[u]] = items[key[u]]
    BY <1>1 DEF CallSound, Unmoved, Locked, Relying
  <1>3. \A k \in Keys : Len(srvLog[k]) \in Nat /\ items[k].version \in Nat
    BY <1>1 DEF TypeOK, ItemState
  <1>4. \A k \in Keys : Len(srvLog'[k]) >= Len(srvLog[k])
    <2>1. \A k \in Keys : srvLog[k] \in Seq(Values)
      BY <1>1 DEF TypeOK
    <2> QED
      BY <2>1, <1>3 DEF LogGrows
  <1>5. pc[u] = "refetch" => items'[key[u]].version < Len(srvLog'[key[u]])
    <2> SUFFICES ASSUME pc[u] = "refetch"
                 PROVE  items'[key[u]].version < Len(srvLog'[key[u]])
      OBVIOUS
    <2>1. key[u] \in Keys /\ items'[key[u]] = items[key[u]]
      BY <1>2 DEF Relying
    <2>2. items[key[u]].version < Len(srvLog[key[u]])
      BY DEF CallFresh
    <2>3. Len(srvLog'[key[u]]) \in Nat
      BY <1>1, <2>1 DEF LogGrows, TypeOK
    <2> QED
      BY <1>3, <1>4, <2>1, <2>2, <2>3
  <1> QED
    BY <1>2, <1>5 DEF CallFresh, Unmoved, Relying

\* A step of call t keeps what the calls rely on if it leaves the others alone.
LEMMA FreshStep ==
  ASSUME FreshInv, NEW t \in Threads, LogGrows, CallFresh(t)',
         \A u \in Threads \ {t} : Unmoved(u)
  PROVE  CallsFresh'
  <1>1. \A u \in Threads \ {t} : CallFresh(u)'
    BY UnmovedFresh DEF FreshInv, CallsFresh
  <1> QED
    BY <1>1 DEF CallsFresh

\* A row is at an upload that is not recorded yet only while SyncNow holds its lock.
LEMMA SentIsLocked ==
  ASSUME EngineInv, NEW k \in Keys, Sent = k
  PROVE  pc[SyncThread] = "saveUpload" /\ key[SyncThread] = k /\ lock[k] = SyncThread
  <1>1. SyncThread \in Threads /\ NoKey \notin Keys
    BY KeyAssumption DEF Threads
  <1> QED
    BY <1>1 DEF EngineInv, CallsSound, CallSound, Locked, Sent

\* A step of another caller leaves the upload of SyncNow where it is.
LEMMA SentUnmoved ==
  ASSUME Unmoved(SyncThread)
  PROVE  Sent' = Sent
  BY DEF Unmoved, Sent

\* A step that saves nothing, and whose caller relies on no row after it, at most
\* gives up an upload.
LEMMA QuietStep ==
  ASSUME FreshInv, NEW t \in Threads, srvLog' = srvLog, items' = items,
         pc'[t] \notin Relying, \A u \in Threads \ {t} : Unmoved(u)
  PROVE  CallsFresh' /\ ReplicaStep
  <1>1. CallsFresh'
    <2>1. CallFresh(t)'
      BY DEF CallFresh, Relying
    <2>2. LogGrows
      BY DEF LogGrows
    <2> QED
      BY <2>1, <2>2, FreshStep
  <1>2. Rows' = Rows
    BY DEF Rows
  <1>3. Sent' = Sent \/ Sent' = NoKey
    <2>1. CASE t = SyncThread
      BY <2>1 DEF Sent, Relying
    <2>2. CASE t # SyncThread
      BY <2>2, SentUnmoved DEF Threads
    <2> QED
      BY <2>1, <2>2
  <1>4. ReplicaStep
    BY <1>2, <1>3 DEF ReplicaStep, Replica!Next, Replica!Forget
  <1> QED
    BY <1>1, <1>4

\* Saving the row of one item changes the row of that replica.
LEMMA SavedRow ==
  ASSUME TypeOK, NEW k \in Keys, NEW row, items' = [items EXCEPT ![k] = row]
  PROVE  Rows' = [Rows EXCEPT ![k] = ReplicaRow(row)]
  BY DEF TypeOK, Rows
-----------------------------------------------------------------------------
(* Steps that save no row *)

\* A call that returns gives up an upload at most.
LEMMA ReturnQuiet ==
  ASSUME FreshInv, NEW t \in Threads, Return(t, TRUE) \/ Return(t, FALSE),
         srvLog' = srvLog, items' = items
  PROVE  CallsFresh' /\ ReplicaStep
  <1>1. TypeOK
    BY DEF FreshInv, EngineInv
  <1>2. pc'[t] \notin Relying
    BY <1>1 DEF TypeOK, Return, Goto, Relying
  <1>3. \A u \in Threads \ {t} : Unmoved(u)
    BY <1>1 DEF TypeOK, Return, Goto, Release, DropItem, Unmoved
  <1> QED
    BY <1>2, <1>3, QuietStep

\* The snapshot is only read.
LEMMA TakeSnapshotQuiet ==
  ASSUME FreshInv, TakeSnapshot
  PROVE  CallsFresh' /\ ReplicaStep
  <1>1. SyncThread \in Threads /\ TypeOK
    BY DEF Threads, FreshInv, EngineInv
  <1>2. srvLog' = srvLog /\ items' = items /\ pc'[SyncThread] \notin Relying
    BY <1>1 DEF TypeOK, TakeSnapshot, Goto, Relying, serverVars, storeVars
  <1>3. \A u \in Threads \ {SyncThread} : Unmoved(u)
    BY <1>1, <1>2 DEF TypeOK, TakeSnapshot, Goto, Unmoved, itemVars
  <1> QED
    BY <1>1, <1>2, <1>3, QuietStep

\* The scope is only read.
LEMMA LoadSnapshotScopeQuiet ==
  ASSUME FreshInv, LoadSnapshotScope
  PROVE  CallsFresh' /\ ReplicaStep
  <1>1. SyncThread \in Threads /\ TypeOK
    BY DEF Threads, FreshInv, EngineInv
  <1>2. srvLog' = srvLog /\ items' = items /\ pc'[SyncThread] \notin Relying
    BY <1>1 DEF TypeOK, LoadSnapshotScope, Goto, Relying, serverVars, storeVars
  <1>3. \A u \in Threads \ {SyncThread} : Unmoved(u)
    BY <1>1, <1>2 DEF TypeOK, LoadSnapshotScope, Goto, Unmoved, itemVars
  <1> QED
    BY <1>1, <1>2, <1>3, QuietStep

\* The dirty rows are only listed.
LEMMA ListDirtyItemsQuiet ==
  ASSUME FreshInv, ListDirtyItems
  PROVE  CallsFresh' /\ ReplicaStep
  <1>1. SyncThread \in Threads /\ TypeOK
    BY DEF Threads, FreshInv, EngineInv
  <1>2. srvLog' = srvLog /\ items' = items /\ pc'[SyncThread] \notin Relying
    BY <1>1 DEF TypeOK, ListDirtyItems, Goto, Relying, serverVars, storeVars
  <1>3. \A u \in Threads \ {SyncThread} : Unmoved(u)
    BY <1>1, <1>2 DEF TypeOK, ListDirtyItems, Goto, Unmoved, itemVars
  <1> QED
    BY <1>1, <1>2, <1>3, QuietStep

\* The caches of the flush are only filled.
LEMMA LoadFlushCachesQuiet ==
  ASSUME FreshInv, LoadFlushCaches
  PROVE  CallsFresh' /\ ReplicaStep
  <1>1. SyncThread \in Threads /\ TypeOK
    BY DEF Threads, FreshInv, EngineInv
  <1>2. srvLog' = srvLog /\ items' = items /\ pc'[SyncThread] \notin Relying
    BY <1>1 DEF TypeOK, LoadFlushCaches, Goto, Relying, serverVars, storeVars
  <1>3. \A u \in Threads \ {SyncThread} : Unmoved(u)
    BY <1>1, <1>2 DEF TypeOK, LoadFlushCaches, Goto, Unmoved, itemVars
  <1> QED
    BY <1>1, <1>2, <1>3, QuietStep

\* An item that needs no upload is left alone.
LEMMA SkipUploadQuiet ==
  ASSUME FreshInv, NEW k \in Keys, SkipUpload(k)
  PROVE  CallsFresh' /\ ReplicaStep
  <1>1. SyncThread \in Threads /\ TypeOK
    BY DEF Threads, FreshInv, EngineInv
  <1>2. srvLog' = srvLog /\ items' = items /\ pc'[SyncThread] \notin Relying
    BY <1>1 DEF TypeOK, SkipUpload, Goto, Relying, serverVars, storeVars
  <1>3. \A u \in Threads \ {SyncThread} : Unmoved(u)
    BY <1>1, <1>2 DEF TypeOK, SkipUpload, Goto, Unmoved, itemVars
  <1> QED
    BY <1>1, <1>2, <1>3, QuietStep

\* The head is saved after the row; the item is finished.
LEMMA SaveUploadedHeadQuiet ==
  ASSUME FreshInv, SaveUploadedHead
  PROVE  CallsFresh' /\ ReplicaStep
  <1>1. SyncThread \in Threads /\ TypeOK
    BY DEF Threads, FreshInv, EngineInv
  <1>2. srvLog' = srvLog /\ items' = items /\ pc'[SyncThread] \notin Relying
    BY <1>1 DEF TypeOK, SaveUploadedHead, Goto, Relying, serverVars, storeVars
  <1>3. \A u \in Threads \ {SyncThread} : Unmoved(u)
    BY <1>1, <1>2 DEF TypeOK, SaveUploadedHead, Goto, Unmoved, Release, DropItem, itemVars
  <1> QED
    BY <1>1, <1>2, <1>3, QuietStep

\* The item is finished after its retry.
LEMMA LeaveItemQuiet ==
  ASSUME FreshInv, LeaveItem
  PROVE  CallsFresh' /\ ReplicaStep
  <1>1. SyncThread \in Threads /\ TypeOK
    BY DEF Threads, FreshInv, EngineInv
  <1>2. srvLog' = srvLog /\ items' = items /\ pc'[SyncThread] \notin Relying
    BY <1>1 DEF TypeOK, LeaveItem, Goto, Relying, serverVars, storeVars
  <1>3. \A u \in Threads \ {SyncThread} : Unmoved(u)
    BY <1>1, <1>2 DEF TypeOK, LeaveItem, Goto, Unmoved, Release, DropItem, itemVars
  <1> QED
    BY <1>1, <1>2, <1>3, QuietStep

\* The namespace listing is only read.
LEMMA ListRemoteQuiet ==
  ASSUME FreshInv, NEW t \in Threads, ListRemote(t)
  PROVE  CallsFresh' /\ ReplicaStep
  <1>1. t \in Threads /\ TypeOK
    BY DEF Threads, FreshInv, EngineInv
  <1>2. srvLog' = srvLog /\ items' = items /\ pc'[t] \notin Relying
    BY <1>1 DEF TypeOK, ListRemote, Goto, Relying, serverVars, storeVars
  <1>3. \A u \in Threads \ {t} : Unmoved(u)
    BY <1>1, <1>2 DEF TypeOK, ListRemote, Goto, Unmoved, itemVars
  <1> QED
    BY <1>1, <1>2, <1>3, QuietStep

\* The stored namespace and the scope are only read.
LEMMA LoadNamespaceQuiet ==
  ASSUME FreshInv, NEW t \in Threads, LoadNamespace(t)
  PROVE  CallsFresh' /\ ReplicaStep
  <1>1. t \in Threads /\ TypeOK
    BY DEF Threads, FreshInv, EngineInv
  <1>2. srvLog' = srvLog /\ items' = items /\ pc'[t] \notin Relying
    BY <1>1 DEF TypeOK, LoadNamespace, Goto, Relying, serverVars, storeVars
  <1>3. \A u \in Threads \ {t} : Unmoved(u)
    BY <1>1, <1>2 DEF TypeOK, LoadNamespace, Goto, Unmoved, itemVars
  <1> QED
    BY <1>1, <1>2, <1>3, QuietStep

\* The item listing is only read.
LEMMA GetNamespaceItemsQuiet ==
  ASSUME FreshInv, NEW t \in Threads, GetNamespaceItems(t)
  PROVE  CallsFresh' /\ ReplicaStep
  <1>1. t \in Threads /\ TypeOK
    BY DEF Threads, FreshInv, EngineInv
  <1>2. srvLog' = srvLog /\ items' = items /\ pc'[t] \notin Relying
    BY <1>1 DEF TypeOK, GetNamespaceItems, Goto, Relying, serverVars, storeVars
  <1>3. \A u \in Threads \ {t} : Unmoved(u)
    BY <1>1, <1>2 DEF TypeOK, GetNamespaceItems, Goto, Unmoved, itemVars
  <1> QED
    BY <1>1, <1>2, <1>3, QuietStep

\* The stored rows are only read.
LEMMA ScanItemsQuiet ==
  ASSUME FreshInv, NEW t \in Threads, ScanItems(t)
  PROVE  CallsFresh' /\ ReplicaStep
  <1>1. t \in Threads /\ TypeOK
    BY DEF Threads, FreshInv, EngineInv
  <1>2. srvLog' = srvLog /\ items' = items /\ pc'[t] \notin Relying
    BY <1>1 DEF TypeOK, ScanItems, Goto, Relying, serverVars, storeVars
  <1>3. \A u \in Threads \ {t} : Unmoved(u)
    BY <1>1, <1>2 DEF TypeOK, ScanItems, Goto, Unmoved, itemVars
  <1> QED
    BY <1>1, <1>2, <1>3, QuietStep

\* An item is fetched without its lock; its row is read again under it.
LEMMA GetItemQuiet ==
  ASSUME FreshInv, NEW t \in Threads, NEW k \in Keys, GetItem(t, k)
  PROVE  CallsFresh' /\ ReplicaStep
  <1>1. t \in Threads /\ TypeOK
    BY DEF Threads, FreshInv, EngineInv
  <1>2. srvLog' = srvLog /\ items' = items /\ pc'[t] \notin Relying
    BY <1>1 DEF TypeOK, GetItem, Goto, Relying, serverVars, storeVars
  <1>3. \A u \in Threads \ {t} : Unmoved(u)
    BY <1>1, <1>2 DEF TypeOK, GetItem, Goto, Unmoved, itemVars
  <1> QED
    BY <1>1, <1>2, <1>3, QuietStep

\* A row that caught up is left alone.
LEMMA SkipApplyQuiet ==
  ASSUME FreshInv, NEW t \in Threads, SkipApply(t)
  PROVE  CallsFresh' /\ ReplicaStep
  <1>1. t \in Threads /\ TypeOK
    BY DEF Threads, FreshInv, EngineInv
  <1>2. srvLog' = srvLog /\ items' = items /\ pc'[t] \notin Relying
    BY <1>1 DEF TypeOK, SkipApply, Goto, Relying, serverVars, storeVars
  <1>3. \A u \in Threads \ {t} : Unmoved(u)
    BY <1>1, <1>2 DEF TypeOK, SkipApply, Goto, Unmoved, DropItem, itemVars
  <1> QED
    BY <1>1, <1>2, <1>3, QuietStep

\* Calls that end before they save anything, whether with an error or not.
LEMMA EndsQuiet ==
  ASSUME FreshInv, NEW t \in Threads, Ends(t)
  PROVE  CallsFresh' /\ ReplicaStep
  <1>1. Return(t, TRUE) \/ Return(t, FALSE)
    BY DEF Ends, LoadNamespaceRollback, GetNamespaceItemsRollback, ScanItemsRollback,
           GetItemRollback, ApplyNotFound, RefetchRollback, FinishSync, Fail
  <1>2. srvLog' = srvLog /\ items' = items
    BY DEF Ends, LoadNamespaceRollback, GetNamespaceItemsRollback, ScanItemsRollback,
           GetItemRollback, ApplyNotFound, RefetchRollback, FinishSync, Fail, serverVars, storeVars
  <1> QED
    BY <1>1, <1>2, ReturnQuiet

\* The checkpoint saves the namespace, not a row.
LEMMA SaveCheckpointQuiet ==
  ASSUME FreshInv, NEW t \in Threads, SaveCheckpoint(t)
  PROVE  CallsFresh' /\ ReplicaStep
  <1>1. TypeOK /\ srvLog' = srvLog /\ items' = items
    BY DEF FreshInv, EngineInv, SaveCheckpoint, serverVars
  <1>2. CASE t # SyncThread
    BY <1>1, <1>2, ReturnQuiet DEF SaveCheckpoint
  <1>3. CASE t = SyncThread
    <2>1. pc'[t] \notin Relying
      BY <1>1, <1>3 DEF TypeOK, SaveCheckpoint, Goto, Relying
    <2>2. \A u \in Threads \ {t} : Unmoved(u)
      BY <1>1, <1>3 DEF TypeOK, SaveCheckpoint, Goto, Unmoved, itemVars
    <2> QED
      BY <1>1, <2>1, <2>2, QuietStep
  <1> QED
    BY <1>2, <1>3

-----------------------------------------------------------------------------
(* The read of a row, and the decision about it *)

\* A step that saves nothing and leaves the upload alone is no step of a replica.
LEMMA ReadStep ==
  ASSUME FreshInv, NEW t \in Threads, srvLog' = srvLog, items' = items, Sent' = Sent,
         CallFresh(t)', \A u \in Threads \ {t} : Unmoved(u)
  PROVE  CallsFresh' /\ ReplicaStep
  <1>1. LogGrows
    BY DEF LogGrows
  <1>2. Rows' = Rows
    BY DEF Rows
  <1> QED
    BY <1>1, <1>2, FreshStep DEF ReplicaStep

\* The pull starts to apply an item once its row, read again, is behind.
LEMMA BeginApplyFresh ==
  ASSUME FreshInv, NEW t \in Threads, BeginApply(t)
  PROVE  CallsFresh' /\ ReplicaStep
  <1>1. TypeOK /\ CallSound(t) /\ NoThread \notin Threads
    BY ThreadAssumption DEF FreshInv, EngineInv, CallsSound
  <1>2. key[t] \in Keys
    BY <1>1 DEF CallSound, BeginApply, Fetched
  <1>3. srvLog' = srvLog /\ items' = items /\ key' = key /\ got' = got
    BY DEF BeginApply, serverVars, storeVars
  <1>4. pc'[t] \in {"set", "save"} /\ pc[t] = "apply"
    BY <1>1 DEF TypeOK, BeginApply, Goto, ReadForApply
  <1>5. \A u \in Threads \ {t} : Unmoved(u)
    BY <1>1, <1>2, <1>3 DEF TypeOK, BeginApply, Acquire, Goto, Unmoved
  <1>6. CallFresh(t)'
    BY <1>3, <1>4 DEF CallFresh, BeginApply
  <1>7. Sent' = Sent
    <2>1. CASE t = SyncThread
      BY <1>4, <2>1 DEF Sent
    <2>2. CASE t # SyncThread
      BY <1>5, <2>2, SentUnmoved DEF Threads
    <2> QED
      BY <2>1, <2>2
  <1> QED
    BY <1>3, <1>5, <1>6, <1>7, ReadStep

\* The write of the app's storage leaves the row for the save.
LEMMA SetIfCurrentFresh ==
  ASSUME FreshInv, NEW t \in Threads, SetIfCurrent(t)
  PROVE  CallsFresh' /\ ReplicaStep
  <1>1. TypeOK /\ CallFresh(t)
    BY DEF FreshInv, EngineInv, CallsFresh
  <1>2. srvLog' = srvLog /\ items' = items /\ key' = key /\ got' = got
    BY DEF SetIfCurrent, serverVars, storeVars, itemVars
  <1>3. pc'[t] \in {"save", "saveRaced"} /\ pc[t] = "set"
    BY <1>1 DEF TypeOK, SetIfCurrent, Goto
  <1>4. \A u \in Threads \ {t} : Unmoved(u)
    BY <1>1, <1>2 DEF TypeOK, SetIfCurrent, Goto, Unmoved, itemVars
  <1>5. CallFresh(t)'
    BY <1>1, <1>2, <1>3 DEF CallFresh
  <1>6. Sent' = Sent
    <2>1. CASE t = SyncThread
      BY <1>3, <2>1 DEF Sent
    <2>2. CASE t # SyncThread
      BY <1>4, <2>2, SentUnmoved DEF Threads
    <2> QED
      BY <2>1, <2>2
  <1> QED
    BY <1>2, <1>4, <1>5, <1>6, ReadStep

\* A row is uploaded when it is dirty and not in conflict.
LEMMA BeginUploadFresh ==
  ASSUME FreshInv, NEW k \in Keys, BeginUpload(k)
  PROVE  CallsFresh' /\ ReplicaStep
  <1> DEFINE t == SyncThread
  <1>1. t \in Threads /\ TypeOK /\ CallSound(t) /\ CallFresh(t) /\ MergeBaseSound
    BY DEF Threads, FreshInv, EngineInv, CallsSound, CallsFresh
  <1>2. srvLog' = srvLog /\ items' = items
    BY DEF BeginUpload, serverVars, storeVars
  <1>3. pc[t] = "flushItem" /\ pc'[t] = "put" /\ key'[t] = k
    BY <1>1 DEF TypeOK, BeginUpload, Goto
  <1>4. \A u \in Threads \ {t} : Unmoved(u)
    <2>1. NoThread \notin Threads
      BY ThreadAssumption
    <2> QED
      BY <1>1, <1>2, <2>1 DEF TypeOK, BeginUpload, Acquire, Goto, Unmoved
  <1>5. CallFresh(t)'
    BY <1>2, <1>3 DEF CallFresh, BeginUpload, NeedsUpload
  <1>6. Sent' = Sent
    BY <1>3 DEF Sent
  <1> QED
    BY <1>1, <1>2, <1>4, <1>5, <1>6, ReadStep

\* An upload is refused when the row is behind the server.
LEMMA PutRefusedFresh ==
  ASSUME FreshInv, PutRefused
  PROVE  CallsFresh' /\ ReplicaStep
  <1> DEFINE t == SyncThread
  <1>1. t \in Threads /\ TypeOK /\ CallSound(t) /\ CallFresh(t) /\ MergeBaseSound
    BY DEF Threads, FreshInv, EngineInv, CallsSound, CallsFresh
  <1>2. srvLog' = srvLog /\ items' = items
    BY DEF PutRefused, serverVars, storeVars
  <1>3. pc[t] = "put" /\ pc'[t] = "refetch" /\ key' = key
    BY <1>1 DEF TypeOK, PutRefused, Goto, itemVars
  <1>4. \A u \in Threads \ {t} : Unmoved(u)
    BY <1>1, <1>2 DEF TypeOK, PutRefused, Goto, Unmoved, itemVars
  <1>5. CallFresh(t)'
    <2>1. key[t] \in Keys
      BY <1>1, <1>3 DEF CallSound, Locked
    <2>2. items[key[t]].version <= Len(srvLog[key[t]]) /\ items[key[t]].version # Len(srvLog[key[t]])
      BY <1>1, <2>1 DEF MergeBaseSound, RowSound, PutRefused, Accepts
    <2>3. items[key[t]].version \in Nat /\ Len(srvLog[key[t]]) \in Nat
      BY <1>1, <2>1 DEF TypeOK, ItemState
    <2>4. items[key[t]].version < Len(srvLog[key[t]])
      BY <2>2, <2>3
    <2> QED
      BY <1>2, <1>3, <2>4 DEF CallFresh
  <1>6. Sent' = Sent
    BY <1>3 DEF Sent
  <1> QED
    BY <1>1, <1>2, <1>4, <1>5, <1>6, ReadStep

\* What is fetched after a refusal is newer than the row.
LEMMA RefetchFresh ==
  ASSUME FreshInv, Refetch
  PROVE  CallsFresh' /\ ReplicaStep
  <1> DEFINE t == SyncThread
  <1>1. t \in Threads /\ TypeOK /\ CallSound(t) /\ CallFresh(t) /\ MergeBaseSound
    BY DEF Threads, FreshInv, EngineInv, CallsSound, CallsFresh
  <1>2. srvLog' = srvLog /\ items' = items
    BY DEF Refetch, serverVars, storeVars
  <1>3. pc[t] = "refetch" /\ pc'[t] = "reapply" /\ key' = key
        /\ got'[t].version = Len(srvLog[key[t]])
    BY <1>1 DEF TypeOK, Refetch, Goto
  <1>4. \A u \in Threads \ {t} : Unmoved(u)
    BY <1>1, <1>2 DEF TypeOK, Refetch, Goto, Unmoved
  <1>5. CallFresh(t)'
    BY <1>1, <1>2, <1>3 DEF CallFresh
  <1>6. Sent' = Sent
    BY <1>3 DEF Sent
  <1> QED
    BY <1>1, <1>2, <1>4, <1>5, <1>6, ReadStep

\* It is applied to the row that was refused.
LEMMA BeginReapplyFresh ==
  ASSUME FreshInv, BeginReapply
  PROVE  CallsFresh' /\ ReplicaStep
  <1> DEFINE t == SyncThread
  <1>1. t \in Threads /\ TypeOK /\ CallSound(t) /\ CallFresh(t) /\ MergeBaseSound
    BY DEF Threads, FreshInv, EngineInv, CallsSound, CallsFresh
  <1>2. srvLog' = srvLog /\ items' = items
    BY DEF BeginReapply, serverVars, storeVars
  <1>3. pc[t] = "reapply" /\ pc'[t] \in {"set", "save"} /\ key' = key /\ got' = got
    BY <1>1 DEF TypeOK, BeginReapply, Goto, ReadForApply
  <1>4. \A u \in Threads \ {t} : Unmoved(u)
    BY <1>1, <1>2 DEF TypeOK, BeginReapply, Goto, Unmoved
  <1>5. CallFresh(t)'
    BY <1>1, <1>2, <1>3 DEF CallFresh
  <1>6. Sent' = Sent
    BY <1>3 DEF Sent
  <1> QED
    BY <1>1, <1>2, <1>4, <1>5, <1>6, ReadStep

\* The row is uploaded once more when it is still dirty and not in conflict.
LEMMA RetryUploadFresh ==
  ASSUME FreshInv, RetryUpload
  PROVE  CallsFresh' /\ ReplicaStep
  <1> DEFINE t == SyncThread
  <1>1. t \in Threads /\ TypeOK /\ CallSound(t) /\ CallFresh(t) /\ MergeBaseSound
    BY DEF Threads, FreshInv, EngineInv, CallsSound, CallsFresh
  <1>2. srvLog' = srvLog /\ items' = items
    BY DEF RetryUpload, serverVars, storeVars
  <1>3. pc[t] = "retry" /\ pc'[t] = "put" /\ key' = key
    BY <1>1 DEF TypeOK, RetryUpload, Goto
  <1>4. \A u \in Threads \ {t} : Unmoved(u)
    BY <1>1, <1>2 DEF TypeOK, RetryUpload, Goto, Unmoved
  <1>5. CallFresh(t)'
    BY <1>2, <1>3 DEF CallFresh, RetryUpload, NeedsUpload
  <1>6. Sent' = Sent
    BY <1>3 DEF Sent
  <1> QED
    BY <1>1, <1>2, <1>4, <1>5, <1>6, ReadStep

-----------------------------------------------------------------------------
(* Steps that save a row or write the server *)

\* The snapshot of an item that is not what was synced last makes its row dirty.
LEMMA ReconcileSnapshotValueReplica ==
  ASSUME FreshInv, NEW k \in Keys, ReconcileSnapshotValue(k)
  PROVE  CallsFresh' /\ ReplicaStep
  <1> DEFINE t == SyncThread
             row == ReconciledItem(items[k], snap[k])
  <1>1. t \in Threads /\ TypeOK /\ NoThread \notin Threads /\ NoKey \notin Keys
    BY ThreadAssumption, KeyAssumption DEF Threads, FreshInv, EngineInv
  <1>2. /\ srvLog' = srvLog /\ items' = [items EXCEPT ![k] = row] /\ lock[k] = NoThread
        /\ UNCHANGED <<pc, lock, key, got, cur>> /\ pc[t] = "reconcile"
    BY DEF ReconcileSnapshotValue, serverVars, itemVars
  <1> HIDE DEF row
  <1>3. CallsFresh'
    <2>1. \A u \in Threads : Unmoved(u)
      BY <1>1, <1>2 DEF Unmoved, TypeOK
    <2>2. CallFresh(t)' /\ LogGrows
      BY <1>2 DEF CallFresh, LogGrows
    <2> QED
      BY <1>1, <2>1, <2>2, FreshStep
  <1>4. Rows' = [Rows EXCEPT ![k] = ReplicaRow(row)]
    BY <1>1, <1>2, SavedRow
  <1>5. Sent = NoKey /\ Sent' = NoKey
    BY <1>2 DEF Sent
  <1>6. ReplicaStep
    <2>1. CASE items[k].conflict \/ items[k].dirty \/ row = items[k]
      <3>1. items' = items
        BY <1>1, <1>2, <2>1 DEF row, ReconciledItem, TypeOK
      <3> QED
        BY <1>2, <1>5, <3>1 DEF ReplicaStep, Rows
    <2>2. CASE ~(items[k].conflict \/ items[k].dirty \/ row = items[k])
      <3>1. row = markItemDirty(items[k]) /\ items[k] \in ItemState
        BY <1>1, <2>2 DEF row, ReconciledItem, TypeOK
      <3>2. ReplicaRow(row) = [ReplicaRow(items[k]) EXCEPT !.state = "dirty"]
            /\ RowState(items[k]) = "clean"
        BY <2>2, <3>1 DEF ReplicaRow, RowState, markItemDirty, ItemState
      <3>3. Rows[k] = ReplicaRow(items[k]) /\ Rows[k].state = "clean"
        BY <3>2 DEF Rows, ReplicaRow
      <3>4. Replica!Edit(k)
        BY <1>1, <1>2, <1>4, <1>5, <3>2, <3>3 DEF Replica!Edit
      <3> QED
        BY <3>4 DEF ReplicaStep, Replica!Next
    <2> QED
      BY <2>1, <2>2
  <1> QED
    BY <1>3, <1>6

\* The server accepts what was made from its latest version.
LEMMA PutAcceptedReplica ==
  ASSUME FreshInv, PutAccepted
  PROVE  CallsFresh' /\ ReplicaStep
  <1> DEFINE t == SyncThread
             k == key[t]
  <1>1. t \in Threads /\ TypeOK /\ CallSound(t) /\ CallFresh(t) /\ NoKey \notin Keys
    BY KeyAssumption DEF Threads, FreshInv, EngineInv, CallsSound, CallsFresh
  <1>2. /\ srvLog' = [srvLog EXCEPT ![k] = Append(@, cur[t])] /\ items' = items
        /\ UNCHANGED <<lock, key, got, cur>> /\ pc[t] = "put" /\ pc'[t] = "saveUpload"
        /\ Len(srvLog[k]) = items[k].version
    BY <1>1 DEF TypeOK, PutAccepted, Accepts, ServerWrite, Goto, storeVars, itemVars
  <1>3. k \in Keys /\ cur[t] \in Values
    BY <1>1, <1>2 DEF CallSound, Locked
  <1>4. CallsFresh'
    <2>1. \A u \in Threads \ {t} : Unmoved(u)
      BY <1>1, <1>2 DEF TypeOK, PutAccepted, Goto, Unmoved
    <2>2. CallFresh(t)'
      BY <1>1, <1>2 DEF CallFresh
    <2>3. LogGrows
      BY <1>1, <1>2, <1>3 DEF LogGrows, TypeOK
    <2> QED
      BY <1>1, <2>1, <2>2, <2>3, FreshStep
  <1>5. Sent = NoKey /\ Sent' = k /\ Rows' = Rows
    BY <1>2 DEF Sent, Rows
  <1>6. Rows[k].state = "dirty" /\ Rows[k].version = Len(srvLog[k])
    BY <1>1, <1>2, <1>3 DEF CallFresh, Rows, ReplicaRow, RowState
  <1>7. Replica!Upload(k, cur[t])
    BY <1>2, <1>5, <1>6 DEF Replica!Upload
  <1> QED
    BY <1>3, <1>4, <1>7 DEF ReplicaStep, Replica!Next

\* An accepted write whose response is lost is one more version on the server.
LEMMA PutResponseLostReplica ==
  ASSUME FreshInv, PutResponseLost
  PROVE  CallsFresh' /\ ReplicaStep
  <1> DEFINE t == SyncThread
             k == key[t]
  <1>1. t \in Threads /\ TypeOK /\ CallSound(t)
    BY DEF Threads, FreshInv, EngineInv, CallsSound
  <1>2. /\ srvLog' = [srvLog EXCEPT ![k] = Append(@, cur[t])] /\ items' = items
        /\ pc[t] = "put" /\ pc'[t] = "idle"
    BY <1>1 DEF TypeOK, PutResponseLost, ServerWrite, Return, Goto, storeVars
  <1>3. k \in Keys /\ cur[t] \in Values
    BY <1>1, <1>2 DEF CallSound, Locked
  <1>4. CallsFresh'
    <2>1. \A u \in Threads \ {t} : Unmoved(u)
      BY <1>1, <1>2 DEF TypeOK, PutResponseLost, Return, Goto, Release, DropItem, Unmoved
    <2>2. CallFresh(t)'
      BY <1>2 DEF CallFresh
    <2>3. LogGrows
      BY <1>1, <1>2, <1>3 DEF LogGrows, TypeOK
    <2> QED
      BY <1>1, <2>1, <2>2, <2>3, FreshStep
  <1>5. Sent = NoKey /\ Sent' = NoKey /\ Rows' = Rows
    BY <1>2 DEF Sent, Rows
  <1>6. Replica!Publish(k, cur[t])
    BY <1>2, <1>5 DEF Replica!Publish
  <1> QED
    BY <1>3, <1>4, <1>6 DEF ReplicaStep, Replica!Next

\* The row of an accepted upload takes the version that the server gave it.
LEMMA SaveUploadedItemReplica ==
  ASSUME FreshInv, SaveUploadedItem
  PROVE  CallsFresh' /\ ReplicaStep
  <1> DEFINE t == SyncThread
             k == key[t]
             row == markItemClean(items[k], items[k].version + 1, cur[t])
  <1>1. t \in Threads /\ TypeOK /\ CallSound(t) /\ NoKey \notin Keys
    BY KeyAssumption DEF Threads, FreshInv, EngineInv, CallsSound
  <1>2. /\ srvLog' = srvLog /\ UNCHANGED <<lock, key, got, cur>>
        /\ pc[t] = "saveUpload" /\ pc'[t] = "saveHead"
    BY <1>1 DEF TypeOK, SaveUploadedItem, Goto, serverVars, itemVars
  <1>3. k \in Keys /\ lock[k] = t
    BY <1>1, <1>2 DEF CallSound, Locked
  <1>4. items' = [items EXCEPT ![k] = row]
    BY <1>1, <1>3 DEF SaveUploadedItem, TypeOK
  <1>5. ReplicaRow(row) = [version |-> items[k].version + 1, base |-> items[k].version + 1,
                           state |-> "clean"]
    <2>1. items[k] \in ItemState
      BY <1>1, <1>3 DEF TypeOK
    <2> QED
      BY <2>1 DEF ReplicaRow, RowState, markItemClean, WithBase, clearItemConflict, ItemState
  <1> HIDE DEF row
  <1>6. CallsFresh'
    <2>1. \A u \in Threads \ {t} : Unmoved(u)
      BY <1>1, <1>2, <1>3, <1>4 DEF TypeOK, SaveUploadedItem, Goto, Unmoved
    <2>2. CallFresh(t)' /\ LogGrows
      BY <1>2 DEF CallFresh, LogGrows
    <2> QED
      BY <1>1, <2>1, <2>2, FreshStep
  <1>7. Sent = k /\ Sent' = NoKey /\ Rows[k].version = items[k].version
    BY <1>2, <1>3 DEF Sent, Rows, ReplicaRow
  <1>8. Rows' = [Rows EXCEPT ![k] = ReplicaRow(row)]
    BY <1>1, <1>3, <1>4, SavedRow
  <1>9. Replica!Record(k)
    BY <1>2, <1>5, <1>7, <1>8 DEF Replica!Record
  <1> QED
    BY <1>3, <1>6, <1>9 DEF ReplicaStep, Replica!Next

\* A newer version is taken, merged or in conflict; a row that raced is dirty.
LEMMA SaveItemReplica ==
  ASSUME FreshInv, NEW t \in Threads, SaveItem(t)
  PROVE  CallsFresh' /\ ReplicaStep
  <1> DEFINE k == key[t]
             row == IF pc[t] = "save"
                      THEN AppliedItem(items[k], cur[t], got[t].version, got[t].value)
                      ELSE RacedItem(items[k])
  <1>1. TypeOK /\ CallSound(t) /\ CallFresh(t) /\ NoKey \notin Keys
    BY KeyAssumption DEF FreshInv, EngineInv, CallsSound, CallsFresh
  <1>2. /\ srvLog' = srvLog /\ pc[t] \in {"save", "saveRaced"} /\ pc'[t] \in {"retry", "pull"}
        /\ items' = [items EXCEPT ![k] = row]
    BY <1>1 DEF TypeOK, SaveItem, Goto, serverVars
  <1>3. /\ k \in Keys /\ lock[k] = t
        /\ IsVersion(srvLog[k], got[t].version, got[t].value)
    BY <1>1, <1>2 DEF CallSound, Locked, Fetched
  <1>4. items[k] \in ItemState /\ srvLog[k] \in Seq(Values)
    BY <1>1, <1>3 DEF TypeOK
  <1>5. \A u \in Threads \ {t} : Unmoved(u)
    <2>1. \A u \in Threads \ {t} : pc'[u] = pc[u] /\ key'[u] = key[u] /\ got'[u] = got[u] /\ cur'[u] = cur[u]
      BY <1>1 DEF TypeOK, SaveItem, Goto, DropItem, itemVars
    <2>2. \A j \in Keys : lock[j] # t => lock'[j] = lock[j]
      BY <1>1 DEF TypeOK, SaveItem, Release
    <2>3. \A j \in Keys : j # k => items'[j] = items[j]
      BY <1>1, <1>2 DEF TypeOK
    <2> QED
      BY <1>3, <2>1, <2>2, <2>3 DEF Unmoved
  <1>6. CallsFresh'
    <2>1. CallFresh(t)' /\ LogGrows
      BY <1>2 DEF CallFresh, LogGrows
    <2> QED
      BY <1>5, <2>1, FreshStep
  <1>7. Sent' = Sent /\ Sent # k
    <2>1. CASE t = SyncThread
      BY <1>1, <1>2, <1>3, <2>1 DEF Sent
    <2>2. CASE t # SyncThread
      <3>1. Sent # k
        BY <1>3, <2>2, SentIsLocked DEF FreshInv
      <3> QED
        BY <1>5, <2>2, <3>1, SentUnmoved DEF Threads
    <2> QED
      BY <2>1, <2>2
  <1>8. Rows[k] = ReplicaRow(items[k])
    BY <1>3 DEF Rows
  <1> HIDE DEF row
  <1>9. Rows' = [Rows EXCEPT ![k] = ReplicaRow(row)]
    BY <1>1, <1>2, <1>3, SavedRow
  <1>10. CASE pc[t] = "save"
    <2>1. row = AppliedItem(items[k], cur[t], got[t].version, got[t].value)
      BY <1>10 DEF row
    <2>2. got[t].version \in Rows[k].version + 1..Len(srvLog[k]) /\ got[t].version \in 1..Len(srvLog[k])
      BY <1>1, <1>3, <1>4, <1>8, <1>10 DEF CallFresh, IsVersion, ReplicaRow, ItemState
    <2>3. CASE row = markItemConflict(items[k], got[t].version, got[t].value)
      <3>1. ReplicaRow(row) = [version |-> got[t].version, base |-> Rows[k].base,
                               state |-> "conflict"]
        <4>1. /\ row.version = got[t].version /\ row.baseVersion = items[k].baseVersion
              /\ row.conflict
          BY <1>4, <2>3 DEF markItemConflict, ItemState
        <4> QED
          BY <1>8, <4>1 DEF ReplicaRow, RowState
      <3>2. Replica!Disagree(k, got[t].version)
        BY <1>2, <1>7, <1>9, <2>2, <3>1 DEF Replica!Disagree
      <3> QED
        BY <1>3, <1>6, <2>2, <3>2 DEF ReplicaStep, Replica!Next
    <2>4. CASE row # markItemConflict(items[k], got[t].version, got[t].value)
      <3>1. /\ ~items[k].conflict
            /\ \/ row = markItemClean(items[k], got[t].version, got[t].value)
               \/ row = markItemDirtyWithBase(items[k], got[t].version, got[t].value)
        BY <2>1, <2>4 DEF AppliedItem, ApplyWrites
      <3>2. PICK state \in {"clean", "dirty"} :
              ReplicaRow(row) = [version |-> got[t].version, base |-> got[t].version, state |-> state]
        BY <1>4, <3>1 DEF ReplicaRow, RowState, markItemClean, markItemDirtyWithBase, WithBase,
                          clearItemConflict, ItemState
      <3>3. Rows[k].state # "conflict"
        BY <1>8, <3>1 DEF ReplicaRow, RowState
      <3>4. Replica!Take(k, got[t].version, state)
        BY <1>2, <1>7, <1>9, <2>2, <3>2, <3>3 DEF Replica!Take
      <3> QED
        BY <1>3, <1>6, <2>2, <3>4 DEF ReplicaStep, Replica!Next
    <2> QED
      BY <2>3, <2>4
  <1>11. CASE pc[t] = "saveRaced"
    <2>1. row = markItemDirty(items[k])
      BY <1>11 DEF row, RacedItem
    <2>2. CASE RowState(items[k]) # "clean"
      <3>1. ReplicaRow(row) = ReplicaRow(items[k])
        BY <1>4, <2>1, <2>2 DEF ReplicaRow, RowState, markItemDirty, ItemState
      <3>2. Rows' = Rows
        BY <1>8, <1>9, <3>1 DEF Rows
      <3> QED
        BY <1>2, <1>6, <1>7, <3>2 DEF ReplicaStep
    <2>3. CASE RowState(items[k]) = "clean"
      <3>1. ReplicaRow(row) = [ReplicaRow(items[k]) EXCEPT !.state = "dirty"]
        BY <1>4, <2>1, <2>3 DEF ReplicaRow, RowState, markItemDirty, ItemState
      <3>2. Rows[k].state = "clean"
        BY <1>8, <2>3 DEF ReplicaRow
      <3>3. Replica!Edit(k)
        BY <1>2, <1>7, <1>8, <1>9, <3>1, <3>2 DEF Replica!Edit
      <3> QED
        BY <1>3, <1>6, <3>3 DEF ReplicaStep, Replica!Next
    <2> QED
      BY <2>2, <2>3
  <1> QED
    BY <1>2, <1>10, <1>11

-----------------------------------------------------------------------------
(* The app, the other devices and restarts *)

\* A step outside the engine leaves what the calls rely on, and the upload, alone.
LEMMA OutsideFresh ==
  ASSUME FreshInv, LogGrows, \A u \in Threads : Unmoved(u)
  PROVE  CallsFresh' /\ Sent' = Sent
  <1>1. SyncThread \in Threads
    BY DEF Threads
  <1> QED
    BY <1>1, UnmovedFresh, SentUnmoved DEF FreshInv, CallsFresh

\* The app's storage and the active scope are in no row.
LEMMA AppReplica ==
  ASSUME FreshInv, UNCHANGED <<srvLog, items, callVars>>
  PROVE  CallsFresh' /\ ReplicaStep
  <1>1. LogGrows /\ \A u \in Threads : Unmoved(u)
    BY DEF LogGrows, Unmoved, callVars, itemVars
  <1> QED
    BY <1>1, OutsideFresh DEF ReplicaStep, Rows

\* What JoinNamespace and DefaultNamespace do to the namespace row concerns no item.
LEMMA SetupQuiet ==
  ASSUME FreshInv, SetupStep \/ \E t \in Threads : SaveJoined(t)
  PROVE  CallsFresh' /\ ReplicaStep
  <1>0. TypeOK
    BY DEF FreshInv, EngineInv
  <1>1. ASSUME NEW t \in Threads, ReadJoined(t) PROVE CallsFresh' /\ ReplicaStep
    <2>1. srvLog' = srvLog /\ items' = items /\ pc'[t] \notin Relying
      BY <1>0, <1>1 DEF TypeOK, ReadJoined, Goto, Relying, serverVars, storeVars
    <2>2. \A u \in Threads \ {t} : Unmoved(u)
      BY <1>0, <1>1, <2>1 DEF TypeOK, ReadJoined, Goto, Unmoved, itemVars
    <2> QED
      BY <2>1, <2>2, QuietStep
  <1>2. ASSUME NEW t \in Threads, SaveJoined(t) PROVE CallsFresh' /\ ReplicaStep
    BY <1>2, ReturnQuiet DEF SaveJoined, serverVars
  <1>3. CASE SaveDefaultNamespace
    <2>1. UNCHANGED <<srvLog, items, callVars>>
      BY <1>3 DEF SaveDefaultNamespace, serverVars, callVars
    <2> QED
      BY <2>1, AppReplica
  <1> QED
    BY <1>1, <1>2, <1>3 DEF SetupStep

\* Another device publishes a version.
LEMMA RemoteWriteReplica ==
  ASSUME FreshInv, NEW k \in Keys, RemoteWrite(k)
  PROVE  CallsFresh' /\ ReplicaStep
  <1>1. TypeOK
    BY DEF FreshInv, EngineInv
  <1>2. Latest(k) \in OptValue
    <2>1. srvLog[k] \in Seq(Values)
      BY <1>1 DEF TypeOK
    <2>2. CASE srvLog[k] = <<>>
      BY <2>2 DEF Latest, OptValue
    <2>3. CASE srvLog[k] # <<>>
      BY <2>1, <2>3, LastIsVersion, VersionHasValue DEF Latest, OptValue
    <2> QED
      BY <2>2, <2>3
  <1>3. PICK v \in RemoteEdits(Latest(k)) :
           ServerWrite(k, v) /\ UNCHANGED <<appVars, storeVars, callVars>>
    BY DEF RemoteWrite
  <1>4. v \in Values
    BY <1>2, <1>3, EditAssumption
  <1>5. LogGrows
    BY <1>1, <1>3, <1>4, ServerWriteGrows
  <1>6. \A u \in Threads : Unmoved(u)
    BY <1>3 DEF Unmoved, callVars, itemVars, storeVars
  <1>7. Rows' = Rows
    BY <1>3 DEF Rows, storeVars
  <1>8. Replica!Publish(k, v)
    BY <1>3, <1>5, <1>6, <1>7, OutsideFresh DEF Replica!Publish, ServerWrite
  <1> QED
    BY <1>4, <1>5, <1>6, <1>8, OutsideFresh DEF ReplicaStep, Replica!Next

\* A resolution makes a row in conflict clean or dirty, while nobody holds its lock.
LEMMA ResolveReplica ==
  ASSUME FreshInv, ResolveStep
  PROVE  CallsFresh' /\ ReplicaStep
  <1>1. TypeOK /\ MergeBaseSound /\ NoThread \notin Threads /\ SyncThread \in Threads
    BY ThreadAssumption DEF FreshInv, EngineInv, Threads
  <1>2. PICK k \in Keys :
          \/ ResolveConflictPreferLocal(k)
          \/ \E saved \in BOOLEAN :
               ResolveConflictWithValue(k, saved) \/ ResolveConflictPreferRemote(k, saved)
    BY DEF ResolveStep
  <1> DEFINE item == items[k]
             dirty == markItemDirty(clearItemConflict(item))
             clean == markItemClean(item, item.conflictRemoteVersion, item.conflictRemoteValue)
  <1>3. /\ lock[k] = NoThread /\ item.conflict /\ srvLog' = srvLog
        /\ UNCHANGED <<pc, lock, key, got, cur>>
    BY <1>2 DEF ResolveConflictPreferLocal, ResolveConflictWithValue, ResolveConflictPreferRemote,
                Resolvable, serverVars, callVars, itemVars
  <1>4. /\ item \in ItemState /\ item.conflictRemoteVersion = item.version
        /\ Rows[k] = ReplicaRow(item)
    BY <1>1, <1>3 DEF TypeOK, MergeBaseSound, RowSound, Rows
  <1>5. \/ items' = items
        \/ items' = [items EXCEPT ![k] = dirty]
        \/ items' = [items EXCEPT ![k] = clean]
    BY <1>1, <1>2 DEF ResolveConflictPreferLocal, ResolveConflictWithValue,
                      ResolveConflictPreferRemote, TypeOK
  <1>6. ReplicaRow(dirty) = [ReplicaRow(item) EXCEPT !.state = "dirty"]
    BY <1>4 DEF ReplicaRow, RowState, markItemDirty, clearItemConflict, ItemState
  <1>7. ReplicaRow(clean) = [version |-> item.version, base |-> item.version, state |-> "clean"]
    BY <1>4 DEF ReplicaRow, RowState, markItemClean, WithBase, clearItemConflict, ItemState
  <1>8. Rows[k].state = "conflict" /\ Rows[k].version = item.version
    BY <1>3, <1>4 DEF ReplicaRow, RowState
  <1> HIDE DEF dirty, clean
  <1>9. LogGrows /\ \A u \in Threads : Unmoved(u)
    <2>1. \A j \in Keys : j # k => items'[j] = items[j]
      BY <1>1, <1>5 DEF TypeOK
    <2> QED
      BY <1>1, <1>3, <2>1 DEF LogGrows, Unmoved
  <1>10. CallsFresh' /\ Sent' = Sent
    BY <1>9, OutsideFresh
  <1>11. Sent # k
    BY <1>1, <1>3, SentIsLocked DEF FreshInv
  <1>12. CASE items' = items
    BY <1>3, <1>10, <1>12 DEF ReplicaStep, Rows
  <1>13. CASE items' = [items EXCEPT ![k] = dirty]
    <2>1. Rows' = [Rows EXCEPT ![k] = ReplicaRow(dirty)]
      BY <1>1, <1>13, SavedRow
    <2>2. Replica!Resolve(k)
      BY <1>3, <1>4, <1>6, <1>8, <1>10, <1>11, <2>1 DEF Replica!Resolve
    <2> QED
      BY <1>10, <2>2 DEF ReplicaStep, Replica!Next
  <1>14. CASE items' = [items EXCEPT ![k] = clean]
    <2>1. Rows' = [Rows EXCEPT ![k] = ReplicaRow(clean)]
      BY <1>1, <1>14, SavedRow
    <2>2. Replica!Resolve(k)
      BY <1>3, <1>7, <1>8, <1>10, <1>11, <2>1 DEF Replica!Resolve
    <2> QED
      BY <1>10, <2>2 DEF ReplicaStep, Replica!Next
  <1> QED
    BY <1>5, <1>12, <1>13, <1>14

\* A restarted engine has no calls; what was uploaded and not recorded is forgotten.
LEMMA CrashReplica ==
  ASSUME FreshInv, Crash
  PROVE  CallsFresh' /\ ReplicaStep
  <1>1. srvLog' = srvLog /\ items' = items /\ pc' = [u \in Threads |-> "idle"]
    BY DEF Crash, Restart, serverVars, storeVars
  <1>2. CallsFresh'
    BY <1>1 DEF CallsFresh, CallFresh
  <1>3. Sent' = NoKey
    BY <1>1 DEF Sent, Threads
  <1> QED
    BY <1>1, <1>2, <1>3 DEF ReplicaStep, Rows, Replica!Next, Replica!Forget

\* ResetSyncState sets every row back to a new one.
LEMMA ResetReplica ==
  ASSUME FreshInv, ResetSyncState
  PROVE  CallsFresh' /\ ReplicaStep
  <1>1. /\ srvLog' = srvLog /\ items' = [k \in Keys |-> NewItem]
        /\ pc' = [u \in Threads |-> "idle"]
    BY DEF ResetSyncState, Restart, serverVars
  <1>2. CallsFresh'
    BY <1>1 DEF CallsFresh, CallFresh
  <1>3. Sent' = NoKey
    BY <1>1 DEF Sent, Threads
  <1>4. Rows' = [k \in Keys |-> Replica!NewRow]
    BY <1>1 DEF Rows, ReplicaRow, RowState, NewItem, Replica!NewRow
  <1> QED
    BY <1>1, <1>2, <1>3, <1>4 DEF ReplicaStep, Replica!Next, Replica!Reset

-----------------------------------------------------------------------------
(* The theorem *)

\* A fresh store is a set of new replicas.
LEMMA InitReplica == Init => FreshInv /\ Replica!Init
  <1> SUFFICES ASSUME Init PROVE FreshInv /\ Replica!Init
    OBVIOUS
  <1>1. EngineInv
    BY InitLemma
  <1>2. CallsFresh
    BY DEF Init, CallsFresh, CallFresh
  <1>3. Sent = NoKey
    BY DEF Init, Sent, Threads
  <1>4. Rows = [k \in Keys |-> Replica!NewRow]
    BY DEF Init, Rows, ReplicaRow, RowState, NewItem, Replica!NewRow
  <1> QED
    BY <1>1, <1>2, <1>3, <1>4 DEF Init, FreshInv, Replica!Init

\* The pull phase moves the replicas.
LEMMA PullReplica ==
  ASSUME FreshInv, NEW t \in Threads, PullStep(t)
  PROVE  CallsFresh' /\ ReplicaStep
  <1>1. CASE Ends(t)
    BY <1>1, EndsQuiet
  <1>2. CASE ListRemote(t) \/ LoadNamespace(t) \/ GetNamespaceItems(t) \/ ScanItems(t)
    BY <1>2, ListRemoteQuiet, LoadNamespaceQuiet, GetNamespaceItemsQuiet, ScanItemsQuiet
  <1>3. CASE \E k \in Keys : GetItem(t, k)
    BY <1>3, GetItemQuiet
  <1>4. CASE SkipApply(t) \/ BeginApply(t) \/ SetIfCurrent(t) \/ SaveItem(t) \/ SaveCheckpoint(t)
    BY <1>4, SkipApplyQuiet, BeginApplyFresh, SetIfCurrentFresh, SaveItemReplica, SaveCheckpointQuiet
  <1> QED
    BY <1>1, <1>2, <1>3, <1>4 DEF PullStep, Ends

\* So do the snapshot and push phases.
LEMMA SyncReplica ==
  ASSUME FreshInv, SyncStep
  PROVE  CallsFresh' /\ ReplicaStep
  <1>1. CASE RefetchRollback \/ FinishSync
    <2>1. SyncThread \in Threads
      BY DEF Threads
    <2>2. Ends(SyncThread)
      BY <1>1 DEF Ends
    <2> QED
      BY <2>1, <2>2, EndsQuiet
  <1>2. CASE TakeSnapshot \/ LoadSnapshotScope \/ \E k \in Keys : ReconcileSnapshotValue(k)
    BY <1>2, TakeSnapshotQuiet, LoadSnapshotScopeQuiet, ReconcileSnapshotValueReplica
  <1>3. CASE ListDirtyItems \/ LoadFlushCaches \/ \E k \in Keys : SkipUpload(k) \/ BeginUpload(k)
    BY <1>3, ListDirtyItemsQuiet, LoadFlushCachesQuiet, SkipUploadQuiet, BeginUploadFresh
  <1>4. CASE PutAccepted \/ PutRefused \/ SaveUploadedItem \/ SaveUploadedHead
    BY <1>4, PutAcceptedReplica, PutRefusedFresh, SaveUploadedItemReplica, SaveUploadedHeadQuiet
  <1>5. CASE Refetch \/ BeginReapply \/ RetryUpload \/ LeaveItem
    BY <1>5, RefetchFresh, BeginReapplyFresh, RetryUploadFresh, LeaveItemQuiet
  <1> QED
    BY <1>1, <1>2, <1>3, <1>4, <1>5 DEF SyncStep

\* Every step of the engine, the app, the other devices and the process.
LEMMA NextReplica == FreshInv /\ [Next]_vars => FreshInv' /\ ReplicaStep
  <1> SUFFICES ASSUME FreshInv, [Next]_vars PROVE FreshInv' /\ ReplicaStep
    OBVIOUS
  <1>0. EngineInv'
    BY NextLemma DEF FreshInv
  <1>1. CASE EngineStep \/ SetupStep
    BY <1>0, <1>1, PullReplica, SyncReplica, SetupQuiet DEF EngineStep, FreshInv
  <1>2. CASE FaultStep
    <2>1. \A t \in Threads : Fail(t) => Ends(t)
      BY DEF Ends
    <2> QED
      BY <1>0, <1>2, <2>1, PutResponseLostReplica, CrashReplica, EndsQuiet DEF FaultStep, FreshInv
  <1>3. CASE ResolveStep \/ ResetSyncState
    BY <1>0, <1>3, ResolveReplica, ResetReplica DEF FreshInv
  <1>4. CASE \E k \in Keys : RemoteWrite(k)
    BY <1>0, <1>4, RemoteWriteReplica DEF FreshInv
  <1>5. CASE (\E k \in Keys : AppWrite(k)) \/ DeleteStep \/ ScopeStep \/ UNCHANGED vars
    <2>1. UNCHANGED <<srvLog, items, callVars>>
      BY <1>5 DEF DeleteStep, ScopeStep, AppWrite, AppDelete, OpenCollection, ChangeScope, vars,
                  serverVars, storeVars, callVars
    <2> QED
      BY <1>0, <2>1, AppReplica DEF FreshInv
  <1> QED
    BY <1>1, <1>2, <1>3, <1>4, <1>5 DEF Next, WriteStep

\* For every number of keys and of concurrent calls, every merge function and every backend:
\* whatever SyncNow, ListNamespaces, JoinNamespace, DefaultNamespace, the conflict
\* resolutions and the failures do to the item rows is what one replica per item would do,
\* in single steps.
THEOREM EngineImplementsReplicas == Spec => ItemsAreReplicas
  <1>1. ReplicaStep => [Replica!Next]_(Replica!vars)
    BY DEF ReplicaStep, Replica!vars
  <1> QED
    BY <1>1, InitReplica, NextReplica, PTL DEF Spec, ItemsAreReplicas, Replica!Spec
=============================================================================

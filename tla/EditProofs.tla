------------------------------ MODULE EditProofs ------------------------------
(***************************************************************************)
(* No edit is lost, for every set of keys, values and concurrent callers,  *)
(* every merge that keeps the edits of both sides and every backend that   *)
(* implements ConditionalValueBackend, whatever fails, is lost, deleted,   *)
(* resolved, reset or restarted.                                           *)
(*                                                                         *)
(* NoEditLost is not inductive: an accepted upload replaces the server's   *)
(* value, and an applied version replaces the app's.  RowEdits says what   *)
(* a row promises of the edits on either side, CallEdits what a call knows *)
(* of them until it saves the row.                                         *)
(***************************************************************************)
EXTENDS MCSyncEngine, ReplicaProofs

\* The app's value has every edit that is not given up.
Kept(k) == made[k] \subseteq Edits(backend[k])

\* A row at the server's version has nothing left to learn, the base of a clean row
\* and the remote value of a conflict are still part of the server's value.
RowEdits(k) ==
    /\ made[k] \subseteq Edits(backend[k]) \cup Edits(Latest(k))
    /\ items[k].version = Len(srvLog[k]) /\ ~items[k].conflict => Kept(k)
    /\ ~items[k].dirty /\ hasMergeBase(items[k]) =>
          Edits(items[k].baseValue) \subseteq Edits(Latest(k))
    /\ items[k].conflict => Edits(items[k].conflictRemoteValue) \subseteq Edits(Latest(k))

\* Labels at which a call may still apply what it fetched.
Applying == {"apply", "reapply", "set", "save"}

\* What a call fetched is part of the server's value while its row is behind, and what
\* it is about to record as the row's version leaves nothing to learn.
CallEdits(t) ==
    /\ pc[t] \in Applying /\ items[key[t]].version < got[t].version =>
          Edits(got[t].value) \subseteq Edits(Latest(key[t]))
    /\ /\ pc[t] = "save" /\ got[t].version = Len(srvLog[key[t]])
       /\ ApplyWrites(items[key[t]], cur[t], got[t].value)
       => Kept(key[t])
    /\ pc[t] = "saveUpload" => Edits(cur[t]) \subseteq Edits(Latest(key[t]))
    /\ pc[t] = "saveUpload" /\ items[key[t]].version + 1 = Len(srvLog[key[t]]) => Kept(key[t])

EditsSound ==
    /\ \A k \in Keys : RowEdits(k)
    /\ \A t \in Threads : CallEdits(t)

\* The inductive invariant.  The budget is part of it as the server must not roll back.
EditInv ==
    /\ FreshInv /\ EditsSound
    /\ DOMAIN made = Keys
    /\ "rollback" \in DOMAIN budget /\ budget["rollback"] = 0

-----------------------------------------------------------------------------
(* Frames *)

\* What every lemma below starts from.
LEMMA EditFacts ==
  ASSUME EditInv
  PROVE  /\ TypeOK /\ EngineInv /\ FreshInv /\ EditsSound
         /\ SyncThread \in Threads /\ NoThread \notin Threads
         /\ \A k \in Keys : RowEdits(k) /\ RowSound(srvLog[k], items[k])
         /\ \A t \in Threads : CallEdits(t) /\ CallSound(t) /\ CallFresh(t)
         /\ \A k \in Keys : /\ srvLog[k] \in Seq(Values) /\ Len(srvLog[k]) \in Nat
                            /\ items[k] \in ItemState /\ items[k].version \in Nat
                            /\ backend[k] \in OptValue
  <1>1. TypeOK /\ MergeBaseSound /\ CallsSound /\ CallsFresh /\ EditsSound
    BY DEF EditInv, FreshInv, EngineInv
  <1>2. SyncThread \in Threads /\ NoThread \notin Threads
    BY ThreadAssumption DEF Threads
  <1>3. \A k \in Keys : /\ srvLog[k] \in Seq(Values) /\ Len(srvLog[k]) \in Nat
                        /\ items[k] \in ItemState /\ items[k].version \in Nat
                        /\ backend[k] \in OptValue
    BY <1>1 DEF TypeOK, ItemState
  <1> QED
    BY <1>1, <1>2, <1>3 DEF EditInv, FreshInv, EditsSound, MergeBaseSound, CallsSound, CallsFresh

\* The steps of one call leave the others alone: their locals, and the rows they have
\* locked.
LEMMA ReturnUnmoved ==
  ASSUME TypeOK, NEW t \in Threads, Return(t, TRUE) \/ Return(t, FALSE), items' = items
  PROVE  \A u \in Threads \ {t} : Unmoved(u)
  BY DEF TypeOK, Return, Goto, Release, DropItem, Unmoved

\* The pull phase leaves the other calls alone.
LEMMA PullUnmoved ==
  ASSUME FreshInv, NEW t \in Threads, PullStep(t)
  PROVE  \A u \in Threads \ {t} : Unmoved(u)
  <1>1. TypeOK /\ CallSound(t) /\ NoThread \notin Threads
    BY ThreadAssumption DEF FreshInv, EngineInv, CallsSound
  <1>2. CASE ListRemote(t) \/ LoadNamespace(t) \/ GetNamespaceItems(t) \/ ScanItems(t)
    BY <1>1, <1>2 DEF TypeOK, ListRemote, LoadNamespace, GetNamespaceItems, ScanItems, Goto,
                      Unmoved, storeVars, itemVars
  <1>3. CASE (\E k \in Keys : GetItem(t, k)) \/ SkipApply(t) \/ SetIfCurrent(t)
    BY <1>1, <1>3 DEF TypeOK, GetItem, SkipApply, SetIfCurrent, Goto, DropItem, Unmoved,
                      storeVars, itemVars
  <1>4. CASE BeginApply(t)
    <2>1. key[t] \in Keys
      BY <1>1, <1>4 DEF BeginApply, CallSound, Fetched
    <2> QED
      BY <1>1, <1>4, <2>1 DEF TypeOK, BeginApply, Acquire, Goto, Unmoved, storeVars
  <1>5. CASE SaveItem(t)
    <2>1. key[t] \in Keys /\ lock[key[t]] = t
      BY <1>1, <1>5 DEF SaveItem, CallSound, Locked
    <2>2. \A j \in Keys : j # key[t] => items'[j] = items[j]
      BY <1>1, <1>5 DEF SaveItem, TypeOK
    <2>3. \A u \in Threads \ {t} : pc'[u] = pc[u]
      BY <1>1, <1>5 DEF SaveItem, Goto, TypeOK
    <2>4. \/ UNCHANGED <<lock, itemVars>>
          \/ Release(t) /\ DropItem(t)
      BY <1>5 DEF SaveItem
    <2>5. \A u \in Threads \ {t} :
             /\ key'[u] = key[u] /\ got'[u] = got[u] /\ cur'[u] = cur[u]
             /\ \A k \in Keys : lock[k] = u => lock'[k] = u
      BY <1>1, <2>4 DEF Release, DropItem, TypeOK, itemVars
    <2> QED
      BY <2>1, <2>2, <2>3, <2>5 DEF Unmoved
  <1>6. CASE SaveCheckpoint(t)
    <2>1. CASE t = SyncThread
      BY <1>1, <1>6, <2>1 DEF TypeOK, SaveCheckpoint, Goto, Unmoved, itemVars
    <2>2. CASE t # SyncThread
      BY <1>1, <1>6, <2>2, ReturnUnmoved DEF SaveCheckpoint
    <2> QED
      BY <2>1, <2>2
  <1>7. CASE Ends(t)
    BY <1>1, <1>7, EndsReturn, ReturnUnmoved DEF storeVars
  <1> QED
    BY <1>2, <1>3, <1>4, <1>5, <1>6, <1>7 DEF PullStep, Ends

\* So do the snapshot and push phases.
LEMMA SyncUnmoved ==
  ASSUME FreshInv, SyncStep
  PROVE  \A u \in Threads \ {SyncThread} : Unmoved(u)
  <1>1. TypeOK /\ SyncThread \in Threads /\ CallSound(SyncThread) /\ NoThread \notin Threads
    BY ThreadAssumption DEF FreshInv, EngineInv, CallsSound, Threads
  <1>2. CASE \/ TakeSnapshot \/ LoadSnapshotScope \/ ListDirtyItems \/ LoadFlushCaches
             \/ \E k \in Keys : SkipUpload(k)
    BY <1>1, <1>2 DEF TypeOK, TakeSnapshot, LoadSnapshotScope, ListDirtyItems, LoadFlushCaches,
                      SkipUpload, Goto, Unmoved, storeVars, itemVars
  <1>3. CASE (\E k \in Keys : ReconcileSnapshotValue(k) \/ BeginUpload(k))
    BY <1>1, <1>3 DEF TypeOK, ReconcileSnapshotValue, BeginUpload, Acquire, Goto, Unmoved,
                      storeVars, itemVars
  <1>4. CASE PutAccepted \/ PutRefused \/ Refetch \/ BeginReapply \/ RetryUpload
    BY <1>1, <1>4 DEF TypeOK, PutAccepted, PutRefused, Refetch, BeginReapply, RetryUpload,
                      Goto, Unmoved, storeVars, itemVars
  <1>5. CASE SaveUploadedHead \/ LeaveItem
    BY <1>1, <1>5 DEF TypeOK, SaveUploadedHead, LeaveItem, Goto, Release, DropItem, Unmoved,
                      storeVars
  <1>6. CASE SaveUploadedItem
    <2>1. key[SyncThread] \in Keys /\ lock[key[SyncThread]] = SyncThread
      BY <1>1, <1>6 DEF SaveUploadedItem, CallSound, Locked
    <2> QED
      BY <1>1, <1>6, <2>1 DEF TypeOK, SaveUploadedItem, Goto, Unmoved, itemVars
  <1>7. CASE Ends(SyncThread)
    BY <1>1, <1>7, EndsReturn, ReturnUnmoved DEF storeVars
  <1> QED
    BY <1>2, <1>3, <1>4, <1>5, <1>6, <1>7 DEF SyncStep, Ends

\* A row whose item nobody touched keeps its promise.
LEMMA SameRow ==
  ASSUME NEW k \in Keys, RowEdits(k), items'[k] = items[k], srvLog'[k] = srvLog[k],
         backend'[k] = backend[k], made'[k] = made[k]
  PROVE  RowEdits(k)'
  BY DEF RowEdits, Kept, Latest

\* What another call knows outlives a step that takes no row back, when the step keeps
\* what the app has, or takes the server a version further, which either keeps the
\* server's edits or makes the call's item an old one.
LEMMA UnmovedEdits ==
  ASSUME EditInv, NEW u \in Threads, Unmoved(u),
         \A k \in Keys : items'[k].version \in Nat /\ items'[k].version >= items[k].version,
         \A k \in Keys :
            \/ srvLog'[k] = srvLog[k] /\ (lock[k] = u /\ Kept(k) => Kept(k)')
            \/ /\ Len(srvLog'[k]) = Len(srvLog[k]) + 1
               /\ \/ Edits(Latest(k)) \subseteq Edits(Latest(k)')
                  \/ lock[k] # u /\ items[k].version = Len(srvLog[k])
  PROVE  CallEdits(u)'
  <1>1. CallEdits(u) /\ CallSound(u) /\ TypeOK
    BY EditFacts
  <1>2. \A k \in Keys : Len(srvLog[k]) \in Nat /\ items[k].version \in Nat
    BY EditFacts
  <1>3. pc'[u] = pc[u] /\ key'[u] = key[u] /\ got'[u] = got[u] /\ cur'[u] = cur[u]
    BY DEF Unmoved
  <1>4. CASE pc[u] \notin Applying \cup {"saveUpload"}
    BY <1>3, <1>4 DEF CallEdits, Applying
  <1>5. CASE pc[u] \in Applying \cup {"saveUpload"}
    <2> PICK k \in Keys : k = key[u]
      BY <1>1, <1>5 DEF CallSound, Applying, Locked, Fetched
    <2>1. pc[u] # "apply" => lock[k] = u /\ items'[k] = items[k]
      BY <1>1, <1>5 DEF CallSound, Applying, Locked, Unmoved
    <2>2. pc[u] \in Applying => got[u].version \in Nat /\ got[u].version <= Len(srvLog[k])
      <3>1. pc[u] \in Applying => IsVersion(srvLog[k], got[u].version, got[u].value)
        BY <1>1 DEF CallSound, Applying, Fetched
      <3>2. srvLog[k] \in Seq(Values)
        BY EditFacts
      <3> QED
        BY <3>1, <3>2, VersionHasValue
    <2>3. pc[u] = "saveUpload" => items[k].version + 1 <= Len(srvLog[k])
      BY <1>1 DEF CallSound, IsVersion
    <2>4. CASE srvLog'[k] = srvLog[k] /\ (lock[k] = u /\ Kept(k) => Kept(k)')
      <3>1. Latest(k)' = Latest(k)
        BY <2>4 DEF Latest
      <3>2. pc[u] \in Applying /\ items'[k].version < got[u].version =>
               items[k].version < got[u].version
        BY <1>2, <2>2
      <3> QED
        BY <1>1, <1>3, <2>1, <2>4, <3>1, <3>2 DEF CallEdits, Applying
    <2>5. CASE /\ Len(srvLog'[k]) = Len(srvLog[k]) + 1
               /\ Edits(Latest(k)) \subseteq Edits(Latest(k)')
      <3>1. pc[u] \in Applying =>
               /\ got[u].version # Len(srvLog'[k])
               /\ items'[k].version < got[u].version => items[k].version < got[u].version
        BY <1>2, <2>2, <2>5
      <3>2. pc[u] = "saveUpload" => items'[k].version + 1 # Len(srvLog'[k])
        BY <1>2, <2>1, <2>3, <2>5
      <3>3. pc[u] \in Applying /\ items'[k].version < got[u].version =>
               Edits(got[u].value) \subseteq Edits(Latest(k)')
        BY <1>1, <2>5, <3>1 DEF CallEdits
      <3>4. pc[u] = "saveUpload" => Edits(cur[u]) \subseteq Edits(Latest(k)')
        BY <1>1, <2>5 DEF CallEdits
      <3> QED
        BY <1>3, <3>1, <3>2, <3>3, <3>4 DEF CallEdits, Applying
    <2>6. CASE /\ Len(srvLog'[k]) = Len(srvLog[k]) + 1
               /\ lock[k] # u /\ items[k].version = Len(srvLog[k])
      <3>1. pc[u] = "apply"
        BY <1>5, <2>1, <2>6
      <3>2. ~(items'[k].version < got[u].version)
        BY <1>2, <2>2, <2>6, <3>1 DEF Applying
      <3> QED
        BY <1>3, <3>1, <3>2 DEF CallEdits, Applying
    <2> QED
      BY <2>4, <2>5, <2>6
  <1> QED
    BY <1>4, <1>5

\* A step of call t that saves nothing, and leaves the app's storage and the server.
LEMMA QuietEdits ==
  ASSUME EditInv, NEW t \in Threads, UNCHANGED <<srvLog, items, backend, made>>,
         \A u \in Threads \ {t} : Unmoved(u), CallEdits(t)'
  PROVE  EditsSound'
  <1>1. \A k \in Keys : RowEdits(k)'
    BY EditFacts, SameRow
  <1>2. \A k \in Keys : Kept(k) => Kept(k)'
    BY DEF Kept
  <1>3. ASSUME NEW u \in Threads \ {t} PROVE CallEdits(u)'
    <2>1. \A k \in Keys : items'[k].version \in Nat /\ items'[k].version >= items[k].version
      BY EditFacts
    <2> QED
      BY <1>2, <2>1, UnmovedEdits
  <1> QED
    BY <1>1, <1>3 DEF EditsSound

\* A call that returns, on the rows, the storage and the server it leaves behind.
LEMMA EndEdits ==
  ASSUME EditInv, NEW t \in Threads, Return(t, TRUE) \/ Return(t, FALSE),
         UNCHANGED <<srvLog, items, backend, made>>
  PROVE  EditsSound'
  <1>1. TypeOK
    BY EditFacts
  <1>2. pc'[t] = "idle"
    BY <1>1 DEF TypeOK, Return, Goto
  <1>3. CallEdits(t)'
    BY <1>2 DEF CallEdits, Applying
  <1> QED
    BY <1>1, <1>3, ReturnUnmoved, QuietEdits

\* A step that touches one item, whose key is locked by none of the calls it leaves
\* alone unless it keeps what the app has or what the server has.
LEMMA ItemEdits ==
  ASSUME EditInv, NEW others \in SUBSET Threads, NEW k \in Keys,
         \A u \in others : Unmoved(u), \A t \in Threads \ others : CallEdits(t)',
         \A j \in Keys \ {k} : /\ items'[j] = items[j] /\ srvLog'[j] = srvLog[j]
                               /\ backend'[j] = backend[j] /\ made'[j] = made[j],
         RowEdits(k)', items'[k].version \in Nat, items'[k].version >= items[k].version,
         \/ srvLog'[k] = srvLog[k] /\ (lock[k] \in others /\ Kept(k) => Kept(k)')
         \/ /\ Len(srvLog'[k]) = Len(srvLog[k]) + 1
            /\ \/ Edits(Latest(k)) \subseteq Edits(Latest(k)')
               \/ lock[k] \notin others /\ items[k].version = Len(srvLog[k])
  PROVE  EditsSound'
  <1>1. \A j \in Keys : RowEdits(j)'
    BY EditFacts, SameRow
  <1>2. \A j \in Keys \ {k} : Kept(j) => Kept(j)'
    BY DEF Kept
  <1>3. ASSUME NEW u \in others PROVE CallEdits(u)'
    <2>1. \A j \in Keys : items'[j].version \in Nat /\ items'[j].version >= items[j].version
      BY EditFacts
    <2>2. \A j \in Keys :
            \/ srvLog'[j] = srvLog[j] /\ (lock[j] = u /\ Kept(j) => Kept(j)')
            \/ /\ Len(srvLog'[j]) = Len(srvLog[j]) + 1
               /\ \/ Edits(Latest(j)) \subseteq Edits(Latest(j)')
                  \/ lock[j] # u /\ items[j].version = Len(srvLog[j])
      BY <1>2
    <2> QED
      BY <2>1, <2>2, UnmovedEdits
  <1> QED
    BY <1>1, <1>3 DEF EditsSound

-----------------------------------------------------------------------------
(* Steps that save nothing *)

\* A step that ends at a label at which the call holds nothing that matters here.
LEMMA RestEdits ==
  ASSUME EditInv, NEW t \in Threads, UNCHANGED <<srvLog, items, backend, made>>,
         \A u \in Threads \ {t} : Unmoved(u), pc'[t] \notin Applying \cup {"saveUpload"}
  PROVE  EditsSound'
  <1>1. CallEdits(t)'
    BY DEF CallEdits, Applying
  <1> QED
    BY <1>1, QuietEdits

\* What is fetched is the server's value.
LEMMA FetchEdits ==
  ASSUME EditInv, made' = made, NEW t \in Threads,
         (\E k \in Keys : GetItem(t, k)) \/ (t = SyncThread /\ Refetch),
         \A u \in Threads \ {t} : Unmoved(u)
  PROVE  EditsSound'
  <1>1. TypeOK /\ CallSound(t)
    BY EditFacts
  <1>2. PICK k \in Keys : key'[t] = k /\ got'[t] = [version |-> Len(srvLog[k]), value |-> Latest(k)]
    BY <1>1 DEF GetItem, Refetch, TypeOK, CallSound, Locked
  <1>3. pc'[t] \in {"apply", "reapply"}
    BY <1>1 DEF GetItem, Refetch, Goto, TypeOK
  <1>4. UNCHANGED <<srvLog, items, backend>>
    BY DEF GetItem, Refetch, serverVars, appVars, storeVars
  <1>5. Latest(k)' = Latest(k)
    BY <1>4 DEF Latest
  <1>6. CallEdits(t)'
    BY <1>2, <1>3, <1>5 DEF CallEdits
  <1> QED
    BY <1>4, <1>6, QuietEdits

\* The row and the app's value are read; a value that is not to be applied is recorded
\* as a conflict.
LEMMA BeginEdits ==
  ASSUME EditInv, made' = made, NEW t \in Threads,
         BeginApply(t) \/ (t = SyncThread /\ BeginReapply),
         \A u \in Threads \ {t} : Unmoved(u)
  PROVE  EditsSound'
  <1>1. TypeOK /\ CallSound(t) /\ CallEdits(t)
    BY EditFacts
  <1>2. UNCHANGED <<srvLog, items, backend, key, got>>
    BY DEF BeginApply, BeginReapply, serverVars, appVars, storeVars
  <1>3. pc[t] \in Applying
    BY DEF BeginApply, BeginReapply, Applying
  <1>4. cur'[t] = backend[key[t]] /\ pc'[t] = ReadForApply(t)
    BY <1>1 DEF BeginApply, BeginReapply, Goto, TypeOK
  <1>5. ASSUME pc'[t] = "save"
        PROVE  ~ApplyWrites(items[key[t]], cur'[t], got[t].value)
    BY <1>4, <1>5 DEF ReadForApply
  <1>6. pc'[t] \in {"set", "save"}
    BY <1>4 DEF ReadForApply
  <1>7. Latest(key[t])' = Latest(key[t])
    BY <1>2 DEF Latest
  <1>8. CallEdits(t)'
    BY <1>1, <1>2, <1>3, <1>5, <1>6, <1>7 DEF CallEdits, Applying
  <1> QED
    BY <1>2, <1>8, QuietEdits

\* The rest of the pull phase that saves no row.
LEMMA PullRestEdits ==
  ASSUME EditInv, made' = made, NEW t \in Threads,
         \/ ListRemote(t) \/ LoadNamespace(t) \/ GetNamespaceItems(t) \/ ScanItems(t)
         \/ SkipApply(t) \/ SaveCheckpoint(t)
  PROVE  EditsSound'
  <1>1. TypeOK /\ FreshInv
    BY EditFacts
  <1>2. \A u \in Threads \ {t} : Unmoved(u)
    BY <1>1, PullUnmoved DEF PullStep
  <1>3. UNCHANGED <<srvLog, items, backend>>
    BY DEF ListRemote, LoadNamespace, GetNamespaceItems, ScanItems, SkipApply, SaveCheckpoint,
           serverVars, appVars, storeVars
  <1>4. pc'[t] \notin Applying \cup {"saveUpload"}
    BY <1>1 DEF ListRemote, LoadNamespace, GetNamespaceItems, ScanItems, SkipApply,
                SaveCheckpoint, Return, Goto, TypeOK, Applying
  <1> QED
    BY <1>2, <1>3, <1>4, RestEdits

\* The snapshot phase that saves no row, and the decisions of the flush.
LEMMA SyncRestEdits ==
  ASSUME EditInv, made' = made,
         \/ TakeSnapshot \/ LoadSnapshotScope \/ ListDirtyItems \/ LoadFlushCaches
         \/ \E k \in Keys : SkipUpload(k) \/ BeginUpload(k)
         \/ PutRefused \/ SaveUploadedHead \/ RetryUpload \/ LeaveItem
  PROVE  EditsSound'
  <1>1. TypeOK /\ FreshInv /\ SyncThread \in Threads
    BY EditFacts
  <1>2. \A u \in Threads \ {SyncThread} : Unmoved(u)
    BY <1>1, SyncUnmoved DEF SyncStep
  <1>3. UNCHANGED <<srvLog, items, backend>>
    BY DEF TakeSnapshot, LoadSnapshotScope, ListDirtyItems, LoadFlushCaches, SkipUpload,
           BeginUpload, PutRefused, SaveUploadedHead, RetryUpload, LeaveItem,
           serverVars, appVars, storeVars
  <1>4. pc'[SyncThread] \notin Applying \cup {"saveUpload"}
    BY <1>1 DEF TakeSnapshot, LoadSnapshotScope, ListDirtyItems, LoadFlushCaches, SkipUpload,
                BeginUpload, PutRefused, SaveUploadedHead, RetryUpload, LeaveItem, Goto,
                TypeOK, Applying
  <1> QED
    BY <1>1, <1>2, <1>3, <1>4, RestEdits

-----------------------------------------------------------------------------
(* Steps that save a row, the app's value or a version *)

\* The value that replaces the app's has its edits, or the server has them.
LEMMA AppliedValueKeeps ==
  ASSUME EditInv, KeepsEdits, NEW t \in Threads, pc[t] = "set", NEW k \in Keys, k = key[t],
         backend[k] = cur[t]
  PROVE  /\ made[k] \subseteq Edits(ApplyValue(items[k], cur[t], got[t].value))
                                 \cup Edits(Latest(k))
         /\ ApplyValue(items[k], cur[t], got[t].value) = got[t].value
            \/ Edits(got[t].value) \subseteq Edits(ApplyValue(items[k], cur[t], got[t].value))
  <1> DEFINE item == items[k]
             local == cur[t]
             value == got[t].value
             new == ApplyValue(item, local, value)
  <1>1. /\ item \in ItemState /\ value \in Values /\ local \in OptValue
        /\ Edits(value) \subseteq Edits(Latest(k))
        /\ ApplyWrites(item, local, value) /\ ~ApplyFails(item, local)
    <2>1. CallSound(t) /\ CallFresh(t) /\ CallEdits(t) /\ item \in ItemState /\ local \in OptValue
          /\ srvLog[k] \in Seq(Values)
      BY EditFacts
    <2>2. value \in Values
      BY <2>1, VersionHasValue DEF CallSound, Fetched
    <2> QED
      BY <2>1, <2>2 DEF CallSound, CallFresh, CallEdits, Applying
  <1>2. made[k] \subseteq Edits(local) \cup Edits(Latest(k))
    BY EditFacts DEF RowEdits
  <1>3. CASE AppliesClean(item, local, value)
    <2>1. new = value
      BY <1>3 DEF ApplyValue
    <2>2. Edits(local) \subseteq Edits(Latest(k))
      <3>1. CASE local = value
        BY <1>1, <3>1
      <3>2. CASE local = NoValue
        BY <3>2 DEF Edits
      <3>3. CASE ~item.dirty /\ hasMergeBase(item) /\ local = item.baseValue
        BY <3>3, EditFacts DEF RowEdits
      <3> QED
        BY <1>3, <3>1, <3>2, <3>3 DEF AppliesClean
    <2> QED
      BY <1>2, <2>1, <2>2
  <1>4. CASE ~AppliesClean(item, local, value)
    <2>1. local \in Values
      BY <1>1, <1>4 DEF ApplyWrites, ApplyFails, AppliesClean, OptValue, ItemState
    <2>2. PICK b \in OptValue : MergeResult(item, local, value) = Merge(b, local, value)
      BY <1>1 DEF MergeResult, ItemState, OptValue
    <2>3. Merge(b, local, value).resolved /\ new = Merge(b, local, value).value
      BY <1>4, <1>1, <2>2 DEF ApplyWrites, ApplyValue
    <2>4. Edits(local) \cup Edits(value) \subseteq Edits(new)
      BY <1>1, <2>1, <2>3 DEF KeepsEdits
    <2> QED
      BY <1>2, <2>4
  <1> QED
    BY <1>3, <1>4

\* The conditional write of the app's storage.
LEMMA SetIfCurrentEdits ==
  ASSUME EditInv, KeepsEdits, made' = made, NEW t \in Threads, SetIfCurrent(t)
  PROVE  EditsSound'
  <1>1. TypeOK /\ FreshInv /\ CallSound(t) /\ CallFresh(t) /\ CallEdits(t)
    BY EditFacts
  <1>2. PICK k \in Keys : k = key[t]
    BY <1>1 DEF SetIfCurrent, CallSound, Locked
  <1>3. \A u \in Threads \ {t} : Unmoved(u)
    BY <1>1, PullUnmoved DEF PullStep
  <1>4. pc[t] = "set" /\ lock[k] = t /\ UNCHANGED <<srvLog, items, key, got, cur>>
    BY <1>1, <1>2 DEF SetIfCurrent, CallSound, Locked, serverVars, storeVars, itemVars
  <1>5. /\ items[k] \in ItemState /\ items[k].version \in Nat /\ Len(srvLog[k]) \in Nat
        /\ RowEdits(k) /\ srvLog[k] \in Seq(Values)
    BY EditFacts
  <1>6. CASE backend[k] # cur[t]
    <2>1. backend' = backend /\ pc'[t] = "saveRaced"
      BY <1>1, <1>2, <1>6 DEF SetIfCurrent, Goto, TypeOK, KeepsEdits
    <2> QED
      BY <1>3, <1>4, <2>1, RestEdits DEF Applying
  <1>7. CASE backend[k] = cur[t]
    <2> DEFINE new == ApplyValue(items[k], cur[t], got[t].value)
    <2>1. backend' = [backend EXCEPT ![k] = new] /\ pc'[t] = "save"
      BY <1>1, <1>2, <1>7 DEF SetIfCurrent, Goto, TypeOK
    <2>2. backend'[k] = new /\ \A j \in Keys \ {k} : backend'[j] = backend[j]
      BY <1>1, <2>1 DEF TypeOK
    <2>3. /\ made[k] \subseteq Edits(new) \cup Edits(Latest(k))
          /\ Edits(got[t].value) \subseteq Edits(new)
      BY <1>2, <1>4, <1>7, AppliedValueKeeps
    <2> HIDE DEF new
    <2>4. /\ IsVersion(srvLog[k], got[t].version, got[t].value)
          /\ items[k].version < got[t].version /\ got[t].version <= Len(srvLog[k])
          /\ got[t].version \in Nat
          /\ Edits(got[t].value) \subseteq Edits(Latest(k))
      <3>1. IsVersion(srvLog[k], got[t].version, got[t].value) /\ items[k].version < got[t].version
        BY <1>1, <1>2, <1>4 DEF CallSound, CallFresh, Fetched
      <3> QED
        BY <1>1, <1>2, <1>4, <1>5, <3>1, VersionHasValue DEF CallEdits, Applying
    <2>5. Latest(k)' = Latest(k)
      BY <1>4 DEF Latest
    <2>6. items[k].version # Len(srvLog[k])
      BY <1>5, <2>4
    <2>7. RowEdits(k)'
      BY <1>4, <1>5, <2>2, <2>3, <2>5, <2>6 DEF RowEdits
    <2>8. got[t].version = Len(srvLog[k]) => Kept(k)'
      <3> SUFFICES ASSUME got[t].version = Len(srvLog[k]) PROVE Kept(k)'
        OBVIOUS
      <3>1. Latest(k) = got[t].value
        BY <1>5, <2>4 DEF Latest, IsVersion
      <3> QED
        BY <2>2, <2>3, <3>1 DEF Kept
    <2>9. CallEdits(t)'
      BY <1>2, <1>4, <2>1, <2>4, <2>5, <2>8 DEF CallEdits
    <2> DEFINE others == Threads \ {t}
    <2>10. others \in SUBSET Threads /\ Threads \ others = {t}
      OBVIOUS
    <2>11. srvLog'[k] = srvLog[k] /\ lock[k] \notin others
      BY <1>4
    <2> HIDE DEF others
    <2>12. \A u \in others : Unmoved(u)
      BY <1>3 DEF others
    <2> QED
      BY <1>4, <1>5, <2>2, <2>7, <2>9, <2>10, <2>11, <2>12, ItemEdits
  <1> QED
    BY <1>6, <1>7

\* What the metadata functions make of the fields that matter here.
LEMMA DirtyFields ==
  ASSUME NEW item \in ItemState
  PROVE  /\ markItemDirty(item).version = item.version
         /\ markItemDirty(item).dirty
         /\ markItemDirty(item).conflict = item.conflict
         /\ markItemDirty(item).conflictRemoteValue = item.conflictRemoteValue
  BY DEF ItemState, markItemDirty

\* A conflict that is resolved in the app's favour leaves the row's version.
LEMMA ClearFields ==
  ASSUME NEW item \in ItemState
  PROVE  /\ clearItemConflict(item) \in ItemState
         /\ clearItemConflict(item).version = item.version
         /\ ~clearItemConflict(item).conflict
  BY RowTypes, IdleTypes DEF ItemState, clearItemConflict

\* A clean row is at the version and the value it was given.
LEMMA CleanFields ==
  ASSUME NEW item \in ItemState, NEW v \in Nat, NEW y \in OptValue
  PROVE  /\ markItemClean(item, v, y).version = v
         /\ markItemClean(item, v, y).baseValue = y
         /\ ~markItemClean(item, v, y).conflict
  BY DEF ItemState, clearItemConflict, markItemClean, WithBase

\* So is a row that still has something to upload.
LEMMA DirtyWithBaseFields ==
  ASSUME NEW item \in ItemState, NEW v \in Nat, NEW y \in OptValue
  PROVE  /\ markItemDirtyWithBase(item, v, y).version = v
         /\ markItemDirtyWithBase(item, v, y).dirty
         /\ ~markItemDirtyWithBase(item, v, y).conflict
  BY DEF ItemState, clearItemConflict, markItemDirtyWithBase, WithBase

\* A conflict records both.
LEMMA ConflictFields ==
  ASSUME NEW item \in ItemState, NEW v \in Nat, NEW y \in OptValue
  PROVE  /\ markItemConflict(item, v, y).version = v
         /\ markItemConflict(item, v, y).dirty
         /\ markItemConflict(item, v, y).conflict
         /\ markItemConflict(item, v, y).conflictRemoteValue = y
  BY DEF ItemState, markItemConflict

\* A call saves one row, and leaves the app's storage and the server.
LEMMA SaveEdits ==
  ASSUME EditInv, NEW t \in Threads, NEW k \in Keys, UNCHANGED <<srvLog, backend, made>>,
         \A u \in Threads \ {t} : Unmoved(u), CallEdits(t)',
         \A j \in Keys \ {k} : items'[j] = items[j], RowEdits(k)',
         items'[k].version \in Nat, items'[k].version >= items[k].version
  PROVE  EditsSound'
  <1> DEFINE others == Threads \ {t}
  <1>1. others \in SUBSET Threads /\ \A u \in Threads \ others : CallEdits(u)'
    OBVIOUS
  <1>2. \A u \in others : Unmoved(u)
    OBVIOUS
  <1>3. Kept(k) => Kept(k)'
    BY DEF Kept
  <1> HIDE DEF others
  <1> QED
    BY <1>1, <1>2, <1>3, ItemEdits

\* The save of what a pull or a refused upload found.
LEMMA SaveItemEdits ==
  ASSUME EditInv, made' = made, NEW t \in Threads, SaveItem(t)
  PROVE  EditsSound'
  <1>1. TypeOK /\ FreshInv /\ CallSound(t) /\ CallFresh(t) /\ CallEdits(t)
    BY EditFacts
  <1>2. PICK k \in Keys : k = key[t]
    BY <1>1 DEF SaveItem, CallSound, Locked
  <1>3. \A u \in Threads \ {t} : Unmoved(u)
    BY <1>1, PullUnmoved DEF PullStep
  <1> DEFINE item == items[k]
             version == got[t].version
             value == got[t].value
             new == IF pc[t] = "save" THEN AppliedItem(item, cur[t], version, value)
                                      ELSE RacedItem(item)
  <1>4. /\ lock[k] = t /\ pc[t] \in {"save", "saveRaced"}
        /\ pc'[t] \in {"retry", "pull"} /\ UNCHANGED <<srvLog, backend>>
        /\ items' = [items EXCEPT ![k] = new]
    BY <1>1, <1>2 DEF SaveItem, CallSound, Locked, Goto, TypeOK, serverVars, appVars
  <1>5. items'[k] = new /\ \A j \in Keys \ {k} : items'[j] = items[j]
    BY <1>1, <1>4 DEF TypeOK
  <1>6. /\ item \in ItemState /\ item.version \in Nat /\ srvLog[k] \in Seq(Values)
        /\ RowEdits(k) /\ RowSound(srvLog[k], item)
    BY EditFacts
  <1>7. IsVersion(srvLog[k], version, value) /\ version \in Nat /\ value \in OptValue
    <2>1. IsVersion(srvLog[k], version, value)
      BY <1>1, <1>2, <1>4 DEF CallSound, Fetched
    <2> QED
      BY <1>6, <2>1, VersionHasValue DEF OptValue
  <1>8. CallEdits(t)'
    BY <1>4 DEF CallEdits, Applying
  <1>9. Latest(k)' = Latest(k)
    BY <1>4 DEF Latest
  <1>10. CASE pc[t] = "saveRaced"
    <2>1. new = markItemDirty(item)
      BY <1>10 DEF RacedItem
    <2>2. /\ new.version = item.version /\ new.dirty /\ new.conflict = item.conflict
          /\ new.conflictRemoteValue = item.conflictRemoteValue
      BY <1>6, <2>1, DirtyFields
    <2> HIDE DEF new
    <2>3. RowEdits(k)'
      BY <1>4, <1>5, <1>6, <1>9, <2>2 DEF RowEdits, Kept
    <2> QED
      BY <2>2, <2>3, <1>3, <1>4, <1>5, <1>6, <1>8, SaveEdits
  <1>11. CASE pc[t] = "save"
    <2>1. item.version < version /\ Edits(value) \subseteq Edits(Latest(k))
      BY <1>1, <1>2, <1>11 DEF CallFresh, CallEdits, Applying
    <2>2. \/ new = markItemConflict(item, version, value)
          \/ /\ ApplyWrites(item, cur[t], value)
             /\ \/ new = markItemClean(item, version, value)
                \/ new = markItemDirtyWithBase(item, version, value)
      BY <1>11 DEF AppliedItem
    <2>3. ApplyWrites(item, cur[t], value) /\ version = Len(srvLog[k]) => Kept(k)
      BY <1>1, <1>2, <1>11 DEF CallEdits
    <2> HIDE DEF new
    <2>4. /\ new.version = version
          /\ new.conflict => new.conflictRemoteValue = value
          /\ ~new.conflict => ApplyWrites(item, cur[t], value)
          /\ ~new.dirty => new.baseValue = value
      <3>1. CASE new = markItemConflict(item, version, value)
        BY <1>6, <1>7, <3>1, ConflictFields
      <3>2. CASE ApplyWrites(item, cur[t], value) /\ new = markItemClean(item, version, value)
        BY <1>6, <1>7, <3>2, CleanFields
      <3>3. CASE /\ ApplyWrites(item, cur[t], value)
                 /\ new = markItemDirtyWithBase(item, version, value)
        BY <1>6, <1>7, <3>3, DirtyWithBaseFields
      <3> QED
        BY <2>2, <3>1, <3>2, <3>3
    <2>5. RowEdits(k)'
      BY <1>4, <1>5, <1>6, <1>9, <2>1, <2>3, <2>4 DEF RowEdits, Kept
    <2>6. new.version \in Nat /\ new.version >= item.version
      BY <1>6, <1>7, <2>1, <2>4
    <2> QED
      BY <2>5, <2>6, <1>3, <1>4, <1>5, <1>8, SaveEdits
  <1> QED
    BY <1>4, <1>10, <1>11

\* A snapshot value that differs from the base makes the row dirty, no more.
LEMMA ReconcileEdits ==
  ASSUME EditInv, made' = made, NEW k \in Keys, ReconcileSnapshotValue(k)
  PROVE  EditsSound'
  <1>1. TypeOK /\ FreshInv /\ SyncThread \in Threads
    BY EditFacts
  <1>2. \A u \in Threads \ {SyncThread} : Unmoved(u)
    BY <1>1, SyncUnmoved DEF SyncStep
  <1> DEFINE item == items[k]
             new == ReconciledItem(item, snap[k])
  <1>3. /\ items' = [items EXCEPT ![k] = new] /\ UNCHANGED <<srvLog, backend>>
        /\ pc[SyncThread] = "reconcile" /\ pc'[SyncThread] = "reconcile"
    BY DEF ReconcileSnapshotValue, serverVars, appVars
  <1>4. items'[k] = new /\ \A j \in Keys \ {k} : items'[j] = items[j]
    BY <1>1, <1>3 DEF TypeOK
  <1>5. item \in ItemState /\ item.version \in Nat /\ RowEdits(k)
    BY EditFacts
  <1>6. /\ new.version = item.version /\ new.conflict = item.conflict
        /\ new.conflictRemoteValue = item.conflictRemoteValue
        /\ new.dirty \/ new = item
    BY <1>5, DirtyFields DEF ReconciledItem
  <1> HIDE DEF new
  <1>7. Latest(k)' = Latest(k)
    BY <1>3 DEF Latest
  <1>8. RowEdits(k)'
    BY <1>3, <1>4, <1>5, <1>6, <1>7 DEF RowEdits, Kept
  <1>9. CallEdits(SyncThread)'
    BY <1>3 DEF CallEdits, Applying
  <1> QED
    BY <1>1, <1>2, <1>3, <1>4, <1>5, <1>6, <1>8, <1>9, SaveEdits

\* An accepted upload replaces a value the row has caught up with.
LEMMA PutEdits ==
  ASSUME EditInv, made' = made, PutAccepted \/ PutResponseLost
  PROVE  EditsSound'
  <1> DEFINE t == SyncThread
             others == Threads \ {t}
  <1>1. /\ TypeOK /\ FreshInv /\ t \in Threads /\ CallSound(t) /\ CallFresh(t)
    BY EditFacts
  <1>2. PICK k \in Keys : k = key[t]
    BY <1>1 DEF PutAccepted, PutResponseLost, CallSound, Locked
  <1>3. \A u \in others : Unmoved(u)
    <2>1. CASE PutAccepted
      BY <1>1, <2>1, SyncUnmoved DEF SyncStep
    <2>2. CASE PutResponseLost
      BY <1>1, <2>2, ReturnUnmoved DEF PutResponseLost, storeVars
    <2> QED
      BY <2>1, <2>2
  <1>4. /\ lock[k] = t /\ Len(srvLog[k]) = items[k].version /\ cur[t] \in Values
        /\ items[k].dirty /\ ~items[k].conflict
        /\ srvLog' = [srvLog EXCEPT ![k] = Append(@, cur[t])]
        /\ UNCHANGED <<items, backend>>
    BY <1>1, <1>2 DEF PutAccepted, PutResponseLost, CallSound, CallFresh, Locked, Accepts,
                      ServerWrite, appVars, storeVars
  <1>5. /\ RowEdits(k) /\ srvLog[k] \in Seq(Values) /\ items[k].version \in Nat
        /\ Len(srvLog[k]) \in Nat
    BY EditFacts
  <1>6. /\ srvLog'[k] = Append(srvLog[k], cur[t])
        /\ \A j \in Keys \ {k} : srvLog'[j] = srvLog[j]
    BY <1>1, <1>4 DEF TypeOK
  <1>7. Len(srvLog'[k]) = Len(srvLog[k]) + 1 /\ Latest(k)' = cur[t]
    BY <1>4, <1>5, <1>6 DEF Latest
  <1>8. Kept(k) /\ Kept(k)'
    BY <1>4, <1>5 DEF RowEdits, Kept
  <1>9. RowEdits(k)'
    BY <1>4, <1>5, <1>7, <1>8 DEF RowEdits, Kept
  <1>10. CallEdits(t)'
    <2>1. \/ pc'[t] = "saveUpload" /\ key'[t] = k /\ cur'[t] = cur[t]
          \/ pc'[t] = "idle"
      BY <1>1, <1>2 DEF PutAccepted, PutResponseLost, Return, Goto, TypeOK, itemVars
    <2> QED
      BY <1>7, <1>8, <2>1 DEF CallEdits, Applying
  <1>11. others \in SUBSET Threads /\ lock[k] \notin others
         /\ \A u \in Threads \ others : CallEdits(u)'
    BY <1>4, <1>10
  <1> HIDE DEF others
  <1> QED
    BY <1>3, <1>4, <1>5, <1>6, <1>7, <1>9, <1>11, ItemEdits

\* An upload is recorded while the server still has its edits.
LEMMA SaveUploadedItemEdits ==
  ASSUME EditInv, made' = made, SaveUploadedItem
  PROVE  EditsSound'
  <1> DEFINE t == SyncThread
  <1>1. /\ TypeOK /\ FreshInv /\ t \in Threads /\ CallSound(t) /\ CallEdits(t)
    BY EditFacts
  <1>2. PICK k \in Keys : k = key[t]
    BY <1>1 DEF SaveUploadedItem, CallSound, Locked
  <1>3. \A u \in Threads \ {t} : Unmoved(u)
    BY <1>1, SyncUnmoved DEF SyncStep
  <1> DEFINE item == items[k]
             new == markItemClean(item, item.version + 1, cur[t])
  <1>4. /\ items' = [items EXCEPT ![k] = new] /\ UNCHANGED <<srvLog, backend>>
        /\ pc[t] = "saveUpload" /\ pc'[t] = "saveHead"
    BY <1>1, <1>2 DEF SaveUploadedItem, Goto, TypeOK, serverVars, appVars
  <1>5. items'[k] = new /\ \A j \in Keys \ {k} : items'[j] = items[j]
    BY <1>1, <1>4 DEF TypeOK
  <1>6. /\ item \in ItemState /\ item.version \in Nat /\ item.version + 1 \in Nat
        /\ cur[t] \in OptValue /\ RowEdits(k)
    <2>1. item \in ItemState /\ item.version \in Nat /\ RowEdits(k)
      BY EditFacts
    <2> QED
      BY <1>1, <2>1 DEF TypeOK
  <1>7. new.version = item.version + 1 /\ new.baseValue = cur[t] /\ ~new.conflict
    BY <1>6, CleanFields
  <1> HIDE DEF new
  <1>8. Latest(k)' = Latest(k)
    BY <1>4 DEF Latest
  <1>9. /\ Edits(cur[t]) \subseteq Edits(Latest(k))
        /\ item.version + 1 = Len(srvLog[k]) => Kept(k)
    BY <1>1, <1>2, <1>4 DEF CallEdits
  <1>10. RowEdits(k)'
    BY <1>4, <1>5, <1>6, <1>7, <1>8, <1>9 DEF RowEdits, Kept
  <1>11. CallEdits(t)'
    BY <1>4 DEF CallEdits, Applying
  <1>12. items'[k].version \in Nat /\ items'[k].version >= items[k].version
    BY <1>5, <1>6, <1>7
  <1> QED
    BY <1>1, <1>3, <1>4, <1>5, <1>10, <1>11, <1>12, SaveEdits

\* The pull phase of any call.
LEMMA PullEdits ==
  ASSUME EditInv, KeepsEdits, made' = made, NEW t \in Threads, PullStep(t)
  PROVE  EditsSound'
  <1>1. \A u \in Threads \ {t} : Unmoved(u)
    BY EditFacts, PullUnmoved
  <1>2. CASE Ends(t)
    BY <1>2, EndsReturn, EndEdits DEF serverVars, appVars, storeVars
  <1>3. CASE SetIfCurrent(t) \/ SaveItem(t)
    BY <1>3, SetIfCurrentEdits, SaveItemEdits
  <1>4. CASE (\E k \in Keys : GetItem(t, k)) \/ BeginApply(t)
    BY <1>1, <1>4, FetchEdits, BeginEdits
  <1>5. CASE \/ ListRemote(t) \/ LoadNamespace(t) \/ GetNamespaceItems(t) \/ ScanItems(t)
             \/ SkipApply(t) \/ SaveCheckpoint(t)
    BY <1>5, PullRestEdits
  <1> QED
    BY <1>2, <1>3, <1>4, <1>5 DEF PullStep, Ends

\* The other writers of the namespace row touch neither items nor what other calls hold.
LEMMA SetupEdits ==
  ASSUME EditInv, made' = made, SetupStep \/ \E t \in Threads : SaveJoined(t)
  PROVE  EditsSound'
  <1>1. TypeOK
    BY EditFacts
  <1>2. ASSUME NEW t \in Threads, SaveJoined(t) PROVE EditsSound'
    BY <1>2, EndEdits DEF SaveJoined, serverVars, appVars
  <1>3. ASSUME NEW t \in Threads, ReadJoined(t) PROVE EditsSound'
    <2>1. UNCHANGED <<srvLog, items, backend>> /\ pc'[t] = "join"
      BY <1>1, <1>3 DEF ReadJoined, Goto, TypeOK, serverVars, appVars, storeVars
    <2>2. \A u \in Threads \ {t} : Unmoved(u)
      BY <1>1, <1>3 DEF ReadJoined, Goto, TypeOK, Unmoved, storeVars, itemVars
    <2> QED
      BY <2>1, <2>2, RestEdits DEF Applying
  <1>4. CASE SaveDefaultNamespace
    <2>1. UNCHANGED <<srvLog, items, backend, lock, pc, itemVars>>
      BY <1>4 DEF SaveDefaultNamespace, serverVars, appVars
    <2>2. EditsSound
      BY EditFacts
    <2>3. \A k \in Keys : RowEdits(k)'
      BY <2>1, <2>2, SameRow DEF EditsSound
    <2>4. \A t \in Threads : CallEdits(t)'
      BY <2>1, <2>2 DEF EditsSound, CallEdits, Kept, Latest, itemVars
    <2> QED
      BY <2>3, <2>4 DEF EditsSound
  <1> QED
    BY <1>2, <1>3, <1>4 DEF SetupStep

\* The snapshot and push phases.
LEMMA SyncEdits ==
  ASSUME EditInv, made' = made, SyncStep
  PROVE  EditsSound'
  <1>0. SyncThread \in Threads
    BY DEF Threads
  <1>1. \A u \in Threads \ {SyncThread} : Unmoved(u)
    BY EditFacts, SyncUnmoved
  <1>2. CASE Ends(SyncThread)
    BY <1>0, <1>2, EndsReturn, EndEdits DEF serverVars, appVars, storeVars
  <1>3. CASE \/ \E k \in Keys : ReconcileSnapshotValue(k)
             \/ PutAccepted \/ SaveUploadedItem
    BY <1>3, ReconcileEdits, PutEdits, SaveUploadedItemEdits
  <1>4. CASE Refetch \/ BeginReapply
    BY <1>0, <1>1, <1>4, FetchEdits, BeginEdits
  <1>5. CASE \/ TakeSnapshot \/ LoadSnapshotScope \/ ListDirtyItems \/ LoadFlushCaches
             \/ \E k \in Keys : SkipUpload(k) \/ BeginUpload(k)
             \/ PutRefused \/ SaveUploadedHead \/ RetryUpload \/ LeaveItem
    BY <1>5, SyncRestEdits
  <1> QED
    BY <1>2, <1>3, <1>4, <1>5 DEF SyncStep, Ends

-----------------------------------------------------------------------------
(* The app, the other devices and restarts *)

\* A step that leaves every call alone and touches one item, either on the app's side
\* or by one more version of the server that keeps its edits.
LEMMA OutsideEdits ==
  ASSUME EditInv, NEW k \in Keys, UNCHANGED <<items, callVars>>, RowEdits(k)',
         \A j \in Keys \ {k} : /\ srvLog'[j] = srvLog[j] /\ backend'[j] = backend[j]
                               /\ made'[j] = made[j],
         \/ srvLog'[k] = srvLog[k] /\ (Kept(k) => Kept(k)')
         \/ /\ Len(srvLog'[k]) = Len(srvLog[k]) + 1
            /\ Edits(Latest(k)) \subseteq Edits(Latest(k)')
  PROVE  EditsSound'
  <1>1. \A u \in Threads : Unmoved(u)
    BY DEF callVars, itemVars, Unmoved
  <1>2. items'[k].version \in Nat /\ items'[k].version >= items[k].version
    BY EditFacts
  <1>3. Threads \in SUBSET Threads
    OBVIOUS
  <1> QED
    BY <1>1, <1>2, <1>3, ItemEdits

\* The app adds an edit, or deletes its value and with it the edits it sees.
LEMMA AppEdits ==
  ASSUME EditInv, KeepsEdits, NEW k \in Keys,
         \/ /\ AppWrite(k)
            /\ made' = [made EXCEPT ![k] = @ \cup (Edits(backend'[k]) \ Edits(backend[k]))]
         \/ /\ AppDelete(k)
            /\ made' = [made EXCEPT ![k] = @ \ Edits(backend[k])]
  PROVE  EditsSound'
  <1>1. TypeOK /\ RowEdits(k) /\ backend[k] \in OptValue /\ DOMAIN made = Keys
    BY EditFacts DEF EditInv
  <1>2. UNCHANGED <<items, srvLog, callVars>>
    BY DEF AppWrite, AppDelete, serverVars, storeVars
  <1>3. PICK v : backend' = [backend EXCEPT ![k] = v]
    BY DEF AppWrite, AppDelete
  <1>4. \A j \in Keys \ {k} : backend'[j] = backend[j] /\ made'[j] = made[j]
    BY <1>1, <1>3 DEF TypeOK
  <1>5. \/ /\ Edits(backend[k]) \subseteq Edits(backend'[k])
           /\ made'[k] \subseteq made[k] \cup Edits(backend'[k])
        \/ made'[k] = made[k] \ Edits(backend[k])
    <2>1. CASE /\ AppWrite(k)
               /\ made' = [made EXCEPT ![k] = @ \cup (Edits(backend'[k]) \ Edits(backend[k]))]
      <3>1. PICK w \in LocalEdits(backend[k]) : backend' = [backend EXCEPT ![k] = w]
        BY <2>1 DEF AppWrite
      <3>2. Edits(backend[k]) \subseteq Edits(w)
        BY <1>1, <3>1 DEF KeepsEdits
      <3>3. backend'[k] = w
        BY <1>1, <3>1 DEF TypeOK
      <3>4. made'[k] = made[k] \cup (Edits(backend'[k]) \ Edits(backend[k]))
        BY <1>1, <2>1
      <3> QED
        BY <3>2, <3>3, <3>4
    <2>2. CASE made' = [made EXCEPT ![k] = @ \ Edits(backend[k])]
      BY <1>1, <2>2
    <2> QED
      BY <2>1, <2>2
  <1>6. Kept(k) => Kept(k)'
    BY <1>5 DEF Kept
  <1>7. Latest(k)' = Latest(k)
    BY <1>2 DEF Latest
  <1>8. made'[k] \subseteq Edits(backend'[k]) \cup Edits(Latest(k))
    BY <1>1, <1>5 DEF RowEdits
  <1>9. RowEdits(k)'
    BY <1>1, <1>2, <1>6, <1>7, <1>8 DEF RowEdits
  <1> QED
    BY <1>2, <1>4, <1>6, <1>9, OutsideEdits

\* Another device adds an edit to what it sees.
LEMMA RemoteEditsKept ==
  ASSUME EditInv, KeepsEdits, NEW k \in Keys, RemoteWrite(k),
         made' = [made EXCEPT ![k] = @ \cup (Edits(Latest(k)') \ Edits(Latest(k)))]
  PROVE  EditsSound'
  <1>1. /\ TypeOK /\ RowEdits(k) /\ DOMAIN made = Keys /\ srvLog[k] \in Seq(Values)
        /\ RowSound(srvLog[k], items[k]) /\ items[k].version \in Nat /\ Len(srvLog[k]) \in Nat
    BY EditFacts DEF EditInv
  <1>2. UNCHANGED <<items, backend, callVars>>
    BY DEF RemoteWrite, appVars, storeVars
  <1>3. Latest(k) \in OptValue
    BY <1>1, LastIsVersion, VersionHasValue DEF Latest, OptValue
  <1>4. PICK v \in RemoteEdits(Latest(k)) : srvLog' = [srvLog EXCEPT ![k] = Append(@, v)]
    BY DEF RemoteWrite, ServerWrite
  <1>5. v \in Values /\ Edits(Latest(k)) \subseteq Edits(v)
    BY <1>3, <1>4, EditAssumption DEF KeepsEdits
  <1>6. /\ srvLog'[k] = Append(srvLog[k], v)
        /\ \A j \in Keys \ {k} : srvLog'[j] = srvLog[j]
    BY <1>1, <1>4 DEF TypeOK
  <1>7. Len(srvLog'[k]) = Len(srvLog[k]) + 1 /\ Latest(k)' = v
    BY <1>1, <1>5, <1>6 DEF Latest
  <1>8. /\ made'[k] = made[k] \cup (Edits(Latest(k)') \ Edits(Latest(k)))
        /\ \A j \in Keys \ {k} : made'[j] = made[j]
    BY <1>1
  <1>9. items[k].version # Len(srvLog'[k])
    BY <1>1, <1>7 DEF RowSound
  <1>10. made'[k] \subseteq Edits(backend[k]) \cup Edits(Latest(k)')
    BY <1>1, <1>5, <1>7, <1>8 DEF RowEdits
  <1>11. RowEdits(k)'
    BY <1>1, <1>2, <1>5, <1>7, <1>9, <1>10 DEF RowEdits
  <1> QED
    BY <1>2, <1>5, <1>6, <1>7, <1>8, <1>11, OutsideEdits

\* A resolution gives up what the app saw on either side and left out of the value it
\* chose; the row is then at a version whose edits are all in that value or given up.
LEMMA ResolveEdits ==
  ASSUME EditInv, NEW k \in Keys, Resolvable(k),
         \/ ResolveConflictPreferLocal(k)
         \/ \E saved \in BOOLEAN :
              ResolveConflictWithValue(k, saved) \/ ResolveConflictPreferRemote(k, saved),
         GiveUp(k, backend'[k])
  PROVE  EditsSound'
  <1> DEFINE item == items[k]
             remote == item.conflictRemoteValue
  <1>1. /\ TypeOK /\ RowEdits(k) /\ DOMAIN made = Keys /\ srvLog[k] \in Seq(Values)
        /\ RowSound(srvLog[k], item) /\ item \in ItemState /\ item.version \in Nat
        /\ NoThread \notin Threads
    BY EditFacts DEF EditInv
  <1>2. /\ item.conflict /\ lock[k] = NoThread /\ UNCHANGED <<srvLog, callVars>>
    BY DEF Resolvable, ResolveConflictPreferLocal, ResolveConflictWithValue,
           ResolveConflictPreferRemote, serverVars
  <1>3. /\ item.conflictRemoteVersion = item.version
        /\ IsVersion(srvLog[k], item.version, remote) /\ remote \in OptValue
        /\ Edits(remote) \subseteq Edits(Latest(k))
    BY <1>1, <1>2, VersionHasValue DEF RowSound, RowEdits, OptValue
  <1>4. item.version = Len(srvLog[k]) => Latest(k) = remote
    BY <1>3 DEF Latest, IsVersion
  <1>5. \A j \in Keys \ {k} : items'[j] = items[j] /\ backend'[j] = backend[j] /\ made'[j] = made[j]
    BY <1>1 DEF ResolveConflictPreferLocal, ResolveConflictWithValue,
                ResolveConflictPreferRemote, GiveUp, TypeOK, appVars
  <1>6. made'[k] = made[k] \ ((Edits(backend[k]) \cup Edits(remote)) \ Edits(backend'[k]))
    BY <1>1 DEF GiveUp
  <1>7. /\ made'[k] \subseteq Edits(backend'[k]) \cup Edits(Latest(k))
        /\ item.version = Len(srvLog[k]) => Kept(k)'
    BY <1>1, <1>4, <1>6 DEF RowEdits, Kept
  <1>8. \/ items'[k] = item
        \/ items'[k] = markItemDirty(clearItemConflict(item))
        \/ items'[k] = markItemClean(item, item.conflictRemoteVersion, remote)
    BY <1>1 DEF ResolveConflictPreferLocal, ResolveConflictWithValue,
                ResolveConflictPreferRemote, TypeOK
  <1>9. Latest(k)' = Latest(k)
    BY <1>2 DEF Latest
  <1>10. RowEdits(k)' /\ items'[k].version = item.version
    <2>1. CASE items'[k] = item
      BY <1>1, <1>2, <1>3, <1>7, <1>9, <2>1 DEF RowEdits, RowSound
    <2>2. CASE items'[k] = markItemDirty(clearItemConflict(item))
      <3>1. /\ items'[k].version = item.version /\ items'[k].dirty /\ ~items'[k].conflict
        BY <1>1, <2>2, ClearFields, DirtyFields
      <3> QED
        BY <1>2, <1>7, <1>9, <3>1 DEF RowEdits
    <2>3. CASE items'[k] = markItemClean(item, item.conflictRemoteVersion, remote)
      <3>1. /\ items'[k].version = item.version /\ items'[k].baseValue = remote
            /\ ~items'[k].conflict
        BY <1>1, <1>3, <2>3, CleanFields
      <3> QED
        BY <1>2, <1>3, <1>7, <1>9, <3>1 DEF RowEdits
    <2> QED
      BY <1>8, <2>1, <2>2, <2>3
  <1>11. \A u \in Threads : Unmoved(u)
    BY <1>1, <1>2, <1>5 DEF callVars, itemVars, Unmoved
  <1>12. Threads \in SUBSET Threads /\ lock[k] \notin Threads
    BY <1>1, <1>2
  <1> QED
    BY <1>1, <1>2, <1>5, <1>10, <1>11, <1>12, ItemEdits

\* A restart, on the stored rows or, after ResetSyncState, on none: a fresh row is only
\* at the server's version when the server has nothing.
LEMMA RestartEdits ==
  ASSUME EditInv, made' = made, Crash \/ ResetSyncState
  PROVE  EditsSound'
  <1>1. /\ UNCHANGED <<srvLog, backend>> /\ \A t \in Threads : pc'[t] = "idle"
        /\ items' = items \/ items' = [k \in Keys |-> NewItem]
    BY DEF Crash, ResetSyncState, Restart, serverVars, storeVars
  <1>2. \A t \in Threads : CallEdits(t)'
    BY <1>1 DEF CallEdits, Applying
  <1>3. ASSUME NEW k \in Keys PROVE RowEdits(k)'
    <2>1. CASE items' = items
      BY <1>1, <2>1, EditFacts, SameRow
    <2>2. CASE items' = [j \in Keys |-> NewItem]
      <3>1. items'[k] = NewItem /\ Latest(k)' = Latest(k)
        BY <1>1, <2>2 DEF Latest
      <3>2. RowEdits(k) /\ srvLog[k] \in Seq(Values)
        BY EditFacts
      <3>3. Len(srvLog[k]) = 0 => Latest(k) = NoValue
        BY <3>2 DEF Latest
      <3>4. Len(srvLog[k]) = 0 => Kept(k)'
        BY <1>1, <3>2, <3>3 DEF RowEdits, Kept, Edits
      <3> QED
        BY <1>1, <3>1, <3>2, <3>4 DEF RowEdits, NewItem, hasMergeBase
    <2> QED
      BY <1>1, <2>1, <2>2
  <1> QED
    BY <1>2, <1>3 DEF EditsSound

\* The set of active keys changes, or nothing does.
LEMMA ScopeEdits ==
  ASSUME EditInv, made' = made, ScopeStep \/ UNCHANGED vars
  PROVE  EditsSound'
  <1>1. UNCHANGED <<srvLog, items, backend, callVars>>
    BY DEF ScopeStep, OpenCollection, ChangeScope, vars, serverVars, appVars, storeVars,
           callVars, itemVars, pullVars, syncVars
  <1>2. SyncThread \in Threads /\ EditsSound
    BY EditFacts
  <1>3. \A k \in Keys : RowEdits(k)'
    BY <1>1, <1>2, SameRow DEF EditsSound
  <1>4. \A t \in Threads : CallEdits(t)'
    BY <1>1, <1>2 DEF EditsSound, CallEdits, Kept, Latest, callVars, itemVars
  <1> QED
    BY <1>3, <1>4 DEF EditsSound

-----------------------------------------------------------------------------
(* The theorem *)

\* Every step of the checked specification is a step of the engine and its environment,
\* when the budget has no rollback of the server.
LEMMA MCStep ==
  ASSUME EditInv, [MCNext]_mcVars
  PROVE  /\ [Next]_vars
         /\ DOMAIN made' = Keys /\ "rollback" \in DOMAIN budget' /\ budget'["rollback"] = 0
  <1>1. "rollback" \in DOMAIN budget /\ budget["rollback"] = 0 /\ DOMAIN made = Keys
    BY DEF EditInv
  <1>2. ~Spend("rollback")
    BY <1>1 DEF Spend
  <1>3. [Next]_vars
    <2>1. MCNext => Next
      BY <1>2, Zenon DEF MCNext, Next, Write, Delete, Resolve, ChangeTheScope, WriteStep,
                         DeleteStep, ResolveStep, ScopeStep
    <2>2. UNCHANGED mcVars => UNCHANGED vars
      BY DEF mcVars
    <2> QED
      BY <2>1, <2>2
  <1>4. \/ budget' = budget
        \/ \E b \in {"app", "remote", "fault", "scope", "resolve", "delete", "reset", "setup"} :
             Spend(b)
    BY <1>2, Zenon DEF MCNext, Write, Delete, Resolve, ChangeTheScope, mcVars
  <1>5. "rollback" \in DOMAIN budget' /\ budget'["rollback"] = 0
    BY <1>1, <1>4 DEF Spend
  <1>6. DOMAIN made' = Keys
    BY <1>1 DEF MCNext, Write, Delete, Resolve, GiveUp, mcVars
  <1> QED
    BY <1>3, <1>5, <1>6

\* Every step keeps the invariant.
LEMMA EditNext == KeepsEdits /\ EditInv /\ [MCNext]_mcVars => EditInv'
  <1> SUFFICES ASSUME KeepsEdits, EditInv, [MCNext]_mcVars PROVE EditInv'
    OBVIOUS
  <1>1. FreshInv'
    BY MCStep, NextReplica DEF EditInv
  <1>2. EditsSound'
    <2>1. CASE EngineStep /\ made' = made
      BY <2>1, PullEdits, SyncEdits, SetupEdits DEF EngineStep
    <2>2. CASE FaultStep /\ made' = made
      <3>1. CASE \E t \in Threads : Fail(t)
        <4>1. PICK t \in Threads : Fail(t)
          BY <3>1
        <4>2. Ends(t)
          BY <4>1 DEF Ends
        <4> QED
          BY <2>2, <4>2, EndsReturn, EndEdits DEF serverVars, appVars, storeVars
      <3> QED
        BY <2>2, <3>1, PutEdits, RestartEdits DEF FaultStep
    <2>3. CASE ChangeTheScope /\ made' = made
      BY <2>3, ScopeEdits DEF ChangeTheScope, ScopeStep
    <2>4. CASE Write \/ Delete
      BY <2>4, AppEdits, RemoteEditsKept DEF Write, Delete
    <2>5. CASE Resolve
      <3>1. PICK k \in Keys :
              \/ ResolveConflictPreferLocal(k) /\ GiveUp(k, backend[k])
              \/ \E saved \in BOOLEAN :
                   \/ ResolveConflictWithValue(k, saved) /\ GiveUp(k, backend'[k])
                   \/ ResolveConflictPreferRemote(k, saved) /\ GiveUp(k, backend'[k])
        BY <2>5 DEF Resolve
      <3>2. Resolvable(k)
        BY <3>1 DEF ResolveConflictPreferLocal, ResolveConflictWithValue,
                    ResolveConflictPreferRemote
      <3>3. GiveUp(k, backend'[k])
        BY <3>1 DEF ResolveConflictPreferLocal, appVars
      <3> QED
        BY <3>1, <3>2, <3>3, ResolveEdits
    <2>6. CASE ResetSyncState /\ made' = made
      BY <2>6, RestartEdits
    <2>7. CASE UNCHANGED mcVars
      BY <2>7, ScopeEdits DEF mcVars
    <2>8. CASE SetupStep /\ made' = made
      BY <2>8, SetupEdits
    <2>9. ~Spend("rollback")
      BY DEF EditInv, Spend
    <2> QED
      BY <2>1, <2>2, <2>3, <2>4, <2>5, <2>6, <2>7, <2>8, <2>9, Zenon DEF MCNext
  <1> QED
    BY <1>1, <1>2, MCStep DEF EditInv

\* A fresh engine and an empty server have no edits to lose.
LEMMA EditInit == MCInit /\ MaxRollbacks = 0 => EditInv
  <1> SUFFICES ASSUME MCInit, MaxRollbacks = 0 PROVE EditInv
    OBVIOUS
  <1>1. FreshInv
    BY InitReplica DEF MCInit
  <1>2. /\ \A k \in Keys : made[k] = {} /\ items[k] = NewItem
        /\ \A t \in Threads : pc[t] = "idle"
        /\ DOMAIN made = Keys
    BY DEF MCInit, Init
  <1>3. "rollback" \in DOMAIN budget /\ budget["rollback"] = 0
    BY DEF MCInit, Budget
  <1>4. EditsSound
    BY <1>2 DEF EditsSound, RowEdits, CallEdits, Kept, Applying, NewItem, hasMergeBase
  <1> QED
    BY <1>1, <1>2, <1>3, <1>4 DEF EditInv

\* For every set of keys and values, every number of concurrent ListNamespaces calls,
\* every backend that implements ConditionalValueBackend and every merge function that
\* keeps the edits of both sides or leaves the conflict to the app: as long as the server
\* does not roll back, an edit that somebody made is in the app's value or in the
\* server's, until the app deletes it or rejects it in a resolution.
THEOREM EditsAreKept == MCSpec /\ KeepsEdits /\ MaxRollbacks = 0 => []NoEditLost
  <1> SUFFICES ASSUME KeepsEdits, MaxRollbacks = 0 PROVE MCSpec => []NoEditLost
    OBVIOUS
  <1>1. EditInv => NoEditLost
    BY DEF EditInv, EditsSound, RowEdits, NoEditLost
  <1>2. MCInit => EditInv
    BY EditInit
  <1>3. EditInv /\ [MCNext]_mcVars => EditInv'
    BY EditNext
  <1> QED
    BY <1>1, <1>2, <1>3, PTL DEF MCSpec

-----------------------------------------------------------------------------
(***************************************************************************)
(* Uploads carry something new, when no ListNamespaces call overlaps with  *)
(* SyncNow and the app only adds edits.  RowEcho says when a row may be    *)
(* dirty: a clean row's base is part of the app's value, and a dirty row   *)
(* at the server's version has an edit the server lacks.  CallEcho says    *)
(* what the running SyncNow knows until it makes a row dirty, clean or     *)
(* uploads it.                                                             *)
(***************************************************************************)

\* The row is at the server's latest version, and that version was applied.
CaughtUp(k) == items[k].version = Len(srvLog[k]) /\ ~items[k].conflict

RowEcho(k) ==
    /\ CaughtUp(k) => Edits(Latest(k)) \subseteq Edits(backend[k])
    /\ CaughtUp(k) /\ items[k].dirty => ~(Edits(backend[k]) \subseteq Edits(Latest(k)))
    /\ ~items[k].dirty =>
          /\ items[k].baseVersion = items[k].version
          /\ Edits(items[k].baseValue) \subseteq Edits(backend[k])

\* The snapshot was taken when clean rows had nothing to upload and the app has only
\* added to it.
SnapshotEcho(k) ==
    snap[k] # NoValue =>
        /\ Edits(snap[k]) \subseteq Edits(backend[k])
        /\ ~items[k].dirty => Edits(items[k].baseValue) \subseteq Edits(snap[k])

\* What was written to the app's storage has the fetched edits, and is still there.
WrittenEcho(k, new, value) ==
    new \in Values /\ Edits(value) \subseteq Edits(new) /\ Edits(new) \subseteq Edits(backend[k])

CallEcho ==
    LET k == key[SyncThread]
        value == got[SyncThread].value
        local == cur[SyncThread]
    IN /\ pc[SyncThread] \in {"scope", "reconcile"} => \A j \in Keys : SnapshotEcho(j)
       /\ pc[SyncThread] = "reconcile" => \A j \in todo[SyncThread] : snap[j] # NoValue
       /\ pc[SyncThread] \in Applying /\ ~items[k].dirty =>
             Edits(items[k].baseValue) \subseteq Edits(value)
       /\ pc[SyncThread] = "save" /\ ApplyWrites(items[k], local, value) =>
             WrittenEcho(k, ApplyValue(items[k], local, value), value)
       /\ pc[SyncThread] = "saveRaced" => items[k].version < got[SyncThread].version
       /\ pc[SyncThread] \in {"put", "saveUpload"} => Edits(local) \subseteq Edits(backend[k])
       /\ pc[SyncThread] = "put" /\ items[k].version = Len(srvLog[k]) =>
             ~(Edits(local) \subseteq Edits(Latest(k)))

EchoSound == (\A k \in Keys : RowEcho(k)) /\ CallEcho

\* The inductive invariant.
EchoInv ==
    /\ EditInv /\ EchoSound /\ Roles
    /\ \A b \in {"delete", "resolve"} : b \in DOMAIN budget /\ budget[b] = 0

\* What every lemma below starts from.
LEMMA EchoFacts ==
  ASSUME EchoInv
  PROVE  /\ EditInv /\ TypeOK /\ FreshInv /\ CallEcho
         /\ Roles /\ SyncThread \in Threads
         /\ CallSound(SyncThread) /\ CallFresh(SyncThread) /\ CallEdits(SyncThread)
         /\ \A k \in Keys : RowEcho(k) /\ RowEdits(k) /\ RowSound(srvLog[k], items[k])
         /\ \A k \in Keys : /\ srvLog[k] \in Seq(Values) /\ Len(srvLog[k]) \in Nat
                            /\ items[k] \in ItemState /\ items[k].version \in Nat
                            /\ backend[k] \in OptValue
  <1>1. EditInv /\ EchoSound /\ Roles /\ SyncThread \in Threads
    BY DEF EchoInv, Threads
  <1> QED
    BY <1>1, EditFacts DEF EchoSound

\* Labels at which CallEcho says nothing.
Silent == Labels \ (Applying \cup {"scope", "reconcile", "saveRaced", "put", "saveUpload"})

\* A step that saves nothing, and leaves the app's storage and the server.
LEMMA QuietEcho ==
  ASSUME EchoInv, UNCHANGED <<srvLog, items, backend>>, CallEcho'
  PROVE  EchoSound'
  <1>1. \A k \in Keys : RowEcho(k)
    BY EchoFacts
  <1>2. \A k \in Keys : Latest(k)' = Latest(k)
    BY DEF Latest
  <1>3. \A k \in Keys : RowEcho(k)'
    BY <1>1, <1>2 DEF RowEcho, CaughtUp
  <1> QED
    BY <1>3 DEF EchoSound

\* It may end at a label at which the call holds nothing that matters here.
LEMMA SilentEcho ==
  ASSUME pc'[SyncThread] \in Silent
  PROVE  CallEcho'
  BY DEF CallEcho, Silent, Applying, Labels

\* A row whose item nobody touched keeps its promise.
LEMMA SameEcho ==
  ASSUME NEW k \in Keys, RowEcho(k), items'[k] = items[k], srvLog'[k] = srvLog[k],
         backend'[k] = backend[k]
  PROVE  RowEcho(k)'
  BY DEF RowEcho, CaughtUp, Latest

\* A step of SyncNow that touches one item.
LEMMA ItemEcho ==
  ASSUME EchoInv, NEW k \in Keys, RowEcho(k)', CallEcho',
         \A j \in Keys \ {k} : /\ items'[j] = items[j] /\ srvLog'[j] = srvLog[j]
                               /\ backend'[j] = backend[j]
  PROVE  EchoSound'
  <1>1. \A j \in Keys : RowEcho(j)'
    BY EchoFacts, SameEcho
  <1> QED
    BY <1>1 DEF EchoSound

\* A call that returns.
LEMMA EndEcho ==
  ASSUME EchoInv, Return(SyncThread, TRUE) \/ Return(SyncThread, FALSE),
         UNCHANGED <<srvLog, items, backend>>
  PROVE  EchoSound'
  <1>1. pc'[SyncThread] = "idle"
    BY EchoFacts DEF TypeOK, Return, Goto
  <1>2. CallEcho'
    BY <1>1, SilentEcho DEF Silent, Labels, Applying
  <1> QED
    BY <1>2, QuietEcho

\* Values that carry the same edits are the same value.
LEMMA SameEdits ==
  ASSUME NEW v \in Values, NEW w \in Values, Edits(v) \subseteq Edits(w),
         Edits(w) \subseteq Edits(v)
  PROVE  v = w
  BY NoValueAssumption DEF Edits

\* The base of a clean row at the server's version is the server's value, and none
\* before the first version.
LEMMA CleanBase ==
  ASSUME EchoInv, NEW k \in Keys, ~items[k].dirty, items[k].version = Len(srvLog[k])
  PROVE  \/ /\ hasMergeBase(items[k]) /\ items[k].baseValue \in Values
            /\ items[k].baseValue = Latest(k)
         \/ ~hasMergeBase(items[k]) /\ Latest(k) = NoValue
  <1>1. /\ items[k] \in ItemState /\ srvLog[k] \in Seq(Values) /\ Len(srvLog[k]) \in Nat
        /\ RowSound(srvLog[k], items[k]) /\ items[k].baseVersion = items[k].version
    BY EchoFacts DEF RowEcho
  <1>2. CASE hasMergeBase(items[k])
    <2>1. IsVersion(srvLog[k], Len(srvLog[k]), items[k].baseValue)
      BY <1>1, <1>2 DEF RowSound
    <2> QED
      BY <1>1, <1>2, <2>1, VersionHasValue DEF IsVersion, Latest
  <1>3. CASE ~hasMergeBase(items[k])
    <2>1. Len(srvLog[k]) = 0
      BY <1>1, <1>3 DEF hasMergeBase
    <2> QED
      BY <1>1, <1>3, <2>1 DEF Latest
  <1> QED
    BY <1>2, <1>3

\* A snapshot value that differs from the base of a clean row carries an edit that the
\* server lacks.
LEMMA ReconcileEcho ==
  ASSUME EchoInv, \A v \in Values : Edits(v) # {}, NEW k \in Keys, ReconcileSnapshotValue(k)
  PROVE  EchoSound'
  <1> DEFINE item == items[k]
             new == ReconciledItem(item, snap[k])
  <1>1. /\ TypeOK /\ RowEcho(k) /\ CallEcho /\ item \in ItemState /\ srvLog[k] \in Seq(Values)
    BY EchoFacts
  <1>2. /\ pc[SyncThread] = "reconcile" /\ pc'[SyncThread] = "reconcile" /\ k \in todo[SyncThread]
        /\ items' = [items EXCEPT ![k] = new] /\ UNCHANGED <<srvLog, backend, snap>>
    BY DEF ReconcileSnapshotValue, serverVars, appVars, syncVars
  <1>3. todo'[SyncThread] \subseteq todo[SyncThread]
    BY <1>1, EchoFacts DEF ReconcileSnapshotValue, TypeOK
  <1>4. items'[k] = new /\ \A j \in Keys \ {k} : items'[j] = items[j]
    BY <1>1, <1>2 DEF TypeOK
  <1>5. /\ \A j \in Keys : SnapshotEcho(j)
        /\ \A j \in todo[SyncThread] : snap[j] # NoValue
    BY <1>1, <1>2 DEF CallEcho
  <1>6. /\ new.version = item.version /\ new.conflict = item.conflict
        /\ new.dirty \/ new = item
    BY <1>1, DirtyFields DEF ReconciledItem
  <1>7. CallEcho'
    <2>1. SnapshotEcho(k)'
      BY <1>2, <1>4, <1>5, <1>6 DEF SnapshotEcho
    <2>2. \A j \in Keys : SnapshotEcho(j)'
      BY <1>2, <1>4, <1>5, <2>1 DEF SnapshotEcho
    <2> QED
      BY <1>2, <1>3, <1>5, <2>2 DEF CallEcho, Applying
  <1>8. CASE new = item
    <2>1. RowEcho(k)'
      BY <1>1, <1>2, <1>4, <1>8, SameEcho
    <2> QED
      BY <1>2, <1>4, <1>7, <2>1, ItemEcho
  <1>9. CASE new # item
    <2>1. ~item.dirty /\ ~(hasMergeBase(item) /\ snap[k] = item.baseValue)
      BY <1>9 DEF ReconciledItem
    <2>2. /\ snap[k] \in Values /\ Edits(snap[k]) \subseteq Edits(backend[k])
          /\ Edits(item.baseValue) \subseteq Edits(snap[k])
      BY <1>1, <1>2, <1>5, <2>1 DEF SnapshotEcho, TypeOK, OptValue
    <2>3. ASSUME item.version = Len(srvLog[k])
          PROVE  ~(Edits(snap[k]) \subseteq Edits(Latest(k)))
      <3>1. CASE Latest(k) = NoValue
        BY <2>2, <3>1 DEF Edits
      <3>2. CASE hasMergeBase(item) /\ item.baseValue \in Values /\ item.baseValue = Latest(k)
        BY <2>1, <2>2, <3>2, SameEdits
      <3> QED
        BY <2>1, <2>3, <3>1, <3>2, CleanBase
    <2> HIDE DEF new
    <2>4. Latest(k)' = Latest(k)
      BY <1>2 DEF Latest
    <2>5. RowEcho(k)'
      BY <1>1, <1>2, <1>4, <1>6, <1>9, <2>2, <2>3, <2>4 DEF RowEcho, CaughtUp
    <2> QED
      BY <1>2, <1>4, <1>7, <2>5, ItemEcho
  <1> QED
    BY <1>8, <1>9

\* The snapshot is taken under nothing, and is the app's storage at that instant.
LEMMA SnapshotEchoes ==
  ASSUME EchoInv, TakeSnapshot \/ LoadSnapshotScope
  PROVE  EchoSound'
  <1>1. TypeOK /\ CallEcho /\ \A k \in Keys : RowEcho(k)
    BY EchoFacts
  <1>2. UNCHANGED <<srvLog, items, backend>> /\ SyncThread \in Threads
    BY DEF TakeSnapshot, LoadSnapshotScope, serverVars, appVars, storeVars, Threads
  <1>3. CallEcho'
    <2>1. CASE TakeSnapshot
      <3>1. pc'[SyncThread] = "scope" /\ (snap' = NoSnapshot \/ snap' = backend)
        BY <1>1, <1>2, <2>1 DEF TakeSnapshot, Goto, TypeOK
      <3>2. \A j \in Keys : SnapshotEcho(j)'
        BY <1>1, <1>2, <3>1 DEF SnapshotEcho, RowEcho, NoSnapshot
      <3> QED
        BY <3>1, <3>2 DEF CallEcho, Applying
    <2>2. CASE LoadSnapshotScope
      <3>1. /\ pc[SyncThread] = "scope" /\ pc'[SyncThread] = "reconcile" /\ snap' = snap
            /\ todo'[SyncThread] = {k \in Active(scope) : snap[k] # NoValue}
        BY <1>1, <1>2, <2>2 DEF LoadSnapshotScope, Goto, TypeOK, syncVars
      <3>2. \A j \in Keys : SnapshotEcho(j)'
        BY <1>1, <1>2, <3>1 DEF CallEcho, SnapshotEcho
      <3> QED
        BY <3>1, <3>2 DEF CallEcho, Applying
    <2> QED
      BY <2>1, <2>2
  <1> QED
    BY <1>2, <1>3, QuietEcho

\* What is fetched has the edits of a clean row's base.
LEMMA FetchEcho ==
  ASSUME EchoInv, (\E k \in Keys : GetItem(SyncThread, k)) \/ Refetch
  PROVE  EchoSound'
  <1> DEFINE t == SyncThread
  <1>1. TypeOK /\ CallSound(t) /\ SyncThread \in Threads
    BY EchoFacts
  <1>2. PICK k \in Keys : key'[t] = k /\ got'[t] = [version |-> Len(srvLog[k]), value |-> Latest(k)]
    BY <1>1 DEF GetItem, Refetch, TypeOK, CallSound, Locked
  <1>3. pc'[t] \in {"apply", "reapply"} /\ UNCHANGED <<srvLog, items, backend>>
    BY <1>1 DEF GetItem, Refetch, Goto, TypeOK, serverVars, appVars, storeVars
  <1>4. ~items[k].dirty => Edits(items[k].baseValue) \subseteq Edits(Latest(k))
    <2>1. ~hasMergeBase(items[k]) => Edits(items[k].baseValue) = {}
      BY DEF hasMergeBase, Edits
    <2> QED
      BY <2>1, EchoFacts DEF RowEdits
  <1>5. CallEcho'
    BY <1>2, <1>3, <1>4 DEF CallEcho
  <1> QED
    BY <1>3, <1>5, QuietEcho

\* A value that is not to be applied promises nothing of the app's storage.
LEMMA BeginEcho ==
  ASSUME EchoInv, BeginApply(SyncThread) \/ BeginReapply
  PROVE  EchoSound'
  <1> DEFINE t == SyncThread
  <1>1. TypeOK /\ CallEcho /\ SyncThread \in Threads
    BY EchoFacts
  <1>2. UNCHANGED <<srvLog, items, backend, key, got>>
    BY DEF BeginApply, BeginReapply, serverVars, appVars, storeVars
  <1>3. pc[t] \in Applying
    BY DEF BeginApply, BeginReapply, Applying
  <1>4. cur'[t] = backend[key[t]] /\ pc'[t] = ReadForApply(t)
    BY <1>1 DEF BeginApply, BeginReapply, Goto, TypeOK
  <1>5. ASSUME pc'[t] = "save"
        PROVE  ~ApplyWrites(items[key[t]], cur'[t], got[t].value)
    BY <1>4, <1>5 DEF ReadForApply
  <1>6. pc'[t] \in {"set", "save"}
    BY <1>4 DEF ReadForApply
  <1>7. CallEcho'
    BY <1>1, <1>2, <1>3, <1>5, <1>6 DEF CallEcho
  <1> QED
    BY <1>2, <1>7, QuietEcho

\* An upload is decided on for a row that has something new.
LEMMA UploadEcho ==
  ASSUME EchoInv, (\E k \in Keys : BeginUpload(k)) \/ RetryUpload
  PROVE  EchoSound'
  <1> DEFINE t == SyncThread
  <1>1. TypeOK /\ CallSound(t) /\ SyncThread \in Threads
    BY EchoFacts
  <1>2. PICK k \in Keys : key'[t] = k /\ cur'[t] = backend[k] /\ NeedsUpload(k)
    BY <1>1 DEF BeginUpload, RetryUpload, TypeOK, CallSound, Locked
  <1>3. pc'[t] = "put" /\ UNCHANGED <<srvLog, items, backend>>
    BY <1>1 DEF BeginUpload, RetryUpload, Goto, TypeOK, serverVars, appVars, storeVars
  <1>4. RowEcho(k) /\ items[k].dirty /\ ~items[k].conflict
    BY <1>2, EchoFacts DEF NeedsUpload
  <1>5. Latest(k)' = Latest(k)
    BY <1>3 DEF Latest
  <1>6. CallEcho'
    BY <1>2, <1>3, <1>4, <1>5 DEF CallEcho, RowEcho, CaughtUp, Applying
  <1> QED
    BY <1>3, <1>6, QuietEcho

\* The rest of SyncNow that saves no row.
LEMMA RestEcho ==
  ASSUME EchoInv,
         \/ ListRemote(SyncThread) \/ LoadNamespace(SyncThread)
         \/ GetNamespaceItems(SyncThread) \/ ScanItems(SyncThread)
         \/ SkipApply(SyncThread) \/ SaveCheckpoint(SyncThread)
         \/ ListDirtyItems \/ LoadFlushCaches \/ \E k \in Keys : SkipUpload(k)
         \/ PutRefused \/ SaveUploadedHead \/ LeaveItem
  PROVE  EchoSound'
  <1>1. TypeOK /\ SyncThread \in Threads
    BY EchoFacts
  <1>2. UNCHANGED <<srvLog, items, backend>>
    BY DEF ListRemote, LoadNamespace, GetNamespaceItems, ScanItems, SkipApply, SaveCheckpoint,
           ListDirtyItems, LoadFlushCaches, SkipUpload, PutRefused, SaveUploadedHead, LeaveItem,
           serverVars, appVars, storeVars
  <1>3. pc'[SyncThread] \in Silent
    BY <1>1 DEF ListRemote, LoadNamespace, GetNamespaceItems, ScanItems, SkipApply,
                SaveCheckpoint, ListDirtyItems, LoadFlushCaches, SkipUpload, PutRefused,
                SaveUploadedHead, LeaveItem, Goto, TypeOK, Silent, Labels, Applying
  <1> QED
    BY <1>2, <1>3, SilentEcho, QuietEcho

\* The value that replaces the app's has the edits of a clean row's base.
LEMMA SetIfCurrentEcho ==
  ASSUME EchoInv, KeepsEdits, SetIfCurrent(SyncThread)
  PROVE  EchoSound'
  <1> DEFINE t == SyncThread
  <1>1. TypeOK /\ CallSound(t) /\ CallFresh(t) /\ CallEcho /\ SyncThread \in Threads
    BY EchoFacts
  <1>2. PICK k \in Keys : k = key[t]
    BY <1>1 DEF SetIfCurrent, CallSound, Locked
  <1>3. pc[t] = "set" /\ UNCHANGED <<srvLog, items, key, got, cur>>
    BY DEF SetIfCurrent, serverVars, storeVars, itemVars
  <1>4. /\ items[k] \in ItemState /\ items[k].version \in Nat /\ Len(srvLog[k]) \in Nat
        /\ srvLog[k] \in Seq(Values)
    BY EchoFacts
  <1>5. IsVersion(srvLog[k], got[t].version, got[t].value) /\ items[k].version < got[t].version
    BY <1>1, <1>2, <1>3 DEF CallSound, CallFresh, Fetched
  <1>6. /\ got[t].version \in Nat /\ got[t].version <= Len(srvLog[k]) /\ got[t].value \in Values
    BY <1>4, <1>5, VersionHasValue
  <1>7. CASE backend[k] # cur[t]
    <2>1. backend' = backend /\ pc'[t] = "saveRaced"
      BY <1>1, <1>2, <1>7 DEF SetIfCurrent, Goto, TypeOK, KeepsEdits
    <2>2. CallEcho'
      BY <1>2, <1>3, <1>5, <2>1 DEF CallEcho, Applying
    <2> QED
      BY <1>3, <2>1, <2>2, QuietEcho
  <1>8. CASE backend[k] = cur[t]
    <2> DEFINE new == ApplyValue(items[k], cur[t], got[t].value)
    <2>1. backend' = [backend EXCEPT ![k] = new] /\ pc'[t] = "save"
      BY <1>1, <1>2, <1>8 DEF SetIfCurrent, Goto, TypeOK
    <2>2. backend'[k] = new /\ \A j \in Keys \ {k} : backend'[j] = backend[j]
      BY <1>1, <2>1 DEF TypeOK
    <2>3. Edits(got[t].value) \subseteq Edits(new)
      BY <1>2, <1>3, <1>8, AppliedValueKeeps, EchoFacts
    <2>4. new \in Values
      BY <1>1, <1>2, <1>3, <1>4, <1>6, ApplyValueType DEF CallSound, TypeOK
    <2>5. ~items[k].dirty => Edits(items[k].baseValue) \subseteq Edits(got[t].value)
      BY <1>1, <1>2, <1>3 DEF CallEcho, Applying
    <2>6. RowEcho(k)'
      <3>1. ~items[k].dirty => Edits(items[k].baseValue) \subseteq Edits(new)
        BY <2>3, <2>5
      <3>2. RowEcho(k) /\ items[k].version # Len(srvLog[k])
        BY <1>4, <1>5, <1>6, EchoFacts
      <3> HIDE DEF new
      <3> QED
        BY <1>3, <2>2, <3>1, <3>2 DEF RowEcho, CaughtUp
    <2>7. CallEcho'
      <3>1. WrittenEcho(k, new, got[t].value)'
        BY <1>3, <2>2, <2>3, <2>4 DEF WrittenEcho
      <3> QED
        BY <1>2, <1>3, <2>1, <2>5, <3>1 DEF CallEcho, Applying
    <2> QED
      BY <1>3, <2>2, <2>6, <2>7, ItemEcho
  <1> QED
    BY <1>7, <1>8

\* What the metadata functions make of the base.
LEMMA CleanBaseFields ==
  ASSUME NEW item \in ItemState, NEW v \in Nat, NEW y \in OptValue
  PROVE  /\ ~markItemClean(item, v, y).dirty
         /\ markItemClean(item, v, y).baseVersion = v
  BY DEF ItemState, clearItemConflict, markItemClean, WithBase

\* A row is dirty after an apply only when the app's value has more than what was
\* fetched.
LEMMA SaveItemEcho ==
  ASSUME EchoInv, SaveItem(SyncThread)
  PROVE  EchoSound'
  <1> DEFINE t == SyncThread
  <1>1. TypeOK /\ CallSound(t) /\ CallEcho /\ SyncThread \in Threads
    BY EchoFacts
  <1>2. PICK k \in Keys : k = key[t]
    BY <1>1 DEF SaveItem, CallSound, Locked
  <1> DEFINE item == items[k]
             version == got[t].version
             value == got[t].value
             written == ApplyValue(item, cur[t], value)
             new == IF pc[t] = "save" THEN AppliedItem(item, cur[t], version, value)
                                      ELSE RacedItem(item)
  <1>3. /\ pc[t] \in {"save", "saveRaced"} /\ pc'[t] \in {"retry", "pull"}
        /\ UNCHANGED <<srvLog, backend>> /\ items' = [items EXCEPT ![k] = new]
    BY <1>1, <1>2 DEF SaveItem, Goto, TypeOK, serverVars, appVars
  <1>4. items'[k] = new /\ \A j \in Keys \ {k} : items'[j] = items[j]
    BY <1>1, <1>3 DEF TypeOK
  <1>5. /\ item \in ItemState /\ item.version \in Nat /\ srvLog[k] \in Seq(Values)
        /\ Len(srvLog[k]) \in Nat /\ RowEcho(k)
    BY EchoFacts
  <1>6. IsVersion(srvLog[k], version, value)
    BY <1>1, <1>2, <1>3 DEF CallSound, Fetched
  <1>7. version \in Nat /\ version <= Len(srvLog[k]) /\ value \in Values /\ value \in OptValue
    BY <1>5, <1>6, VersionHasValue DEF OptValue
  <1>8. CallEcho'
    BY <1>3, SilentEcho DEF Silent, Labels, Applying
  <1>9. Latest(k)' = Latest(k) /\ (version = Len(srvLog[k]) => Latest(k) = value)
    BY <1>3, <1>5, <1>6 DEF Latest, IsVersion
  <1>10. RowEcho(k)'
    <2>1. CASE pc[t] = "saveRaced"
      <3>1. item.version < version
        BY <1>1, <1>2, <2>1 DEF CallEcho
      <3>2. new.version = item.version /\ new.dirty
        BY <1>5, <2>1, DirtyFields DEF RacedItem
      <3> HIDE DEF new
      <3> QED
        BY <1>3, <1>4, <1>5, <1>7, <3>1, <3>2 DEF RowEcho, CaughtUp
    <2>2. CASE pc[t] = "save" /\ ~ApplyWrites(item, cur[t], value)
      <3>1. new = markItemConflict(item, version, value)
        BY <2>2 DEF AppliedItem
      <3>2. new.dirty /\ new.conflict
        BY <1>5, <1>7, <3>1, ConflictFields
      <3> HIDE DEF new
      <3> QED
        BY <1>4, <3>2 DEF RowEcho, CaughtUp
    <2>3. CASE pc[t] = "save" /\ ApplyWrites(item, cur[t], value)
      <3>1. WrittenEcho(k, written, value)
        BY <1>1, <1>2, <2>3 DEF CallEcho
      <3>2. \/ new = markItemClean(item, version, value)
            \/ new = markItemDirtyWithBase(item, version, value) /\ written # value
        BY <2>3 DEF AppliedItem
      <3>3. Edits(value) \subseteq Edits(backend[k])
        BY <3>1 DEF WrittenEcho
      <3>4. written # value => ~(Edits(backend[k]) \subseteq Edits(value))
        BY <1>7, <3>1, SameEdits DEF WrittenEcho
      <3> HIDE DEF new, written
      <3>5. CASE new = markItemClean(item, version, value)
        <4>1. /\ new.version = version /\ new.baseValue = value /\ ~new.conflict
              /\ ~new.dirty /\ new.baseVersion = version
          BY <1>5, <1>7, <3>5, CleanFields, CleanBaseFields
        <4> QED
          BY <1>3, <1>4, <1>9, <3>3, <4>1 DEF RowEcho, CaughtUp
      <3>6. CASE new = markItemDirtyWithBase(item, version, value) /\ written # value
        <4>1. new.version = version /\ new.dirty
          BY <1>5, <1>7, <3>6, DirtyWithBaseFields
        <4> QED
          BY <1>3, <1>4, <1>9, <3>3, <3>4, <3>6, <4>1 DEF RowEcho, CaughtUp
      <3> QED
        BY <3>2, <3>5, <3>6
    <2> QED
      BY <1>3, <2>1, <2>2, <2>3
  <1> QED
    BY <1>3, <1>4, <1>8, <1>10, ItemEcho

\* An accepted upload puts the server ahead of the row until it is recorded.
LEMMA PutEcho ==
  ASSUME EchoInv, PutAccepted \/ PutResponseLost
  PROVE  EchoSound'
  <1> DEFINE t == SyncThread
  <1>1. TypeOK /\ CallSound(t) /\ CallEcho /\ SyncThread \in Threads
    BY EchoFacts
  <1>2. PICK k \in Keys : k = key[t]
    BY <1>1 DEF PutAccepted, PutResponseLost, CallSound, Locked
  <1>3. /\ Len(srvLog[k]) = items[k].version /\ cur[t] \in Values /\ pc[t] = "put"
        /\ srvLog' = [srvLog EXCEPT ![k] = Append(@, cur[t])]
        /\ UNCHANGED <<items, backend>>
    BY <1>1, <1>2 DEF PutAccepted, PutResponseLost, CallSound, Accepts, ServerWrite, appVars,
                      storeVars
  <1>4. RowEcho(k) /\ srvLog[k] \in Seq(Values) /\ Len(srvLog[k]) \in Nat
    BY EchoFacts
  <1>5. srvLog'[k] = Append(srvLog[k], cur[t]) /\ \A j \in Keys \ {k} : srvLog'[j] = srvLog[j]
    BY <1>1, <1>3 DEF TypeOK
  <1>6. Len(srvLog'[k]) # items[k].version
    BY <1>3, <1>4, <1>5
  <1>7. RowEcho(k)'
    BY <1>3, <1>4, <1>6 DEF RowEcho, CaughtUp
  <1>8. CallEcho'
    <2>1. \/ pc'[t] = "saveUpload" /\ key'[t] = k /\ cur'[t] = cur[t]
          \/ pc'[t] = "idle"
      BY <1>1, <1>2 DEF PutAccepted, PutResponseLost, Return, Goto, TypeOK, itemVars
    <2>2. Edits(cur[t]) \subseteq Edits(backend[k])
      BY <1>1, <1>2, <1>3 DEF CallEcho
    <2> QED
      BY <1>3, <2>1, <2>2 DEF CallEcho, Applying
  <1> QED
    BY <1>3, <1>5, <1>7, <1>8, ItemEcho

\* An upload that is recorded makes the row clean, at a value the app still has.
LEMMA SaveUploadedItemEcho ==
  ASSUME EchoInv, SaveUploadedItem
  PROVE  EchoSound'
  <1> DEFINE t == SyncThread
  <1>1. TypeOK /\ CallSound(t) /\ CallEcho /\ SyncThread \in Threads
    BY EchoFacts
  <1>2. PICK k \in Keys : k = key[t]
    BY <1>1 DEF SaveUploadedItem, CallSound, Locked
  <1> DEFINE item == items[k]
             new == markItemClean(item, item.version + 1, cur[t])
  <1>3. /\ items' = [items EXCEPT ![k] = new] /\ UNCHANGED <<srvLog, backend>>
        /\ pc[t] = "saveUpload" /\ pc'[t] = "saveHead"
    BY <1>1, <1>2 DEF SaveUploadedItem, Goto, TypeOK, serverVars, appVars
  <1>4. items'[k] = new /\ \A j \in Keys \ {k} : items'[j] = items[j]
    BY <1>1, <1>3 DEF TypeOK
  <1>5. /\ item \in ItemState /\ item.version + 1 \in Nat /\ cur[t] \in OptValue
        /\ srvLog[k] \in Seq(Values)
    BY <1>1, EchoFacts DEF TypeOK
  <1>6. /\ new.version = item.version + 1 /\ new.baseValue = cur[t] /\ ~new.conflict
        /\ ~new.dirty /\ new.baseVersion = item.version + 1
    BY <1>5, CleanFields, CleanBaseFields
  <1> HIDE DEF new
  <1>7. /\ IsVersion(srvLog[k], item.version + 1, cur[t])
        /\ Edits(cur[t]) \subseteq Edits(backend[k])
    BY <1>1, <1>2, <1>3 DEF CallSound, CallEcho
  <1>8. Latest(k)' = Latest(k) /\ (item.version + 1 = Len(srvLog[k]) => Latest(k) = cur[t])
    BY <1>3, <1>5, <1>7 DEF Latest, IsVersion
  <1>9. RowEcho(k)'
    BY <1>3, <1>4, <1>6, <1>7, <1>8 DEF RowEcho, CaughtUp
  <1>10. CallEcho'
    BY <1>3, SilentEcho DEF Silent, Labels, Applying
  <1> QED
    BY <1>3, <1>4, <1>9, <1>10, ItemEcho

\* A call of JoinNamespace moves nothing of SyncNow, and DefaultNamespace only the row.
LEMMA SetupEcho ==
  ASSUME EchoInv,
         \/ SetupStep
         \/ \E t \in Threads \ {SyncThread} : SaveJoined(t) \/ Fail(t)
  PROVE  EchoSound'
  <1>1. TypeOK /\ Roles /\ SyncThread \in Threads /\ CallEcho
    BY EchoFacts
  <1>2. SyncStill
    BY <1>1, SetupStill
  <1>3. CallEcho'
    BY <1>1, <1>2 DEF SyncStill, CallEcho, SnapshotEcho, WrittenEcho, Latest
  <1> QED
    BY <1>2, <1>3, QuietEcho DEF SyncStill

\* Every step of SyncNow.
LEMMA EngineEcho ==
  ASSUME EchoInv, KeepsEdits, \A v \in Values : Edits(v) # {}, EngineStep
  PROVE  EchoSound'
  <1>1. Roles /\ SyncThread \in Threads
    BY EchoFacts
  <1>2. CASE Ends(SyncThread)
    BY <1>1, <1>2, EndsReturn, EndEcho DEF serverVars, appVars, storeVars
  <1>3. CASE \/ PullStep(SyncThread) /\ ~Ends(SyncThread)
             \/ SyncStep /\ ~Ends(SyncThread)
    <2>1. CASE \/ \E k \in Keys : ReconcileSnapshotValue(k)
               \/ TakeSnapshot \/ LoadSnapshotScope
      BY <2>1, ReconcileEcho, SnapshotEchoes
    <2>2. CASE \/ SetIfCurrent(SyncThread) \/ SaveItem(SyncThread)
               \/ PutAccepted \/ SaveUploadedItem
      BY <2>2, SetIfCurrentEcho, SaveItemEcho, PutEcho, SaveUploadedItemEcho
    <2>3. CASE \/ \E k \in Keys : GetItem(SyncThread, k) \/ BeginUpload(k)
               \/ Refetch \/ BeginApply(SyncThread) \/ BeginReapply \/ RetryUpload
      BY <2>3, FetchEcho, BeginEcho, UploadEcho
    <2>4. CASE \/ ListRemote(SyncThread) \/ LoadNamespace(SyncThread)
               \/ GetNamespaceItems(SyncThread) \/ ScanItems(SyncThread)
               \/ SkipApply(SyncThread) \/ SaveCheckpoint(SyncThread)
               \/ ListDirtyItems \/ LoadFlushCaches \/ \E k \in Keys : SkipUpload(k)
               \/ PutRefused \/ SaveUploadedHead \/ LeaveItem
      BY <2>4, RestEcho
    <2> QED
      BY <1>3, <2>1, <2>2, <2>3, <2>4 DEF PullStep, SyncStep, Ends
  <1>4. ASSUME NEW t \in Threads, PullStep(t) \/ SaveJoined(t) PROVE EchoSound'
    <2>1. PullStep(t) => t = SyncThread
      BY <1>1, RoleOf
    <2>2. SaveJoined(t) => t # SyncThread
      BY <1>1, RoleOf
    <2> QED
      BY <1>2, <1>3, <1>4, <2>1, <2>2, SetupEcho
  <1> QED
    BY <1>2, <1>3, <1>4 DEF EngineStep

\* The app adds an edit: what it had at the snapshot, at a write or at the start of an
\* upload is still there.
LEMMA AppWriteEcho ==
  ASSUME EchoInv, KeepsEdits, NEW k \in Keys, AppWrite(k)
  PROVE  EchoSound'
  <1>1. TypeOK /\ CallEcho /\ \A j \in Keys : RowEcho(j)
    BY EchoFacts
  <1>2. UNCHANGED <<srvLog, items, callVars>>
    BY DEF AppWrite, serverVars, storeVars
  <1>3. PICK v \in LocalEdits(backend[k]) : backend' = [backend EXCEPT ![k] = v]
    BY DEF AppWrite
  <1>4. \A j \in Keys : Edits(backend[j]) \subseteq Edits(backend'[j])
    <2>1. backend[k] \in OptValue
      BY EchoFacts
    <2>2. Edits(backend[k]) \subseteq Edits(v)
      BY <1>3, <2>1 DEF KeepsEdits
    <2> QED
      BY <1>1, <1>3, <2>2 DEF TypeOK
  <1>5. \A j \in Keys : Latest(j)' = Latest(j)
    BY <1>2 DEF Latest
  <1>6. \A j \in Keys : RowEcho(j)'
    BY <1>1, <1>2, <1>4, <1>5 DEF RowEcho, CaughtUp
  <1>7. CallEcho'
    <2>1. /\ pc' = pc /\ key' = key /\ got' = got /\ cur' = cur /\ snap' = snap /\ todo' = todo
          /\ items' = items
      BY <1>2 DEF callVars, itemVars, syncVars
    <2>2. \A j \in Keys : SnapshotEcho(j) => SnapshotEcho(j)'
      BY <1>4, <2>1 DEF SnapshotEcho
    <2>3. \A j \in Keys : \A new, value : WrittenEcho(j, new, value) =>
             /\ new \in Values /\ Edits(value) \subseteq Edits(new)
             /\ Edits(new) \subseteq Edits(backend'[j])
      BY <1>4 DEF WrittenEcho
    <2>4. CASE pc[SyncThread] \in {"scope", "reconcile"}
      BY <1>1, <2>1, <2>2, <2>4 DEF CallEcho, Applying
    <2>5. CASE pc[SyncThread] \in Silent
      BY <2>1, <2>5, SilentEcho
    <2>6. CASE pc[SyncThread] \in Applying \cup {"saveRaced", "put", "saveUpload"}
      <3> PICK j \in Keys : j = key[SyncThread]
        BY <2>6, EchoFacts DEF CallSound, Fetched, Locked, Applying
      <3> DEFINE value == got[SyncThread].value
                 new == ApplyValue(items[j], cur[SyncThread], value)
      <3>1. ASSUME pc[SyncThread] = "save", ApplyWrites(items[j], cur[SyncThread], value)
            PROVE  WrittenEcho(j, new, value)'
        <4>1. WrittenEcho(j, new, value)
          BY <1>1, <3>1 DEF CallEcho
        <4> QED
          BY <2>1, <2>3, <4>1 DEF WrittenEcho
      <3>2. pc[SyncThread] \in {"put", "saveUpload"} =>
               Edits(cur[SyncThread]) \subseteq Edits(backend'[j])
        BY <1>1, <1>4 DEF CallEcho
      <3> QED
        BY <1>1, <1>2, <1>5, <2>1, <2>6, <3>1, <3>2 DEF CallEcho, Applying
    <2> QED
      BY <2>4, <2>5, <2>6, EchoFacts DEF TypeOK, Silent
  <1> QED
    BY <1>6, <1>7 DEF EchoSound

\* Another device writes: the row is behind, and the upload in progress refused.
LEMMA RemoteWriteEcho ==
  ASSUME EchoInv, NEW k \in Keys, RemoteWrite(k)
  PROVE  EchoSound'
  <1>1. /\ TypeOK /\ CallEcho /\ srvLog[k] \in Seq(Values) /\ Len(srvLog[k]) \in Nat
        /\ \A j \in Keys : RowEcho(j)
        /\ RowSound(srvLog[k], items[k]) /\ items[k].version \in Nat
    BY EchoFacts
  <1>2. UNCHANGED <<items, backend, callVars>>
    BY DEF RemoteWrite, appVars, storeVars
  <1>3. PICK v : srvLog' = [srvLog EXCEPT ![k] = Append(@, v)]
    BY DEF RemoteWrite, ServerWrite
  <1>4. srvLog'[k] = Append(srvLog[k], v) /\ \A j \in Keys \ {k} : srvLog'[j] = srvLog[j]
    BY <1>1, <1>3 DEF TypeOK
  <1>5. items[k].version # Len(srvLog'[k])
    BY <1>1, <1>4 DEF RowSound
  <1>6. RowEcho(k)'
    BY <1>1, <1>2, <1>5 DEF RowEcho, CaughtUp
  <1>7. \A j \in Keys : RowEcho(j)'
    BY <1>1, <1>2, <1>4, <1>6, SameEcho
  <1>8. CallEcho'
    <2>1. /\ pc' = pc /\ key' = key /\ got' = got /\ cur' = cur /\ snap' = snap /\ todo' = todo
      BY <1>2 DEF callVars, itemVars, syncVars
    <2>2. \A j \in Keys : SnapshotEcho(j) => SnapshotEcho(j)'
      BY <1>2, <2>1 DEF SnapshotEcho
    <2>3. \A j \in Keys : items[j].version = Len(srvLog'[j]) =>
             items[j].version = Len(srvLog[j]) /\ Latest(j)' = Latest(j)
      BY <1>4, <1>5 DEF Latest
    <2>4. pc[SyncThread] = "put" => key[SyncThread] \in Keys
      BY EchoFacts DEF CallSound, Locked
    <2> QED
      BY <1>1, <1>2, <2>1, <2>2, <2>3, <2>4 DEF CallEcho, Applying, WrittenEcho
  <1> QED
    BY <1>7, <1>8 DEF EchoSound

\* A restart, on the stored rows or, after ResetSyncState, on none.
LEMMA RestartEcho ==
  ASSUME EchoInv, Crash \/ ResetSyncState
  PROVE  EchoSound'
  <1>1. /\ UNCHANGED <<srvLog, backend>> /\ pc'[SyncThread] = "idle"
        /\ items' = items \/ items' = [k \in Keys |-> NewItem]
    BY EchoFacts DEF Crash, ResetSyncState, Restart, serverVars, storeVars
  <1>2. CallEcho'
    BY <1>1, SilentEcho DEF Silent, Labels, Applying
  <1>3. ASSUME NEW k \in Keys PROVE RowEcho(k)'
    <2>1. CASE items' = items
      BY <1>1, <2>1, EchoFacts, SameEcho
    <2>2. CASE items' = [j \in Keys |-> NewItem]
      <3>1. items'[k] = NewItem /\ Latest(k)' = Latest(k) /\ srvLog[k] \in Seq(Values)
        BY <1>1, <2>2, EchoFacts DEF Latest
      <3>2. Len(srvLog[k]) = 0 => Latest(k) = NoValue
        BY <3>1 DEF Latest
      <3> QED
        BY <1>1, <3>1, <3>2 DEF RowEcho, CaughtUp, NewItem, Edits
    <2> QED
      BY <1>1, <2>1, <2>2
  <1> QED
    BY <1>2, <1>3 DEF EchoSound

\* The set of active keys changes, or nothing does.
LEMMA ScopeEcho ==
  ASSUME EchoInv, ScopeStep \/ UNCHANGED vars
  PROVE  EchoSound'
  <1>1. UNCHANGED <<srvLog, items, backend, callVars>>
    BY DEF ScopeStep, OpenCollection, ChangeScope, vars, serverVars, appVars, storeVars,
           callVars, itemVars, pullVars, syncVars
  <1>2. CallEcho'
    BY <1>1, EchoFacts DEF CallEcho, SnapshotEcho, WrittenEcho, Latest, callVars, itemVars,
                           syncVars
  <1> QED
    BY <1>1, <1>2, QuietEcho

\* Neither a deletion nor a resolution is left in the budget.
LEMMA EchoBudget ==
  ASSUME EchoInv, [MCNext]_mcVars
  PROVE  /\ ~Spend("delete") /\ ~Spend("resolve") /\ ~Spend("rollback")
         /\ \A b \in {"delete", "resolve"} : b \in DOMAIN budget' /\ budget'[b] = 0
  <1>1. \A b \in {"delete", "resolve", "rollback"} : b \in DOMAIN budget /\ budget[b] = 0
    BY DEF EchoInv, EditInv
  <1>2. ~Spend("delete") /\ ~Spend("resolve") /\ ~Spend("rollback")
    BY <1>1 DEF Spend
  <1>3. \/ budget' = budget
        \/ \E b \in {"app", "remote", "fault", "scope", "reset", "setup"} : Spend(b)
    BY <1>2, Zenon DEF MCNext, Write, Delete, Resolve, ChangeTheScope, mcVars
  <1>4. \A b \in {"delete", "resolve"} : b \in DOMAIN budget' /\ budget'[b] = 0
    BY <1>1, <1>3 DEF Spend
  <1> QED
    BY <1>2, <1>4

\* Every step keeps the invariant.
LEMMA EchoNext ==
  ASSUME KeepsEdits, \A v \in Values : Edits(v) # {}
  PROVE  EchoInv /\ [MCNext]_mcVars => EchoInv'
  <1> SUFFICES ASSUME EchoInv, [MCNext]_mcVars PROVE EchoInv'
    OBVIOUS
  <1>1. EditInv'
    BY EditNext, EchoFacts
  <1>2. EchoSound'
    <2>1. CASE EngineStep
      BY <2>1, EngineEcho
    <2>2. CASE FaultStep
      <3>1. CASE \E t \in Threads : Fail(t)
        <4>1. CASE Fail(SyncThread)
          <5>1. Ends(SyncThread) /\ SyncThread \in Threads
            BY <4>1, EchoFacts DEF Ends
          <5> QED
            BY <5>1, EndsReturn, EndEcho DEF serverVars, appVars, storeVars
        <4> QED
          BY <3>1, <4>1, SetupEcho
      <3> QED
        BY <2>2, <3>1, PutEcho, RestartEcho DEF FaultStep
    <2>3. CASE ChangeTheScope
      BY <2>3, ScopeEcho DEF ChangeTheScope, ScopeStep
    <2>4. CASE Write
      BY <2>4, AppWriteEcho, RemoteWriteEcho DEF Write
    <2>5. CASE ResetSyncState
      BY <2>5, RestartEcho
    <2>6. CASE UNCHANGED mcVars
      BY <2>6, ScopeEcho DEF mcVars
    <2>7. CASE SetupStep
      BY <2>7, SetupEcho
    <2>8. ~Delete /\ ~Resolve
      BY EchoBudget, Zenon DEF Delete, Resolve
    <2> QED
      BY <2>1, <2>2, <2>3, <2>4, <2>5, <2>6, <2>7, <2>8, EchoBudget, Zenon DEF MCNext
  <1>3. Roles'
    BY MCStep, RolesNext DEF EchoInv
  <1> QED
    BY <1>1, <1>2, <1>3, EchoBudget DEF EchoInv

\* Only an upload and another device's write give the server a version.
LEMMA StepUploadsNews == EchoInv /\ [MCNext]_mcVars => [UploadsNews]_vars
  <1> SUFFICES ASSUME EchoInv, [MCNext]_mcVars PROVE [UploadsNews]_vars
    OBVIOUS
  <1>1. [Next]_vars
    BY MCStep, EchoFacts
  <1>2. CASE PutAccepted \/ PutResponseLost
    <2>1. /\ TypeOK /\ CallEcho /\ CallSound(SyncThread)
      BY EchoFacts
    <2>2. PICK k \in Keys : k = key[SyncThread]
      BY <1>2, <2>1 DEF PutAccepted, PutResponseLost, CallSound, Locked
    <2>3. /\ pc[SyncThread] = "put" /\ Len(srvLog[k]) = items[k].version
          /\ \A j \in Keys \ {k} : srvLog'[j] = srvLog[j]
      BY <1>2, <2>1, <2>2 DEF PutAccepted, PutResponseLost, Accepts, ServerWrite, TypeOK
    <2>4. ~(Edits(cur[SyncThread]) \subseteq Edits(Latest(k)))
      BY <2>1, <2>2, <2>3 DEF CallEcho
    <2> QED
      BY <2>3, <2>4 DEF UploadsNews
  <1>3. CASE \E k \in Keys : RemoteWrite(k)
    BY <1>3 DEF RemoteWrite, callVars, UploadsNews
  <1>4. CASE Next /\ ~(PutAccepted \/ PutResponseLost \/ \E k \in Keys : RemoteWrite(k))
    <2>1. ASSUME NEW t \in Threads, PullStep(t) PROVE srvLog' = srvLog
      BY <2>1 DEF PullStep, ListRemote, LoadNamespace, LoadNamespaceRollback, GetNamespaceItems,
           GetNamespaceItemsRollback, ScanItems, ScanItemsRollback, GetItem, GetItemRollback,
           SkipApply, BeginApply, ApplyNotFound, SetIfCurrent, SaveItem, SaveCheckpoint,
           serverVars
    <2>2. SyncStep /\ ~PutAccepted => srvLog' = srvLog
      BY DEF SyncStep, TakeSnapshot, LoadSnapshotScope, ReconcileSnapshotValue, ListDirtyItems,
           LoadFlushCaches, SkipUpload, BeginUpload, PutRefused, SaveUploadedItem,
           SaveUploadedHead, Refetch, RefetchRollback, BeginReapply, RetryUpload, LeaveItem,
           FinishSync, serverVars
    <2>3. FaultStep /\ ~PutResponseLost => srvLog' = srvLog
      BY DEF FaultStep, Crash, Fail, serverVars
    <2>4. ResolveStep \/ ScopeStep \/ DeleteStep \/ ResetSyncState => srvLog' = srvLog
      BY DEF ResolveStep, ScopeStep, DeleteStep, ResetSyncState, ResolveConflictWithValue,
           ResolveConflictPreferLocal, ResolveConflictPreferRemote, OpenCollection, ChangeScope,
           AppDelete, serverVars
    <2>5. WriteStep /\ ~(\E k \in Keys : RemoteWrite(k)) => srvLog' = srvLog
      BY DEF WriteStep, AppWrite, serverVars
    <2>6. SetupStep \/ (\E t \in Threads : SaveJoined(t)) => srvLog' = srvLog
      BY DEF SetupStep, SaveDefaultNamespace, ReadJoined, SaveJoined, serverVars
    <2>7. srvLog' = srvLog
      BY <1>4, <2>1, <2>2, <2>3, <2>4, <2>5, <2>6 DEF Next, EngineStep
    <2> QED
      BY <2>7 DEF UploadsNews
  <1> QED
    BY <1>1, <1>2, <1>3, <1>4

\* A fresh engine has nothing to upload.
LEMMA EchoInit ==
  ASSUME MaxRollbacks = 0, MaxDeletes = 0, MaxResolutions = 0, Listers = {}
  PROVE  MCInit => EchoInv
  <1> SUFFICES ASSUME MCInit PROVE EchoInv
    OBVIOUS
  <1>1. EditInv
    BY EditInit
  <1>2. \A b \in {"delete", "resolve"} : b \in DOMAIN budget /\ budget[b] = 0
    BY DEF MCInit, Budget
  <1>3. /\ \A k \in Keys : items[k] = NewItem /\ srvLog[k] = <<>> /\ backend[k] = NoValue
        /\ pc[SyncThread] = "idle"
    BY DEF MCInit, Init, Threads
  <1>4. \A k \in Keys : RowEcho(k)
    BY <1>3 DEF RowEcho, CaughtUp, NewItem, Latest, Edits
  <1>5. CallEcho
    BY <1>3 DEF CallEcho, Applying
  <1>6. Roles
    BY RolesInit DEF MCInit
  <1> QED
    BY <1>1, <1>2, <1>4, <1>5, <1>6 DEF EchoInv, EchoSound

\* For every set of keys and of values that carry an edit, every merge function that keeps
\* the edits of both sides or leaves the conflict to the app and every backend that
\* implements ConditionalValueBackend: while the server does not roll back, the app only
\* adds edits and no ListNamespaces call overlaps with SyncNow, an upload carries an edit
\* the server lacks, whatever crashes, fails, is lost, reset or written in between, by
\* JoinNamespace and DefaultNamespace too.
THEOREM UploadsCarryNews ==
  /\ MCSpec /\ KeepsEdits /\ \A v \in Values : Edits(v) # {}
  /\ MaxRollbacks = 0 /\ MaxDeletes = 0 /\ MaxResolutions = 0 /\ Listers = {}
  => NoEchoUpload
  <1> SUFFICES ASSUME KeepsEdits, \A v \in Values : Edits(v) # {},
                      MaxRollbacks = 0, MaxDeletes = 0, MaxResolutions = 0, Listers = {}
               PROVE  MCSpec => NoEchoUpload
    OBVIOUS
  <1>1. MCInit => EchoInv
    BY EchoInit
  <1>2. EchoInv /\ [MCNext]_mcVars => EchoInv'
    BY EchoNext
  <1>3. EchoInv /\ [MCNext]_mcVars => [UploadsNews]_vars
    BY StepUploadsNews
  <1> QED
    BY <1>1, <1>2, <1>3, PTL DEF MCSpec, NoEchoUpload
=============================================================================

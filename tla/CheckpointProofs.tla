--------------------------- MODULE CheckpointProofs ---------------------------
(***************************************************************************)
(* What SyncNow promises as long as no call of Engine.ListNamespaces       *)
(* overlaps with it and the server never rolls back: no pass returns       *)
(* ErrRollback, and the stored checkpoint covers every active item.        *)
(*                                                                         *)
(* The alarms compare heads and versions that were read at different       *)
(* moments, stored over several passes and counted up locally after an     *)
(* upload.  HeadsSound orders them: every head and version the engine      *)
(* holds or has stored is one the server has reached.                      *)
(*                                                                         *)
(* The checkpoint is stored rows and steps after it was decided on.        *)
(* CoverageSound says for every label which rows are covered by the head   *)
(* that the call is going to store, unless the server has moved on.        *)
(*                                                                         *)
(* Calls of JoinNamespace and DefaultNamespace may rewrite the stored row  *)
(* in between, with an older head and scope hash or with none: HeldRows is *)
(* every row that can get there.                                           *)
(*                                                                         *)
(* The last sections drop one condition each: on a server that rolls back  *)
(* a pass still does not lower the stored head, and with overlapping calls *)
(* of ListNamespaces nothing is stored that is ahead of the server.        *)
(***************************************************************************)
EXTENDS SyncEngineProofs, Integers

\* Labels at which an upload was accepted that the stored head does not count yet.
Uncounted == {"saveUpload", "saveHead"}

\* The stored row and the copies of it that calls hold: any of them may be saved.
HeldRows == {ns} \cup {nsl[t] : t \in Threads}

HeadsSound ==
    /\ alarm = {}
    /\ \A row \in HeldRows : row.head <= srvHead
    /\ rhead[SyncThread] <= srvHead
    /\ pc[SyncThread] = "load" => \A row \in HeldRows : row.head <= rhead[SyncThread]
    /\ pc[SyncThread] \in Uncounted => \A row \in HeldRows : row.head + 1 <= srvHead
    /\ pc[SyncThread] = "scan" =>
          \A k \in Keys : items[k].version <= rver[SyncThread][k]
    /\ \A k \in Keys : rver[SyncThread][k] <= Len(srvLog[k])

\* The inductive invariant.
AloneInv == EngineInv /\ Roles /\ HeadsSound

-----------------------------------------------------------------------------
(* Frames *)

\* Heads, versions and counters of the rows, the server and the call are numbers.
LEMMA HeadTypes ==
  ASSUME TypeOK
  PROVE  /\ SyncThread \in Threads /\ ns \in HeldRows
         /\ \A t \in Threads : nsl[t] \in HeldRows
         /\ srvHead \in Nat /\ ns.head \in Nat
         /\ rhead[SyncThread] \in Nat /\ nsl[SyncThread].head \in Nat
         /\ \A row \in HeldRows : row \in NamespaceState /\ row.head \in Nat
         /\ \A k \in Keys : /\ items[k].version \in Nat /\ rver[SyncThread][k] \in Nat
                            /\ Len(srvLog[k]) \in Nat
  <1>1. \A row \in HeldRows : row \in NamespaceState
    BY DEF TypeOK, HeldRows
  <1>2. SyncThread \in Threads /\ ns \in HeldRows /\ \A t \in Threads : nsl[t] \in HeldRows
    BY DEF HeldRows, Threads
  <1> QED
    BY <1>1, <1>2 DEF TypeOK, NamespaceState, ItemState

\* Only these rows are held after a step that copies or forgets rows.
LEMMA HeldNext ==
  ASSUME NEW t \in Threads, NEW row, TypeOK, nsl' = nsl \/ nsl' = [nsl EXCEPT ![t] = row]
  PROVE  HeldRows' \subseteq HeldRows \cup {ns', row}
  BY DEF HeldRows, TypeOK

\* An item's version at the server never goes down.
LEMMA LogsGrow ==
  ASSUME TypeOK, LogGrows, NEW k \in Keys
  PROVE  Len(srvLog'[k]) >= Len(srvLog[k])
  <1>1. srvLog[k] \in Seq(Values)
    BY DEF TypeOK
  <1> QED
    BY <1>1 DEF LogGrows

\* A step that stores no new head, in which nothing or one write of somebody reaches the
\* server.
LEMMA QuietHeads ==
  ASSUME TypeOK, HeadsSound, LogGrows, srvHead' = srvHead \/ srvHead' = srvHead + 1,
         HeldRows' \subseteq HeldRows \cup {NewNamespace}, alarm' = alarm,
         rhead'[SyncThread] = rhead[SyncThread], rver'[SyncThread] = rver[SyncThread],
         pc'[SyncThread] = "load" => pc[SyncThread] = "load",
         pc'[SyncThread] \in Uncounted =>
            pc[SyncThread] \in Uncounted \/ srvHead' = srvHead + 1,
         pc'[SyncThread] = "scan" =>
            /\ pc[SyncThread] = "scan"
            /\ \A k \in Keys : items'[k].version = items[k].version
  PROVE  HeadsSound'
  <1>1. \A k \in Keys : rver'[SyncThread][k] <= Len(srvLog'[k])
    <2> SUFFICES ASSUME NEW k \in Keys PROVE rver[SyncThread][k] <= Len(srvLog'[k])
      OBVIOUS
    <2>1. rver[SyncThread][k] <= Len(srvLog[k]) /\ Len(srvLog[k]) <= Len(srvLog'[k])
      BY LogsGrow DEF HeadsSound
    <2>2. srvLog'[k] = srvLog[k] \/ Len(srvLog'[k]) = Len(srvLog[k]) + 1
      BY DEF LogGrows, TypeOK
    <2> QED
      BY <2>1, <2>2, HeadTypes
  <1>2. pc'[SyncThread] = "scan" => \A k \in Keys : items'[k].version <= rver'[SyncThread][k]
    BY DEF HeadsSound
  <1>3. \A row \in HeldRows' : row.head \in Nat /\ (row.head = 0 \/ row \in HeldRows)
    BY HeadTypes DEF NewNamespace
  <1>4. /\ \A row \in HeldRows' : row.head <= srvHead'
        /\ rhead'[SyncThread] <= srvHead'
    BY <1>3, HeadTypes DEF HeadsSound
  <1>5. pc'[SyncThread] = "load" => \A row \in HeldRows' : row.head <= rhead'[SyncThread]
    BY <1>3, HeadTypes DEF HeadsSound
  <1>6. pc'[SyncThread] \in Uncounted => \A row \in HeldRows' : row.head + 1 <= srvHead'
    <2>1. CASE srvHead' = srvHead + 1
      BY <1>3, <2>1, HeadTypes DEF HeadsSound
    <2>2. CASE srvHead' = srvHead /\ pc[SyncThread] \in Uncounted
      <3>1. ns.head + 1 <= srvHead /\ \A row \in HeldRows : row.head + 1 <= srvHead
        BY <2>2, HeadTypes DEF HeadsSound
      <3> QED
        BY <1>3, <2>2, <3>1, HeadTypes
    <2> QED
      BY <2>1, <2>2
  <1>7. alarm' = {}
    BY DEF HeadsSound
  <1> QED
    BY <1>1, <1>2, <1>4, <1>5, <1>6, <1>7 DEF HeadsSound

\* A call that returns without an alarm, or the end of the process.
LEMMA EndHeads ==
  ASSUME TypeOK, HeadsSound, srvHead' = srvHead \/ srvHead' = srvHead + 1,
         \A k \in Keys : Len(srvLog'[k]) \in Nat,
         HeldRows' \subseteq HeldRows \cup {NewNamespace},
         alarm' = {}, pc'[SyncThread] = "idle", rhead'[SyncThread] = 0,
         rver'[SyncThread] = NoVersions
  PROVE  HeadsSound'
  <1>1. \A k \in Keys : rver'[SyncThread][k] <= Len(srvLog'[k])
    BY DEF NoVersions
  <1>2. (\A row \in HeldRows' : row.head <= srvHead') /\ rhead'[SyncThread] <= srvHead'
    BY HeadTypes DEF HeadsSound, NewNamespace
  <1> QED
    BY <1>1, <1>2 DEF HeadsSound, Uncounted

\* A return of SyncNow.
LEMMA ReturnHeads ==
  ASSUME TypeOK, TypeOK', HeadsSound, Return(SyncThread, FALSE),
         srvHead' = srvHead \/ srvHead' = srvHead + 1, ns' = ns
  PROVE  HeadsSound'
  <1>1. SyncThread \in Threads
    BY DEF Threads
  <1>2. /\ alarm' = {} /\ pc'[SyncThread] = "idle" /\ rhead'[SyncThread] = 0
        /\ rver'[SyncThread] = NoVersions
    BY <1>1 DEF HeadsSound, Return, Goto, DropPull, TypeOK
  <1>3. \A k \in Keys : Len(srvLog'[k]) \in Nat
    BY DEF TypeOK
  <1>4. HeldRows' \subseteq HeldRows \cup {ns', NewNamespace}
    BY <1>1, HeldNext DEF Return, DropPull
  <1>5. HeldRows' \subseteq HeldRows \cup {NewNamespace}
    BY <1>4, HeadTypes
  <1> QED
    BY <1>2, <1>3, <1>5, EndHeads

\* JoinNamespace saves a row that was stored before, and DefaultNamespace one without
\* a head.
LEMMA SetupHeld ==
  ASSUME TypeOK, SetupStep \/ \E t \in Threads : SaveJoined(t) \/ Fail(t)
  PROVE  HeldRows' \subseteq HeldRows \cup {NewNamespace}
  <1>1. ASSUME NEW t \in Threads, ReadJoined(t) PROVE HeldRows' \subseteq HeldRows
    <2>1. ns' = ns /\ nsl' = [nsl EXCEPT ![t] = ns]
      BY <1>1 DEF ReadJoined, storeVars
    <2>2. HeldRows' \subseteq HeldRows \cup {ns', ns}
      BY <2>1, HeldNext
    <2> QED
      BY <2>1, <2>2, HeadTypes
  <1>2. ASSUME NEW t \in Threads, SaveJoined(t) \/ Fail(t)
        PROVE  HeldRows' \subseteq HeldRows \cup {NewNamespace}
    <2>1. ns' \in HeldRows /\ nsl' = [nsl EXCEPT ![t] = NewNamespace]
      BY <1>2, HeadTypes DEF SaveJoined, Fail, Return, DropPull, storeVars
    <2> QED
      BY <2>1, HeldNext
  <1>3. CASE SaveDefaultNamespace
    BY <1>3 DEF SaveDefaultNamespace, HeldRows, pullVars
  <1> QED
    BY <1>1, <1>2, <1>3 DEF SetupStep

-----------------------------------------------------------------------------
(* Steps *)

\* None of the comparisons that raise ErrRollback can fail.
LEMMA NoAlarm ==
  ASSUME AloneInv, NEW t \in Threads, PullStep(t) \/ t = SyncThread
  PROVE  /\ ~LoadNamespaceRollback(t) /\ ~GetNamespaceItemsRollback(t)
         /\ ~ScanItemsRollback(t)
         /\ \A k \in Keys : GetItemRollback(t, k) => Return(t, FALSE)
         /\ RefetchRollback => Return(SyncThread, FALSE)
  <1>1. t = SyncThread /\ TypeOK /\ HeadsSound
    BY RoleOf DEF AloneInv, EngineInv
  <1>2. ~LoadNamespaceRollback(t)
    <2>1. LoadNamespaceRollback(t) => pc[t] = "load" /\ rhead[t] < ns.head
      BY Zenon DEF LoadNamespaceRollback
    <2> QED
      BY <1>1, <2>1, HeadTypes DEF HeadsSound
  <1>3. ~GetNamespaceItemsRollback(t)
    <2>1. GetNamespaceItemsRollback(t) => srvHead < nsl[t].head \/ srvHead < rhead[t]
      BY Zenon DEF GetNamespaceItemsRollback
    <2> QED
      BY <1>1, <2>1, HeadTypes DEF HeadsSound
  <1>4. ~ScanItemsRollback(t)
    <2>1. ScanItemsRollback(t) =>
             pc[t] = "scan" /\ \E k \in Keys : items[k].version > rver[t][k]
      BY Zenon DEF ScanItemsRollback
    <2> QED
      BY <1>1, <2>1, HeadTypes DEF HeadsSound
  <1>5. ASSUME NEW k \in Keys, GetItemRollback(t, k)
        PROVE  Return(t, FALSE)
    <2>1. ~(Len(srvLog[k]) < rver[t][k])
      BY <1>1, HeadTypes DEF HeadsSound
    <2>2. srvLog[k] = <<>> /\ Return(t, srvLog[k] # <<>>)
      BY <1>5, <2>1 DEF GetItemRollback
    <2> QED
      BY <2>2 DEF Return
  <1>6. ASSUME RefetchRollback
        PROVE  Return(SyncThread, FALSE)
    <2> DEFINE k == key[SyncThread]
    <2>1. k \in Keys
      BY <1>1, <1>6 DEF RefetchRollback, AloneInv, EngineInv, CallsSound, CallSound, Locked
    <2>2. ~(Len(srvLog[k]) < items[k].version)
      BY <1>1, <2>1, HeadTypes DEF AloneInv, EngineInv, MergeBaseSound, RowSound
    <2>3. srvLog[k] = <<>> /\ Return(SyncThread, srvLog[k] # <<>>)
      BY <1>6, <2>2 DEF RefetchRollback
    <2> QED
      BY <2>3 DEF Return
  <1> QED
    BY <1>2, <1>3, <1>4, <1>5, <1>6

\* The listing gives a head that is not behind the stored one.
LEMMA ListRemoteHeads ==
  ASSUME AloneInv, NEW t \in Threads, ListRemote(t)
  PROVE  HeadsSound'
  <1>1. t = SyncThread /\ TypeOK /\ HeadsSound /\ SyncThread \in Threads
    BY RoleOf, HeadTypes DEF AloneInv, EngineInv, PullStep
  <1>2. /\ pc'[SyncThread] = "load" /\ rhead'[SyncThread] = srvHead
        /\ UNCHANGED <<srvLog, srvHead, ns, alarm, rver, nsl, items>>
    BY <1>1 DEF ListRemote, Goto, TypeOK, serverVars, storeVars
  <1>3. HeldRows' = HeldRows
    BY <1>2 DEF HeldRows
  <1> QED
    BY <1>1, <1>2, <1>3, HeadTypes DEF HeadsSound, Uncounted

\* The stored head is loaded.
LEMMA LoadHeads ==
  ASSUME AloneInv, NEW t \in Threads, LoadNamespace(t) \/ (LoadFlushCaches /\ t = SyncThread)
  PROVE  HeadsSound'
  <1>1. t = SyncThread /\ TypeOK /\ HeadsSound /\ SyncThread \in Threads
    BY RoleOf, HeadTypes DEF AloneInv, EngineInv, PullStep
  <1>2. /\ pc'[SyncThread] \notin Uncounted \cup {"load", "scan"}
        /\ nsl' = [nsl EXCEPT ![SyncThread] = ns]
        /\ UNCHANGED <<srvLog, srvHead, ns, alarm, rhead, rver, items>>
    BY <1>1 DEF LoadNamespace, LoadFlushCaches, Goto, TypeOK, serverVars, storeVars, Uncounted
  <1>3. HeldRows' \subseteq HeldRows
    BY <1>1, <1>2, HeldNext, HeadTypes
  <1> QED
    BY <1>1, <1>2, <1>3 DEF HeadsSound

\* The listed versions are not behind the rows.
LEMMA GetNamespaceItemsHeads ==
  ASSUME AloneInv, NEW t \in Threads, GetNamespaceItems(t)
  PROVE  HeadsSound'
  <1>1. t = SyncThread /\ TypeOK /\ HeadsSound /\ SyncThread \in Threads
    BY RoleOf, HeadTypes DEF AloneInv, EngineInv, PullStep
  <1>2. /\ pc'[SyncThread] = "scan" /\ rhead'[SyncThread] = srvHead
        /\ rver'[SyncThread] = [k \in Keys |-> Len(srvLog[k])]
        /\ UNCHANGED <<srvLog, srvHead, ns, alarm, nsl, items>>
    BY <1>1 DEF GetNamespaceItems, Goto, TypeOK, serverVars, storeVars
  <1>3. \A k \in Keys : items[k].version <= Len(srvLog[k])
    BY DEF AloneInv, EngineInv, MergeBaseSound, RowSound
  <1>4. HeldRows' = HeldRows
    BY <1>2 DEF HeldRows
  <1> QED
    BY <1>1, <1>2, <1>3, <1>4, HeadTypes DEF HeadsSound, Uncounted

\* What becomes the stored head was a head of the server.
LEMMA SaveCheckpointHeads ==
  ASSUME AloneInv, NEW t \in Threads, SaveCheckpoint(t)
  PROVE  HeadsSound'
  <1>1. t = SyncThread /\ TypeOK /\ HeadsSound /\ SyncThread \in Threads
    BY RoleOf, HeadTypes DEF AloneInv, EngineInv, PullStep
  <1>2. /\ pc'[SyncThread] = "flush" /\ ns'.head = rhead[SyncThread]
        /\ rhead'[SyncThread] = 0 /\ rver'[SyncThread] = NoVersions
        /\ nsl' = [nsl EXCEPT ![SyncThread] = NewNamespace]
        /\ UNCHANGED <<srvLog, srvHead, alarm>>
    BY <1>1 DEF SaveCheckpoint, Goto, DropPull, TypeOK, serverVars
  <1>3. HeldRows' \subseteq HeldRows \cup {ns', NewNamespace}
    BY <1>1, <1>2, HeldNext
  <1>4. \A row \in HeldRows' : row.head <= srvHead'
    BY <1>1, <1>2, <1>3, HeadTypes DEF HeadsSound, NewNamespace
  <1> QED
    BY <1>1, <1>2, <1>4, HeadTypes DEF HeadsSound, Uncounted, NoVersions

\* So is the head that counts an upload of this client.
LEMMA SaveUploadedHeadHeads ==
  ASSUME AloneInv, SaveUploadedHead
  PROVE  HeadsSound'
  <1>1. SyncThread \in Threads /\ TypeOK /\ HeadsSound
    BY DEF AloneInv, EngineInv, Threads
  <1>2. /\ pc[SyncThread] = "saveHead" /\ pc'[SyncThread] = "flushItem"
        /\ ns' = UploadedNamespace /\ nsl' = [nsl EXCEPT ![SyncThread] = UploadedNamespace]
        /\ UNCHANGED <<srvLog, srvHead, alarm, rhead, rver>>
    BY <1>1 DEF SaveUploadedHead, Goto, TypeOK, serverVars
  <1>3. UploadedNamespace.head = nsl[SyncThread].head + 1
    BY DEF UploadedNamespace
  <1>4. HeldRows' \subseteq HeldRows \cup {UploadedNamespace}
    BY <1>1, <1>2, HeldNext
  <1>5. \A row \in HeldRows' : row.head <= srvHead'
    BY <1>1, <1>2, <1>3, <1>4, HeadTypes DEF HeadsSound, Uncounted
  <1> QED
    BY <1>1, <1>2, <1>5, HeadTypes DEF HeadsSound, Uncounted

\* The rest of the pull phase reads no head.
LEMMA QuietPull ==
  ASSUME AloneInv, NEW t \in Threads,
         \/ ScanItems(t) \/ \E k \in Keys : GetItem(t, k)
         \/ SkipApply(t) \/ BeginApply(t) \/ SetIfCurrent(t) \/ SaveItem(t)
  PROVE  HeadsSound'
  <1>1. t = SyncThread /\ TypeOK /\ HeadsSound /\ SyncThread \in Threads
    BY RoleOf, HeadTypes DEF AloneInv, EngineInv, PullStep
  <1>2. pc'[SyncThread] \notin Uncounted \cup {"load", "scan"}
    BY <1>1 DEF ScanItems, GetItem, SkipApply, BeginApply, SetIfCurrent, SaveItem, ReadForApply,
                Goto, TypeOK, Uncounted
  <1>3. UNCHANGED <<srvLog, srvHead, ns, alarm, rhead, rver, nsl>>
    BY DEF ScanItems, GetItem, SkipApply, BeginApply, SetIfCurrent, SaveItem, serverVars,
           storeVars, pullVars
  <1> QED
    BY <1>1, <1>2, <1>3, QuietHeads DEF LogGrows, HeldRows

\* The snapshot phase, and the decisions of the flush.
LEMMA QuietSync ==
  ASSUME AloneInv,
         \/ TakeSnapshot \/ LoadSnapshotScope \/ ListDirtyItems
         \/ \E k \in Keys : ReconcileSnapshotValue(k) \/ SkipUpload(k) \/ BeginUpload(k)
         \/ PutRefused \/ Refetch \/ BeginReapply \/ RetryUpload \/ LeaveItem
  PROVE  HeadsSound'
  <1>1. SyncThread \in Threads /\ TypeOK /\ HeadsSound
    BY DEF AloneInv, EngineInv, Threads
  <1>2. pc'[SyncThread] \notin Uncounted \cup {"load", "scan"}
    BY <1>1 DEF TakeSnapshot, LoadSnapshotScope, ListDirtyItems, ReconcileSnapshotValue,
                SkipUpload, BeginUpload, PutRefused, Refetch, BeginReapply, RetryUpload,
                LeaveItem, ReadForApply, Goto, TypeOK, Uncounted
  <1>3. UNCHANGED <<srvLog, srvHead, ns, alarm, rhead, rver, nsl>>
    BY DEF TakeSnapshot, LoadSnapshotScope, ListDirtyItems, ReconcileSnapshotValue, SkipUpload,
           BeginUpload, PutRefused, Refetch, BeginReapply, RetryUpload, LeaveItem, serverVars,
           storeVars, pullVars
  <1> QED
    BY <1>1, <1>2, <1>3, QuietHeads DEF LogGrows, HeldRows

\* What reaches the server, from this client or another, adds to its logs.
LEMMA WritesGrow ==
  ASSUME EngineInv,
         \/ PutAccepted \/ PutResponseLost \/ WriteStep
         \/ srvLog' = srvLog
  PROVE  LogGrows
  <1>1. TypeOK /\ SyncThread \in Threads /\ CallSound(SyncThread)
    BY DEF EngineInv, CallsSound, Threads
  <1>2. CASE PutAccepted \/ PutResponseLost
    <2>1. key[SyncThread] \in Keys /\ cur[SyncThread] \in Values
      BY <1>1, <1>2 DEF CallSound, Locked, PutAccepted, PutResponseLost
    <2>2. ServerWrite(key[SyncThread], cur[SyncThread])
      BY <1>2 DEF PutAccepted, PutResponseLost
    <2> QED
      BY <1>1, <2>1, <2>2, ServerWriteGrows
  <1>3. ASSUME NEW k \in Keys, RemoteWrite(k)
        PROVE  LogGrows
    <2>1. Latest(k) \in OptValue
      <3>1. srvLog[k] \in Seq(Values)
        BY <1>1 DEF TypeOK
      <3>2. CASE srvLog[k] = <<>>
        BY <3>2 DEF Latest, OptValue
      <3>3. CASE srvLog[k] # <<>>
        BY <3>1, <3>3, LastIsVersion, VersionHasValue DEF Latest, OptValue
      <3> QED
        BY <3>2, <3>3
    <2>2. PICK v \in RemoteEdits(Latest(k)) : ServerWrite(k, v)
      BY <1>3 DEF RemoteWrite
    <2>3. v \in Values
      BY <2>1, <2>2, EditAssumption
    <2> QED
      BY <1>1, <2>2, <2>3, ServerWriteGrows
  <1>4. CASE (\E k \in Keys : AppWrite(k)) \/ srvLog' = srvLog
    BY <1>4 DEF AppWrite, LogGrows, serverVars
  <1> QED
    BY <1>2, <1>3, <1>4 DEF WriteStep

\* An upload moves the server's head before the stored one.
LEMMA UploadHeads ==
  ASSUME AloneInv, PutAccepted \/ SaveUploadedItem
  PROVE  HeadsSound'
  <1>1. SyncThread \in Threads /\ TypeOK /\ HeadsSound
    BY DEF AloneInv, EngineInv, Threads
  <1>2. \/ pc'[SyncThread] = "saveUpload" /\ srvHead' = srvHead + 1
        \/ pc'[SyncThread] = "saveHead" /\ pc[SyncThread] = "saveUpload" /\ srvHead' = srvHead
    BY <1>1 DEF PutAccepted, SaveUploadedItem, ServerWrite, Goto, TypeOK, serverVars
  <1>3. UNCHANGED <<ns, alarm, rhead, rver, nsl>>
    BY DEF PutAccepted, SaveUploadedItem, storeVars, pullVars
  <1>4. LogGrows
    BY WritesGrow DEF AloneInv, SaveUploadedItem, serverVars
  <1> QED
    BY <1>1, <1>2, <1>3, <1>4, QuietHeads DEF Uncounted, HeldRows

\* The app and the other devices; resolving a conflict keeps the row's version.
LEMMA OutsideHeads ==
  ASSUME AloneInv, ResolveStep \/ WriteStep \/ DeleteStep \/ ScopeStep \/ UNCHANGED vars
  PROVE  HeadsSound'
  <1>1. SyncThread \in Threads /\ TypeOK /\ HeadsSound
    BY DEF AloneInv, EngineInv, Threads
  <1>2. UNCHANGED <<pc, ns, alarm, rhead, rver, nsl>>
    BY DEF ResolveStep, ResolveConflictPreferLocal, ResolveConflictWithValue,
           ResolveConflictPreferRemote, WriteStep, DeleteStep, ScopeStep, AppWrite, RemoteWrite,
           AppDelete, OpenCollection, ChangeScope, vars, storeVars, callVars, pullVars
  <1>3. srvHead' = srvHead \/ srvHead' = srvHead + 1
    BY DEF ResolveStep, ResolveConflictPreferLocal, ResolveConflictWithValue,
           ResolveConflictPreferRemote, WriteStep, DeleteStep, ScopeStep, AppWrite, RemoteWrite,
           AppDelete, OpenCollection, ChangeScope, vars, serverVars, ServerWrite
  <1>4. \A k \in Keys : items'[k].version = items[k].version
    <2>1. CASE WriteStep \/ DeleteStep \/ ScopeStep \/ UNCHANGED vars
      BY <2>1 DEF WriteStep, DeleteStep, ScopeStep, AppWrite, RemoteWrite, AppDelete,
                  OpenCollection, ChangeScope, vars, storeVars
    <2>2. CASE ResolveStep
      <3>1. PICK k \in Keys :
              /\ items[k].conflict
              /\ \/ items' = items
                 \/ items' = [items EXCEPT ![k] = markItemDirty(clearItemConflict(@))]
                 \/ items' = [items EXCEPT ![k] =
                       markItemClean(@, @.conflictRemoteVersion, @.conflictRemoteValue)]
        BY <2>2 DEF ResolveStep, ResolveConflictPreferLocal, ResolveConflictWithValue,
                    ResolveConflictPreferRemote, Resolvable
      <3>2. items[k] \in ItemState /\ items[k].conflictRemoteVersion = items[k].version
        BY <3>1 DEF TypeOK, AloneInv, EngineInv, MergeBaseSound, RowSound
      <3>3. markItemDirty(clearItemConflict(items[k])).version = items[k].version
        BY <3>2 DEF markItemDirty, clearItemConflict, ItemState
      <3>4. markItemClean(items[k], items[k].conflictRemoteVersion,
                          items[k].conflictRemoteValue).version = items[k].version
        BY <3>2 DEF markItemClean, WithBase, clearItemConflict, ItemState
      <3>5. items'[k].version = items[k].version
        BY <1>1, <3>1, <3>3, <3>4 DEF TypeOK
      <3>6. \A j \in Keys \ {k} : items'[j] = items[j]
        BY <1>1, <3>1 DEF TypeOK
      <3> QED
        BY <3>5, <3>6
    <2> QED
      BY <2>1, <2>2
  <1>5. LogGrows
    <2>1. CASE ResolveStep \/ DeleteStep \/ ScopeStep \/ UNCHANGED vars
      <3>1. srvLog' = srvLog
        BY <2>1 DEF ResolveStep, ResolveConflictPreferLocal, ResolveConflictWithValue,
                    ResolveConflictPreferRemote, DeleteStep, ScopeStep, AppDelete,
                    OpenCollection, ChangeScope, vars, serverVars
      <3> QED
        BY <3>1, WritesGrow DEF AloneInv
    <2>2. CASE WriteStep
      BY <2>2, WritesGrow DEF AloneInv
    <2> QED
      BY <2>1, <2>2
  <1> QED
    BY <1>1, <1>2, <1>3, <1>4, <1>5, QuietHeads DEF HeldRows

\* The other writers of the row, and a call of JoinNamespace that fails.
LEMMA SetupHeads ==
  ASSUME AloneInv,
         \/ SetupStep
         \/ \E t \in Threads \ {SyncThread} : SaveJoined(t) \/ Fail(t)
  PROVE  HeadsSound'
  <1>1. TypeOK /\ HeadsSound /\ Roles
    BY DEF AloneInv, EngineInv
  <1>2. SyncStill
    BY <1>1, SetupStill
  <1>3. HeldRows' \subseteq HeldRows \cup {NewNamespace}
    BY <1>1, SetupHeld
  <1>4. alarm' = alarm
    BY <1>1 DEF SetupStep, SaveDefaultNamespace, ReadJoined, SaveJoined, Fail, Return, HeadsSound
  <1>5. LogGrows
    BY <1>2 DEF SyncStill, LogGrows
  <1> QED
    BY <1>1, <1>2, <1>3, <1>4, <1>5, QuietHeads DEF SyncStill

\* A lost response, an error, a crash or a reset.
LEMMA FaultHeads ==
  ASSUME AloneInv, TypeOK', FaultStep \/ ResetSyncState
  PROVE  HeadsSound'
  <1>1. SyncThread \in Threads /\ TypeOK /\ HeadsSound
    BY DEF AloneInv, EngineInv, Threads
  <1>2. CASE PutResponseLost
    <2>1. Return(SyncThread, FALSE) /\ srvHead' = srvHead + 1 /\ ns' = ns
      BY <1>2 DEF PutResponseLost, ServerWrite, storeVars
    <2> QED
      BY <1>1, <2>1, ReturnHeads
  <1>3. CASE \E t \in Threads : Fail(t)
    <2>1. PICK t \in Threads : Fail(t)
      BY <1>3
    <2>2. Return(t, FALSE) /\ srvHead' = srvHead /\ ns' = ns
      BY <2>1 DEF Fail, serverVars, storeVars
    <2>3. CASE t = SyncThread
      BY <1>1, <2>2, <2>3, ReturnHeads
    <2> QED
      BY <2>1, <2>3, SetupHeads
  <1>4. CASE Crash \/ ResetSyncState
    <2>1. /\ srvHead' = srvHead /\ srvLog' = srvLog /\ (ns' = ns \/ ns' = NewNamespace)
          /\ alarm' = {} /\ pc'[SyncThread] = "idle" /\ rhead'[SyncThread] = 0
          /\ rver'[SyncThread] = NoVersions /\ nsl' = [t \in Threads |-> NewNamespace]
      BY <1>1, <1>4 DEF Crash, ResetSyncState, Restart, serverVars, storeVars
    <2>2. HeldRows' \subseteq HeldRows \cup {NewNamespace}
      BY <2>1 DEF HeldRows
    <2>3. \A k \in Keys : Len(srvLog'[k]) \in Nat
      BY <1>1, <2>1, HeadTypes
    <2> QED
      BY <1>1, <2>1, <2>2, <2>3, EndHeads
  <1> QED
    BY <1>2, <1>3, <1>4 DEF FaultStep

-----------------------------------------------------------------------------
(* The theorem *)

\* The pull phase.
LEMMA PullHeads ==
  ASSUME AloneInv, TypeOK', NEW t \in Threads, PullStep(t)
  PROVE  HeadsSound'
  <1>0. t = SyncThread
    BY RoleOf DEF AloneInv
  <1>1. CASE (\E k \in Keys : GetItemRollback(t, k)) \/ ApplyNotFound(t)
    <2>1. Return(t, FALSE) /\ srvHead' = srvHead /\ ns' = ns
      BY <1>1, NoAlarm DEF GetItemRollback, ApplyNotFound, serverVars, storeVars
    <2> QED
      BY <1>0, <2>1, ReturnHeads DEF AloneInv, EngineInv
  <1>2. CASE \/ ListRemote(t) \/ LoadNamespace(t) \/ GetNamespaceItems(t) \/ SaveCheckpoint(t)
    BY <1>2, ListRemoteHeads, LoadHeads, GetNamespaceItemsHeads, SaveCheckpointHeads
  <1>3. CASE \/ ScanItems(t) \/ \E k \in Keys : GetItem(t, k)
             \/ SkipApply(t) \/ BeginApply(t) \/ SetIfCurrent(t) \/ SaveItem(t)
    BY <1>3, QuietPull
  <1> QED
    BY <1>1, <1>2, <1>3, NoAlarm DEF PullStep

\* The snapshot and push phases.
LEMMA SyncHeads ==
  ASSUME AloneInv, TypeOK', SyncStep
  PROVE  HeadsSound'
  <1>0. SyncThread \in Threads
    BY DEF Threads
  <1>1. CASE RefetchRollback \/ FinishSync
    <2>1. Return(SyncThread, FALSE) /\ srvHead' = srvHead /\ ns' = ns
      BY <1>0, <1>1, NoAlarm DEF RefetchRollback, FinishSync, serverVars, storeVars
    <2> QED
      BY <1>0, <2>1, ReturnHeads DEF AloneInv, EngineInv
  <1>2. CASE \/ TakeSnapshot \/ LoadSnapshotScope \/ ListDirtyItems
             \/ \E k \in Keys : ReconcileSnapshotValue(k) \/ SkipUpload(k) \/ BeginUpload(k)
             \/ PutRefused \/ Refetch \/ BeginReapply \/ RetryUpload \/ LeaveItem
    BY <1>2, QuietSync
  <1>3. CASE LoadFlushCaches \/ PutAccepted \/ SaveUploadedItem \/ SaveUploadedHead
    BY <1>0, <1>3, LoadHeads, UploadHeads, SaveUploadedHeadHeads
  <1> QED
    BY <1>1, <1>2, <1>3 DEF SyncStep

\* Every step keeps the invariant.
LEMMA AloneNext == AloneInv /\ [Next]_vars => AloneInv'
  <1> SUFFICES ASSUME AloneInv, [Next]_vars PROVE AloneInv'
    OBVIOUS
  <1>1. EngineInv' /\ TypeOK' /\ Roles'
    BY NextLemma, RolesNext DEF AloneInv, EngineInv
  <1>2. HeadsSound'
    <2>1. CASE EngineStep
      <3>1. ASSUME NEW t \in Threads, SaveJoined(t) PROVE t \in Threads \ {SyncThread}
        BY <3>1, RoleOf DEF AloneInv
      <3> QED
        BY <1>1, <2>1, <3>1, PullHeads, SyncHeads, SetupHeads DEF EngineStep
    <2>2. CASE FaultStep \/ ResetSyncState
      BY <1>1, <2>2, FaultHeads
    <2>3. CASE ResolveStep \/ WriteStep \/ DeleteStep \/ ScopeStep \/ UNCHANGED vars
      BY <2>3, OutsideHeads
    <2>4. CASE SetupStep
      BY <2>4, SetupHeads
    <2> QED
      BY <2>1, <2>2, <2>3, <2>4 DEF Next
  <1> QED
    BY <1>1, <1>2 DEF AloneInv

\* A fresh engine satisfies the invariant.
LEMMA AloneInit == Init /\ Listers = {} => AloneInv
  <1> SUFFICES ASSUME Init, Listers = {} PROVE HeadsSound
    BY InitLemma, RolesInit DEF AloneInv
  <1>1. SyncThread \in Threads
    BY DEF Threads
  <1>2. /\ alarm = {} /\ ns = NewNamespace /\ srvHead = 0 /\ rhead[SyncThread] = 0
        /\ nsl = [t \in Threads |-> NewNamespace] /\ pc[SyncThread] = "idle"
        /\ rver[SyncThread] = NoVersions /\ \A k \in Keys : srvLog[k] = <<>>
    BY <1>1 DEF Init
  <1>3. \A row \in HeldRows : row.head = 0
    BY <1>2 DEF HeldRows, NewNamespace
  <1> QED
    BY <1>2, <1>3 DEF HeadsSound, NoVersions, Uncounted

\* For every set of keys, every merge function and every backend: while no
\* Engine.ListNamespaces call overlaps with SyncNow, no pass returns ErrRollback,
\* whatever responses are lost, whatever fails, is reset or restarts, and however many
\* calls of Engine.JoinNamespace and Engine.DefaultNamespace rewrite the stored row.
THEOREM NoFalseAlarm == Spec /\ Listers = {} => []NoFalseRollback
  <1>1. AloneInv => NoFalseRollback
    BY DEF AloneInv, HeadsSound, NoFalseRollback
  <1> QED
    BY <1>1, AloneInit, AloneNext, PTL DEF Spec

-----------------------------------------------------------------------------
(* Coverage *)

\* A row is at the server's version, or dirty and so queued for upload.  A dirty row in
\* conflict does not count: PreferRemote makes it clean at its own version.
Recent(k) ==
    items[k].version = Len(srvLog[k]) \/ (items[k].dirty /\ ~items[k].conflict)

\* Either head is out of date or every row of the keys is recent.
Covered(head, keys) == head = srvHead => \A k \in keys : Recent(k)

Writing == {"set", "save", "saveRaced"}

\* The call works on an item of the pull phase, or is somewhere in the flush.
Pulling == pc[SyncThread] = "apply" \/ (pc[SyncThread] \in Writing /\ attempt = 0)
Flushing ==
    \/ pc[SyncThread] \in {"flushItem", "put", "saveUpload", "saveHead", "refetch", "reapply",
                           "retry"}
    \/ pc[SyncThread] \in Writing /\ attempt > 0

\* Somebody holds the server's current head.
UpToDate == rhead[SyncThread] = srvHead \/ \E row \in HeldRows : row.head = srvHead

\* What is fetched is the server's version, unless every head is out of date.
FetchedSound ==
    /\ pc[SyncThread] \in Fetched /\ UpToDate =>
          got[SyncThread].version = Len(srvLog[key[SyncThread]])
    /\ pc[SyncThread] = "saveRaced" => ~items[key[SyncThread]].conflict

\* What the pull phase will store as its checkpoint.
PullCovered ==
    /\ pc[SyncThread] = "scan" /\ rhead[SyncThread] = srvHead =>
          \A k \in Keys : rver[SyncThread][k] = Len(srvLog[k])
    /\ pc[SyncThread] = "checkpoint" => Covered(rhead[SyncThread], Active(seen[SyncThread]))
    /\ pc[SyncThread] = "pull" =>
          Covered(rhead[SyncThread], Active(seen[SyncThread]) \ todo[SyncThread])
    /\ Pulling =>
          Covered(rhead[SyncThread],
                  Active(seen[SyncThread]) \ (todo[SyncThread] \cup {key[SyncThread]}))

\* What the flush will store when it has counted its upload.
FlushCovered ==
    /\ pc[SyncThread] = "saveUpload" =>
          /\ nsl[SyncThread].head + 1 = srvHead =>
                items[key[SyncThread]].version + 1 = Len(srvLog[key[SyncThread]])
          /\ Covered(nsl[SyncThread].head + 1,
                     Active(nsl[SyncThread].scope) \ {key[SyncThread]})
    /\ pc[SyncThread] = "saveHead" =>
          Covered(nsl[SyncThread].head + 1, Active(nsl[SyncThread].scope))

\* The attempts tell the two phases apart where they share their steps.
AttemptsCounted ==
    /\ pc[SyncThread] \in Labels \ ({"put", "saveUpload", "saveHead", "refetch", "reapply",
                                      "retry"} \cup Writing) => attempt = 0
    /\ pc[SyncThread] \in {"put", "refetch", "reapply", "retry"} => attempt > 0

\* What is stored, and what may be stored again.
StoredCovered == \A row \in HeldRows : Covered(row.head, Active(row.scope))

CoverageSound ==
    StoredCovered /\ FetchedSound /\ PullCovered /\ FlushCovered /\ AttemptsCounted

\* The inductive invariant.
CoverageInv == AloneInv /\ CoverageSound

\* What every lemma below starts from.
LEMMA CoverageFacts ==
  ASSUME CoverageInv
  PROVE  /\ SyncThread \in Threads /\ TypeOK /\ CallSound(SyncThread) /\ HeadsSound /\ Roles
         /\ StoredCovered /\ FetchedSound /\ PullCovered /\ FlushCovered /\ AttemptsCounted
         /\ \A t \in Threads : PullStep(t) => t = SyncThread
         /\ pc[SyncThread] \in Labels
  <1>1. \A t \in Threads : PullStep(t) => t = SyncThread
    BY RoleOf DEF CoverageInv, AloneInv
  <1> QED
    BY <1>1 DEF CoverageInv, CoverageSound, AloneInv, EngineInv, CallsSound, Threads, TypeOK

\* A label at which the call holds nothing that coverage is about.
Plain == {"idle", "scope", "reconcile", "load", "getItems", "flush", "flushScope"}

\* The keys of a scope are keys, and a row without a scope covers none.
LEMMA ActiveKeys ==
  /\ \A s \in Scopes : Active(s) \subseteq Keys
  /\ TypeOK => \A row \in HeldRows : Active(row.scope) \subseteq Keys
  /\ Active(NewNamespace.scope) = {}
  <1>1. \A s \in Scopes : Active(s) \subseteq Keys
    BY DEF Scopes, Active
  <1>2. TypeOK => \A row \in HeldRows : row.scope \in Scopes
    BY HeadTypes DEF NamespaceState
  <1> QED
    BY <1>1, <1>2 DEF Active, NewNamespace

\* A step that stores no new row, and leaves recent what is recent.
LEMMA StoredNext ==
  ASSUME CoverageInv, srvHead' = srvHead, \A k \in Keys : Recent(k) => Recent(k)',
         HeldRows' \subseteq HeldRows \cup {NewNamespace}
  PROVE  StoredCovered'
  <1> SUFFICES ASSUME NEW row \in HeldRows', row.head = srvHead', NEW k \in Active(row.scope)
               PROVE  Recent(k)'
    BY DEF StoredCovered, Covered
  <1>1. row \in HeldRows
    BY ActiveKeys
  <1>2. Recent(k) /\ k \in Keys
    BY <1>1, CoverageFacts, ActiveKeys DEF StoredCovered, Covered
  <1> QED
    BY <1>2

\* A step that ends at such a label and stores no head.
LEMMA PlainCoverage ==
  ASSUME CoverageInv, pc'[SyncThread] \in Plain, attempt' = 0,
         srvHead' = srvHead, \A k \in Keys : Recent(k) => Recent(k)',
         HeldRows' \subseteq HeldRows \cup {NewNamespace}
  PROVE  CoverageSound'
  <1>1. StoredCovered'
    BY StoredNext
  <1>2. FetchedSound' /\ PullCovered' /\ FlushCovered' /\ AttemptsCounted'
    BY DEF FetchedSound, Fetched, PullCovered, FlushCovered, AttemptsCounted, Pulling, Flushing,
           Writing, Plain
  <1> QED
    BY <1>1, <1>2 DEF CoverageSound

\* A write that reaches the server puts every head out of date.
LEMMA OutOfDate ==
  ASSUME CoverageInv, srvHead' = srvHead + 1
  PROVE  /\ \A row \in HeldRows \cup {NewNamespace} : row.head # srvHead'
         /\ ns.head # srvHead' /\ rhead[SyncThread] # srvHead'
         /\ pc[SyncThread] \in Uncounted => nsl[SyncThread].head + 1 # srvHead'
  BY CoverageFacts, HeadTypes DEF HeadsSound, NewNamespace

-----------------------------------------------------------------------------
(* Coverage: steps *)

\* The phases in which SyncNow has decided nothing about an item.
LEMMA PlainSteps ==
  ASSUME CoverageInv,
         \/ TakeSnapshot \/ LoadSnapshotScope \/ ListDirtyItems
         \/ \E k \in Keys : ReconcileSnapshotValue(k)
         \/ \E t \in Threads : ListRemote(t)
  PROVE  CoverageSound'
  <1>1. TypeOK /\ SyncThread \in Threads /\ \A t \in Threads : ListRemote(t) => t = SyncThread
    BY CoverageFacts DEF PullStep
  <1>2. pc[SyncThread] \in Plain /\ attempt = 0
    BY <1>1, CoverageFacts DEF TakeSnapshot, LoadSnapshotScope, ListDirtyItems,
       ReconcileSnapshotValue, ListRemote, Plain, AttemptsCounted, Labels, Writing
  <1>3. pc'[SyncThread] \in Plain /\ attempt' = attempt
    BY <1>1, <1>2 DEF TakeSnapshot, LoadSnapshotScope, ListDirtyItems, ReconcileSnapshotValue,
       ListRemote, Plain, Goto, TypeOK, syncVars
  <1>4. UNCHANGED <<ns, nsl, srvHead, srvLog>>
    BY DEF TakeSnapshot, LoadSnapshotScope, ListDirtyItems, ReconcileSnapshotValue, ListRemote,
           serverVars, storeVars, pullVars
  <1>5. \A k \in Keys : Recent(k) => Recent(k)'
    <2>1. CASE items' = items
      BY <1>4, <2>1 DEF Recent
    <2>2. CASE \E k \in Keys : ReconcileSnapshotValue(k)
      <3>1. PICK k \in Keys : ReconcileSnapshotValue(k)
        BY <2>2
      <3>2. items[k] \in ItemState
        BY <1>1 DEF TypeOK
      <3>3. \/ items'[k] = items[k]
            \/ /\ ~items[k].conflict
               /\ items'[k] = markItemDirty(items[k])
        BY <1>1, <3>1 DEF ReconcileSnapshotValue, ReconciledItem, TypeOK
      <3>4. Recent(k) => Recent(k)'
        BY <1>4, <3>2, <3>3 DEF Recent, markItemDirty, ItemState
      <3>5. \A j \in Keys \ {k} : items'[j] = items[j]
        BY <1>1, <3>1 DEF ReconcileSnapshotValue, TypeOK
      <3>6. \A j \in Keys \ {k} : Recent(j) => Recent(j)'
        BY <1>4, <3>5 DEF Recent
      <3> QED
        BY <3>4, <3>6
    <2> QED
      BY <2>1, <2>2 DEF TakeSnapshot, LoadSnapshotScope, ListDirtyItems, ListRemote, storeVars
  <1> QED
    BY <1>2, <1>3, <1>4, <1>5, PlainCoverage DEF HeldRows

\* SyncNow returns, or the process ends.
LEMMA EndCoverage ==
  ASSUME CoverageInv, pc'[SyncThread] = "idle", attempt' = 0,
         HeldRows' \subseteq HeldRows \cup {NewNamespace},
         \/ srvHead' = srvHead /\ srvLog' = srvLog /\ items' = items
         \/ srvHead' = srvHead + 1
         \/ HeldRows' \subseteq {NewNamespace}
  PROVE  CoverageSound'
  <1>1. CASE srvHead' = srvHead /\ srvLog' = srvLog /\ items' = items
    <2>1. \A k : Recent(k) => Recent(k)'
      BY <1>1 DEF Recent
    <2> QED
      BY <1>1, <2>1, PlainCoverage DEF Plain
  <1>2. CASE srvHead' = srvHead + 1 \/ HeldRows' \subseteq {NewNamespace}
    <2>1. StoredCovered'
      BY <1>2, OutOfDate, ActiveKeys DEF StoredCovered, Covered
    <2>2. FetchedSound' /\ PullCovered' /\ FlushCovered' /\ AttemptsCounted'
      BY DEF FetchedSound, Fetched, PullCovered, FlushCovered, AttemptsCounted, Pulling,
             Flushing, Writing
    <2> QED
      BY <2>1, <2>2 DEF CoverageSound
  <1> QED
    BY <1>1, <1>2

\* A head and a scope that have not changed are covered by the checkpoint already.
LEMMA LoadCoverage ==
  ASSUME CoverageInv, NEW t \in Threads, LoadNamespace(t)
  PROVE  CoverageSound'
  <1>1. t = SyncThread /\ SyncThread \in Threads /\ TypeOK /\ AttemptsCounted /\ StoredCovered
    BY CoverageFacts DEF PullStep
  <1>2. /\ pc[SyncThread] = "load" /\ attempt' = attempt /\ attempt = 0
        /\ UNCHANGED <<srvLog, srvHead, ns, items, rhead>>
        /\ rhead[SyncThread] >= ns.head /\ seen'[SyncThread] = scope
        /\ nsl' = [nsl EXCEPT ![SyncThread] = ns]
    BY <1>1 DEF LoadNamespace, AttemptsCounted, Labels, Writing, TypeOK, serverVars, storeVars,
                syncVars
  <1>3. \A k : Recent(k) => Recent(k)'
    BY <1>2 DEF Recent
  <1>4. HeldRows' \subseteq HeldRows \cup {NewNamespace}
    BY <1>1, <1>2, HeldNext, HeadTypes
  <1>5. CASE pc'[SyncThread] = "getItems"
    BY <1>2, <1>3, <1>5, <1>4, PlainCoverage DEF Plain
  <1>6. CASE pc'[SyncThread] = "checkpoint" /\ rhead[SyncThread] = ns.head /\ scope = ns.scope
    <2>1. Covered(ns.head, Active(ns.scope)) /\ Active(ns.scope) \subseteq Keys
      BY <1>1, HeadTypes, ActiveKeys DEF StoredCovered
    <2>2. StoredCovered' /\ PullCovered'
      BY <1>2, <1>3, <1>6, <1>4, <2>1, StoredNext DEF PullCovered, Covered, Pulling, Writing
    <2>3. FetchedSound' /\ FlushCovered' /\ AttemptsCounted'
      BY <1>2, <1>6 DEF FetchedSound, Fetched, FlushCovered, AttemptsCounted, Flushing, Writing
    <2> QED
      BY <2>2, <2>3 DEF CoverageSound
  <1>7. \/ pc'[SyncThread] = "getItems"
        \/ pc'[SyncThread] = "checkpoint" /\ ~(rhead[SyncThread] > ns.head) /\ scope = ns.scope
    BY <1>1 DEF LoadNamespace, Goto, TypeOK
  <1>8. ~(rhead[SyncThread] > ns.head) => rhead[SyncThread] = ns.head
    BY <1>1, <1>2, HeadTypes
  <1> QED
    BY <1>5, <1>6, <1>7, <1>8

\* The listed versions are the server's.
LEMMA GetNamespaceItemsCoverage ==
  ASSUME CoverageInv, NEW t \in Threads, GetNamespaceItems(t)
  PROVE  CoverageSound'
  <1>1. t = SyncThread /\ TypeOK /\ AttemptsCounted /\ StoredCovered
    BY CoverageFacts DEF PullStep
  <1>2. /\ pc[SyncThread] = "getItems" /\ attempt' = attempt /\ attempt = 0
        /\ pc'[SyncThread] = "scan" /\ UNCHANGED <<srvLog, srvHead, ns, nsl, items>>
        /\ rver'[SyncThread] = [k \in Keys |-> Len(srvLog[k])]
    BY <1>1 DEF GetNamespaceItems, AttemptsCounted, Labels, Writing, Goto, TypeOK, serverVars,
                storeVars, syncVars
  <1>3. \A k : Recent(k) => Recent(k)'
    BY <1>2 DEF Recent
  <1>4. StoredCovered' /\ PullCovered'
    BY <1>1, <1>2, <1>3, StoredNext DEF HeldRows, PullCovered, Covered, Pulling, Writing
  <1>5. FetchedSound' /\ FlushCovered' /\ AttemptsCounted'
    BY <1>2 DEF FetchedSound, Fetched, FlushCovered, AttemptsCounted, Flushing, Writing
  <1> QED
    BY <1>4, <1>5 DEF CoverageSound

\* What is not pulled is recent.
LEMMA ScanCoverage ==
  ASSUME CoverageInv, NEW t \in Threads, ScanItems(t)
  PROVE  CoverageSound'
  <1>1. t = SyncThread /\ TypeOK /\ AttemptsCounted /\ StoredCovered /\ PullCovered
    BY CoverageFacts DEF PullStep
  <1>2. /\ pc[SyncThread] = "scan" /\ attempt' = attempt /\ attempt = 0
        /\ pc'[SyncThread] = "pull"
        /\ UNCHANGED <<srvLog, srvHead, ns, nsl, items, rhead, rver, seen>>
        /\ todo'[SyncThread] = {k \in Active(seen[SyncThread]) :
                                   rver[SyncThread][k] > items[k].version}
        /\ \A k \in Keys : items[k].version <= rver[SyncThread][k]
    BY <1>1 DEF ScanItems, AttemptsCounted, Labels, Writing, Goto, TypeOK, serverVars,
                storeVars, syncVars, pullVars
  <1>3. \A k : Recent(k) => Recent(k)'
    BY <1>2 DEF Recent
  <1>4. Active(seen[SyncThread]) \subseteq Keys
    BY <1>1, ActiveKeys, CoverageFacts DEF TypeOK
  <1>5. ASSUME rhead[SyncThread] = srvHead,
               NEW k \in Active(seen[SyncThread]) \ todo'[SyncThread]
        PROVE  Recent(k)
    <2>1. k \in Keys /\ ~(rver[SyncThread][k] > items[k].version)
          /\ rver[SyncThread][k] = Len(srvLog[k])
      BY <1>1, <1>2, <1>4, <1>5 DEF PullCovered
    <2> QED
      BY <1>1, <1>2, <2>1, HeadTypes DEF Recent
  <1>6. PullCovered'
    BY <1>2, <1>3, <1>5 DEF PullCovered, Covered, Pulling, Writing
  <1>7. StoredCovered'
    BY <1>2, <1>3, StoredNext DEF HeldRows
  <1>8. FetchedSound' /\ FlushCovered' /\ AttemptsCounted'
    BY <1>2 DEF FetchedSound, Fetched, FlushCovered, AttemptsCounted, Flushing, Writing
  <1> QED
    BY <1>6, <1>7, <1>8 DEF CoverageSound

\* An item is fetched, and taken off the list.
LEMMA GetItemCoverage ==
  ASSUME CoverageInv, NEW t \in Threads, NEW k \in Keys, GetItem(t, k)
  PROVE  CoverageSound'
  <1>1. t = SyncThread /\ TypeOK /\ AttemptsCounted /\ StoredCovered /\ PullCovered
    BY CoverageFacts DEF PullStep
  <1>2. /\ pc[SyncThread] = "pull" /\ attempt' = attempt /\ attempt = 0
        /\ pc'[SyncThread] = "apply" /\ key'[SyncThread] = k
        /\ UNCHANGED <<srvLog, srvHead, ns, nsl, items, rhead, seen>>
        /\ todo'[SyncThread] = todo[SyncThread] \ {k}
        /\ got'[SyncThread].version = Len(srvLog[k])
    BY <1>1 DEF GetItem, AttemptsCounted, Labels, Writing, Goto, TypeOK, serverVars,
                storeVars, syncVars, pullVars
  <1>3. \A j : Recent(j) => Recent(j)'
    BY <1>2 DEF Recent
  <1>4. PullCovered'
    BY <1>1, <1>2, <1>3 DEF PullCovered, Covered, Pulling, Writing
  <1>5. StoredCovered' /\ FetchedSound'
    BY <1>2, <1>3, StoredNext DEF HeldRows, FetchedSound
  <1>6. FlushCovered' /\ AttemptsCounted'
    BY <1>2 DEF FlushCovered, AttemptsCounted, Flushing, Writing
  <1> QED
    BY <1>4, <1>5, <1>6 DEF CoverageSound

\* A row that caught up with what was fetched is recent.
LEMMA SkipApplyCoverage ==
  ASSUME CoverageInv, NEW t \in Threads, SkipApply(t)
  PROVE  CoverageSound'
  <1>1. /\ t = SyncThread /\ TypeOK /\ AttemptsCounted /\ StoredCovered /\ PullCovered
        /\ FetchedSound /\ CallSound(SyncThread)
    BY CoverageFacts DEF PullStep
  <1>2. /\ pc[SyncThread] = "apply" /\ attempt' = attempt /\ attempt = 0
        /\ pc'[SyncThread] = "pull"
        /\ UNCHANGED <<srvLog, srvHead, ns, nsl, items, rhead, seen, todo>>
        /\ items[key[SyncThread]].version >= got[SyncThread].version
    BY <1>1 DEF SkipApply, AttemptsCounted, Labels, Writing, Goto, TypeOK, serverVars,
                storeVars, syncVars, pullVars
  <1>3. \A j : Recent(j) => Recent(j)'
    BY <1>2 DEF Recent
  <1>4. rhead[SyncThread] = srvHead => Recent(key[SyncThread])
    <2>1. key[SyncThread] \in Keys
      BY <1>1, <1>2 DEF CallSound, Fetched
    <2>2. items[key[SyncThread]].version <= Len(srvLog[key[SyncThread]])
      BY <2>1 DEF CoverageInv, AloneInv, EngineInv, MergeBaseSound, RowSound
    <2>3. rhead[SyncThread] = srvHead =>
             items[key[SyncThread]].version >= Len(srvLog[key[SyncThread]])
      BY <1>1, <1>2 DEF FetchedSound, Fetched, UpToDate
    <2> QED
      BY <1>1, <2>1, <2>2, <2>3, HeadTypes DEF Recent
  <1>5. PullCovered'
    BY <1>1, <1>2, <1>3, <1>4 DEF PullCovered, Covered, Pulling, Writing
  <1>6. StoredCovered'
    BY <1>2, <1>3, StoredNext DEF HeldRows
  <1>7. FetchedSound' /\ FlushCovered' /\ AttemptsCounted'
    BY <1>2 DEF FetchedSound, Fetched, FlushCovered, AttemptsCounted, Flushing, Writing
  <1> QED
    BY <1>5, <1>6, <1>7 DEF CoverageSound

\* The two ways in which a step may leave a row recent.
LEMMA RecentNext ==
  ASSUME NEW k, \/ items'[k].version = Len(srvLog'[k])
                \/ items'[k].dirty /\ ~items'[k].conflict
  PROVE  Recent(k)'
  BY DEF Recent

\* Between the fetch and the save nothing that coverage is about changes.
LEMMA WorkCoverage ==
  ASSUME CoverageInv, NEW t \in Threads,
         BeginApply(t) \/ SetIfCurrent(t) \/ (t = SyncThread /\ BeginReapply)
  PROVE  CoverageSound'
  <1>1. /\ t = SyncThread /\ TypeOK /\ AttemptsCounted /\ StoredCovered /\ PullCovered
        /\ FetchedSound /\ FlushCovered /\ CallSound(SyncThread)
    BY CoverageFacts DEF PullStep
  <1>2. /\ pc[SyncThread] \in {"apply", "reapply", "set"} /\ pc'[SyncThread] \in Writing
        /\ UNCHANGED <<srvLog, srvHead, ns, items, rhead, seen, todo, key, got, nsl, attempt>>
    BY <1>1 DEF BeginApply, BeginReapply, SetIfCurrent, ReadForApply, Goto, TypeOK, serverVars,
                storeVars, syncVars, pullVars, itemVars, Writing
  <1>3. \A j : Recent(j) => Recent(j)'
    BY <1>2 DEF Recent
  <1>4. Pulling' => Pulling
    BY <1>1, <1>2 DEF Pulling, Writing, AttemptsCounted
  <1>5. Flushing' => Flushing
    BY <1>1, <1>2 DEF Flushing, Writing, AttemptsCounted, Labels
  <1>6. pc'[SyncThread] = "saveRaced" => ~items[key[SyncThread]].conflict
    <2>1. CASE SetIfCurrent(t)
      BY <1>1, <2>1 DEF SetIfCurrent, CallSound, ApplyWrites
    <2>2. CASE ~SetIfCurrent(t)
      BY <1>1, <2>2 DEF BeginApply, BeginReapply, ReadForApply, Goto, TypeOK
    <2> QED
      BY <2>1, <2>2
  <1>7. StoredCovered'
    BY <1>2, <1>3, StoredNext DEF HeldRows
  <1>8. PullCovered'
    BY <1>1, <1>2, <1>3, <1>4 DEF PullCovered, Covered, Writing
  <1>9. FetchedSound'
    BY <1>1, <1>2, <1>6 DEF FetchedSound, UpToDate, HeldRows, Fetched, Writing
  <1>10. FlushCovered' /\ AttemptsCounted'
    BY <1>1, <1>2, <1>5 DEF FlushCovered, AttemptsCounted, Writing
  <1> QED
    BY <1>7, <1>8, <1>9, <1>10 DEF CoverageSound

\* A row that takes the fetched version is at that version.
LEMMA AppliedVersion ==
  ASSUME NEW row \in ItemState, NEW local, NEW version, NEW value
  PROVE  AppliedItem(row, local, version, value).version = version
  <1>1. markItemConflict(row, version, value).version = version
    BY DEF markItemConflict, ItemState
  <1>2. /\ markItemClean(row, version, value).version = version
        /\ markItemDirtyWithBase(row, version, value).version = version
    BY DEF markItemClean, markItemDirtyWithBase, WithBase, clearItemConflict, ItemState
  <1> QED
    BY <1>1, <1>2 DEF AppliedItem

\* The saved row is recent unless both heads are out of date.
LEMMA SaveItemCoverage ==
  ASSUME CoverageInv, NEW t \in Threads, SaveItem(t)
  PROVE  CoverageSound'
  <1>1. /\ t = SyncThread /\ TypeOK /\ AttemptsCounted /\ StoredCovered /\ PullCovered
        /\ FetchedSound /\ FlushCovered /\ CallSound(SyncThread)
    BY CoverageFacts DEF PullStep
  <1>2. /\ pc[SyncThread] \in {"save", "saveRaced"}
        /\ UNCHANGED <<srvLog, srvHead, ns, rhead, seen, todo, nsl, attempt>>
    BY <1>1 DEF SaveItem, serverVars, pullVars, syncVars
  <1>3. PICK k \in Keys : k = key[SyncThread] /\ items[k] \in ItemState
    BY <1>1, <1>2 DEF CallSound, Fetched, TypeOK
  <1>4. /\ \A j \in Keys \ {k} : items'[j] = items[j]
        /\ items'[k] = IF pc[SyncThread] = "save"
                         THEN AppliedItem(items[k], cur[SyncThread], got[SyncThread].version,
                                          got[SyncThread].value)
                         ELSE RacedItem(items[k])
    BY <1>1, <1>3 DEF SaveItem, TypeOK
  <1>5. UpToDate => Recent(k)'
    <2>1. CASE pc[SyncThread] = "save"
      <3>1. items'[k].version = got[SyncThread].version
        BY <1>3, <1>4, <2>1, AppliedVersion
      <3>2. UpToDate => got[SyncThread].version = Len(srvLog[k])
        BY <1>1, <1>3, <2>1 DEF FetchedSound, Fetched
      <3>3. UpToDate => items'[k].version = Len(srvLog'[k])
        BY <1>2, <3>1, <3>2
      <3> QED
        BY <3>3, RecentNext
    <2>2. CASE pc[SyncThread] = "saveRaced"
      <3>1. items'[k] = markItemDirty(items[k]) /\ ~items[k].conflict
        BY <1>1, <1>3, <1>4, <2>2 DEF RacedItem, FetchedSound
      <3>2. items'[k].dirty /\ ~items'[k].conflict
        BY <1>3, <3>1 DEF markItemDirty, ItemState
      <3> QED
        BY <3>2, RecentNext
    <2> QED
      BY <1>2, <2>1, <2>2
  <1>6. \A j \in Keys \ {k} : Recent(j) => Recent(j)'
    BY <1>2, <1>4 DEF Recent
  <1>7. Active(seen[SyncThread]) \subseteq Keys
    BY <1>1, ActiveKeys, CoverageFacts DEF TypeOK
  <1>8. StoredCovered'
    <2> SUFFICES ASSUME NEW row \in HeldRows, row.head = srvHead, NEW j \in Active(row.scope)
                 PROVE  Recent(j)'
      BY <1>2 DEF StoredCovered, Covered, HeldRows
    <2>1. Recent(j) /\ j \in Keys /\ UpToDate
      BY <1>1, ActiveKeys DEF StoredCovered, Covered, UpToDate
    <2> QED
      BY <1>5, <1>6, <2>1
  <1>9. CASE attempt > 0
    <2>1. pc'[SyncThread] = "retry"
      BY <1>1, <1>2, <1>9 DEF SaveItem, Goto, TypeOK
    <2>2. FetchedSound' /\ PullCovered' /\ FlushCovered' /\ AttemptsCounted'
      BY <1>2, <1>9, <2>1 DEF FetchedSound, Fetched, PullCovered, FlushCovered,
         AttemptsCounted, Pulling, Flushing, Writing
    <2> QED
      BY <1>8, <2>2 DEF CoverageSound
  <1>10. CASE attempt = 0
    <2>1. pc'[SyncThread] = "pull"
      BY <1>1, <1>2, <1>10 DEF SaveItem, Goto, TypeOK
    <2>2. Covered(rhead[SyncThread], Active(seen[SyncThread]) \ (todo[SyncThread] \cup {k}))
      BY <1>1, <1>2, <1>3, <1>10 DEF PullCovered, Pulling, Writing
    <2>3. PullCovered'
      BY <1>2, <1>5, <1>6, <1>7, <2>1, <2>2 DEF PullCovered, Covered, Pulling, Writing, UpToDate
    <2>4. FetchedSound' /\ FlushCovered' /\ AttemptsCounted'
      BY <1>2, <1>10, <2>1 DEF FetchedSound, Fetched, FlushCovered, AttemptsCounted, Flushing,
         Writing
    <2> QED
      BY <1>8, <2>3, <2>4 DEF CoverageSound
  <1>11. attempt > 0 \/ attempt = 0
    BY <1>1 DEF TypeOK
  <1> QED
    BY <1>9, <1>10, <1>11

\* The checkpoint is stored when all that was to be pulled has been.
LEMMA SaveCheckpointCoverage ==
  ASSUME CoverageInv, NEW t \in Threads, SaveCheckpoint(t)
  PROVE  CoverageSound'
  <1>1. /\ t = SyncThread /\ SyncThread \in Threads /\ TypeOK /\ AttemptsCounted /\ PullCovered
        /\ StoredCovered
    BY CoverageFacts DEF PullStep
  <1>2. /\ pc[SyncThread] = "checkpoint" \/ (pc[SyncThread] = "pull" /\ todo[SyncThread] = {})
        /\ pc'[SyncThread] = "flush" /\ attempt' = attempt
        /\ UNCHANGED <<srvLog, srvHead, items>>
        /\ ns'.head = rhead[SyncThread] /\ ns'.scope = seen[SyncThread]
        /\ nsl' = [nsl EXCEPT ![SyncThread] = NewNamespace]
    BY <1>1 DEF SaveCheckpoint, DropPull, Goto, TypeOK, serverVars, syncVars
  <1>3. \A j : Recent(j) => Recent(j)'
    BY <1>2 DEF Recent
  <1>4. Covered(rhead[SyncThread], Active(seen[SyncThread]))
    BY <1>1, <1>2 DEF PullCovered, Covered
  <1>5. StoredCovered'
    <2>1. HeldRows' \subseteq HeldRows \cup {ns', NewNamespace}
      BY <1>1, <1>2, HeldNext
    <2> SUFFICES ASSUME NEW row \in HeldRows \cup {ns'}, row.head = srvHead,
                        NEW k \in Active(row.scope)
                 PROVE  Recent(k)'
      BY <1>2, <2>1, ActiveKeys DEF StoredCovered, Covered
    <2> QED
      BY <1>1, <1>2, <1>3, <1>4 DEF StoredCovered, Covered
  <1>6. attempt = 0
    BY <1>1, <1>2 DEF AttemptsCounted, Labels, Writing
  <1>7. FetchedSound' /\ PullCovered' /\ FlushCovered' /\ AttemptsCounted'
    BY <1>2, <1>6 DEF FetchedSound, Fetched, PullCovered, FlushCovered, AttemptsCounted,
       Pulling, Flushing, Writing
  <1> QED
    BY <1>5, <1>7 DEF CoverageSound

\* The flush loads the stored head and decides on items; nobody else stores it.
LEMMA FlushSteps ==
  ASSUME CoverageInv,
         \/ LoadFlushCaches \/ \E k \in Keys : SkipUpload(k) \/ BeginUpload(k)
         \/ PutRefused \/ Refetch \/ RetryUpload \/ LeaveItem
  PROVE  CoverageSound'
  <1>1. /\ SyncThread \in Threads /\ TypeOK /\ AttemptsCounted /\ StoredCovered
        /\ FlushCovered
    BY CoverageFacts
  <1>2. UNCHANGED <<srvLog, srvHead, ns, items>>
    BY DEF LoadFlushCaches, SkipUpload, BeginUpload, PutRefused, Refetch, RetryUpload,
           LeaveItem, serverVars, storeVars
  <1>3. /\ nsl' = nsl \/ nsl' = [nsl EXCEPT ![SyncThread] = ns]
        /\ \/ pc'[SyncThread] = "flushItem" /\ attempt' = 0
           \/ pc'[SyncThread] \in {"put", "refetch"} /\ attempt' > 0
           \/ /\ pc'[SyncThread] = "reapply" /\ attempt' > 0
              /\ got'[SyncThread].version = Len(srvLog[key'[SyncThread]])
    <2>1. CASE LoadFlushCaches \/ \E k \in Keys : SkipUpload(k)
      BY <1>1, <2>1 DEF LoadFlushCaches, SkipUpload, Goto, TypeOK, AttemptsCounted, Labels,
         Writing, syncVars, pullVars
    <2>2. CASE (\E k \in Keys : BeginUpload(k)) \/ RetryUpload \/ LeaveItem
      BY <1>1, <2>2 DEF BeginUpload, RetryUpload, LeaveItem, Goto, TypeOK, pullVars
    <2>3. CASE PutRefused \/ Refetch
      BY <1>1, <2>3 DEF PutRefused, Refetch, Goto, TypeOK, AttemptsCounted, syncVars, pullVars
    <2> QED
      BY <2>1, <2>2, <2>3
  <1>4. \A j : Recent(j) => Recent(j)'
    BY <1>2 DEF Recent
  <1>5. StoredCovered'
    <2>1. HeldRows' \subseteq HeldRows \cup {ns', ns} /\ ns \in HeldRows
      BY <1>1, <1>3, HeldNext, HeadTypes
    <2> QED
      BY <1>2, <1>4, <2>1, StoredNext
  <1>6. FetchedSound' /\ PullCovered' /\ FlushCovered' /\ AttemptsCounted'
    BY <1>2, <1>3 DEF FetchedSound, Fetched, PullCovered, FlushCovered, AttemptsCounted,
       Pulling, Flushing, Writing
  <1> QED
    BY <1>5, <1>6 DEF CoverageSound

\* An accepted upload puts the stored head out of date.
LEMMA PutAcceptedCoverage ==
  ASSUME CoverageInv, PutAccepted
  PROVE  CoverageSound'
  <1> DEFINE k == key[SyncThread]
  <1>1. /\ SyncThread \in Threads /\ TypeOK /\ StoredCovered /\ FlushCovered
        /\ CallSound(SyncThread)
    BY CoverageFacts
  <1>2. /\ pc[SyncThread] = "put" /\ pc'[SyncThread] = "saveUpload"
        /\ srvHead' = srvHead + 1 /\ srvLog' = [srvLog EXCEPT ![k] = Append(@, cur[SyncThread])]
        /\ Len(srvLog[k]) = items[k].version
        /\ UNCHANGED <<ns, items, rhead, nsl, key>>
    BY <1>1 DEF PutAccepted, ServerWrite, Accepts, Goto, TypeOK, storeVars, pullVars, itemVars
  <1>3. k \in Keys /\ cur[SyncThread] \in Values
    BY <1>1, <1>2 DEF CallSound, Locked
  <1>4. items[k].version + 1 = Len(srvLog'[k])
    BY <1>1, <1>2, <1>3 DEF TypeOK
  <1>5. \A j \in Keys \ {k} : Recent(j) => Recent(j)'
    <2>1. \A j \in Keys \ {k} : srvLog'[j] = srvLog[j]
      BY <1>1, <1>2 DEF TypeOK
    <2> QED
      BY <1>2, <2>1 DEF Recent
  <1>6. nsl[SyncThread] \in HeldRows /\ Active(nsl[SyncThread].scope) \subseteq Keys
    BY <1>1, ActiveKeys, HeadTypes
  <1>7. nsl[SyncThread].head + 1 = srvHead' =>
           \A j \in Active(nsl[SyncThread].scope) \ {k} : Recent(j)'
    <2>1. nsl[SyncThread].head + 1 = srvHead' => nsl[SyncThread].head = srvHead
      BY <1>1, <1>2, HeadTypes
    <2> QED
      BY <1>1, <1>5, <1>6, <2>1 DEF StoredCovered, Covered
  <1>8. StoredCovered'
    BY <1>2, OutOfDate DEF StoredCovered, Covered, HeldRows
  <1>9. FlushCovered'
    BY <1>2, <1>3, <1>4, <1>7 DEF FlushCovered, Covered, Writing
  <1>10. FetchedSound' /\ PullCovered' /\ AttemptsCounted'
    BY <1>2 DEF FetchedSound, Fetched, PullCovered, AttemptsCounted, Pulling, Writing
  <1> QED
    BY <1>8, <1>9, <1>10 DEF CoverageSound

\* The row records the upload while the stored head is still behind.
LEMMA SaveUploadedItemCoverage ==
  ASSUME CoverageInv, SaveUploadedItem
  PROVE  CoverageSound'
  <1> DEFINE head == nsl[SyncThread].head + 1
             keys == Active(nsl[SyncThread].scope)
  <1>1. /\ SyncThread \in Threads /\ TypeOK /\ StoredCovered /\ FlushCovered /\ HeadsSound
        /\ CallSound(SyncThread)
    BY CoverageFacts
  <1>2. /\ pc[SyncThread] = "saveUpload" /\ pc'[SyncThread] = "saveHead"
        /\ items' = [items EXCEPT ![key[SyncThread]] =
                        markItemClean(@, @.version + 1, cur[SyncThread])]
        /\ UNCHANGED <<srvHead, srvLog, ns, nsl>>
    BY <1>1 DEF SaveUploadedItem, Goto, TypeOK, serverVars, pullVars
  <1>3. PICK k \in Keys : k = key[SyncThread] /\ items[k] \in ItemState
    BY <1>1, <1>2 DEF CallSound, Locked, TypeOK
  <1>4. \A row \in HeldRows : row.head # srvHead
    BY <1>1, <1>2, HeadTypes DEF HeadsSound, Uncounted
  <1>5. head = srvHead => Recent(k)'
    <2>1. head = srvHead => items[k].version + 1 = Len(srvLog[k])
      BY <1>1, <1>2, <1>3 DEF FlushCovered
    <2>2. items'[k].version = items[k].version + 1
      BY <1>1, <1>2, <1>3 DEF TypeOK, markItemClean, WithBase, clearItemConflict, ItemState
    <2> QED
      BY <1>2, <2>1, <2>2, RecentNext
  <1>6. \A j \in Keys \ {k} : Recent(j) => Recent(j)'
    BY <1>1, <1>2, <1>3 DEF Recent, TypeOK
  <1>7. keys \subseteq Keys
    BY <1>1, ActiveKeys, HeadTypes
  <1>8. Covered(head, keys \ {k})
    BY <1>1, <1>2, <1>3 DEF FlushCovered
  <1>9. head = srvHead => \A j \in keys : Recent(j)'
    BY <1>5, <1>6, <1>7, <1>8 DEF Covered
  <1>10. StoredCovered'
    BY <1>2, <1>4 DEF StoredCovered, Covered, HeldRows
  <1>11. FlushCovered'
    BY <1>2, <1>3, <1>9 DEF FlushCovered, Covered
  <1>12. FetchedSound' /\ PullCovered' /\ AttemptsCounted'
    BY <1>2 DEF FetchedSound, Fetched, PullCovered, AttemptsCounted, Pulling, Writing
  <1> QED
    BY <1>10, <1>11, <1>12 DEF CoverageSound

\* The stored head counts the upload.
LEMMA SaveUploadedHeadCoverage ==
  ASSUME CoverageInv, SaveUploadedHead
  PROVE  CoverageSound'
  <1>1. SyncThread \in Threads /\ TypeOK /\ FlushCovered /\ StoredCovered
    BY CoverageFacts
  <1>2. /\ pc[SyncThread] = "saveHead" /\ pc'[SyncThread] = "flushItem" /\ attempt' = 0
        /\ UNCHANGED <<srvHead, srvLog, items>>
        /\ ns' = UploadedNamespace /\ nsl' = [nsl EXCEPT ![SyncThread] = UploadedNamespace]
    BY <1>1 DEF SaveUploadedHead, Goto, TypeOK, serverVars
  <1>3. \A j : Recent(j) => Recent(j)'
    BY <1>2 DEF Recent
  <1>4. StoredCovered'
    <2>1. HeldRows' \subseteq HeldRows \cup {UploadedNamespace}
      BY <1>1, <1>2, HeldNext
    <2>2. Covered(UploadedNamespace.head, Active(UploadedNamespace.scope))
      BY <1>1, <1>2 DEF FlushCovered, UploadedNamespace
    <2> QED
      BY <1>1, <1>2, <1>3, <2>1, <2>2 DEF StoredCovered, Covered
  <1>5. FetchedSound' /\ PullCovered' /\ FlushCovered' /\ AttemptsCounted'
    BY <1>2 DEF FetchedSound, Fetched, PullCovered, FlushCovered, AttemptsCounted, Pulling,
       Flushing, Writing
  <1> QED
    BY <1>4, <1>5 DEF CoverageSound

\* A write of another device puts every head out of date.
LEMMA RemoteWriteCoverage ==
  ASSUME CoverageInv, NEW k \in Keys, RemoteWrite(k)
  PROVE  CoverageSound'
  <1>1. /\ srvHead' = srvHead + 1 /\ UNCHANGED <<ns, items, pc, rhead, nsl, key, attempt>>
    BY DEF RemoteWrite, ServerWrite, storeVars, callVars, pullVars, itemVars, syncVars
  <1>2. FetchedSound /\ FlushCovered /\ AttemptsCounted
    BY CoverageFacts
  <1>3. StoredCovered' /\ PullCovered' /\ FetchedSound'
    BY <1>1, <1>2, OutOfDate
       DEF StoredCovered, PullCovered, FetchedSound, UpToDate, Covered, HeldRows
  <1>4. FlushCovered' /\ AttemptsCounted'
    BY <1>1, <1>2, OutOfDate DEF FlushCovered, AttemptsCounted, Covered, Flushing, Writing,
       Uncounted
  <1> QED
    BY <1>3, <1>4 DEF CoverageSound

\* A step of the app that saves rows, if at all, of which SyncNow holds no lock.
LEMMA AppCoverage ==
  ASSUME CoverageInv, UNCHANGED <<srvLog, srvHead, ns, callVars>>,
         \A k \in Keys : Recent(k) => Recent(k)',
         pc[SyncThread] \in Locked => items'[key[SyncThread]] = items[key[SyncThread]]
  PROVE  CoverageSound'
  <1>1. /\ StoredCovered /\ FetchedSound /\ PullCovered /\ FlushCovered /\ AttemptsCounted
        /\ TypeOK
    BY CoverageFacts
  <1>2. UNCHANGED <<pc, rhead, rver, seen, todo, key, got, nsl, attempt>>
    BY DEF callVars, pullVars, itemVars, syncVars
  <1>3. /\ Active(seen[SyncThread]) \subseteq Keys
        /\ Active(nsl[SyncThread].scope) \subseteq Keys
    BY <1>1, ActiveKeys, HeadTypes, CoverageFacts DEF TypeOK
  <1>4. StoredCovered' /\ PullCovered'
    BY <1>1, <1>2, <1>3, StoredNext DEF HeldRows, PullCovered, Covered, Pulling, Writing
  <1>5. FetchedSound'
    BY <1>1, <1>2 DEF FetchedSound, UpToDate, HeldRows, Fetched, Locked
  <1>6. FlushCovered'
    BY <1>1, <1>2, <1>3 DEF FlushCovered, Covered, Flushing, Writing, Locked
  <1>7. AttemptsCounted'
    BY <1>1, <1>2 DEF AttemptsCounted, Writing
  <1> QED
    BY <1>4, <1>5, <1>6, <1>7 DEF CoverageSound

\* A resolved conflict is dirty again, or clean at a version that was recent.
LEMMA ResolveCoverage ==
  ASSUME CoverageInv, ResolveStep
  PROVE  CoverageSound'
  <1>1. TypeOK /\ CallSound(SyncThread) /\ SyncThread \in Threads
    BY CoverageFacts
  <1>2. UNCHANGED <<srvLog, srvHead, ns, callVars>>
    BY DEF ResolveStep, ResolveConflictPreferLocal, ResolveConflictWithValue,
           ResolveConflictPreferRemote, serverVars
  <1>3. PICK k \in Keys :
          /\ items[k].conflict /\ lock[k] = NoThread
          /\ \/ items' = items
             \/ items' = [items EXCEPT ![k] = markItemDirty(clearItemConflict(@))]
             \/ items' = [items EXCEPT ![k] =
                   markItemClean(@, @.conflictRemoteVersion, @.conflictRemoteValue)]
    BY DEF ResolveStep, ResolveConflictPreferLocal, ResolveConflictWithValue,
           ResolveConflictPreferRemote, Resolvable
  <1>4. /\ items[k] \in ItemState
        /\ items[k].conflictRemoteVersion = items[k].version
    BY <1>1, <1>3 DEF TypeOK, CoverageInv, AloneInv, EngineInv, MergeBaseSound, RowSound
  <1>5. \A j \in Keys \ {k} : items'[j] = items[j]
    BY <1>1, <1>3 DEF TypeOK
  <1>6. Recent(k) => Recent(k)'
    <2>1. CASE items' = items
      BY <1>2, <2>1 DEF Recent
    <2>2. CASE items' = [items EXCEPT ![k] = markItemDirty(clearItemConflict(@))]
      <3>1. items'[k].dirty /\ ~items'[k].conflict
        BY <1>1, <1>4, <2>2 DEF TypeOK, markItemDirty, clearItemConflict, ItemState
      <3> QED
        BY <3>1, RecentNext
    <2>3. CASE items' = [items EXCEPT ![k] =
                   markItemClean(@, @.conflictRemoteVersion, @.conflictRemoteValue)]
      <3>1. items'[k].version = items[k].version
        BY <1>1, <1>4, <2>3 DEF TypeOK, markItemClean, WithBase, clearItemConflict, ItemState
      <3>2. Recent(k) => items[k].version = Len(srvLog[k])
        BY <1>3 DEF Recent
      <3> QED
        BY <1>2, <3>1, <3>2, RecentNext
    <2> QED
      BY <1>3, <2>1, <2>2, <2>3
  <1>7. \A j \in Keys : Recent(j) => Recent(j)'
    BY <1>2, <1>5, <1>6 DEF Recent
  <1>8. pc[SyncThread] \in Locked => items'[key[SyncThread]] = items[key[SyncThread]]
    <2>1. pc[SyncThread] \in Locked => key[SyncThread] \in Keys \ {k}
      BY <1>1, <1>3, ThreadAssumption DEF CallSound, Locked
    <2> QED
      BY <1>5, <2>1
  <1> QED
    BY <1>2, <1>7, <1>8, AppCoverage

\* The other writers of the row save what is covered, or a row that covers nothing.
LEMMA SetupCoverage ==
  ASSUME CoverageInv,
         \/ SetupStep
         \/ \E t \in Threads \ {SyncThread} : SaveJoined(t) \/ Fail(t)
  PROVE  CoverageSound'
  <1>1. /\ TypeOK /\ Roles /\ HeadsSound /\ SyncThread \in Threads
        /\ FetchedSound /\ PullCovered /\ FlushCovered /\ AttemptsCounted
    BY CoverageFacts
  <1>2. SyncStill
    BY <1>1, SetupStill
  <1>3. HeldRows' \subseteq HeldRows \cup {NewNamespace}
    BY <1>1, SetupHeld
  <1>4. \A k : Recent(k)' <=> Recent(k)
    BY <1>2 DEF SyncStill, Recent
  <1>5. StoredCovered'
    BY <1>2, <1>3, <1>4, StoredNext DEF SyncStill
  <1>6. UpToDate' => UpToDate
    <2>1. srvHead = 0 => ns.head = srvHead
      BY <1>1, HeadTypes DEF HeadsSound
    <2> QED
      BY <1>1, <1>2, <1>3, <2>1, HeadTypes DEF SyncStill, UpToDate, NewNamespace
  <1>7. FetchedSound'
    BY <1>1, <1>2, <1>6 DEF SyncStill, FetchedSound
  <1>8. PullCovered'
    BY <1>1, <1>2, <1>4 DEF SyncStill, PullCovered, Covered, Pulling
  <1>9. FlushCovered' /\ AttemptsCounted'
    BY <1>1, <1>2, <1>4 DEF SyncStill, FlushCovered, AttemptsCounted, Covered
  <1> QED
    BY <1>5, <1>7, <1>8, <1>9 DEF CoverageSound

\* Failures, crashes and resets.
LEMMA FaultCoverage ==
  ASSUME CoverageInv, FaultStep \/ ResetSyncState
  PROVE  CoverageSound'
  <1>1. SyncThread \in Threads /\ TypeOK
    BY CoverageFacts
  <1>2. CASE PutResponseLost \/ Fail(SyncThread)
    <2>1. Return(SyncThread, FALSE)
      BY <1>1, <1>2 DEF PutResponseLost, Fail
    <2>2. pc'[SyncThread] = "idle" /\ attempt' = 0
      BY <1>1, <2>1 DEF Return, Goto, TypeOK
    <2>3. \/ srvHead' = srvHead /\ srvLog' = srvLog /\ items' = items
          \/ srvHead' = srvHead + 1
      BY <1>2 DEF PutResponseLost, Fail, ServerWrite, serverVars, storeVars
    <2>4. ns' = ns /\ nsl' = [nsl EXCEPT ![SyncThread] = NewNamespace]
      BY <1>2, <2>1 DEF PutResponseLost, Fail, Return, DropPull, storeVars
    <2>5. HeldRows' \subseteq HeldRows \cup {NewNamespace}
      BY <1>1, <2>4, HeldNext, HeadTypes
    <2> QED
      BY <2>2, <2>3, <2>5, EndCoverage
  <1>3. CASE Crash \/ ResetSyncState
    <2>1. pc'[SyncThread] = "idle" /\ attempt' = 0
      BY <1>1, <1>3 DEF Crash, ResetSyncState, Restart
    <2>2. /\ nsl' = [t \in Threads |-> NewNamespace]
          /\ \/ srvHead' = srvHead /\ srvLog' = srvLog /\ ns' = ns /\ items' = items
             \/ ns' = NewNamespace
      BY <1>3 DEF Crash, ResetSyncState, Restart, serverVars, storeVars
    <2>3. /\ HeldRows' \subseteq HeldRows \cup {NewNamespace}
          /\ ns' = NewNamespace => HeldRows' \subseteq {NewNamespace}
      BY <2>2 DEF HeldRows
    <2> QED
      BY <2>1, <2>2, <2>3, EndCoverage
  <1>4. CASE \E t \in Threads \ {SyncThread} : Fail(t)
    BY <1>4, SetupCoverage
  <1> QED
    BY <1>2, <1>3, <1>4 DEF FaultStep

\* A pass that ends early leaves what is stored.
LEMMA EarlyReturnCoverage ==
  ASSUME CoverageInv, NEW t \in Threads,
         \/ \E k \in Keys : GetItemRollback(t, k)
         \/ ApplyNotFound(t) \/ (t = SyncThread /\ (RefetchRollback \/ FinishSync))
  PROVE  CoverageSound'
  <1>1. SyncThread \in Threads /\ TypeOK /\ t = SyncThread /\ AloneInv
    BY CoverageFacts DEF CoverageInv, PullStep
  <1>2. Return(SyncThread, FALSE)
    BY <1>1, NoAlarm DEF ApplyNotFound, FinishSync
  <1>3. pc'[SyncThread] = "idle" /\ attempt' = 0
    BY <1>1, <1>2 DEF Return, Goto, TypeOK
  <1>4. srvHead' = srvHead /\ srvLog' = srvLog /\ ns' = ns /\ items' = items
    BY DEF GetItemRollback, ApplyNotFound, RefetchRollback, FinishSync, serverVars, storeVars
  <1>5. HeldRows' \subseteq HeldRows \cup {ns', NewNamespace}
    BY <1>1, <1>2, HeldNext DEF Return, DropPull
  <1> QED
    BY <1>1, <1>3, <1>4, <1>5, HeadTypes, EndCoverage

\* The pull phase.
LEMMA PullCoverage ==
  ASSUME CoverageInv, NEW t \in Threads, PullStep(t)
  PROVE  CoverageSound'
  <1>1. CASE \/ ListRemote(t) \/ LoadNamespace(t) \/ GetNamespaceItems(t) \/ ScanItems(t)
             \/ \E k \in Keys : GetItem(t, k)
    BY <1>1, PlainSteps, LoadCoverage, GetNamespaceItemsCoverage, ScanCoverage, GetItemCoverage
  <1>2. CASE \/ SkipApply(t) \/ BeginApply(t) \/ SetIfCurrent(t) \/ SaveItem(t)
             \/ SaveCheckpoint(t)
    BY <1>2, SkipApplyCoverage, WorkCoverage, SaveItemCoverage, SaveCheckpointCoverage
  <1>3. CASE (\E k \in Keys : GetItemRollback(t, k)) \/ ApplyNotFound(t)
    BY <1>3, EarlyReturnCoverage
  <1>4. ~LoadNamespaceRollback(t) /\ ~GetNamespaceItemsRollback(t) /\ ~ScanItemsRollback(t)
    BY NoAlarm DEF CoverageInv
  <1> QED
    BY <1>1, <1>2, <1>3, <1>4 DEF PullStep

\* The snapshot and push phases.
LEMMA SyncCoverage ==
  ASSUME CoverageInv, SyncStep
  PROVE  CoverageSound'
  <1>0. SyncThread \in Threads
    BY DEF Threads
  <1>1. CASE \/ TakeSnapshot \/ LoadSnapshotScope \/ ListDirtyItems
             \/ \E k \in Keys : ReconcileSnapshotValue(k)
    BY <1>1, PlainSteps
  <1>2. CASE \/ LoadFlushCaches \/ \E k \in Keys : SkipUpload(k) \/ BeginUpload(k)
             \/ PutRefused \/ Refetch \/ RetryUpload \/ LeaveItem
    BY <1>2, FlushSteps
  <1>3. CASE PutAccepted \/ SaveUploadedItem \/ SaveUploadedHead
    BY <1>3, PutAcceptedCoverage, SaveUploadedItemCoverage, SaveUploadedHeadCoverage
  <1>4. CASE RefetchRollback \/ FinishSync \/ BeginReapply
    BY <1>0, <1>4, EarlyReturnCoverage, WorkCoverage
  <1> QED
    BY <1>1, <1>2, <1>3, <1>4 DEF SyncStep

\* Every step keeps the invariant.
LEMMA CoverageNext == CoverageInv /\ [Next]_vars => CoverageInv'
  <1> SUFFICES ASSUME CoverageInv, [Next]_vars PROVE CoverageSound'
    BY AloneNext DEF CoverageInv
  <1>1. CASE EngineStep
    <2>1. ASSUME NEW t \in Threads, SaveJoined(t) PROVE t \in Threads \ {SyncThread}
      BY <2>1, RoleOf DEF CoverageInv, AloneInv
    <2> QED
      BY <1>1, <2>1, PullCoverage, SyncCoverage, SetupCoverage DEF EngineStep
  <1>2. CASE FaultStep \/ ResetSyncState
    BY <1>2, FaultCoverage
  <1>3. CASE ResolveStep
    BY <1>3, ResolveCoverage
  <1>4. CASE \E k \in Keys : RemoteWrite(k)
    BY <1>4, RemoteWriteCoverage
  <1>5. CASE (\E k \in Keys : AppWrite(k)) \/ DeleteStep \/ ScopeStep \/ UNCHANGED vars
    <2>1. UNCHANGED <<srvLog, srvHead, ns, items, callVars>>
      BY <1>5 DEF AppWrite, DeleteStep, AppDelete, ScopeStep, OpenCollection, ChangeScope,
                  vars, callVars, serverVars, storeVars
    <2>2. \A k \in Keys : Recent(k) => Recent(k)'
      BY <2>1 DEF Recent
    <2> QED
      BY <2>1, <2>2, AppCoverage
  <1>6. CASE SetupStep
    BY <1>6, SetupCoverage
  <1> QED
    BY <1>1, <1>2, <1>3, <1>4, <1>5, <1>6 DEF Next, WriteStep

\* For every set of keys, every merge function and every backend: while no
\* Engine.ListNamespaces call overlaps with SyncNow, the stored head and scope hash let
\* a pass skip the item listing only when it would find nothing, at every instant and so
\* after a crash at any point, also when Engine.JoinNamespace or Engine.DefaultNamespace
\* puts an older row back, or an empty one.
THEOREM CheckpointSoundness == Spec /\ Listers = {} => []CheckpointSound
  <1>1. Init /\ Listers = {} => CoverageInv
    <2> SUFFICES ASSUME Init, Listers = {} PROVE CoverageSound
      BY AloneInit DEF CoverageInv
    <2>1. pc[SyncThread] = "idle" /\ attempt = 0 /\ HeldRows = {NewNamespace}
      BY DEF Init, Threads, HeldRows
    <2>2. StoredCovered
      BY <2>1, ActiveKeys DEF StoredCovered, Covered
    <2>3. FetchedSound /\ PullCovered /\ FlushCovered /\ AttemptsCounted
      BY <2>1 DEF FetchedSound, Fetched, PullCovered, FlushCovered, AttemptsCounted, Pulling,
         Flushing, Writing
    <2> QED
      BY <2>2, <2>3 DEF CoverageSound
  <1>2. CoverageInv => CheckpointSound
    BY HeadTypes, CoverageFacts DEF StoredCovered, Covered, Recent, CheckpointSound
  <1> QED
    BY <1>1, <1>2, CoverageNext, PTL DEF Spec

-----------------------------------------------------------------------------
(***************************************************************************)
(* A pass does not lower the stored head, even when the server is restored *)
(* from a backup: what a pass stores was compared with the head it loaded, *)
(* and in between DefaultNamespace may forget the head but nobody stores a *)
(* higher one.  Neither EngineInv nor HeadsSound survives such a restore,  *)
(* so HeadInv stands without them.                                         *)
(***************************************************************************)

\* Where a pass can be.
PassLabels == Labels \ {"join"}

\* The types the argument needs; a restored server's head is only known to be a number.
HeadsTyped ==
    /\ Listers = {} /\ Joiners = {}
    /\ pc \in [Threads -> PassLabels] /\ DOMAIN rhead = Threads /\ DOMAIN nsl = Threads
    /\ attempt \in Nat /\ srvHead \in Int /\ ns.head \in Nat
    /\ rhead[SyncThread] \in Int /\ nsl[SyncThread].head \in Nat

\* A pull phase that passed its head check will store a head that is not below the
\* stored one, and the flush counts up from a head that is not.
HeadsOrdered ==
    /\ Pulling \/ pc[SyncThread] \in {"getItems", "scan", "pull", "checkpoint"} =>
          ns.head <= rhead[SyncThread]
    /\ Flushing => ns.head <= nsl[SyncThread].head

\* The inductive invariant.
HeadInv == HeadsTyped /\ HeadsOrdered /\ AttemptsCounted

\* What every lemma below starts from.
LEMMA HeadFacts ==
  ASSUME HeadInv
  PROVE  /\ Threads = {SyncThread} /\ pc[SyncThread] \in PassLabels /\ attempt \in Nat
         /\ pc \in [Threads -> PassLabels] /\ DOMAIN rhead = Threads /\ DOMAIN nsl = Threads
         /\ srvHead \in Int /\ ns.head \in Nat
         /\ rhead[SyncThread] \in Int /\ nsl[SyncThread].head \in Nat
  BY DEF HeadInv, HeadsTyped, Threads

\* A step that stores no head and reads none, and goes to label.
LEMMA MoveOrder ==
  ASSUME HeadInv, NEW label \in PassLabels, Goto(SyncThread, label),
         UNCHANGED <<ns, rhead, nsl>>, srvHead' \in Int, attempt' \in Nat,
         Pulling' \/ label \in {"getItems", "scan", "pull", "checkpoint"} =>
            Pulling \/ pc[SyncThread] \in {"getItems", "scan", "pull", "checkpoint"},
         Flushing' => Flushing,
         label \notin {"put", "saveUpload", "saveHead", "refetch", "reapply", "retry"}
                        \cup Writing => attempt' = 0,
         label \in {"put", "refetch", "reapply", "retry"} => attempt' > 0
  PROVE  HeadInv' /\ PassKeepsHead
  <1>1. pc' \in [Threads -> PassLabels] /\ pc'[SyncThread] = label
    BY HeadFacts DEF Goto
  <1>2. HeadsTyped'
    BY <1>1 DEF HeadInv, HeadsTyped
  <1>3. HeadsOrdered'
    BY <1>1 DEF HeadInv, HeadsOrdered
  <1>4. AttemptsCounted'
    BY <1>1 DEF AttemptsCounted
  <1>5. PassKeepsHead
    BY HeadFacts DEF PassKeepsHead
  <1> QED
    BY <1>2, <1>3, <1>4, <1>5 DEF HeadInv

\* A step of the app, the server or another device.
LEMMA OutsideOrder ==
  ASSUME HeadInv, UNCHANGED <<ns, callVars>>, srvHead' \in Int
  PROVE  HeadInv' /\ PassKeepsHead
  <1>1. UNCHANGED <<ns, pc, rhead, nsl, attempt>>
    BY DEF callVars, pullVars, syncVars
  <1>2. HeadsTyped'
    BY <1>1 DEF HeadInv, HeadsTyped
  <1>3. HeadsOrdered' /\ AttemptsCounted'
    BY <1>1 DEF HeadInv, HeadsOrdered, AttemptsCounted, Pulling, Flushing
  <1>4. PassKeepsHead
    BY <1>1, HeadFacts DEF PassKeepsHead
  <1> QED
    BY <1>2, <1>3, <1>4 DEF HeadInv

\* The end of the call, or of the process.
LEMMA EndOrder ==
  ASSUME HeadInv, pc' \in [Threads -> PassLabels], pc'[SyncThread] = "idle",
         DOMAIN rhead' = Threads, DOMAIN nsl' = Threads, rhead'[SyncThread] = 0,
         nsl'[SyncThread] = NewNamespace, attempt' = 0, srvHead' \in Int,
         ns' = ns \/ IsReset
  PROVE  HeadInv' /\ PassKeepsHead
  <1>1. HeadsTyped'
    BY HeadFacts DEF HeadInv, HeadsTyped, NewNamespace, IsReset
  <1>2. HeadsOrdered' /\ AttemptsCounted'
    BY DEF HeadsOrdered, AttemptsCounted, Pulling, Flushing, Writing
  <1>3. PassKeepsHead
    BY HeadFacts DEF PassKeepsHead
  <1> QED
    BY <1>1, <1>2, <1>3 DEF HeadInv

\* A call that returns, without storing a head.
LEMMA ReturnOrder ==
  ASSUME HeadInv, Return(SyncThread, TRUE) \/ Return(SyncThread, FALSE), ns' = ns,
         srvHead' \in Int
  PROVE  HeadInv' /\ PassKeepsHead
  <1>1. /\ pc' \in [Threads -> PassLabels] /\ pc'[SyncThread] = "idle"
        /\ DOMAIN rhead' = Threads /\ DOMAIN nsl' = Threads /\ rhead'[SyncThread] = 0
        /\ nsl'[SyncThread] = NewNamespace /\ attempt' = 0
    BY HeadFacts DEF Return, Goto, DropPull, PassLabels, Labels
  <1> QED
    BY <1>1, EndOrder

\* The snapshot phase.
LEMMA SnapshotOrder ==
  ASSUME HeadInv,
         \/ TakeSnapshot \/ LoadSnapshotScope
         \/ \E k \in Keys : ReconcileSnapshotValue(k)
  PROVE  HeadInv' /\ PassKeepsHead
  <1>1. AttemptsCounted
    BY DEF HeadInv
  <1>2. CASE TakeSnapshot
    <2>1. /\ pc[SyncThread] = "idle" /\ Goto(SyncThread, "scope")
          /\ UNCHANGED <<ns, rhead, nsl, srvHead, attempt>> /\ pc'[SyncThread] = "scope"
      BY <1>2, HeadFacts DEF TakeSnapshot, Goto, serverVars, storeVars, pullVars
    <2> QED
      BY <1>1, <2>1, HeadFacts, MoveOrder
         DEF Pulling, Flushing, Writing, PassLabels, Labels, AttemptsCounted
  <1>3. CASE LoadSnapshotScope
    <2>1. /\ pc[SyncThread] = "scope" /\ Goto(SyncThread, "reconcile")
          /\ UNCHANGED <<ns, rhead, nsl, srvHead, attempt>> /\ pc'[SyncThread] = "reconcile"
      BY <1>3, HeadFacts DEF LoadSnapshotScope, Goto, serverVars, storeVars, pullVars, syncVars
    <2> QED
      BY <1>1, <2>1, HeadFacts, MoveOrder
         DEF Pulling, Flushing, Writing, PassLabels, Labels, AttemptsCounted
  <1>4. CASE \E k \in Keys : ReconcileSnapshotValue(k)
    <2>1. UNCHANGED <<ns, pc, rhead, nsl, attempt, srvHead>>
      BY <1>4 DEF ReconcileSnapshotValue, serverVars, pullVars, syncVars
    <2>2. HeadsTyped' /\ HeadsOrdered' /\ AttemptsCounted'
      BY <2>1 DEF HeadInv, HeadsTyped, HeadsOrdered, AttemptsCounted, Pulling, Flushing
    <2> QED
      BY <2>1, <2>2, HeadFacts DEF HeadInv, PassKeepsHead
  <1> QED
    BY <1>2, <1>3, <1>4

\* What a step of the pull phase that reads no head does to the labels and the attempts.
LEMMA PullMoves ==
  ASSUME HeadInv, NEW t \in Threads,
         \/ ScanItems(t) \/ \E k \in Keys : GetItem(t, k)
         \/ SkipApply(t) \/ BeginApply(t) \/ SetIfCurrent(t) \/ SaveItem(t)
  PROVE  HeadInv' /\ PassKeepsHead
  <1>1. t = SyncThread /\ AttemptsCounted
    BY HeadFacts DEF HeadInv
  <1>2. UNCHANGED <<ns, rhead, nsl, srvHead, attempt>>
    BY DEF ScanItems, GetItem, SkipApply, BeginApply, SetIfCurrent, SaveItem, serverVars,
           storeVars, pullVars, syncVars
  <1>3. CASE ScanItems(t) \/ (\E k \in Keys : GetItem(t, k)) \/ SkipApply(t)
    <2>1. PICK label \in {"pull", "apply"} : Goto(SyncThread, label)
      BY <1>1, <1>3 DEF ScanItems, GetItem, SkipApply
    <2>2. pc[SyncThread] \in {"scan", "pull", "apply"} /\ pc'[SyncThread] = label
      BY <1>1, <1>3, <2>1, HeadFacts DEF ScanItems, GetItem, SkipApply, Goto
    <2> QED
      BY <1>1, <1>2, <2>1, <2>2, HeadFacts, MoveOrder
         DEF Pulling, Flushing, Writing, PassLabels, Labels, AttemptsCounted
  <1>4. CASE BeginApply(t) \/ SetIfCurrent(t)
    <2>1. PICK label \in Writing : Goto(SyncThread, label)
      BY <1>1, <1>4 DEF BeginApply, SetIfCurrent, ReadForApply, Writing
    <2>2. pc[SyncThread] \in {"apply", "set"} /\ pc'[SyncThread] = label
      BY <1>1, <1>4, <2>1, HeadFacts DEF BeginApply, SetIfCurrent, Goto
    <2> QED
      BY <1>1, <1>2, <2>1, <2>2, HeadFacts, MoveOrder
         DEF Pulling, Flushing, Writing, PassLabels, Labels, AttemptsCounted
  <1>5. CASE SaveItem(t)
    <2>1. /\ pc[SyncThread] \in {"save", "saveRaced"}
          /\ \/ attempt > 0 /\ Goto(SyncThread, "retry")
             \/ ~(attempt > 0) /\ Goto(SyncThread, "pull")
      BY <1>1, <1>5 DEF SaveItem
    <2>2. CASE attempt > 0 /\ Goto(SyncThread, "retry")
      <3>1. pc'[SyncThread] = "retry"
        BY <2>2, HeadFacts DEF Goto
      <3> QED
        BY <1>1, <1>2, <2>1, <2>2, <3>1, HeadFacts, MoveOrder
           DEF Pulling, Flushing, Writing, PassLabels, Labels, AttemptsCounted
    <2>3. CASE ~(attempt > 0) /\ Goto(SyncThread, "pull")
      <3>1. pc'[SyncThread] = "pull" /\ attempt = 0
        BY <2>3, HeadFacts DEF Goto
      <3> QED
        BY <1>1, <1>2, <2>1, <2>3, <3>1, HeadFacts, MoveOrder
           DEF Pulling, Flushing, Writing, PassLabels, Labels, AttemptsCounted
    <2> QED
      BY <2>1, <2>2, <2>3
  <1> QED
    BY <1>3, <1>4, <1>5

\* The heads of the server's responses, and the checks they pass.
LEMMA PullHeadsOrder ==
  ASSUME HeadInv, NEW t \in Threads,
         ListRemote(t) \/ LoadNamespace(t) \/ GetNamespaceItems(t)
  PROVE  HeadInv' /\ PassKeepsHead
  <1>1. t = SyncThread /\ AttemptsCounted /\ HeadsOrdered /\ Listers = {} /\ Joiners = {}
    BY HeadFacts DEF HeadInv, HeadsTyped
  <1>2. /\ UNCHANGED <<ns, srvHead, attempt>>
        /\ pc[SyncThread] \in {"reconcile", "load", "getItems"} /\ attempt = 0
    BY <1>1 DEF ListRemote, LoadNamespace, GetNamespaceItems, serverVars, storeVars, syncVars,
                AttemptsCounted, PassLabels, Labels, Writing
  <1>3. /\ pc' \in [Threads -> PassLabels]
        /\ pc'[SyncThread] \in {"load", "getItems", "scan", "checkpoint"}
        /\ DOMAIN rhead' = Threads /\ DOMAIN nsl' = Threads
    BY <1>1, HeadFacts
       DEF ListRemote, LoadNamespace, GetNamespaceItems, Goto, PassLabels, Labels
  <1>4. /\ rhead'[SyncThread] \in Int /\ nsl'[SyncThread].head \in Nat
        /\ pc'[SyncThread] # "load" => ns.head <= rhead'[SyncThread]
    <2>1. CASE ListRemote(t)
      BY <1>1, <2>1, HeadFacts DEF ListRemote, Goto
    <2>2. CASE LoadNamespace(t)
      BY <1>1, <2>2, HeadFacts DEF LoadNamespace
    <2>3. CASE GetNamespaceItems(t)
      BY <1>1, <2>3, HeadFacts DEF GetNamespaceItems, HeadsOrdered
    <2> QED
      BY <2>1, <2>2, <2>3
  <1>5. HeadsTyped'
    BY <1>1, <1>2, <1>3, <1>4, HeadFacts DEF HeadsTyped
  <1>6. HeadsOrdered' /\ AttemptsCounted'
    BY <1>2, <1>3, <1>4 DEF HeadsOrdered, AttemptsCounted, Pulling, Flushing, Writing
  <1> QED
    BY <1>2, <1>5, <1>6, HeadFacts DEF HeadInv, PassKeepsHead

\* What the pull phase stores is not below what it compared with.
LEMMA SaveCheckpointOrder ==
  ASSUME HeadInv, NEW t \in Threads, SaveCheckpoint(t)
  PROVE  HeadInv' /\ PassKeepsHead
  <1>1. t = SyncThread /\ AttemptsCounted /\ HeadsOrdered /\ Listers = {} /\ Joiners = {}
    BY HeadFacts DEF HeadInv, HeadsTyped
  <1>2. /\ pc[SyncThread] \in {"checkpoint", "pull"} /\ ns'.head = rhead[SyncThread]
        /\ ns.head <= rhead[SyncThread] /\ attempt' = attempt /\ srvHead' = srvHead
        /\ Goto(SyncThread, "flush") /\ DropPull(SyncThread)
    BY <1>1 DEF SaveCheckpoint, HeadsOrdered, syncVars, serverVars
  <1>3. /\ pc' \in [Threads -> PassLabels] /\ pc'[SyncThread] = "flush"
        /\ DOMAIN rhead' = Threads /\ DOMAIN nsl' = Threads /\ rhead'[SyncThread] = 0
        /\ nsl'[SyncThread].head = 0
    BY <1>2, HeadFacts DEF Goto, DropPull, NewNamespace, PassLabels, Labels
  <1>4. PassKeepsHead
    BY <1>1, <1>2, HeadFacts DEF HeadsOrdered, PassKeepsHead
  <1>5. HeadsTyped'
    BY <1>1, <1>2, <1>3, HeadFacts DEF HeadsTyped
  <1>6. HeadsOrdered' /\ AttemptsCounted'
    BY <1>1, <1>2, <1>3
       DEF HeadsOrdered, AttemptsCounted, Pulling, Flushing, Writing, PassLabels, Labels
  <1> QED
    BY <1>4, <1>5, <1>6 DEF HeadInv

\* The flush loads the stored head, ...
LEMMA LoadFlushOrder ==
  ASSUME HeadInv, LoadFlushCaches
  PROVE  HeadInv' /\ PassKeepsHead
  <1>1. AttemptsCounted /\ Listers = {} /\ Joiners = {}
    BY DEF HeadInv, HeadsTyped
  <1>2. /\ pc[SyncThread] = "flushScope" /\ UNCHANGED <<ns, rhead, srvHead, attempt>>
        /\ pc' \in [Threads -> PassLabels] /\ pc'[SyncThread] = "flushItem"
        /\ DOMAIN nsl' = Threads /\ nsl'[SyncThread] = ns
    BY HeadFacts DEF LoadFlushCaches, Goto, PassLabels, Labels, storeVars, serverVars, syncVars
  <1>3. HeadsTyped'
    <2>1. ns'.head \in Nat /\ nsl'[SyncThread].head \in Nat
      BY <1>2, HeadFacts
    <2>2. /\ attempt' \in Nat /\ srvHead' \in Int
          /\ rhead'[SyncThread] \in Int /\ DOMAIN rhead' = Threads
      BY <1>2, HeadFacts
    <2>3. pc' \in [Threads -> PassLabels] /\ DOMAIN nsl' = Threads
      BY <1>2
    <2> QED
      BY <1>1, <2>1, <2>2, <2>3 DEF HeadsTyped
  <1>4. HeadsOrdered' /\ AttemptsCounted'
    <2>1. ns'.head <= nsl'[SyncThread].head
      BY <1>2, HeadFacts
    <2> QED
      BY <1>1, <1>2, <2>1
         DEF HeadsOrdered, AttemptsCounted, Pulling, Flushing, Writing, PassLabels, Labels
  <1> QED
    BY <1>2, <1>3, <1>4, HeadFacts DEF HeadInv, PassKeepsHead

\* ... and stores the next one after an upload.
LEMMA SaveUploadedHeadOrder ==
  ASSUME HeadInv, SaveUploadedHead
  PROVE  HeadInv' /\ PassKeepsHead
  <1>1. AttemptsCounted /\ HeadsOrdered /\ Listers = {} /\ Joiners = {}
    BY DEF HeadInv, HeadsTyped
  <1>2. /\ pc[SyncThread] = "saveHead" /\ UNCHANGED <<rhead, srvHead>> /\ attempt' = 0
        /\ pc' \in [Threads -> PassLabels] /\ pc'[SyncThread] = "flushItem"
        /\ DOMAIN nsl' = Threads /\ nsl'[SyncThread] = ns'
        /\ ns'.head = nsl[SyncThread].head + 1
    BY HeadFacts
       DEF SaveUploadedHead, UploadedNamespace, Goto, PassLabels, Labels, storeVars, serverVars
  <1>3. ns.head <= nsl[SyncThread].head
    BY <1>1, <1>2 DEF HeadsOrdered, Flushing
  <1>4. HeadsTyped'
    <2>1. ns'.head \in Nat /\ nsl'[SyncThread].head \in Nat
      BY <1>2, HeadFacts
    <2>2. /\ attempt' \in Nat /\ srvHead' \in Int
          /\ rhead'[SyncThread] \in Int /\ DOMAIN rhead' = Threads
      BY <1>2, HeadFacts
    <2>3. pc' \in [Threads -> PassLabels] /\ DOMAIN nsl' = Threads
      BY <1>2
    <2> QED
      BY <1>1, <2>1, <2>2, <2>3 DEF HeadsTyped
  <1>5. HeadsOrdered' /\ AttemptsCounted'
    <2>1. ns'.head <= nsl'[SyncThread].head
      BY <1>2, HeadFacts
    <2> QED
      BY <1>2, <2>1 DEF HeadsOrdered, AttemptsCounted, Pulling, Flushing, Writing
  <1> QED
    BY <1>2, <1>3, <1>4, <1>5, HeadFacts DEF HeadInv, PassKeepsHead

\* The rest of the flush.
LEMMA FlushMoves ==
  ASSUME HeadInv,
         \/ ListDirtyItems \/ \E k \in Keys : SkipUpload(k) \/ BeginUpload(k)
         \/ PutAccepted \/ PutRefused \/ SaveUploadedItem \/ Refetch \/ BeginReapply
         \/ RetryUpload \/ LeaveItem
  PROVE  HeadInv' /\ PassKeepsHead
  <1>1. AttemptsCounted
    BY DEF HeadInv
  <1>2. UNCHANGED <<ns, rhead, nsl>> /\ srvHead' \in Int
    BY HeadFacts DEF ListDirtyItems, SkipUpload, BeginUpload, PutAccepted, PutRefused,
       SaveUploadedItem, Refetch, BeginReapply, RetryUpload, LeaveItem, ServerWrite, serverVars,
       storeVars, pullVars
  <1>3. CASE ListDirtyItems
    <2>1. /\ pc[SyncThread] = "flush" /\ Goto(SyncThread, "flushScope") /\ attempt' = attempt
          /\ pc'[SyncThread] = "flushScope"
      BY <1>3, HeadFacts DEF ListDirtyItems, Goto, syncVars
    <2> QED
      BY <1>1, <1>2, <2>1, HeadFacts, MoveOrder
         DEF Pulling, Flushing, Writing, PassLabels, Labels, AttemptsCounted
  <1>4. CASE \E k \in Keys : SkipUpload(k)
    <2>1. UNCHANGED <<pc, attempt, srvHead>>
      BY <1>4 DEF SkipUpload, serverVars, syncVars
    <2>2. HeadsTyped' /\ HeadsOrdered' /\ AttemptsCounted'
      BY <1>2, <2>1 DEF HeadInv, HeadsTyped, HeadsOrdered, AttemptsCounted, Pulling, Flushing
    <2> QED
      BY <1>2, <2>2, HeadFacts DEF HeadInv, PassKeepsHead
  <1>5. CASE (\E k \in Keys : BeginUpload(k)) \/ RetryUpload
    <2>1. /\ pc[SyncThread] \in {"flushItem", "retry"} /\ Goto(SyncThread, "put")
          /\ attempt' \in {1, 2} /\ pc'[SyncThread] = "put"
      BY <1>5, HeadFacts DEF BeginUpload, RetryUpload, Goto
    <2> QED
      BY <1>1, <1>2, <2>1, HeadFacts, MoveOrder
         DEF Pulling, Flushing, Writing, PassLabels, Labels, AttemptsCounted
  <1>6. CASE PutAccepted \/ PutRefused \/ SaveUploadedItem \/ Refetch
    <2>1. PICK label \in {"saveUpload", "refetch", "saveHead", "reapply"} :
            /\ Goto(SyncThread, label)
            /\ pc[SyncThread] \in {"put", "saveUpload", "refetch"} /\ attempt' = attempt
            /\ label \in {"refetch", "reapply"} => pc[SyncThread] \in {"put", "refetch"}
      BY <1>6 DEF PutAccepted, PutRefused, SaveUploadedItem, Refetch, syncVars
    <2>2. pc'[SyncThread] = label
      BY <2>1, HeadFacts DEF Goto
    <2> QED
      BY <1>1, <1>2, <2>1, <2>2, HeadFacts, MoveOrder
         DEF Pulling, Flushing, Writing, PassLabels, Labels, AttemptsCounted
  <1>7. CASE BeginReapply
    <2>1. PICK label \in {"set", "save"} : Goto(SyncThread, label)
      BY <1>7 DEF BeginReapply, ReadForApply
    <2>2. /\ pc[SyncThread] = "reapply" /\ attempt' = attempt /\ pc'[SyncThread] = label
      BY <1>7, <2>1, HeadFacts DEF BeginReapply, Goto, syncVars
    <2> QED
      BY <1>1, <1>2, <2>1, <2>2, HeadFacts, MoveOrder
         DEF Pulling, Flushing, Writing, PassLabels, Labels, AttemptsCounted
  <1>8. CASE LeaveItem
    <2>1. /\ pc[SyncThread] = "retry" /\ Goto(SyncThread, "flushItem") /\ attempt' = 0
          /\ pc'[SyncThread] = "flushItem"
      BY <1>8, HeadFacts DEF LeaveItem, Goto
    <2> QED
      BY <1>1, <1>2, <2>1, HeadFacts, MoveOrder
         DEF Pulling, Flushing, Writing, PassLabels, Labels, AttemptsCounted
  <1> QED
    BY <1>3, <1>4, <1>5, <1>6, <1>7, <1>8

\* A call that ends, and restarts.
LEMMA FaultOrder ==
  ASSUME HeadInv,
         PutResponseLost \/ Crash \/ ResetSyncState \/ \E t \in Threads : Ends(t)
  PROVE  HeadInv' /\ PassKeepsHead
  <1>1. CASE \E t \in Threads : Ends(t)
    BY <1>1, HeadFacts, EndsReturn, ReturnOrder DEF serverVars, storeVars
  <1>2. CASE PutResponseLost
    BY <1>2, HeadFacts, ReturnOrder DEF PutResponseLost, ServerWrite, storeVars
  <1>3. CASE Crash \/ ResetSyncState
    <2>1. /\ pc' \in [Threads -> PassLabels] /\ pc'[SyncThread] = "idle"
          /\ DOMAIN rhead' = Threads /\ DOMAIN nsl' = Threads /\ rhead'[SyncThread] = 0
          /\ nsl'[SyncThread] = NewNamespace /\ attempt' = 0 /\ srvHead' = srvHead
      BY <1>3, HeadFacts DEF Crash, ResetSyncState, Restart, PassLabels, Labels, serverVars
    <2>2. ns' = ns \/ IsReset
      BY <1>3 DEF Crash, ResetSyncState, IsReset, storeVars
    <2> QED
      BY <2>1, <2>2, HeadFacts, EndOrder
  <1> QED
    BY <1>1, <1>2, <1>3

\* DefaultNamespace forgets the stored head between two steps of the pass.
LEMMA DefaultOrder ==
  ASSUME HeadInv, SaveDefaultNamespace
  PROVE  HeadInv' /\ PassKeepsHead
  <1>1. /\ ns'.head = 0 /\ UNCHANGED <<srvHead, pc, rhead, nsl, attempt>>
    BY DEF SaveDefaultNamespace, NewNamespace, serverVars, pullVars, syncVars
  <1>2. HeadsTyped'
    BY <1>1 DEF HeadInv, HeadsTyped
  <1>3. HeadsOrdered'
    <2>1. ns.head <= rhead[SyncThread] => 0 <= rhead[SyncThread]
      BY HeadFacts
    <2>2. ns.head <= nsl[SyncThread].head => 0 <= nsl[SyncThread].head
      BY HeadFacts
    <2> QED
      BY <1>1, <2>1, <2>2 DEF HeadInv, HeadsOrdered, Pulling, Flushing
  <1>4. AttemptsCounted' /\ PassKeepsHead
    BY <1>1 DEF HeadInv, AttemptsCounted, PassKeepsHead
  <1> QED
    BY <1>2, <1>3, <1>4 DEF HeadInv

\* Every step, a restore of the server included, keeps the invariant and the stored head.
LEMMA HeadNext == HeadInv /\ [Next \/ RollbackStep]_vars => HeadInv' /\ [PassKeepsHead]_vars
  <1> SUFFICES ASSUME HeadInv, [Next \/ RollbackStep]_vars PROVE HeadInv' /\ PassKeepsHead
    OBVIOUS
  <1>1. CASE \E t \in Threads : PullStep(t)
    <2>1. PICK t \in Threads : PullStep(t)
      BY <1>1
    <2>2. \/ Ends(t)
          \/ ListRemote(t) \/ LoadNamespace(t) \/ GetNamespaceItems(t) \/ SaveCheckpoint(t)
          \/ ScanItems(t) \/ \E k \in Keys : GetItem(t, k)
          \/ SkipApply(t) \/ BeginApply(t) \/ SetIfCurrent(t) \/ SaveItem(t)
      BY <2>1 DEF PullStep, Ends
    <2> QED
      BY <2>2, PullHeadsOrder, SaveCheckpointOrder, PullMoves, FaultOrder
  <1>2. CASE SyncStep
    <2>1. \/ Ends(SyncThread)
          \/ TakeSnapshot \/ LoadSnapshotScope
          \/ \E k \in Keys : ReconcileSnapshotValue(k)
          \/ ListDirtyItems \/ LoadFlushCaches \/ \E k \in Keys : SkipUpload(k) \/ BeginUpload(k)
          \/ PutAccepted \/ PutRefused \/ SaveUploadedItem \/ SaveUploadedHead
          \/ Refetch \/ BeginReapply \/ RetryUpload \/ LeaveItem
      BY <1>2 DEF SyncStep, Ends
    <2> QED
      BY <2>1, HeadFacts, SnapshotOrder, FlushMoves, LoadFlushOrder, SaveUploadedHeadOrder,
         FaultOrder
  <1>3. CASE FaultStep \/ ResetSyncState
    <2>1. \A t \in Threads : Fail(t) => Ends(t)
      BY DEF Ends
    <2> QED
      BY <1>3, <2>1, FaultOrder DEF FaultStep
  <1>4. CASE ResolveStep \/ ScopeStep \/ WriteStep \/ DeleteStep \/ RollbackStep
    <2>1. UNCHANGED <<ns, callVars>>
      BY <1>4 DEF ResolveStep, ScopeStep, WriteStep, DeleteStep, RollbackStep,
         ResolveConflictWithValue, ResolveConflictPreferLocal, ResolveConflictPreferRemote,
         OpenCollection, ChangeScope, AppWrite, RemoteWrite, AppDelete, ServerRollback, storeVars
    <2>2. srvHead' \in {srvHead, srvHead + 1, srvHead - 1}
      BY <1>4 DEF ResolveStep, ScopeStep, WriteStep, DeleteStep, RollbackStep,
         ResolveConflictWithValue, ResolveConflictPreferLocal, ResolveConflictPreferRemote,
         OpenCollection, ChangeScope, AppWrite, RemoteWrite, AppDelete, ServerRollback,
         ServerWrite, serverVars
    <2> QED
      BY <2>1, <2>2, HeadFacts, OutsideOrder
  <1>5. CASE UNCHANGED vars
    BY <1>5, HeadFacts, OutsideOrder
       DEF vars, storeVars, serverVars, callVars, pullVars, itemVars, syncVars
  <1>6. CASE SetupStep
    BY <1>6, DefaultOrder DEF SetupStep, ReadJoined, HeadInv, HeadsTyped
  <1>7. ASSUME NEW t \in Threads, SaveJoined(t) PROVE FALSE
    BY <1>7, HeadFacts DEF SaveJoined, PassLabels
  <1> QED
    BY <1>1, <1>2, <1>3, <1>4, <1>5, <1>6, <1>7 DEF Next, EngineStep

\* A fresh engine has stored no head.
LEMMA HeadInit == Init /\ Listers = {} /\ Joiners = {} => HeadInv
  <1> SUFFICES ASSUME Init, Listers = {}, Joiners = {} PROVE HeadInv
    OBVIOUS
  <1>1. Threads = {SyncThread}
    BY DEF Threads
  <1>2. HeadsTyped
    BY <1>1 DEF HeadsTyped, Init, NewNamespace, PassLabels, Labels
  <1>3. HeadsOrdered /\ AttemptsCounted
    BY <1>1 DEF HeadsOrdered, AttemptsCounted, Pulling, Flushing, Writing, Init
  <1> QED
    BY <1>2, <1>3 DEF HeadInv

\* For every set of keys, every merge function and every backend, and even on a server that
\* is restored from backups and beside calls of Engine.DefaultNamespace that forget the
\* head: while no call of Engine.ListNamespaces or Engine.JoinNamespace overlaps with it, a
\* pass of SyncNow never stores a head below the one that is stored.
THEOREM PassesKeepHead ==
  RollbackSpec /\ Listers = {} /\ Joiners = {} => PassNeverLowersHead
  BY HeadInit, HeadNext, PTL DEF RollbackSpec, PassNeverLowersHead

-----------------------------------------------------------------------------
(***************************************************************************)
(* With calls of ListNamespaces beside SyncNow a head may be compared with *)
(* one that was stored since, and like DefaultNamespace and JoinNamespace  *)
(* they may store a lower head than the stored one.  It is still one that  *)
(* the server has reached, whoever stored it.                              *)
(***************************************************************************)

\* Every head a call holds is one the server has reached, with room for the upload that
\* SyncNow has not counted yet.
HeadsReached ==
    /\ ns.head <= srvHead
    /\ \A t \in Threads : rhead[t] <= srvHead /\ nsl[t].head <= srvHead
    /\ pc[SyncThread] \in Uncounted => nsl[SyncThread].head + 1 <= srvHead

\* The inductive invariant.
ReachedInv == EngineInv /\ HeadsReached

\* Heads are numbers, of every caller.
LEMMA ReachedTypes ==
  ASSUME TypeOK
  PROVE  /\ SyncThread \in Threads /\ srvHead \in Nat /\ ns.head \in Nat
         /\ pc \in [Threads -> Labels]
         /\ rhead \in [Threads -> Nat] /\ nsl \in [Threads -> NamespaceState]
         /\ \A t \in Threads : rhead[t] \in Nat /\ nsl[t].head \in Nat
  <1>1. ASSUME NEW t \in Threads PROVE nsl[t].head \in Nat
    <2>1. nsl[t] \in NamespaceState
      BY DEF TypeOK
    <2> QED
      BY <2>1 DEF NamespaceState
  <1> QED
    BY <1>1 DEF TypeOK, Threads, NamespaceState

\* A step in which calls read heads of the server or the row, or forget what they hold.
LEMMA ReadsReached ==
  ASSUME TypeOK, HeadsReached, srvHead' = srvHead \/ srvHead' = srvHead + 1,
         ns'.head \in {ns.head, 0} \/ \E t \in Threads : ns'.head = nsl[t].head,
         \A t \in Threads : /\ rhead'[t] \in {rhead[t], srvHead, 0}
                            /\ nsl'[t].head \in {nsl[t].head, ns.head, 0},
         pc'[SyncThread] \in Uncounted =>
            /\ pc[SyncThread] \in Uncounted \/ srvHead' = srvHead + 1
            /\ nsl'[SyncThread].head = nsl[SyncThread].head
  PROVE  HeadsReached'
  <1>1. srvHead \in Nat /\ srvHead' \in Nat /\ srvHead <= srvHead'
    BY ReachedTypes
  <1>2. ns'.head <= srvHead'
    BY <1>1, ReachedTypes DEF HeadsReached
  <1>3. ASSUME NEW t \in Threads
        PROVE  rhead'[t] <= srvHead' /\ nsl'[t].head <= srvHead'
    <2>1. rhead[t] \in Nat /\ nsl[t].head \in Nat /\ ns.head \in Nat
      BY ReachedTypes
    <2>2. rhead[t] <= srvHead /\ nsl[t].head <= srvHead /\ ns.head <= srvHead
      BY DEF HeadsReached
    <2> QED
      BY <1>1, <2>1, <2>2
  <1>4. ASSUME pc'[SyncThread] \in Uncounted
        PROVE  nsl'[SyncThread].head + 1 <= srvHead'
    <2>1. nsl[SyncThread].head \in Nat /\ nsl[SyncThread].head <= srvHead
      BY ReachedTypes DEF HeadsReached
    <2>2. nsl'[SyncThread].head = nsl[SyncThread].head
      BY <1>4
    <2>3. CASE pc[SyncThread] \in Uncounted
      BY <1>1, <2>1, <2>2, <2>3 DEF HeadsReached
    <2>4. CASE srvHead' = srvHead + 1
      BY <1>1, <2>1, <2>2, <2>4
    <2> QED
      BY <1>4, <2>3, <2>4
  <1> QED
    BY <1>2, <1>3, <1>4 DEF HeadsReached

\* A caller that goes elsewhere leaves SyncNow where it is, or is SyncNow.
LEMMA NotCounting ==
  ASSUME TypeOK, NEW t \in Threads, NEW label, Goto(t, label), label \notin Uncounted,
         pc'[SyncThread] \in Uncounted
  PROVE  t # SyncThread /\ pc[SyncThread] \in Uncounted
  BY ReachedTypes DEF Goto

\* A call that returns.
LEMMA ReturnReached ==
  ASSUME TypeOK, HeadsReached, NEW t \in Threads, Return(t, TRUE) \/ Return(t, FALSE),
         srvHead' = srvHead \/ srvHead' = srvHead + 1, ns' = ns
  PROVE  HeadsReached'
  <1>1. Goto(t, "idle") /\ DropPull(t)
    BY DEF Return
  <1>2. \A u \in Threads : /\ rhead'[u] = IF u = t THEN 0 ELSE rhead[u]
                           /\ nsl'[u] = IF u = t THEN NewNamespace ELSE nsl[u]
    BY <1>1, ReachedTypes DEF DropPull
  <1>3. NewNamespace.head = 0
    BY DEF NewNamespace
  <1>4. pc'[SyncThread] \in Uncounted => pc[SyncThread] \in Uncounted /\ t # SyncThread
    BY <1>1, NotCounting DEF Uncounted
  <1>5. pc'[SyncThread] \in Uncounted => nsl'[SyncThread].head = nsl[SyncThread].head
    BY <1>2, <1>4, ReachedTypes
  <1> QED
    BY <1>2, <1>3, <1>4, <1>5, ReadsReached

\* The pull phase up to the checkpoint.
LEMMA PullReached ==
  ASSUME ReachedInv, NEW t \in Threads,
         \/ ListRemote(t) \/ LoadNamespace(t) \/ GetNamespaceItems(t) \/ ScanItems(t)
         \/ \E k \in Keys : GetItem(t, k)
         \/ SkipApply(t) \/ BeginApply(t) \/ SetIfCurrent(t) \/ SaveItem(t)
  PROVE  HeadsReached'
  <1>1. TypeOK /\ HeadsReached
    BY DEF ReachedInv, EngineInv
  <1>2. UNCHANGED <<ns, srvHead>>
    BY DEF ListRemote, LoadNamespace, GetNamespaceItems, ScanItems, GetItem, SkipApply, BeginApply,
           SetIfCurrent, SaveItem, serverVars, storeVars
  <1>3. \E label : Goto(t, label) /\ label \notin Uncounted
    BY DEF ListRemote, LoadNamespace, GetNamespaceItems, ScanItems, GetItem, SkipApply, BeginApply,
           SetIfCurrent, SaveItem, ReadForApply, Uncounted
  <1>4. /\ rhead' = rhead \/ rhead' = [rhead EXCEPT ![t] = srvHead]
        /\ nsl' = nsl \/ nsl' = [nsl EXCEPT ![t] = ns]
    BY DEF ListRemote, LoadNamespace, GetNamespaceItems, ScanItems, GetItem, SkipApply, BeginApply,
           SetIfCurrent, SaveItem, pullVars
  <1>5. \A u \in Threads : /\ rhead'[u] \in {rhead[u], srvHead}
                           /\ nsl'[u] \in {nsl[u], ns}
                           /\ u # t => nsl'[u] = nsl[u]
    BY <1>1, <1>4, ReachedTypes
  <1>6. pc'[SyncThread] \in Uncounted =>
           pc[SyncThread] \in Uncounted /\ nsl'[SyncThread].head = nsl[SyncThread].head
    BY <1>1, <1>3, <1>5, NotCounting, ReachedTypes
  <1> QED
    BY <1>1, <1>2, <1>5, <1>6, ReadsReached

\* What becomes the stored head was a head of the server.
LEMMA SaveCheckpointReached ==
  ASSUME ReachedInv, NEW t \in Threads, SaveCheckpoint(t) PROVE HeadsReached'
  <1>1. TypeOK /\ HeadsReached
    BY DEF ReachedInv, EngineInv
  <1>2. /\ ns'.head = rhead[t] /\ srvHead' = srvHead
        /\ DropPull(t) /\ (Goto(t, "flush") \/ Goto(t, "idle"))
    BY DEF SaveCheckpoint, Return, serverVars
  <1>3. \A u \in Threads : /\ rhead'[u] = IF u = t THEN 0 ELSE rhead[u]
                           /\ nsl'[u] = IF u = t THEN NewNamespace ELSE nsl[u]
    BY <1>1, <1>2, ReachedTypes DEF DropPull
  <1>4. pc'[SyncThread] \in Uncounted => pc[SyncThread] \in Uncounted /\ t # SyncThread
    BY <1>1, <1>2, NotCounting DEF Uncounted
  <1>5. NewNamespace.head = 0 /\ srvHead \in Nat
    BY <1>1, ReachedTypes DEF NewNamespace
  <1> QED
    BY <1>1, <1>2, <1>3, <1>4, <1>5, ReachedTypes DEF HeadsReached

\* The head that counts an upload is one the server reached with it.
LEMMA SaveUploadedHeadReached ==
  ASSUME ReachedInv, SaveUploadedHead PROVE HeadsReached'
  <1>1. TypeOK /\ HeadsReached
    BY DEF ReachedInv, EngineInv
  <1>2. /\ pc[SyncThread] = "saveHead" /\ Goto(SyncThread, "flushItem")
        /\ ns'.head = nsl[SyncThread].head + 1
        /\ nsl' = [nsl EXCEPT ![SyncThread] = UploadedNamespace]
        /\ srvHead' = srvHead /\ rhead' = rhead
    BY DEF SaveUploadedHead, UploadedNamespace, serverVars
  <1>3. nsl[SyncThread].head + 1 <= srvHead
    BY <1>1, <1>2 DEF HeadsReached, Uncounted
  <1>4. \A u \in Threads : nsl'[u].head <= srvHead
    <2>1. UploadedNamespace.head = nsl[SyncThread].head + 1
      BY DEF UploadedNamespace
    <2> QED
      BY <1>1, <1>2, <1>3, <2>1, ReachedTypes DEF HeadsReached
  <1>5. pc'[SyncThread] \notin Uncounted
    BY <1>1, <1>2, ReachedTypes DEF Goto, Uncounted
  <1> QED
    BY <1>1, <1>2, <1>3, <1>4, <1>5 DEF HeadsReached

\* The snapshot and push phases, as far as they neither end the call nor store a head.
LEMMA SyncReached ==
  ASSUME ReachedInv,
         \/ TakeSnapshot \/ LoadSnapshotScope \/ ListDirtyItems \/ LoadFlushCaches
         \/ \E k \in Keys : ReconcileSnapshotValue(k) \/ SkipUpload(k) \/ BeginUpload(k)
         \/ PutAccepted \/ PutRefused \/ SaveUploadedItem
         \/ Refetch \/ BeginReapply \/ RetryUpload \/ LeaveItem
  PROVE  HeadsReached'
  <1>1. TypeOK /\ HeadsReached
    BY DEF ReachedInv, EngineInv
  <1>2. UNCHANGED <<ns, rhead>>
    BY DEF TakeSnapshot, LoadSnapshotScope, ListDirtyItems, LoadFlushCaches, ReconcileSnapshotValue,
           SkipUpload, BeginUpload, PutAccepted, PutRefused, SaveUploadedItem, Refetch, BeginReapply,
           RetryUpload, LeaveItem, storeVars, pullVars
  <1>3. CASE LoadFlushCaches
    <2>1. /\ nsl' = [nsl EXCEPT ![SyncThread] = ns] /\ srvHead' = srvHead
          /\ Goto(SyncThread, "flushItem")
      BY <1>3 DEF LoadFlushCaches, serverVars
    <2>2. pc'[SyncThread] \notin Uncounted
      BY <1>1, <2>1, ReachedTypes DEF Goto, Uncounted
    <2>3. \A u \in Threads : nsl'[u] \in {nsl[u], ns}
      BY <1>1, <2>1, ReachedTypes
    <2> QED
      BY <1>1, <1>2, <2>1, <2>2, <2>3, ReadsReached
  <1>4. CASE PutAccepted
    <2>1. srvHead' = srvHead + 1 /\ nsl' = nsl
      BY <1>4 DEF PutAccepted, ServerWrite, pullVars
    <2> QED
      BY <1>1, <1>2, <2>1, ReadsReached
  <1>5. CASE SaveUploadedItem
    <2>1. pc[SyncThread] = "saveUpload" /\ srvHead' = srvHead /\ nsl' = nsl
      BY <1>5 DEF SaveUploadedItem, serverVars, pullVars
    <2>2. pc[SyncThread] \in Uncounted
      BY <2>1 DEF Uncounted
    <2> QED
      BY <1>1, <1>2, <2>1, <2>2, ReadsReached
  <1>6. CASE \/ TakeSnapshot \/ LoadSnapshotScope \/ ListDirtyItems
             \/ \E k \in Keys : ReconcileSnapshotValue(k) \/ SkipUpload(k) \/ BeginUpload(k)
             \/ PutRefused \/ Refetch \/ BeginReapply \/ RetryUpload \/ LeaveItem
    <2>1. srvHead' = srvHead /\ nsl' = nsl
      BY <1>6 DEF TakeSnapshot, LoadSnapshotScope, ListDirtyItems, ReconcileSnapshotValue,
             SkipUpload, BeginUpload, PutRefused, Refetch, BeginReapply, RetryUpload, LeaveItem,
             serverVars, pullVars
    <2>2. pc' = pc \/ \E label : Goto(SyncThread, label) /\ label \notin Uncounted
      BY <1>6 DEF TakeSnapshot, LoadSnapshotScope, ListDirtyItems, ReconcileSnapshotValue,
             SkipUpload, BeginUpload, PutRefused, Refetch, BeginReapply, RetryUpload, LeaveItem,
             ReadForApply, Uncounted
    <2>3. pc'[SyncThread] \in Uncounted => pc[SyncThread] \in Uncounted
      BY <1>1, <2>2, NotCounting, ReachedTypes
    <2> QED
      BY <1>1, <1>2, <2>1, <2>3, ReadsReached
  <1> QED
    BY <1>3, <1>4, <1>5, <1>6

\* What JoinNamespace saves was stored once, and DefaultNamespace saves no head.
LEMMA SetupReached ==
  ASSUME ReachedInv, SetupStep \/ \E t \in Threads : SaveJoined(t)
  PROVE  HeadsReached'
  <1>1. TypeOK /\ HeadsReached
    BY DEF ReachedInv, EngineInv
  <1>2. ASSUME NEW t \in Threads, ReadJoined(t) PROVE HeadsReached'
    <2>1. /\ nsl' = [nsl EXCEPT ![t] = ns] /\ Goto(t, "join") /\ ns' = ns
          /\ UNCHANGED <<srvHead, rhead>>
      BY <1>2 DEF ReadJoined, serverVars, storeVars
    <2>2. \A u \in Threads : nsl'[u] \in {nsl[u], ns} /\ (u # t => nsl'[u] = nsl[u])
      BY <1>1, <2>1, ReachedTypes
    <2>3. pc'[SyncThread] \in Uncounted =>
             pc[SyncThread] \in Uncounted /\ nsl'[SyncThread].head = nsl[SyncThread].head
      BY <1>1, <2>1, <2>2, NotCounting, ReachedTypes DEF Uncounted
    <2> QED
      BY <1>1, <2>1, <2>2, <2>3, ReadsReached
  <1>3. ASSUME NEW t \in Threads, SaveJoined(t) PROVE HeadsReached'
    <2>1. Goto(t, "idle") /\ DropPull(t) /\ ns' = nsl[t] /\ srvHead' = srvHead
      BY <1>3 DEF SaveJoined, Return, serverVars
    <2>2. \A u \in Threads : /\ rhead'[u] = IF u = t THEN 0 ELSE rhead[u]
                             /\ nsl'[u] = IF u = t THEN NewNamespace ELSE nsl[u]
      BY <1>1, <2>1, ReachedTypes DEF DropPull
    <2>3. pc'[SyncThread] \in Uncounted => pc[SyncThread] \in Uncounted /\ t # SyncThread
      BY <1>1, <2>1, NotCounting DEF Uncounted
    <2>4. pc'[SyncThread] \in Uncounted => nsl'[SyncThread].head = nsl[SyncThread].head
      BY <1>1, <2>2, <2>3, ReachedTypes
    <2>5. NewNamespace.head = 0 /\ ns'.head = nsl[t].head
      BY <2>1 DEF NewNamespace
    <2> QED
      BY <1>1, <2>1, <2>2, <2>3, <2>4, <2>5, ReadsReached
  <1>4. CASE SaveDefaultNamespace
    <2>1. ns'.head = 0 /\ UNCHANGED <<srvHead, pc, rhead, nsl>>
      BY <1>4 DEF SaveDefaultNamespace, NewNamespace, serverVars, pullVars
    <2> QED
      BY <1>1, <2>1, ReadsReached
  <1> QED
    BY <1>2, <1>3, <1>4 DEF SetupStep

\* Calls that end, with or without an error, and the end of the process.
LEMMA EndsReached ==
  ASSUME ReachedInv,
         \/ PutResponseLost \/ Crash \/ ResetSyncState
         \/ \E t \in Threads : Ends(t)
  PROVE  HeadsReached'
  <1>1. TypeOK /\ HeadsReached
    BY DEF ReachedInv, EngineInv
  <1>2. CASE PutResponseLost
    <2>1. Return(SyncThread, FALSE) /\ srvHead' = srvHead + 1 /\ ns' = ns
      BY <1>2 DEF PutResponseLost, ServerWrite, storeVars
    <2> QED
      BY <1>1, <2>1, ReturnReached, ReachedTypes
  <1>3. ASSUME NEW t \in Threads, Ends(t)
        PROVE  HeadsReached'
    <2>1. (Return(t, TRUE) \/ Return(t, FALSE)) /\ srvHead' = srvHead /\ ns' = ns
      BY <1>3, EndsReturn DEF serverVars, storeVars
    <2> QED
      BY <1>1, <2>1, ReturnReached
  <1>4. CASE Crash \/ ResetSyncState
    <2>1. /\ srvHead' = srvHead /\ (ns' = ns \/ ns' = NewNamespace)
          /\ pc' = [t \in Threads |-> "idle"] /\ rhead' = [t \in Threads |-> 0]
          /\ nsl' = [t \in Threads |-> NewNamespace]
      BY <1>4 DEF Crash, ResetSyncState, Restart, serverVars, storeVars
    <2>2. NewNamespace.head = 0 /\ pc'[SyncThread] \notin Uncounted
      BY <1>1, <2>1, ReachedTypes DEF NewNamespace, Uncounted
    <2> QED
      BY <1>1, <2>1, <2>2, ReadsReached
  <1> QED
    BY <1>2, <1>3, <1>4

\* The app and the other devices.
LEMMA OutsideReached ==
  ASSUME ReachedInv, ResolveStep \/ WriteStep \/ DeleteStep \/ ScopeStep \/ UNCHANGED vars
  PROVE  HeadsReached'
  <1>1. TypeOK /\ HeadsReached
    BY DEF ReachedInv, EngineInv
  <1>2. UNCHANGED <<pc, ns, rhead, nsl>>
    BY DEF ResolveStep, ResolveConflictPreferLocal, ResolveConflictWithValue,
           ResolveConflictPreferRemote, WriteStep, DeleteStep, ScopeStep, AppWrite, RemoteWrite,
           AppDelete, OpenCollection, ChangeScope, vars, storeVars, callVars, pullVars
  <1>3. srvHead' = srvHead \/ srvHead' = srvHead + 1
    BY DEF ResolveStep, ResolveConflictPreferLocal, ResolveConflictWithValue,
           ResolveConflictPreferRemote, WriteStep, DeleteStep, ScopeStep, AppWrite, RemoteWrite,
           AppDelete, OpenCollection, ChangeScope, vars, serverVars, ServerWrite
  <1> QED
    BY <1>1, <1>2, <1>3, ReadsReached

\* Every step keeps the invariant.
LEMMA ReachedNext == ReachedInv /\ [Next]_vars => ReachedInv'
  <1> SUFFICES ASSUME ReachedInv, [Next]_vars PROVE HeadsReached'
    BY NextLemma DEF ReachedInv
  <1>1. CASE \E t \in Threads : PullStep(t)
    BY <1>1, PullReached, SaveCheckpointReached, EndsReached DEF PullStep, Ends
  <1>2. CASE SyncStep
    <2>1. SyncThread \in Threads
      BY DEF Threads
    <2> QED
      BY <1>2, <2>1, SyncReached, SaveUploadedHeadReached, EndsReached DEF SyncStep, Ends
  <1>3. CASE FaultStep \/ ResetSyncState
    BY <1>3, EndsReached DEF FaultStep, Ends
  <1>4. CASE ResolveStep \/ WriteStep \/ DeleteStep \/ ScopeStep \/ UNCHANGED vars
    BY <1>4, OutsideReached
  <1>5. CASE SetupStep \/ \E t \in Threads : SaveJoined(t)
    BY <1>5, SetupReached
  <1> QED
    BY <1>1, <1>2, <1>3, <1>4, <1>5 DEF Next, EngineStep

\* For every set of keys, every merge function, every backend and any number of calls of
\* Engine.ListNamespaces, JoinNamespace and DefaultNamespace beside SyncNow: nothing stores
\* a head or a version that an honest server has not reached, so that an ErrRollback caused
\* by overlapping calls does not come back.
THEOREM AlarmsDoNotLast == Spec => []NoLastingAlarm
  <1>1. Init => ReachedInv
    <2> SUFFICES ASSUME Init PROVE HeadsReached
      BY InitLemma DEF ReachedInv
    <2>1. /\ ns = NewNamespace /\ srvHead = 0 /\ rhead = [t \in Threads |-> 0]
          /\ nsl = [t \in Threads |-> NewNamespace] /\ pc[SyncThread] = "idle"
      BY DEF Init, Threads
    <2> QED
      BY <2>1 DEF HeadsReached, NewNamespace, Uncounted
  <1>2. ReachedInv => NoLastingAlarm
    BY DEF ReachedInv, HeadsReached, EngineInv, MergeBaseSound, RowSound, NoLastingAlarm
  <1> QED
    BY <1>1, <1>2, ReachedNext, PTL DEF Spec
=============================================================================

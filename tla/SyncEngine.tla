------------------------------ MODULE SyncEngine ------------------------------
(***************************************************************************)
(* One client engine syncing one namespace: the snapshot, pull and push    *)
(* phases of SyncNow, calls of Engine.ListNamespaces, which runs the pull  *)
(* phase too but does not take syncMu, and what Engine.JoinNamespace and   *)
(* Engine.DefaultNamespace do to the stored namespace row.                 *)
(*                                                                         *)
(* Everything outside the engine moves between any two of its steps: the   *)
(* app writes its own storage, other devices write the server, the app     *)
(* resolves conflicts, changes the active key set, and may crash and       *)
(* restart.  A step ends at each call to the server, to the app's backend  *)
(* and to the metadata store after which another actor's step could tell   *)
(* the difference.                                                         *)
(*                                                                         *)
(* The server is external.  It is modelled from how the client uses it:    *)
(* per item a version that starts at 1 and grows by one with each accepted *)
(* write, If-Match on that version, and per namespace a head that grows by *)
(* one with each accepted write.  Under Spec it never rolls back, so every *)
(* ErrRollback is a false alarm; RollbackSpec adds a server that is        *)
(* restored from a backup.                                                 *)
(*                                                                         *)
(* Not here: authentication (a 401 ends a pass like any other error and    *)
(* runAuthenticated starts it again), several namespaces, the namespace    *)
(* key, with the joins of a pass that misses it, and events.               *)
(***************************************************************************)
EXTENDS ItemState, Sequences

CONSTANTS
    Keys,               \* logical keys of the collection
    SyncThread,         \* the caller that holds syncMu and runs SyncNow
    Listers,            \* concurrent callers of Engine.ListNamespaces
    Joiners,            \* concurrent callers of Engine.JoinNamespace
    NoThread,           \* "no caller holds this logical-key lock"
    NoKey,              \* "no item in progress"
    NoScope,            \* scope and scope hash while no collection is open
    Conditional,        \* the backend implements ConditionalValueBackend
    Oversized,          \* values validateUploadValueSize refuses
    LocalEdits(_),      \* values the app may write over a current value
    RemoteEdits(_),     \* values another device may write over the latest
    Resolutions(_, _)   \* values the app may resolve (local, remote) with

Threads == {SyncThread} \cup Listers \cup Joiners
Scopes == {NoScope} \cup SUBSET Keys

ASSUME ThreadAssumption == SyncThread \notin Listers \cup Joiners /\ NoThread \notin Threads
ASSUME KeyAssumption == NoKey \notin Keys /\ \A s \in SUBSET Keys : s # NoScope
ASSUME ConditionalAssumption == Conditional \in BOOLEAN
ASSUME EditAssumption ==
    /\ \A v \in OptValue : LocalEdits(v) \subseteq Values
    /\ \A v \in OptValue : RemoteEdits(v) \subseteq Values
    /\ \A l \in OptValue, r \in Values : Resolutions(l, r) \subseteq Values

VARIABLES
    srvLog,    \* server: the accepted values of each item; version = length
    srvHead,   \* server: namespace head
    backend,   \* app: current value of each key
    scope,     \* app: what Backend.Keys returns, NoScope before OpenCollection
    items,     \* store: ItemState rows
    ns,        \* store: NamespaceState row (head and active scope hash)
    lock,      \* logicalKeyLocks: holder of each key's mutex
    alarm,     \* callers whose last call returned ErrRollback
    pc,        \* where each call is
    todo,      \* keys the current loop of a call has still to visit
    key,       \* the item a call is working on
    rhead,     \* namespace head of the last server response
    rver,      \* item versions of the last GetNamespaceItems response
    got,       \* version and value of the last GetItem response
    cur,       \* value last read from the backend under the key lock
    seen,      \* active scope loaded by the call
    nsl,       \* NamespaceState loaded by the call
    snap,      \* SyncNow: backend snapshot
    attempt    \* SyncNow: upload attempts for the current item

serverVars == <<srvLog, srvHead>>
appVars == <<backend, scope>>
storeVars == <<items, ns>>
pullVars == <<rhead, rver, seen, nsl>>
itemVars == <<key, got, cur>>
syncVars == <<snap, attempt>>
vars == <<serverVars, appVars, storeVars, lock, alarm, pc, todo, itemVars, pullVars, syncVars>>

-----------------------------------------------------------------------------
(* Helpers *)

Latest(k) == IF srvLog[k] = <<>> THEN NoValue ELSE srvLog[k][Len(srvLog[k])]

Active(s) == IF s = NoScope THEN {} ELSE s

\* computeHash: the hash is injective, so the scope stands for its own hash.
NamespaceState == [head : Nat, scope : Scopes]
NewNamespace == [head |-> 0, scope |-> NoScope]

NoItem == [version |-> 0, value |-> NoValue]
NoVersions == [k \in Keys |-> 0]
NoSnapshot == [k \in Keys |-> NoValue]

Goto(t, label) == pc' = [pc EXCEPT ![t] = label]

\* Seeded bug: the logical-key lock excludes nobody.
AcquireHeld(t, k) == lock' = [lock EXCEPT ![k] = t]

Acquire(t, k) == lock[k] = NoThread /\ lock' = [lock EXCEPT ![k] = t]

Release(t) == lock' = [k \in Keys |-> IF lock[k] = t THEN NoThread ELSE lock[k]]

\* Done with one item: its locals go out of scope.
DropItem(t) ==
    /\ key' = [key EXCEPT ![t] = NoKey]
    /\ got' = [got EXCEPT ![t] = NoItem]
    /\ cur' = [cur EXCEPT ![t] = NoValue]

DropPull(t) ==
    /\ rhead' = [rhead EXCEPT ![t] = 0]
    /\ rver' = [rver EXCEPT ![t] = NoVersions]
    /\ seen' = [seen EXCEPT ![t] = NoScope]
    /\ nsl' = [nsl EXCEPT ![t] = NewNamespace]

\* The call returns: deferred unlocks run and every local goes out of scope.
Return(t, rollback) ==
    /\ Goto(t, "idle")
    /\ alarm' = IF rollback THEN alarm \cup {t} ELSE alarm \ {t}
    /\ todo' = [todo EXCEPT ![t] = {}]
    /\ Release(t)
    /\ DropItem(t)
    /\ DropPull(t)
    /\ snap' = IF t = SyncThread THEN NoSnapshot ELSE snap
    /\ attempt' = IF t = SyncThread THEN 0 ELSE attempt

-----------------------------------------------------------------------------
(* SyncNow, phase 1: reconcileLocalSnapshots *)

\* SyncNow locks syncMu and takes the collection snapshot.
TakeSnapshot ==
    /\ pc[SyncThread] = "idle"
    /\ Goto(SyncThread, "scope")
    /\ snap' = IF scope = NoScope THEN NoSnapshot ELSE backend
    /\ UNCHANGED <<serverVars, appVars, storeVars, lock, alarm, todo, itemVars, pullVars, attempt>>

\* loadActiveScope for the keys of the snapshot.
LoadSnapshotScope ==
    /\ pc[SyncThread] = "scope"
    /\ Goto(SyncThread, "reconcile")
    /\ todo' = [todo EXCEPT ![SyncThread] = {k \in Active(scope) : snap[k] # NoValue}]
    /\ UNCHANGED <<serverVars, appVars, storeVars, lock, alarm, itemVars, pullVars, syncVars>>

\* reconcileSnapshotValue under the key's lock.
ReconcileSnapshotValue(k) ==
    /\ pc[SyncThread] = "reconcile"
    /\ k \in todo[SyncThread]
    /\ lock[k] = NoThread
    /\ items' = [items EXCEPT ![k] = ReconciledItem(items[k], snap[k])]
    /\ todo' = [todo EXCEPT ![SyncThread] = @ \ {k}]
    /\ UNCHANGED <<serverVars, appVars, ns, lock, alarm, pc, itemVars, pullVars, syncVars>>

-----------------------------------------------------------------------------
(* Phase 2: syncNamespaces, run by SyncNow and by Engine.ListNamespaces *)

\* client.ListNamespaces
ListRemote(t) ==
    /\ \/ t = SyncThread /\ pc[t] = "reconcile" /\ todo[t] = {}
       \/ t \in Listers /\ pc[t] = "idle"
    /\ Goto(t, "load")
    /\ rhead' = [rhead EXCEPT ![t] = srvHead]
    /\ snap' = IF t = SyncThread THEN NoSnapshot ELSE snap
    /\ UNCHANGED <<serverVars, appVars, storeVars, lock, alarm, todo, itemVars, rver, seen, nsl, attempt>>

\* Seeded bug: a changed active scope does not cause a reconciliation.
LoadNamespaceHeadOnly(t) ==
    /\ pc[t] = "load"
    /\ rhead[t] >= ns.head
    /\ nsl' = [nsl EXCEPT ![t] = ns]
    /\ seen' = [seen EXCEPT ![t] = scope]
    /\ Goto(t, IF rhead[t] > ns.head THEN "getItems" ELSE "checkpoint")
    /\ UNCHANGED <<serverVars, appVars, storeVars, lock, alarm, todo, itemVars, rhead, rver, syncVars>>

\* Seeded bug: the listed head is not compared with the stored one.
LoadNamespaceUnchecked(t) ==
    /\ pc[t] = "load"
    /\ nsl' = [nsl EXCEPT ![t] = ns]
    /\ seen' = [seen EXCEPT ![t] = scope]
    /\ Goto(t, IF rhead[t] > ns.head \/ scope # ns.scope THEN "getItems" ELSE "checkpoint")
    /\ UNCHANGED <<serverVars, appVars, storeVars, lock, alarm, todo, itemVars, rhead, rver, syncVars>>

\* getNamespaceState, the head check, loadActiveScope and the decision whether
\* to reconcile items.
LoadNamespace(t) ==
    /\ pc[t] = "load"
    /\ rhead[t] >= ns.head
    /\ nsl' = [nsl EXCEPT ![t] = ns]
    /\ seen' = [seen EXCEPT ![t] = scope]
    /\ Goto(t, IF rhead[t] > ns.head \/ scope # ns.scope THEN "getItems" ELSE "checkpoint")
    /\ UNCHANGED <<serverVars, appVars, storeVars, lock, alarm, todo, itemVars, rhead, rver, syncVars>>

LoadNamespaceRollback(t) ==
    /\ pc[t] = "load"
    /\ rhead[t] < ns.head
    /\ Return(t, TRUE)
    /\ UNCHANGED <<serverVars, appVars, storeVars>>

\* syncNamespaceItems: client.GetNamespaceItems and its two head checks.
GetNamespaceItems(t) ==
    /\ pc[t] = "getItems"
    /\ srvHead >= nsl[t].head /\ srvHead >= rhead[t]
    /\ rhead' = [rhead EXCEPT ![t] = srvHead]
    /\ rver' = [rver EXCEPT ![t] = [k \in Keys |-> Len(srvLog[k])]]
    /\ Goto(t, "scan")
    /\ UNCHANGED <<serverVars, appVars, storeVars, lock, alarm, todo, itemVars, seen, nsl, syncVars>>

GetNamespaceItemsRollback(t) ==
    /\ pc[t] = "getItems"
    /\ srvHead < nsl[t].head \/ srvHead < rhead[t]
    /\ Return(t, TRUE)
    /\ UNCHANGED <<serverVars, appVars, storeVars>>

\* store.ListNamespaceItems: the per-item rollback check and the active items
\* that are behind the response.
ScanItems(t) ==
    /\ pc[t] = "scan"
    /\ \A k \in Keys : items[k].version <= rver[t][k]
    /\ todo' = [todo EXCEPT ![t] = {k \in Active(seen[t]) : rver[t][k] > items[k].version}]
    /\ Goto(t, "pull")
    /\ UNCHANGED <<serverVars, appVars, storeVars, lock, alarm, itemVars, pullVars, syncVars>>

ScanItemsRollback(t) ==
    /\ pc[t] = "scan"
    /\ \E k \in Keys : items[k].version > rver[t][k]
    /\ Return(t, TRUE)
    /\ UNCHANGED <<serverVars, appVars, storeVars>>

\* fetchAndApplyRemoteItem: client.GetItem, outside the lock.
GetItem(t, k) ==
    /\ pc[t] = "pull"
    /\ k \in todo[t]
    /\ srvLog[k] # <<>> /\ Len(srvLog[k]) >= rver[t][k]
    /\ key' = [key EXCEPT ![t] = k]
    /\ got' = [got EXCEPT ![t] = [version |-> Len(srvLog[k]), value |-> Latest(k)]]
    /\ todo' = [todo EXCEPT ![t] = @ \ {k}]
    /\ Goto(t, "apply")
    /\ UNCHANGED <<serverVars, appVars, storeVars, lock, alarm, cur, pullVars, syncVars>>

\* The server serves less than it announced: ErrRollback, or a plain 404 error
\* when the item is gone.
GetItemRollback(t, k) ==
    /\ pc[t] = "pull"
    /\ k \in todo[t]
    /\ srvLog[k] = <<>> \/ Len(srvLog[k]) < rver[t][k]
    /\ Return(t, srvLog[k] # <<>>)
    /\ UNCHANGED <<serverVars, appVars, storeVars>>

\* Under the lock the row is read again; a row that caught up is left alone.
SkipApply(t) ==
    /\ pc[t] = "apply"
    /\ lock[key[t]] = NoThread
    /\ items[key[t]].version >= got[t].version
    /\ Goto(t, "pull")
    /\ DropItem(t)
    /\ UNCHANGED <<serverVars, appVars, storeVars, lock, alarm, todo, pullVars, syncVars>>

\* applyRemoteValueLocked up to its backend read.
ReadForApply(t) ==
    LET item == items[key[t]]
        local == backend[key[t]]
    IN IF ApplyWrites(item, local, got[t].value) THEN "set" ELSE "save"

\* Seeded bug: the row is not compared again once the lock is held.
BeginApplyLate(t) ==
    /\ pc[t] = "apply"
    /\ Acquire(t, key[t])
    /\ ~ApplyFails(items[key[t]], backend[key[t]])
    /\ cur' = [cur EXCEPT ![t] = backend[key[t]]]
    /\ Goto(t, ReadForApply(t))
    /\ UNCHANGED <<serverVars, appVars, storeVars, alarm, todo, key, got, pullVars, syncVars>>

BeginApply(t) ==
    /\ pc[t] = "apply"
    /\ Acquire(t, key[t])
    /\ items[key[t]].version < got[t].version
    /\ ~ApplyFails(items[key[t]], backend[key[t]])
    /\ cur' = [cur EXCEPT ![t] = backend[key[t]]]
    /\ Goto(t, ReadForApply(t))
    /\ UNCHANGED <<serverVars, appVars, storeVars, alarm, todo, key, got, pullVars, syncVars>>

\* A dirty row whose value the app removed: ErrNotFound ends the whole call.
ApplyNotFound(t) ==
    /\ \/ /\ pc[t] = "apply"
          /\ lock[key[t]] = NoThread
          /\ items[key[t]].version < got[t].version
       \/ pc[t] = "reapply"
    /\ ApplyFails(items[key[t]], backend[key[t]])
    /\ Return(t, FALSE)
    /\ UNCHANGED <<serverVars, appVars, storeVars>>

\* setItemCurrentValueIfCurrent; a backend without SetIfCurrent is just set.
SetIfCurrent(t) ==
    LET k == key[t]
        replaced == ~Conditional \/ backend[k] = cur[t]
    IN /\ pc[t] = "set"
       /\ backend' = IF replaced
                       THEN [backend EXCEPT ![k] = ApplyValue(items[k], cur[t], got[t].value)]
                       ELSE backend
       /\ Goto(t, IF replaced THEN "save" ELSE "saveRaced")
       /\ UNCHANGED <<serverVars, scope, storeVars, lock, alarm, todo, itemVars, pullVars, syncVars>>

\* store.SaveItem.  A pull unlocks and goes to its next item; a push that came
\* here after a refused upload keeps the lock.
SaveItem(t) ==
    LET k == key[t]
    IN /\ pc[t] \in {"save", "saveRaced"}
       /\ items' = [items EXCEPT ![k] =
                      IF pc[t] = "save"
                        THEN AppliedItem(items[k], cur[t], got[t].version, got[t].value)
                        ELSE RacedItem(items[k])]
       /\ IF t = SyncThread /\ attempt > 0
            THEN /\ Goto(t, "retry")
                 /\ UNCHANGED <<lock, itemVars>>
            ELSE /\ Goto(t, "pull")
                 /\ Release(t)
                 /\ DropItem(t)
       /\ UNCHANGED <<serverVars, appVars, ns, alarm, todo, pullVars, syncVars>>

\* store.SaveNamespace with the response's head and the scope of this call.
SaveCheckpoint(t) ==
    /\ pc[t] = "checkpoint" \/ (pc[t] = "pull" /\ todo[t] = {})
    /\ ns' = [head |-> rhead[t], scope |-> seen[t]]
    /\ IF t = SyncThread
         THEN /\ Goto(t, "flush")
              /\ DropPull(t)
              /\ UNCHANGED <<lock, alarm, todo, itemVars, syncVars>>
         ELSE Return(t, FALSE)
    /\ UNCHANGED <<serverVars, appVars, items>>

-----------------------------------------------------------------------------
(* The other writers of the namespace row *)

\* joinNamespace: once the wrapped key has arrived the row is read, ...
ReadJoined(t) ==
    /\ t \in Joiners /\ pc[t] = "idle"
    /\ nsl' = [nsl EXCEPT ![t] = ns]
    /\ Goto(t, "join")
    /\ UNCHANGED <<serverVars, appVars, storeVars, lock, alarm, todo, itemVars, rhead, rver, seen,
                   syncVars>>

\* ... and saved as it was, head and scope hash included.
SaveJoined(t) ==
    /\ pc[t] = "join"
    /\ ns' = nsl[t]
    /\ Return(t, FALSE)
    /\ UNCHANGED <<serverVars, appVars, items>>

\* defaultNamespace, when the identity state it has read names no default
\* namespace: a row with head 0 and no scope hash replaces what is stored.
SaveDefaultNamespace ==
    /\ ns' = NewNamespace
    /\ UNCHANGED <<serverVars, appVars, items, lock, alarm, pc, todo, itemVars, pullVars, syncVars>>

-----------------------------------------------------------------------------
(* Phase 3: flushDirtyItems *)

\* store.ListDirtyItems
ListDirtyItems ==
    /\ pc[SyncThread] = "flush"
    /\ todo' = [todo EXCEPT ![SyncThread] = {k \in Keys : items[k].dirty}]
    /\ Goto(SyncThread, "flushScope")
    /\ UNCHANGED <<serverVars, appVars, storeVars, lock, alarm, itemVars, pullVars, syncVars>>

\* ensureNamespaceReady and loadActiveScope fill the caches of the flush.
LoadFlushCaches ==
    /\ pc[SyncThread] = "flushScope"
    /\ nsl' = [nsl EXCEPT ![SyncThread] = ns]
    /\ seen' = [seen EXCEPT ![SyncThread] = scope]
    /\ todo' = [todo EXCEPT ![SyncThread] = @ \cap Active(scope)]
    /\ Goto(SyncThread, "flushItem")
    /\ UNCHANGED <<serverVars, appVars, storeVars, lock, alarm, itemVars, rhead, rver, syncVars>>

Uploadable(v) == v # NoValue /\ v \notin Oversized

\* Seeded bug: an item in conflict is uploaded.
NeedsUploadInConflict(k) == items[k].dirty /\ Uploadable(backend[k])

NeedsUpload(k) == items[k].dirty /\ ~items[k].conflict /\ Uploadable(backend[k])

\* Seeded bug: a value that can never be uploaded ends the flush with an error.
SkipUploadFatal(k) ==
    /\ pc[SyncThread] = "flushItem"
    /\ k \in todo[SyncThread]
    /\ lock[k] = NoThread
    /\ ~NeedsUpload(k)
    /\ Return(SyncThread, FALSE)
    /\ UNCHANGED <<serverVars, appVars, storeVars>>

\* Row reloaded under the lock: nothing to upload, or a permanentUploadError.
SkipUpload(k) ==
    /\ pc[SyncThread] = "flushItem"
    /\ k \in todo[SyncThread]
    /\ lock[k] = NoThread
    /\ ~NeedsUpload(k)
    /\ todo' = [todo EXCEPT ![SyncThread] = @ \ {k}]
    /\ UNCHANGED <<serverVars, appVars, storeVars, lock, alarm, pc, itemVars, pullVars, syncVars>>

\* The value is read and encrypted for the row's version + 1.
BeginUpload(k) ==
    /\ pc[SyncThread] = "flushItem"
    /\ k \in todo[SyncThread]
    /\ Acquire(SyncThread, k)
    /\ NeedsUpload(k)
    /\ todo' = [todo EXCEPT ![SyncThread] = @ \ {k}]
    /\ key' = [key EXCEPT ![SyncThread] = k]
    /\ cur' = [cur EXCEPT ![SyncThread] = backend[k]]
    /\ attempt' = 1
    /\ Goto(SyncThread, "put")
    /\ UNCHANGED <<serverVars, appVars, storeVars, alarm, got, pullVars, snap>>

\* Server side of PUT item: If-Match is the row's version, absent for a create.
Accepts(k) == Len(srvLog[k]) = items[k].version

ServerWrite(k, v) ==
    /\ srvLog' = [srvLog EXCEPT ![k] = Append(@, v)]
    /\ srvHead' = srvHead + 1

PutAccepted ==
    LET k == key[SyncThread]
    IN /\ pc[SyncThread] = "put"
       /\ Accepts(k)
       /\ ServerWrite(k, cur[SyncThread])
       /\ Goto(SyncThread, "saveUpload")
       /\ UNCHANGED <<appVars, storeVars, lock, alarm, todo, itemVars, pullVars, syncVars>>

\* The write is accepted and its response lost: the call ends with an error.
PutResponseLost ==
    LET k == key[SyncThread]
    IN /\ pc[SyncThread] = "put"
       /\ Accepts(k)
       /\ ServerWrite(k, cur[SyncThread])
       /\ Return(SyncThread, FALSE)
       /\ UNCHANGED <<appVars, storeVars>>

\* Seeded bug: a refused upload is tried again with the same If-Match.
PutRefusedBlindly ==
    /\ pc[SyncThread] = "put"
    /\ ~Accepts(key[SyncThread])
    /\ Goto(SyncThread, "retry")
    /\ UNCHANGED <<serverVars, appVars, storeVars, lock, alarm, todo, itemVars, pullVars, syncVars>>

\* 412 or 428
PutRefused ==
    /\ pc[SyncThread] = "put"
    /\ ~Accepts(key[SyncThread])
    /\ Goto(SyncThread, "refetch")
    /\ UNCHANGED <<serverVars, appVars, storeVars, lock, alarm, todo, itemVars, pullVars, syncVars>>

\* saveUpload: the row first, ...
SaveUploadedItem ==
    LET k == key[SyncThread]
    IN /\ pc[SyncThread] = "saveUpload"
       /\ items' = [items EXCEPT ![k] = markItemClean(@, @.version + 1, cur[SyncThread])]
       /\ Goto(SyncThread, "saveHead")
       /\ UNCHANGED <<serverVars, appVars, ns, lock, alarm, todo, itemVars, pullVars, syncVars>>

\* Seeded bug: the head is incremented twice.
UploadedNamespaceTwice ==
    [head |-> nsl[SyncThread].head + 2, scope |-> nsl[SyncThread].scope]

\* ... then the cached namespace state with its head incremented.
UploadedNamespace ==
    [head |-> nsl[SyncThread].head + 1, scope |-> nsl[SyncThread].scope]

SaveUploadedHead ==
    /\ pc[SyncThread] = "saveHead"
    /\ nsl' = [nsl EXCEPT ![SyncThread] = UploadedNamespace]
    /\ ns' = UploadedNamespace
    /\ Release(SyncThread)
    /\ DropItem(SyncThread)
    /\ attempt' = 0
    /\ Goto(SyncThread, "flushItem")
    /\ UNCHANGED <<serverVars, appVars, items, alarm, todo, rhead, rver, seen, snap>>

\* Seeded bug: the version fetched after a refusal is not compared with the row's.
RefetchUnchecked ==
    LET k == key[SyncThread]
    IN /\ pc[SyncThread] = "refetch"
       /\ srvLog[k] # <<>>
       /\ got' = [got EXCEPT ![SyncThread] = [version |-> Len(srvLog[k]), value |-> Latest(k)]]
       /\ Goto(SyncThread, "reapply")
       /\ UNCHANGED <<serverVars, appVars, storeVars, lock, alarm, todo, key, cur, pullVars, syncVars>>

\* fetchAndApplyRemoteItemForConflictLocked: client.GetItem under the lock.
Refetch ==
    LET k == key[SyncThread]
    IN /\ pc[SyncThread] = "refetch"
       /\ srvLog[k] # <<>> /\ Len(srvLog[k]) >= items[k].version
       /\ got' = [got EXCEPT ![SyncThread] = [version |-> Len(srvLog[k]), value |-> Latest(k)]]
       /\ Goto(SyncThread, "reapply")
       /\ UNCHANGED <<serverVars, appVars, storeVars, lock, alarm, todo, key, cur, pullVars, syncVars>>

RefetchRollback ==
    LET k == key[SyncThread]
    IN /\ pc[SyncThread] = "refetch"
       /\ srvLog[k] = <<>> \/ Len(srvLog[k]) < items[k].version
       /\ Return(SyncThread, srvLog[k] # <<>>)
       /\ UNCHANGED <<serverVars, appVars, storeVars>>

\* applyRemoteValueLocked for the push, up to its backend read.
BeginReapply ==
    LET k == key[SyncThread]
    IN /\ pc[SyncThread] = "reapply"
       /\ ~ApplyFails(items[k], backend[k])
       /\ cur' = [cur EXCEPT ![SyncThread] = backend[k]]
       /\ Goto(SyncThread, ReadForApply(SyncThread))
       /\ UNCHANGED <<serverVars, appVars, storeVars, lock, alarm, todo, key, got, pullVars, syncVars>>

\* Seeded bug: no limit on the retries of an upload.
RetryUploadForever ==
    LET k == key[SyncThread]
    IN /\ pc[SyncThread] = "retry"
       /\ NeedsUpload(k)
       /\ cur' = [cur EXCEPT ![SyncThread] = backend[k]]
       /\ got' = [got EXCEPT ![SyncThread] = NoItem]
       /\ attempt' = attempt + 1
       /\ Goto(SyncThread, "put")
       /\ UNCHANGED <<serverVars, appVars, storeVars, lock, alarm, todo, key, pullVars, snap>>

\* The row is reloaded.  One retry; a second refusal only refreshes the row.
RetryUpload ==
    LET k == key[SyncThread]
    IN /\ pc[SyncThread] = "retry"
       /\ attempt = 1 /\ NeedsUpload(k)
       /\ cur' = [cur EXCEPT ![SyncThread] = backend[k]]
       /\ got' = [got EXCEPT ![SyncThread] = NoItem]
       /\ attempt' = 2
       /\ Goto(SyncThread, "put")
       /\ UNCHANGED <<serverVars, appVars, storeVars, lock, alarm, todo, key, pullVars, snap>>

LeaveItem ==
    /\ pc[SyncThread] = "retry"
    /\ attempt = 2 \/ ~NeedsUpload(key[SyncThread])
    /\ Release(SyncThread)
    /\ DropItem(SyncThread)
    /\ attempt' = 0
    /\ Goto(SyncThread, "flushItem")
    /\ UNCHANGED <<serverVars, appVars, storeVars, alarm, todo, pullVars, snap>>

FinishSync ==
    /\ pc[SyncThread] = "flushItem"
    /\ todo[SyncThread] = {}
    /\ Return(SyncThread, FALSE)
    /\ UNCHANGED <<serverVars, appVars, storeVars>>

-----------------------------------------------------------------------------
(* Failures *)

\* Any call to the server, store or backend may fail, and the caller's context
\* may be cancelled: the error is returned and the locks are released.
Fail(t) ==
    /\ pc[t] # "idle"
    /\ Return(t, FALSE)
    /\ UNCHANGED <<serverVars, appVars, storeVars>>

\* All calls are gone, and a fresh engine has no collection open.
Restart ==
    /\ scope' = NoScope
    /\ lock' = [k \in Keys |-> NoThread]
    /\ alarm' = {}
    /\ pc' = [t \in Threads |-> "idle"]
    /\ todo' = [t \in Threads |-> {}]
    /\ key' = [t \in Threads |-> NoKey]
    /\ rhead' = [t \in Threads |-> 0]
    /\ rver' = [t \in Threads |-> NoVersions]
    /\ got' = [t \in Threads |-> NoItem]
    /\ cur' = [t \in Threads |-> NoValue]
    /\ seen' = [t \in Threads |-> NoScope]
    /\ nsl' = [t \in Threads |-> NewNamespace]
    /\ snap' = NoSnapshot
    /\ attempt' = 0

\* The process dies and Open builds a new engine on the same store.
Crash == Restart /\ UNCHANGED <<serverVars, backend, storeVars>>

\* Store.ResetSyncState, with the engine stopped and rebuilt as README.md asks.
ResetSyncState ==
    /\ Restart
    /\ items' = [k \in Keys |-> NewItem]
    /\ ns' = NewNamespace
    /\ UNCHANGED <<serverVars, backend>>

-----------------------------------------------------------------------------
(* The app and the other devices *)

callVars == <<lock, alarm, pc, todo, itemVars, pullVars, syncVars>>

OpenCollection(s) ==
    /\ scope = NoScope
    /\ scope' = s
    /\ UNCHANGED <<serverVars, backend, storeVars, callVars>>

ChangeScope(s) ==
    /\ scope \notin {NoScope, s}
    /\ scope' = s
    /\ UNCHANGED <<serverVars, backend, storeVars, callVars>>

\* The app writes its own storage without telling the engine.
AppWrite(k) ==
    \E v \in LocalEdits(backend[k]) :
        /\ backend' = [backend EXCEPT ![k] = v]
        /\ UNCHANGED <<serverVars, scope, storeVars, callVars>>

AppDelete(k) ==
    /\ backend[k] # NoValue
    /\ backend' = [backend EXCEPT ![k] = NoValue]
    /\ UNCHANGED <<serverVars, scope, storeVars, callVars>>

RemoteWrite(k) ==
    \E v \in RemoteEdits(Latest(k)) :
        /\ ServerWrite(k, v)
        /\ UNCHANGED <<appVars, storeVars, callVars>>

\* The server is restored from a backup that lacks the last write of an item.
ServerRollback(k) ==
    /\ srvLog[k] # <<>>
    /\ srvLog' = [srvLog EXCEPT ![k] = SubSeq(@, 1, Len(@) - 1)]
    /\ srvHead' = srvHead - 1
    /\ UNCHANGED <<appVars, storeVars, callVars>>

\* The three ResolveConflict calls: the row is read, the backend set and the
\* row saved under the key's lock.  saved = FALSE: SaveItem fails.
Resolvable(k) == scope # NoScope /\ lock[k] = NoThread /\ items[k].conflict

ResolveConflictWithValue(k, saved) ==
    /\ Resolvable(k)
    /\ \E v \in Resolutions(backend[k], items[k].conflictRemoteValue) :
         backend' = [backend EXCEPT ![k] = v]
    /\ items' = IF saved
                  THEN [items EXCEPT ![k] = markItemDirty(clearItemConflict(@))]
                  ELSE items
    /\ UNCHANGED <<serverVars, scope, ns, callVars>>

ResolveConflictPreferLocal(k) ==
    /\ Resolvable(k)
    /\ backend[k] # NoValue
    /\ items' = [items EXCEPT ![k] = markItemDirty(clearItemConflict(@))]
    /\ UNCHANGED <<serverVars, appVars, ns, callVars>>

ResolveConflictPreferRemote(k, saved) ==
    /\ Resolvable(k)
    /\ backend' = [backend EXCEPT ![k] = items[k].conflictRemoteValue]
    /\ items' = IF saved
                  THEN [items EXCEPT ![k] =
                          markItemClean(@, @.conflictRemoteVersion, @.conflictRemoteValue)]
                  ELSE items
    /\ UNCHANGED <<serverVars, scope, ns, callVars>>

-----------------------------------------------------------------------------
(* Specification *)

Init ==
    /\ srvLog = [k \in Keys |-> <<>>]
    /\ srvHead = 0
    /\ backend = [k \in Keys |-> NoValue]
    /\ scope = NoScope
    /\ items = [k \in Keys |-> NewItem]
    /\ ns = NewNamespace
    /\ lock = [k \in Keys |-> NoThread]
    /\ alarm = {}
    /\ pc = [t \in Threads |-> "idle"]
    /\ todo = [t \in Threads |-> {}]
    /\ key = [t \in Threads |-> NoKey]
    /\ rhead = [t \in Threads |-> 0]
    /\ rver = [t \in Threads |-> NoVersions]
    /\ got = [t \in Threads |-> NoItem]
    /\ cur = [t \in Threads |-> NoValue]
    /\ seen = [t \in Threads |-> NoScope]
    /\ nsl = [t \in Threads |-> NewNamespace]
    /\ snap = NoSnapshot
    /\ attempt = 0

\* The pull phase of one caller.
PullStep(t) ==
    \/ ListRemote(t)
    \/ LoadNamespace(t) \/ LoadNamespaceRollback(t)
    \/ GetNamespaceItems(t) \/ GetNamespaceItemsRollback(t)
    \/ ScanItems(t) \/ ScanItemsRollback(t)
    \/ \E k \in Keys : GetItem(t, k) \/ GetItemRollback(t, k)
    \/ SkipApply(t) \/ BeginApply(t) \/ ApplyNotFound(t)
    \/ SetIfCurrent(t) \/ SaveItem(t)
    \/ SaveCheckpoint(t)

\* The snapshot and push phases of SyncNow.
SyncStep ==
    \/ TakeSnapshot \/ LoadSnapshotScope
    \/ \E k \in Keys : ReconcileSnapshotValue(k)
    \/ ListDirtyItems \/ LoadFlushCaches
    \/ \E k \in Keys : SkipUpload(k) \/ BeginUpload(k)
    \/ PutAccepted \/ PutRefused
    \/ SaveUploadedItem \/ SaveUploadedHead
    \/ Refetch \/ RefetchRollback \/ BeginReapply \/ RetryUpload \/ LeaveItem
    \/ FinishSync

EngineStep == SyncStep \/ \E t \in Threads : PullStep(t) \/ SaveJoined(t)

SetupStep == SaveDefaultNamespace \/ \E t \in Threads : ReadJoined(t)

FaultStep == PutResponseLost \/ Crash \/ \E t \in Threads : Fail(t)

ResolveStep ==
    \E k \in Keys :
        \/ ResolveConflictPreferLocal(k)
        \/ \E saved \in BOOLEAN :
             ResolveConflictWithValue(k, saved) \/ ResolveConflictPreferRemote(k, saved)

ScopeStep == \E s \in SUBSET Keys : OpenCollection(s) \/ ChangeScope(s)

WriteStep == \E k \in Keys : AppWrite(k) \/ RemoteWrite(k)

DeleteStep == \E k \in Keys : AppDelete(k)

Next ==
    \/ EngineStep
    \/ SetupStep
    \/ FaultStep
    \/ ResolveStep
    \/ ScopeStep
    \/ WriteStep
    \/ DeleteStep
    \/ ResetSyncState

Spec == Init /\ [][Next]_vars

RollbackStep == \E k \in Keys : ServerRollback(k)

RollbackSpec == Init /\ [][Next \/ RollbackStep]_vars

-----------------------------------------------------------------------------
(* Properties *)

Labels == {"idle", "scope", "reconcile", "load", "getItems", "scan", "pull",
           "apply", "set", "save", "saveRaced", "checkpoint", "flush",
           "flushScope", "flushItem", "put", "saveUpload", "saveHead",
           "refetch", "reapply", "retry", "join"}

\* Every variable has its type.
TypeOK ==
    /\ srvLog \in [Keys -> Seq(Values)]
    /\ srvHead \in Nat
    /\ backend \in [Keys -> OptValue]
    /\ scope \in Scopes
    /\ items \in [Keys -> ItemState]
    /\ ns \in NamespaceState
    /\ lock \in [Keys -> Threads \cup {NoThread}]
    /\ alarm \subseteq Threads
    /\ pc \in [Threads -> Labels]
    /\ todo \in [Threads -> SUBSET Keys]
    /\ key \in [Threads -> Keys \cup {NoKey}]
    /\ rhead \in [Threads -> Nat]
    /\ rver \in [Threads -> [Keys -> Nat]]
    /\ got \in [Threads -> [version : Nat, value : OptValue]]
    /\ cur \in [Threads -> OptValue]
    /\ seen \in [Threads -> Scopes]
    /\ nsl \in [Threads -> NamespaceState]
    /\ snap \in [Keys -> OptValue]
    /\ attempt \in 0..2

\* value is what the server accepted as the given version of an item.
IsVersion(log, version, value) == version \in 1..Len(log) /\ log[version] = value

\* A row that is not ahead of the server's log nor behind its base, whose base
\* and whose recorded conflict are versions the server accepted.
RowSound(log, item) ==
    /\ item.baseVersion <= item.version
    /\ item.version <= Len(log)
    /\ hasMergeBase(item) => IsVersion(log, item.baseVersion, item.baseValue)
    /\ item.conflict =>
          /\ item.dirty
          /\ item.conflictRemoteVersion = item.version
          /\ IsVersion(log, item.conflictRemoteVersion, item.conflictRemoteValue)

\* Three-way merges are given a real common ancestor.  Whatever was lost, raced
\* or retried, a stored merge base is the value the server accepted as
\* BaseVersion, a stored conflict is the value the server accepted as
\* ConflictRemoteVersion, and no row is ahead of the server or behind its base.
MergeBaseSound == \A k \in Keys : RowSound(srvLog[k], items[k])

\* The checkpoint that lets a pass skip the item listing is sound at every
\* instant, so also after a crash: when the stored head equals the server's and
\* the stored scope hash is that of the current scope, every active item is at
\* the server's version or still queued for upload.
CheckpointSound ==
    ns.head = srvHead /\ ns.scope = scope =>
        \A k \in Active(scope) : items[k].version = Len(srvLog[k]) \/ items[k].dirty

\* No call reports ErrRollback while the server never rolls back.
NoFalseRollback == alarm = {}

\* What is stored is never ahead of a server that does not roll back, also when calls
\* overlap, heads are counted up from a cached one, and responses are lost: an ErrRollback
\* that a pass reports because another call saved a head or a row in between is not
\* reported again by a pass that runs alone, and needs no ResetSyncState.
NoLastingAlarm ==
    /\ ns.head <= srvHead
    /\ \A k \in Keys : items[k].version <= Len(srvLog[k])

\* Sync metadata is forgotten as a whole by ResetSyncState.
IsReset == ns' = NewNamespace /\ \A k \in Keys : items'[k] = NewItem

\* What a step may do to the stored versions.
VersionsAdvance == IsReset \/ \A k \in Keys : items'[k].version >= items[k].version

\* No item follows a restored server back: whatever a pull, a late response, a refused
\* upload or a conflict resolution makes of a row, its version never decreases until the
\* app resets the sync state, whoever else calls the engine.
VersionsNeverRegress == [][VersionsAdvance]_vars

\* What a step of SyncNow may do to the stored head.
PassKeepsHead == pc'[SyncThread] # pc[SyncThread] => ns'.head >= ns.head \/ IsReset

\* Nor does a pass: what SyncNow stores as namespace head is never below the stored
\* one, also when the server is restored between its requests or DefaultNamespace has
\* just forgotten the head.  (DefaultNamespace itself, JoinNamespace and overlapping
\* calls of ListNamespaces do lower it.)
PassNeverLowersHead == [][PassKeepsHead]_vars

\* What a step may do to items in conflict, before it or after it.
ConflictsFreeze ==
    \A k \in Keys :
        /\ items[k].conflict /\ pc' # pc =>
              /\ backend'[k] = backend[k]
              /\ srvLog'[k] = srvLog[k]
              /\ items'[k].conflict \/ items'[k] = NewItem
        /\ items'[k].conflict =>
              /\ items'[k].baseVersion = items[k].baseVersion
              /\ items'[k].baseValue = items[k].baseValue

\* A recorded conflict freezes its item: until the app resolves it, no call
\* uploads it or touches the app's value, and neither the first remote version
\* that conflicts nor a later one replaces its merge base.
ConflictFrozen == [][ConflictsFreeze]_vars

\* An item with an accepted upload whose row is not saved yet.
Sent == IF pc[SyncThread] = "saveUpload" THEN key[SyncThread] ELSE NoKey

RowState(item) ==
    IF item.conflict THEN "conflict" ELSE IF item.dirty THEN "dirty" ELSE "clean"

ReplicaRow(item) ==
    [version |-> item.version, base |-> item.baseVersion, state |-> RowState(item)]

Rows == [k \in Keys |-> ReplicaRow(items[k])]

Replica == INSTANCE ReplicatedItems WITH log <- srvLog, row <- Rows, sent <- Sent

\* To the rows it is as if nobody overlapped: SyncNow, ListNamespaces calls, conflict
\* resolutions, lost responses, failures and restarts move an item only as one step of a
\* replica would, an upload is accepted only over the version the row had when it was
\* decided on, and nobody touches the row before the upload is recorded or given up.
ItemsAreReplicas == Replica!Spec
=============================================================================

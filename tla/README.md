# A TLA+ model of bitboxsync-client-go

The client library keeps an app's values in step with a sync server that only
sees ciphertext. These modules model the part of it where the order of things
matters: what a sync pass does to the metadata store and to the app's storage,
the goroutines that start, wait for and stop passes, the bearer token and
default namespace that all callers share, and how devices come to share a
namespace and its key. TLC checks small instances; TLAPS proves twenty-five
results for every instance: every safety and action property that a passing run
checks except VersionsNeverRegress, some under conditions stated with them, and
that the engine and the membership calls implement abstract specifications of
what they promise.

## The system

| component | source | state | operations |
|---|---|---|---|
| sync pass | `bitboxsync/engine_run.go` (SyncNow), `engine_snapshots.go`, `engine_namespace.go`, `engine_items.go` | `syncMu`, logical-key locks; in the store one namespace row and one row per item | reconcile snapshots, list namespaces, list items, fetch and apply, save checkpoint, upload, refetch after 412/428 |
| ListNamespaces | `engine_namespace.go` | the same rows, not `syncMu` | the pull phase alone |
| collections | `collection.go`, `engine_discovery.go`, `merge.go`, `memory_backend.go` | registered collections; the app's own storage behind `ValueBackend` | open, active keys, conditional write, three conflict resolutions |
| background loop | `engine_run.go` (Run), `engine.go` (Close) | timer, `wakeSync`, `syncReqs`, login signals, failure and idle counters, `closed` | select loop, ScheduleSync, SetIdlePolling, Close |
| namespace watch | `engine_watch.go` | the open long poll, its response, failures | poll, check the hint, ask Run, back off |
| events | `engine_events.go` | bounded channel, `eventMu`, `activitySeq` | emit |
| authentication | `engine_auth.go` | identity state, `authMu` | login, refresh, 401 retry, revoke |
| namespace setup | `engine_namespace.go` | default namespace id; key and kind in each namespace row | default namespace, create, open, join, the listing of a pass |
| invites | `namespace_invites.go` | the tokens and listings the app holds; on the server invites, pending requests, members | create, revoke, submit, list, verify and approve, reject |
| store | `storage/sqlite` | three tables, one upsert per row | save, load, reset, forget secrets |
| protocol, raw client, codecs, demos | `protocol`, `raw`, `codecs.go`, `cmd` | none | pure conversions and requests |

How they interact. `Run` calls `SyncNow` on its timer, on a wake-up and for the
watch; an app may call `SyncNow` itself and `ListNamespaces` beside it. A pass
talks to the server, to the store and to the app's backend one call at a time,
and the app and other devices go on writing between any two of them. Per item a
logical-key lock is held from the second read of the row to its save. The watch
hands its hint to `Run` over an unbuffered channel and waits for the answer.
Everybody emits into one bounded channel that the app has to read. `Close`
closes `closed`, waits for `syncMu` and `eventMu`, closes the channel, then the
store. Every public call runs inside `runAuthenticated`: it takes `authMu` to
obtain a token, runs its body without it, and on a 401 takes `authMu` again to
replace the token. Bodies read one snapshot of the identity state and may save
it several requests later.

What is hard. An app write between the re-read of a value and its replacement;
an upload whose response is lost; a crash between backend, item row and
namespace row; a head that is counted and not returned; a stale response that is
applied late; a checkpoint saved for another scope; a conflict that moves on; a
wake-up during a pass; a shutdown with senders blocked; logins of several
callers at once; an identity state saved with a token that has been replaced; two
devices creating the default namespace; an invite whose first response was lost
and which is created again with another expiry; a request that is verified, then
replaced, and then approved; a namespace row that is read before somebody else
saves it. `PROJECT.json` lists
these hazards, each at its line, with the properties aimed at it.

What makes each part correct. *Item rows*: a merge base is a real common
ancestor. *Sync pass*: no edit is lost, nothing is sent back as new, an honest
server is not accused and a dishonest one is not followed, the checkpoint never
hides work, and repeated passes converge. *ListNamespaces*: none of this breaks
when two pulls overlap. *Run, watch, Close*: every announced write is followed
by a pass, every request is answered, polling is enough, shutdown is safe and
complete. *Authentication and default namespace*: logins come one after the
other, every call returns, a session that was left with a bad token heals, and
there is one default namespace. *Shared namespaces and invites*: every member gets
the key of the namespace and nobody a wrong one, a token that is shown is one that
the server honours, what an honest requester makes of it passes verification, and
what a device stores of its memberships settles.

## The modules

`ItemState` is the metadata row of one item and the pure functions on it.
`AppliesClean`, `ApplyWrites`, `ApplyValue` and `AppliedItem` are the decision of
`applyRemoteValueLocked`, split at its calls to the backend; `RacedItem` is
`keepDirtyAfterValueRace`.

`SyncEngine` extends it with one engine, one namespace, a set of keys, the
server, the app and the callers. `pc[t]` says where a caller is; each action ends
at a call after which somebody else's step could make a difference:

| label | action | code |
|---|---|---|
| idle, scope, reconcile | TakeSnapshot, LoadSnapshotScope, ReconcileSnapshotValue | `reconcileLocalSnapshots` |
| reconcile/idle, load | ListRemote, LoadNamespace, LoadNamespaceRollback | `syncNamespaces` |
| getItems, scan | GetNamespaceItems, ScanItems and their Rollback twins | `syncNamespaceItems` |
| pull, apply | GetItem, GetItemRollback, SkipApply, BeginApply, ApplyNotFound | `fetchAndApplyRemoteItem` |
| set, save, saveRaced | SetIfCurrent, SaveItem | `applyRemoteValueLocked` |
| checkpoint, pull | SaveCheckpoint | both ways to `SaveNamespace` |
| idle, join | ReadJoined, SaveJoined | what `joinNamespace` does to the row |
| any | SaveDefaultNamespace | what `defaultNamespace` does to the row |
| flush, flushScope, flushItem | ListDirtyItems, LoadFlushCaches, SkipUpload, BeginUpload | `flushDirtyItems` |
| put, saveUpload, saveHead | PutAccepted, PutRefused, PutResponseLost, SaveUploadedItem, SaveUploadedHead | `upload`, `saveUpload` |
| refetch, reapply, retry | Refetch, RefetchRollback, BeginReapply, RetryUpload, LeaveItem | the 412 path |

`Fail` ends any call anywhere with an error, `Crash` restarts the process on the
same store, `ResetSyncState` is the repair step of the repository's README, and
the app and other devices act through AppWrite, AppDelete, RemoteWrite,
OpenCollection, ChangeScope and the ResolveConflict actions. The server is
external: `srvLog[k]` holds the accepted values of an item, the version is its
length, `srvHead` grows by one per accepted write, and If-Match is compared with
the length. `ServerRollback` is only in RollbackSpec. Keeping the whole log
instead of the last value is what lets properties speak of ancestors.

Four pieces of code save the namespace row, and SyncEngine has them all. A pass
saves what it listed (SaveCheckpoint) or counted up (SaveUploadedHead).
`joinNamespace` saves back the row it read, head and scope hash included, and
`defaultNamespace` replaces the row by one with head 0 and no scope hash; neither
takes `syncMu`. The callers of JoinNamespace are the constant `Joiners`, and
SaveDefaultNamespace may happen at any moment: whether the identity state that a
caller has read names a default namespace is decided in AuthSession. The repair
that the repository's README describes leads there: ResetSyncState removes the
default namespace id, and a DefaultNamespace call of the fresh engine then runs
beside the first pass of Run. The keys and kinds of these rows are in AuthSession
(SaveRow) and Invites (SaveJoined), which leave the heads to SyncEngine.

The order in which keys are visited (sorted snapshot, map iteration, UpdatedAt)
is left open: every order is explored. An absent row and a zero row are the same
row, as they are for every reader. The scope stands for its hash.

`RunLoop` is the other view: a pass is reduced to its effect on the stored head
and its events, and the goroutines Run, watch, foreground SyncNow and Close
interleave. `known`, `hint`, `answer` and `report` are the watch's locals. Run
answers a request of the watch in five ways: by the result of a pass, good or
bad, without a pass when the hint is stored already (`ok`) or overtaken
(`rollback`), and with the error when the stored heads cannot be read
(RequestFails).
Durations are Width-bit signed integers, so that doubling could overflow;
`PowerOf2` is the only arithmetic that grows, and IntervalAssumption says no more
than that the two configured intervals fit the type.

`AuthSession` is the third view: any number of callers share the identity state
(`identity` in memory, `stored` in the store), the row of the default namespace
and `authMu`. A pass, a DefaultNamespace call, a revocation and any other call
differ in their bodies, which are reduced to the requests they make, the identity
states they read and save and that row.

| label | action | code |
|---|---|---|
| idle, ensure | Call, EnsureAuthenticated | `runAuthenticated`, `ensureAuthenticated` |
| login, snapshot, refresh | Login, LoginFails, RefreshSnapshot, Refresh, RefreshRefused, RefreshFails | `login`, `refresh` |
| persist, publish | Persist, Publish, SaveFails | `saveIdentityState`, called from five places |
| begin, run, reauth | Begin, Run, Rejected, Reauthenticate, BodyFails | `runAuthenticated`, `reauthenticateAfterUnauthorized` |
| list, check, join, key, work, items, checkpoint, flush | ListAccepted, Check, Join, KeyAccepted, GetItems, NothingToFetch, ItemsAccepted, SaveCheckpoint, Upload, NothingToUpload | `syncNamespaces`, `joinNamespace` |
| create, ready, row | EnsureDefaultNamespace, EnsureDefaultNamespaceLost, Ready, SaveRow | `defaultNamespace`, `ensureNamespaceReady` |
| revoke, request | RevokeAllTokens, RevokeAllTokensLost, RequestAccepted | `RevokeAllTokens`, calls with one request |

Tokens are numbered in the order in which they are issued, and each is valid,
inside the refresh skew or expired by the client's clock. A namespace and its key
are named after whoever proposed them; the server keeps the first proposal. One
request stands for the item requests of a pass and one for its uploads. The 401 of
a login or a refresh is not told apart from its other errors. The second 401 of a
call returns to the app, as in the code; the label `ready` leads back to
`ensure` for a key that is missing, because `ensureNamespaceReady` obtains a token
of its own inside the body. `Restart` loads the stored identity, after
ForgetIdentitySecrets or not; a reset of the sync state may happen under a running
engine.

`Invites` is the fourth view: any number of devices, each with a store and with
callers of its engine, one server, and a clock. `rows[d][n]` is what the store of
device d has of namespace n, its key and its kind; `wrapped`, `invites` and
`pending` are the server's; `handles`, `tokens` and `listed` are what the apps
hold.

| label | action | code |
|---|---|---|
| idle, create, saveCreated | CreateSharedNamespace, CreateSharedAccepted, CreateSharedLost, SaveCreated | `createSharedNamespace` |
| idle, key, saveJoined | Namespace, JoinNamespace, EnsureNamespaceReady, WrappedDEKReceived, SaveJoined | `ensureNamespaceReady`, `joinNamespace` |
| idle, list, visit, saveRow | ListNamespaces, ListLocal, Visit, SaveRow, PassEnds | `syncNamespaces` |
| idle, draw, invite | CreateInvite, DrawInvite, InviteCreated, InviteLost, RevokeInvite | `CreateInvite`, `RevokeInvite` |
| idle, submit | SubmitJoinRequest, JoinRequestStored | `SubmitJoinRequest` |
| idle, approve | JoinRequests, ApproveJoinRequest, ApprovalAccepted, RejectJoinRequest | `ApproveJoinRequest` with `verifyJoinRequestForApproval` |

`Tick` moves the clock between any two of these, `Fail` ends a call, `Crash`
restarts a device, `ResetSyncState` and `ForgetIdentitySecrets` change its rows,
and `EntryDamaged` lets the server list a record with another wrapping key than
the one that was submitted. A pass here is what syncNamespaces does for keys and
kinds; heads, scopes and items are in SyncEngine. Cryptography is ideal: a key
is named after its namespace, a wrapped key opens for one device and one
namespace, a payload stands for its hash, and `sealed` is the payload that was
signed and proved. The 401 path is in AuthSession. ensureNamespaceReady and the
request that follows it are two calls of runAuthenticated in CreateInvite and
ApproveJoinRequest, with a label between them.

`ReplicatedItems` is the abstract specification of the item rows: each item is a
replica of a register with a version log, and it moves by Edit, Upload and
Record, Take, Disagree, Resolve, Reset. There are no locks, no responses under
way, no callers and no backend in it. `SyncEngine` maps itself to it at its end:
`log` is the server's log, a row is its version, base version and one of clean,
dirty and conflict, and `sent` is the item whose upload SyncNow knows to be
accepted and has not saved.

`Memberships` is the abstract specification of who may hold a key. A device has
access by Found or by Admit, Admit needs an offer (Offer, Withdraw) and a request
made with it (Ask, Decline) that are both open at that moment, Lapse closes either,
and Learn and Forget are what a store does with a key that its device has access to.
There are no calls, lost answers, wrapped keys, tokens, listings or clocks in it.
`Invites` maps itself to it at its end: access is what the server holds wrapped for
a device, if it is the right key; an offer is an invite, a question a pending
request that has not expired, and `stored` the rows with a key. A request that
is sent again while one is pending, a created invite whose answer is asked for once
more and the revocation of a closed invite show the specification nothing.

`MCSyncEngine`, `MCRunLoop`, `MCAuthSession` and `MCInvites` instantiate these
for TLC. In MCSyncEngine a value is the set of edits it carries, which makes a
lost edit visible; the merge policy is one of merge.go's or one that keeps both
sides. Environment actions draw on a budget and the engine's own steps do not.
The operators commented *Seeded bug* are the deliberately wrong variants used to
show that each property can fail; no specification refers to them.

## The runs

| run | instance | checked |
|---|---|---|
| SyncScope | 2 keys, 2 app and 2 remote writes, 1 fault, 1 scope change, merging policy, SyncNow and one JoinNamespace, 1 read of the row by JoinNamespace or 1 DefaultNamespace | CheckpointSound, NoFalseRollback, NoEchoUpload |
| SyncConflicts | 1 key, no merge policy, 2+2 writes, 1 delete, 2 resolutions, 1 fault | MergeBaseSound, NoEditLost, ConflictFrozen, ItemsAreReplicas |
| SyncRollback | 1 key, 2+2 writes, 1 fault, 2 server rollbacks, 1 reset, 1 DefaultNamespace | TypeOK, VersionsNeverRegress, PassNeverLowersHead |
| SyncListers | 1 key, SyncNow and one ListNamespaces, 1+2 writes, 1 fault | MergeBaseSound, NoEditLost, NoLastingAlarm, ItemsAreReplicas |
| SyncConvergence | 2 keys, 2+2 writes, 1 fault, one edit too large to upload, fair | NoEditLost, Convergence, RacedRemoteMerged |
| RunLoop | 2 calls of the app, 1 write, 1 upload or fault, buffer of one event, fair | TypeOK, CloseIsSafe, IntervalIsCappedDoubling, NoWakeupLost, RemoteChangeNoticed, WatchIsAnswered, CloseStopsEverything |
| AuthSession | Run and an app, another device, 2 calls or mishaps together, fair | TypeOK, LoginsInOrder, OneDefaultNamespace, SessionHeals, CallReturns |
| Invites | an owner's app, a joiner's app and passes, a default and a shared namespace, 1 invite, times 0 to 2, 6 calls or mishaps together, fair | TypeOK, KeysAgree, TokensAgree, HonestRequestVerifies, AccessByInvite, MembershipSettles |

Why the bounds suffice. A race needs one write of each side around a step; the
second one reaches the retry after a refused upload and its second refusal, and
a version newer than the one in flight. In SyncConvergence other devices may for this
also write the server's value again, as a new version. One fault cuts any pass
anywhere. One key shows everything an item can do, because items share only the
checkpoint; the runs about the checkpoint and about one item holding up another
have two. A buffer of one event is full after one send. In RunLoop one upload
takes the stored head past the hint that a write of another device caused, and
one fault is a failed pass, poll or read of the stored heads. One
DefaultNamespace, or one row that JoinNamespace has read, is enough to put a
stale row back at each label of a pass. Four bits are enough for the doubling to
overflow when its guard is removed (PollInterval 3, MaxPollInterval 7). In
AuthSession a call of the app, a token that ages or is dropped, a failure, a
restart and a reset each cost one of two events: one to leave the identity in a
bad state and one to disturb the recovery, while Run calls for ever and the
other device acts when it likes. Two callers suffice for a stale save, and for a
login that waits for `authMu`. In Invites six events are the shortest way to a
second member (create, invite, submit, list, approve) and one mishap on it, or a
repeated CreateInvite and what follows from it; three times let an invite
outlive a request and a second try draw a later expiry. The joiner's passes are
unlimited.

The budgets leave the engine's steps unlimited, so a deadlock would be a real
one; none of the runs switches the deadlock check off. All runs use a backend with
`SetIfCurrent`. The repository's README says that without it an app write can be
overwritten, and NoEditLost does fail in such an instance; the theorems below,
except those of `EditProofs`, hold for both kinds.

Fairness. In MCSyncEngine it is weak fairness of the syncing caller, because Run
repeats passes for ever, and of a ListNamespaces or JoinNamespace call once
begun. Nothing is assumed of the app, the other devices or the faults, which are
finite by budget: "once they stop" is what makes convergence meaningful. In
MCRunLoop each goroutine is weakly fair (the Go scheduler), `SelectDone` is
strongly fair (a select chooses at random among its ready cases, so that one
that is ready again and again is taken), the server ends every long poll, and
the app reads its events, as the comment on `Events` requires. In MCAuthSession
each caller is weakly fair once it has begun a call, Run begins another one
after each, and a caller that waits for `authMu` is strongly fair, because
`sync.Mutex` hands itself to a waiter that has been passed over. Only Run
repeats. Two callers that both repeat for ever need not settle: failedToken is
read after `ensureAuthenticated` has released `authMu`, so that a caller may
take another's new token for the one that was rejected and discard it. In
MCInvites each caller is weakly fair once it has begun a call, and the joiner
begins another pass after each; the apps, the clock and the mishaps are under no
obligation.

### Where code and documentation disagree

Four runs are expected to find a violation; `PROJECT.json` quotes the lines.

* **ListersRollback**: `ListNamespaces` lists the server's heads, a concurrent
  SyncNow uploads and saves a higher head, and the comparison then reports
  ErrRollback although the server did nothing wrong (and does not do so again:
  AlarmsDoNotLast).
* **ListersStale**: a late apply by `ListNamespaces` of an older version cleans a
  row that SyncNow had kept dirty after losing a race, while SyncNow saves the
  newer head; the newer version is not fetched until the next foreign write.
* **DeletedValue**: a dirty item whose value the app removed, and which another
  device changes, makes every pass fail before the other keys are synced.
* **WatchHint**: a watch response older than the stored head is reported as a
  rollback, where the comment says that it only makes the watch reconnect.

One more disagreement has no run; a sequence of calls shows it.
`types.go:88` says of the stored head that it "is the highest namespace head
observed locally". It is not: `defaultNamespace` replaces the row by one with
head 0 (`engine_namespace.go:80-87`), `joinNamespace` saves back a row that a
pass may have replaced since (336), and of two overlapping pulls the later save
wins, whichever listed first (`engine_items.go:93-100`). So no property here says
that the head never goes down. What the head is for still holds, and is checked
and proved with these writers present: CheckpointSound, NoFalseRollback and
NoLastingAlarm, and that no pass stores less than what is stored
(PassNeverLowersHead). The price is that a restore of the server which falls
between a lowered head and the next pass is noticed by the item versions
only (VersionsNeverRegress).

Three weaknesses that are not against any documented claim, and from which the
system recovers. A body that saves the identity state it read before its
requests may put back a token that a refresh has replaced; SessionHeals says
that this does not last. A pass that listed the namespaces before the same
device created or joined one reports ErrRollback for it ("disappeared"), once.
And the handle that JoinNamespace returns refuses CreateInvite and
ApproveJoinRequest until a pass has recorded the kind, because joinNamespace is
given no kind; MembershipSettles says that the passes do record it.

## The proofs

`SyncEngineProofs` proves, for any keys, values, merge function, kind of backend
and any number of ListNamespaces callers, under the named assumptions of
ItemState and SyncEngine:

* `TypeCorrectness`: Spec => []TypeOK,
* `MergeBaseSoundness`: Spec => []MergeBaseSound,
* `EngineInvariant`, on which both rest.

MergeBaseSound alone is not inductive: a row is saved several steps after the
response it comes from was received, and in between other callers and devices
move. EngineInv adds what has to survive these steps. A caller past the lock of
an item holds that lock, so that the row it read is the row it replaces. What
`got` holds is a version the server accepted, and is newer than the row while it
is being applied. An upload in flight was accepted as the row's version plus one.
The server's log only grows, so that facts about versions stay true. The proof
has one lemma per action or per group of actions with the same shape, each
showing the conjuncts it can disturb.

`ReplicaProofs` proves `EngineImplementsReplicas`: Spec => ItemsAreReplicas. Most
actions map to a stutter, the save of a row to Take, Disagree, Edit, Record or
Resolve. What EngineInv lacks for this is FreshInv: from the moment a
caller has decided on an item under its key lock, the stored version stays below
the one it is about to save, and the row of an upload under way stays dirty and
out of conflict. TLC checks the same refinement in two runs.

`ConflictProofs` proves `ConflictsStayFrozen`: Spec => ConflictFrozen, from
FreshInv. The steps that write the app's storage or the server act on what was
decided some steps before, on a row that was not in conflict; the key lock keeps
it so. All functions that rewrite a row keep a conflict and its base, or end it
in a step of the app (KeepsConflict).

`CheckpointProofs` proves, when no call of ListNamespaces overlaps with SyncNow,

* `NoFalseAlarm`: Spec /\ Listers = {} => []NoFalseRollback,
* `CheckpointSoundness`: Spec /\ Listers = {} => []CheckpointSound.

Calls of JoinNamespace and DefaultNamespace may come in between, in any number. The
condition is needed: ListersRollback and ListersStale show both broken with one
such call. HeadsSound orders every head and version that the engine holds or has
stored below the server's, with room for the upload that is about to be counted;
HeldRows are the stored row and all copies of it that callers hold, any of which may
be stored next, and Roles keeps the callers of JoinNamespace out of the pass.
CoverageSound says at each label which rows the head that will be stored covers:
"the head is out of date, or all rows but those still to be visited are recent".
Recent leaves out dirty rows in conflict, which CheckpointSound allows: resolving
such a conflict with PreferRemote makes the row clean at its own version, and it
would be hidden if that version were not the server's. A write that
reaches the server puts every head out of date at once, so what is left to show is
that the engine's own saves keep the rows recent.

For any number of calls of ListNamespaces as well it proves

* `AlarmsDoNotLast`: Spec => []NoLastingAlarm.

The false ErrRollback of ListersRollback comes from a comparison with a row that
another call saved in between, and not from anything stored too far ahead:
HeadsReached keeps every head and version that any call holds, and every stored one,
at or below the server's, so a pass that runs alone afterwards does not report it
again and no ResetSyncState is needed.

On a server that rolls back it proves

* `PassesKeepHead`: RollbackSpec /\ Listers = {} /\ Joiners = {} => PassNeverLowersHead.

DefaultNamespace may forget the head at any moment, even inside a pass. The callers
of JoinNamespace have to stay out: one that read the row before DefaultNamespace
forgot the head puts a higher head back after the pass has compared with none.

Here nothing relates the engine to the server's log any more, and HeadInv does not
rest on EngineInv: it orders the heads a pass holds among themselves. From the
comparison at the listing to the save of the checkpoint the listed head is at least
the stored one, and during a flush so is the cached head.

`EditProofs` proves, over MCSyncEngine, in which a value is the set of edits it
carries,

* `EditsAreKept`: MCSpec /\ KeepsEdits /\ MaxRollbacks = 0 => []NoEditLost, for any
  number of ListNamespaces calls;
* `UploadsCarryNews`: NoEchoUpload, when also Listers = {}, MaxDeletes = 0,
  MaxResolutions = 0 and every value carries an edit.

KeepsEdits asks of the app what the library cannot give it: edits that add to a
value, a merge that keeps both sides' edits or leaves the conflict to the app,
and a backend with `SetIfCurrent`. PolicyAssumption has TLC evaluate that the
policies of the runs meet it; no proof uses it. A rollback loses edits at the
server. For an upload that brings news more is needed: a delete or a resolution
may shrink a value to one the server has, and a ListNamespaces call may apply a
version between the snapshot of the app's values and the comparison with them.
NoEditLost is not inductive because an accepted upload replaces the server's
value and an applied version the app's. EditInv says of each row that a row at
the server's version has nothing left to learn, and of each call what the value
it is about to write or to record contains (RowEdits, CallEdits).

`RunLoopProofs` proves `WakeupsKept`: MCSpec => []NoWakeupLost, over MCRunLoop,
which notes the calls that no pass has answered yet, and `CloseSafety`: Spec =>
[]CloseIsSafe. The invariant CloseInv relates `syncMu` to the labels at which a
goroutine is inside SyncNow, and Close's progress to `closed`, `syncMu` and
`eventsClosed`; without it a pass that was waiting for `syncMu` could not be
told from one that got it before Close.

It also proves `IntervalsAreCapped`: Spec => []IntervalIsCappedDoubling, and
`TypeCorrect`: Spec => []TypeOK. That the interval is an integer already depends
on what Doubled computes for any number of failures. As the library's induction
theorems cannot be instantiated here, the lemmas about PowerOf2 and Doubled take
a least counterexample, from the well-foundedness of the naturals. CappedStep is
the arithmetic: one guarded doubling of a power of two times the base, cut at
the cap, is the next one, and never leaves the type.

`AuthSessionProofs` proves, for any number of callers,

* `SessionTypes`: Spec => []TypeOK,
* `LoginOrder`: Spec => []LoginsInOrder,
* `DefaultNamespaceUnique`: Spec => []OneDefaultNamespace,
* `SessionInvariant`, on which they rest.

LoginsInOrder speaks of the newest token at the moment of a save, and nothing in
it keeps another caller from making the server issue one in between. AuthInv
says who holds `authMu`: exactly the caller between a login or refresh and the
publication of its token. CallOK states this as a predicate of one caller's
label, its locals and what it shares, so that the step of one caller leaves the
others in order by one lemma (CallerStep): only the holder makes the server
issue a token, and the server's default namespace is set once.
OneDefaultNamespace is strengthened by the same condition on every identity
state still on its way to the store.

`InvitesProofs` proves, for any devices, callers, namespaces, invites and maximum
lifetimes,

* `MembershipTypes`: Spec => []TypeOK,
* `KeyAgreement`: Spec => []KeysAgree,
* `TokenAgreement`: Spec => []TokensAgree,
* `HonestVerification`: Spec => []HonestRequestVerifies,
* `InvitesImplementMemberships`: Spec => AccessByInvite,
* `InvitesInvariant`, on which they rest.

The argument follows a key through the calls. A wrapped key at the server was
wrapped by the creator or by an approval; an approval wraps the cached key for
the wrapping key of the entry it verified; verification makes the entry equal to
its sealed payload; and a sealed payload names one device twice, because it was
made by JoinRequest. InvitesInv states this chain for every place in which a
link is held between two steps: rows about to be saved, listings, requests in
flight and pending. HonestRequestVerifies needs one more link: requests were
made from a confirmed token, which agrees with the server's invite, whose expiry
never changes, so that all tokens of an invite have one expiry.

The refinement needs HoldersInv besides: a key in a row is that of a member, and so
is the key that a call is about to save. It survives everything that may happen
between the response of GetWrappedDEK, or of the creation, and the save, because the
server takes no member away (Grown). Then each action is shown to be one step
of Memberships or a stutter: the server's answers are Found, Offer, Ask and Admit,
whether or not they arrive; the saves are Learn, resets and ForgetIdentitySecrets
are Forget, the clock is Lapse, and all other steps show nothing (QuietStep).

Only model-checked: VersionsNeverRegress, whose proof needs the types of all rows on
a server of which nothing is known, and liveness (Convergence, RacedRemoteMerged,
HealthyKeysConverge, RemoteChangeNoticed, WatchIsAnswered, CloseStopsEverything,
SessionHeals, CallReturns, MembershipSettles), which is out of the prover's reach.
What four of the runs show violated cannot be proved, of course; NoFalseAlarm is
NoFalseRollback without the overlap that breaks it.

## Not modelled

Encodings, HTTP and SQL: they are pure or atomic, and a failure of one is a
failure of the calling step. Cryptography is taken as ideal: a response decrypts
to the value that was written as its version. Items of several namespaces or
collections in one pass: they share nothing but the identity and the order in
which an error stops the pass. The limit on the requests an invite accepts,
which the client only passes on, is a refusal that may come at any time. The
contents of events. Real time: timers may fire at any moment, and the clock of
Invites is one for all devices and the server. The four views are separate: in
SyncEngine a 401 is a failed pass followed by a new one, in AuthSession the
items of a pass are one request, in Invites a body is not run a second time,
which would repeat requests that the server answers as it does a repeated call.

## Plan

1. Done: `ItemState`, `SyncEngine`, `RunLoop`, `AuthSession`, `Invites`, their runs
   and first theorems; `ReplicatedItems`, which `SyncEngine` is proved to implement.
2. Done: a theorem for each safety and action property of the passing runs but one;
   `Memberships`, which `Invites` is proved to implement.
3. Left: a theorem for that one, VersionsNeverRegress; an abstract specification
   of a session, one token and one default namespace, which AuthSession
   implements; the watch's request and answer as an abstract exchange that
   RunLoop implements.

------------------------------ MODULE ItemState ------------------------------
(***************************************************************************)
(* The sync metadata row the engine keeps for one logical key (ItemState   *)
(* of types.go) and the functions of engine_items.go that rewrite it.      *)
(*                                                                         *)
(* A row that the store does not hold and a row with every field zero are  *)
(* treated alike by every reader of the store, so an absent row is         *)
(* NewItem.  Timestamps, and the identifying columns KeyID, NamespaceID,   *)
(* Collection, Key and ItemID, are left out: rows are indexed by key.      *)
(***************************************************************************)
EXTENDS Naturals

CONSTANTS
    Values,          \* encoded plaintext values of one collection
    NoValue,         \* a nil byte slice, or ErrNotFound from a backend
    Merge(_, _, _)   \* the MergeFunc of the collection: (base, local, remote)

ASSUME NoValueAssumption == NoValue \notin Values

\* A merge function returns (merged, resolved); base is nil when there is none.
ASSUME MergeAssumption ==
    \A b \in Values \cup {NoValue}, l \in Values, r \in Values :
        Merge(b, l, r) \in [resolved : BOOLEAN, value : Values]

OptValue == Values \cup {NoValue}

ItemState ==
    [ version               : Nat,
      baseVersion           : Nat,
      baseValue             : OptValue,
      dirty                 : BOOLEAN,
      conflict              : BOOLEAN,
      conflictRemoteVersion : Nat,
      conflictRemoteValue   : OptValue ]

NewItem ==
    [ version               |-> 0,
      baseVersion           |-> 0,
      baseValue             |-> NoValue,
      dirty                 |-> FALSE,
      conflict              |-> FALSE,
      conflictRemoteVersion |-> 0,
      conflictRemoteValue   |-> NoValue ]

hasMergeBase(item) == item.baseVersion # 0 \/ item.baseValue # NoValue

clearItemConflict(item) ==
    [item EXCEPT !.conflict = FALSE,
                 !.conflictRemoteVersion = 0,
                 !.conflictRemoteValue = NoValue]

markItemDirty(item) == [item EXCEPT !.dirty = TRUE]

\* Version, base and dirty flag of a row whose base becomes a server version.
WithBase(item, version, value, dirty) ==
    clearItemConflict([item EXCEPT !.version = version,
                                   !.baseVersion = version,
                                   !.baseValue = value,
                                   !.dirty = dirty])

markItemClean(item, version, value) == WithBase(item, version, value, FALSE)

\* Seeded bug: the new base value is stored under the old base version.
markItemDirtyWithOldBaseVersion(item, version, value) ==
    [WithBase(item, version, value, TRUE) EXCEPT !.baseVersion = item.baseVersion]

markItemDirtyWithBase(item, version, value) == WithBase(item, version, value, TRUE)

\* Seeded bug: a conflict takes the remote version as its base version.
markItemConflictRebased(item, version, value) ==
    [item EXCEPT !.version = version,
                 !.baseVersion = version,
                 !.dirty = TRUE,
                 !.conflict = TRUE,
                 !.conflictRemoteVersion = version,
                 !.conflictRemoteValue = value]

\* Seeded bug: a conflict drops the merge base.
markItemConflictBaseless(item, version, value) ==
    [markItemConflictRebased(item, version, value)
        EXCEPT !.baseVersion = 0, !.baseValue = NoValue]

\* The base is kept: a later resolution still merges against it.
markItemConflict(item, version, value) ==
    [item EXCEPT !.version = version,
                 !.dirty = TRUE,
                 !.conflict = TRUE,
                 !.conflictRemoteVersion = version,
                 !.conflictRemoteValue = value]

\* reconcileSnapshotValue: the row after comparing it with a snapshot value.
ReconciledItem(item, value) ==
    IF item.conflict \/ item.dirty \/ (hasMergeBase(item) /\ value = item.baseValue)
      THEN item
      ELSE markItemDirty(item)

-----------------------------------------------------------------------------
(* applyRemoteValueLocked, split at its calls to the backend.  local is    *)
(* what the backend's Get returned, NoValue standing for ErrNotFound.      *)

\* A dirty row without a current value: itemCurrentValue's error is returned.
ApplyFails(item, local) == ~item.conflict /\ item.dirty /\ local = NoValue

\* Seeded bug: the dirty flag is trusted and an edit made since the snapshot is
\* taken for the synced value.
AppliesCleanIfNotDirty(item, local, value) ==
    ~item.conflict /\ (~item.dirty \/ local = value)

\* The row still agrees with the backend, or the backend already holds the
\* remote value: the remote value is taken as it is.
AppliesClean(item, local, value) ==
    /\ ~item.conflict
    /\ \/ ~item.dirty /\ local = NoValue
       \/ ~item.dirty /\ hasMergeBase(item) /\ local = item.baseValue
       \/ local = value

MergeResult(item, local, value) ==
    Merge(IF hasMergeBase(item) THEN item.baseValue ELSE NoValue, local, value)

\* Whether the step writes the backend before it saves the row.
ApplyWrites(item, local, value) ==
    ~item.conflict
    /\ (AppliesClean(item, local, value) \/ MergeResult(item, local, value).resolved)

\* The value it writes.
ApplyValue(item, local, value) ==
    IF AppliesClean(item, local, value)
      THEN value
      ELSE MergeResult(item, local, value).value

\* Seeded bug: a merge that yields the remote value is uploaded all the same.
AppliedItemDirty(item, local, version, value) ==
    IF ~ApplyWrites(item, local, value)
      THEN markItemConflict(item, version, value)
      ELSE IF AppliesClean(item, local, value) /\ ~item.dirty
             THEN markItemClean(item, version, value)
             ELSE markItemDirtyWithBase(item, version, value)

\* The row it saves when nothing raced with the write.
AppliedItem(item, local, version, value) ==
    IF ~ApplyWrites(item, local, value)
      THEN markItemConflict(item, version, value)
      ELSE IF ApplyValue(item, local, value) = value
             THEN markItemClean(item, version, value)
             ELSE markItemDirtyWithBase(item, version, value)

\* keepDirtyAfterValueRace: the row it saves when the conditional write lost.
RacedItem(item) == markItemDirty(item)
=============================================================================

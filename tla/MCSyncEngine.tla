----------------------------- MODULE MCSyncEngine -----------------------------
(***************************************************************************)
(* SyncEngine for TLC.  A value is the set of edits it carries, so that a  *)
(* lost edit can be seen: the app and the other devices each write the     *)
(* value they see with one edit of their own added.  Every environment     *)
(* action draws on a budget; the engine's own steps are unbounded.         *)
(***************************************************************************)
EXTENDS SyncEngine, FiniteSets, TLC

CONSTANTS
    Mine,            \* edits the app makes
    Theirs,          \* edits other devices make
    Big,             \* edits that together make a value too large to upload
    Policy,          \* merge policy of the collection
    MaxAppWrites, MaxRemoteWrites, MaxFaults, MaxScopeChanges,
    MaxResolutions, MaxDeletes, MaxResets, MaxRollbacks, MaxSetups

VARIABLES
    budget,          \* environment actions left, by kind
    made             \* edits made to each key and not given up by the app

mcVars == <<vars, budget, made>>

Edits(v) == IF v = NoValue THEN {} ELSE v

MCValues == {s \cup {e} : s \in SUBSET (Mine \cup Theirs), e \in Mine \cup Theirs}

\* The policies of merge.go, and an app policy that keeps both sides' edits.
NoMerge(local) == [resolved |-> FALSE, value |-> local]
PreferLocal(local) == [resolved |-> TRUE, value |-> local]
PreferRemote(remote) == [resolved |-> TRUE, value |-> remote]
KeepBoth(local, remote) == [resolved |-> TRUE, value |-> Edits(local) \cup remote]

MCMerge(base, local, remote) ==
    CASE Policy = "NoMerge"      -> NoMerge(local)
      [] Policy = "PreferLocal"  -> PreferLocal(local)
      [] Policy = "PreferRemote" -> PreferRemote(remote)
      [] Policy = "KeepBoth"     -> KeepBoth(local, remote)

\* Nobody drops an edit without giving it up: the app and the other devices write
\* what they see with edits added, the backend refuses to replace a value it does
\* not hold, and a merge either keeps both sides' edits or leaves the conflict to
\* the app.
KeepsEdits ==
    /\ Conditional
    /\ \A v \in OptValue : \A w \in LocalEdits(v) \cup RemoteEdits(v) : Edits(v) \subseteq Edits(w)
    /\ \A b \in OptValue, l \in Values, r \in Values :
          Merge(b, l, r).resolved => Edits(l) \cup Edits(r) \subseteq Edits(Merge(b, l, r).value)

\* The runs meet it.  No proof relies on this: the theorems name KeepsEdits.
ASSUME PolicyAssumption ==
    Conditional /\ Policy \in {"NoMerge", "KeepBoth"} => KeepsEdits

MCOversized == {v \in MCValues : Big # {} /\ Big \subseteq v}
MCLocalEdits(v) == {Edits(v) \cup {e} : e \in Mine \ Edits(v)}
MCRemoteEdits(v) == {Edits(v) \cup {e} : e \in Theirs \ Edits(v)}

\* The same with an edit that may be there already: a new version of the same value.
MCRemoteVersions(v) == {Edits(v) \cup {e} : e \in Theirs}

MCResolutions(l, r) == {Edits(l) \cup r}

Symmetry == Permutations(Keys) \cup Permutations(Mine) \cup Permutations(Theirs)

Budget == [app |-> MaxAppWrites, remote |-> MaxRemoteWrites, fault |-> MaxFaults,
           scope |-> MaxScopeChanges, resolve |-> MaxResolutions,
           delete |-> MaxDeletes, reset |-> MaxResets, rollback |-> MaxRollbacks,
           setup |-> MaxSetups]

Spend(b) == budget[b] > 0 /\ budget' = [budget EXCEPT ![b] = @ - 1]

MCInit == Init /\ budget = Budget /\ made = [k \in Keys |-> {}]

\* Edits the app gives up when it replaces what it sees of k by value v.
GiveUp(k, v) ==
    made' = [made EXCEPT ![k] =
               @ \ ((Edits(backend[k]) \cup Edits(items[k].conflictRemoteValue)) \ Edits(v))]

Write ==
    \E k \in Keys :
        \/ /\ AppWrite(k) /\ Spend("app")
           /\ made' = [made EXCEPT ![k] = @ \cup (Edits(backend'[k]) \ Edits(backend[k]))]
        \/ /\ RemoteWrite(k) /\ Spend("remote")
           /\ made' = [made EXCEPT ![k] = @ \cup (Edits(Latest(k)') \ Edits(Latest(k)))]

Delete ==
    \E k \in Keys :
        /\ AppDelete(k) /\ Spend("delete")
        /\ made' = [made EXCEPT ![k] = @ \ Edits(backend[k])]

Resolve ==
    \E k \in Keys :
        /\ Spend("resolve")
        /\ \/ ResolveConflictPreferLocal(k) /\ GiveUp(k, backend[k])
           \/ \E saved \in BOOLEAN :
                \/ ResolveConflictWithValue(k, saved) /\ GiveUp(k, backend'[k])
                \/ ResolveConflictPreferRemote(k, saved) /\ GiveUp(k, backend'[k])

ChangeTheScope ==
    \/ \E s \in SUBSET Keys : OpenCollection(s)  /\ UNCHANGED budget
    \/ \E s \in SUBSET Keys : ChangeScope(s) /\ Spend("scope")

MCNext ==
    \/ EngineStep /\ UNCHANGED <<budget, made>>
    \/ SetupStep /\ Spend("setup") /\ UNCHANGED made
    \/ FaultStep /\ Spend("fault") /\ UNCHANGED made
    \/ ChangeTheScope /\ UNCHANGED made
    \/ Write
    \/ Delete
    \/ Resolve
    \/ ResetSyncState /\ Spend("reset") /\ UNCHANGED made
    \/ RollbackStep /\ Spend("rollback") /\ UNCHANGED made

MCSpec == MCInit /\ [][MCNext]_mcVars

\* Run repeats SyncNow on its poll timer for ever, and a call that has started
\* goes on; nothing is assumed of the environment.
Fairness ==
    /\ WF_mcVars((SyncStep \/ PullStep(SyncThread)) /\ UNCHANGED <<budget, made>>)
    /\ \A t \in Listers \cup Joiners :
          WF_mcVars(pc[t] # "idle" /\ (PullStep(t) \/ SaveJoined(t)) /\ UNCHANGED <<budget, made>>)

MCFairSpec == MCSpec /\ Fairness

-----------------------------------------------------------------------------
(* Properties that speak of edits *)

\* No edit is lost: an edit that the app or another device made is in the app's
\* value or in the server's latest value, until the app itself deletes it or
\* rejects it when it resolves a conflict.
NoEditLost ==
    \A k \in Keys : made[k] \subseteq Edits(backend[k]) \cup Edits(Latest(k))

\* An upload is a step of a call that gives the server a new version.
UploadsNews ==
    \A k \in Keys :
        srvLog'[k] # srvLog[k] /\ pc' # pc =>
            ~(Edits(cur[SyncThread]) \subseteq Edits(Latest(k)))

\* An upload always carries something new.  Losing the response of an upload, or
\* crashing between the write of a remote value and the save of its row, never
\* makes the engine send the server's own value back as a new version.
NoEchoUpload == [][UploadsNews]_vars

\* Once the environment is quiet, every active item ends up equal on both sides
\* and clean, or waits for the app: in conflict, or with a value too large.  One
\* such item does not keep the others from converging.
InSync(k) ==
    \/ items[k].conflict
    \/ backend[k] \in Oversized
    \/ backend[k] = Latest(k) /\ items[k].version = Len(srvLog[k]) /\ ~items[k].dirty

Convergence == <>[](\A k \in Active(scope) : InSync(k))

\* The same for the keys that have a value, when the app may also delete one:
\* a deleted key must not keep the others from converging.
HealthyKeysConverge == <>[](\A k \in Active(scope) : backend[k] # NoValue => InSync(k))

\* A remote version that was not applied because the app's write won the race is
\* not forgotten: the row catches up with the server, while the key stays active.
\* A value too large to upload holds this up, as the merge starts from a refused
\* upload.
RacedRemoteMerged ==
    \A k \in Keys :
        (\E t \in Threads : pc[t] = "saveRaced" /\ key[t] = k)
            ~> \/ items[k].version = Len(srvLog[k])
               \/ k \notin Active(scope)
               \/ backend[k] \in Oversized
=============================================================================

----------------------------- MODULE AuthSession -----------------------------
(***************************************************************************)
(* The bearer token of an identity, and its default namespace, shared by   *)
(* the goroutines that call the engine.                                    *)
(*                                                                         *)
(* A caller runs one authenticated call at a time: it obtains a token      *)
(* (ensureAuthenticated), runs the body of the call, and when the server   *)
(* rejects a token, logs in again and runs the body once more.  Bodies are *)
(* reduced to the requests they make, the identity states they read and    *)
(* save, and the row of the default namespace.                             *)
(*                                                                         *)
(* Identity states are read and written under e.mu, but a body may save    *)
(* one it has read several requests earlier; only logins and refreshes are *)
(* serialized, by authMu.                                                  *)
(***************************************************************************)
EXTENDS Naturals, Sequences

CONSTANTS
    Callers,        \* goroutines that call the engine
    Other,          \* another device of the same identity
    Nobody,         \* authMu is free
    NoNamespace     \* the empty namespace ID, and the missing namespace key

ASSUME CallerAssumption ==
    Other \notin Callers /\ Nobody \notin Callers /\ NoNamespace \notin Callers \cup {Other}

\* A namespace and its key are named after whoever proposed them.  At most one
\* proposal of each caller can matter, because the server accepts one in all.
Namespaces == Callers \cup {Other}

\* Tokens are numbered in the order in which they are issued.
NoToken == 0

VARIABLES
    srvTokens,    \* server: the tokens it accepts
    srvDefault,   \* server: the default namespace of the identity
    age,          \* of each token issued: "valid", "skew" or "expired" by the client's clock
    identity,     \* e.identityState: token and default namespace
    stored,       \* the identity row in the store
    row,          \* the row of the default namespace in the store: ID and key
    authMu,       \* holder of authMu
    pc,           \* where each caller is
    call,         \* local variables of each caller
    outcome       \* how each caller's last call ended, until the next one

serverVars == <<srvTokens, srvDefault, age>>
storeVars == <<stored, row>>
vars == <<serverVars, identity, storeVars, authMu, pc, call, outcome>>

Kinds == {"sync", "default", "revoke", "request"}

\* Labels at which a request with a bearer token is in flight.
Requests == {"list", "key", "items", "create", "revoke", "request"}

\* state: the identity state read, and then saved, by login, refresh or the body.
\* failed: failedToken.  token: the token of the request.  next: the label after
\* ensureAuthenticated, or after a save.  namespace: the default namespace as this
\* body knows it.  tolerant: an error is ignored, as refresh errors are.  A variable
\* that is no longer used is reset.
NoState == [token |-> NoToken, default |-> NoNamespace]

NewCall(kind) ==
    [kind |-> kind, tries |-> 1, next |-> "begin", failed |-> NoToken, state |-> NoState,
     token |-> NoToken, namespace |-> NoNamespace, tolerant |-> FALSE]

Goto(t, label) == pc' = [pc EXCEPT ![t] = label]

\* The call returns to the app.
Finish(t, result) ==
    /\ Goto(t, "idle")
    /\ call' = [call EXCEPT ![t] = NewCall("request")]
    /\ outcome' = [outcome EXCEPT ![t] = result]

Release(t) == authMu' = IF authMu = t THEN Nobody ELSE authMu

Accepted(t, label) == pc[t] = label /\ call[t].token \in srvTokens

\* The server issues a token.
Issue(accepted) ==
    /\ age' = Append(age, "valid")
    /\ srvTokens' = accepted \cup {Len(age) + 1}

-----------------------------------------------------------------------------
(* Obtaining a token *)

Call(t, kind) ==
    /\ pc[t] = "idle"
    /\ Goto(t, "ensure")
    /\ call' = [call EXCEPT ![t] = NewCall(kind)]
    /\ outcome' = [outcome EXCEPT ![t] = "none"]
    /\ UNCHANGED <<serverVars, identity, storeVars, authMu>>

\* ensureAuthenticated, up to its first request, once it has authMu.
Authenticate(t) ==
    /\ pc[t] = "ensure"
    /\ LET needsLogin == identity.token = NoToken \/ age[identity.token] = "expired"
           needsRefresh == ~needsLogin /\ age[identity.token] = "skew"
       IN /\ Goto(t, IF needsLogin THEN "login"
                     ELSE IF needsRefresh THEN "snapshot" ELSE call[t].next)
          /\ authMu' = IF needsLogin \/ needsRefresh THEN t ELSE authMu
    /\ UNCHANGED <<serverVars, identity, storeVars, call, outcome>>

\* Seeded bug: ensureAuthenticated does not wait for authMu.
AuthenticateUnlocked(t) == Authenticate(t)

EnsureAuthenticated(t) == authMu = Nobody /\ Authenticate(t)

\* The login response carries the default namespace when there is one.
Login(t) ==
    /\ pc[t] = "login"
    /\ Issue(srvTokens)
    /\ call' = [call EXCEPT ![t].state = [token |-> Len(age) + 1, default |-> srvDefault],
                            ![t].next = IF @ = "login" THEN "run" ELSE @]
    /\ Goto(t, "persist")
    /\ UNCHANGED <<srvDefault, identity, storeVars, authMu, outcome>>

\* Seeded bug: a failed login returns without giving authMu back.
LoginFailsLocked(t) ==
    /\ pc[t] = "login"
    /\ Finish(t, "error")
    /\ UNCHANGED <<serverVars, identity, storeVars, authMu>>

LoginFails(t) ==
    /\ pc[t] = "login"
    /\ Release(t)
    /\ Finish(t, "error")
    /\ UNCHANGED <<serverVars, identity, storeVars>>

\* refresh takes a snapshot of its own.
RefreshSnapshot(t) ==
    /\ pc[t] = "snapshot"
    /\ call' = [call EXCEPT ![t].state = identity, ![t].tolerant = TRUE]
    /\ Goto(t, "refresh")
    /\ UNCHANGED <<serverVars, identity, storeVars, authMu, outcome>>

\* The server may or may not go on accepting the token that was refreshed.
Refresh(t) ==
    /\ pc[t] = "refresh" /\ call[t].state.token \in srvTokens
    /\ \/ Issue(srvTokens)
       \/ Issue(srvTokens \ {call[t].state.token})
    /\ call' = [call EXCEPT ![t].state.token = Len(age) + 1]
    /\ Goto(t, "persist")
    /\ UNCHANGED <<srvDefault, identity, storeVars, authMu, outcome>>

\* Refreshing is proactive: the call goes on with the token it has.
GoOnUnrefreshed(t) ==
    /\ Release(t)
    /\ call' = [call EXCEPT ![t].tolerant = FALSE, ![t].state = NoState]
    /\ Goto(t, call[t].next)
    /\ UNCHANGED <<serverVars, identity, storeVars, outcome>>

RefreshFails(t) == pc[t] = "refresh" /\ GoOnUnrefreshed(t)

RefreshRefused(t) == call[t].state.token \notin srvTokens /\ RefreshFails(t)

-----------------------------------------------------------------------------
(* saveIdentityState: the store first, then the snapshot in memory *)

Persist(t) ==
    /\ pc[t] = "persist"
    /\ stored' = call[t].state
    /\ Goto(t, "publish")
    /\ UNCHANGED <<serverVars, identity, row, authMu, call, outcome>>

\* authMu is given back unless the save is the one before a new login.
Publish(t) ==
    /\ pc[t] = "publish"
    /\ identity' = call[t].state
    /\ IF call[t].next = "login" THEN UNCHANGED authMu ELSE Release(t)
    /\ IF call[t].next = "ok"
       THEN Finish(t, "ok")
       ELSE /\ Goto(t, call[t].next)
            /\ call' = [call EXCEPT ![t].tolerant = FALSE, ![t].state = NoState]
            /\ UNCHANGED outcome
    /\ UNCHANGED <<serverVars, storeVars>>

SaveFails(t) ==
    /\ pc[t] = "persist"
    /\ IF call[t].tolerant
       THEN GoOnUnrefreshed(t)
       ELSE Release(t) /\ Finish(t, "error") /\ UNCHANGED <<serverVars, identity, storeVars>>

-----------------------------------------------------------------------------
(* runAuthenticated around the body *)

Begin(t) ==
    /\ pc[t] = "begin"
    /\ call' = [call EXCEPT ![t].failed = identity.token, ![t].state = NoState]
    /\ Goto(t, "run")
    /\ UNCHANGED <<serverVars, identity, storeVars, authMu, outcome>>

\* The body takes its own snapshot.
Run(t) ==
    /\ pc[t] = "run"
    /\ call' = [call EXCEPT ![t].state = identity, ![t].token = identity.token,
                            ![t].namespace = identity.default]
    /\ Goto(t, CASE call[t].kind = "sync" -> "list"
                 [] call[t].kind = "default" ->
                      IF identity.default = NoNamespace THEN "create" ELSE "ready"
                 [] call[t].kind = "revoke" -> "revoke"
                 [] OTHER -> "request")
    /\ UNCHANGED <<serverVars, identity, storeVars, authMu, outcome>>

\* Seeded bug: every 401 leads to another login.
RejectedForever(t) ==
    /\ pc[t] \in Requests /\ call[t].token \notin srvTokens
    /\ Goto(t, "reauth")
    /\ UNCHANGED <<serverVars, identity, storeVars, authMu, call, outcome>>

\* Status 401: the first one leads to a new login, the second one to the app.
Rejected(t) ==
    /\ pc[t] \in Requests /\ call[t].token \notin srvTokens
    /\ IF call[t].tries = 1
       THEN Goto(t, "reauth") /\ UNCHANGED <<call, outcome>>
       ELSE Finish(t, "unauthorized")
    /\ UNCHANGED <<serverVars, identity, storeVars, authMu>>

\* Seeded bug: the retry starts at once, without replacing the token.
ReauthenticateNot(t) ==
    /\ pc[t] = "reauth" /\ authMu = Nobody
    /\ call' = [call EXCEPT ![t].tries = @ + 1, ![t].failed = NoToken, ![t].token = NoToken]
    /\ Goto(t, "run")
    /\ UNCHANGED <<serverVars, identity, storeVars, authMu, outcome>>

\* reauthenticateAfterUnauthorized: keep a newer token, or clear the token and,
\* holding authMu throughout, log in.
Reauthenticate(t) ==
    LET newer == /\ call[t].failed # NoToken
                 /\ identity.token \notin {NoToken, call[t].failed}
    IN /\ pc[t] = "reauth" /\ authMu = Nobody
       /\ authMu' = IF newer THEN Nobody ELSE t
       /\ call' = [call EXCEPT ![t].tries = @ + 1, ![t].failed = NoToken, ![t].token = NoToken,
                               ![t].state = [identity EXCEPT !.token = NoToken],
                               ![t].next = IF newer THEN "run" ELSE "login"]
       /\ Goto(t, IF newer THEN "run" ELSE "persist")
       /\ UNCHANGED <<serverVars, identity, storeVars, outcome>>

\* A request fails in any other way, whether or not it reached the server, or the
\* store does.
BodyFails(t) ==
    /\ pc[t] \in Requests \cup {"check", "work", "checkpoint", "flush", "ready", "row"}
    /\ Finish(t, "error")
    /\ UNCHANGED <<serverVars, identity, storeVars, authMu>>

-----------------------------------------------------------------------------
(* ListNamespaces, and the pull and the flush of SyncNow: syncNamespaces *)

ListAccepted(t) ==
    /\ Accepted(t, "list")
    /\ call' = [call EXCEPT ![t].namespace = srvDefault, ![t].token = NoToken]
    /\ Goto(t, "check")
    /\ UNCHANGED <<serverVars, identity, storeVars, authMu, outcome>>

\* The default namespace this device knows must be among the ones listed.  One
\* without a local key is joined first.
Disappeared(t) ==
    \/ call[t].state.default \notin {NoNamespace, call[t].namespace}
    \/ row.id \notin {NoNamespace, call[t].namespace}

Check(t) ==
    /\ pc[t] = "check"
    /\ IF Disappeared(t) THEN Finish(t, "rollback")
       ELSE IF call[t].namespace = NoNamespace
       THEN Goto(t, "flush") /\ UNCHANGED <<call, outcome>>
       ELSE /\ Goto(t, IF row.key = NoNamespace THEN "join" ELSE "work")
            /\ UNCHANGED <<call, outcome>>
    /\ UNCHANGED <<serverVars, identity, storeVars, authMu>>

\* Later requests of a body use the token that is current by then: one request
\* stands for the item requests of a namespace, one for the uploads.
SendRequest(t, from, request) ==
    /\ pc[t] = from
    /\ call' = [call EXCEPT ![t].token = identity.token]
    /\ Goto(t, request)
    /\ UNCHANGED <<serverVars, identity, storeVars, authMu, outcome>>

Join(t) == SendRequest(t, "join", "key")

GetItems(t) == SendRequest(t, "work", "items")

Upload(t) == SendRequest(t, "flush", "request")

Proceed(t, from, label) ==
    /\ pc[t] = from
    /\ call' = [call EXCEPT ![t].token = NoToken]
    /\ Goto(t, label)
    /\ UNCHANGED <<serverVars, identity, storeVars, authMu, outcome>>

NothingToFetch(t) == Proceed(t, "work", "checkpoint")

KeyAccepted(t) == Accepted(t, "key") /\ Proceed(t, "key", "row")

ItemsAccepted(t) == Accepted(t, "items") /\ Proceed(t, "items", "checkpoint")

\* SaveNamespace, with the key the server holds for the namespace.
SaveNamespace(t) == row' = [id |-> call[t].namespace, key |-> call[t].namespace]

\* The row is saved with the new head, and a default namespace that was not known
\* when the body began is saved into the identity state of that time.
SaveCheckpoint(t) ==
    /\ pc[t] = "checkpoint"
    /\ SaveNamespace(t)
    /\ IF call[t].state.default = NoNamespace
       THEN /\ call' = [call EXCEPT ![t].state.default = call[t].namespace, ![t].next = "flush"]
            /\ Goto(t, "persist")
       ELSE Goto(t, "flush") /\ UNCHANGED call
    /\ UNCHANGED <<serverVars, identity, stored, authMu, outcome>>

Done(t, from) ==
    /\ pc[t] = from
    /\ Finish(t, "ok")
    /\ UNCHANGED <<serverVars, identity, storeVars, authMu>>

NothingToUpload(t) == Done(t, "flush")

-----------------------------------------------------------------------------
(* DefaultNamespace and Engine.Login: defaultNamespace *)

\* The server creates the proposed namespace unless the identity has one.
Created(t) == IF srvDefault = NoNamespace THEN t ELSE srvDefault

CreateDefault(t, adopted) ==
    /\ Accepted(t, "create")
    /\ srvDefault' = Created(t)
    /\ call' = [call EXCEPT ![t].namespace = adopted, ![t].state.default = adopted,
                            ![t].token = NoToken, ![t].next = "row"]
    /\ Goto(t, "persist")
    /\ UNCHANGED <<srvTokens, age, identity, storeVars, authMu, outcome>>

\* Seeded bug: the proposed ID is kept whatever the server answers.
EnsureDefaultNamespaceProposed(t) == CreateDefault(t, t)

EnsureDefaultNamespace(t) == CreateDefault(t, Created(t))

\* The namespace is created and the response is lost.
EnsureDefaultNamespaceLost(t) ==
    /\ Accepted(t, "create")
    /\ srvDefault' = Created(t)
    /\ Finish(t, "error")
    /\ UNCHANGED <<srvTokens, age, identity, storeVars, authMu>>

\* ensureNamespaceReady for a default namespace that is known.
Ready(t) ==
    /\ pc[t] = "ready"
    /\ IF row.id = call[t].namespace /\ row.key # NoNamespace
       THEN Finish(t, "ok")
       ELSE /\ call' = [call EXCEPT ![t].next = "join", ![t].state = NoState]
            /\ Goto(t, "ensure")
            /\ UNCHANGED outcome
    /\ UNCHANGED <<serverVars, identity, storeVars, authMu>>

\* The end of joinNamespace and of defaultNamespace.
SaveRow(t) ==
    /\ pc[t] = "row"
    /\ SaveNamespace(t)
    /\ IF call[t].kind = "sync"
       THEN Goto(t, "work") /\ UNCHANGED <<call, outcome>>
       ELSE Finish(t, "ok")
    /\ UNCHANGED <<serverVars, identity, stored, authMu>>

-----------------------------------------------------------------------------
(* RevokeAllTokens, and calls that make one request and save nothing *)

RevokeAllTokens(t) ==
    /\ Accepted(t, "revoke")
    /\ srvTokens' = {}
    /\ call' = [call EXCEPT ![t].state.token = NoToken, ![t].token = NoToken,
                            ![t].next = "ok"]
    /\ Goto(t, "persist")
    /\ UNCHANGED <<srvDefault, age, identity, storeVars, authMu, outcome>>

RevokeAllTokensLost(t) ==
    /\ Accepted(t, "revoke")
    /\ srvTokens' = {}
    /\ Finish(t, "error")
    /\ UNCHANGED <<srvDefault, age, identity, storeVars, authMu>>

RequestAccepted(t) == Accepted(t, "request") /\ Done(t, "request")

-----------------------------------------------------------------------------
(* The environment *)

NoRow == [id |-> NoNamespace, key |-> NoNamespace]

AllIdle == [t \in Callers |-> "idle"]
NoCalls == [t \in Callers |-> NewCall("request")]
NoOutcomes == [t \in Callers |-> "none"]

\* The process dies and the app opens the engine again, which loads the identity,
\* perhaps after ForgetIdentitySecrets has removed the token and the key.
Restart(forget) ==
    /\ stored' = IF forget THEN [stored EXCEPT !.token = NoToken] ELSE stored
    /\ row' = IF forget THEN [row EXCEPT !.key = NoNamespace] ELSE row
    /\ identity' = stored'
    /\ authMu' = Nobody /\ pc' = AllIdle /\ call' = NoCalls /\ outcome' = NoOutcomes
    /\ UNCHANGED serverVars

\* The app resets the store under a running engine.
ResetSyncState ==
    /\ row' = NoRow
    /\ stored' = [stored EXCEPT !.default = NoNamespace]
    /\ UNCHANGED <<serverVars, identity, authMu, pc, call, outcome>>

OtherDeviceCreates ==
    /\ srvDefault = NoNamespace
    /\ srvDefault' = Other
    /\ UNCHANGED <<srvTokens, age, identity, storeVars, authMu, pc, call, outcome>>

ServerDrops(token) ==
    /\ token \in srvTokens
    /\ srvTokens' = srvTokens \ {token}
    /\ UNCHANGED <<srvDefault, age, identity, storeVars, authMu, pc, call, outcome>>

Age(token) ==
    /\ token \in DOMAIN age /\ age[token] # "expired"
    /\ age' = [age EXCEPT ![token] = IF @ = "valid" THEN "skew" ELSE "expired"]
    /\ UNCHANGED <<srvTokens, srvDefault, identity, storeVars, authMu, pc, call, outcome>>

-----------------------------------------------------------------------------
Init ==
    /\ srvTokens = {} /\ age = <<>>
    /\ srvDefault \in {NoNamespace, Other}
    /\ identity = [token |-> NoToken, default |-> NoNamespace]
    /\ stored = identity
    /\ row = NoRow
    /\ authMu = Nobody /\ pc = AllIdle /\ call = NoCalls /\ outcome = NoOutcomes

\* Steps of the engine that need no cause.
Step(t) ==
    \/ Login(t) \/ RefreshSnapshot(t) \/ Refresh(t) \/ RefreshRefused(t)
    \/ Persist(t) \/ Publish(t)
    \/ Begin(t) \/ Run(t) \/ Rejected(t)
    \/ ListAccepted(t) \/ Check(t) \/ Join(t) \/ KeyAccepted(t)
    \/ GetItems(t) \/ NothingToFetch(t) \/ ItemsAccepted(t) \/ SaveCheckpoint(t)
    \/ Upload(t) \/ NothingToUpload(t)
    \/ EnsureDefaultNamespace(t) \/ Ready(t) \/ SaveRow(t)
    \/ RevokeAllTokens(t) \/ RequestAccepted(t)

LockStep(t) == EnsureAuthenticated(t) \/ Reauthenticate(t)

CallStep(t) == \E kind \in Kinds \ {"revoke"} : Call(t, kind)

RevokeStep(t) == Call(t, "revoke")

CallFails(t) ==
    \/ LoginFails(t) \/ RefreshFails(t) \/ SaveFails(t) \/ BodyFails(t)
    \/ EnsureDefaultNamespaceLost(t) \/ RevokeAllTokensLost(t)

FaultStep ==
    \/ \E t \in Callers : CallFails(t)
    \/ \E forget \in BOOLEAN : Restart(forget)
    \/ ResetSyncState

DropStep == \E token \in srvTokens : ServerDrops(token)

AgeStep == \E token \in DOMAIN age : Age(token)

Next ==
    \/ \E t \in Callers : Step(t) \/ LockStep(t) \/ CallStep(t) \/ RevokeStep(t)
    \/ FaultStep \/ DropStep \/ AgeStep \/ OtherDeviceCreates

Spec == Init /\ [][Next]_vars

-----------------------------------------------------------------------------
(* Properties *)

AuthLabels == {"login", "snapshot", "refresh"}
BodyLabels == {"run", "check", "join", "work", "flush", "checkpoint", "ready", "row"}
Labels == {"idle", "ensure", "begin", "reauth", "persist", "publish"}
            \cup AuthLabels \cup BodyLabels \cup Requests
IdentityStates == [token : Nat, default : Namespaces \cup {NoNamespace}]
CallRecords ==
    [kind : Kinds, tries : {1, 2},
     next : {"begin", "run", "login", "join", "flush", "row", "ok"},
     failed : Nat, state : IdentityStates, token : Nat,
     namespace : Namespaces \cup {NoNamespace}, tolerant : BOOLEAN]

\* Every variable has its type; every token in use has been issued.
TypeOK ==
    /\ age \in Seq({"valid", "skew", "expired"})
    /\ srvTokens \subseteq 1..Len(age)
    /\ srvDefault \in Namespaces \cup {NoNamespace}
    /\ identity \in IdentityStates /\ identity.token <= Len(age)
    /\ stored \in IdentityStates /\ stored.token <= Len(age)
    /\ row \in [id : Namespaces \cup {NoNamespace}, key : Namespaces \cup {NoNamespace}]
    /\ authMu \in Callers \cup {Nobody}
    /\ pc \in [Callers -> Labels]
    /\ call \in [Callers -> CallRecords]
    /\ \A t \in Callers : call[t].state.token <= Len(age)
    /\ outcome \in [Callers -> {"none", "ok", "unauthorized", "rollback", "error"}]

\* What login, refresh and reauthenticateAfterUnauthorized save under authMu is
\* never older than what another of them has obtained meanwhile: the token they
\* are about to store is the newest one issued, or none.
LoginsInOrder ==
    \A t \in Callers :
        authMu = t /\ pc[t] \in {"persist", "publish"} =>
            call[t].state.token \in {NoToken, Len(age)}

\* However many callers and devices create the default namespace at once, this
\* device ends up with the ID and the key of the one the server has, in memory,
\* in the identity row and in the namespace row.
OneDefaultNamespace ==
    {identity.default, stored.default, row.id, row.key} \subseteq {NoNamespace, srvDefault}
=============================================================================

------------------------------- MODULE Invites -------------------------------
(***************************************************************************)
(* Membership of shared namespaces: how a device comes to hold the key of  *)
(* a namespace, by creating it or by a join request that a member approves *)
(* for it, and what it records of the namespace.                           *)
(*                                                                         *)
(* Goroutines of several devices make requests to one server.  Time passes *)
(* and others act between the verification of a join request and the       *)
(* server's decision, between a row that is read and the row that is saved *)
(* and between a request and the loss of its response.                     *)
(*                                                                         *)
(* Obtaining bearer tokens, and the one retry after a 401, which runs the  *)
(* body of a call again from its first request, are in AuthSession.        *)
(***************************************************************************)
EXTENDS Integers

CONSTANTS
    Devices,            \* identities, each with one store
    Callers,            \* goroutines that call the engine of a device
    DeviceOf,           \* the device of each caller
    Namespaces,         \* namespace IDs, drawn at random by whoever creates one
    Shared,             \* those that are shared; the others are default namespaces
    Creator,            \* the device that draws, or has created, a namespace
    InviteIDs,          \* invite IDs, drawn together with their secrets
    Drawer,             \* the device that draws an invite ID
    MaxInviteTTL,       \* protocol.MaxInviteTTL
    MaxJoinRequestTTL,  \* protocol.MaxJoinRequestTTL
    None                \* a missing key, wrapped key, invite or request

ASSUME DeviceAssumption ==
    /\ DeviceOf \in [Callers -> Devices]
    /\ Shared \subseteq Namespaces
    /\ Creator \in [Namespaces -> Devices]
    /\ Drawer \in [InviteIDs -> Devices]

ASSUME TimeAssumption == MaxInviteTTL \in Nat /\ MaxJoinRequestTTL \in Nat

VARIABLES
    now,        \* the time
    wrapped,    \* server: the wrapped key of each member of each namespace
    invites,    \* server: the invites
    pending,    \* server: the join request of each device for each namespace
    rows,       \* the namespace rows in each device's store
    handles,    \* the Namespace values each app has been given
    tokens,     \* the invite tokens the apps have shown and scanned
    listed,     \* what the last JoinRequests call of each app returned
    pc,         \* where each caller is
    call        \* local variables of each caller

serverVars == <<wrapped, invites, pending>>
appVars == <<handles, tokens, listed>>
callVars == <<pc, call>>
vars == <<now, serverVars, rows, appVars, callVars>>

Kind(n) == IF n \in Shared THEN "shared" ELSE "default"

Kinds == {"", "default", "shared"}

\* The key of a namespace is drawn with it, and named after it.
Row == [key : Namespaces \cup {None}, kind : Kinds]

\* There is no row.
NoRow == [key |-> None, kind |-> "none"]

\* HPKE: only the device a key is wrapped for can unwrap it, and it finds in it
\* the namespace the key was wrapped for.
WrapNamespaceDEK(n, key, recipient) == [namespace |-> n, key |-> key, recipient |-> recipient]

UnwrapsNamespaceDEK(d, n, w) == w # None /\ w.recipient = d /\ w.namespace = n

WrappedDEKs == [namespace : Namespaces, key : Namespaces \cup {None}, recipient : Devices]

\* What the server keeps of an invite.
InviteRecords == [namespace : Namespaces, expiresAt : Int, revoked : BOOLEAN]

ASSUME NoneAssumption == None \notin Namespaces \cup InviteRecords \cup WrappedDEKs

\* An invite ID stands for the secret drawn with it.
InviteTokens == [namespace : Namespaces, invite : InviteIDs, expiresAt : Int]

\* key: the key ID and authentication key of the requester, wrap: its wrapping key.
\* A payload stands for its hash.
JoinRequestPayloads ==
    [namespace : Namespaces, invite : InviteIDs, key : Devices, wrap : Devices, expiresAt : Int]

JoinRequest(d, token, x) ==
    [namespace |-> token.namespace, invite |-> token.invite, key |-> d, wrap |-> d,
     expiresAt |-> x]

\* An entry of a listing.  sealed: the payload that was signed and proved.
Entries == [request : JoinRequestPayloads, hash : JoinRequestPayloads,
            sealed : JoinRequestPayloads]

\* Local variables of a call.  hint: the expected kind of the namespace.  row: a row
\* to be saved.  todo: namespaces a pass has still to visit.
NewCall(kind) ==
    [kind |-> kind, namespace |-> None, hint |-> "", row |-> NoRow, todo |-> {},
     token |-> None, request |-> None, wrapped |-> None]

Goto(t, label) == pc' = [pc EXCEPT ![t] = label]

\* The call returns, with or without an error.
Finish(t) == Goto(t, "idle") /\ call' = [call EXCEPT ![t] = NewCall("open")]

Start(t, label, c) == pc[t] = "idle" /\ Goto(t, label) /\ call' = [call EXCEPT ![t] = c]

Member(n, d) == wrapped[n][d] # None

\* An invite through which requests are accepted, a request that can be decided.
Open(i) == invites[i] # None /\ ~invites[i].revoked /\ invites[i].expiresAt > now

Active(request) == request # None /\ request.expiresAt > now

SaveNamespace(d, n, row) == rows' = [rows EXCEPT ![d][n] = row]

GiveHandle(d, n) == handles' = [handles EXCEPT ![d] = @ \cup {n}]

-----------------------------------------------------------------------------
(* Creating a shared namespace *)

NoMembers == [d \in Devices |-> None]

\* Seeded bug: the row is saved before the server has the namespace.
CreateSharedUnasked(t, n) ==
    /\ n \in Shared /\ Creator[n] = DeviceOf[t]
    /\ wrapped[n] = NoMembers /\ \A u \in Callers : call[u].namespace # n
    /\ Start(t, "saveCreated", [NewCall("open") EXCEPT !.namespace = n])
    /\ UNCHANGED <<now, serverVars, rows, appVars>>

\* The ID is random: nobody has it, and nobody else is about to have it.
CreateSharedNamespace(t, n) ==
    /\ n \in Shared /\ Creator[n] = DeviceOf[t]
    /\ wrapped[n] = NoMembers /\ \A u \in Callers : call[u].namespace # n
    /\ Start(t, "create", [NewCall("open") EXCEPT !.namespace = n])
    /\ UNCHANGED <<now, serverVars, rows, appVars>>

AddMember(n, d, w) == wrapped' = [wrapped EXCEPT ![n][d] = w]

CreateAccepted(t) ==
    LET n == call[t].namespace
    IN /\ pc[t] = "create" /\ wrapped[n] = NoMembers
       /\ AddMember(n, DeviceOf[t], WrapNamespaceDEK(n, n, DeviceOf[t]))
       /\ UNCHANGED <<now, invites, pending, rows, appVars>>

CreateSharedAccepted(t) == CreateAccepted(t) /\ Goto(t, "saveCreated") /\ UNCHANGED call

CreateSharedLost(t) == CreateAccepted(t) /\ Finish(t)

SaveCreated(t) ==
    LET n == call[t].namespace
    IN /\ pc[t] = "saveCreated"
       /\ SaveNamespace(DeviceOf[t], n, [key |-> n, kind |-> "shared"])
       /\ GiveHandle(DeviceOf[t], n)
       /\ Finish(t)
       /\ UNCHANGED <<now, serverVars, tokens, listed>>

-----------------------------------------------------------------------------
(* Obtaining the key of a namespace *)

\* What a call does once its namespace is ready: it returns a handle, draws an
\* invite, or wraps the key for the requester.
Proceed(t, c, row) ==
    \/ /\ c.kind = "open"
       /\ GiveHandle(DeviceOf[t], c.namespace)
       /\ Finish(t)
    \/ /\ c.kind = "invite"
       /\ Goto(t, "draw") /\ call' = [call EXCEPT ![t] = c]
       /\ UNCHANGED handles
    \/ /\ c.kind = "approve"
       /\ Goto(t, "approve")
       /\ call' = [call EXCEPT ![t] =
            [c EXCEPT !.wrapped = WrapNamespaceDEK(c.namespace, row.key, c.request.wrap)]]
       /\ UNCHANGED handles

\* A row of another kind than expected is an error.
Ready(t, c, row) ==
    \/ c.hint \in {"", row.kind} /\ Proceed(t, c, row)
    \/ c.hint \notin {"", row.kind} /\ Finish(t) /\ UNCHANGED handles

\* ensureNamespaceReady joins a namespace whose key is not in the store.
EnsureNamespaceReady(t, c) ==
    LET row == rows[DeviceOf[t]][c.namespace]
    IN /\ pc[t] = "idle"
       /\ \/ row.key # None /\ Ready(t, c, row)
          \/ row.key = None /\ Start(t, "key", c) /\ UNCHANGED handles
       /\ UNCHANGED <<now, serverVars, rows, tokens, listed>>

\* Engine.Namespace and Engine.JoinNamespace expect no kind.
OpenCall(n) == [NewCall("open") EXCEPT !.namespace = n]

Namespace(t, n) == EnsureNamespaceReady(t, OpenCall(n))

JoinNamespace(t, n) ==
    Start(t, "key", OpenCall(n)) /\ UNCHANGED <<now, serverVars, rows, appVars>>

\* Seeded bug: a missing row is not given the expected kind.
JoinedUnnamed(row, key, hint) ==
    [key |-> key, kind |-> IF row.kind = "" THEN hint ELSE row.kind]

\* The row joinNamespace saves.
JoinedRow(row, key, hint) ==
    [key |-> key, kind |-> IF row.kind \in {"none", ""} THEN hint ELSE row.kind]

\* The response of GetWrappedDEK, and the row that is read after it.
WrappedDEKReceived(t) ==
    LET d == DeviceOf[t]
        n == call[t].namespace
        w == wrapped[n][d]
    IN /\ pc[t] = "key" /\ UnwrapsNamespaceDEK(d, n, w)
       /\ call' = [call EXCEPT ![t].row = JoinedRow(rows[d][n], w.key, call[t].hint)]
       /\ Goto(t, "saveJoined")
       /\ UNCHANGED <<now, serverVars, rows, appVars>>

SaveJoined(t) ==
    LET c == call[t]
    IN /\ pc[t] = "saveJoined"
       /\ SaveNamespace(DeviceOf[t], c.namespace, c.row)
       /\ \/ c.kind = "sync" /\ Goto(t, "saveRow") /\ UNCHANGED <<call, handles>>
          \/ c.kind # "sync" /\ Ready(t, c, c.row)
       /\ UNCHANGED <<now, serverVars, tokens, listed>>

-----------------------------------------------------------------------------
(* What a pass does for namespace keys and kinds *)

ListNamespaces(t) ==
    /\ Start(t, "list", [NewCall("sync") EXCEPT
                            !.todo = {n \in Namespaces : Member(n, DeviceOf[t])}])
    /\ UNCHANGED <<now, serverVars, rows, appVars>>

\* The rows are read after the response.  One that it does not name, saved since by a
\* call of the app, ends the pass with an error.
ListLocal(t) ==
    LET known == {n \in Namespaces : rows[DeviceOf[t]][n] # NoRow}
    IN /\ pc[t] = "list"
       /\ \/ known \subseteq call[t].todo /\ Goto(t, "visit") /\ UNCHANGED call
          \/ ~(known \subseteq call[t].todo) /\ Finish(t)
       /\ UNCHANGED <<now, serverVars, rows, appVars>>

\* Seeded bug: a pass leaves the recorded kind as it is.
ListedKind(row, n) == row

ListedRow(row, n) == [row EXCEPT !.kind = Kind(n)]

Visit(t, n) ==
    LET row == rows[DeviceOf[t]][n]
        c == [call[t] EXCEPT !.namespace = n, !.hint = Kind(n)]
    IN /\ pc[t] = "visit" /\ n \in call[t].todo
       /\ \/ row.key = None /\ Goto(t, "key") /\ call' = [call EXCEPT ![t] = c]
          \/ /\ row.key # None /\ Goto(t, "saveRow")
             /\ call' = [call EXCEPT ![t] = [c EXCEPT !.row = ListedRow(row, n)]]
       /\ UNCHANGED <<now, serverVars, rows, appVars>>

\* The head and the scope saved in the same row are in SyncEngine.
SaveRow(t) ==
    LET c == call[t]
    IN /\ pc[t] = "saveRow"
       /\ SaveNamespace(DeviceOf[t], c.namespace, c.row)
       /\ Goto(t, "visit")
       /\ call' = [call EXCEPT ![t] = [NewCall("sync") EXCEPT !.todo = c.todo \ {c.namespace}]]
       /\ UNCHANGED <<now, serverVars, appVars>>

PassEnds(t) ==
    /\ pc[t] = "visit" /\ call[t].todo = {}
    /\ Finish(t)
    /\ UNCHANGED <<now, serverVars, rows, appVars>>

-----------------------------------------------------------------------------
(* Invites *)

CreateInvite(t, n) ==
    /\ n \in handles[DeviceOf[t]]
    /\ EnsureNamespaceReady(t, [NewCall("invite") EXCEPT !.namespace = n, !.hint = "shared"])

\* A fresh invite ID and secret, or the app's own, which it may use again after an
\* error.
DrawInvite(t, i, ttl) ==
    /\ pc[t] = "draw" /\ Drawer[i] = DeviceOf[t] /\ ttl \in 1..MaxInviteTTL
    /\ call' = [call EXCEPT ![t].token =
         [namespace |-> call[t].namespace, invite |-> i, expiresAt |-> now + ttl]]
    /\ Goto(t, "invite")
    /\ UNCHANGED <<now, serverVars, rows, appVars>>

NewInvite(token) ==
    [namespace |-> token.namespace, expiresAt |-> token.expiresAt, revoked |-> FALSE]

\* The server stores an invite for a member, or answers with the one it has.
InviteStored(t) ==
    LET token == call[t].token
    IN /\ pc[t] = "invite"
       /\ token.namespace \in Shared /\ Member(token.namespace, DeviceOf[t])
       /\ \/ /\ invites[token.invite] = None
             /\ invites' = [invites EXCEPT ![token.invite] = NewInvite(token)]
          \/ /\ invites[token.invite] # None
             /\ invites[token.invite].namespace = token.namespace
             /\ UNCHANGED invites
       /\ UNCHANGED <<now, wrapped, pending, rows, handles, listed>>

\* Seeded bug: the expiry in the response is not compared with the requested one.
InviteAnswered(token) == tokens' = tokens \cup {token}

\* An expiry that is not the requested one is an error.
InviteConfirmed(token) ==
    tokens' = IF invites'[token.invite].expiresAt = token.expiresAt
              THEN tokens \cup {token} ELSE tokens

InviteCreated(t) == InviteStored(t) /\ InviteConfirmed(call[t].token) /\ Finish(t)

InviteLost(t) == InviteStored(t) /\ Finish(t) /\ UNCHANGED tokens

RevokeInvite(t, n, i) ==
    /\ pc[t] = "idle" /\ n \in handles[DeviceOf[t]] /\ Member(n, DeviceOf[t])
    /\ invites[i] # None /\ invites[i].namespace = n
    /\ invites' = [invites EXCEPT ![i].revoked = TRUE]
    /\ UNCHANGED <<now, wrapped, pending, rows, appVars, callVars>>

-----------------------------------------------------------------------------
(* Join requests *)

\* Seeded bug: the expiry is not capped by the invite's.
JoinRequestExpiriesUncapped(token) == (now + 1)..(now + MaxJoinRequestTTL)

\* The expiries the options allow: in the future, within the maximum TTL, and not
\* after the invite.
JoinRequestExpiries(token) == {x \in (now + 1)..(now + MaxJoinRequestTTL) : x <= token.expiresAt}

SubmitJoinRequest(t, token, x) ==
    /\ token \in tokens /\ x \in JoinRequestExpiries(token)
    /\ Start(t, "submit", [NewCall("open") EXCEPT
                             !.request = JoinRequest(DeviceOf[t], token, x)])
    /\ UNCHANGED <<now, serverVars, rows, appVars>>

\* The server stores the request, or answers with the one that is pending.  The
\* requester keeps nothing of the answer.
JoinRequestStored(t) ==
    LET request == call[t].request
    IN /\ pc[t] = "submit" /\ Open(request.invite) /\ Active(request)
       /\ pending' = IF Active(pending[request.namespace][request.key]) THEN pending
                     ELSE [pending EXCEPT ![request.namespace][request.key] = request]
       /\ Finish(t)
       /\ UNCHANGED <<now, wrapped, invites, rows, appVars>>

Entry(request) == [request |-> request, hash |-> request, sealed |-> request]

JoinRequests(t, n) ==
    LET d == DeviceOf[t]
    IN /\ pc[t] = "idle" /\ n \in handles[d] /\ Member(n, d)
       /\ listed' = [listed EXCEPT ![d] =
                       {Entry(pending[n][r]) : r \in {x \in Devices : Active(pending[n][x])}}]
       /\ UNCHANGED <<now, serverVars, rows, handles, tokens, callVars>>

\* A record in which the wrapping key may have been damaged.
Damaged(request) == {[request EXCEPT !.wrap = d] : d \in Devices}

\* The server shows such a record, with the hash it has stored or one it computes.
EntryDamaged(d, entry, record, hash) ==
    /\ entry \in listed[d] /\ record \in Damaged(entry.request) /\ hash \in {entry.hash, record}
    /\ listed' = [listed EXCEPT ![d] = (@ \ {entry}) \cup
                    {[request |-> record, hash |-> hash, sealed |-> entry.sealed]}]
    /\ UNCHANGED <<now, serverVars, rows, handles, tokens, callVars>>

\* Seeded bug: the hash, the signature and the proof are not looked at.
VerifiesMetadata(n, token, entry) ==
    /\ token.expiresAt > now
    /\ token.namespace = n /\ entry.request.namespace = n
    /\ entry.request.invite = token.invite
    /\ entry.request.expiresAt > now
    /\ entry.request.expiresAt <= token.expiresAt

\* verifyJoinRequestForApproval: the hash, the signature and the proof are those of
\* the request, and the proof was made with the invite's secret.
Verifies(n, token, entry) ==
    /\ VerifiesMetadata(n, token, entry)
    /\ entry.hash = entry.request
    /\ entry.sealed = entry.request
    /\ entry.sealed.invite = token.invite

ApproveJoinRequest(t, n, token, entry) ==
    /\ n \in handles[DeviceOf[t]] /\ token \in tokens /\ entry \in listed[DeviceOf[t]]
    /\ Verifies(n, token, entry)
    /\ EnsureNamespaceReady(t, [NewCall("approve") EXCEPT
            !.namespace = n, !.hint = "shared", !.request = entry.request])

\* The server finds the pending request by its key ID and its hash.
ApprovalAccepted(t) ==
    LET c == call[t]
        request == pending[c.namespace][c.request.key]
    IN /\ pc[t] = "approve" /\ Member(c.namespace, DeviceOf[t])
       /\ Active(request) /\ Open(request.invite) /\ c.request \in Damaged(request)
       /\ AddMember(c.namespace, c.request.key, c.wrapped)
       /\ pending' = [pending EXCEPT ![c.namespace][c.request.key] = None]
       /\ Finish(t)
       /\ UNCHANGED <<now, invites, rows, appVars>>

RejectJoinRequest(t, n, entry) ==
    LET d == entry.request.key
    IN /\ pc[t] = "idle" /\ n \in handles[DeviceOf[t]] /\ Member(n, DeviceOf[t])
       /\ entry \in listed[DeviceOf[t]]
       /\ Active(pending[n][d]) /\ entry.hash \in Damaged(pending[n][d])
       /\ pending' = [pending EXCEPT ![n][d] = None]
       /\ UNCHANGED <<now, wrapped, invites, rows, appVars, callVars>>

-----------------------------------------------------------------------------
(* Time and mishaps *)

Tick ==
    /\ now' = now + 1
    /\ UNCHANGED <<serverVars, rows, appVars, callVars>>

\* A request that the server refuses or does not get, a store that fails.
Fail(t) ==
    /\ pc[t] # "idle"
    /\ Finish(t)
    /\ UNCHANGED <<now, serverVars, rows, appVars>>

\* The app opens the engine again.  It keeps the invite tokens.
Restart(d) ==
    /\ pc' = [t \in Callers |-> IF DeviceOf[t] = d THEN "idle" ELSE pc[t]]
    /\ call' = [t \in Callers |-> IF DeviceOf[t] = d THEN NewCall("open") ELSE call[t]]
    /\ handles' = [handles EXCEPT ![d] = {}]
    /\ listed' = [listed EXCEPT ![d] = {}]
    /\ UNCHANGED <<now, serverVars, tokens>>

Crash(d) == Restart(d) /\ UNCHANGED rows

\* The repair step of the README, for which the engine is stopped and its handles
\* are dropped.
ResetSyncState(d) ==
    /\ Restart(d)
    /\ rows' = [rows EXCEPT ![d] = [n \in Namespaces |-> NoRow]]

\* The app disables sync.
ForgetIdentitySecrets(d) ==
    /\ rows' = [rows EXCEPT ![d] = [n \in Namespaces |-> [@[n] EXCEPT !.key = None]]]
    /\ UNCHANGED <<now, serverVars, appVars, callVars>>

-----------------------------------------------------------------------------
\* Default namespaces exist already; the store of their device may be new.
Init ==
    /\ now = 0
    /\ wrapped = [n \in Namespaces |->
                    [d \in Devices |-> IF n \in Shared \/ d # Creator[n] THEN None
                                       ELSE WrapNamespaceDEK(n, n, d)]]
    /\ invites = [i \in InviteIDs |-> None]
    /\ pending = [n \in Namespaces |-> [d \in Devices |-> None]]
    /\ rows = [d \in Devices |-> [n \in Namespaces |-> NoRow]]
    /\ handles = [d \in Devices |-> {}]
    /\ tokens = {}
    /\ listed = [d \in Devices |-> {}]
    /\ pc = [t \in Callers |-> "idle"]
    /\ call = [t \in Callers |-> NewCall("open")]

\* What a call does once it is under way.
CreateStep(t) == CreateSharedAccepted(t) \/ SaveCreated(t)

JoinStep(t) == WrappedDEKReceived(t) \/ SaveJoined(t)

PassStep(t) ==
    ListLocal(t) \/ (\E n \in Namespaces : Visit(t, n)) \/ SaveRow(t) \/ PassEnds(t)

InviteStep(t) ==
    (\E i \in InviteIDs, ttl \in 1..MaxInviteTTL : DrawInvite(t, i, ttl)) \/ InviteCreated(t)

RequestStep(t) == JoinRequestStored(t) \/ ApprovalAccepted(t)

Step(t) ==
    CreateStep(t) \/ JoinStep(t) \/ PassStep(t) \/ InviteStep(t) \/ RequestStep(t)

\* What an app calls.
OpenStep(t) ==
    \E n \in Namespaces : CreateSharedNamespace(t, n) \/ Namespace(t, n) \/ JoinNamespace(t, n)

OwnerStep(t) ==
    \E n \in Namespaces :
        \/ CreateInvite(t, n)
        \/ \E i \in InviteIDs : RevokeInvite(t, n, i)
        \/ JoinRequests(t, n)
        \/ \E entry \in listed[DeviceOf[t]] :
              \/ RejectJoinRequest(t, n, entry)
              \/ \E token \in tokens : ApproveJoinRequest(t, n, token, entry)

JoinerStep(t) ==
    \E token \in tokens : \E x \in JoinRequestExpiries(token) : SubmitJoinRequest(t, token, x)

AppStep(t) == OpenStep(t) \/ OwnerStep(t) \/ JoinerStep(t)

Lost(t) == CreateSharedLost(t) \/ InviteLost(t) \/ Fail(t)

DamageStep ==
    \E d \in Devices : \E entry \in listed[d] : \E record \in Damaged(entry.request) :
        \E hash \in {entry.hash, record} : EntryDamaged(d, entry, record, hash)

FaultStep ==
    \/ DamageStep
    \/ \E t \in Callers : Lost(t)
    \/ \E d \in Devices : Crash(d) \/ ResetSyncState(d) \/ ForgetIdentitySecrets(d)

Next ==
    \/ \E t \in Callers : Step(t) \/ AppStep(t) \/ ListNamespaces(t)
    \/ FaultStep \/ Tick

Spec == Init /\ [][Next]_vars

-----------------------------------------------------------------------------
(* Properties *)

Labels == {"idle", "create", "saveCreated", "key", "saveJoined", "list", "visit", "saveRow",
           "draw", "invite", "submit", "approve"}

CallRecords ==
    [kind : {"open", "invite", "approve", "sync"}, namespace : Namespaces \cup {None},
     hint : Kinds, row : Row \cup {NoRow}, todo : SUBSET Namespaces,
     token : InviteTokens \cup {None}, request : JoinRequestPayloads \cup {None},
     wrapped : WrappedDEKs \cup {None}]

\* Every variable has its type.
TypeOK ==
    /\ now \in Nat
    /\ wrapped \in [Namespaces -> [Devices -> WrappedDEKs \cup {None}]]
    /\ invites \in [InviteIDs -> InviteRecords \cup {None}]
    /\ pending \in [Namespaces -> [Devices -> JoinRequestPayloads \cup {None}]]
    /\ rows \in [Devices -> [Namespaces -> Row \cup {NoRow}]]
    /\ handles \in [Devices -> SUBSET Namespaces]
    /\ tokens \subseteq InviteTokens
    /\ listed \in [Devices -> SUBSET Entries]
    /\ pc \in [Callers -> Labels]
    /\ call \in [Callers -> CallRecords]

\* However requests are approved, repeated, replaced, rejected, damaged or lost on
\* the way, what the server holds for a member is the key of that namespace, wrapped
\* for that member, and a device that caches a key caches the right one.
KeysAgree ==
    \A n \in Namespaces, d \in Devices :
        /\ wrapped[n][d] \in {None, WrapNamespaceDEK(n, n, d)}
        /\ rows[d][n].key \in {None, n}

\* A token that CreateInvite returned without an error names an invite the server
\* has, for the same namespace and until the same time, also when an earlier try
\* with the same ID was stored and its response lost.
TokensAgree ==
    \A token \in tokens :
        /\ invites[token.invite] # None
        /\ invites[token.invite].namespace = token.namespace
        /\ invites[token.invite].expiresAt = token.expiresAt

\* What SubmitJoinRequest makes of a token is what verifyJoinRequestForApproval
\* expects: until it expires, a pending request passes verification with the token
\* of its invite, whenever the owner gets to it.
HonestRequestVerifies ==
    \A n \in Namespaces, d \in Devices, token \in tokens :
        LET request == pending[n][d]
        IN Active(request) /\ request.invite = token.invite =>
             Verifies(n, token, Entry(request))

\* The server's record of a member is of use to it when it holds the right key.
Access(n, d) ==
    CASE wrapped[n][d] = None -> "none"
      [] wrapped[n][d] = WrapNamespaceDEK(n, n, d) -> "granted"
      [] OTHER -> "useless"

Accesses == [n \in Namespaces |-> [d \in Devices |-> Access(n, d)]]

OfferedFor == [i \in InviteIDs |-> IF invites[i] = None THEN None ELSE invites[i].namespace]

OpenInvites == {i \in InviteIDs : Open(i)}

AskedWith ==
    [n \in Namespaces |-> [d \in Devices |->
        IF Active(pending[n][d]) THEN pending[n][d].invite ELSE None]]

StoredKeys == [d \in Devices |-> {n \in Namespaces : rows[d][n].key # None}]

Membership == INSTANCE Memberships WITH
    Offers <- InviteIDs, access <- Accesses, offer <- OfferedFor,
    open <- OpenInvites, asked <- AskedWith, stored <- StoredKeys

\* A device gets the key of a shared namespace by founding it, or by asking with a
\* live invite of a member and being admitted by a member while both are live; it
\* stores no key before that.  Lost responses, repeated, replaced and damaged requests,
\* late approvals, rows saved late, resets and restarts open no other way.
AccessByInvite == Membership!Spec
=============================================================================

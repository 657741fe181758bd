---------------------------- MODULE InvitesProofs ----------------------------
(***************************************************************************)
(* The keys of members, the tokens of invites and the join requests of     *)
(* Invites are right, for any devices, callers, namespaces and invites.    *)
(*                                                                         *)
(* None of it is inductive alone.  A key reaches the server along a chain: *)
(* a token, the request made from it, the listed entry, the verified       *)
(* entry, the wrapped key, with any step of anybody else between two       *)
(* links.  The invariant states of every link what the next one needs, and *)
(* the links that wait (requests on their way or pending) stay in order    *)
(* because invites only appear and are revoked.                            *)
(*                                                                         *)
(* The last section proves that Invites implements Memberships.            *)
(***************************************************************************)
EXTENDS Invites, TLAPS

\* A request that SubmitJoinRequest made, against a table of invites.
RequestOK(table, r) ==
    /\ r \in JoinRequestPayloads
    /\ r.wrap = r.key
    /\ table[r.invite] # None
    /\ table[r.invite].namespace = r.namespace
    /\ r.expiresAt <= table[r.invite].expiresAt

\* A call at a label, with its local variables.
CallOK(table, label, c) ==
    /\ label \in Labels /\ c \in CallRecords
    /\ label \notin {"idle", "list", "visit", "submit"} => c.namespace \in Namespaces
    /\ label \in {"saveJoined", "saveRow"} => c.row \in Row /\ c.row.key = c.namespace
    /\ label = "invite" => c.token \in InviteTokens
    /\ label = "submit" => RequestOK(table, c.request)
    /\ c.kind = "approve" => c.request \in JoinRequestPayloads /\ c.request.wrap = c.request.key
    /\ label = "approve" =>
         c.kind = "approve" /\ c.wrapped = WrapNamespaceDEK(c.namespace, c.namespace, c.request.key)

MembersOK ==
    /\ wrapped \in [Namespaces -> [Devices -> WrappedDEKs \cup {None}]]
    /\ \A n \in Namespaces, d \in Devices : wrapped[n][d] \in {None, WrapNamespaceDEK(n, n, d)}

RowsOK ==
    /\ rows \in [Devices -> [Namespaces -> Row \cup {NoRow}]]
    /\ \A n \in Namespaces, d \in Devices : rows[d][n].key \in {None, n}

InvitesOK ==
    /\ invites \in [InviteIDs -> InviteRecords \cup {None}]
    /\ tokens \subseteq InviteTokens
    /\ TokensAgree

PendingOK ==
    /\ pending \in [Namespaces -> [Devices -> JoinRequestPayloads \cup {None}]]
    /\ \A n \in Namespaces, d \in Devices :
         pending[n][d] # None =>
           /\ RequestOK(invites, pending[n][d])
           /\ pending[n][d].namespace = n /\ pending[n][d].key = d

\* What was signed and proved is a request with its own wrapping key.
ListedOK ==
    /\ listed \in [Devices -> SUBSET Entries]
    /\ \A d \in Devices : \A entry \in listed[d] : entry.sealed.wrap = entry.sealed.key

CallsOK ==
    /\ pc \in [Callers -> Labels] /\ call \in [Callers -> CallRecords]
    /\ \A t \in Callers : CallOK(invites, pc[t], call[t])

InvitesInv ==
    /\ now \in Nat /\ handles \in [Devices -> SUBSET Namespaces]
    /\ MembersOK /\ RowsOK /\ InvitesOK /\ PendingOK /\ ListedOK /\ CallsOK

-----------------------------------------------------------------------------
(* Calls *)

\* Invites only appear and are revoked.
Grows(table, next) ==
    \A i \in InviteIDs : table[i] # None =>
        /\ next[i] # None
        /\ next[i].namespace = table[i].namespace
        /\ next[i].expiresAt = table[i].expiresAt

\* A request stays in order when another caller creates or revokes an invite.
LEMMA RequestStays ==
  ASSUME NEW table, NEW next, NEW r, RequestOK(table, r), Grows(table, next)
  PROVE  RequestOK(next, r)
<1>1. r.invite \in InviteIDs
  BY DEF RequestOK, JoinRequestPayloads
<1> QED BY <1>1 DEF RequestOK, Grows

\* A call stays in order when another caller creates or revokes an invite.
LEMMA CallStays ==
  ASSUME NEW table, NEW next, NEW label, NEW c, CallOK(table, label, c), Grows(table, next)
  PROVE  CallOK(next, label, c)
  BY RequestStays, Zenon DEF CallOK

\* One caller moves, and the others stay in order.
LEMMA CallerStep ==
  ASSUME InvitesInv, NEW t \in Callers, NEW label, NEW c,
         Goto(t, label), call' = [call EXCEPT ![t] = c],
         Grows(invites, invites'), CallOK(invites', label, c)
  PROVE  CallsOK'
<1>1. label \in Labels /\ c \in CallRecords
  BY DEF CallOK
<1>2. pc \in [Callers -> Labels] /\ call \in [Callers -> CallRecords]
  BY DEF InvitesInv, CallsOK
<1>3. pc' \in [Callers -> Labels] /\ call' \in [Callers -> CallRecords]
  BY <1>1, <1>2 DEF Goto
<1>4. ASSUME NEW u \in Callers
      PROVE  CallOK(invites', pc'[u], call'[u])
  <2>1. CASE u = t
    <3>1. pc'[u] = label /\ call'[u] = c
      BY <1>2, <2>1 DEF Goto
    <3> QED BY <3>1
  <2>2. CASE u # t
    <3>1. pc'[u] = pc[u] /\ call'[u] = call[u]
      BY <1>2, <2>2 DEF Goto
    <3>2. CallOK(invites, pc[u], call[u])
      BY DEF InvitesInv, CallsOK
    <3> QED BY <3>1, <3>2, CallStays
  <2> QED BY <2>1, <2>2
<1> QED BY <1>3, <1>4 DEF CallsOK

\* Invites that do not change grow.
LEMMA Unchanged == ASSUME UNCHANGED invites PROVE Grows(invites, invites')
  BY DEF Grows

\* A call that has not begun is in order.
LEMMA NewCallOK ==
  ASSUME NEW table, NEW kind \in {"open", "invite", "sync"}
  PROVE  CallOK(table, "idle", NewCall(kind))
  BY DEF CallOK, NewCall, CallRecords, Labels, Kinds, NoRow

\* A call that returns leaves every call in order.
LEMMA FinishStep ==
  ASSUME InvitesInv, NEW t \in Callers, Finish(t), Grows(invites, invites')
  PROVE  CallsOK'
<1>1. CallOK(invites', "idle", NewCall("open"))
  BY NewCallOK
<1> QED BY <1>1, CallerStep, Zenon DEF Finish

\* A call that begins leaves every call in order.
LEMMA StartStep ==
  ASSUME InvitesInv, NEW t \in Callers, NEW label, NEW c, Start(t, label, c),
         UNCHANGED invites, CallOK(invites, label, c)
  PROVE  CallsOK'
<1>1. CallOK(invites', label, c)
  OBVIOUS
<1> QED BY <1>1, CallerStep, Unchanged, Zenon DEF Start

\* A step of a call that disturbs no server state, token or listing.
LEMMA LocalStep ==
  ASSUME InvitesInv, UNCHANGED <<now, serverVars, tokens, listed>>,
         handles' \in [Devices -> SUBSET Namespaces], RowsOK', CallsOK'
  PROVE  InvitesInv'
<1>1. now' \in Nat
  BY DEF InvitesInv
<1>2. MembersOK'
  BY DEF InvitesInv, MembersOK, serverVars
<1>3. InvitesOK'
  BY DEF InvitesInv, InvitesOK, TokensAgree, serverVars
<1>4. PendingOK'
  BY DEF InvitesInv, PendingOK, RequestOK, serverVars
<1>5. ListedOK'
  BY DEF InvitesInv, ListedOK
<1> QED BY <1>1, <1>2, <1>3, <1>4, <1>5 DEF InvitesInv

-----------------------------------------------------------------------------
(* Types of calls and rows *)

\* The type of the row a device has of a namespace.
LEMMA RowType ==
  ASSUME RowsOK, NEW d \in Devices, NEW n \in Namespaces
  PROVE  /\ rows[d][n] \in Row \cup {NoRow} /\ rows[d][n].key \in {None, n}
         /\ rows[d][n].key = n => rows[d][n] \in Row
  BY NoneAssumption DEF RowsOK, Row, NoRow

\* A row with the right key may be saved.
LEMMA SaveStep ==
  ASSUME RowsOK, NEW d \in Devices, NEW n \in Namespaces, NEW row \in Row, row.key = n,
         SaveNamespace(d, n, row)
  PROVE  RowsOK'
  BY DEF RowsOK, SaveNamespace

\* A handle of a namespace may be given.
LEMMA HandleStep ==
  ASSUME handles \in [Devices -> SUBSET Namespaces], NEW d \in Devices, NEW n \in Namespaces,
         GiveHandle(d, n)
  PROVE  handles' \in [Devices -> SUBSET Namespaces]
  BY DEF GiveHandle

\* A wrapped key has its type.
LEMMA WrapType ==
  ASSUME NEW n \in Namespaces, NEW d \in Devices
  PROVE  WrapNamespaceDEK(n, n, d) \in WrappedDEKs
  BY DEF WrapNamespaceDEK, WrappedDEKs

-----------------------------------------------------------------------------
(* Obtaining the key of a namespace *)

\* A key may be wrapped for the requester of a verified request.
LEMMA WrappedCall ==
  ASSUME NEW table, NEW c, CallOK(table, "key", c), c.kind = "approve",
         NEW key, key = c.namespace
  PROVE  CallOK(table, "approve",
                [c EXCEPT !.wrapped = WrapNamespaceDEK(c.namespace, key, c.request.wrap)])
<1> DEFINE w == WrapNamespaceDEK(c.namespace, key, c.request.wrap)
           c2 == [c EXCEPT !.wrapped = w]
<1>1. c \in CallRecords /\ c.namespace \in Namespaces
  BY DEF CallOK
<1>2. c.request \in JoinRequestPayloads /\ c.request.wrap = c.request.key
  BY DEF CallOK
<1>3. w = WrapNamespaceDEK(c.namespace, c.namespace, c.request.key)
  BY <1>2
<1>4. c.request.key \in Devices
  BY <1>2 DEF JoinRequestPayloads
<1>5. w \in WrappedDEKs
  BY <1>1, <1>3, <1>4, WrapType
<1> HIDE DEF w
<1>6. /\ c2 \in CallRecords /\ c2.wrapped = w
      /\ c2.namespace = c.namespace /\ c2.kind = c.kind /\ c2.request = c.request
  BY <1>1, <1>5 DEF CallRecords
<1> HIDE DEF c2
<1>7. CallOK(table, "approve", c2)
  BY <1>1, <1>2, <1>3, <1>6 DEF CallOK, Labels
<1> QED BY <1>7 DEF c2, w

\* A call whose namespace is ready goes on in order.
LEMMA ProceedStep ==
  ASSUME InvitesInv, NEW t \in Callers, NEW c, NEW row, CallOK(invites, "key", c),
         row.key = c.namespace, Proceed(t, c, row), UNCHANGED invites
  PROVE  CallsOK' /\ handles' \in [Devices -> SUBSET Namespaces]
<1>1. c.namespace \in Namespaces /\ c \in CallRecords /\ DeviceOf[t] \in Devices
  BY DeviceAssumption DEF CallOK
<1>2. handles \in [Devices -> SUBSET Namespaces]
  BY DEF InvitesInv
<1>3. CASE GiveHandle(DeviceOf[t], c.namespace) /\ Finish(t)
  BY <1>1, <1>2, <1>3, FinishStep, HandleStep, Unchanged
<1>4. CASE /\ c.kind = "invite" /\ Goto(t, "draw") /\ call' = [call EXCEPT ![t] = c]
           /\ UNCHANGED handles
  <2>1. CallOK(invites', "draw", c)
    BY <1>4 DEF CallOK, Labels
  <2>2. CallsOK'
    BY <1>4, <2>1, CallerStep, Unchanged
  <2> QED BY <1>2, <1>4, <2>2
<1>5. CASE /\ c.kind = "approve" /\ Goto(t, "approve")
           /\ call' = [call EXCEPT ![t] = [c EXCEPT
                !.wrapped = WrapNamespaceDEK(c.namespace, row.key, c.request.wrap)]]
           /\ UNCHANGED handles
  <2> DEFINE c2 == [c EXCEPT !.wrapped = WrapNamespaceDEK(c.namespace, row.key, c.request.wrap)]
  <2>1. CallOK(invites', "approve", c2)
    BY <1>5, WrappedCall
  <2>2. call' = [call EXCEPT ![t] = c2] /\ Goto(t, "approve")
    BY <1>5
  <2> HIDE DEF c2
  <2>3. CallsOK'
    BY <2>1, <2>2, CallerStep, Unchanged
  <2> QED BY <1>2, <1>5, <2>3
<1> QED BY <1>3, <1>4, <1>5 DEF Proceed

\* A call that found its row goes on, or ends, in order.
LEMMA ReadyStep ==
  ASSUME InvitesInv, NEW t \in Callers, NEW c, NEW row, CallOK(invites, "key", c),
         row.key = c.namespace, Ready(t, c, row), UNCHANGED invites
  PROVE  CallsOK' /\ handles' \in [Devices -> SUBSET Namespaces]
<1>1. CASE Proceed(t, c, row)
  BY <1>1, ProceedStep
<1>2. CASE Finish(t) /\ UNCHANGED handles
  BY <1>2, FinishStep, Unchanged DEF InvitesInv
<1> QED BY <1>1, <1>2 DEF Ready

\* ensureNamespaceReady goes on with the cached key, or joins.
LEMMA EnsureNamespaceReadyStep ==
  ASSUME InvitesInv, NEW t \in Callers, NEW c, CallOK(invites, "key", c),
         EnsureNamespaceReady(t, c)
  PROVE  InvitesInv'
<1> DEFINE d == DeviceOf[t]
           row == rows[d][c.namespace]
<1>1. c.namespace \in Namespaces /\ d \in Devices
  BY DeviceAssumption DEF CallOK
<1>2. row.key \in {None, c.namespace}
  BY <1>1 DEF InvitesInv, RowsOK
<1>3. UNCHANGED <<now, serverVars, rows, tokens, listed>>
  BY DEF EnsureNamespaceReady
<1>4. UNCHANGED invites
  BY <1>3 DEF serverVars
<1>5. CallsOK' /\ handles' \in [Devices -> SUBSET Namespaces]
  <2>1. CASE row.key # None /\ Ready(t, c, row)
    <3>1. row.key = c.namespace
      BY <1>2, <2>1
    <3> HIDE DEF row
    <3> QED BY <1>4, <2>1, <3>1, ReadyStep
  <2>2. CASE Start(t, "key", c) /\ UNCHANGED handles
    BY <1>4, <2>2, StartStep DEF InvitesInv
  <2> QED BY <2>1, <2>2 DEF EnsureNamespaceReady
<1>6. RowsOK'
  BY <1>3 DEF InvitesInv, RowsOK
<1> QED BY <1>3, <1>5, <1>6, LocalStep

\* The calls that begin with a namespace are in order.
LEMMA KeyCalls ==
  ASSUME NEW table, NEW n \in Namespaces
  PROVE  /\ CallOK(table, "key", OpenCall(n)) /\ CallOK(table, "create", OpenCall(n))
         /\ CallOK(table, "key", [NewCall("invite") EXCEPT !.namespace = n, !.hint = "shared"])
  BY DEF CallOK, OpenCall, NewCall, CallRecords, Labels, Kinds, NoRow

\* Namespace and CreateInvite keep the invariant.
LEMMA ReadyCalls ==
  ASSUME InvitesInv, NEW t \in Callers, NEW n \in Namespaces,
         Namespace(t, n) \/ CreateInvite(t, n)
  PROVE  InvitesInv'
<1>1. CASE Namespace(t, n)
  BY <1>1, KeyCalls, EnsureNamespaceReadyStep, Zenon DEF Namespace
<1>2. CASE CreateInvite(t, n)
  BY <1>2, KeyCalls, EnsureNamespaceReadyStep, Zenon DEF CreateInvite
<1> QED BY <1>1, <1>2

\* CreateSharedNamespace and JoinNamespace begin in order.
LEMMA StartCalls ==
  ASSUME InvitesInv, NEW t \in Callers, NEW n \in Namespaces,
         CreateSharedNamespace(t, n) \/ JoinNamespace(t, n)
  PROVE  InvitesInv'
<1>1. UNCHANGED <<now, serverVars, rows, appVars>>
  BY DEF CreateSharedNamespace, JoinNamespace
<1>2. UNCHANGED invites
  BY <1>1 DEF serverVars
<1>3. CallsOK'
  BY <1>2, KeyCalls, StartStep, Zenon DEF CreateSharedNamespace, JoinNamespace, OpenCall
<1>4. RowsOK' /\ handles' \in [Devices -> SUBSET Namespaces]
  BY <1>1 DEF InvitesInv, RowsOK, appVars
<1> QED BY <1>1, <1>3, <1>4, LocalStep DEF appVars

\* The row joinNamespace saves has the key it unwrapped and a kind.
LEMMA JoinedRowType ==
  ASSUME NEW row \in Row \cup {NoRow}, NEW key \in Namespaces, NEW hint \in Kinds
  PROVE  JoinedRow(row, key, hint) \in Row /\ JoinedRow(row, key, hint).key = key
<1> DEFINE kind == IF row.kind \in {"none", ""} THEN hint ELSE row.kind
<1>1. kind \in Kinds
  <2>1. CASE row = NoRow
    BY <2>1 DEF NoRow
  <2>2. CASE row \in Row
    <3>1. row.kind \in Kinds
      BY <2>2 DEF Row
    <3> QED BY <3>1
  <2> QED BY <2>1, <2>2
<1> HIDE DEF kind
<1>2. JoinedRow(row, key, hint) = [key |-> key, kind |-> kind]
  BY DEF JoinedRow, kind
<1> QED BY <1>1, <1>2 DEF Row

\* A wrapped key that unwraps holds the key of the namespace.
LEMMA WrappedDEKReceivedStep ==
  ASSUME InvitesInv, NEW t \in Callers, WrappedDEKReceived(t) PROVE InvitesInv'
<1> DEFINE d == DeviceOf[t]
           n == call[t].namespace
           w == wrapped[n][d]
           row == JoinedRow(rows[d][n], w.key, call[t].hint)
           c == [call[t] EXCEPT !.row = row]
<1>1. CallOK(invites, "key", call[t])
  BY DEF WrappedDEKReceived, InvitesInv, CallsOK
<1>2. n \in Namespaces /\ d \in Devices /\ call[t] \in CallRecords /\ call[t].hint \in Kinds
  BY <1>1, DeviceAssumption DEF CallOK, CallRecords
<1>3. w.key = n
  BY <1>2 DEF WrappedDEKReceived, UnwrapsNamespaceDEK, InvitesInv, MembersOK, WrapNamespaceDEK
<1>4. rows[d][n] \in Row \cup {NoRow}
  BY <1>2, RowType DEF InvitesInv
<1>5. row \in Row /\ row.key = n
  BY <1>2, <1>3, <1>4, JoinedRowType
<1> HIDE DEF row
<1>6. /\ c \in CallRecords /\ c.row = row /\ c.namespace = n
      /\ c.kind = call[t].kind /\ c.request = call[t].request
  BY <1>2, <1>5 DEF CallRecords
<1> HIDE DEF c
<1>7. CallOK(invites, "saveJoined", c)
  BY <1>1, <1>2, <1>5, <1>6 DEF CallOK, Labels
<1>8. UNCHANGED <<now, serverVars, rows, appVars>> /\ UNCHANGED invites
  BY DEF WrappedDEKReceived, serverVars
<1>9. call' = [call EXCEPT ![t] = c] /\ Goto(t, "saveJoined")
  BY DEF WrappedDEKReceived, c, row
<1>10. CallsOK'
  BY <1>7, <1>8, <1>9, CallerStep, Unchanged
<1>11. RowsOK' /\ handles' \in [Devices -> SUBSET Namespaces]
  BY <1>8 DEF InvitesInv, RowsOK, appVars
<1> QED BY <1>8, <1>10, <1>11, LocalStep DEF appVars

\* joinNamespace saves the key it received, and its caller goes on.
LEMMA SaveJoinedStep ==
  ASSUME InvitesInv, NEW t \in Callers, SaveJoined(t) PROVE InvitesInv'
<1> DEFINE c == call[t]
<1>1. CallOK(invites, "saveJoined", c)
  BY DEF SaveJoined, InvitesInv, CallsOK
<1>2. /\ c.namespace \in Namespaces /\ c.row \in Row /\ c.row.key = c.namespace
      /\ DeviceOf[t] \in Devices
  BY <1>1, DeviceAssumption DEF CallOK
<1>3. SaveNamespace(DeviceOf[t], c.namespace, c.row)
  BY DEF SaveJoined
<1>4. RowsOK'
  BY <1>2, <1>3, SaveStep DEF InvitesInv
<1>5. UNCHANGED <<now, serverVars, tokens, listed>> /\ UNCHANGED invites
  BY DEF SaveJoined, serverVars
<1>6. CallsOK' /\ handles' \in [Devices -> SUBSET Namespaces]
  <2>1. CASE c.kind = "sync" /\ Goto(t, "saveRow") /\ UNCHANGED <<call, handles>>
    <3>1. CallOK(invites', "saveRow", c)
      BY <1>1, <1>5 DEF CallOK, Labels
    <3>2. call \in [Callers -> CallRecords]
      BY DEF InvitesInv, CallsOK
    <3>3. call' = [call EXCEPT ![t] = c]
      BY <2>1, <3>2
    <3>4. CallsOK'
      BY <1>5, <2>1, <3>1, <3>3, CallerStep, Unchanged
    <3> QED BY <2>1, <3>4 DEF InvitesInv
  <2>2. CASE Ready(t, c, c.row)
    <3>1. CallOK(invites, "key", c)
      BY <1>1 DEF CallOK, Labels
    <3> QED BY <1>2, <1>5, <2>2, <3>1, ReadyStep
  <2> QED BY <2>1, <2>2 DEF SaveJoined
<1> QED BY <1>4, <1>5, <1>6, LocalStep

-----------------------------------------------------------------------------
(* Creating namespaces, passes *)

\* The creator is the first member, and has wrapped the key for itself.
LEMMA CreateStepOK ==
  ASSUME InvitesInv, NEW t \in Callers, CreateSharedAccepted(t) \/ CreateSharedLost(t)
  PROVE  InvitesInv'
<1> DEFINE n == call[t].namespace
           d == DeviceOf[t]
<1>1. CallOK(invites, "create", call[t]) /\ CreateAccepted(t)
  BY DEF CreateSharedAccepted, CreateSharedLost, CreateAccepted, InvitesInv, CallsOK
<1>2. n \in Namespaces /\ d \in Devices
  BY <1>1, DeviceAssumption DEF CallOK
<1>3. UNCHANGED <<now, invites, pending, rows, appVars>>
  BY <1>1 DEF CreateAccepted
<1>4. MembersOK'
  <2>1. wrapped' = [wrapped EXCEPT ![n][d] = WrapNamespaceDEK(n, n, d)]
    BY <1>1 DEF CreateAccepted, AddMember
  <2>2. WrapNamespaceDEK(n, n, d) \in WrappedDEKs
    BY <1>2, WrapType
  <2> HIDE DEF n, d
  <2> QED BY <1>2, <2>1, <2>2 DEF InvitesInv, MembersOK
<1>5. CallsOK'
  <2>1. CASE Goto(t, "saveCreated") /\ UNCHANGED call
    <3>1. CallOK(invites', "saveCreated", call[t])
      BY <1>1, <1>3 DEF CallOK, Labels
    <3>2. call' = [call EXCEPT ![t] = call[t]]
      BY <2>1 DEF InvitesInv, CallsOK
    <3> QED BY <1>3, <2>1, <3>1, <3>2, CallerStep, Unchanged
  <2>2. CASE Finish(t)
    BY <1>3, <2>2, FinishStep, Unchanged
  <2> QED BY <2>1, <2>2 DEF CreateSharedAccepted, CreateSharedLost
<1>6. RowsOK'
  BY <1>3 DEF InvitesInv, RowsOK
<1>7. InvitesOK'
  BY <1>3 DEF InvitesInv, InvitesOK, TokensAgree, appVars
<1>8. PendingOK'
  BY <1>3 DEF InvitesInv, PendingOK, RequestOK
<1>9. ListedOK'
  BY <1>3 DEF InvitesInv, ListedOK, appVars
<1> QED BY <1>3, <1>4, <1>5, <1>6, <1>7, <1>8, <1>9 DEF InvitesInv, appVars

\* The creator caches the key it drew.
LEMMA SaveCreatedStep ==
  ASSUME InvitesInv, NEW t \in Callers, SaveCreated(t) PROVE InvitesInv'
<1> DEFINE n == call[t].namespace
<1>1. CallOK(invites, "saveCreated", call[t])
  BY DEF SaveCreated, InvitesInv, CallsOK
<1>2. n \in Namespaces /\ DeviceOf[t] \in Devices
  BY <1>1, DeviceAssumption DEF CallOK
<1>3. RowsOK'
  <2>1. [key |-> n, kind |-> "shared"] \in Row
    BY <1>2 DEF Row, Kinds
  <2>2. SaveNamespace(DeviceOf[t], n, [key |-> n, kind |-> "shared"])
    BY DEF SaveCreated
  <2> QED BY <1>2, <2>1, <2>2, SaveStep DEF InvitesInv
<1>4. handles' \in [Devices -> SUBSET Namespaces]
  BY <1>2, HandleStep DEF SaveCreated, InvitesInv
<1>5. UNCHANGED <<now, serverVars, tokens, listed>> /\ UNCHANGED invites
  BY DEF SaveCreated, serverVars
<1>6. CallsOK'
  BY <1>5, FinishStep, Unchanged DEF SaveCreated
<1> QED BY <1>3, <1>4, <1>5, <1>6, LocalStep

\* The calls of a pass between two namespaces are in order.
LEMMA PassCalls ==
  ASSUME NEW table, NEW label \in {"list", "visit"}, NEW todo \in SUBSET Namespaces
  PROVE  CallOK(table, label, [NewCall("sync") EXCEPT !.todo = todo])
  BY DEF CallOK, NewCall, CallRecords, Labels, Kinds, NoRow

\* A pass begins, looks at the rows, and ends, in order.
LEMMA PassBounds ==
  ASSUME InvitesInv, NEW t \in Callers, ListNamespaces(t) \/ ListLocal(t) \/ PassEnds(t)
  PROVE  InvitesInv'
<1>1. UNCHANGED <<now, serverVars, rows, appVars>> /\ UNCHANGED invites
  BY DEF ListNamespaces, ListLocal, PassEnds, serverVars
<1>2. CallsOK'
  <2>1. CASE ListNamespaces(t)
    <3>1. {n \in Namespaces : Member(n, DeviceOf[t])} \in SUBSET Namespaces
      OBVIOUS
    <3> QED BY <1>1, <2>1, <3>1, PassCalls, StartStep, Zenon DEF ListNamespaces
  <2>2. CASE pc[t] = "list" /\ Goto(t, "visit") /\ UNCHANGED call
    <3>1. CallOK(invites, "list", call[t])
      BY <2>2 DEF InvitesInv, CallsOK
    <3>2. CallOK(invites', "visit", call[t])
      BY <1>1, <3>1 DEF CallOK, Labels
    <3>3. call' = [call EXCEPT ![t] = call[t]]
      BY <2>2 DEF InvitesInv, CallsOK
    <3> QED BY <1>1, <2>2, <3>2, <3>3, CallerStep, Unchanged
  <2>3. CASE Finish(t)
    BY <1>1, <2>3, FinishStep, Unchanged
  <2> QED BY <2>1, <2>2, <2>3 DEF ListLocal, PassEnds
<1>3. RowsOK' /\ handles' \in [Devices -> SUBSET Namespaces]
  BY <1>1 DEF InvitesInv, RowsOK, appVars
<1> QED BY <1>1, <1>2, <1>3, LocalStep DEF appVars

\* A pass that looks at a namespace asks for its key, or has it.
LEMMA VisitStep ==
  ASSUME InvitesInv, NEW t \in Callers, NEW n \in Namespaces, Visit(t, n) PROVE InvitesInv'
<1> DEFINE row == rows[DeviceOf[t]][n]
           c1 == [call[t] EXCEPT !.namespace = n]
           c == [c1 EXCEPT !.hint = Kind(n)]
           saved == ListedRow(row, n)
           c2 == [c EXCEPT !.row = saved]
<1>1. CallOK(invites, "visit", call[t]) /\ call[t] \in CallRecords
  BY DEF Visit, InvitesInv, CallsOK, CallOK
<1>2. Kind(n) \in Kinds
  BY DEF Kind, Kinds
<1>3. /\ c1 \in CallRecords /\ c1.namespace = n
      /\ c1.kind = call[t].kind /\ c1.request = call[t].request
  BY <1>1 DEF CallRecords
<1>4. /\ c \in CallRecords /\ c.namespace = n
      /\ c.kind = call[t].kind /\ c.request = call[t].request
  <2> HIDE DEF c1
  <2> QED BY <1>2, <1>3 DEF CallRecords
<1>5. UNCHANGED <<now, serverVars, rows, appVars>> /\ UNCHANGED invites
  BY DEF Visit, serverVars
<1>6. /\ \/ row.key = None /\ Goto(t, "key") /\ call' = [call EXCEPT ![t] = c]
         \/ row.key # None /\ Goto(t, "saveRow") /\ call' = [call EXCEPT ![t] = c2]
  BY DEF Visit
<1>7. row \in Row \cup {NoRow} /\ row.key \in {None, n} /\ (row.key = n => row \in Row)
  BY RowType, DeviceAssumption DEF InvitesInv
<1> HIDE DEF row, c1, c
<1>8. CallsOK'
  <2>1. CASE row.key = None /\ Goto(t, "key") /\ call' = [call EXCEPT ![t] = c]
    <3>1. CallOK(invites', "key", c)
      BY <1>1, <1>4, <1>5 DEF CallOK, Labels
    <3> QED BY <1>5, <2>1, <3>1, CallerStep, Unchanged
  <2>2. CASE row.key # None /\ Goto(t, "saveRow") /\ call' = [call EXCEPT ![t] = c2]
    <3>1. row \in Row /\ row.key = n
      BY <1>7, <2>2
    <3>2. saved \in Row /\ saved.key = n
      BY <1>2, <3>1 DEF ListedRow, Row
    <3> HIDE DEF saved
    <3>3. /\ c2 \in CallRecords /\ c2.row = saved /\ c2.namespace = n
          /\ c2.kind = call[t].kind /\ c2.request = call[t].request
      BY <1>4, <3>2 DEF CallRecords
    <3> HIDE DEF c2
    <3>4. CallOK(invites', "saveRow", c2)
      BY <1>1, <1>5, <3>2, <3>3 DEF CallOK, Labels
    <3> QED BY <1>5, <2>2, <3>4, CallerStep, Unchanged
  <2> QED BY <1>6, <2>1, <2>2
<1>9. RowsOK' /\ handles' \in [Devices -> SUBSET Namespaces]
  BY <1>5 DEF InvitesInv, RowsOK, appVars
<1> QED BY <1>5, <1>8, <1>9, LocalStep DEF appVars

\* A pass saves the row of a namespace with its key.
LEMMA SaveRowStep ==
  ASSUME InvitesInv, NEW t \in Callers, SaveRow(t) PROVE InvitesInv'
<1> DEFINE c == call[t]
           todo == c.todo \ {c.namespace}
<1>1. CallOK(invites, "saveRow", c)
  BY DEF SaveRow, InvitesInv, CallsOK
<1>2. /\ c.namespace \in Namespaces /\ c.row \in Row /\ c.row.key = c.namespace
      /\ DeviceOf[t] \in Devices /\ c \in CallRecords
  BY <1>1, DeviceAssumption DEF CallOK
<1>3. RowsOK'
  BY <1>2, SaveStep DEF InvitesInv, SaveRow
<1>4. UNCHANGED <<now, serverVars, appVars>> /\ UNCHANGED invites
  BY DEF SaveRow, serverVars
<1>5. CallsOK'
  <2>1. todo \in SUBSET Namespaces
    BY <1>2 DEF CallRecords
  <2>2. Goto(t, "visit") /\ call' = [call EXCEPT ![t] = [NewCall("sync") EXCEPT !.todo = todo]]
    BY DEF SaveRow
  <2> HIDE DEF todo
  <2>3. CallOK(invites', "visit", [NewCall("sync") EXCEPT !.todo = todo])
    BY <2>1, PassCalls
  <2> QED BY <1>4, <2>2, <2>3, CallerStep, Unchanged
<1> QED BY <1>3, <1>4, <1>5, LocalStep DEF InvitesInv, appVars

-----------------------------------------------------------------------------
(* Invites *)

\* A drawn invite token has its type.
LEMMA DrawInviteStep ==
  ASSUME InvitesInv, NEW t \in Callers, NEW i \in InviteIDs, NEW ttl \in 1..MaxInviteTTL,
         DrawInvite(t, i, ttl)
  PROVE  InvitesInv'
<1> DEFINE token == [namespace |-> call[t].namespace, invite |-> i, expiresAt |-> now + ttl]
           c == [call[t] EXCEPT !.token = token]
<1>1. CallOK(invites, "draw", call[t]) /\ call[t] \in CallRecords /\ call[t].namespace \in Namespaces
  BY DEF DrawInvite, InvitesInv, CallsOK, CallOK
<1>2. now + ttl \in Int
  BY TimeAssumption DEF InvitesInv
<1>3. token \in InviteTokens
  BY <1>1, <1>2 DEF InviteTokens
<1>4. UNCHANGED <<now, serverVars, rows, appVars>> /\ UNCHANGED invites
  BY DEF DrawInvite, serverVars
<1>5. call' = [call EXCEPT ![t] = c] /\ Goto(t, "invite")
  BY DEF DrawInvite
<1> HIDE DEF token
<1>6. /\ c \in CallRecords /\ c.token = token /\ c.namespace = call[t].namespace
      /\ c.kind = call[t].kind /\ c.request = call[t].request
  BY <1>1, <1>3 DEF CallRecords
<1> HIDE DEF c
<1>7. CallOK(invites', "invite", c)
  BY <1>1, <1>3, <1>4, <1>6 DEF CallOK, Labels
<1>8. CallsOK'
  BY <1>4, <1>5, <1>7, CallerStep, Unchanged
<1>9. RowsOK' /\ handles' \in [Devices -> SUBSET Namespaces]
  BY <1>4 DEF InvitesInv, RowsOK, appVars
<1> QED BY <1>4, <1>8, <1>9, LocalStep DEF appVars

\* What an action leaves in order that changes no member, row, handle or listing
\* and lets the invites grow.
LEMMA InviteTableStep ==
  ASSUME InvitesInv, UNCHANGED <<now, wrapped, pending, rows, handles, listed>>,
         Grows(invites, invites'), InvitesOK', CallsOK'
  PROVE  InvitesInv'
<1>1. MembersOK' /\ ListedOK' /\ RowsOK'
  BY DEF InvitesInv, MembersOK, ListedOK, RowsOK
<1>2. PendingOK'
  <2>1. pending' \in [Namespaces -> [Devices -> JoinRequestPayloads \cup {None}]]
    BY DEF InvitesInv, PendingOK
  <2>2. ASSUME NEW n \in Namespaces, NEW d \in Devices, pending'[n][d] # None
        PROVE  /\ RequestOK(invites', pending'[n][d])
               /\ pending'[n][d].namespace = n /\ pending'[n][d].key = d
    <3>1. RequestOK(invites, pending[n][d]) /\ pending[n][d].namespace = n /\ pending[n][d].key = d
      BY <2>2 DEF InvitesInv, PendingOK
    <3>2. RequestOK(invites', pending[n][d])
      BY <3>1, RequestStays
    <3> QED BY <3>1, <3>2
  <2> QED BY <2>1, <2>2 DEF PendingOK
<1> QED BY <1>1, <1>2 DEF InvitesInv

\* The server stores a new invite, or keeps the one it has.
LEMMA InviteStoredOK ==
  ASSUME InvitesInv, NEW t \in Callers, InviteStored(t)
  PROVE  /\ call[t].token \in InviteTokens
         /\ invites' \in [InviteIDs -> InviteRecords \cup {None}]
         /\ invites'[call[t].token.invite] # None
         /\ invites'[call[t].token.invite].namespace = call[t].token.namespace
         /\ Grows(invites, invites')
<1> DEFINE token == call[t].token
           i == token.invite
           record == NewInvite(token)
<1>1. token \in InviteTokens
  BY DEF InviteStored, InvitesInv, CallsOK, CallOK
<1>2. i \in InviteIDs /\ invites \in [InviteIDs -> InviteRecords \cup {None}]
  BY <1>1 DEF InviteTokens, InvitesInv, InvitesOK
<1>3. record \in InviteRecords /\ record.namespace = token.namespace
  BY <1>1 DEF NewInvite, InviteRecords, InviteTokens
<1>4. record # None
  BY <1>3, NoneAssumption
<1>5. CASE invites[i] = None /\ invites' = [invites EXCEPT ![i] = record]
  <2> HIDE DEF i, record
  <2> QED BY <1>1, <1>2, <1>3, <1>4, <1>5 DEF Grows, i
<1>6. CASE invites[i] # None /\ invites[i].namespace = token.namespace /\ UNCHANGED invites
  BY <1>1, <1>2, <1>6, Unchanged
<1> QED BY <1>5, <1>6 DEF InviteStored

\* CreateInvite returns a token only for the invite that the server has.
LEMMA InviteCreatedStep ==
  ASSUME InvitesInv, NEW t \in Callers, InviteCreated(t) \/ InviteLost(t) PROVE InvitesInv'
<1> DEFINE token == call[t].token
<1>1. InviteStored(t) /\ Finish(t)
  BY DEF InviteCreated, InviteLost
<1>2. /\ token \in InviteTokens
      /\ invites' \in [InviteIDs -> InviteRecords \cup {None}]
      /\ invites'[token.invite] # None
      /\ invites'[token.invite].namespace = token.namespace
      /\ Grows(invites, invites')
  BY <1>1, InviteStoredOK
<1>3. \/ UNCHANGED tokens
      \/ tokens' = tokens \cup {token} /\ invites'[token.invite].expiresAt = token.expiresAt
  BY DEF InviteCreated, InviteLost, InviteConfirmed
<1>4. InvitesOK'
  <2>1. tokens' \subseteq InviteTokens
    BY <1>2, <1>3 DEF InvitesInv, InvitesOK
  <2>2. ASSUME NEW x \in tokens'
        PROVE  /\ invites'[x.invite] # None
               /\ invites'[x.invite].namespace = x.namespace
               /\ invites'[x.invite].expiresAt = x.expiresAt
    <3>1. CASE x \in tokens
      <4>1. /\ invites[x.invite] # None
            /\ invites[x.invite].namespace = x.namespace
            /\ invites[x.invite].expiresAt = x.expiresAt
        BY <3>1 DEF InvitesInv, InvitesOK, TokensAgree
      <4>2. x.invite \in InviteIDs
        BY <2>1 DEF InviteTokens
      <4> QED BY <1>2, <4>1, <4>2 DEF Grows
    <3>2. CASE x \notin tokens
      BY <1>2, <1>3, <2>2, <3>2
    <3> QED BY <3>1, <3>2
  <2> QED BY <1>2, <2>1, <2>2 DEF InvitesOK, TokensAgree
<1>5. CallsOK'
  BY <1>1, <1>2, FinishStep
<1>6. UNCHANGED <<now, wrapped, pending, rows, handles, listed>>
  BY <1>1 DEF InviteStored
<1> QED BY <1>2, <1>4, <1>5, <1>6, InviteTableStep

\* A step that leaves the calls alone, and lets the invites grow, leaves them in order.
LEMMA CallsStay ==
  ASSUME InvitesInv, UNCHANGED callVars, Grows(invites, invites') PROVE CallsOK'
<1>1. ASSUME NEW t \in Callers PROVE CallOK(invites', pc[t], call[t])
  BY CallStays DEF InvitesInv, CallsOK
<1> QED BY <1>1 DEF InvitesInv, CallsOK, callVars

\* A revoked invite keeps what its token names.
LEMMA RevokeInviteStep ==
  ASSUME InvitesInv, NEW t \in Callers, NEW n \in Namespaces, NEW i \in InviteIDs,
         RevokeInvite(t, n, i)
  PROVE  InvitesInv'
<1>1. invites \in [InviteIDs -> InviteRecords \cup {None}] /\ invites[i] # None
  BY DEF InvitesInv, InvitesOK, RevokeInvite
<1> DEFINE record == [invites[i] EXCEPT !.revoked = TRUE]
<1>2. invites[i] \in InviteRecords
  BY <1>1
<1>3. /\ record \in InviteRecords /\ record.namespace = invites[i].namespace
      /\ record.expiresAt = invites[i].expiresAt
  BY <1>2 DEF InviteRecords
<1>4. record # None
  BY <1>3, NoneAssumption
<1>5. invites' = [invites EXCEPT ![i] = record]
  BY DEF RevokeInvite
<1> HIDE DEF record
<1>6. Grows(invites, invites') /\ invites' \in [InviteIDs -> InviteRecords \cup {None}]
  BY <1>1, <1>3, <1>4, <1>5 DEF Grows
<1>7. UNCHANGED <<now, wrapped, pending, rows, appVars, callVars>>
  BY DEF RevokeInvite
<1>8. InvitesOK'
  <2>1. \A x \in tokens : x.invite \in InviteIDs
    BY DEF InvitesInv, InvitesOK, InviteTokens
  <2>2. tokens' = tokens /\ tokens \subseteq InviteTokens /\ TokensAgree
    BY <1>7 DEF InvitesInv, InvitesOK, appVars
  <2>3. TokensAgree'
    BY <1>6, <2>1, <2>2 DEF TokensAgree, Grows
  <2> QED BY <1>6, <2>2, <2>3 DEF InvitesOK
<1>9. CallsOK'
  BY <1>6, <1>7, CallsStay
<1> QED BY <1>6, <1>7, <1>8, <1>9, InviteTableStep DEF appVars

-----------------------------------------------------------------------------
(* Join requests *)

\* A request made from a token is in order.
LEMMA SubmitJoinRequestStep ==
  ASSUME InvitesInv, NEW t \in Callers, NEW token \in tokens,
         NEW x \in JoinRequestExpiries(token), SubmitJoinRequest(t, token, x)
  PROVE  InvitesInv'
<1> DEFINE r == JoinRequest(DeviceOf[t], token, x)
           c == [NewCall("open") EXCEPT !.request = r]
<1>1. token \in InviteTokens /\ TokensAgree
  BY DEF InvitesInv, InvitesOK
<1>2. DeviceOf[t] \in Devices /\ x \in Int /\ x <= token.expiresAt
  BY DeviceAssumption, TimeAssumption DEF JoinRequestExpiries, InvitesInv
<1>3. /\ r \in JoinRequestPayloads /\ r.wrap = r.key
      /\ r.invite = token.invite /\ r.namespace = token.namespace /\ r.expiresAt = x
  BY <1>1, <1>2 DEF JoinRequest, JoinRequestPayloads, InviteTokens
<1>4. Start(t, "submit", c)
  BY DEF SubmitJoinRequest
<1>5. UNCHANGED <<now, serverVars, rows, appVars>> /\ UNCHANGED invites
  BY DEF SubmitJoinRequest, serverVars
<1> HIDE DEF r
<1>6. RequestOK(invites, r)
  BY <1>1, <1>2, <1>3 DEF RequestOK, TokensAgree
<1>7. c \in CallRecords /\ c.kind = "open" /\ c.request = r
  BY <1>3 DEF NewCall, CallRecords, Kinds, NoRow
<1> HIDE DEF c
<1>8. CallOK(invites, "submit", c)
  BY <1>6, <1>7 DEF CallOK, Labels
<1>9. CallsOK'
  BY <1>4, <1>5, <1>8, StartStep
<1>10. RowsOK' /\ handles' \in [Devices -> SUBSET Namespaces]
  BY <1>5 DEF InvitesInv, RowsOK, appVars
<1> QED BY <1>5, <1>9, <1>10, LocalStep DEF appVars

\* What an action leaves in order that changes pending requests and calls only.
LEMMA RequestsChange ==
  ASSUME InvitesInv, UNCHANGED <<now, invites, rows, appVars>>, MembersOK', PendingOK', CallsOK'
  PROVE  InvitesInv'
<1>1. RowsOK'
  BY DEF InvitesInv, RowsOK
<1>2. InvitesOK'
  BY DEF InvitesInv, InvitesOK, TokensAgree, appVars
<1>3. ListedOK'
  BY DEF InvitesInv, ListedOK, appVars
<1> QED BY <1>1, <1>2, <1>3 DEF InvitesInv, appVars

\* The server stores the request it was sent.
LEMMA JoinRequestStoredStep ==
  ASSUME InvitesInv, NEW t \in Callers, JoinRequestStored(t) PROVE InvitesInv'
<1> DEFINE r == call[t].request
<1>1. RequestOK(invites, r)
  BY DEF JoinRequestStored, InvitesInv, CallsOK, CallOK
<1>2. r \in JoinRequestPayloads /\ r.namespace \in Namespaces /\ r.key \in Devices
  BY <1>1 DEF RequestOK, JoinRequestPayloads
<1>3. UNCHANGED <<now, wrapped, invites, rows, appVars>> /\ Finish(t)
  BY DEF JoinRequestStored
<1>4. UNCHANGED pending \/ pending' = [pending EXCEPT ![r.namespace][r.key] = r]
  BY DEF JoinRequestStored
<1>5. PendingOK'
  <2>1. CASE UNCHANGED pending
    BY <1>3, <2>1 DEF InvitesInv, PendingOK, RequestOK
  <2>2. CASE pending' = [pending EXCEPT ![r.namespace][r.key] = r]
    <3>1. pending \in [Namespaces -> [Devices -> JoinRequestPayloads \cup {None}]]
      BY DEF InvitesInv, PendingOK
    <3> HIDE DEF r
    <3>2. pending' \in [Namespaces -> [Devices -> JoinRequestPayloads \cup {None}]]
      BY <1>2, <2>2, <3>1
    <3>3. ASSUME NEW n \in Namespaces, NEW d \in Devices, pending'[n][d] # None
          PROVE  /\ RequestOK(invites', pending'[n][d])
                 /\ pending'[n][d].namespace = n /\ pending'[n][d].key = d
      <4>1. CASE n = r.namespace /\ d = r.key
        <5>1. pending'[n][d] = r
          BY <1>2, <2>2, <3>1, <4>1
        <5> QED BY <1>1, <1>3, <4>1, <5>1
      <4>2. CASE ~(n = r.namespace /\ d = r.key)
        <5>1. pending'[n][d] = pending[n][d]
          BY <1>2, <2>2, <3>1, <4>2
        <5>2. RequestOK(invites, pending[n][d]) /\ pending[n][d].namespace = n
              /\ pending[n][d].key = d
          BY <3>3, <5>1 DEF InvitesInv, PendingOK
        <5> QED BY <1>3, <5>1, <5>2
      <4> QED BY <4>1, <4>2
    <3> QED BY <3>2, <3>3 DEF PendingOK
  <2> QED BY <1>4, <2>1, <2>2
<1>6. MembersOK'
  BY <1>3 DEF InvitesInv, MembersOK
<1>7. CallsOK'
  BY <1>3, FinishStep, Unchanged
<1> QED BY <1>3, <1>5, <1>6, <1>7, RequestsChange

\* What an action leaves in order that changes the listings only.
LEMMA ListingStep ==
  ASSUME InvitesInv, UNCHANGED <<now, serverVars, rows, handles, tokens, callVars>>, ListedOK'
  PROVE  InvitesInv'
<1>1. MembersOK' /\ RowsOK'
  BY DEF InvitesInv, MembersOK, RowsOK, serverVars
<1>2. InvitesOK'
  BY DEF InvitesInv, InvitesOK, TokensAgree, serverVars
<1>3. PendingOK'
  BY DEF InvitesInv, PendingOK, RequestOK, serverVars
<1>4. CallsOK'
  BY CallsStay, Unchanged DEF serverVars
<1> QED BY <1>1, <1>2, <1>3, <1>4 DEF InvitesInv

\* A listing shows requests as they were signed.
LEMMA JoinRequestsStep ==
  ASSUME InvitesInv, NEW t \in Callers, NEW n \in Namespaces, JoinRequests(t, n)
  PROVE  InvitesInv'
<1> DEFINE active == {x \in Devices : Active(pending[n][x])}
           entries == {Entry(pending[n][r]) : r \in active}
<1>1. ASSUME NEW r \in active
      PROVE  /\ Entry(pending[n][r]) \in Entries
             /\ Entry(pending[n][r]).sealed.wrap = Entry(pending[n][r]).sealed.key
  <2>1. RequestOK(invites, pending[n][r])
    BY DEF InvitesInv, PendingOK, Active
  <2>2. pending[n][r] \in JoinRequestPayloads /\ pending[n][r].wrap = pending[n][r].key
    BY <2>1 DEF RequestOK
  <2> QED BY <2>2 DEF Entry, Entries
<1>2. entries \subseteq Entries /\ \A entry \in entries : entry.sealed.wrap = entry.sealed.key
  BY <1>1
<1>3. listed' = [listed EXCEPT ![DeviceOf[t]] = entries]
  BY DEF JoinRequests
<1>4. listed \in [Devices -> SUBSET Entries] /\ DeviceOf[t] \in Devices
  BY DeviceAssumption DEF InvitesInv, ListedOK
<1> HIDE DEF entries
<1>5. ListedOK'
  <2>1. listed' \in [Devices -> SUBSET Entries]
    BY <1>2, <1>3, <1>4
  <2>2. ASSUME NEW d \in Devices, NEW entry \in listed'[d]
        PROVE  entry.sealed.wrap = entry.sealed.key
    BY <1>2, <1>3, <1>4 DEF InvitesInv, ListedOK
  <2> QED BY <2>1, <2>2 DEF ListedOK
<1> QED BY <1>5, ListingStep DEF JoinRequests

\* A damaged entry still carries what was signed.
LEMMA EntryDamagedStep ==
  ASSUME InvitesInv, NEW d \in Devices, NEW entry \in listed[d],
         NEW record \in Damaged(entry.request), NEW hash \in {entry.hash, record},
         EntryDamaged(d, entry, record, hash)
  PROVE  InvitesInv'
<1> DEFINE shown == [request |-> record, hash |-> hash, sealed |-> entry.sealed]
<1>1. listed \in [Devices -> SUBSET Entries] /\ entry \in Entries
      /\ entry.sealed.wrap = entry.sealed.key
  BY DEF InvitesInv, ListedOK
<1>2. entry.request \in JoinRequestPayloads /\ entry.hash \in JoinRequestPayloads
      /\ entry.sealed \in JoinRequestPayloads
  BY <1>1 DEF Entries
<1>3. record \in JoinRequestPayloads
  BY <1>2 DEF Damaged, JoinRequestPayloads
<1>4. shown \in Entries /\ shown.sealed = entry.sealed
  BY <1>2, <1>3 DEF Entries
<1>5. listed' = [listed EXCEPT ![d] = (listed[d] \ {entry}) \cup {shown}]
  BY DEF EntryDamaged
<1> HIDE DEF shown
<1>6. ListedOK'
  <2>1. listed' \in [Devices -> SUBSET Entries]
    BY <1>1, <1>4, <1>5
  <2>2. ASSUME NEW o \in Devices, NEW e \in listed'[o]
        PROVE  e.sealed.wrap = e.sealed.key
    <3>1. e \in listed[o] \/ e = shown
      BY <1>1, <1>5
    <3> QED BY <1>1, <1>4, <3>1 DEF InvitesInv, ListedOK
  <2> QED BY <2>1, <2>2 DEF ListedOK
<1> QED BY <1>6, ListingStep DEF EntryDamaged

\* A verified request has its requester's own wrapping key.
LEMMA VerifiedRequest ==
  ASSUME ListedOK, NEW d \in Devices, NEW entry \in listed[d], NEW n, NEW token,
         Verifies(n, token, entry)
  PROVE  entry.request \in JoinRequestPayloads /\ entry.request.wrap = entry.request.key
<1>1. entry \in Entries /\ entry.sealed.wrap = entry.sealed.key
  BY DEF ListedOK
<1>2. entry.sealed = entry.request
  BY DEF Verifies
<1> QED BY <1>1, <1>2 DEF Entries

\* An approval goes on with a verified request.
LEMMA ApproveJoinRequestStep ==
  ASSUME InvitesInv, NEW t \in Callers, NEW n \in Namespaces, NEW token \in tokens,
         NEW entry \in listed[DeviceOf[t]], ApproveJoinRequest(t, n, token, entry)
  PROVE  InvitesInv'
<1> DEFINE r == entry.request
           c == [NewCall("approve") EXCEPT !.namespace = n, !.hint = "shared", !.request = r]
<1>1. r \in JoinRequestPayloads /\ r.wrap = r.key
  <2>1. DeviceOf[t] \in Devices /\ ListedOK /\ Verifies(n, token, entry)
    BY DeviceAssumption DEF InvitesInv, ApproveJoinRequest
  <2> QED BY <2>1, VerifiedRequest
<1>2. EnsureNamespaceReady(t, c)
  BY DEF ApproveJoinRequest
<1> HIDE DEF r
<1>3. /\ c \in CallRecords /\ c.namespace = n /\ c.kind = "approve" /\ c.request = r
  BY <1>1 DEF NewCall, CallRecords, Kinds, NoRow
<1> HIDE DEF c
<1>4. CallOK(invites, "key", c)
  BY <1>1, <1>3 DEF CallOK, Labels
<1> QED BY <1>2, <1>4, EnsureNamespaceReadyStep

\* A pending request that is decided is no longer there.
LEMMA RequestDecided ==
  ASSUME InvitesInv, NEW n \in Namespaces, NEW d \in Devices,
         pending' = [pending EXCEPT ![n][d] = None], UNCHANGED invites
  PROVE  PendingOK'
<1>1. pending \in [Namespaces -> [Devices -> JoinRequestPayloads \cup {None}]]
  BY DEF InvitesInv, PendingOK
<1>2. pending' \in [Namespaces -> [Devices -> JoinRequestPayloads \cup {None}]]
  BY <1>1
<1>3. ASSUME NEW m \in Namespaces, NEW e \in Devices, pending'[m][e] # None
      PROVE  /\ RequestOK(invites', pending'[m][e])
             /\ pending'[m][e].namespace = m /\ pending'[m][e].key = e
  <2>1. pending'[m][e] = pending[m][e]
    BY <1>1, <1>3
  <2>2. /\ RequestOK(invites, pending[m][e])
        /\ pending[m][e].namespace = m /\ pending[m][e].key = e
    BY <1>3, <2>1 DEF InvitesInv, PendingOK
  <2> QED BY <2>1, <2>2
<1> QED BY <1>2, <1>3 DEF PendingOK

\* The server makes the requester a member, with a key wrapped for it.
LEMMA ApprovalAcceptedStep ==
  ASSUME InvitesInv, NEW t \in Callers, ApprovalAccepted(t) PROVE InvitesInv'
<1> DEFINE c == call[t]
           n == c.namespace
           d == c.request.key
<1>1. CallOK(invites, "approve", c)
  BY DEF ApprovalAccepted, InvitesInv, CallsOK
<1>2. n \in Namespaces /\ c.wrapped = WrapNamespaceDEK(n, n, d) /\ c.request \in JoinRequestPayloads
  BY <1>1 DEF CallOK, Labels
<1>3. d \in Devices
  BY <1>2 DEF JoinRequestPayloads
<1>4. c.wrapped \in WrappedDEKs
  BY <1>2, <1>3, WrapType
<1>5. /\ wrapped' = [wrapped EXCEPT ![n][d] = c.wrapped]
      /\ pending' = [pending EXCEPT ![n][d] = None]
      /\ UNCHANGED <<now, invites, rows, appVars>> /\ Finish(t)
  BY DEF ApprovalAccepted, AddMember
<1> HIDE DEF c, n, d
<1>6. MembersOK'
  BY <1>2, <1>3, <1>4, <1>5 DEF InvitesInv, MembersOK
<1>7. PendingOK'
  BY <1>2, <1>3, <1>5, RequestDecided
<1>8. CallsOK'
  BY <1>5, FinishStep, Unchanged
<1> QED BY <1>5, <1>6, <1>7, <1>8, RequestsChange

\* A rejected request is no longer pending.
LEMMA RejectJoinRequestStep ==
  ASSUME InvitesInv, NEW t \in Callers, NEW n \in Namespaces,
         NEW entry \in listed[DeviceOf[t]], RejectJoinRequest(t, n, entry)
  PROVE  InvitesInv'
<1>1. entry \in Entries
  BY DeviceAssumption DEF InvitesInv, ListedOK
<1>2. entry.request.key \in Devices
  BY <1>1 DEF Entries, JoinRequestPayloads
<1>3. /\ pending' = [pending EXCEPT ![n][entry.request.key] = None]
      /\ UNCHANGED <<now, wrapped, invites, rows, appVars, callVars>>
  BY DEF RejectJoinRequest
<1>4. PendingOK'
  BY <1>2, <1>3, RequestDecided
<1>5. MembersOK'
  BY <1>3 DEF InvitesInv, MembersOK
<1>6. CallsOK'
  BY <1>3, CallsStay, Unchanged
<1> QED BY <1>3, <1>4, <1>5, <1>6, RequestsChange

-----------------------------------------------------------------------------
(* Time and mishaps *)

\* Time that passes, and a call that fails, leave the invariant.
LEMMA TickOrFail ==
  ASSUME InvitesInv, Tick \/ \E t \in Callers : Fail(t) PROVE InvitesInv'
<1>1. UNCHANGED <<serverVars, rows, appVars>> /\ UNCHANGED invites /\ now' \in Nat
  BY DEF Tick, Fail, InvitesInv, serverVars
<1>2. CallsOK'
  BY <1>1, CallsStay, FinishStep, Unchanged DEF Tick, Fail
<1>3. MembersOK' /\ RowsOK' /\ ListedOK'
  BY <1>1 DEF InvitesInv, MembersOK, RowsOK, ListedOK, serverVars, appVars
<1>4. InvitesOK'
  BY <1>1 DEF InvitesInv, InvitesOK, TokensAgree, serverVars, appVars
<1>5. PendingOK'
  BY <1>1 DEF InvitesInv, PendingOK, RequestOK, serverVars
<1> QED BY <1>1, <1>2, <1>3, <1>4, <1>5 DEF InvitesInv, appVars

\* The calls, handles and listings of a device that restarts are gone.
LEMMA RestartStep ==
  ASSUME InvitesInv, NEW d \in Devices, Restart(d), RowsOK' PROVE InvitesInv'
<1>1. UNCHANGED <<now, serverVars, tokens>> /\ UNCHANGED invites
  BY DEF Restart, serverVars
<1>2. ASSUME NEW t \in Callers PROVE CallOK(invites', pc'[t], call'[t])
  <2>1. CASE DeviceOf[t] = d
    <3>1. pc'[t] = "idle" /\ call'[t] = NewCall("open")
      BY <2>1 DEF Restart
    <3> QED BY <3>1, NewCallOK
  <2>2. CASE DeviceOf[t] # d
    <3>1. pc'[t] = pc[t] /\ call'[t] = call[t]
      BY <2>2 DEF Restart
    <3> QED BY <1>1, <3>1 DEF InvitesInv, CallsOK
  <2> QED BY <2>1, <2>2
<1>3. pc' \in [Callers -> Labels]
  <2>1. \A t \in Callers : pc'[t] \in Labels
    BY <1>2 DEF CallOK
  <2>2. pc' = [t \in Callers |-> pc'[t]]
    BY DEF Restart
  <2> QED BY <2>1, <2>2
<1>4. call' \in [Callers -> CallRecords]
  <2>1. \A t \in Callers : call'[t] \in CallRecords
    BY <1>2 DEF CallOK
  <2>2. call' = [t \in Callers |-> call'[t]]
    BY DEF Restart
  <2> QED BY <2>1, <2>2
<1>5. CallsOK'
  BY <1>2, <1>3, <1>4 DEF CallsOK
<1>6. ListedOK'
  <2>1. listed' = [listed EXCEPT ![d] = {}]
    BY DEF Restart
  <2> QED BY <2>1 DEF InvitesInv, ListedOK
<1>7. handles' \in [Devices -> SUBSET Namespaces]
  BY DEF Restart, InvitesInv
<1>8. MembersOK'
  BY <1>1 DEF InvitesInv, MembersOK, serverVars
<1>9. InvitesOK'
  BY <1>1 DEF InvitesInv, InvitesOK, TokensAgree
<1>10. PendingOK'
  BY <1>1 DEF InvitesInv, PendingOK, RequestOK, serverVars
<1> QED BY <1>1, <1>5, <1>6, <1>7, <1>8, <1>9, <1>10 DEF InvitesInv

\* A device that restarts, with its rows or without, leaves the invariant.
LEMMA RestartSteps ==
  ASSUME InvitesInv, NEW d \in Devices, Crash(d) \/ ResetSyncState(d) PROVE InvitesInv'
<1>1. Restart(d)
  BY DEF Crash, ResetSyncState
<1>2. UNCHANGED rows \/ rows' = [rows EXCEPT ![d] = [n \in Namespaces |-> NoRow]]
  BY DEF Crash, ResetSyncState
<1>3. RowsOK'
  <2> DEFINE empty == [n \in Namespaces |-> NoRow]
  <2>1. NoRow.key = None
    BY DEF NoRow
  <2>2. empty \in [Namespaces -> Row \cup {NoRow}] /\ \A n \in Namespaces : empty[n].key = None
    BY <2>1
  <2> HIDE DEF empty
  <2>3. CASE UNCHANGED rows
    BY <2>3 DEF InvitesInv, RowsOK
  <2>4. CASE rows' = [rows EXCEPT ![d] = empty]
    BY <2>2, <2>4 DEF InvitesInv, RowsOK
  <2> QED BY <1>2, <2>3, <2>4 DEF empty
<1> QED BY <1>1, <1>3, RestartStep

\* A device that forgets its keys leaves the invariant.
LEMMA ForgetIdentitySecretsStep ==
  ASSUME InvitesInv, NEW d \in Devices, ForgetIdentitySecrets(d) PROVE InvitesInv'
<1> DEFINE forgotten == [n \in Namespaces |-> [rows[d][n] EXCEPT !.key = None]]
<1>1. ASSUME NEW n \in Namespaces
      PROVE  forgotten[n] \in Row \cup {NoRow} /\ forgotten[n].key = None
  <2>1. rows[d][n] \in Row \cup {NoRow}
    BY RowType DEF InvitesInv
  <2>2. CASE rows[d][n] \in Row
    BY <2>2 DEF Row
  <2>3. CASE rows[d][n] = NoRow
    BY <2>3 DEF NoRow
  <2> QED BY <2>1, <2>2, <2>3
<1>2. rows' = [rows EXCEPT ![d] = forgotten]
  BY DEF ForgetIdentitySecrets
<1>3. forgotten \in [Namespaces -> Row \cup {NoRow}] /\ \A n \in Namespaces : forgotten[n].key = None
  BY <1>1
<1> HIDE DEF forgotten
<1>4. RowsOK'
  BY <1>2, <1>3 DEF InvitesInv, RowsOK
<1>5. UNCHANGED <<now, serverVars, appVars, callVars>> /\ UNCHANGED invites
  BY DEF ForgetIdentitySecrets, serverVars
<1>6. CallsOK'
  BY <1>5, CallsStay, Unchanged
<1> QED BY <1>4, <1>5, <1>6, LocalStep DEF InvitesInv, appVars

-----------------------------------------------------------------------------
(* The invariant and what follows from it *)

\* New stores, and the members that the default namespaces have already.
LEMMA InvitesInit == Init => InvitesInv
<1> SUFFICES ASSUME Init PROVE InvitesInv
  OBVIOUS
<1>1. now \in Nat /\ handles \in [Devices -> SUBSET Namespaces]
  BY DEF Init
<1>2. MembersOK
  <2>1. wrapped = [n \in Namespaces |-> [d \in Devices |->
                     IF n \in Shared \/ d # Creator[n] THEN None ELSE WrapNamespaceDEK(n, n, d)]]
    BY DEF Init
  <2>2. \A n \in Namespaces, d \in Devices : WrapNamespaceDEK(n, n, d) \in WrappedDEKs
    BY WrapType
  <2> QED BY <2>1, <2>2 DEF MembersOK
<1>3. RowsOK
  BY DEF Init, RowsOK, NoRow
<1>4. InvitesOK /\ PendingOK /\ ListedOK
  BY DEF Init, InvitesOK, TokensAgree, PendingOK, ListedOK
<1>5. CallsOK
  <2>1. ASSUME NEW t \in Callers PROVE CallOK(invites, pc[t], call[t])
    <3>1. pc[t] = "idle" /\ call[t] = NewCall("open")
      BY DEF Init
    <3> QED BY <3>1, NewCallOK
  <2>2. \A t \in Callers : pc[t] \in Labels /\ call[t] \in CallRecords
    BY <2>1 DEF CallOK
  <2> QED BY <2>1, <2>2 DEF Init, CallsOK
<1> QED BY <1>1, <1>2, <1>3, <1>4, <1>5 DEF InvitesInv

\* What a call does once it is under way leaves the invariant.
LEMMA StepOK == ASSUME InvitesInv, NEW t \in Callers, Step(t) PROVE InvitesInv'
<1>1. CASE CreateStep(t)
  BY <1>1, CreateStepOK, SaveCreatedStep DEF CreateStep
<1>2. CASE JoinStep(t)
  BY <1>2, WrappedDEKReceivedStep, SaveJoinedStep DEF JoinStep
<1>3. CASE PassStep(t)
  BY <1>3, PassBounds, VisitStep, SaveRowStep DEF PassStep
<1>4. CASE InviteStep(t)
  BY <1>4, DrawInviteStep, InviteCreatedStep DEF InviteStep
<1>5. CASE RequestStep(t)
  BY <1>5, JoinRequestStoredStep, ApprovalAcceptedStep DEF RequestStep
<1> QED BY <1>1, <1>2, <1>3, <1>4, <1>5 DEF Step

\* What an app calls leaves the invariant.
LEMMA AppStepOK == ASSUME InvitesInv, NEW t \in Callers, AppStep(t) PROVE InvitesInv'
<1>1. CASE OpenStep(t)
  BY <1>1, StartCalls, ReadyCalls DEF OpenStep
<1>2. CASE OwnerStep(t)
  BY <1>2, ReadyCalls, RevokeInviteStep, JoinRequestsStep, RejectJoinRequestStep,
     ApproveJoinRequestStep DEF OwnerStep
<1>3. CASE JoinerStep(t)
  BY <1>3, SubmitJoinRequestStep DEF JoinerStep
<1> QED BY <1>1, <1>2, <1>3 DEF AppStep

\* A mishap leaves the invariant.
LEMMA FaultStepOK == ASSUME InvitesInv, FaultStep PROVE InvitesInv'
<1>1. CASE DamageStep
  BY <1>1, EntryDamagedStep DEF DamageStep
<1>2. CASE \E t \in Callers : Lost(t)
  BY <1>2, CreateStepOK, InviteCreatedStep, TickOrFail DEF Lost
<1>3. CASE \E d \in Devices : Crash(d) \/ ResetSyncState(d) \/ ForgetIdentitySecrets(d)
  BY <1>3, RestartSteps, ForgetIdentitySecretsStep
<1> QED BY <1>1, <1>2, <1>3 DEF FaultStep

\* Every step leaves the invariant.
LEMMA InvitesNext == ASSUME InvitesInv, [Next]_vars PROVE InvitesInv'
<1>1. CASE \E t \in Callers : Step(t) \/ AppStep(t) \/ ListNamespaces(t)
  BY <1>1, StepOK, AppStepOK, PassBounds
<1>2. CASE FaultStep \/ Tick
  BY <1>2, FaultStepOK, TickOrFail
<1>3. CASE UNCHANGED vars
  <2>1. UNCHANGED <<now, serverVars, rows, handles, tokens, listed, callVars>>
    BY <1>3 DEF vars, appVars
  <2>2. ListedOK'
    BY <2>1 DEF InvitesInv, ListedOK
  <2> QED BY <2>1, <2>2, ListingStep
<1> QED BY <1>1, <1>2, <1>3 DEF Next

\* The chain from a token to a member's key stays in order, through every call of any
\* app, every lost response and every restart.
THEOREM InvitesInvariant == Spec => []InvitesInv
  BY InvitesInit, InvitesNext, PTL DEF Spec

\* What every variable of the membership model holds has its type: the calls of
\* namespace_invites.go and engine_namespace.go build only such requests, tokens and rows.
THEOREM MembershipTypes == Spec => []TypeOK
<1>1. InvitesInv => TypeOK
  BY DEF InvitesInv, TypeOK, MembersOK, RowsOK, InvitesOK, PendingOK, ListedOK, CallsOK
<1> QED BY <1>1, InvitesInvariant, PTL

\* Whatever ApproveJoinRequest, CreateSharedNamespace and joinNamespace do, the server
\* has for each member the key of that namespace wrapped for that member, and a store
\* caches no other key.
THEOREM KeyAgreement == Spec => []KeysAgree
<1>1. InvitesInv => KeysAgree
  BY DEF InvitesInv, KeysAgree, MembersOK, RowsOK
<1> QED BY <1>1, InvitesInvariant, PTL

\* A token that CreateInvite returns is that of the invite the server has, also after a
\* retry with the same ID.
THEOREM TokenAgreement == Spec => []TokensAgree
<1>1. InvitesInv => TokensAgree
  BY DEF InvitesInv, InvitesOK
<1> QED BY <1>1, InvitesInvariant, PTL

\* What SubmitJoinRequest makes passes verifyJoinRequestForApproval until it expires.
THEOREM HonestVerification == Spec => []HonestRequestVerifies
<1>1. ASSUME InvitesInv, NEW n \in Namespaces, NEW d \in Devices, NEW token \in tokens,
             Active(pending[n][d]), pending[n][d].invite = token.invite
      PROVE  Verifies(n, token, Entry(pending[n][d]))
  <2> DEFINE r == pending[n][d]
  <2>1. RequestOK(invites, r) /\ r.namespace = n /\ r.expiresAt > now
    BY <1>1 DEF InvitesInv, PendingOK, Active
  <2>2. r \in JoinRequestPayloads /\ token \in InviteTokens
    BY <1>1, <2>1 DEF RequestOK, InvitesInv, InvitesOK
  <2>3. invites[r.invite].namespace = token.namespace /\ invites[r.invite].expiresAt = token.expiresAt
    BY <1>1 DEF InvitesInv, InvitesOK, TokensAgree
  <2>4. token.namespace = n /\ r.expiresAt <= token.expiresAt
    BY <2>1, <2>3 DEF RequestOK
  <2>5. token.expiresAt > now
    BY <1>1, <2>1, <2>2, <2>4 DEF JoinRequestPayloads, InviteTokens, InvitesInv
  <2>6. Entry(r).request = r /\ Entry(r).hash = r /\ Entry(r).sealed = r
    BY DEF Entry
  <2> QED BY <1>1, <2>1, <2>4, <2>5, <2>6 DEF Verifies, VerifiesMetadata
<1>2. InvitesInv => HonestRequestVerifies
  BY <1>1 DEF HonestRequestVerifies
<1> QED BY <1>2, InvitesInvariant, PTL

-----------------------------------------------------------------------------
(* Who may hold a key *)

\* At these labels a call is about to save a row with a key.
SaveLabels == {"saveCreated", "saveJoined", "saveRow"}

\* A stored key, and one that is about to be stored, is that of a member.  An approval
\* or a row is not undone, so that this survives whatever happens in between.
RowHolders == \A n \in Namespaces, d \in Devices : rows[d][n].key # None => wrapped[n][d] # None

CallHolders ==
    \A t \in Callers : pc[t] \in SaveLabels => wrapped[call[t].namespace][DeviceOf[t]] # None

HoldersInv == RowHolders /\ CallHolders

\* The server takes no wrapped key away.
Grown == \A n \in Namespaces, d \in Devices : wrapped[n][d] # None => wrapped'[n][d] # None

\* A caller moves to a label at which it is not about to save a key.
Moves(t) ==
    \E label \in Labels \ SaveLabels : \E c : Goto(t, label) /\ call' = [call EXCEPT ![t] = c]

\* The namespace of a call that is about to save a key is one.
LEMMA SaverNamespace ==
  ASSUME InvitesInv, NEW t \in Callers, pc[t] \in SaveLabels
  PROVE  call[t].namespace \in Namespaces /\ DeviceOf[t] \in Devices
<1>1. CallOK(invites, pc[t], call[t])
  BY DEF InvitesInv, CallsOK
<1> QED BY <1>1, DeviceAssumption DEF CallOK, SaveLabels

\* Keys that are not touched are still those of members.
LEMMA RowsHeld == ASSUME RowHolders, UNCHANGED rows, Grown PROVE RowHolders'
  BY DEF RowHolders, Grown

\* So are the keys that other calls are about to save.
LEMMA CallsHeld ==
  ASSUME InvitesInv, CallHolders, UNCHANGED callVars, Grown
  PROVE  CallHolders'
<1>1. ASSUME NEW t \in Callers, pc[t] \in SaveLabels
      PROVE  wrapped'[call[t].namespace][DeviceOf[t]] # None
  BY <1>1, SaverNamespace DEF CallHolders, Grown
<1> QED BY <1>1 DEF CallHolders, callVars

\* One caller moves; if it is about to save a key now, it is a member's.
LEMMA CallerHolds ==
  ASSUME InvitesInv, CallHolders, Grown, NEW t \in Callers, NEW label, NEW c,
         Goto(t, label), call' = [call EXCEPT ![t] = c],
         label \in SaveLabels => wrapped'[c.namespace][DeviceOf[t]] # None
  PROVE  CallHolders'
<1>1. pc \in [Callers -> Labels] /\ call \in [Callers -> CallRecords]
  BY DEF InvitesInv, CallsOK
<1>2. ASSUME NEW u \in Callers, pc'[u] \in SaveLabels
      PROVE  wrapped'[call'[u].namespace][DeviceOf[u]] # None
  <2>1. CASE u = t
    BY <1>1, <1>2, <2>1 DEF Goto
  <2>2. CASE u # t
    <3>1. pc'[u] = pc[u] /\ call'[u] = call[u]
      BY <1>1, <2>2 DEF Goto
    <3>2. wrapped[call[u].namespace][DeviceOf[u]] # None
      BY <1>2, <3>1 DEF CallHolders
    <3> QED BY <1>2, <3>1, <3>2, SaverNamespace DEF Grown
  <2> QED BY <2>1, <2>2
<1> QED BY <1>2 DEF CallHolders

\* A caller that moves elsewhere leaves the others as they are.
LEMMA MoveHolds ==
  ASSUME InvitesInv, CallHolders, Grown, NEW t \in Callers, Moves(t)
  PROVE  CallHolders'
<1>1. PICK label \in Labels \ SaveLabels : \E c : Goto(t, label) /\ call' = [call EXCEPT ![t] = c]
  BY DEF Moves
<1>2. PICK c : Goto(t, label) /\ call' = [call EXCEPT ![t] = c]
  BY <1>1
<1>3. label \notin SaveLabels
  OBVIOUS
<1> QED BY <1>2, <1>3, CallerHolds

\* A call that begins, goes on with its namespace or returns makes such a move.
LEMMA PlainMoves ==
  ASSUME NEW t \in Callers, NEW c, NEW row
  PROVE  /\ Finish(t) => Moves(t)
         /\ \A label \in Labels \ SaveLabels : Start(t, label, c) => Moves(t)
         /\ Ready(t, c, row) => Moves(t)
         /\ EnsureNamespaceReady(t, c) => Moves(t)
<1>1. Finish(t) => Moves(t)
  BY DEF Finish, Moves, Labels, SaveLabels
<1>2. \A label \in Labels \ SaveLabels : Start(t, label, c) => Moves(t)
  BY DEF Start, Moves
<1>3. ASSUME NEW r, Proceed(t, c, r) PROVE Moves(t)
  <2>1. CASE Finish(t)
    BY <1>1, <2>1
  <2>2. CASE Goto(t, "draw") /\ call' = [call EXCEPT ![t] = c]
    BY <2>2 DEF Moves, Labels, SaveLabels
  <2>3. CASE /\ Goto(t, "approve")
             /\ call' = [call EXCEPT ![t] =
                  [c EXCEPT !.wrapped = WrapNamespaceDEK(c.namespace, r.key, c.request.wrap)]]
    BY <2>3 DEF Moves, Labels, SaveLabels
  <2> QED BY <1>3, <2>1, <2>2, <2>3 DEF Proceed
<1>4. \A r : Ready(t, c, r) => Moves(t)
  BY <1>1, <1>3, Zenon DEF Ready
<1>5. EnsureNamespaceReady(t, c) => Moves(t)
  <2>1. "key" \in Labels \ SaveLabels
    BY DEF Labels, SaveLabels
  <2> QED BY <1>2, <1>4, <2>1, Zenon DEF EnsureNamespaceReady
<1> QED BY <1>1, <1>2, <1>4, <1>5

\* A step of the membership specification, or none.
Refines == Membership!Next \/ UNCHANGED Membership!vars

\* What the specification sees, part by part.
LEMMA Seen ==
  /\ UNCHANGED wrapped => UNCHANGED Accesses
  /\ UNCHANGED invites => UNCHANGED OfferedFor
  /\ UNCHANGED <<now, invites>> => UNCHANGED OpenInvites
  /\ UNCHANGED <<now, pending>> => UNCHANGED AskedWith
  /\ UNCHANGED rows => UNCHANGED StoredKeys
<1>1. ASSUME UNCHANGED wrapped PROVE UNCHANGED Accesses
  BY <1>1 DEF Accesses, Access
<1>2. ASSUME UNCHANGED invites PROVE UNCHANGED OfferedFor
  BY <1>2 DEF OfferedFor
<1>3. ASSUME UNCHANGED <<now, invites>> PROVE UNCHANGED OpenInvites
  BY <1>3 DEF OpenInvites, Open
<1>4. ASSUME UNCHANGED <<now, pending>> PROVE UNCHANGED AskedWith
  BY <1>4 DEF AskedWith, Active
<1>5. ASSUME UNCHANGED rows PROVE UNCHANGED StoredKeys
  BY <1>5 DEF StoredKeys
<1> QED BY <1>1, <1>2, <1>3, <1>4, <1>5

\* A device has access when the server holds a wrapped key for it.
LEMMA AccessIs ==
  ASSUME InvitesInv, NEW n \in Namespaces, NEW d \in Devices
  PROVE  /\ Accesses[n][d] = IF wrapped[n][d] = None THEN "none" ELSE "granted"
         /\ Member(n, d) => Membership!IsMember(n, d)
<1>1. wrapped[n][d] \in {None, WrapNamespaceDEK(n, n, d)}
  BY DEF InvitesInv, MembersOK
<1>2. Access(n, d) = IF wrapped[n][d] = None THEN "none" ELSE "granted"
  <2>1. CASE wrapped[n][d] = None
    <3>1. None # WrapNamespaceDEK(n, n, d)
      BY NoneAssumption, WrapType
    <3> QED BY <2>1, <3>1 DEF Access
  <2>2. CASE wrapped[n][d] # None
    <3>1. wrapped[n][d] = WrapNamespaceDEK(n, n, d)
      BY <1>1, <2>2
    <3> QED BY <2>2, <3>1 DEF Access
  <2> QED BY <2>1, <2>2
<1>3. Accesses[n][d] = Access(n, d)
  BY DEF Accesses
<1> QED BY <1>2, <1>3 DEF Membership!IsMember, Member

\* A step that touches no row and nothing of the server shows the specification nothing.
LEMMA QuietStep ==
  ASSUME RowHolders, UNCHANGED <<now, serverVars, rows>>, CallHolders'
  PROVE  HoldersInv' /\ Refines
<1>1. UNCHANGED <<now, wrapped, invites, pending, rows>>
  BY DEF serverVars
<1>2. RowHolders'
  BY <1>1, RowsHeld DEF Grown
<1>3. UNCHANGED Membership!vars
  BY <1>1, Seen DEF Membership!vars
<1> QED BY <1>2, <1>3 DEF HoldersInv, Refines

\* The calls that begin, and the steps of calls that only move on.
LEMMA QuietCalls ==
  ASSUME InvitesInv, HoldersInv, NEW t \in Callers,
         \/ \E n \in Namespaces :
              CreateSharedNamespace(t, n) \/ Namespace(t, n) \/ JoinNamespace(t, n) \/ CreateInvite(t, n)
         \/ \E n \in Namespaces, token \in tokens, entry \in listed[DeviceOf[t]] :
              ApproveJoinRequest(t, n, token, entry)
         \/ JoinerStep(t) \/ ListNamespaces(t) \/ ListLocal(t) \/ PassEnds(t) \/ Fail(t)
         \/ \E i \in InviteIDs, ttl \in 1..MaxInviteTTL : DrawInvite(t, i, ttl)
  PROVE  HoldersInv' /\ Refines
<1>1. UNCHANGED <<now, serverVars, rows>>
  BY DEF CreateSharedNamespace, Namespace, JoinNamespace, CreateInvite, ApproveJoinRequest,
     EnsureNamespaceReady, JoinerStep, SubmitJoinRequest, ListNamespaces, ListLocal, PassEnds, Fail,
     DrawInvite
<1>2. {"create", "key", "submit", "list", "visit", "invite", "idle"} \subseteq Labels \ SaveLabels
  BY DEF Labels, SaveLabels
<1>3. Moves(t)
  <2>1. CASE \E n \in Namespaces : CreateSharedNamespace(t, n) \/ JoinNamespace(t, n)
    BY <1>2, <2>1, PlainMoves, Zenon DEF CreateSharedNamespace, JoinNamespace
  <2>2. CASE \/ \E n \in Namespaces : Namespace(t, n) \/ CreateInvite(t, n)
             \/ \E n \in Namespaces, token \in tokens, entry \in listed[DeviceOf[t]] :
                  ApproveJoinRequest(t, n, token, entry)
    BY <2>2, PlainMoves, Zenon DEF Namespace, CreateInvite, ApproveJoinRequest
  <2>3. CASE JoinerStep(t) \/ ListNamespaces(t) \/ PassEnds(t) \/ Fail(t)
    BY <1>2, <2>3, PlainMoves, Zenon
       DEF JoinerStep, SubmitJoinRequest, ListNamespaces, PassEnds, Fail
  <2>4. CASE ListLocal(t)
    <3>1. CASE Goto(t, "visit") /\ UNCHANGED call
      <4>1. call' = [call EXCEPT ![t] = call[t]]
        BY <3>1 DEF InvitesInv, CallsOK
      <4> QED BY <1>2, <3>1, <4>1 DEF Moves
    <3> QED BY <2>4, <3>1, PlainMoves DEF ListLocal
  <2>5. CASE \E i \in InviteIDs, ttl \in 1..MaxInviteTTL : DrawInvite(t, i, ttl)
    <3>1. Goto(t, "invite") /\ \E c : call' = [call EXCEPT ![t] = c]
      BY <2>5 DEF DrawInvite
    <3> QED BY <1>2, <3>1 DEF Moves
  <2> QED BY <2>1, <2>2, <2>3, <2>4, <2>5
<1>4. CallHolders'
  BY <1>1, <1>3, MoveHolds DEF HoldersInv, Grown, serverVars
<1> QED BY <1>1, <1>4, QuietStep DEF HoldersInv

\* The calls of a device end, and those of the others are still members' calls.
LEMMA RestartHolds ==
  ASSUME InvitesInv, HoldersInv, NEW d \in Devices, Restart(d) PROVE CallHolders'
<1>1. wrapped' = wrapped
  BY DEF Restart, serverVars
<1>2. ASSUME NEW t \in Callers, pc'[t] \in SaveLabels
      PROVE  pc[t] \in SaveLabels /\ call'[t] = call[t]
  BY <1>2 DEF Restart, SaveLabels
<1> QED BY <1>1, <1>2 DEF HoldersInv, CallHolders

\* Listings, with or without damage, and crashes.
LEMMA QuietOthers ==
  ASSUME InvitesInv, HoldersInv,
         \/ \E t \in Callers, n \in Namespaces : JoinRequests(t, n)
         \/ DamageStep \/ \E d \in Devices : Crash(d)
         \/ UNCHANGED vars
  PROVE  HoldersInv' /\ Refines
<1>1. UNCHANGED <<now, serverVars, rows>>
  BY DEF JoinRequests, DamageStep, EntryDamaged, Crash, Restart, vars
<1>2. Grown
  BY <1>1 DEF Grown, serverVars
<1>3. CallHolders'
  <2>1. CASE UNCHANGED callVars
    BY <1>2, <2>1, CallsHeld DEF HoldersInv
  <2>2. CASE \E d \in Devices : Crash(d)
    BY <2>2, RestartHolds DEF Crash
  <2> QED BY <2>1, <2>2 DEF JoinRequests, DamageStep, EntryDamaged, vars
<1> QED BY <1>1, <1>3, QuietStep DEF HoldersInv

\* A call of a member that is about to save a key shows the specification nothing yet.
LEMMA QuietMove ==
  ASSUME InvitesInv, HoldersInv, UNCHANGED <<now, serverVars, rows>>,
         NEW t \in Callers, NEW label, NEW c, Goto(t, label), call' = [call EXCEPT ![t] = c],
         label \in SaveLabels => wrapped[c.namespace][DeviceOf[t]] # None
  PROVE  HoldersInv' /\ Refines
<1>1. wrapped' = wrapped
  BY DEF serverVars
<1>2. Grown
  BY <1>1 DEF Grown
<1>3. CallHolders'
  BY <1>1, <1>2, CallerHolds DEF HoldersInv
<1> QED BY <1>3, QuietStep DEF HoldersInv

\* GetWrappedDEK answers members only.
LEMMA QuietWrappedDEK ==
  ASSUME InvitesInv, HoldersInv, NEW t \in Callers, WrappedDEKReceived(t)
  PROVE  HoldersInv' /\ Refines
<1> DEFINE n == call[t].namespace
           c == [call[t] EXCEPT
                   !.row = JoinedRow(rows[DeviceOf[t]][n], wrapped[n][DeviceOf[t]].key, call[t].hint)]
<1>1. call[t] \in CallRecords /\ call \in [Callers -> CallRecords]
  BY DEF InvitesInv, CallsOK
<1>2. call' = [call EXCEPT ![t] = c] /\ Goto(t, "saveJoined")
  BY <1>1 DEF WrappedDEKReceived
<1>3. c.namespace = n
  BY <1>1 DEF CallRecords
<1>4. wrapped[n][DeviceOf[t]] # None
  BY DEF WrappedDEKReceived, UnwrapsNamespaceDEK
<1>5. UNCHANGED <<now, serverVars, rows>>
  BY DEF WrappedDEKReceived
<1> HIDE DEF c, n
<1>6. wrapped[c.namespace][DeviceOf[t]] # None
  BY <1>3, <1>4
<1> QED BY <1>2, <1>5, <1>6, QuietMove

\* A pass goes on with a row whose key is in the store, or asks for the key.
LEMMA QuietVisit ==
  ASSUME InvitesInv, HoldersInv, NEW t \in Callers, NEW n \in Namespaces, Visit(t, n)
  PROVE  HoldersInv' /\ Refines
<1> DEFINE c == [call[t] EXCEPT !.namespace = n, !.hint = Kind(n)]
           saved == [c EXCEPT !.row = ListedRow(rows[DeviceOf[t]][n], n)]
<1>1. call[t] \in CallRecords /\ DeviceOf[t] \in Devices
  BY DeviceAssumption DEF InvitesInv, CallsOK
<1>2. saved.namespace = n
  BY <1>1 DEF CallRecords
<1>3. UNCHANGED <<now, serverVars, rows>>
  BY DEF Visit
<1>4. \/ Goto(t, "key") /\ call' = [call EXCEPT ![t] = c]
      \/ /\ rows[DeviceOf[t]][n].key # None /\ Goto(t, "saveRow")
         /\ call' = [call EXCEPT ![t] = saved]
  BY DEF Visit
<1> HIDE DEF c, saved
<1>5. CASE Goto(t, "key") /\ call' = [call EXCEPT ![t] = c]
  <2>1. "key" \notin SaveLabels
    BY DEF SaveLabels
  <2> QED BY <1>3, <1>5, <2>1, QuietMove
<1>6. CASE /\ rows[DeviceOf[t]][n].key # None /\ Goto(t, "saveRow")
           /\ call' = [call EXCEPT ![t] = saved]
  <2>1. wrapped[saved.namespace][DeviceOf[t]] # None
    BY <1>1, <1>2, <1>6 DEF HoldersInv, RowHolders
  <2> QED BY <1>3, <1>6, <2>1, QuietMove
<1> QED BY <1>4, <1>5, <1>6

\* The other variables of the specification, when only rows change.
LEMMA OnlyRows ==
  ASSUME UNCHANGED <<now, serverVars>>
  PROVE  UNCHANGED <<Accesses, OfferedFor, OpenInvites, AskedWith>>
<1>1. UNCHANGED <<now, wrapped, invites, pending>>
  BY DEF serverVars
<1> QED BY <1>1, Seen

\* A member's row with its key is what the specification calls learning it.
LEMMA Learns ==
  ASSUME InvitesInv, HoldersInv, NEW d \in Devices, NEW n \in Namespaces, NEW row,
         row.key = n, wrapped[n][d] # None, SaveNamespace(d, n, row),
         UNCHANGED <<now, serverVars>>, CallHolders'
  PROVE  HoldersInv' /\ Refines
<1>1. rows \in [Devices -> [Namespaces -> Row \cup {NoRow}]] /\ n # None
  BY NoneAssumption DEF InvitesInv, RowsOK
<1>2. \A e \in Devices, m \in Namespaces :
        rows'[e][m] = IF e = d /\ m = n THEN row ELSE rows[e][m]
  BY <1>1 DEF SaveNamespace
<1>3. RowHolders'
  BY <1>2 DEF HoldersInv, RowHolders, serverVars
<1>4. Membership!IsMember(n, d)
  BY AccessIs DEF Member
<1>5. StoredKeys' = [StoredKeys EXCEPT ![d] = @ \cup {n}]
  <2>1. ASSUME NEW e \in Devices
        PROVE  StoredKeys'[e] = IF e = d THEN StoredKeys[e] \cup {n} ELSE StoredKeys[e]
    BY <1>1, <1>2 DEF StoredKeys
  <2> QED BY <2>1 DEF StoredKeys
<1>6. Membership!Learn(n, d)
  BY <1>4, <1>5, OnlyRows DEF Membership!Learn
<1> QED BY <1>3, <1>6 DEF HoldersInv, Refines, Membership!Next

\* CreateSharedNamespace and joinNamespace save keys of members.
LEMMA LearnSteps ==
  ASSUME InvitesInv, HoldersInv, NEW t \in Callers, SaveCreated(t) \/ SaveJoined(t) \/ SaveRow(t)
  PROVE  HoldersInv' /\ Refines
<1> DEFINE d == DeviceOf[t]
           n == call[t].namespace
<1>1. pc[t] \in SaveLabels
  BY DEF SaveCreated, SaveJoined, SaveRow, SaveLabels
<1>2. d \in Devices /\ n \in Namespaces /\ wrapped[n][d] # None
  BY <1>1, SaverNamespace DEF HoldersInv, CallHolders
<1>3. CallOK(invites, pc[t], call[t])
  BY DEF InvitesInv, CallsOK
<1>4. UNCHANGED <<now, serverVars>> /\ Grown
  BY DEF SaveCreated, SaveJoined, SaveRow, Grown, serverVars
<1>5. "visit" \in Labels \ SaveLabels
  BY DEF Labels, SaveLabels
<1>6. \E row : row.key = n /\ SaveNamespace(d, n, row)
  <2>1. CASE SaveCreated(t)
    <3>1. SaveNamespace(d, n, [key |-> n, kind |-> "shared"])
      BY <2>1 DEF SaveCreated
    <3>2. [key |-> n, kind |-> "shared"].key = n
      OBVIOUS
    <3> QED BY <3>1, <3>2
  <2>2. CASE SaveJoined(t) \/ SaveRow(t)
    <3>1. SaveNamespace(d, n, call[t].row) /\ pc[t] \in {"saveJoined", "saveRow"}
      BY <2>2 DEF SaveJoined, SaveRow
    <3>2. call[t].row.key = n
      BY <1>3, <3>1 DEF CallOK
    <3> QED BY <3>1, <3>2
  <2> QED BY <2>1, <2>2
<1>7. CallHolders'
  <2>1. CASE Moves(t)
    BY <1>4, <2>1, MoveHolds DEF HoldersInv
  <2>2. CASE SaveCreated(t)
    BY <2>1, <2>2, PlainMoves DEF SaveCreated
  <2>3. CASE SaveJoined(t)
    <3>1. CASE Ready(t, call[t], call[t].row)
      BY <2>1, <3>1, PlainMoves
    <3>2. CASE Goto(t, "saveRow") /\ UNCHANGED call
      <4>1. call' = [call EXCEPT ![t] = call[t]]
        BY <3>2 DEF InvitesInv, CallsOK
      <4>2. wrapped'[call[t].namespace][DeviceOf[t]] # None
        BY <1>2, <1>4 DEF serverVars
      <4> QED BY <1>4, <3>2, <4>1, <4>2, CallerHolds DEF HoldersInv
    <3> QED BY <2>3, <3>1, <3>2 DEF SaveJoined
  <2>4. CASE SaveRow(t)
    BY <1>5, <2>1, <2>4 DEF SaveRow, Moves
  <2> QED BY <2>2, <2>3, <2>4
<1> HIDE DEF d, n
<1>8. PICK row : row.key = n /\ SaveNamespace(d, n, row)
  BY <1>6
<1> QED BY <1>2, <1>4, <1>7, <1>8, Learns

\* A right wrapped key in the server's record is what the specification calls access.
LEMMA Granted ==
  ASSUME InvitesInv, NEW n \in Namespaces, NEW d \in Devices,
         AddMember(n, d, WrapNamespaceDEK(n, n, d))
  PROVE  Membership!Grant(n, d) /\ Grown /\ wrapped'[n][d] # None
<1> DEFINE w == WrapNamespaceDEK(n, n, d)
<1>1. w # None
  BY NoneAssumption, WrapType
<1>2. wrapped' = [wrapped EXCEPT ![n][d] = w] /\ wrapped \in [Namespaces -> [Devices -> WrappedDEKs \cup {None}]]
  BY DEF AddMember, InvitesInv, MembersOK
<1> HIDE DEF w
<1>3. \A m \in Namespaces, e \in Devices :
        wrapped'[m][e] = IF m = n /\ e = d THEN w ELSE wrapped[m][e]
  BY <1>2
<1>4. \A m \in Namespaces, e \in Devices :
        Accesses'[m][e] = IF m = n /\ e = d THEN "granted" ELSE Accesses[m][e]
  <2>1. ASSUME NEW m \in Namespaces, NEW e \in Devices, m = n /\ e = d
        PROVE  Accesses'[m][e] = "granted"
    <3>1. wrapped'[m][e] = WrapNamespaceDEK(m, m, e) /\ wrapped'[m][e] # None
      BY <1>1, <1>3, <2>1 DEF w
    <3> QED BY <3>1 DEF Accesses, Access
  <2>2. ASSUME NEW m \in Namespaces, NEW e \in Devices, ~(m = n /\ e = d)
        PROVE  Accesses'[m][e] = Accesses[m][e]
    <3>1. wrapped'[m][e] = wrapped[m][e]
      BY <1>3, <2>2
    <3> QED BY <3>1 DEF Accesses, Access
  <2> QED BY <2>1, <2>2
<1>5. Accesses' = [Accesses EXCEPT ![n][d] = "granted"]
  <2>1. /\ Accesses = [m \in Namespaces |-> [e \in Devices |-> Accesses[m][e]]]
        /\ Accesses' = [m \in Namespaces |-> [e \in Devices |-> Accesses'[m][e]]]
    BY DEF Accesses
  <2> QED BY <1>4, <2>1
<1> QED BY <1>1, <1>3, <1>5 DEF Grown, Membership!Grant

\* The server creates a namespace that has no members yet.
LEMMA FoundSteps ==
  ASSUME InvitesInv, HoldersInv, NEW t \in Callers, CreateSharedAccepted(t) \/ CreateSharedLost(t)
  PROVE  HoldersInv' /\ Refines
<1> DEFINE d == DeviceOf[t]
           n == call[t].namespace
<1>1. CreateAccepted(t)
  BY DEF CreateSharedAccepted, CreateSharedLost
<1>2. CallOK(invites, pc[t], call[t]) /\ call \in [Callers -> CallRecords]
  BY DEF InvitesInv, CallsOK
<1>3. n \in Namespaces /\ d \in Devices
  BY <1>1, <1>2, DeviceAssumption DEF CallOK, CreateAccepted
<1>4. /\ wrapped[n] = NoMembers /\ AddMember(n, d, WrapNamespaceDEK(n, n, d))
      /\ UNCHANGED <<now, invites, pending, rows>>
  BY <1>1 DEF CreateAccepted
<1>5. /\ Goto(t, "saveCreated") /\ call' = [call EXCEPT ![t] = call[t]]
      \/ Finish(t)
  BY <1>2 DEF CreateSharedAccepted, CreateSharedLost
<1>6. n = call[t].namespace /\ d = DeviceOf[t]
  OBVIOUS
<1> HIDE DEF n, d
<1>7. Membership!Grant(n, d) /\ Grown /\ wrapped'[n][d] # None
  BY <1>3, <1>4, Granted
<1>8. \A e \in Devices : Accesses[n][e] = "none"
  BY <1>3, <1>4, AccessIs DEF NoMembers
<1>9. Membership!Found(n, d)
  BY <1>4, <1>7, <1>8, Seen DEF Membership!Found
<1>10. CallHolders'
  <2>1. CASE Finish(t)
    BY <1>7, <2>1, PlainMoves, MoveHolds DEF HoldersInv
  <2>2. CASE Goto(t, "saveCreated") /\ call' = [call EXCEPT ![t] = call[t]]
    BY <1>6, <1>7, <2>2, CallerHolds DEF HoldersInv
  <2> QED BY <1>5, <2>1, <2>2
<1>11. RowHolders'
  BY <1>4, <1>7, RowsHeld DEF HoldersInv
<1> QED BY <1>3, <1>9, <1>10, <1>11 DEF HoldersInv, Refines, Membership!Next

\* The other variables of the specification, when only invites change.
LEMMA OnlyInvites ==
  ASSUME InvitesInv, HoldersInv, UNCHANGED <<now, wrapped, pending, rows>>, CallHolders'
  PROVE  /\ HoldersInv'
         /\ UNCHANGED <<Accesses, AskedWith, StoredKeys>>
<1>1. RowHolders'
  BY RowsHeld DEF HoldersInv, Grown
<1> QED BY <1>1, Seen DEF HoldersInv

\* One invite is stored or revoked.
LEMMA InviteChanges ==
  ASSUME InvitesInv, UNCHANGED now, NEW i \in InviteIDs, NEW record,
         invites' = [invites EXCEPT ![i] = record]
  PROVE  /\ \A j \in InviteIDs \ {i} : (j \in OpenInvites') <=> (j \in OpenInvites)
         /\ record # None => OfferedFor' = [OfferedFor EXCEPT ![i] = record.namespace]
<1>1. \A j \in InviteIDs : invites'[j] = IF j = i THEN record ELSE invites[j]
  BY DEF InvitesInv, InvitesOK
<1>2. \A j \in InviteIDs \ {i} : Open(j)' <=> Open(j)
  BY <1>1 DEF Open
<1>3. ASSUME record # None
      PROVE  OfferedFor' = [OfferedFor EXCEPT ![i] = record.namespace]
  <2>1. \A j \in InviteIDs : OfferedFor'[j] = IF j = i THEN record.namespace ELSE OfferedFor[j]
    BY <1>1, <1>3 DEF OfferedFor
  <2>2. /\ OfferedFor = [j \in InviteIDs |-> OfferedFor[j]]
        /\ OfferedFor' = [j \in InviteIDs |-> OfferedFor'[j]]
    BY DEF OfferedFor
  <2> QED BY <2>1, <2>2
<1>4. \A j : /\ j \in OpenInvites' <=> j \in InviteIDs /\ Open(j)'
             /\ j \in OpenInvites <=> j \in InviteIDs /\ Open(j)
  BY DEF OpenInvites
<1> QED BY <1>2, <1>3, <1>4

\* CreateInvite: an invite of a member, or one that was stored before its response was lost.
LEMMA OfferSteps ==
  ASSUME InvitesInv, HoldersInv, NEW t \in Callers, InviteCreated(t) \/ InviteLost(t)
  PROVE  HoldersInv' /\ Refines
<1> DEFINE token == call[t].token
           n == token.namespace
           i == token.invite
           d == DeviceOf[t]
<1>1. InviteStored(t) /\ Finish(t)
  BY DEF InviteCreated, InviteLost
<1>2. token \in InviteTokens
  BY <1>1, InviteStoredOK
<1>3. n \in Namespaces /\ i \in InviteIDs /\ d \in Devices
  BY <1>2, DeviceAssumption DEF InviteTokens
<1>4. UNCHANGED <<now, wrapped, pending, rows>> /\ Grown
  BY <1>1 DEF InviteStored, Grown
<1>5. CallHolders'
  BY <1>1, <1>4, PlainMoves, MoveHolds DEF HoldersInv
<1>6. HoldersInv' /\ UNCHANGED <<Accesses, AskedWith, StoredKeys>>
  BY <1>4, <1>5, OnlyInvites
<1>7. CASE UNCHANGED invites
  BY <1>4, <1>6, <1>7, Seen DEF Refines, Membership!vars
<1>8. CASE invites[i] = None /\ invites' = [invites EXCEPT ![i] = NewInvite(token)]
  <2>1. NewInvite(token).namespace = n /\ NewInvite(token) # None
    <3>1. /\ NewInvite(token) \in InviteRecords
          /\ NewInvite(token).namespace = n
      BY <1>2 DEF NewInvite, InviteRecords, InviteTokens
    <3> QED BY <3>1, NoneAssumption
  <2>2. n \in Shared /\ Membership!IsMember(n, d)
    BY <1>1, <1>3, AccessIs DEF InviteStored
  <2> HIDE DEF token, n, i, d
  <2>3. /\ \A j \in InviteIDs \ {i} : (j \in OpenInvites') <=> (j \in OpenInvites)
        /\ OfferedFor' = [OfferedFor EXCEPT ![i] = n]
    BY <1>3, <1>4, <1>8, <2>1, InviteChanges
  <2>4. OfferedFor[i] = None /\ i \notin OpenInvites
    BY <1>3, <1>8 DEF OfferedFor, OpenInvites, Open
  <2>5. OpenInvites \subseteq InviteIDs /\ OpenInvites' \subseteq InviteIDs
    BY DEF OpenInvites
  <2>6. OpenInvites' \in {OpenInvites, OpenInvites \cup {i}}
    BY <2>3, <2>4, <2>5
  <2>7. Membership!Offer(d, n, i)
    BY <1>6, <2>2, <2>3, <2>4, <2>6 DEF Membership!Offer
  <2> QED BY <1>3, <1>6, <2>7 DEF Refines, Membership!Next
<1> QED BY <1>1, <1>7, <1>8 DEF InviteStored

\* RevokeInvite: an open invite is withdrawn; another one stays closed.
LEMMA WithdrawSteps ==
  ASSUME InvitesInv, HoldersInv, NEW t \in Callers, NEW n \in Namespaces, NEW i \in InviteIDs,
         RevokeInvite(t, n, i)
  PROVE  HoldersInv' /\ Refines
<1> DEFINE record == [invites[i] EXCEPT !.revoked = TRUE]
           d == DeviceOf[t]
<1>1. invites[i] \in InviteRecords
  BY DEF InvitesInv, InvitesOK, RevokeInvite
<1>2. /\ record \in InviteRecords /\ record.namespace = n /\ record.revoked = TRUE
      /\ invites[i].namespace = n /\ invites[i] # None
  BY <1>1 DEF InviteRecords, RevokeInvite
<1>3. record # None /\ d \in Devices
  BY <1>2, NoneAssumption, DeviceAssumption
<1>4. invites' = [invites EXCEPT ![i] = record] /\ UNCHANGED <<now, wrapped, pending, rows, callVars>>
  BY DEF RevokeInvite
<1>5. Membership!IsMember(n, d)
  BY <1>3, AccessIs DEF RevokeInvite
<1> HIDE DEF record, d
<1>6. CallHolders'
  BY <1>4, CallsHeld DEF HoldersInv, Grown
<1>7. HoldersInv' /\ UNCHANGED <<Accesses, AskedWith, StoredKeys>>
  BY <1>4, <1>6, OnlyInvites
<1>8. /\ \A j \in InviteIDs \ {i} : (j \in OpenInvites') <=> (j \in OpenInvites)
      /\ OfferedFor' = [OfferedFor EXCEPT ![i] = n]
  BY <1>2, <1>3, <1>4, InviteChanges
<1>9. OfferedFor[i] = n /\ UNCHANGED OfferedFor
  <2>1. OfferedFor[i] = n
    BY <1>2 DEF OfferedFor
  <2>2. OfferedFor = [j \in InviteIDs |-> OfferedFor[j]]
    BY DEF OfferedFor
  <2> QED BY <1>8, <2>1, <2>2
<1>10. i \notin OpenInvites'
  <2>1. invites'[i] = record
    BY <1>4 DEF InvitesInv, InvitesOK
  <2> QED BY <1>2, <2>1 DEF OpenInvites, Open
<1>11. OpenInvites' = OpenInvites \ {i}
  <2>1. OpenInvites \subseteq InviteIDs /\ OpenInvites' \subseteq InviteIDs
    BY DEF OpenInvites
  <2> QED BY <1>8, <1>10, <2>1
<1>12. CASE i \in OpenInvites
  <2>1. Membership!Withdraw(d, i)
    BY <1>5, <1>7, <1>9, <1>11, <1>12 DEF Membership!Withdraw
  <2> QED BY <1>3, <1>7, <2>1 DEF Refines, Membership!Next
<1>13. CASE i \notin OpenInvites
  BY <1>7, <1>9, <1>11, <1>13 DEF Refines, Membership!vars
<1> QED BY <1>12, <1>13

\* One pending request is stored or removed.
LEMMA RequestChanges ==
  ASSUME InvitesInv, UNCHANGED now, NEW n \in Namespaces, NEW d \in Devices, NEW r,
         pending' = [pending EXCEPT ![n][d] = r]
  PROVE  /\ Active(r) => AskedWith' = [AskedWith EXCEPT ![n][d] = r.invite]
         /\ ~Active(r) => AskedWith' = [AskedWith EXCEPT ![n][d] = None]
<1> DEFINE next == IF Active(r) THEN r.invite ELSE None
<1>1. \A m \in Namespaces, e \in Devices :
        pending'[m][e] = IF m = n /\ e = d THEN r ELSE pending[m][e]
  BY DEF InvitesInv, PendingOK
<1>2. \A m \in Namespaces, e \in Devices :
        AskedWith'[m][e] = IF m = n /\ e = d THEN next ELSE AskedWith[m][e]
  <2>1. ASSUME NEW m \in Namespaces, NEW e \in Devices, m = n /\ e = d
        PROVE  AskedWith'[m][e] = next
    BY <1>1, <2>1 DEF AskedWith, Active
  <2>2. ASSUME NEW m \in Namespaces, NEW e \in Devices, ~(m = n /\ e = d)
        PROVE  AskedWith'[m][e] = AskedWith[m][e]
    <3>1. pending'[m][e] = pending[m][e]
      BY <1>1, <2>2
    <3> QED BY <3>1 DEF AskedWith, Active
  <2> QED BY <2>1, <2>2
<1>3. AskedWith' = [AskedWith EXCEPT ![n][d] = next]
  <2>1. /\ AskedWith = [m \in Namespaces |-> [e \in Devices |-> AskedWith[m][e]]]
        /\ AskedWith' = [m \in Namespaces |-> [e \in Devices |-> AskedWith'[m][e]]]
    BY DEF AskedWith
  <2> HIDE DEF next
  <2> QED BY <1>2, <2>1
<1> QED BY <1>3

\* There is no request to be decided.
LEMMA NoRequest == ~Active(None)
  BY DEF Active

\* The offer of an open request is what the specification says the device asked with.
LEMMA AskedIs ==
  ASSUME InvitesInv, NEW n \in Namespaces, NEW d \in Devices, Active(pending[n][d])
  PROVE  /\ AskedWith[n][d] = pending[n][d].invite
         /\ pending[n][d].invite \in InviteIDs
<1>1. pending[n][d] \in JoinRequestPayloads
  BY DEF InvitesInv, PendingOK, RequestOK, Active
<1> QED BY <1>1 DEF AskedWith, JoinRequestPayloads

\* The server stores the request of a device that has no other open.
LEMMA AskSteps ==
  ASSUME InvitesInv, HoldersInv, NEW t \in Callers, JoinRequestStored(t)
  PROVE  HoldersInv' /\ Refines
<1> DEFINE r == call[t].request
           n == r.namespace
           d == r.key
           i == r.invite
<1>1. RequestOK(invites, r)
  BY DEF JoinRequestStored, InvitesInv, CallsOK, CallOK
<1>2. n \in Namespaces /\ d \in Devices /\ i \in InviteIDs
  BY <1>1 DEF RequestOK, JoinRequestPayloads
<1>3. Open(i) /\ Active(r) /\ Finish(t) /\ UNCHANGED <<now, wrapped, invites, rows>>
  BY DEF JoinRequestStored
<1>4. pending' = IF Active(pending[n][d]) THEN pending ELSE [pending EXCEPT ![n][d] = r]
  BY DEF JoinRequestStored
<1>5. invites[i].namespace = n
  BY <1>1 DEF RequestOK
<1>6. r.invite = i
  OBVIOUS
<1> HIDE DEF r, n, d, i
<1>7. Grown
  BY <1>3 DEF Grown
<1>8. HoldersInv'
  BY <1>3, <1>7, PlainMoves, MoveHolds, RowsHeld DEF HoldersInv
<1>9. UNCHANGED <<Accesses, OfferedFor, OpenInvites, StoredKeys>>
  BY <1>3, Seen
<1>10. CASE Active(pending[n][d])
  BY <1>3, <1>4, <1>8, <1>9, <1>10, Seen DEF Refines, Membership!vars
<1>11. CASE ~Active(pending[n][d])
  <2>1. AskedWith' = [AskedWith EXCEPT ![n][d] = i]
    BY <1>2, <1>3, <1>4, <1>6, <1>11, RequestChanges
  <2>2. AskedWith[n][d] = None
    BY <1>2, <1>11 DEF AskedWith
  <2>3. i \in OpenInvites /\ OfferedFor[i] = n
    BY <1>2, <1>3, <1>5 DEF OpenInvites, OfferedFor, Open
  <2>4. Membership!Ask(n, d, i)
    BY <1>9, <2>1, <2>2, <2>3 DEF Membership!Ask
  <2> QED BY <1>2, <1>8, <2>4 DEF Refines, Membership!Next
<1> QED BY <1>10, <1>11

\* ApproveJoinRequest: a member admits a device whose request and invite are open.
LEMMA AdmitSteps ==
  ASSUME InvitesInv, HoldersInv, NEW t \in Callers, ApprovalAccepted(t)
  PROVE  HoldersInv' /\ Refines
<1> DEFINE n == call[t].namespace
           d == call[t].request.key
           m == DeviceOf[t]
<1>1. CallOK(invites, "approve", call[t])
  BY DEF ApprovalAccepted, InvitesInv, CallsOK
<1>2. n \in Namespaces /\ d \in Devices /\ m \in Devices
  BY <1>1, DeviceAssumption DEF CallOK, JoinRequestPayloads
<1>3. AddMember(n, d, WrapNamespaceDEK(n, n, d))
  BY <1>1 DEF CallOK, ApprovalAccepted
<1>4. /\ Active(pending[n][d]) /\ Open(pending[n][d].invite) /\ Finish(t)
      /\ pending' = [pending EXCEPT ![n][d] = None] /\ UNCHANGED <<now, invites, rows>>
  BY DEF ApprovalAccepted
<1>5. Membership!IsMember(n, m)
  BY <1>2, AccessIs DEF ApprovalAccepted
<1> HIDE DEF n, d, m
<1>6. Membership!Grant(n, d) /\ Grown
  BY <1>2, <1>3, Granted
<1>7. HoldersInv'
  BY <1>4, <1>6, PlainMoves, MoveHolds, RowsHeld DEF HoldersInv
<1>8. AskedWith[n][d] \in OpenInvites
  BY <1>2, <1>4, AskedIs DEF OpenInvites
<1>9. AskedWith' = [AskedWith EXCEPT ![n][d] = None]
  BY <1>2, <1>4, RequestChanges, NoRequest
<1>10. UNCHANGED <<OfferedFor, OpenInvites, StoredKeys>>
  BY <1>4, Seen
<1>11. Membership!Admit(m, n, d)
  BY <1>5, <1>6, <1>8, <1>9, <1>10 DEF Membership!Admit
<1> QED BY <1>2, <1>7, <1>11 DEF Refines, Membership!Next

\* RejectJoinRequest: a member declines.
LEMMA DeclineSteps ==
  ASSUME InvitesInv, HoldersInv, NEW t \in Callers, NEW n \in Namespaces,
         NEW entry \in listed[DeviceOf[t]], RejectJoinRequest(t, n, entry)
  PROVE  HoldersInv' /\ Refines
<1> DEFINE d == entry.request.key
           m == DeviceOf[t]
<1>1. m \in Devices
  BY DeviceAssumption
<1>2. d \in Devices
  <2>1. entry \in Entries
    BY <1>1 DEF InvitesInv, ListedOK
  <2> QED BY <2>1 DEF Entries, JoinRequestPayloads
<1>3. /\ pending' = [pending EXCEPT ![n][d] = None]
      /\ UNCHANGED <<now, wrapped, invites, rows, callVars>>
  BY DEF RejectJoinRequest
<1>4. Membership!IsMember(n, m)
  BY <1>1, AccessIs DEF RejectJoinRequest
<1> HIDE DEF d, m
<1>5. HoldersInv'
  BY <1>3, CallsHeld, RowsHeld DEF HoldersInv, Grown
<1>6. AskedWith' = [AskedWith EXCEPT ![n][d] = None]
  BY <1>2, <1>3, RequestChanges, NoRequest
<1>7. UNCHANGED <<Accesses, OfferedFor, OpenInvites, StoredKeys>>
  BY <1>3, Seen
<1>8. Membership!Decline(m, n, d)
  BY <1>4, <1>6, <1>7 DEF Membership!Decline
<1> QED BY <1>1, <1>2, <1>5, <1>8 DEF Refines, Membership!Next

\* As time passes invites and requests run out, and nothing else happens.
LEMMA LapseStep == ASSUME InvitesInv, HoldersInv, Tick PROVE HoldersInv' /\ Refines
<1>1. UNCHANGED <<wrapped, invites, pending, rows, callVars>> /\ now' = now + 1 /\ now \in Int
  BY DEF Tick, serverVars, InvitesInv
<1>2. HoldersInv'
  BY <1>1, CallsHeld, RowsHeld DEF HoldersInv, Grown
<1>3. UNCHANGED <<Accesses, OfferedFor, StoredKeys>>
  BY <1>1, Seen
<1>4. OpenInvites' \subseteq OpenInvites
  <2>1. ASSUME NEW i \in InviteIDs, Open(i)' PROVE Open(i)
    <3>1. invites[i] \in InviteRecords
      BY <1>1, <2>1 DEF InvitesInv, InvitesOK, Open
    <3>2. invites[i].expiresAt \in Int
      BY <3>1 DEF InviteRecords
    <3> QED BY <1>1, <2>1, <3>2 DEF Open
  <2> QED BY <2>1 DEF OpenInvites
<1>5. ASSUME NEW n \in Namespaces, NEW d \in Devices
      PROVE  /\ AskedWith'[n][d] \in InviteIDs \cup {None}
             /\ AskedWith'[n][d] \in {AskedWith[n][d], None}
  <2>1. CASE Active(pending[n][d])'
    <3>1. pending[n][d] \in JoinRequestPayloads
      BY <1>1, <2>1 DEF InvitesInv, PendingOK, RequestOK, Active
    <3>2. pending[n][d].expiresAt \in Int
      BY <3>1 DEF JoinRequestPayloads
    <3>3. Active(pending[n][d])
      BY <1>1, <2>1, <3>2 DEF Active
    <3>4. AskedWith'[n][d] = pending[n][d].invite
      BY <1>1, <2>1 DEF AskedWith
    <3> QED BY <3>3, <3>4, AskedIs
  <2>2. CASE ~Active(pending[n][d])'
    BY <2>2 DEF AskedWith
  <2> QED BY <2>1, <2>2
<1>6. AskedWith' \in [Namespaces -> [Devices -> InviteIDs \cup {None}]]
  <2>1. AskedWith' = [n \in Namespaces |-> [d \in Devices |-> AskedWith'[n][d]]]
    BY DEF AskedWith
  <2> QED BY <1>5, <2>1
<1>7. Membership!Lapse
  BY <1>3, <1>4, <1>5, <1>6 DEF Membership!Lapse
<1> QED BY <1>2, <1>7 DEF Refines, Membership!Next

\* A device forgets its keys.
LEMMA Forgets ==
  ASSUME InvitesInv, HoldersInv, NEW d \in Devices, NEW forgotten,
         rows' = [rows EXCEPT ![d] = forgotten], \A n \in Namespaces : forgotten[n].key = None,
         UNCHANGED <<now, serverVars>>, CallHolders'
  PROVE  HoldersInv' /\ Refines
<1>1. \A e \in Devices, n \in Namespaces :
        rows'[e][n].key = IF e = d THEN None ELSE rows[e][n].key
  BY DEF InvitesInv, RowsOK
<1>2. RowHolders'
  BY <1>1 DEF HoldersInv, RowHolders, serverVars
<1>3. StoredKeys' = [StoredKeys EXCEPT ![d] = {}]
  <2>1. \A e \in Devices : StoredKeys'[e] = IF e = d THEN {} ELSE StoredKeys[e]
    BY <1>1 DEF StoredKeys
  <2>2. /\ StoredKeys = [e \in Devices |-> StoredKeys[e]]
        /\ StoredKeys' = [e \in Devices |-> StoredKeys'[e]]
    BY DEF StoredKeys
  <2> QED BY <2>1, <2>2
<1>4. Membership!Forget(d)
  BY <1>3, OnlyRows DEF Membership!Forget
<1> QED BY <1>2, <1>4 DEF HoldersInv, Refines, Membership!Next

\* Resets and ForgetIdentitySecrets take keys from stores, and no member from the server.
LEMMA ForgetSteps ==
  ASSUME InvitesInv, HoldersInv, NEW d \in Devices, ResetSyncState(d) \/ ForgetIdentitySecrets(d)
  PROVE  HoldersInv' /\ Refines
<1>1. UNCHANGED <<now, serverVars>>
  BY DEF ResetSyncState, ForgetIdentitySecrets, Restart
<1>2. CallHolders'
  <2>1. CASE ResetSyncState(d)
    BY <2>1, RestartHolds DEF ResetSyncState
  <2>2. CASE ForgetIdentitySecrets(d)
    <3>1. UNCHANGED callVars
      BY <2>2 DEF ForgetIdentitySecrets
    <3> QED BY <1>1, <3>1, CallsHeld DEF HoldersInv, Grown, serverVars
  <2> QED BY <2>1, <2>2
<1>3. \E forgotten :
        /\ rows' = [rows EXCEPT ![d] = forgotten]
        /\ \A n \in Namespaces : forgotten[n].key = None
  <2>1. CASE ResetSyncState(d)
    <3> DEFINE forgotten == [n \in Namespaces |-> NoRow]
    <3>1. rows' = [rows EXCEPT ![d] = forgotten]
      BY <2>1 DEF ResetSyncState
    <3>2. \A n \in Namespaces : forgotten[n].key = None
      BY DEF NoRow
    <3> QED BY <3>1, <3>2
  <2>2. CASE ForgetIdentitySecrets(d)
    <3> DEFINE forgotten == [n \in Namespaces |-> [rows[d][n] EXCEPT !.key = None]]
    <3>1. rows' = [rows EXCEPT ![d] = forgotten]
      BY <2>2 DEF ForgetIdentitySecrets
    <3>2. ASSUME NEW n \in Namespaces PROVE forgotten[n].key = None
      <4>1. rows[d][n] \in Row \cup {NoRow}
        BY DEF InvitesInv, RowsOK
      <4>2. CASE rows[d][n] \in Row
        BY <4>2 DEF Row
      <4>3. CASE rows[d][n] = NoRow
        BY <4>3 DEF NoRow
      <4> QED BY <4>1, <4>2, <4>3
    <3> QED BY <3>1, <3>2
  <2> QED BY <2>1, <2>2
<1> QED BY <1>1, <1>2, <1>3, Forgets

\* Each step of a call that is under way is one step of the specification, or none.
LEMMA StepRefines ==
  ASSUME InvitesInv, HoldersInv, NEW t \in Callers, Step(t) PROVE HoldersInv' /\ Refines
<1>1. CASE CreateStep(t)
  BY <1>1, FoundSteps, LearnSteps DEF CreateStep
<1>2. CASE JoinStep(t)
  BY <1>2, QuietWrappedDEK, LearnSteps DEF JoinStep
<1>3. CASE PassStep(t)
  BY <1>3, QuietCalls, QuietVisit, LearnSteps DEF PassStep
<1>4. CASE InviteStep(t)
  BY <1>4, QuietCalls, OfferSteps DEF InviteStep
<1>5. CASE RequestStep(t)
  BY <1>5, AskSteps, AdmitSteps DEF RequestStep
<1> QED BY <1>1, <1>2, <1>3, <1>4, <1>5 DEF Step

\* So is each call of an app.
LEMMA AppStepRefines ==
  ASSUME InvitesInv, HoldersInv, NEW t \in Callers, AppStep(t) PROVE HoldersInv' /\ Refines
<1>1. CASE OpenStep(t)
  BY <1>1, QuietCalls DEF OpenStep
<1>2. CASE OwnerStep(t)
  BY <1>2, QuietCalls, QuietOthers, WithdrawSteps, DeclineSteps DEF OwnerStep
<1>3. CASE JoinerStep(t)
  BY <1>3, QuietCalls
<1> QED BY <1>1, <1>2, <1>3 DEF AppStep

\* So is each mishap: a lost response leaves what the server did.
LEMMA FaultStepRefines == ASSUME InvitesInv, HoldersInv, FaultStep PROVE HoldersInv' /\ Refines
<1>1. CASE DamageStep
  BY <1>1, QuietOthers
<1>2. CASE \E t \in Callers : Lost(t)
  BY <1>2, FoundSteps, OfferSteps, QuietCalls DEF Lost
<1>3. CASE \E d \in Devices : Crash(d) \/ ResetSyncState(d) \/ ForgetIdentitySecrets(d)
  BY <1>3, QuietOthers, ForgetSteps
<1> QED BY <1>1, <1>2, <1>3 DEF FaultStep

\* Every step is one step of the specification, or none.
LEMMA NextRefines ==
  ASSUME InvitesInv, HoldersInv, [Next]_vars PROVE HoldersInv' /\ [Membership!Next]_(Membership!vars)
<1>1. CASE \E t \in Callers : Step(t) \/ AppStep(t) \/ ListNamespaces(t)
  BY <1>1, StepRefines, AppStepRefines, QuietCalls DEF Refines
<1>2. CASE FaultStep \/ Tick
  BY <1>2, FaultStepRefines, LapseStep DEF Refines
<1>3. CASE UNCHANGED vars
  BY <1>3, QuietOthers DEF Refines
<1> QED BY <1>1, <1>2, <1>3 DEF Next

\* New stores hold no keys, and only default namespaces have a member.
LEMMA InitRefines == Init => HoldersInv /\ Membership!Init
<1> SUFFICES ASSUME Init PROVE HoldersInv /\ Membership!Init
  OBVIOUS
<1>1. HoldersInv
  BY DEF Init, HoldersInv, RowHolders, CallHolders, SaveLabels, NoRow
<1>2. Accesses = [n \in Namespaces |->
                    [d \in Devices |-> IF n \in Shared \/ d # Creator[n] THEN "none" ELSE "granted"]]
  <2>1. InvitesInv
    BY InvitesInit
  <2>2. ASSUME NEW n \in Namespaces, NEW d \in Devices
        PROVE  Accesses[n][d] = IF n \in Shared \/ d # Creator[n] THEN "none" ELSE "granted"
    <3>1. wrapped[n][d] = IF n \in Shared \/ d # Creator[n] THEN None ELSE WrapNamespaceDEK(n, n, d)
      BY DEF Init
    <3>2. None # WrapNamespaceDEK(n, n, d)
      BY NoneAssumption, WrapType
    <3> QED BY <2>1, <3>1, <3>2, AccessIs
  <2>3. Accesses = [n \in Namespaces |-> [d \in Devices |-> Accesses[n][d]]]
    BY DEF Accesses
  <2> QED BY <2>2, <2>3
<1>3. OfferedFor = [i \in InviteIDs |-> None] /\ OpenInvites = {}
  BY DEF Init, OfferedFor, OpenInvites, Open
<1>4. AskedWith = [n \in Namespaces |-> [d \in Devices |-> None]]
  BY DEF Init, AskedWith, Active
<1>5. StoredKeys = [d \in Devices |-> {}]
  BY DEF Init, StoredKeys, NoRow
<1> QED BY <1>1, <1>2, <1>3, <1>4, <1>5 DEF Membership!Init

\* CreateSharedNamespace, CreateInvite, SubmitJoinRequest and ApproveJoinRequest are the
\* only way to the key of a shared namespace, in that order, and ensureNamespaceReady,
\* joinNamespace and a pass store the keys of members only: whoever else acts between two
\* requests of a call, the whole implements the membership specification.
THEOREM InvitesImplementMemberships == Spec => AccessByInvite
<1>1. Init => InvitesInv /\ HoldersInv /\ Membership!Init
  BY InvitesInit, InitRefines
<1>2. InvitesInv /\ HoldersInv /\ [Next]_vars
        => InvitesInv' /\ HoldersInv' /\ [Membership!Next]_(Membership!vars)
  BY InvitesNext, NextRefines
<1> QED BY <1>1, <1>2, PTL DEF Spec, AccessByInvite, Membership!Spec
=============================================================================

-------------------------- MODULE AuthSessionProofs --------------------------
(***************************************************************************)
(* Logins are in order and there is one default namespace in AuthSession,  *)
(* for any number of callers.                                              *)
(*                                                                         *)
(* LoginsInOrder is not inductive: it needs that only the holder of authMu *)
(* is between a login or refresh and the publication of its token, so that *)
(* nobody else makes the server issue one.  CallOK says so of one caller,  *)
(* as a predicate of its label, its local variables and what it shares.    *)
(***************************************************************************)
EXTENDS AuthSession, TLAPS

\* Where an identity state saved under authMu leads; other saves lead elsewhere.
AuthNext == {"begin", "run", "login", "join"}

Saving == {"persist", "publish"}

CallOK(t, label, c, holder, issued, default) ==
    /\ label \in Labels /\ c \in CallRecords
    /\ c.state.token <= issued
    /\ holder = t <=> label \in AuthLabels \/ (label \in Saving /\ c.next \in AuthNext)
    /\ holder = t /\ label \in Saving => c.state.token \in {NoToken, issued}
    /\ label = "reauth" => c.tries = 1
    /\ label \in {"ensure", "snapshot", "refresh"} => c.next \in {"begin", "join"}
    /\ label = "login" => c.next \in {"begin", "join", "login"}
    /\ c.tolerant => label \in {"refresh"} \cup Saving /\ c.next \in {"begin", "join"}
    /\ {c.state.default, c.namespace} \subseteq {NoNamespace, default}

\* What does not belong to one caller.
SharedOK ==
    /\ age \in Seq({"valid", "skew", "expired"})
    /\ srvTokens \subseteq 1..Len(age)
    /\ srvDefault \in Namespaces \cup {NoNamespace}
    /\ identity \in IdentityStates /\ identity.token <= Len(age)
    /\ stored \in IdentityStates /\ stored.token <= Len(age)
    /\ row \in [id : Namespaces \cup {NoNamespace}, key : Namespaces \cup {NoNamespace}]
    /\ authMu \in Callers \cup {Nobody}
    /\ outcome \in [Callers -> {"none", "ok", "unauthorized", "rollback", "error"}]
    /\ OneDefaultNamespace

CallersOK ==
    /\ pc \in [Callers -> Labels] /\ call \in [Callers -> CallRecords]
    /\ \A t \in Callers : CallOK(t, pc[t], call[t], authMu, Len(age), srvDefault)

AuthInv == SharedOK /\ CallersOK

USE DEF NoToken

\* Nobody is not a caller.
LEMMA NobodyElse == Nobody \notin Callers
  BY CallerAssumption

\* A call that has not begun, or has returned, is in order.
LEMMA NewCallOK ==
  ASSUME NEW t, NEW kind \in Kinds, NEW label \in {"idle", "ensure"}, NEW holder,
         NEW issued \in Nat, NEW default, holder # t
  PROVE  CallOK(t, label, NewCall(kind), holder, issued, default)
  BY DEF CallOK, NewCall, NoState, CallRecords, IdentityStates, Labels, AuthLabels,
         Saving, AuthNext, Kinds

\* A fresh engine, with no token and no call, satisfies the invariant.
LEMMA AuthInit == Init => AuthInv
<1> SUFFICES ASSUME Init PROVE AuthInv
  OBVIOUS
<1>1. SharedOK
  BY CallerAssumption
  DEF Init, SharedOK, NoRow, NoOutcomes, IdentityStates, OneDefaultNamespace, Namespaces
<1>2. ASSUME NEW t \in Callers
      PROVE  CallOK(t, pc[t], call[t], authMu, Len(age), srvDefault)
  <2>1. pc[t] = "idle" /\ call[t] = NewCall("request") /\ authMu # t /\ Len(age) = 0
    BY NobodyElse DEF Init, AllIdle, NoCalls
  <2> QED BY <2>1, NewCallOK DEF Kinds
<1>3. pc \in [Callers -> Labels] /\ call \in [Callers -> CallRecords]
  BY <1>2 DEF Init, AllIdle, NoCalls, CallOK
<1> QED BY <1>1, <1>2, <1>3 DEF AuthInv, CallersOK

\* One caller t moves and changes only its own local variables.  The others stay
\* in order if tokens are issued only by the holder of authMu, and the server's
\* default namespace is set once.
LEMMA CallerStep ==
  ASSUME AuthInv, NEW t \in Callers, NEW label, NEW c,
         pc' = [pc EXCEPT ![t] = label], call' = [call EXCEPT ![t] = c],
         \/ authMu' = authMu
         \/ (authMu = Nobody /\ authMu' = t)
         \/ (authMu = t /\ authMu' = Nobody),
         Len(age) \in Nat, Len(age') \in Nat, Len(age) <= Len(age'),
         Len(age') = Len(age) \/ authMu = t,
         srvDefault' = srvDefault \/ srvDefault = NoNamespace,
         CallOK(t, label, c, authMu', Len(age'), srvDefault')
  PROVE  CallersOK'
<1>1. label \in Labels /\ c \in CallRecords
  BY DEF CallOK
<1>2. pc' \in [Callers -> Labels] /\ call' \in [Callers -> CallRecords]
  BY <1>1 DEF AuthInv, CallersOK
<1>3. ASSUME NEW u \in Callers
      PROVE  CallOK(u, pc'[u], call'[u], authMu', Len(age'), srvDefault')
  <2>1. CASE u = t
    <3>1. pc'[u] = label /\ call'[u] = c
      BY <2>1 DEF AuthInv, CallersOK
    <3> QED BY <2>1, <3>1
  <2>2. CASE u # t
    <3>1. pc'[u] = pc[u] /\ call'[u] = call[u]
      BY <2>2 DEF AuthInv, CallersOK
    <3>2. (authMu' = u) <=> (authMu = u)
      BY <2>2, NobodyElse
    <3>3. CallOK(u, pc[u], call[u], authMu, Len(age), srvDefault)
      BY DEF AuthInv, CallersOK
    <3>4. call[u].state.token \in Nat
      BY DEF AuthInv, CallersOK, CallRecords, IdentityStates
    <3>5. authMu = u => Len(age') = Len(age)
      BY <2>2
    <3> QED BY <3>1, <3>2, <3>3, <3>4, <3>5 DEF CallOK
  <2> QED BY <2>1, <2>2
<1> QED BY <1>2, <1>3 DEF CallersOK

\* The same when t neither issues a token nor changes what is shared.
LEMMA LocalStep ==
  ASSUME AuthInv, NEW t \in Callers, NEW label, NEW c,
         pc' = [pc EXCEPT ![t] = label], call' = [call EXCEPT ![t] = c],
         \/ authMu' = authMu
         \/ (authMu = Nobody /\ authMu' = t)
         \/ (authMu = t /\ authMu' = Nobody),
         UNCHANGED <<serverVars, identity, storeVars>>,
         outcome' \in [Callers -> {"none", "ok", "unauthorized", "rollback", "error"}],
         CallOK(t, label, c, authMu', Len(age), srvDefault)
  PROVE  AuthInv'
<1>1. Len(age) \in Nat /\ age' = age /\ srvDefault' = srvDefault
  BY DEF AuthInv, SharedOK, serverVars
<1>2. /\ Len(age') \in Nat /\ Len(age) <= Len(age') /\ Len(age') = Len(age)
      /\ CallOK(t, label, c, authMu', Len(age'), srvDefault')
  BY <1>1
<1>3. CallersOK'
  BY <1>1, <1>2, CallerStep, Zenon
<1>4. SharedOK'
  BY NobodyElse DEF AuthInv, SharedOK, serverVars, storeVars, OneDefaultNamespace
<1> QED BY <1>3, <1>4 DEF AuthInv

\* What the invariant says of one caller, and of what all share.
LEMMA CallerFacts ==
  ASSUME AuthInv, NEW t \in Callers
  PROVE  /\ CallOK(t, pc[t], call[t], authMu, Len(age), srvDefault)
         /\ pc[t] \in Labels /\ call[t] \in CallRecords
         /\ call[t] = [kind |-> call[t].kind, tries |-> call[t].tries, next |-> call[t].next,
                       failed |-> call[t].failed, state |-> call[t].state,
                       token |-> call[t].token, namespace |-> call[t].namespace,
                       tolerant |-> call[t].tolerant]
         /\ call[t].state = [token |-> call[t].state.token, default |-> call[t].state.default]
         /\ call \in [Callers -> CallRecords]
         /\ identity \in IdentityStates /\ identity.token <= Len(age)
         /\ identity.default \in {NoNamespace, srvDefault}
         /\ Len(age) \in Nat /\ srvDefault \in Namespaces \cup {NoNamespace}
         /\ outcome \in [Callers -> {"none", "ok", "unauthorized", "rollback", "error"}]
  BY DEF AuthInv, CallersOK, SharedOK, CallRecords, IdentityStates, OneDefaultNamespace

\* The types of what ensureDefaultNamespace and the token handling of a call read and
\* change, alone.
LEMMA CallTypes ==
  ASSUME AuthInv, NEW t \in Callers
  PROVE  /\ call \in [Callers -> CallRecords] /\ call[t] \in CallRecords
         /\ identity.token \in Nat /\ identity.default \in Namespaces \cup {NoNamespace}
         /\ identity \in IdentityStates /\ NoState \in IdentityStates
         /\ srvDefault \in Namespaces \cup {NoNamespace}
  BY DEF AuthInv, CallersOK, SharedOK, IdentityStates, NoState

\* A call returns without touching what is shared.
LEMMA FinishStep ==
  ASSUME AuthInv, NEW t \in Callers,
         NEW result \in {"ok", "unauthorized", "rollback", "error"}, Finish(t, result),
         (authMu' = authMu /\ authMu # t) \/ (authMu = t /\ authMu' = Nobody),
         UNCHANGED <<serverVars, identity, storeVars>>
  PROVE  AuthInv'
<1>1. CallOK(t, "idle", NewCall("request"), authMu', Len(age), srvDefault)
  BY CallerFacts, NewCallOK, NobodyElse DEF Kinds
<1>2. outcome' \in [Callers -> {"none", "ok", "unauthorized", "rollback", "error"}]
  BY CallerFacts DEF Finish
<1> QED BY <1>1, <1>2, LocalStep, Zenon DEF Finish, Goto

USE DEF Labels, AuthLabels, BodyLabels, Requests, Saving, AuthNext

\* A call t goes on at another label with the same local variables.
LEMMA GotoStep ==
  ASSUME AuthInv, NEW t \in Callers, NEW label \in Labels, Goto(t, label), UNCHANGED call,
         authMu' = authMu, pc[t] \notin AuthLabels \cup Saving,
         label \notin AuthLabels \cup Saving \cup {"ensure"},
         label = "reauth" => call[t].tries = 1,
         UNCHANGED <<serverVars, identity, storeVars, outcome>>
  PROVE  AuthInv'
<1>1. call' = [call EXCEPT ![t] = call[t]]
  BY CallerFacts
<1>2. CallOK(t, label, call[t], authMu', Len(age), srvDefault)
  BY CallerFacts DEF CallOK
<1>3. outcome' \in [Callers -> {"none", "ok", "unauthorized", "rollback", "error"}]
  BY CallerFacts
<1> QED BY <1>1, <1>2, <1>3, LocalStep, Zenon DEF Goto

\* Starting a public call keeps the invariant: it resets only its own variables.
LEMMA CallPreserves ==
  ASSUME AuthInv, NEW t \in Callers, NEW kind \in Kinds, Call(t, kind) PROVE AuthInv'
<1>1. authMu # t
  BY CallerFacts DEF Call, CallOK
<1>2. CallOK(t, "ensure", NewCall(kind), authMu', Len(age), srvDefault)
  BY <1>1, CallerFacts, NewCallOK DEF Call
<1>3. outcome' \in [Callers -> {"none", "ok", "unauthorized", "rollback", "error"}]
  BY CallerFacts DEF Call
<1> QED BY <1>1, <1>2, <1>3, LocalStep, Zenon DEF Call, Goto

\* Taking authMu, when ensureAuthenticated has to log in or to refresh, keeps
\* the invariant.
LEMMA EnsureAuthenticatedPreserves ==
  ASSUME AuthInv, NEW t \in Callers, EnsureAuthenticated(t) PROVE AuthInv'
<1>1. PICK label \in {"login", "snapshot", "begin", "join"} :
        /\ pc' = [pc EXCEPT ![t] = label]
        /\ authMu' = IF label \in AuthLabels THEN t ELSE authMu
  BY CallerFacts DEF EnsureAuthenticated, Authenticate, Goto, CallOK
<1>2. call' = [call EXCEPT ![t] = call[t]] /\ authMu = Nobody /\ pc[t] = "ensure"
  BY CallerFacts DEF EnsureAuthenticated, Authenticate
<1>3. CallOK(t, label, call[t], authMu', Len(age), srvDefault)
  BY <1>1, <1>2, CallerFacts, NobodyElse DEF CallOK
<1>4. /\ authMu' = authMu \/ (authMu = Nobody /\ authMu' = t)
      /\ outcome' \in [Callers -> {"none", "ok", "unauthorized", "rollback", "error"}]
      /\ UNCHANGED <<serverVars, identity, storeVars>>
  BY <1>1, <1>2, CallerFacts DEF EnsureAuthenticated, Authenticate
<1> QED BY <1>1, <1>2, <1>3, <1>4, LocalStep, Zenon

\* A failed login gives authMu back and keeps the invariant.
LEMMA LoginFailsPreserves ==
  ASSUME AuthInv, NEW t \in Callers, LoginFails(t) PROVE AuthInv'
<1>1. authMu = t
  BY CallerFacts DEF LoginFails, CallOK
<1> QED BY <1>1, FinishStep, Zenon DEF LoginFails, Release

\* The identity snapshot that refresh takes keeps the invariant.
LEMMA RefreshSnapshotPreserves ==
  ASSUME AuthInv, NEW t \in Callers, RefreshSnapshot(t) PROVE AuthInv'
<1> DEFINE c == [call[t] EXCEPT !.state = identity, !.tolerant = TRUE]
<1>1. call' = [call EXCEPT ![t] = c]
  BY CallerFacts DEF RefreshSnapshot
<1>2. CallOK(t, "refresh", c, authMu', Len(age), srvDefault)
  <2>1. /\ c \in CallRecords /\ c.state = identity /\ c.next = call[t].next
        /\ c.namespace = call[t].namespace
    BY CallTypes DEF CallRecords
  <2>2. /\ CallOK(t, "snapshot", call[t], authMu, Len(age), srvDefault)
        /\ authMu' = authMu
    BY CallerFacts DEF RefreshSnapshot
  <2>3. identity.token <= Len(age) /\ identity.default \in {NoNamespace, srvDefault}
    BY CallerFacts
  <2> HIDE DEF c
  <2> QED BY <2>1, <2>2, <2>3 DEF CallOK
<1>3. outcome' \in [Callers -> {"none", "ok", "unauthorized", "rollback", "error"}]
  BY CallerFacts DEF RefreshSnapshot
<1> QED BY <1>1, <1>2, <1>3, LocalStep, Zenon DEF RefreshSnapshot, Goto

\* Giving authMu back after a tolerated refresh error keeps the invariant.
LEMMA GoOnUnrefreshedPreserves ==
  ASSUME AuthInv, NEW t \in Callers, GoOnUnrefreshed(t), authMu = t,
         call[t].next \in {"begin", "join"}
  PROVE  AuthInv'
<1> DEFINE c == [call[t] EXCEPT !.tolerant = FALSE, !.state = NoState]
<1>1. call' = [call EXCEPT ![t] = c]
  BY CallerFacts DEF GoOnUnrefreshed
<1>2. authMu' = Nobody
  BY DEF GoOnUnrefreshed, Release
<1>3. CallOK(t, call[t].next, c, authMu', Len(age), srvDefault)
  <2>1. NoState \in IdentityStates /\ NoState.token = 0 /\ NoState.default = NoNamespace
    BY DEF NoState, IdentityStates
  <2>2. /\ c \in CallRecords /\ c.next = call[t].next /\ c.state = NoState
        /\ ~c.tolerant /\ c.namespace = call[t].namespace
    <3>1. c = [[call[t] EXCEPT !.tolerant = FALSE] EXCEPT !.state = NoState]
      OBVIOUS
    <3> DEFINE b == [call[t] EXCEPT !.tolerant = FALSE]
    <3>2. /\ b \in CallRecords /\ b.next = call[t].next
          /\ ~b.tolerant /\ b.namespace = call[t].namespace
      BY CallTypes DEF CallRecords
    <3>3. c = [b EXCEPT !.state = NoState]
      BY <3>1
    <3> HIDE DEF b, c
    <3> QED BY <2>1, <3>2, <3>3 DEF CallRecords
  <2> HIDE DEF c
  <2>3. c.state.token <= Len(age) /\ {c.state.default, c.namespace} \subseteq {NoNamespace, srvDefault}
    <3>1. Len(age) \in Nat /\ call[t].namespace \in {NoNamespace, srvDefault}
      BY CallerFacts DEF CallOK
    <3> QED BY <2>1, <2>2, <3>1
  <2>4. authMu' # t
    BY <1>2, NobodyElse
  <2> QED BY <2>2, <2>3, <2>4 DEF CallOK
<1>4. outcome' \in [Callers -> {"none", "ok", "unauthorized", "rollback", "error"}]
  BY CallerFacts DEF GoOnUnrefreshed
<1> QED BY <1>1, <1>2, <1>3, <1>4, LocalStep, Zenon DEF GoOnUnrefreshed, Goto

\* A failed refresh is ignored and keeps the invariant.
LEMMA RefreshFailsPreserves ==
  ASSUME AuthInv, NEW t \in Callers, RefreshFails(t) PROVE AuthInv'
<1>1. authMu = t /\ call[t].next \in {"begin", "join"}
  BY CallerFacts DEF RefreshFails, CallOK
<1> QED BY <1>1, GoOnUnrefreshedPreserves DEF RefreshFails

\* A failed save of the identity row keeps the invariant, tolerated or not.
LEMMA SaveFailsPreserves ==
  ASSUME AuthInv, NEW t \in Callers, SaveFails(t) PROVE AuthInv'
<1>1. CASE call[t].tolerant
  <2>1. authMu = t /\ call[t].next \in {"begin", "join"} /\ GoOnUnrefreshed(t)
    BY <1>1, CallerFacts DEF SaveFails, CallOK
  <2> QED BY <2>1, GoOnUnrefreshedPreserves
<1>2. CASE ~call[t].tolerant
  <2>1. (authMu' = authMu /\ authMu # t) \/ (authMu = t /\ authMu' = Nobody)
    BY <1>2 DEF SaveFails, Release
  <2> QED BY <1>2, <2>1, FinishStep, Zenon DEF SaveFails
<1> QED BY <1>1, <1>2

\* A call goes on at another label of its body with changed local variables.
LEMMA BodyStep ==
  ASSUME AuthInv, NEW t \in Callers, NEW label \in Labels, NEW c \in CallRecords,
         Goto(t, label), call' = [call EXCEPT ![t] = c],
         pc[t] \notin AuthLabels \cup Saving,
         label \notin AuthLabels \cup Saving \cup {"ensure", "reauth"},
         c.state.token <= Len(age), ~c.tolerant,
         c.state.default \in {NoNamespace, srvDefault},
         c.namespace \in {NoNamespace, srvDefault},
         UNCHANGED <<serverVars, identity, storeVars, authMu, outcome>>
  PROVE  AuthInv'
<1>1. authMu' = authMu /\ authMu # t
  BY CallerFacts DEF CallOK
<1>2. CallOK(t, label, c, authMu', Len(age), srvDefault)
  BY <1>1 DEF CallOK
<1>3. outcome' \in [Callers -> {"none", "ok", "unauthorized", "rollback", "error"}]
  BY CallerFacts
<1> QED BY <1>1, <1>2, <1>3, LocalStep, Zenon DEF Goto

\* The facts of CallOK that hold at every label.
LEMMA StateFacts ==
  ASSUME AuthInv, NEW t \in Callers
  PROVE  /\ call[t].state \in IdentityStates /\ call[t].state.token <= Len(age)
         /\ call[t].state.default \in {NoNamespace, srvDefault}
         /\ call[t].namespace \in {NoNamespace, srvDefault}
         /\ call[t].namespace \in Namespaces \cup {NoNamespace}
         /\ pc[t] \notin {"refresh", "persist", "publish"} => ~call[t].tolerant
         /\ NoState \in IdentityStates /\ NoState.token = 0 /\ NoState.default = NoNamespace
         /\ 0 <= Len(age)
<1>1. NoState \in IdentityStates /\ NoState.token = 0 /\ NoState.default = NoNamespace
  BY DEF NoState, IdentityStates
<1>2. /\ call[t].state \in IdentityStates
      /\ call[t].namespace \in Namespaces \cup {NoNamespace}
  BY CallerFacts DEF CallRecords
<1>3. CallOK(t, pc[t], call[t], authMu, Len(age), srvDefault)
  BY CallerFacts
<1>4. /\ call[t].state.token <= Len(age)
      /\ call[t].state.default \in {NoNamespace, srvDefault}
      /\ call[t].namespace \in {NoNamespace, srvDefault}
      /\ pc[t] \notin {"refresh", "persist", "publish"} => ~call[t].tolerant
  BY <1>3 DEF CallOK
<1>5. 0 <= Len(age)
  BY CallerFacts
<1> QED BY <1>1, <1>2, <1>4, <1>5

\* Reading failedToken before the body keeps the invariant.
LEMMA BeginPreserves ==
  ASSUME AuthInv, NEW t \in Callers, Begin(t) PROVE AuthInv'
<1> DEFINE c == [call[t] EXCEPT !.failed = identity.token, !.state = NoState]
<1>1. c \in CallRecords /\ c.state = NoState /\ c.namespace = call[t].namespace
  BY CallTypes DEF CallRecords
<1>2. ~c.tolerant
  BY CallerFacts, StateFacts DEF Begin
<1>3. call' = [call EXCEPT ![t] = c]
  BY CallerFacts DEF Begin
<1> HIDE DEF c
<1> QED BY <1>1, <1>2, <1>3, StateFacts, BodyStep DEF Begin

\* The snapshot a body takes of the identity state keeps the invariant.
LEMMA RunPreserves ==
  ASSUME AuthInv, NEW t \in Callers, Run(t) PROVE AuthInv'
<1> DEFINE c == [call[t] EXCEPT !.state = identity, !.token = identity.token,
                                !.namespace = identity.default]
<1>1. c \in CallRecords /\ c.state = identity /\ c.namespace = identity.default
  BY CallTypes DEF CallRecords
<1>2. ~c.tolerant
  BY CallerFacts, StateFacts DEF Run
<1>3. call' = [call EXCEPT ![t] = c]
  BY CallerFacts DEF Run
<1> HIDE DEF c
<1>4. PICK label \in {"list", "create", "ready", "revoke", "request"} : Goto(t, label)
  BY DEF Run
<1> QED BY <1>1, <1>2, <1>3, <1>4, CallerFacts, BodyStep DEF Run

\* A 401 answer, the first or the second, keeps the invariant.
LEMMA RejectedPreserves ==
  ASSUME AuthInv, NEW t \in Callers, Rejected(t) PROVE AuthInv'
<1>1. CASE call[t].tries = 1
  BY <1>1, GotoStep DEF Rejected
<1>2. CASE call[t].tries # 1
  <2>1. authMu' = authMu /\ authMu # t
    BY CallerFacts DEF Rejected, CallOK
  <2> QED BY <1>2, <2>1, FinishStep DEF Rejected
<1> QED BY <1>1, <1>2

\* Taking authMu to replace the rejected token, or keeping a newer one, keeps
\* the invariant.
LEMMA ReauthenticatePreserves ==
  ASSUME AuthInv, NEW t \in Callers, Reauthenticate(t) PROVE AuthInv'
<1> DEFINE newer == /\ call[t].failed # NoToken
                    /\ identity.token \notin {NoToken, call[t].failed}
           cleared == [identity EXCEPT !.token = NoToken]
           next == IF newer THEN "run" ELSE "login"
           c == [call[t] EXCEPT !.tries = @ + 1, !.failed = NoToken, !.token = NoToken,
                                !.state = cleared, !.next = next]
           label == IF newer THEN "run" ELSE "persist"
<1>1. call[t].tries = 1 /\ authMu = Nobody
  BY CallerFacts DEF Reauthenticate, CallOK
<1>2. /\ cleared \in IdentityStates /\ cleared.token = 0
      /\ cleared.default \in {NoNamespace, srvDefault}
  BY CallerFacts DEF IdentityStates
<1>3. /\ call' = [call EXCEPT ![t] = c] /\ pc' = [pc EXCEPT ![t] = label]
      /\ authMu' = IF newer THEN Nobody ELSE t
  BY CallerFacts DEF Reauthenticate, Goto
<1>4. ~c.tolerant
  BY CallerFacts, StateFacts DEF Reauthenticate
<1>5. next \in {"run", "login"}
  OBVIOUS
<1> HIDE DEF cleared, next
<1>6. /\ c \in CallRecords /\ c.state = cleared /\ c.namespace = call[t].namespace
      /\ c.next = next
  <2>1. call[t].tries + 1 \in {1, 2} /\ 0 \in Nat
    BY <1>1
  <2>2. call[t] \in CallRecords
    BY CallerFacts
  <2> QED BY <1>2, <1>5, <2>1, <2>2 DEF CallRecords
<1> HIDE DEF c
<1>7. CallOK(t, label, c, authMu', Len(age), srvDefault)
  BY <1>2, <1>3, <1>4, <1>6, StateFacts, NobodyElse DEF CallOK, next
<1>8. authMu' = authMu \/ (authMu = Nobody /\ authMu' = t)
  BY <1>1, <1>3
<1>9. outcome' \in [Callers -> {"none", "ok", "unauthorized", "rollback", "error"}]
  BY CallerFacts DEF Reauthenticate
<1> HIDE DEF label
<1> QED BY <1>3, <1>7, <1>8, <1>9, LocalStep, Zenon DEF Reauthenticate

\* A body that fails, by its request or by the store, keeps the invariant.
LEMMA BodyFailsPreserves ==
  ASSUME AuthInv, NEW t \in Callers, BodyFails(t) PROVE AuthInv'
<1>1. authMu' = authMu /\ authMu # t
  BY CallerFacts DEF BodyFails, CallOK
<1> QED BY <1>1, FinishStep DEF BodyFails

\* The return of a body whose last request is done keeps the invariant.
LEMMA DonePreserves ==
  ASSUME AuthInv, NEW t \in Callers, NEW from \in {"flush", "request"}, Done(t, from)
  PROVE  AuthInv'
<1>1. authMu' = authMu /\ authMu # t
  BY CallerFacts DEF Done, CallOK
<1> QED BY <1>1, FinishStep DEF Done

\* The list of namespaces, with the default one of the server, keeps the
\* invariant.
LEMMA ListAcceptedPreserves ==
  ASSUME AuthInv, NEW t \in Callers, ListAccepted(t) PROVE AuthInv'
<1> DEFINE c == [call[t] EXCEPT !.namespace = srvDefault, !.token = NoToken]
<1>1. c \in CallRecords /\ c.state = call[t].state /\ c.namespace = srvDefault
  BY CallTypes DEF CallRecords
<1>2. ~c.tolerant
  BY CallerFacts, StateFacts DEF ListAccepted, Accepted
<1>3. call' = [call EXCEPT ![t] = c]
  BY CallerFacts DEF ListAccepted
<1> HIDE DEF c
<1> QED BY <1>1, <1>2, <1>3, StateFacts, BodyStep DEF ListAccepted, Accepted

\* The comparison of the list with the local namespaces keeps the invariant.
LEMMA CheckPreserves ==
  ASSUME AuthInv, NEW t \in Callers, Check(t) PROVE AuthInv'
<1>1. CASE Disappeared(t)
  <2>1. authMu' = authMu /\ authMu # t
    BY CallerFacts DEF Check, CallOK
  <2> QED BY <1>1, <2>1, FinishStep DEF Check
<1>2. CASE ~Disappeared(t)
  <2>1. PICK label \in {"flush", "join", "work"} : Goto(t, label)
    BY <1>2 DEF Check
  <2> QED BY <1>2, <2>1, GotoStep DEF Check
<1> QED BY <1>1, <1>2

\* Sending a later request of a body with the current token keeps the invariant.
LEMMA SendRequestPreserves ==
  ASSUME AuthInv, NEW t \in Callers, NEW from \in {"join", "work", "flush"},
         NEW request \in Requests, SendRequest(t, from, request)
  PROVE  AuthInv'
<1> DEFINE c == [call[t] EXCEPT !.token = identity.token]
<1>1. c \in CallRecords /\ c.state = call[t].state /\ c.namespace = call[t].namespace
  BY CallTypes DEF CallRecords
<1>2. ~c.tolerant
  BY CallerFacts, StateFacts DEF SendRequest
<1>3. call' = [call EXCEPT ![t] = c]
  BY CallerFacts DEF SendRequest
<1> HIDE DEF c
<1> QED BY <1>1, <1>2, <1>3, StateFacts, BodyStep DEF SendRequest

\* A later request of a body that is answered, or not needed, keeps the
\* invariant.
LEMMA ProceedPreserves ==
  ASSUME AuthInv, NEW t \in Callers, NEW from \in {"work", "key", "items"},
         NEW label \in {"checkpoint", "row"}, Proceed(t, from, label)
  PROVE  AuthInv'
<1> DEFINE c == [call[t] EXCEPT !.token = NoToken]
<1>1. c \in CallRecords /\ c.state = call[t].state /\ c.namespace = call[t].namespace
  BY CallTypes DEF CallRecords
<1>2. ~c.tolerant
  BY CallerFacts, StateFacts DEF Proceed
<1>3. call' = [call EXCEPT ![t] = c]
  BY CallerFacts DEF Proceed
<1> HIDE DEF c
<1> QED BY <1>1, <1>2, <1>3, StateFacts, BodyStep DEF Proceed

\* The check of a known default namespace, and joining it, keep the invariant.
LEMMA ReadyPreserves ==
  ASSUME AuthInv, NEW t \in Callers, Ready(t) PROVE AuthInv'
<1>1. authMu' = authMu /\ authMu # t
  BY CallerFacts DEF Ready, CallOK
<1>2. CASE row.id = call[t].namespace /\ row.key # NoNamespace
  BY <1>1, <1>2, FinishStep DEF Ready
<1>3. CASE ~(row.id = call[t].namespace /\ row.key # NoNamespace)
  <2> DEFINE c == [call[t] EXCEPT !.next = "join", !.state = NoState]
  <2>1. /\ c \in CallRecords /\ c.state = NoState /\ c.namespace = call[t].namespace
        /\ c.next = "join"
    BY CallTypes DEF CallRecords
  <2>2. ~c.tolerant
    BY CallerFacts, StateFacts DEF Ready
  <2>3. call' = [call EXCEPT ![t] = c] /\ pc' = [pc EXCEPT ![t] = "ensure"]
    BY <1>3, CallerFacts DEF Ready, Goto
  <2>4. outcome' \in [Callers -> {"none", "ok", "unauthorized", "rollback", "error"}]
    BY <1>3, CallerFacts DEF Ready
  <2> HIDE DEF c
  <2>5. CallOK(t, "ensure", c, authMu', Len(age), srvDefault)
    BY <1>1, <2>1, <2>2, StateFacts DEF CallOK
  <2> QED BY <1>1, <2>3, <2>4, <2>5, LocalStep, Zenon DEF Ready
<1> QED BY <1>2, <1>3

-----------------------------------------------------------------------------
(* Steps that issue tokens, save, or reach the server *)

\* A token is issued to the holder of authMu, who goes on to save it.
LEMMA IssueStep ==
  ASSUME AuthInv, NEW t \in Callers, NEW accepted \in SUBSET srvTokens, Issue(accepted),
         NEW c \in CallRecords, c.state.token = Len(age) + 1,
         c.state.default \in {NoNamespace, srvDefault}, c.namespace = call[t].namespace,
         c.next \in AuthNext, c.tolerant => c.next \in {"begin", "join"},
         authMu = t, call' = [call EXCEPT ![t] = c], Goto(t, "persist"),
         UNCHANGED <<srvDefault, identity, storeVars, authMu, outcome>>
  PROVE  AuthInv'
<1>1. /\ age' \in Seq({"valid", "skew", "expired"}) /\ Len(age') = Len(age) + 1
      /\ Len(age) \in Nat
  BY DEF Issue, AuthInv, SharedOK
<1>2. srvTokens' \subseteq 1..Len(age')
  <2>1. srvTokens' = accepted \cup {Len(age) + 1} /\ accepted \subseteq 1..Len(age)
    BY DEF Issue, AuthInv, SharedOK
  <2>2. 1..(Len(age) + 1) = 1..Len(age) \cup {Len(age) + 1}
    BY <1>1
  <2> QED BY <1>1, <2>1, <2>2, Zenon
<1>3. SharedOK'
  <2>1. identity.token \in Nat /\ stored.token \in Nat
    BY DEF AuthInv, SharedOK, IdentityStates
  <2> QED BY <1>1, <1>2, <2>1 DEF AuthInv, SharedOK, storeVars, OneDefaultNamespace
<1>4. CallOK(t, "persist", c, authMu', Len(age'), srvDefault')
  BY <1>1, StateFacts DEF CallOK
<1>5. Len(age') \in Nat /\ Len(age) <= Len(age')
  BY <1>1
<1>6. CallersOK'
  BY <1>1, <1>4, <1>5, CallerStep, Zenon DEF Goto
<1> QED BY <1>3, <1>6 DEF AuthInv

\* A login, whose answer names the default namespace, keeps the invariant.
LEMMA LoginPreserves ==
  ASSUME AuthInv, NEW t \in Callers, Login(t) PROVE AuthInv'
<1> DEFINE state == [token |-> Len(age) + 1, default |-> srvDefault]
           next == IF call[t].next = "login" THEN "run" ELSE call[t].next
           c == [call[t] EXCEPT !.state = state, !.next = next]
<1>1. authMu = t /\ next \in {"begin", "join", "run"}
  BY CallerFacts DEF Login, CallOK
<1>2. state \in IdentityStates /\ state.token = Len(age) + 1 /\ state.default = srvDefault
  <2>1. Len(age) + 1 \in Nat /\ srvDefault \in Namespaces \cup {NoNamespace}
    BY DEF AuthInv, SharedOK
  <2> QED BY <2>1 DEF IdentityStates
<1>3. ~c.tolerant
  BY CallerFacts, StateFacts DEF Login
<1>4. call' = [call EXCEPT ![t] = c]
  BY CallerFacts DEF Login
<1>5. Issue(srvTokens) /\ Goto(t, "persist")
      /\ UNCHANGED <<srvDefault, identity, storeVars, authMu, outcome>>
  BY DEF Login
<1> HIDE DEF state, next
<1>6. /\ c \in CallRecords /\ c.state = state /\ c.next = next
      /\ c.namespace = call[t].namespace
  BY <1>1, <1>2, CallTypes DEF CallRecords
<1> HIDE DEF c
<1> QED BY <1>1, <1>2, <1>3, <1>4, <1>5, <1>6, IssueStep

\* A refresh keeps the invariant, whether or not the old token stays accepted.
LEMMA RefreshPreserves ==
  ASSUME AuthInv, NEW t \in Callers, Refresh(t) PROVE AuthInv'
<1> DEFINE state == [call[t].state EXCEPT !.token = Len(age) + 1]
           c == [call[t] EXCEPT !.state = state]
<1>1. authMu = t /\ call[t].next \in {"begin", "join"}
  BY CallerFacts DEF Refresh, CallOK
<1>2. /\ state \in IdentityStates /\ state.token = Len(age) + 1
      /\ state.default \in {NoNamespace, srvDefault}
  BY CallerFacts, StateFacts DEF IdentityStates
<1>3. call' = [call EXCEPT ![t] = c]
  BY CallerFacts DEF Refresh
<1>4. PICK accepted \in SUBSET srvTokens : Issue(accepted)
  BY DEF Refresh
<1>5. Goto(t, "persist") /\ UNCHANGED <<srvDefault, identity, storeVars, authMu, outcome>>
  BY DEF Refresh
<1> HIDE DEF state
<1>6. /\ c \in CallRecords /\ c.state = state /\ c.next = call[t].next
      /\ c.namespace = call[t].namespace
  BY <1>2, CallTypes DEF CallRecords
<1> HIDE DEF c
<1> QED BY <1>1, <1>2, <1>3, <1>4, <1>5, <1>6, IssueStep

\* Writing the identity row in saveIdentityState keeps the invariant.
LEMMA PersistPreserves ==
  ASSUME AuthInv, NEW t \in Callers, Persist(t) PROVE AuthInv'
<1>1. CallOK(t, pc[t], call[t], authMu, Len(age), srvDefault) /\ pc[t] = "persist"
  BY CallerFacts DEF Persist
<1>2. CallOK(t, "publish", call[t], authMu', Len(age'), srvDefault')
  BY <1>1 DEF CallOK, Persist, serverVars
<1>3. call' = [call EXCEPT ![t] = call[t]] /\ pc' = [pc EXCEPT ![t] = "publish"]
  BY CallerFacts DEF Persist, Goto
<1>4. /\ authMu' = authMu /\ srvDefault' = srvDefault /\ age' = age
      /\ Len(age) \in Nat /\ Len(age) <= Len(age)
  BY DEF Persist, serverVars, AuthInv, SharedOK
<1>5. CallersOK'
  BY <1>2, <1>3, <1>4, CallerStep, Zenon
<1>6. SharedOK'
  BY StateFacts DEF Persist, serverVars, AuthInv, SharedOK, OneDefaultNamespace
<1> QED BY <1>5, <1>6 DEF AuthInv

\* Publishing the saved identity state in memory keeps the invariant.
LEMMA PublishPreserves ==
  ASSUME AuthInv, NEW t \in Callers, Publish(t) PROVE AuthInv'
<1> DEFINE c == [call[t] EXCEPT !.tolerant = FALSE, !.state = NoState]
<1>1. CallOK(t, pc[t], call[t], authMu, Len(age), srvDefault) /\ pc[t] = "publish"
  BY CallerFacts DEF Publish
<1>2. authMu = t <=> call[t].next \in AuthNext
  BY <1>1 DEF CallOK
<1>3. /\ srvDefault' = srvDefault /\ age' = age
      /\ Len(age) \in Nat /\ Len(age') \in Nat /\ Len(age) <= Len(age')
  BY DEF Publish, serverVars, AuthInv, SharedOK
<1>4. /\ c \in CallRecords /\ c.state = NoState /\ c.namespace = call[t].namespace
      /\ c.next = call[t].next /\ ~c.tolerant
  BY CallTypes DEF CallRecords
<1> HIDE DEF c
<1>5. /\ authMu' = authMu \/ (authMu = t /\ authMu' = Nobody)
      /\ authMu' = t <=> call[t].next = "login"
  BY <1>2, NobodyElse DEF Publish, Release
<1>6. CASE call[t].next = "ok"
  <2>1. CallOK(t, "idle", NewCall("request"), authMu', Len(age'), srvDefault')
    BY <1>3, <1>5, <1>6, NewCallOK DEF Kinds
  <2>2. /\ pc' = [pc EXCEPT ![t] = "idle"] /\ call' = [call EXCEPT ![t] = NewCall("request")]
        /\ outcome' \in [Callers -> {"none", "ok", "unauthorized", "rollback", "error"}]
    BY <1>6, CallerFacts DEF Publish, Finish, Goto
  <2>3. CallersOK'
    BY <1>3, <1>5, <2>1, <2>2, CallerStep, Zenon
  <2>4. SharedOK'
    BY <1>3, <1>5, <2>2, StateFacts, NobodyElse
    DEF Publish, serverVars, storeVars, AuthInv, SharedOK, OneDefaultNamespace
  <2> QED BY <2>3, <2>4 DEF AuthInv
<1>7. CASE call[t].next # "ok"
  <2>1. /\ pc' = [pc EXCEPT ![t] = call[t].next] /\ call' = [call EXCEPT ![t] = c]
        /\ outcome' = outcome
    BY <1>7, CallerFacts DEF Publish, Goto, c
  <2>2. call[t].next \in {"begin", "run", "login", "join", "flush", "row"}
    BY <1>7, CallerFacts DEF CallRecords
  <2>3. CallOK(t, call[t].next, c, authMu', Len(age'), srvDefault')
    <3>1. c.state.token = 0 /\ c.state.default = NoNamespace /\ 0 <= Len(age')
      BY <1>3, <1>4, StateFacts
    <3>2. c.namespace \in {NoNamespace, srvDefault'}
      BY <1>3, <1>4, StateFacts
    <3> QED BY <1>4, <1>5, <2>2, <3>1, <3>2 DEF CallOK
  <2>4. CallersOK'
    BY <1>3, <1>5, <2>1, <2>3, CallerStep, Zenon
  <2>5. SharedOK'
    BY <1>3, <1>5, <2>1, StateFacts, NobodyElse
    DEF Publish, serverVars, storeVars, AuthInv, SharedOK, OneDefaultNamespace
  <2> QED BY <2>4, <2>5 DEF AuthInv
<1> QED BY <1>6, <1>7

\* What a step of t outside authMu keeps when it reaches the server or the store
\* without a token being issued.
LEMMA ServerStep ==
  ASSUME AuthInv, NEW t \in Callers, NEW label, NEW c,
         Goto(t, label), call' = [call EXCEPT ![t] = c], SharedOK',
         authMu' = authMu, age' = age, srvDefault' = srvDefault \/ srvDefault = NoNamespace,
         CallOK(t, label, c, authMu, Len(age), srvDefault')
  PROVE  AuthInv'
<1>1. /\ Len(age) \in Nat /\ Len(age') \in Nat /\ Len(age) <= Len(age')
      /\ Len(age') = Len(age)
  BY DEF AuthInv, SharedOK
<1>2. CallOK(t, label, c, authMu', Len(age'), srvDefault')
  BY <1>1
<1> QED BY <1>1, <1>2, CallerStep, Zenon DEF Goto, AuthInv

\* Saving the head of a pulled namespace, and an unknown default one, keeps the
\* invariant.
LEMMA SaveCheckpointPreserves ==
  ASSUME AuthInv, NEW t \in Callers, SaveCheckpoint(t) PROVE AuthInv'
<1> DEFINE state == [call[t].state EXCEPT !.default = call[t].namespace]
           c == [call[t] EXCEPT !.state = state, !.next = "flush"]
<1>1. CallOK(t, pc[t], call[t], authMu, Len(age), srvDefault) /\ pc[t] = "checkpoint"
  BY CallerFacts DEF SaveCheckpoint
<1>2. SharedOK'
  BY StateFacts
  DEF SaveCheckpoint, SaveNamespace, serverVars, AuthInv, SharedOK, OneDefaultNamespace
<1>3. CASE call[t].state.default = NoNamespace
  <2>1. /\ state \in IdentityStates /\ state.token = call[t].state.token
        /\ state.default = call[t].namespace
    BY StateFacts DEF IdentityStates
  <2>2. Goto(t, "persist") /\ call' = [call EXCEPT ![t] = c]
    BY <1>3, CallerFacts DEF SaveCheckpoint
  <2>3. ~c.tolerant
    BY <1>1, StateFacts
  <2> HIDE DEF state
  <2>4. /\ c \in CallRecords /\ c.state = state /\ c.next = "flush"
        /\ c.namespace = call[t].namespace
    BY <2>1, CallTypes DEF CallRecords
  <2> HIDE DEF c
  <2>5. CallOK(t, "persist", c, authMu, Len(age), srvDefault)
    BY <1>1, <2>1, <2>3, <2>4, StateFacts DEF CallOK
  <2> QED BY <1>2, <2>2, <2>5, ServerStep, Zenon DEF SaveCheckpoint, serverVars
<1>4. CASE call[t].state.default # NoNamespace
  <2>1. Goto(t, "flush") /\ call' = [call EXCEPT ![t] = call[t]]
    BY <1>4, CallerFacts DEF SaveCheckpoint
  <2>2. CallOK(t, "flush", call[t], authMu, Len(age), srvDefault)
    BY <1>1 DEF CallOK
  <2> QED BY <1>2, <2>1, <2>2, ServerStep, Zenon DEF SaveCheckpoint, serverVars
<1> QED BY <1>3, <1>4

\* Saving the row of a joined or created default namespace keeps the invariant.
LEMMA SaveRowPreserves ==
  ASSUME AuthInv, NEW t \in Callers, SaveRow(t) PROVE AuthInv'
<1>1. CallOK(t, pc[t], call[t], authMu, Len(age), srvDefault) /\ pc[t] = "row"
  BY CallerFacts DEF SaveRow
<1>2. outcome' \in [Callers -> {"none", "ok", "unauthorized", "rollback", "error"}]
  BY CallerFacts DEF SaveRow, Finish
<1>3. SharedOK'
  BY <1>2, StateFacts
  DEF SaveRow, SaveNamespace, serverVars, AuthInv, SharedOK, OneDefaultNamespace
<1>4. CASE call[t].kind = "sync"
  <2>1. Goto(t, "work") /\ call' = [call EXCEPT ![t] = call[t]]
    BY <1>4, CallerFacts DEF SaveRow
  <2>2. CallOK(t, "work", call[t], authMu, Len(age), srvDefault)
    BY <1>1 DEF CallOK
  <2> QED BY <1>3, <2>1, <2>2, ServerStep, Zenon DEF SaveRow, serverVars
<1>5. CASE call[t].kind # "sync"
  <2>1. Goto(t, "idle") /\ call' = [call EXCEPT ![t] = NewCall("request")]
    BY <1>5 DEF SaveRow, Finish
  <2>2. CallOK(t, "idle", NewCall("request"), authMu, Len(age), srvDefault)
    <3>1. authMu # t
      BY <1>1 DEF CallOK
    <3> QED BY <3>1, CallerFacts, NewCallOK DEF Kinds
  <2> QED BY <1>3, <2>1, <2>2, ServerStep, Zenon DEF SaveRow, serverVars
<1> QED BY <1>4, <1>5

\* The default namespace of the server is set once: what is shared stays in order
\* when t's request sets it and nothing else but t's outcome changes.
LEMMA SetDefaultShared ==
  ASSUME AuthInv, NEW default \in Namespaces, srvDefault' = default,
         srvDefault = NoNamespace \/ srvDefault = default,
         outcome' \in [Callers -> {"none", "ok", "unauthorized", "rollback", "error"}],
         UNCHANGED <<srvTokens, age, identity, storeVars, authMu>>
  PROVE  SharedOK'
  BY DEF AuthInv, SharedOK, storeVars, OneDefaultNamespace

\* Adopting the default namespace that the server answers keeps the invariant.
LEMMA EnsureDefaultNamespacePreserves ==
  ASSUME AuthInv, NEW t \in Callers, EnsureDefaultNamespace(t) PROVE AuthInv'
<1> DEFINE default == Created(t)
           state == [call[t].state EXCEPT !.default = default]
           c == [call[t] EXCEPT !.namespace = default, !.state = state, !.token = NoToken,
                                !.next = "row"]
<1>1. CallOK(t, pc[t], call[t], authMu, Len(age), srvDefault) /\ pc[t] = "create"
  BY CallerFacts DEF EnsureDefaultNamespace, CreateDefault, Accepted
<1>2. default \in Namespaces /\ (srvDefault = NoNamespace \/ srvDefault = default)
  BY CallerFacts DEF Created, Namespaces
<1>3. /\ call' = [call EXCEPT ![t] = c] /\ Goto(t, "persist") /\ srvDefault' = default
      /\ UNCHANGED <<srvTokens, age, identity, storeVars, authMu, outcome>>
  <2>1. call' = [call EXCEPT ![t] = c]
    BY CallTypes DEF EnsureDefaultNamespace, CreateDefault
  <2> QED BY <2>1 DEF EnsureDefaultNamespace, CreateDefault
<1>4. ~c.tolerant
  BY <1>1, StateFacts
<1> HIDE DEF default
<1>5. /\ state \in IdentityStates /\ state.default = default
      /\ state.token = call[t].state.token
  BY <1>2, StateFacts DEF IdentityStates
<1> HIDE DEF state
<1>6. c \in CallRecords /\ c.state = state /\ c.namespace = default /\ c.next = "row"
  BY <1>2, <1>5, CallTypes DEF CallRecords
<1> HIDE DEF c
<1>7. CallOK(t, "persist", c, authMu, Len(age), srvDefault')
  BY <1>1, <1>3, <1>4, <1>5, <1>6, StateFacts DEF CallOK
<1>8. SharedOK'
  BY <1>2, <1>3, CallerFacts, SetDefaultShared
<1>9. srvDefault' = srvDefault \/ srvDefault = NoNamespace
  BY <1>2, <1>3
<1> QED BY <1>3, <1>7, <1>8, <1>9, ServerStep, Zenon

\* A default namespace created by a request whose answer is lost keeps the
\* invariant.
LEMMA EnsureDefaultNamespaceLostPreserves ==
  ASSUME AuthInv, NEW t \in Callers, EnsureDefaultNamespaceLost(t) PROVE AuthInv'
<1>1. authMu # t
  BY CallerFacts DEF EnsureDefaultNamespaceLost, Accepted, CallOK
<1>2. /\ Created(t) \in Namespaces
      /\ srvDefault = NoNamespace \/ srvDefault = Created(t)
  BY CallerFacts DEF Created, Namespaces
<1>3. /\ Goto(t, "idle") /\ call' = [call EXCEPT ![t] = NewCall("request")]
      /\ srvDefault' = Created(t)
      /\ UNCHANGED <<srvTokens, age, identity, storeVars, authMu>>
  BY DEF EnsureDefaultNamespaceLost, Finish
<1>4. outcome' \in [Callers -> {"none", "ok", "unauthorized", "rollback", "error"}]
  BY CallerFacts DEF EnsureDefaultNamespaceLost, Finish
<1>5. SharedOK'
  BY <1>2, <1>3, <1>4, SetDefaultShared
<1>6. CallOK(t, "idle", NewCall("request"), authMu, Len(age), srvDefault')
  BY <1>1, CallerFacts, NewCallOK DEF Kinds
<1>7. srvDefault' = srvDefault \/ srvDefault = NoNamespace
  BY <1>2, <1>3
<1> QED BY <1>3, <1>5, <1>6, <1>7, ServerStep, Zenon

\* Revoking all tokens and clearing the one in use keeps the invariant.
LEMMA RevokeAllTokensPreserves ==
  ASSUME AuthInv, NEW t \in Callers, RevokeAllTokens(t) PROVE AuthInv'
<1> DEFINE state == [call[t].state EXCEPT !.token = NoToken]
           c == [call[t] EXCEPT !.state = state, !.token = NoToken, !.next = "ok"]
<1>1. CallOK(t, pc[t], call[t], authMu, Len(age), srvDefault) /\ pc[t] = "revoke"
  BY CallerFacts DEF RevokeAllTokens, Accepted
<1>2. /\ call' = [call EXCEPT ![t] = c] /\ Goto(t, "persist") /\ srvTokens' = {}
      /\ UNCHANGED <<srvDefault, age, identity, storeVars, authMu, outcome>>
  BY CallerFacts DEF RevokeAllTokens
<1>3. ~c.tolerant
  BY <1>1, StateFacts
<1>4. /\ state \in IdentityStates /\ state.token = 0
      /\ state.default = call[t].state.default
  BY StateFacts DEF IdentityStates
<1> HIDE DEF state
<1>5. /\ c \in CallRecords /\ c.state = state /\ c.namespace = call[t].namespace
      /\ c.next = "ok"
  BY <1>4, CallTypes DEF CallRecords
<1> HIDE DEF c
<1>6. CallOK(t, "persist", c, authMu, Len(age), srvDefault')
  BY <1>1, <1>2, <1>3, <1>4, <1>5, StateFacts DEF CallOK
<1>7. SharedOK'
  BY <1>2 DEF AuthInv, SharedOK, storeVars, OneDefaultNamespace
<1> QED BY <1>2, <1>6, <1>7, ServerStep, Zenon

\* A revocation whose answer is lost keeps the invariant.
LEMMA RevokeAllTokensLostPreserves ==
  ASSUME AuthInv, NEW t \in Callers, RevokeAllTokensLost(t) PROVE AuthInv'
<1>1. authMu # t
  BY CallerFacts DEF RevokeAllTokensLost, Accepted, CallOK
<1>2. /\ Goto(t, "idle") /\ call' = [call EXCEPT ![t] = NewCall("request")]
      /\ srvTokens' = {}
      /\ UNCHANGED <<srvDefault, age, identity, storeVars, authMu>>
  BY DEF RevokeAllTokensLost, Finish
<1>3. outcome' \in [Callers -> {"none", "ok", "unauthorized", "rollback", "error"}]
  BY CallerFacts DEF RevokeAllTokensLost, Finish
<1>4. SharedOK'
  BY <1>2, <1>3 DEF AuthInv, SharedOK, storeVars, OneDefaultNamespace
<1>5. CallOK(t, "idle", NewCall("request"), authMu, Len(age), srvDefault)
  BY <1>1, CallerFacts, NewCallOK DEF Kinds
<1> QED BY <1>2, <1>4, <1>5, ServerStep, Zenon

-----------------------------------------------------------------------------
(* The environment *)

\* A step of nobody here leaves the callers in order if it issues no token and
\* sets the default namespace of the server at most once.
LEMMA EnvStep ==
  ASSUME AuthInv, UNCHANGED <<authMu, pc, call>>, Len(age') = Len(age),
         srvDefault' = srvDefault \/ srvDefault = NoNamespace
  PROVE  CallersOK'
<1>1. ASSUME NEW t \in Callers
      PROVE  CallOK(t, pc[t], call[t], authMu, Len(age'), srvDefault')
  BY CallerFacts DEF CallOK
<1> QED BY <1>1 DEF AuthInv, CallersOK

\* A restart, which loads the identity row, keeps the invariant.
LEMMA RestartPreserves ==
  ASSUME AuthInv, NEW forget \in BOOLEAN, Restart(forget) PROVE AuthInv'
<1>1. /\ stored' \in IdentityStates /\ stored'.token <= Len(age)
      /\ stored'.default = stored.default
  BY DEF Restart, AuthInv, SharedOK, IdentityStates
<1>2. /\ row' \in [id : Namespaces \cup {NoNamespace}, key : Namespaces \cup {NoNamespace}]
      /\ {row'.id, row'.key} \subseteq {NoNamespace, row.id, row.key}
  BY DEF Restart, AuthInv, SharedOK
<1>3. UNCHANGED serverVars /\ identity' = stored' /\ authMu' = Nobody
  BY DEF Restart
<1>4. outcome' \in [Callers -> {"none", "ok", "unauthorized", "rollback", "error"}]
  BY DEF Restart, NoOutcomes
<1>5. SharedOK'
  <2>1. {stored'.default, row'.id, row'.key} \subseteq {NoNamespace, srvDefault'}
    BY <1>1, <1>2, <1>3 DEF AuthInv, SharedOK, OneDefaultNamespace, serverVars
  <2>2. OneDefaultNamespace'
    BY <1>3, <2>1 DEF OneDefaultNamespace
  <2> QED BY <1>1, <1>2, <1>3, <1>4, <2>2 DEF AuthInv, SharedOK, serverVars
<1>6. ASSUME NEW t \in Callers
      PROVE  /\ pc'[t] = "idle" /\ call'[t] = NewCall("request")
             /\ CallOK(t, pc'[t], call'[t], authMu', Len(age'), srvDefault')
  <2>1. pc'[t] = "idle" /\ call'[t] = NewCall("request") /\ authMu' # t
    BY NobodyElse DEF Restart, AllIdle, NoCalls
  <2>2. Len(age') \in Nat
    BY <1>5 DEF SharedOK
  <2> QED BY <2>1, <2>2, NewCallOK DEF Kinds
<1>7. pc' \in [Callers -> Labels] /\ call' \in [Callers -> CallRecords]
  BY <1>6 DEF Restart, AllIdle, NoCalls, CallOK
<1> QED BY <1>5, <1>6, <1>7 DEF AuthInv, CallersOK

\* ResetSyncState under a running engine keeps the invariant.
LEMMA ResetSyncStatePreserves ==
  ASSUME AuthInv, ResetSyncState PROVE AuthInv'
<1>1. CallersOK'
  BY EnvStep DEF ResetSyncState, serverVars
<1>2. SharedOK'
  BY DEF ResetSyncState, NoRow, serverVars, AuthInv, SharedOK, IdentityStates, OneDefaultNamespace
<1> QED BY <1>1, <1>2 DEF AuthInv

\* Another device creating the default namespace first keeps the invariant.
LEMMA OtherDeviceCreatesPreserves ==
  ASSUME AuthInv, OtherDeviceCreates PROVE AuthInv'
<1>1. CallersOK'
  BY EnvStep DEF OtherDeviceCreates
<1>2. SharedOK'
  <2>1. Other \in Namespaces /\ outcome' = outcome
    BY DEF Namespaces, OtherDeviceCreates
  <2> QED BY <2>1, SetDefaultShared DEF OtherDeviceCreates, AuthInv, SharedOK
<1> QED BY <1>1, <1>2 DEF AuthInv

\* The server dropping a token keeps the invariant.
LEMMA ServerDropsPreserves ==
  ASSUME AuthInv, NEW token \in srvTokens, ServerDrops(token) PROVE AuthInv'
<1>1. CallersOK'
  BY EnvStep DEF ServerDrops
<1>2. SharedOK'
  BY DEF ServerDrops, storeVars, AuthInv, SharedOK, OneDefaultNamespace
<1> QED BY <1>1, <1>2 DEF AuthInv

\* The aging of a token keeps the invariant.
LEMMA AgePreserves ==
  ASSUME AuthInv, NEW token \in DOMAIN age, Age(token) PROVE AuthInv'
<1>1. age' \in Seq({"valid", "skew", "expired"}) /\ Len(age') = Len(age)
  BY DEF Age, AuthInv, SharedOK
<1>2. CallersOK'
  BY <1>1, EnvStep DEF Age
<1>3. SharedOK'
  BY <1>1 DEF Age, storeVars, AuthInv, SharedOK, OneDefaultNamespace
<1> QED BY <1>2, <1>3 DEF AuthInv

-----------------------------------------------------------------------------
(* The theorems *)

\* Every step of a call on its own keeps the invariant.
LEMMA StepPreserves ==
  ASSUME AuthInv, NEW t \in Callers, Step(t) PROVE AuthInv'
<1>1. CASE Login(t) \/ RefreshSnapshot(t) \/ Refresh(t) \/ RefreshRefused(t)
  BY <1>1, LoginPreserves, RefreshSnapshotPreserves, RefreshPreserves,
     RefreshFailsPreserves DEF RefreshRefused
<1>2. CASE Persist(t) \/ Publish(t) \/ Begin(t) \/ Run(t) \/ Rejected(t)
  BY <1>2, PersistPreserves, PublishPreserves, BeginPreserves, RunPreserves,
     RejectedPreserves
<1>3. CASE ListAccepted(t) \/ Check(t) \/ SaveCheckpoint(t) \/ Ready(t) \/ SaveRow(t)
  BY <1>3, ListAcceptedPreserves, CheckPreserves, SaveCheckpointPreserves,
     ReadyPreserves, SaveRowPreserves
<1>4. CASE Join(t) \/ GetItems(t) \/ Upload(t)
  BY <1>4, SendRequestPreserves DEF Join, GetItems, Upload
<1>5. CASE KeyAccepted(t) \/ NothingToFetch(t) \/ ItemsAccepted(t)
  BY <1>5, ProceedPreserves DEF KeyAccepted, NothingToFetch, ItemsAccepted
<1>6. CASE NothingToUpload(t) \/ RequestAccepted(t)
  BY <1>6, DonePreserves DEF NothingToUpload, RequestAccepted
<1>7. CASE EnsureDefaultNamespace(t) \/ RevokeAllTokens(t)
  BY <1>7, EnsureDefaultNamespacePreserves, RevokeAllTokensPreserves
<1> QED BY <1>1, <1>2, <1>3, <1>4, <1>5, <1>6, <1>7 DEF Step

\* Every way in which a call fails keeps the invariant.
LEMMA CallFailsPreserves ==
  ASSUME AuthInv, NEW t \in Callers, CallFails(t) PROVE AuthInv'
  BY LoginFailsPreserves, RefreshFailsPreserves, SaveFailsPreserves,
     BodyFailsPreserves, EnsureDefaultNamespaceLostPreserves,
     RevokeAllTokensLostPreserves DEF CallFails

\* A stuttering step keeps the invariant.
LEMMA StutterPreserves ==
  ASSUME AuthInv, UNCHANGED vars PROVE AuthInv'
<1>1. UNCHANGED <<srvTokens, srvDefault, age, identity, stored, row, authMu, pc, call, outcome>>
  BY DEF vars, serverVars, storeVars
<1> QED BY <1>1, EnvStep DEF AuthInv, SharedOK, OneDefaultNamespace

\* Every step keeps the invariant.
LEMMA AuthNextStep == AuthInv /\ [Next]_vars => AuthInv'
<1> SUFFICES ASSUME AuthInv, [Next]_vars PROVE AuthInv'
  OBVIOUS
<1>1. CASE \E t \in Callers : Step(t) \/ LockStep(t) \/ CallStep(t) \/ RevokeStep(t)
  <2>1. PICK t \in Callers : Step(t) \/ LockStep(t) \/ CallStep(t) \/ RevokeStep(t)
    BY <1>1
  <2>2. CASE Step(t)
    BY <2>2, StepPreserves
  <2>3. CASE LockStep(t)
    BY <2>3, EnsureAuthenticatedPreserves, ReauthenticatePreserves DEF LockStep
  <2>4. CASE CallStep(t) \/ RevokeStep(t)
    BY <2>4, CallPreserves DEF CallStep, RevokeStep, Kinds
  <2> QED BY <2>1, <2>2, <2>3, <2>4
<1>2. CASE FaultStep
  BY <1>2, CallFailsPreserves, RestartPreserves, ResetSyncStatePreserves DEF FaultStep
<1>3. CASE DropStep \/ AgeStep \/ OtherDeviceCreates
  BY <1>3, ServerDropsPreserves, AgePreserves, OtherDeviceCreatesPreserves
  DEF DropStep, AgeStep
<1>4. CASE UNCHANGED vars
  BY <1>4, StutterPreserves
<1> QED BY <1>1, <1>2, <1>3, <1>4 DEF Next

\* At every moment exactly the caller that is between a login or a refresh and the
\* publication of its token holds authMu, and every identity state on its way to
\* the store names the default namespace of the server or none (ensureAuthenticated,
\* reauthenticateAfterUnauthorized, saveIdentityState, defaultNamespace).
THEOREM SessionInvariant == Spec => []AuthInv
<1> QED BY AuthInit, AuthNextStep, PTL DEF Spec

\* Every variable keeps its type, and no token is in use that the server has not
\* issued, whatever fails in between (e.identityState, the identity row, the local
\* variables of runAuthenticated and of the bodies it runs).
THEOREM SessionTypes == Spec => []TypeOK
<1>1. AuthInv => TypeOK
  BY DEF AuthInv, SharedOK, CallersOK, CallOK, TypeOK
<1> QED BY <1>1, SessionInvariant, PTL

\* The token that login, refresh or reauthenticateAfterUnauthorized is about to
\* save under authMu is the newest one issued, or none, for any number of callers.
THEOREM LoginOrder == Spec => []LoginsInOrder
<1>1. AuthInv => LoginsInOrder
  BY DEF AuthInv, CallersOK, CallOK, LoginsInOrder
<1> QED BY <1>1, SessionInvariant, PTL

\* DefaultNamespace, syncNamespaces and joinNamespace, run by any number of callers
\* beside another device, leave no default namespace but the server's in memory, in
\* the identity row or in the namespace row.
THEOREM DefaultNamespaceUnique == Spec => []OneDefaultNamespace
<1>1. AuthInv => OneDefaultNamespace
  BY DEF AuthInv, SharedOK
<1> QED BY <1>1, SessionInvariant, PTL
=============================================================================

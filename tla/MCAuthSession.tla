---------------------------- MODULE MCAuthSession ----------------------------
(***************************************************************************)
(* AuthSession for TLC: the Run loop, which repeats its passes for ever,   *)
(* beside the app, whose calls draw on a budget, as do faults, tokens that *)
(* the server drops and tokens that age.                                   *)
(***************************************************************************)
EXTENDS AuthSession

CONSTANTS
    Runner,         \* the caller that repeats its calls
    MaxEvents       \* calls of the other callers and mishaps, together

VARIABLE budget     \* what is left of MaxEvents

mcVars == <<vars, budget>>

MCInit == Init /\ budget = MaxEvents

Engine(step) == step /\ UNCHANGED budget

Event(step) == step /\ budget > 0 /\ budget' = budget - 1

RepeatSync == Call(Runner, "sync")

AppCall == \E t \in Callers \ {Runner} : CallStep(t) \/ RevokeStep(t)

\* A token that nobody holds any more may be dropped or age unnoticed.
Held == {identity.token, stored.token} \cup {call[t].token : t \in Callers}

MCNext ==
    \/ \E t \in Callers : Engine(Step(t) \/ LockStep(t))
    \/ Engine(RepeatSync) \/ Engine(OtherDeviceCreates)
    \/ Event(AppCall) \/ Event(FaultStep)
    \/ \E token \in Held : Event(ServerDrops(token)) \/ Event(Age(token))

\* The Go scheduler runs every goroutine that can run, Run repeats its passes, and
\* sync.Mutex hands itself to a waiter that has been passed over.
Fairness ==
    /\ WF_mcVars(Engine(RepeatSync))
    /\ \A t \in Callers : WF_mcVars(Engine(Step(t))) /\ SF_mcVars(Engine(LockStep(t)))

MCSpec == MCInit /\ [][MCNext]_mcVars
MCFairSpec == MCSpec /\ Fairness

-----------------------------------------------------------------------------
(* Properties *)

\* Once the app has stopped calling, the server has stopped dropping tokens and
\* nothing fails any more, the passes of Run stop failing: whatever stale or
\* cleared token the identity was left with by concurrent logins, saves,
\* revocations and restarts is replaced.
SessionHeals == <>[](outcome[Runner] \in {"none", "ok"})

\* Every call returns, also one whose body obtains a token of its own while it
\* runs, and one that meets another caller's failed login.
CallReturns == \A t \in Callers : pc[t] # "idle" ~> pc[t] = "idle"
=============================================================================

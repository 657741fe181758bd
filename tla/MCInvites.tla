------------------------------ MODULE MCInvites ------------------------------
(***************************************************************************)
(* Invites for TLC: the app of an owner, and a joiner whose app makes      *)
(* calls beside passes that repeat for ever.  The calls of the apps and    *)
(* the mishaps draw on one budget.                                         *)
(***************************************************************************)
EXTENDS Invites, TLC

CONSTANTS
    Owner, Joiner,                  \* the devices
    OwnerApp, JoinerApp, JoinerRun, \* the callers
    Home, Team,     \* the joiner's default namespace, and a shared namespace of the owner
    Invite,         \* drawn by the owner
    MaxTime,        \* last time
    MaxEvents       \* calls of the apps and mishaps, together

VARIABLE budget     \* what is left of MaxEvents

mcVars == <<vars, budget>>

MCDeviceOf == (OwnerApp :> Owner) @@ (JoinerApp :> Joiner) @@ (JoinerRun :> Joiner)
MCCreator == (Home :> Joiner) @@ (Team :> Owner)
MCDrawer == (Invite :> Owner)

Apps == {OwnerApp, JoinerApp}

MCInit == Init /\ budget = MaxEvents

Engine(step) == step /\ UNCHANGED budget

Event(step) == step /\ budget > 0 /\ budget' = budget - 1

RepeatPass == ListNamespaces(JoinerRun)

MCNext ==
    \/ \E t \in Callers : Engine(Step(t))
    \/ Engine(RepeatPass)
    \/ \E t \in Apps : Event(AppStep(t))
    \/ Event(FaultStep)
    \/ Engine(now < MaxTime /\ Tick)

\* The Go scheduler runs every goroutine that can run, and Run repeats its passes.
Fairness ==
    /\ \A t \in Callers : WF_mcVars(Engine(Step(t)))
    /\ WF_mcVars(Engine(RepeatPass))

MCSpec == MCInit /\ [][MCNext]_mcVars
MCFairSpec == MCSpec /\ Fairness

-----------------------------------------------------------------------------
(* Properties *)

\* Once the apps have stopped calling and nothing fails any more, a device that
\* repeats its passes has every namespace it is a member of, whether it was approved
\* with the response lost, joined, forgotten or reset, in its store with the key and
\* the kind; a kind that JoinNamespace left open, or a caller of
\* ensureNamespaceReady assumed, is replaced by the one the server lists.
MembershipSettles ==
    <>[](\A n \in Namespaces :
            Member(n, Joiner) => rows[Joiner][n] = [key |-> n, kind |-> Kind(n)])
=============================================================================

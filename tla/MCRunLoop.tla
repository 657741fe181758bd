------------------------------ MODULE MCRunLoop ------------------------------
(***************************************************************************)
(* RunLoop for TLC: every call of the app, every write, upload and fault   *)
(* draws on a budget; the goroutines themselves run for ever.              *)
(***************************************************************************)
EXTENDS RunLoop

CONSTANTS
    MaxCalls,               \* calls of the app
    MaxWrites,              \* writes of other devices
    MaxUploadsAndFaults     \* uploads and faults

VARIABLES
    budget,    \* calls, writes, and uploads and faults left
    owed       \* a scheduled sync for which no pass has begun yet

mcVars == <<vars, budget, owed>>

MCInit ==
    /\ Init
    /\ idlePolling = FALSE      \* the default configuration
    /\ budget = [call |-> MaxCalls, write |-> MaxWrites, other |-> MaxUploadsAndFaults]
    /\ owed = FALSE

Spend(b) == budget[b] > 0 /\ budget' = [budget EXCEPT ![b] = @ - 1]

\* A pass begins when SyncNow gets past its check that the engine is open.
PassBegins == \E t \in Syncers : pc[t] = "lock" /\ pc'[t] = "started"

Owe(scheduled) == owed' = ((owed \/ scheduled) /\ ~PassBegins)

Engine(step) == step /\ UNCHANGED budget /\ Owe(FALSE)

\* Everything has returned; only then may nothing happen any more.
Terminated ==
    /\ closer \in {"open", "closed"} /\ events = 0
    /\ pc[Run] = "done" /\ pc[Watch] \in {"off", "done"} /\ pc[App] = "idle"
    /\ UNCHANGED mcVars

MCNext ==
    \/ Engine(EngineStep)
    \/ FaultStep /\ Spend("other") /\ Owe(FALSE)
    \/ RemoteWrite /\ Spend("write") /\ Owe(FALSE)
    \/ UploadStep /\ Spend("other") /\ Owe(FALSE)
    \/ ScheduleStep /\ Spend("call") /\ Owe(TRUE)
    \/ CallStep /\ Spend("call") /\ Owe(FALSE)
    \/ Terminated

\* The Go scheduler runs every goroutine that can run, select chooses at random
\* among the ready cases, so that one that is ready again and again is taken, the
\* server ends every long poll, and the app reads its events, as Events asks.
Fairness ==
    /\ WF_mcVars(Engine(PassStep(App) \/ SyncNowReturns))
    /\ WF_mcVars(Engine(PassStep(Run) \/ RunStep))
    /\ SF_mcVars(Engine(SelectDone))
    /\ WF_mcVars(Engine(WatchStep))
    /\ WF_mcVars(Engine(CloseStep))
    /\ WF_mcVars(Engine(ReadEvent))

MCSpec == MCInit /\ [][MCNext]_mcVars
MCFairSpec == MCSpec /\ Fairness

-----------------------------------------------------------------------------
(* Properties *)

Stopped == closed \/ cancelled

\* No wake-up is lost: until a pass has begun after the last ScheduleSync, also
\* one that found a wake-up queued or a pass in progress, a wake-up is queued or
\* Run is about to begin a pass.
NoWakeupLost == owed /\ ~Stopped => wakeSync \/ pc[Run] = "lock"

\* Polling is enough: a change of another device reaches the stored head, even
\* when the watch is unsupported and passes have failed.
RemoteChangeNoticed == [](Stopped \/ <>(head = srvHead \/ Stopped))

\* A watch that hands a request to Run is always answered.
WatchIsAnswered == pc[Watch] = "answer" ~> pc[Watch] # "answer"

\* Close returns and leaves no goroutine behind, as long as events are read.
CloseStopsEverything ==
    closed ~> /\ closer = "closed"
              /\ pc[Run] \in {"begin", "done"}
              /\ pc[Watch] \in {"off", "done"}
=============================================================================

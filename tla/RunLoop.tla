------------------------------- MODULE RunLoop -------------------------------
(***************************************************************************)
(* The goroutines around SyncNow: the Run loop, the namespace watch it     *)
(* starts, a foreground SyncNow of the app, Close, and the bounded event   *)
(* channel they all write to and the app reads.                            *)
(*                                                                         *)
(* A sync pass is reduced to its effect on the stored namespace head: it   *)
(* pulls the server's head, may upload and count its own write, emits      *)
(* events on the way, and may fail anywhere (SyncEngine has the details).  *)
(* Time is not modelled: an armed timer may fire at any moment.            *)
(***************************************************************************)
EXTENDS Integers

CONSTANTS
    Run, App, Watch,    \* the goroutines: Engine.Run, SyncNow caller, watch
    Close,              \* the caller of Engine.Close
    Nobody,             \* a mutex nobody holds
    EventBuffer,        \* capacity of the event channel
    PollInterval, MaxPollInterval,
    Width,              \* bits of a time.Duration
    CountCap            \* where the failure and idle counters stop counting

Threads == {Run, App, Watch}
Syncers == {Run, App}

ASSUME GoroutineAssumption ==
    /\ Run # App /\ Run # Watch /\ App # Watch
    /\ Close \notin Threads /\ Nobody \notin Threads \cup {Close}
ASSUME BufferAssumption == EventBuffer \in Nat \ {0}

\* 2^k, as a recursive function the proofs can unfold.
PowerOf2(k) == LET p[n \in 0..k] == IF n = 0 THEN 1 ELSE 2 * p[n - 1] IN p[k]

\* Both intervals are of type time.Duration.
ASSUME IntervalAssumption ==
    /\ Width \in Nat \ {0} /\ CountCap \in Nat
    /\ {PollInterval, MaxPollInterval} \subseteq 0..(PowerOf2(Width - 1) - 1)

VARIABLES
    srvHead,       \* server: namespace head
    head,          \* store: NamespaceHead
    pc,            \* where each goroutine is
    syncMu,        \* holder of syncMu
    readers,       \* goroutines inside emit, holding eventMu for reading
    events,        \* events in the channel
    closed,        \* e.closed is closed
    eventsClosed,  \* eventsClosed, and the channel with it
    closer,        \* progress of Close
    cancelled,     \* the context given to Run is done
    wakeSync, loginSucceededRun, loginSucceededWatch,   \* channels of size one
    timer,         \* Run's timer is armed
    cause,         \* what made Run start its pass
    moved,         \* activitySeq changed since Run's pass loaded it
    failures, idlePolls, interval, idlePolling,
    known,         \* head the open long poll was sent with
    hint,          \* head in the watch response being handled
    answer,        \* content of the request's done channel
    report         \* error the watch is about to report

chanVars == <<wakeSync, loginSucceededRun, loginSucceededWatch>>
closeVars == <<closed, eventsClosed, closer, cancelled>>
backoffVars == <<failures, idlePolls, interval>>
runVars == <<timer, cause, moved, backoffVars, idlePolling>>
watchVars == <<known, hint, answer, report>>
emitVars == <<readers, events>>
headVars == <<srvHead, head>>
vars == <<headVars, pc, syncMu, emitVars, closeVars, chanVars, runVars, watchVars>>

-----------------------------------------------------------------------------
(* Poll intervals *)

\* A signed integer of Width bits.
Wrap(x) == ((x + PowerOf2(Width - 1)) % PowerOf2(Width)) - PowerOf2(Width - 1)

\* Seeded bug: the test against half of the maximum is missing.
DoubledUnguarded(base, max, doublings) ==
    LET f[n \in 0..doublings] ==
          IF n = 0 THEN base
          ELSE IF f[n - 1] >= max THEN max ELSE Wrap(2 * f[n - 1])
    IN IF f[doublings] > max THEN max ELSE f[doublings]

\* The loop of cappedDoubledInterval; once it returns max, it stays there.
Doubled(base, max, doublings) ==
    LET f[n \in 0..doublings] ==
          IF n = 0 THEN base
          ELSE IF f[n - 1] >= max \/ f[n - 1] > max \div 2
                 THEN max
                 ELSE Wrap(2 * f[n - 1])
    IN IF f[doublings] > max THEN max ELSE f[doublings]

cappedDoubledInterval(base, max, doublings) ==
    IF base <= 0
      THEN 0
      ELSE Doubled(base, IF max < base THEN base ELSE max, doublings)

idlePollInterval(n) == cappedDoubledInterval(PollInterval, MaxPollInterval, n \div 3)

backoffPollInterval(n) ==
    IF n <= 0 THEN PollInterval ELSE cappedDoubledInterval(PollInterval, MaxPollInterval, n)

Count(n) == IF n < CountCap THEN n + 1 ELSE n

\* recordResult of Run.
recordResult(activity, err, resetOnSuccess) ==
    LET quiet == ~err /\ ~activity /\ ~resetOnSuccess /\ idlePolling
    IN /\ failures' = IF err THEN Count(failures) ELSE 0
       /\ idlePolls' = IF quiet THEN Count(idlePolls) ELSE 0
       /\ interval' = CASE err   -> backoffPollInterval(failures')
                        [] quiet -> idlePollInterval(idlePolls')
                        [] OTHER -> PollInterval

-----------------------------------------------------------------------------
(* Events *)

Goto(t, label) == pc' = [pc EXCEPT ![t] = label]

EmitLabels == {"started", "pulled", "pushed", "finished", "failed", "report"}

\* Where a goroutine goes on once its event is out.
AfterEmit(label) ==
    CASE label = "started"  -> "pull"
      [] label = "pulled"   -> "push"
      [] label = "pushed"   -> "push"
      [] label = "finished" -> "ok"
      [] label = "failed"   -> "err"
      [] label = "report"   -> "sleep"

\* emit takes eventMu for reading, behind a writer that waits for it, and
\* returns at once when the channel is closed.
BeginEmit(t) ==
    /\ pc[t] \in EmitLabels /\ t \notin readers
    /\ closer # "events"
    /\ IF eventsClosed
         THEN Goto(t, AfterEmit(pc[t])) /\ UNCHANGED <<readers, moved>>
         ELSE /\ readers' = readers \cup {t}
              /\ moved' = (moved \/ (cause # "none" /\ pc[t] \in {"pulled", "pushed"}))
              /\ UNCHANGED pc
    /\ UNCHANGED <<headVars, syncMu, events, closeVars, chanVars, timer, cause, backoffVars,
                   idlePolling, watchVars>>

\* Seeded bug: the channel has no limit.
SendEventUnbounded(t) ==
    /\ pc[t] \in EmitLabels /\ t \in readers
    /\ events' = events + 1
    /\ readers' = readers \ {t}
    /\ Goto(t, AfterEmit(pc[t]))
    /\ UNCHANGED <<headVars, syncMu, closeVars, chanVars, runVars, watchVars>>

\* The send blocks while the channel is full; eventMu is held meanwhile.
SendEvent(t) ==
    /\ pc[t] \in EmitLabels /\ t \in readers
    /\ events < EventBuffer
    /\ events' = events + 1
    /\ readers' = readers \ {t}
    /\ Goto(t, AfterEmit(pc[t]))
    /\ UNCHANGED <<headVars, syncMu, closeVars, chanVars, runVars, watchVars>>

\* The app reads Events().
ReadEvent ==
    /\ events > 0
    /\ events' = events - 1
    /\ UNCHANGED <<headVars, pc, syncMu, readers, closeVars, chanVars, runVars, watchVars>>

-----------------------------------------------------------------------------
(* SyncNow *)

\* Seeded bug: closed is not looked at once the mutex is held.
LockSyncUnchecked(t) ==
    /\ pc[t] = "lock" /\ syncMu = Nobody
    /\ syncMu' = t
    /\ Goto(t, "started")
    /\ UNCHANGED <<headVars, emitVars, closeVars, chanVars, runVars, watchVars>>

LockSync(t) ==
    /\ pc[t] = "lock" /\ syncMu = Nobody
    /\ syncMu' = t
    /\ Goto(t, IF closed THEN "err" ELSE "started")
    /\ UNCHANGED <<headVars, emitVars, closeVars, chanVars, runVars, watchVars>>

\* syncNamespaces
Pull(t) ==
    /\ pc[t] = "pull"
    /\ head' = srvHead
    /\ Goto(t, IF srvHead = head THEN "push" ELSE "pulled")
    /\ UNCHANGED <<srvHead, syncMu, emitVars, closeVars, chanVars, runVars, watchVars>>

\* flushDirtyItems has nothing left to upload.
FinishPass(t) ==
    /\ pc[t] = "push"
    /\ Goto(t, "finished")
    /\ UNCHANGED <<headVars, syncMu, emitVars, closeVars, chanVars, runVars, watchVars>>

\* flushDirtyItems uploads an item.
Push(t) ==
    /\ pc[t] = "push"
    /\ srvHead' = srvHead + 1
    /\ head' = head + 1
    /\ Goto(t, "pushed")
    /\ UNCHANGED <<syncMu, emitVars, closeVars, chanVars, runVars, watchVars>>

\* Any step of the pass fails, or its context is cancelled.
FailPass(t) ==
    /\ pc[t] \in {"pull", "push"}
    /\ Goto(t, "failed")
    /\ UNCHANGED <<headVars, syncMu, emitVars, closeVars, chanVars, runVars, watchVars>>

\* The app's own SyncNow.
CallSyncNow ==
    /\ pc[App] = "idle"
    /\ Goto(App, "lock")
    /\ UNCHANGED <<headVars, syncMu, emitVars, closeVars, chanVars, runVars, watchVars>>

SyncNowReturns ==
    /\ pc[App] \in {"ok", "err"}
    /\ syncMu' = Nobody
    /\ Goto(App, "idle")
    /\ UNCHANGED <<headVars, emitVars, closeVars, chanVars, runVars, watchVars>>

-----------------------------------------------------------------------------
(* Run *)

\* syncNowWithActivity
BeginPass(why) == cause' = why /\ moved' = FALSE

StartRun ==
    /\ pc[Run] = "begin"
    /\ BeginPass("initial")
    /\ Goto(Run, "lock")
    /\ UNCHANGED <<headVars, syncMu, emitVars, closeVars, chanVars, timer, backoffVars,
                   idlePolling, watchVars>>

\* Seeded bug: after a failed pass the timer is not set again.
PassReturnsDisarmed ==
    /\ pc[Run] \in {"ok", "err"}
    /\ syncMu' = Nobody
    /\ recordResult(moved, pc[Run] = "err", cause \in {"wake", "request"})
    /\ timer' = (timer \/ pc[Run] = "ok")
    /\ answer' = IF cause = "request" THEN pc[Run] ELSE answer
    /\ pc' = [pc EXCEPT ![Run] = "select", ![Watch] = IF cause = "initial" THEN "open" ELSE @]
    /\ cause' = "none" /\ moved' = FALSE
    /\ UNCHANGED <<headVars, emitVars, closeVars, chanVars, idlePolling, known, hint, report>>

\* Seeded bug: a wake-up queued during a pass is dropped with the pass.
PassReturnsDrained ==
    /\ pc[Run] \in {"ok", "err"}
    /\ syncMu' = Nobody
    /\ recordResult(moved, pc[Run] = "err", cause \in {"wake", "request"})
    /\ timer' = TRUE
    /\ wakeSync' = FALSE
    /\ answer' = IF cause = "request" THEN pc[Run] ELSE answer
    /\ pc' = [pc EXCEPT ![Run] = "select", ![Watch] = IF cause = "initial" THEN "open" ELSE @]
    /\ cause' = "none" /\ moved' = FALSE
    /\ UNCHANGED <<headVars, emitVars, closeVars, loginSucceededRun, loginSucceededWatch,
                   idlePolling, known, hint, report>>

\* The pass is over: the result is recorded, the timer set, the watch answered
\* when it asked, and started after the first pass.
PassReturns ==
    /\ pc[Run] \in {"ok", "err"}
    /\ syncMu' = Nobody
    /\ recordResult(moved, pc[Run] = "err", cause \in {"wake", "request"})
    /\ timer' = TRUE
    /\ answer' = IF cause = "request" THEN pc[Run] ELSE answer
    /\ pc' = [pc EXCEPT ![Run] = "select", ![Watch] = IF cause = "initial" THEN "open" ELSE @]
    /\ cause' = "none" /\ moved' = FALSE
    /\ UNCHANGED <<headVars, emitVars, closeVars, chanVars, idlePolling, known, hint, report>>

\* Run returns; its timer and counters go out of scope.
SelectDone ==
    /\ pc[Run] = "select"
    /\ cancelled \/ closed
    /\ Goto(Run, "done")
    /\ timer' = FALSE
    /\ failures' = 0 /\ idlePolls' = 0 /\ interval' = PollInterval
    /\ UNCHANGED <<headVars, syncMu, emitVars, closeVars, chanVars, cause, moved, idlePolling,
                   watchVars>>

SelectTimer ==
    /\ pc[Run] = "select"
    /\ timer
    /\ timer' = FALSE
    /\ BeginPass("timer")
    /\ Goto(Run, "lock")
    /\ UNCHANGED <<headVars, syncMu, emitVars, closeVars, chanVars, backoffVars, idlePolling,
                   watchVars>>

SelectWake ==
    /\ pc[Run] = "select"
    /\ wakeSync
    /\ wakeSync' = FALSE
    /\ BeginPass("wake")
    /\ Goto(Run, "lock")
    /\ UNCHANGED <<headVars, syncMu, emitVars, closeVars, loginSucceededRun, loginSucceededWatch,
                   timer, backoffVars, idlePolling, watchVars>>

\* resetBackoff, without a pass.
SelectLogin ==
    /\ pc[Run] = "select"
    /\ loginSucceededRun
    /\ loginSucceededRun' = FALSE
    /\ failures' = 0 /\ idlePolls' = 0 /\ interval' = PollInterval
    /\ timer' = TRUE
    /\ UNCHANGED <<headVars, pc, syncMu, emitVars, closeVars, wakeSync, loginSucceededWatch,
                   cause, moved, idlePolling, watchVars>>

\* The watch hands over its request, and the heads are compared again: another
\* pass may have seen the change already.
SelectRequest ==
    /\ pc[Run] = "select" /\ pc[Watch] = "request"
    /\ IF head < hint
         THEN /\ pc' = [pc EXCEPT ![Watch] = "answer", ![Run] = "lock"]
              /\ BeginPass("request")
              /\ UNCHANGED answer
         ELSE /\ Goto(Watch, "answer")
              /\ answer' = IF head > hint THEN "rollback" ELSE "ok"
              /\ UNCHANGED <<cause, moved>>
    /\ UNCHANGED <<headVars, syncMu, emitVars, closeVars, chanVars, timer, backoffVars,
                   idlePolling, known, hint, report>>

\* Seeded bug: when the stored heads cannot be read the request is dropped.
RequestFailsUnanswered ==
    /\ pc[Run] = "select" /\ pc[Watch] = "request"
    /\ Goto(Watch, "answer")
    /\ UNCHANGED <<headVars, syncMu, emitVars, closeVars, chanVars, runVars, watchVars>>

\* The stored heads cannot be read: the request is answered with the error.
RequestFails ==
    /\ pc[Run] = "select" /\ pc[Watch] = "request"
    /\ Goto(Watch, "answer")
    /\ answer' = "err"
    /\ UNCHANGED <<headVars, syncMu, emitVars, closeVars, chanVars, runVars, known, hint, report>>

-----------------------------------------------------------------------------
(* The namespace watch *)

\* The context of the watch is done when Run's is, or when Run has returned.
WatchCancelled == cancelled \/ pc[Run] = "done"

\* The watch goes on at a label with what it knows there.
WatchGoto(label, sent, received, error) ==
    Goto(Watch, label) /\ known' = sent /\ hint' = received /\ report' = error

\* runNamespaceWatch reports an error and backs off.
WatchError(error) == WatchGoto("report", 0, 0, error)

frameOfWatch == <<headVars, syncMu, emitVars, closeVars, chanVars, runVars>>

\* knownNamespaceHeads, and the long poll is sent; a done context stops it here.
OpenWatch ==
    /\ pc[Watch] = "open"
    /\ ~WatchCancelled
    /\ WatchGoto("poll", head, 0, "none")
    /\ UNCHANGED <<frameOfWatch, answer>>

\* The server answers when its head differs from the one it was told.
WatchChanged ==
    /\ pc[Watch] = "poll"
    /\ srvHead # known
    /\ WatchGoto("hint", 0, srvHead, "none")
    /\ UNCHANGED <<frameOfWatch, answer>>

\* ... or when it has waited long enough; runNamespaceWatch sleeps a little.
WatchTimedOut ==
    /\ pc[Watch] = "poll"
    /\ WatchGoto("sleep", 0, 0, "none")
    /\ UNCHANGED <<frameOfWatch, answer>>

WatchFails ==
    /\ pc[Watch] \in {"open", "poll", "hint"}
    /\ WatchError("error")
    /\ UNCHANGED <<frameOfWatch, answer>>

\* 404, 405 or 501: polling alone goes on.
WatchUnsupported ==
    /\ pc[Watch] = "poll"
    /\ WatchGoto("done", 0, 0, "none")
    /\ UNCHANGED <<frameOfWatch, answer>>

\* namespaceWatchNeedsSync on the response.
HandleHint ==
    /\ pc[Watch] = "hint"
    /\ \/ head < hint /\ WatchGoto("request", 0, hint, "none")
       \/ head = hint /\ WatchGoto("open", 0, 0, "none")
       \/ head > hint /\ WatchError("rollback")
    /\ UNCHANGED <<frameOfWatch, answer>>

\* requestRunSync returns with the answer.
WatchAnswered ==
    /\ pc[Watch] = "answer"
    /\ \/ answer = "ok" /\ WatchGoto("open", 0, 0, "none")
       \/ answer = "err" /\ WatchError("error")
       \/ answer = "rollback" /\ WatchError("rollback")
    /\ answer' = "none"
    /\ UNCHANGED frameOfWatch

\* sleepOrDone ends with its timer or with a login.
WatchWakes ==
    /\ pc[Watch] = "sleep"
    /\ \/ UNCHANGED loginSucceededWatch
       \/ loginSucceededWatch /\ loginSucceededWatch' = FALSE
    /\ WatchGoto("open", 0, 0, "none")
    /\ UNCHANGED <<headVars, syncMu, emitVars, closeVars, wakeSync, loginSucceededRun, runVars, answer>>

\* Seeded bug: a watch that waits for Run is not told that Run is gone.
WatchStopsAsleep ==
    /\ \/ WatchCancelled /\ pc[Watch] \in {"open", "poll", "hint", "sleep"}
       \/ closed /\ pc[Watch] = "sleep"
    /\ WatchGoto("done", 0, 0, "none")
    /\ UNCHANGED <<frameOfWatch, answer>>

\* Wherever the watch waits it also waits for its context, and for e.closed
\* except in the long poll itself.
WatchStops ==
    /\ \/ WatchCancelled /\ pc[Watch] \in {"open", "poll", "hint", "request", "answer", "sleep"}
       \/ closed /\ pc[Watch] \in {"request", "answer", "sleep"}
    /\ WatchGoto("done", 0, 0, "none")
    /\ UNCHANGED <<frameOfWatch, answer>>

-----------------------------------------------------------------------------
(* The app *)

ScheduleSync ==
    /\ wakeSync' = TRUE
    /\ UNCHANGED <<headVars, pc, syncMu, emitVars, closeVars, loginSucceededRun,
                   loginSucceededWatch, runVars, watchVars>>

SetIdlePolling(idle) ==
    /\ idlePolling' = idle
    /\ wakeSync' = TRUE
    /\ UNCHANGED <<headVars, pc, syncMu, emitVars, closeVars, loginSucceededRun,
                   loginSucceededWatch, timer, cause, moved, backoffVars, watchVars>>

\* A Login that succeeded.
Login ==
    /\ loginSucceededRun' = TRUE /\ loginSucceededWatch' = TRUE
    /\ UNCHANGED <<headVars, pc, syncMu, emitVars, closeVars, wakeSync, runVars, watchVars>>

Cancel ==
    /\ ~cancelled
    /\ cancelled' = TRUE
    /\ UNCHANGED <<headVars, pc, syncMu, emitVars, closed, eventsClosed, closer, chanVars, runVars,
                   watchVars>>

\* Close: e.closed is closed, ...
BeginClose ==
    /\ closer = "open"
    /\ closed' = TRUE
    /\ closer' = "sync"
    /\ UNCHANGED <<headVars, pc, syncMu, emitVars, eventsClosed, cancelled, chanVars, runVars,
                   watchVars>>

\* ... the pass in progress is waited for, ...
CloseLockSync ==
    /\ closer = "sync" /\ syncMu = Nobody
    /\ syncMu' = Close
    /\ closer' = "events"
    /\ UNCHANGED <<headVars, pc, emitVars, closed, eventsClosed, cancelled, chanVars, runVars,
                   watchVars>>

\* ... and then the senders, before the channel and the store are closed.
CloseEvents ==
    /\ closer = "events" /\ readers = {}
    /\ eventsClosed' = TRUE
    /\ syncMu' = Nobody
    /\ closer' = "closed"
    /\ UNCHANGED <<headVars, pc, emitVars, closed, cancelled, chanVars, runVars, watchVars>>

\* Another device writes.
RemoteWrite ==
    /\ srvHead' = srvHead + 1
    /\ UNCHANGED <<head, pc, syncMu, emitVars, closeVars, chanVars, runVars, watchVars>>

-----------------------------------------------------------------------------
(* Specification *)

Init ==
    /\ srvHead = 0 /\ head = 0
    /\ pc = [t \in Threads |-> CASE t = Run -> "begin" [] t = App -> "idle" [] t = Watch -> "off"]
    /\ syncMu = Nobody
    /\ readers = {} /\ events = 0
    /\ closed = FALSE /\ eventsClosed = FALSE /\ closer = "open" /\ cancelled = FALSE
    /\ wakeSync = FALSE /\ loginSucceededRun = FALSE /\ loginSucceededWatch = FALSE
    /\ timer = FALSE /\ cause = "none" /\ moved = FALSE
    /\ failures = 0 /\ idlePolls = 0 /\ interval = PollInterval
    /\ idlePolling \in BOOLEAN
    /\ known = 0 /\ hint = 0 /\ answer = "none" /\ report = "none"

EmitStep(t) == BeginEmit(t) \/ SendEvent(t)

PassStep(t) == LockSync(t) \/ Pull(t) \/ FinishPass(t) \/ EmitStep(t)

RunStep ==
    \/ StartRun \/ PassReturns
    \/ SelectDone \/ SelectTimer \/ SelectWake \/ SelectLogin \/ SelectRequest

WatchStep ==
    \/ OpenWatch \/ WatchChanged \/ WatchTimedOut \/ HandleHint \/ WatchAnswered
    \/ WatchWakes \/ WatchStops \/ EmitStep(Watch)

CloseStep == CloseLockSync \/ CloseEvents

EngineStep ==
    \/ \E t \in Syncers : PassStep(t)
    \/ SyncNowReturns \/ RunStep \/ WatchStep \/ CloseStep \/ ReadEvent

FaultStep == RequestFails \/ WatchFails \/ WatchUnsupported \/ \E t \in Syncers : FailPass(t)

UploadStep == \E t \in Syncers : Push(t)

ScheduleStep == ScheduleSync \/ \E idle \in BOOLEAN : SetIdlePolling(idle)

CallStep == CallSyncNow \/ Login \/ Cancel \/ BeginClose

Next == EngineStep \/ FaultStep \/ RemoteWrite \/ UploadStep \/ ScheduleStep \/ CallStep

Spec == Init /\ [][Next]_vars

-----------------------------------------------------------------------------
(* Properties *)

PassLabels == {"started", "pull", "pulled", "push", "pushed", "finished", "failed"}
SyncLabels == {"lock", "ok", "err"} \cup PassLabels
WatchLabels == {"off", "open", "poll", "hint", "request", "answer", "report", "sleep", "done"}

\* Every variable has its type.
TypeOK ==
    /\ srvHead \in Nat /\ head \in Nat
    /\ pc \in [Threads -> SyncLabels \cup WatchLabels \cup {"begin", "idle", "select"}]
    /\ pc[Run] \in SyncLabels \cup {"begin", "select", "done"}
    /\ pc[App] \in SyncLabels \cup {"idle"}
    /\ pc[Watch] \in WatchLabels
    /\ syncMu \in Syncers \cup {Close, Nobody}
    /\ readers \subseteq Threads /\ events \in 0..EventBuffer
    /\ closed \in BOOLEAN /\ eventsClosed \in BOOLEAN /\ cancelled \in BOOLEAN
    /\ closer \in {"open", "sync", "events", "closed"}
    /\ wakeSync \in BOOLEAN /\ loginSucceededRun \in BOOLEAN /\ loginSucceededWatch \in BOOLEAN
    /\ timer \in BOOLEAN /\ moved \in BOOLEAN /\ idlePolling \in BOOLEAN
    /\ cause \in {"none", "initial", "timer", "wake", "request"}
    /\ failures \in Nat /\ idlePolls \in Nat
    /\ interval \in Int
    /\ known \in Nat /\ hint \in Nat
    /\ answer \in {"none", "ok", "err", "rollback"}
    /\ report \in {"none", "error", "rollback"}

\* Close makes late work safe: no goroutine is about to send on the event
\* channel once it is closed, which would panic, and no pass is using the store
\* once Close has released it.
CloseIsSafe ==
    /\ eventsClosed => readers = {}
    /\ closer = "closed" => \A t \in Syncers : pc[t] \notin PassLabels

\* The poll interval is the base interval doubled once per failure, or once per
\* three idle polls, up to the larger of the two configured intervals; doubling
\* never overflows on the way.
IntervalIsCappedDoubling ==
    LET cap == IF MaxPollInterval < PollInterval THEN PollInterval ELSE MaxPollInterval
        doublings == IF failures > 0 THEN failures ELSE idlePolls \div 3
        wanted == PollInterval * PowerOf2(doublings)
    IN interval = IF wanted < cap THEN wanted ELSE cap

\* A watch response is only a hint.  One that is older than what this client has
\* already stored makes the watch reconnect and is not reported as a rollback.
NoFalseWatchRollback == report # "rollback"
=============================================================================

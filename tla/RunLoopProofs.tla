---------------------------- MODULE RunLoopProofs ----------------------------
(***************************************************************************)
(* Close is safe in RunLoop, for every buffer size and poll configuration, *)
(* and no wake-up is lost.                                                 *)
(*                                                                         *)
(* CloseIsSafe is not inductive.  What keeps a pass out of a closed store  *)
(* is syncMu: Close takes it after closing e.closed, so that a pass which  *)
(* gets it later sees the engine closed.  What keeps a sender off the      *)
(* closed channel is eventMu, held from the check to the end of the send.  *)
(*                                                                         *)
(* A wake-up that is owed is in MCRunLoop, which notes the calls of the    *)
(* app for which no pass has begun yet.                                    *)
(*                                                                         *)
(* The last sections are about the poll interval: what Doubled computes    *)
(* for any number of failures, and that nothing leaves its type.           *)
(***************************************************************************)
EXTENDS MCRunLoop, WellFoundedInduction, TLAPS

\* Labels at which a syncer is inside SyncNow, holding syncMu.
Holding == PassLabels \cup {"ok", "err"}

AllLabels == SyncLabels \cup WatchLabels \cup {"begin", "idle", "select"}

\* The inductive invariant.
CloseInv ==
    /\ pc \in [Threads -> AllLabels]
    /\ readers \subseteq Threads
    /\ closer \in {"open", "sync", "events", "closed"}
    /\ closed <=> closer # "open"
    /\ eventsClosed <=> closer = "closed"
    /\ \A t \in Syncers : pc[t] \in Holding <=> syncMu = t
    /\ closer = "events" <=> syncMu = Close
    /\ eventsClosed => readers = {}
    /\ closer = "closed" => \A t \in Syncers : pc[t] \notin PassLabels

USE DEF AllLabels, SyncLabels, WatchLabels, PassLabels, Holding

\* The goroutines are four different ones, and none of them is nobody.
LEMMA Distinct ==
  /\ Run \in Threads /\ App \in Threads /\ Watch \in Threads
  /\ Run \in Syncers /\ App \in Syncers /\ Watch \notin Syncers
  /\ Run # App /\ Run # Watch /\ App # Watch
  /\ Close \notin Syncers /\ Nobody \notin Syncers /\ Close # Nobody
  /\ Syncers \subseteq Threads
  BY GoroutineAssumption DEF Threads, Syncers

\* An engine that has just been opened satisfies the invariant.
LEMMA CloseInit == Init => CloseInv
  BY Distinct DEF Init, CloseInv, Threads, Syncers

\* What a step of one goroutine t keeps, when it moves to a label and neither
\* takes nor gives up a mutex.
LEMMA MoveStep ==
  ASSUME CloseInv, NEW t \in Threads, NEW label \in AllLabels,
         pc' = [pc EXCEPT ![t] = label],
         readers' \subseteq readers,
         UNCHANGED <<syncMu, closer, closed, eventsClosed>>,
         t \in Syncers => (label \in Holding <=> pc[t] \in Holding),
         t \in Syncers /\ closer = "closed" => label \notin PassLabels
  PROVE  CloseInv'
  BY Distinct DEF CloseInv

\* Every event label leads on inside SyncNow, or to the watch's sleep.
LEMMA AfterEmitLabel ==
  ASSUME NEW label \in EmitLabels
  PROVE  /\ AfterEmit(label) \in AllLabels
         /\ label \in PassLabels => AfterEmit(label) \in Holding
         /\ label \notin PassLabels => label = "report" /\ AfterEmit(label) = "sleep"
  BY DEF EmitLabels, AfterEmit

\* emit keeps the invariant: it takes eventMu only while the channel is open.
LEMMA EmitStepLemma ==
  ASSUME CloseInv, NEW t \in Threads, EmitStep(t)
  PROVE  CloseInv'
  <1>1. CASE SendEvent(t)
    <2>1. pc[t] \in EmitLabels /\ closer # "closed"
      BY <1>1 DEF SendEvent, CloseInv
    <2>2. AfterEmit(pc[t]) \in AllLabels
      BY <2>1, AfterEmitLabel
    <2>3. t \in Syncers => (AfterEmit(pc[t]) \in Holding <=> pc[t] \in Holding)
      BY <2>1, AfterEmitLabel DEF EmitLabels
    <2>4. /\ pc' = [pc EXCEPT ![t] = AfterEmit(pc[t])]
          /\ readers' \subseteq readers
          /\ UNCHANGED <<syncMu, closer, closed, eventsClosed>>
      BY <1>1 DEF SendEvent, Goto, closeVars
    <2> QED
      BY <2>1, <2>2, <2>3, <2>4, MoveStep
  <1>2. CASE BeginEmit(t) /\ ~eventsClosed
    <2>1. /\ readers' = readers \cup {t}
          /\ UNCHANGED <<pc, syncMu, closer, closed, eventsClosed>>
      BY <1>2 DEF BeginEmit, closeVars
    <2> QED
      BY <1>2, <2>1 DEF CloseInv
  <1>3. CASE BeginEmit(t) /\ eventsClosed
    <2>1. pc[t] \in EmitLabels /\ closer = "closed"
      BY <1>3 DEF BeginEmit, CloseInv
    <2>2. t \notin Syncers \/ pc[t] = "report"
      BY <2>1 DEF CloseInv, EmitLabels
    <2>3. AfterEmit(pc[t]) \in AllLabels /\ (t \in Syncers => AfterEmit(pc[t]) = "sleep")
      BY <2>1, <2>2, AfterEmitLabel
    <2>4. /\ pc' = [pc EXCEPT ![t] = AfterEmit(pc[t])]
          /\ readers' \subseteq readers
          /\ UNCHANGED <<syncMu, closer, closed, eventsClosed>>
      BY <1>3 DEF BeginEmit, Goto, closeVars
    <2>5. t \in Syncers => AfterEmit(pc[t]) \notin Holding /\ pc[t] \notin Holding
      BY <2>2, <2>3
    <2> QED
      BY <2>3, <2>4, <2>5, MoveStep
  <1> QED
    BY <1>1, <1>2, <1>3 DEF EmitStep

\* SyncNow's own steps keep the invariant.
LEMMA PassStepLemma ==
  ASSUME CloseInv, NEW t \in Syncers,
         LockSync(t) \/ Pull(t) \/ FinishPass(t) \/ Push(t) \/ FailPass(t)
  PROVE  CloseInv'
  <1>1. CASE LockSync(t)
    <2>1. /\ pc[t] = "lock" /\ syncMu = Nobody /\ syncMu' = t
          /\ pc' = [pc EXCEPT ![t] = IF closed THEN "err" ELSE "started"]
          /\ UNCHANGED <<readers, closer, closed, eventsClosed>>
      BY <1>1 DEF LockSync, Goto, emitVars, closeVars
    <2> QED
      BY <2>1, Distinct DEF CloseInv
  <1>2. CASE Pull(t) \/ FinishPass(t) \/ Push(t) \/ FailPass(t)
    <2>1. PICK label \in PassLabels :
            /\ pc[t] \in {"pull", "push"}
            /\ pc' = [pc EXCEPT ![t] = label]
            /\ UNCHANGED <<syncMu, readers, closer, closed, eventsClosed>>
      BY <1>2 DEF Pull, FinishPass, Push, FailPass, Goto, emitVars, closeVars
    <2>2. t \in Threads /\ closer # "closed"
      BY <2>1, Distinct DEF CloseInv
    <2> QED
      BY <2>1, <2>2, MoveStep
  <1> QED
    BY <1>1, <1>2

\* A pass that returns gives up syncMu.
LEMMA ReturnLemma ==
  ASSUME CloseInv, SyncNowReturns \/ PassReturns
  PROVE  CloseInv'
  <1>1. CASE SyncNowReturns
    <2>1. /\ pc[App] \in {"ok", "err"} /\ syncMu' = Nobody
          /\ pc' = [pc EXCEPT ![App] = "idle"]
          /\ UNCHANGED <<readers, closer, closed, eventsClosed>>
      BY <1>1 DEF SyncNowReturns, Goto, emitVars, closeVars
    <2> QED
      BY <2>1, Distinct DEF CloseInv
  <1>2. CASE PassReturns
    <2>1. PICK label \in AllLabels :
            /\ pc[Run] \in {"ok", "err"} /\ syncMu' = Nobody
            /\ pc' = [pc EXCEPT ![Run] = "select", ![Watch] = label]
            /\ UNCHANGED <<readers, closer, closed, eventsClosed>>
      BY <1>2, Distinct DEF PassReturns, CloseInv, emitVars, closeVars
    <2> QED
      BY <2>1, Distinct DEF CloseInv
  <1> QED
    BY <1>1, <1>2

\* The other steps of Run keep the invariant.
LEMMA RunStepLemma ==
  ASSUME CloseInv, StartRun \/ SelectDone \/ SelectTimer \/ SelectWake \/ SelectLogin \/ SelectRequest
  PROVE  CloseInv'
  <1>1. CASE StartRun \/ SelectDone \/ SelectTimer \/ SelectWake
    <2>1. PICK label \in {"lock", "done"} :
            /\ pc[Run] \in {"begin", "select"}
            /\ pc' = [pc EXCEPT ![Run] = label]
            /\ UNCHANGED <<syncMu, readers, closer, closed, eventsClosed>>
      BY <1>1 DEF StartRun, SelectDone, SelectTimer, SelectWake, Goto, emitVars, closeVars
    <2> QED
      BY <2>1, Distinct, MoveStep
  <1>2. CASE SelectLogin
    <2>1. UNCHANGED <<pc, syncMu, readers, closer, closed, eventsClosed>>
      BY <1>2 DEF SelectLogin, emitVars, closeVars
    <2> QED
      BY <2>1 DEF CloseInv
  <1>3. CASE SelectRequest
    <2>1. PICK label \in {"lock", "select"} :
            /\ pc[Run] = "select"
            /\ pc' = [pc EXCEPT ![Watch] = "answer", ![Run] = label]
            /\ UNCHANGED <<syncMu, readers, closer, closed, eventsClosed>>
      BY <1>3, Distinct DEF SelectRequest, Goto, CloseInv, emitVars, closeVars
    <2> QED
      BY <2>1, Distinct DEF CloseInv
  <1> QED
    BY <1>1, <1>2, <1>3

\* The watch never touches syncMu.
LEMMA WatchStepLemma ==
  ASSUME CloseInv,
         \/ OpenWatch \/ WatchChanged \/ WatchTimedOut \/ HandleHint \/ WatchAnswered
         \/ WatchWakes \/ WatchStops \/ RequestFails \/ WatchFails \/ WatchUnsupported
  PROVE  CloseInv'
  <1>1. PICK label \in WatchLabels :
          /\ pc' = [pc EXCEPT ![Watch] = label]
          /\ UNCHANGED <<syncMu, readers, closer, closed, eventsClosed>>
    BY DEF OpenWatch, WatchChanged, WatchTimedOut, HandleHint, WatchAnswered, WatchWakes, WatchStops,
           RequestFails, WatchFails, WatchUnsupported, WatchGoto, WatchError, Goto, frameOfWatch, emitVars, closeVars
  <1> QED
    BY <1>1, Distinct, MoveStep

\* Close itself, and the other calls of the app.
LEMMA CallLemma ==
  ASSUME CloseInv,
         \/ CloseLockSync \/ CloseEvents \/ BeginClose
         \/ CallSyncNow \/ Login \/ Cancel \/ ScheduleStep \/ ReadEvent \/ RemoteWrite
         \/ UNCHANGED vars
  PROVE  CloseInv'
  <1>1. CASE CloseLockSync
    <2>1. /\ closer = "sync" /\ syncMu = Nobody /\ syncMu' = Close /\ closer' = "events"
          /\ UNCHANGED <<pc, readers, closed, eventsClosed>>
      BY <1>1 DEF CloseLockSync, emitVars
    <2> QED
      BY <2>1, Distinct DEF CloseInv
  <1>2. CASE CloseEvents
    <2>1. /\ closer = "events" /\ readers = {} /\ eventsClosed' = TRUE /\ syncMu' = Nobody
          /\ closer' = "closed" /\ UNCHANGED <<pc, readers, closed>>
      BY <1>2 DEF CloseEvents, emitVars
    <2> QED
      BY <2>1, Distinct DEF CloseInv
  <1>3. CASE BeginClose
    <2>1. /\ closer = "open" /\ closer' = "sync" /\ closed' = TRUE
          /\ UNCHANGED <<pc, syncMu, readers, eventsClosed>>
      BY <1>3 DEF BeginClose, emitVars
    <2> QED
      BY <2>1 DEF CloseInv
  <1>4. CASE CallSyncNow
    <2>1. /\ pc[App] = "idle" /\ pc' = [pc EXCEPT ![App] = "lock"]
          /\ UNCHANGED <<syncMu, readers, closer, closed, eventsClosed>>
      BY <1>4 DEF CallSyncNow, Goto, emitVars, closeVars
    <2> QED
      BY <2>1, Distinct, MoveStep
  <1>5. CASE Login \/ Cancel \/ ScheduleStep \/ ReadEvent \/ RemoteWrite \/ UNCHANGED vars
    <2>1. UNCHANGED <<pc, syncMu, readers, closer, closed, eventsClosed>>
      BY <1>5 DEF Login, Cancel, ScheduleStep, ScheduleSync, SetIdlePolling, ReadEvent, RemoteWrite,
                  vars, emitVars, closeVars
    <2> QED
      BY <2>1 DEF CloseInv
  <1> QED
    BY <1>1, <1>2, <1>3, <1>4, <1>5

\* Every step of the program keeps the invariant.
LEMMA CloseNext == CloseInv /\ [Next]_vars => CloseInv'
  <1> SUFFICES ASSUME CloseInv, [Next]_vars PROVE CloseInv'
    OBVIOUS
  <1>1. CASE EngineStep
    <2>1. CASE \E t \in Syncers : PassStep(t)
      BY <2>1, PassStepLemma, EmitStepLemma, Distinct DEF PassStep
    <2>2. CASE SyncNowReturns
      BY <2>2, ReturnLemma
    <2>3. CASE RunStep
      BY <2>3, ReturnLemma, RunStepLemma DEF RunStep
    <2>4. CASE WatchStep
      BY <2>4, WatchStepLemma, EmitStepLemma, Distinct DEF WatchStep
    <2>5. CASE CloseStep \/ ReadEvent
      BY <2>5, CallLemma DEF CloseStep
    <2> QED
      BY <1>1, <2>1, <2>2, <2>3, <2>4, <2>5 DEF EngineStep
  <1>2. CASE FaultStep
    BY <1>2, WatchStepLemma, PassStepLemma DEF FaultStep
  <1>3. CASE RemoteWrite \/ UploadStep
    BY <1>3, CallLemma, PassStepLemma DEF UploadStep
  <1>4. CASE ScheduleStep \/ CallStep \/ UNCHANGED vars
    BY <1>4, CallLemma DEF CallStep
  <1> QED
    BY <1>1, <1>2, <1>3, <1>4 DEF Next

\* Close makes late work safe, whatever the interleaving of Run, the watch, a
\* foreground SyncNow and Close: nothing is sent on the closed event channel,
\* and no pass runs on the closed store.
THEOREM CloseSafety == Spec => []CloseIsSafe
  <1>1. CloseInv => CloseIsSafe
    BY DEF CloseInv, CloseIsSafe
  <1> QED
    BY <1>1, CloseInit, CloseNext, PTL DEF Spec

-----------------------------------------------------------------------------
(* Wake-ups *)

\* Nothing but Run's select takes a wake-up out of its channel, and Run begins a
\* pass then: a step that leaves a wake-up queued, or Run at its lock, or begins a
\* pass, loses none.
LEMMA WakeupKept ==
  ASSUME NoWakeupLost, closed => closed', cancelled => cancelled', owed' => owed,
         wakeSync => (wakeSync' \/ pc'[Run] = "lock"),
         pc[Run] = "lock" => (pc'[Run] = "lock" \/ closed' \/ ~owed')
  PROVE  NoWakeupLost'
  BY DEF NoWakeupLost, Stopped

\* Only LockSync takes Run away from its lock, to a pass or because of Close.
LEMMA LockSyncOwes ==
  ASSUME CloseInv, NoWakeupLost, NEW t \in Syncers, LockSync(t), Owe(FALSE)
  PROVE  NoWakeupLost'
  <1>1. /\ pc[t] = "lock" /\ pc' = [pc EXCEPT ![t] = IF closed THEN "err" ELSE "started"]
        /\ closed' = closed /\ cancelled' = cancelled /\ wakeSync' = wakeSync
    BY DEF LockSync, Goto, closeVars, chanVars
  <1>2. pc'[t] = IF closed THEN "err" ELSE "started"
    BY <1>1, Distinct DEF CloseInv
  <1>3. owed' => owed
    BY DEF Owe
  <1>4. ~closed => ~owed'
    BY <1>1, <1>2 DEF Owe, PassBegins
  <1> QED
    BY <1>1, <1>3, <1>4, WakeupKept

\* Every other step of a goroutine leaves Run at its lock and the wake-up where it is.
LEMMA OtherPassOwes ==
  ASSUME CloseInv, NoWakeupLost, Owe(FALSE), NEW t \in Threads,
         Pull(t) \/ FinishPass(t) \/ EmitStep(t) \/ Push(t) \/ FailPass(t)
  PROVE  NoWakeupLost'
  <1>1. /\ closed' = closed /\ cancelled' = cancelled /\ wakeSync' = wakeSync
        /\ pc[t] # "lock" /\ (pc' = pc \/ \E label : pc' = [pc EXCEPT ![t] = label])
    BY DEF Pull, FinishPass, EmitStep, BeginEmit, SendEvent, Push, FailPass, Goto, closeVars,
           chanVars, EmitLabels
  <1>2. pc[Run] = "lock" => pc'[Run] = "lock"
    BY <1>1, Distinct DEF CloseInv
  <1>3. owed' => owed
    BY DEF Owe
  <1> QED
    BY <1>1, <1>2, <1>3, WakeupKept

\* SyncNow of the app, the watch and Close.
LEMMA OthersOwe ==
  ASSUME CloseInv, NoWakeupLost, Owe(FALSE),
         \/ SyncNowReturns \/ CallSyncNow \/ CloseStep \/ ReadEvent \/ Login \/ Cancel
         \/ BeginClose \/ RemoteWrite \/ RequestFails \/ WatchFails \/ WatchUnsupported
         \/ OpenWatch \/ WatchChanged \/ WatchTimedOut \/ HandleHint \/ WatchAnswered
         \/ WatchWakes \/ WatchStops
  PROVE  NoWakeupLost'
  <1>1. CASE \/ SyncNowReturns \/ CallSyncNow \/ CloseStep \/ ReadEvent \/ Login \/ Cancel
             \/ BeginClose \/ RemoteWrite
    <2>1. /\ (closed => closed') /\ (cancelled => cancelled') /\ wakeSync' = wakeSync
          /\ (pc' = pc \/ \E label : pc' = [pc EXCEPT ![App] = label])
      BY <1>1 DEF SyncNowReturns, CallSyncNow, CloseStep, CloseLockSync, CloseEvents, ReadEvent,
                  Login, Cancel, BeginClose, RemoteWrite, Goto, closeVars, chanVars
    <2>2. pc[Run] = "lock" => pc'[Run] = "lock"
      BY <2>1, Distinct DEF CloseInv
    <2>3. owed' => owed
      BY DEF Owe
    <2> QED
      BY <2>1, <2>2, <2>3, WakeupKept
  <1>2. CASE \/ RequestFails \/ WatchFails \/ WatchUnsupported \/ OpenWatch \/ WatchChanged \/ WatchTimedOut
             \/ HandleHint \/ WatchAnswered \/ WatchWakes \/ WatchStops
    <2>1. /\ closed' = closed /\ cancelled' = cancelled /\ wakeSync' = wakeSync
          /\ \E label : pc' = [pc EXCEPT ![Watch] = label]
      BY <1>2 DEF RequestFails, WatchFails, WatchUnsupported, OpenWatch, WatchChanged, WatchTimedOut,
                  HandleHint, WatchAnswered, WatchWakes, WatchStops, WatchGoto, WatchError, Goto, frameOfWatch,
                  closeVars, chanVars
    <2>2. pc[Run] = "lock" => pc'[Run] = "lock"
      BY <2>1, Distinct DEF CloseInv
    <2>3. owed' => owed
      BY DEF Owe
    <2> QED
      BY <2>1, <2>2, <2>3, WakeupKept
  <1> QED
    BY <1>1, <1>2

\* Run takes a wake-up on the way to a pass, and leaves it alone otherwise.
LEMMA RunOwes ==
  ASSUME CloseInv, NoWakeupLost, Owe(FALSE), RunStep
  PROVE  NoWakeupLost'
  <1>1. closed' = closed /\ cancelled' = cancelled /\ (owed' => owed)
    BY DEF Owe, RunStep, StartRun, PassReturns, SelectDone, SelectTimer, SelectWake, SelectLogin,
           SelectRequest, closeVars
  <1>2. pc[Run] # "lock"
    BY DEF RunStep, StartRun, PassReturns, SelectDone, SelectTimer, SelectWake, SelectLogin,
           SelectRequest
  <1>3. wakeSync => (wakeSync' \/ pc'[Run] = "lock")
    <2>1. CASE SelectWake
      BY <2>1, Distinct DEF SelectWake, Goto, CloseInv
    <2>2. CASE \/ StartRun \/ PassReturns \/ SelectDone \/ SelectTimer \/ SelectLogin
               \/ SelectRequest
      BY <2>2 DEF StartRun, PassReturns, SelectDone, SelectTimer, SelectLogin, SelectRequest,
                  chanVars
    <2> QED
      BY <2>1, <2>2 DEF RunStep
  <1> QED
    BY <1>1, <1>2, <1>3, WakeupKept

\* Every step keeps the promise, also one that makes it.
LEMMA WakeupNext == CloseInv /\ NoWakeupLost /\ [MCNext]_mcVars => NoWakeupLost'
  <1> SUFFICES ASSUME CloseInv, NoWakeupLost, [MCNext]_mcVars PROVE NoWakeupLost'
    OBVIOUS
  <1>1. CASE Engine(EngineStep)
    <2>1. Owe(FALSE) /\ EngineStep
      BY <1>1 DEF Engine
    <2>2. CASE \E t \in Syncers : PassStep(t)
      BY <2>1, <2>2, LockSyncOwes, OtherPassOwes, Distinct DEF PassStep
    <2>3. CASE SyncNowReturns \/ CloseStep \/ ReadEvent
      BY <2>1, <2>3, OthersOwe
    <2>4. CASE RunStep
      BY <2>1, <2>4, RunOwes
    <2>5. CASE WatchStep
      BY <2>1, <2>5, OthersOwe, OtherPassOwes, Distinct DEF WatchStep
    <2> QED
      BY <2>1, <2>2, <2>3, <2>4, <2>5 DEF EngineStep
  <1>2. CASE (FaultStep \/ RemoteWrite \/ UploadStep) /\ Owe(FALSE)
    BY <1>2, OthersOwe, OtherPassOwes, Distinct DEF FaultStep, UploadStep
  <1>3. CASE ScheduleStep
    <2>1. wakeSync'
      BY <1>3 DEF ScheduleStep, ScheduleSync, SetIdlePolling
    <2> QED
      BY <2>1 DEF NoWakeupLost
  <1>4. CASE CallStep /\ Owe(FALSE)
    BY <1>4, OthersOwe DEF CallStep
  <1>5. CASE Terminated \/ UNCHANGED mcVars
    BY <1>5 DEF Terminated, mcVars, vars, closeVars, chanVars, NoWakeupLost, Stopped
  <1> QED
    BY <1>1, <1>2, <1>3, <1>4, <1>5 DEF MCNext

\* However ScheduleSync and SetIdlePolling interleave with passes, the watch, failures
\* and foreground calls, a pass begins after each, or a wake-up is queued for one.
THEOREM WakeupsKept == MCSpec => []NoWakeupLost
  <1>1. MCInit => CloseInv /\ NoWakeupLost
    BY CloseInit DEF MCInit, NoWakeupLost
  <1>2. [MCNext]_mcVars => [Next]_vars
    BY DEF MCNext, Engine, Next, Terminated, mcVars
  <1> QED
    BY <1>1, <1>2, CloseNext, WakeupNext, PTL DEF MCSpec


-----------------------------------------------------------------------------
(* Powers of two *)

\* Any set of numbers has a least one: what induction over the doublings rests on.
LEMMA LeastOf ==
  ASSUME NEW T, T \subseteq Nat, T # {}
  PROVE  \E x \in T : \A y \in T : x <= y
  <1>1. PICK x \in T : \A y \in T : ~ (<<y, x>> \in OpToRel(<, Nat))
    BY NatLessThanWellFounded, WFMin
  <1>2. \A y \in T : <<y, x>> \in OpToRel(<, Nat) <=> y < x
    BY DEF OpToRel
  <1>3. ASSUME NEW y \in T PROVE x <= y
    <2>1. ~(y < x) /\ x \in Nat /\ y \in Nat
      BY <1>1, <1>2
    <2> QED
      BY <2>1
  <1> QED
    BY <1>3

\* The function in PowerOf2.
IsPowers(p, k) == p = [n \in 0..k |-> IF n = 0 THEN 1 ELSE 2 * p[n - 1]]

\* Two such functions agree where both are defined.
LEMMA PowersUnique ==
  ASSUME NEW k \in Nat, NEW p, NEW j \in 0..k, NEW q, IsPowers(p, k), IsPowers(q, j)
  PROVE  p[j] = q[j]
  <1> DEFINE T == {n \in 0..j : p[n] # q[n]}
  <1>1. SUFFICES ASSUME T # {} PROVE FALSE
    BY <1>1
  <1>2. PICK n \in T : \A y \in T : n <= y
    <2>1. T \subseteq Nat
      OBVIOUS
    <2> HIDE DEF T
    <2> QED
      BY <1>1, <2>1, LeastOf
  <1>3. n # 0
    BY <1>2 DEF IsPowers
  <1>4. n - 1 \in 0..j /\ n - 1 \notin T
    BY <1>2, <1>3
  <1>5. p[n] = 2 * p[n - 1] /\ q[n] = 2 * q[n - 1]
    BY <1>2, <1>3 DEF IsPowers
  <1> QED
    BY <1>2, <1>4, <1>5

\* Such a function exists, up to any exponent.
LEMMA PowersExist ==
  ASSUME NEW k \in Nat
  PROVE  \E p : IsPowers(p, k)
  <1> DEFINE T == {m \in Nat : ~ \E p : IsPowers(p, m)}
  <1>1. SUFFICES ASSUME T # {} PROVE FALSE
    BY <1>1
  <1>2. PICK m \in T : \A y \in T : m <= y
    BY <1>1, LeastOf
  <1>3. CASE m = 0
    <2> DEFINE g == [n \in 0..0 |-> 1]
    <2>1. IsPowers(g, 0)
      BY DEF IsPowers
    <2> QED
      BY <1>2, <1>3, <2>1
  <1>4. CASE m # 0
    <2>1. m - 1 \in Nat /\ m - 1 \notin T
      BY <1>2, <1>4
    <2>2. PICK g : IsPowers(g, m - 1)
      BY <2>1
    <2> DEFINE h == [n \in 0..m |-> IF n = 0 THEN 1 ELSE 2 * g[n - 1]]
    <2>3. \A n \in 0..m : n # 0 => h[n - 1] = g[n - 1]
      BY <2>1, <2>2 DEF IsPowers
    <2>4. h = [n \in 0..m |-> IF n = 0 THEN 1 ELSE 2 * h[n - 1]]
      BY <2>3
    <2>5. IsPowers(h, m)
      BY <2>4 DEF IsPowers
    <2> QED
      BY <1>2, <2>5
  <1> QED
    BY <1>3, <1>4

\* PowerOf2 is a value of one of them.
LEMMA PowerOf2Is ==
  ASSUME NEW k \in Nat
  PROVE  \E p : IsPowers(p, k) /\ PowerOf2(k) = p[k]
  <1> DEFINE p == CHOOSE p : p = [n \in 0..k |-> IF n = 0 THEN 1 ELSE 2 * p[n - 1]]
  <1>1. PowerOf2(k) = p[k]
    BY DEF PowerOf2
  <1>2. p = [n \in 0..k |-> IF n = 0 THEN 1 ELSE 2 * p[n - 1]]
    <2>1. \E q : q = [n \in 0..k |-> IF n = 0 THEN 1 ELSE 2 * q[n - 1]]
      BY PowersExist DEF IsPowers
    <2> QED
      BY <2>1
  <1> QED
    BY <1>1, <1>2 DEF IsPowers

\* Each power of two is twice the one before.
LEMMA PowerOf2Facts ==
  /\ PowerOf2(0) = 1
  /\ \A k \in Nat : PowerOf2(k + 1) = 2 * PowerOf2(k)
  <1>1. PowerOf2(0) = 1
    BY PowerOf2Is DEF IsPowers
  <1>2. ASSUME NEW k \in Nat PROVE PowerOf2(k + 1) = 2 * PowerOf2(k)
    <2>1. PICK p : IsPowers(p, k + 1) /\ PowerOf2(k + 1) = p[k + 1]
      BY PowerOf2Is
    <2>2. PICK q : IsPowers(q, k) /\ PowerOf2(k) = q[k]
      BY PowerOf2Is
    <2>3. p[k] = q[k]
      BY <2>1, <2>2, PowersUnique, k \in 0..(k + 1)
    <2>4. p[k + 1] = 2 * p[k]
      BY <2>1 DEF IsPowers
    <2> QED
      BY <2>1, <2>2, <2>3, <2>4
  <1> QED
    BY <1>1, <1>2

\* Every power of two is positive.
LEMMA PowerOf2Type ==
  ASSUME NEW k \in Nat
  PROVE  PowerOf2(k) \in Nat \ {0}
  <1> DEFINE T == {m \in Nat : PowerOf2(m) \notin Nat \ {0}}
  <1>1. SUFFICES ASSUME T # {} PROVE FALSE
    BY <1>1
  <1>2. PICK m \in T : \A y \in T : m <= y
    BY <1>1, LeastOf
  <1>3. m # 0
    BY <1>2, PowerOf2Facts
  <1>4. m - 1 \in Nat /\ PowerOf2(m - 1) \in Nat \ {0}
    BY <1>2, <1>3
  <1>5. PowerOf2((m - 1) + 1) = 2 * PowerOf2(m - 1)
    BY <1>4, PowerOf2Facts
  <1>6. PowerOf2(m) = 2 * PowerOf2(m - 1)
    BY <1>2, <1>5
  <1> QED
    BY <1>2, <1>4, <1>6

-----------------------------------------------------------------------------
(* Poll intervals *)

Largest == PowerOf2(Width - 1) - 1

\* A non-negative duration that fits its type is left alone by the arithmetic.
LEMMA WrapFits ==
  ASSUME NEW x \in 0..Largest
  PROVE  Wrap(x) = x
  <1> DEFINE w == PowerOf2(Width - 1)
  <1>1. Width - 1 \in Nat /\ w \in Nat \ {0}
    BY IntervalAssumption, PowerOf2Type
  <1>2. PowerOf2((Width - 1) + 1) = 2 * w
    BY <1>1, PowerOf2Facts
  <1>3. PowerOf2(Width) = 2 * w
    BY <1>2, IntervalAssumption
  <1>4. x \in 0..(w - 1)
    BY DEF Largest
  <1> HIDE DEF w
  <1>5. (x + w) % (2 * w) = x + w
    BY <1>1, <1>4
  <1>6. (x + w) - w = x
    BY <1>1, <1>4
  <1> USE DEF w
  <1> QED
    BY <1>3, <1>5, <1>6 DEF Wrap

Capped(base, max, n) == IF base * PowerOf2(n) < max THEN base * PowerOf2(n) ELSE max

\* A turn of the loop of cappedDoubledInterval keeps to the capped power, without
\* overflow on the way.
LEMMA CappedStep ==
  ASSUME NEW max \in 0..Largest, NEW base \in 1..max, NEW n \in Nat
  PROVE  LET c == Capped(base, max, n)
         IN /\ c \in 1..max
            /\ Capped(base, max, n + 1) =
                 IF c >= max \/ c > max \div 2 THEN max ELSE Wrap(2 * c)
  <1> DEFINE b == base * PowerOf2(n)
             c == Capped(base, max, n)
  <1>1. /\ PowerOf2(n) \in Nat \ {0} /\ PowerOf2(n + 1) = 2 * PowerOf2(n)
        /\ max \in Nat /\ base \in Nat \ {0}
    <2>1. Largest \in Nat
      BY IntervalAssumption, PowerOf2Type DEF Largest
    <2> QED
      BY <2>1, PowerOf2Type, PowerOf2Facts
  <1>2. b \in Nat \ {0} /\ base * PowerOf2(n + 1) = 2 * b
    BY <1>1
  <1>3. c = IF b < max THEN b ELSE max
    BY DEF Capped
  <1>4. Capped(base, max, n + 1) = IF 2 * b < max THEN 2 * b ELSE max
    BY <1>2 DEF Capped
  <1> HIDE DEF b, c
  <1>5. c \in 1..max
    BY <1>1, <1>2, <1>3
  <1>6. CASE c >= max \/ c > max \div 2
    BY <1>1, <1>2, <1>3, <1>4, <1>6 DEF c
  <1>7. CASE ~(c >= max \/ c > max \div 2)
    <2>1. c = b /\ 2 * b \in 0..max
      BY <1>1, <1>2, <1>3, <1>7
    <2>2. Wrap(2 * c) = 2 * c
      <3>1. 2 * c \in 0..Largest
        BY <1>1, <2>1, IntervalAssumption, PowerOf2Type DEF Largest
      <3> QED
        BY <3>1, WrapFits
    <2> QED
      BY <1>1, <1>2, <1>4, <1>5, <1>7, <2>1, <2>2 DEF c
  <1> QED
    BY <1>5, <1>6, <1>7 DEF c


\* The function in Doubled.
IsDoubling(f, base, max, k) ==
    f = [n \in 0..k |->
           IF n = 0 THEN base
           ELSE IF f[n - 1] >= max \/ f[n - 1] > max \div 2 THEN max ELSE Wrap(2 * f[n - 1])]

\* The capped powers are such a function.
LEMMA DoublingExists ==
  ASSUME NEW max \in 0..Largest, NEW base \in 1..max, NEW k \in Nat
  PROVE  IsDoubling([n \in 0..k |-> Capped(base, max, n)], base, max, k)
  <1> DEFINE g == [n \in 0..k |-> Capped(base, max, n)]
  <1>1. Capped(base, max, 0) = base
    <2>1. Largest \in Nat
      BY IntervalAssumption, PowerOf2Type DEF Largest
    <2> QED
      BY <2>1, PowerOf2Facts DEF Capped
  <1>2. ASSUME NEW n \in 0..k, n # 0
        PROVE  g[n] = IF g[n - 1] >= max \/ g[n - 1] > max \div 2 THEN max ELSE Wrap(2 * g[n - 1])
    <2>1. n - 1 \in Nat /\ n - 1 \in 0..k /\ (n - 1) + 1 = n
      BY <1>2
    <2>2. g[n - 1] = Capped(base, max, n - 1) /\ g[n] = Capped(base, max, n)
      BY <2>1
    <2> HIDE DEF g
    <2>3. LET c == Capped(base, max, n - 1)
          IN Capped(base, max, (n - 1) + 1) =
               IF c >= max \/ c > max \div 2 THEN max ELSE Wrap(2 * c)
      BY <2>1, CappedStep
    <2> QED
      BY <2>1, <2>2, <2>3
  <1>3. g = [n \in 0..k |->
               IF n = 0 THEN base
               ELSE IF g[n - 1] >= max \/ g[n - 1] > max \div 2 THEN max ELSE Wrap(2 * g[n - 1])]
    BY <1>1, <1>2
  <1> QED
    BY <1>3 DEF IsDoubling

\* There is no other.
LEMMA DoublingUnique ==
  ASSUME NEW base, NEW max, NEW k \in Nat, NEW f, NEW g,
         IsDoubling(f, base, max, k), IsDoubling(g, base, max, k)
  PROVE  f[k] = g[k]
  <1> DEFINE T == {n \in 0..k : f[n] # g[n]}
  <1>1. SUFFICES ASSUME T # {} PROVE FALSE
    BY <1>1
  <1>2. PICK n \in T : \A y \in T : n <= y
    <2>1. T \subseteq Nat
      OBVIOUS
    <2> HIDE DEF T
    <2> QED
      BY <1>1, <2>1, LeastOf
  <1>3. n # 0
    BY <1>2 DEF IsDoubling
  <1>4. f[n - 1] = g[n - 1] /\ n - 1 \in 0..k
    BY <1>2, <1>3
  <1>5. /\ f[n] = IF f[n - 1] >= max \/ f[n - 1] > max \div 2 THEN max ELSE Wrap(2 * f[n - 1])
        /\ g[n] = IF g[n - 1] >= max \/ g[n - 1] > max \div 2 THEN max ELSE Wrap(2 * g[n - 1])
    BY <1>2, <1>3 DEF IsDoubling
  <1> QED
    BY <1>2, <1>4, <1>5

\* The loop of cappedDoubledInterval computes the capped power of its base.
LEMMA DoubledIsCapped ==
  ASSUME NEW max \in 0..Largest, NEW base \in 1..max, NEW k \in Nat
  PROVE  Doubled(base, max, k) = Capped(base, max, k)
  <1> DEFINE g == [n \in 0..k |-> Capped(base, max, n)]
             f == CHOOSE f : f = [n \in 0..k |->
                    IF n = 0 THEN base
                    ELSE IF f[n - 1] >= max \/ f[n - 1] > max \div 2 THEN max
                         ELSE Wrap(2 * f[n - 1])]
  <1>1. IsDoubling(g, base, max, k)
    BY DoublingExists
  <1>2. IsDoubling(f, base, max, k)
    <2> HIDE DEF g
    <2>1. \E h : h = [n \in 0..k |->
                    IF n = 0 THEN base
                    ELSE IF h[n - 1] >= max \/ h[n - 1] > max \div 2 THEN max
                         ELSE Wrap(2 * h[n - 1])]
      BY <1>1 DEF IsDoubling
    <2>2. f = [n \in 0..k |->
                    IF n = 0 THEN base
                    ELSE IF f[n - 1] >= max \/ f[n - 1] > max \div 2 THEN max
                         ELSE Wrap(2 * f[n - 1])]
      BY <2>1
    <2> QED
      BY <2>2 DEF IsDoubling
  <1>3. Doubled(base, max, k) = IF f[k] > max THEN max ELSE f[k]
    BY DEF Doubled
  <1>4. g[k] = Capped(base, max, k)
    OBVIOUS
  <1> HIDE DEF f, g
  <1>5. f[k] = g[k]
    BY <1>1, <1>2, DoublingUnique
  <1>6. Capped(base, max, k) \in 1..max /\ max \in Nat
    BY CappedStep, IntervalAssumption, PowerOf2Type DEF Largest
  <1> QED
    BY <1>3, <1>4, <1>5, <1>6

\* The interval after some doublings of the configured one, as the property has it.
LEMMA IntervalIs ==
  ASSUME NEW k \in Nat
  PROVE  LET cap == IF MaxPollInterval < PollInterval THEN PollInterval ELSE MaxPollInterval
             wanted == PollInterval * PowerOf2(k)
         IN cappedDoubledInterval(PollInterval, MaxPollInterval, k) =
              IF wanted < cap THEN wanted ELSE cap
  <1> DEFINE cap == IF MaxPollInterval < PollInterval THEN PollInterval ELSE MaxPollInterval
  <1>1. /\ PollInterval \in Nat /\ MaxPollInterval \in Nat
        /\ cap \in 0..Largest /\ PollInterval <= cap
    BY IntervalAssumption, PowerOf2Type DEF Largest
  <1>2. PowerOf2(k) \in Nat
    BY PowerOf2Type
  <1>3. CASE PollInterval = 0
    BY <1>1, <1>2, <1>3 DEF cappedDoubledInterval
  <1>4. CASE PollInterval # 0
    <2>1. cappedDoubledInterval(PollInterval, MaxPollInterval, k) = Doubled(PollInterval, cap, k)
      BY <1>1, <1>4 DEF cappedDoubledInterval
    <2>2. PollInterval \in 1..cap
      BY <1>1, <1>4
    <2> HIDE DEF cap
    <2>3. Doubled(PollInterval, cap, k) = Capped(PollInterval, cap, k)
      BY <1>1, <2>2, DoubledIsCapped
    <2> USE DEF cap
    <2> QED
      BY <2>1, <2>3 DEF Capped
  <1> QED
    BY <1>3, <1>4


\* The counters are numbers, and the interval is what they call for.
IntervalInv == failures \in Nat /\ idlePolls \in Nat /\ IntervalIsCappedDoubling

\* Run starts with the configured interval, and returns to it.
LEMMA IntervalReset ==
  ASSUME failures' = 0, idlePolls' = 0, interval' = PollInterval
  PROVE  IntervalInv'
  <1>1. PollInterval \in Nat /\ MaxPollInterval \in Nat
    BY IntervalAssumption
  <1>2. 0 \div 3 = 0
    OBVIOUS
  <1> QED
    BY <1>1, <1>2, PowerOf2Facts DEF IntervalInv, IntervalIsCappedDoubling

\* An engine that has just been opened polls at the configured interval.
LEMMA IntervalInit == Init => IntervalInv
  <1>1. PollInterval \in Nat /\ MaxPollInterval \in Nat /\ 0 \div 3 = 0
    BY IntervalAssumption
  <1> QED
    BY <1>1, PowerOf2Facts DEF Init, IntervalInv, IntervalIsCappedDoubling

\* recordResult sets the counters and the interval together.
LEMMA PassReturnsInterval ==
  ASSUME IntervalInv, PassReturns
  PROVE  IntervalInv'
  <1>1. \/ /\ failures' = Count(failures) /\ idlePolls' = 0
           /\ interval' = backoffPollInterval(failures')
        \/ /\ failures' = 0 /\ idlePolls' = Count(idlePolls)
           /\ interval' = idlePollInterval(idlePolls')
        \/ failures' = 0 /\ idlePolls' = 0 /\ interval' = PollInterval
    BY DEF PassReturns, recordResult
  <1>2. CASE /\ failures' = Count(failures) /\ idlePolls' = 0
             /\ interval' = backoffPollInterval(failures')
    <2>1. failures' \in Nat
      BY <1>2, IntervalAssumption DEF Count, IntervalInv
    <2>2. CASE failures' = 0
      <3>1. interval' = PollInterval
        BY <1>2, <2>2 DEF backoffPollInterval
      <3> QED
        BY <1>2, <2>2, <3>1, IntervalReset
    <2>3. CASE failures' # 0
      <3>1. interval' = cappedDoubledInterval(PollInterval, MaxPollInterval, failures')
        BY <1>2, <2>1, <2>3 DEF backoffPollInterval
      <3> QED
        BY <1>2, <2>1, <2>3, <3>1, IntervalIs DEF IntervalInv, IntervalIsCappedDoubling
    <2> QED
      BY <2>2, <2>3
  <1>3. CASE /\ failures' = 0 /\ idlePolls' = Count(idlePolls)
             /\ interval' = idlePollInterval(idlePolls')
    <2>1. idlePolls' \in Nat /\ idlePolls' \div 3 \in Nat
      BY <1>3, IntervalAssumption DEF Count, IntervalInv
    <2>2. interval' = cappedDoubledInterval(PollInterval, MaxPollInterval, idlePolls' \div 3)
      BY <1>3 DEF idlePollInterval
    <2> QED
      BY <1>3, <2>1, <2>2, IntervalIs DEF IntervalInv, IntervalIsCappedDoubling
  <1>4. CASE failures' = 0 /\ idlePolls' = 0 /\ interval' = PollInterval
    BY <1>4, IntervalReset
  <1> QED
    BY <1>1, <1>2, <1>3, <1>4

\* Nobody but Run touches its counters.
LEMMA IntervalNext == IntervalInv /\ [Next]_vars => IntervalInv'
  <1> SUFFICES ASSUME IntervalInv, [Next]_vars PROVE IntervalInv'
    OBVIOUS
  <1>1. CASE UNCHANGED backoffVars
    BY <1>1 DEF backoffVars, IntervalInv, IntervalIsCappedDoubling
  <1>2. CASE PassReturns
    BY <1>2, PassReturnsInterval
  <1>3. CASE SelectDone \/ SelectLogin
    BY <1>3, IntervalReset DEF SelectDone, SelectLogin
  <1>4. CASE StartRun \/ SelectTimer \/ SelectWake \/ SelectRequest
    BY <1>4, <1>1 DEF StartRun, SelectTimer, SelectWake, SelectRequest
  <1>5. CASE WatchStep \/ RequestFails \/ WatchFails \/ WatchUnsupported
    BY <1>5, <1>1 DEF RequestFails, WatchStep, OpenWatch, WatchChanged, WatchTimedOut, HandleHint, WatchAnswered,
       WatchWakes, WatchStops, WatchFails, WatchUnsupported, EmitStep, BeginEmit, SendEvent,
       frameOfWatch, runVars
  <1>6. CASE \E t \in Syncers : PassStep(t) \/ Push(t) \/ FailPass(t)
    BY <1>6, <1>1 DEF PassStep, LockSync, Pull, FinishPass, EmitStep, BeginEmit, SendEvent, Push,
       FailPass, runVars
  <1>7. CASE \/ SyncNowReturns \/ CloseStep \/ ReadEvent \/ RemoteWrite \/ ScheduleStep
             \/ CallStep \/ UNCHANGED vars
    BY <1>7, <1>1 DEF SyncNowReturns, CloseStep, CloseLockSync, CloseEvents, ReadEvent, RemoteWrite,
       ScheduleStep, ScheduleSync, SetIdlePolling, CallStep, CallSyncNow, Login, Cancel, BeginClose,
       vars, runVars
  <1> QED
    BY <1>2, <1>3, <1>4, <1>5, <1>6, <1>7
       DEF Next, EngineStep, RunStep, FaultStep, UploadStep

\* Whatever the mix of failures, idle polls, wake-ups and logins, and for any two
\* configured intervals that fit their type: Run polls at the interval doubled once
\* per failure, or once per three idle polls, capped, and doubling never overflows.
THEOREM IntervalsAreCapped == Spec => []IntervalIsCappedDoubling
  <1>1. IntervalInv => IntervalIsCappedDoubling
    BY DEF IntervalInv
  <1> QED
    BY <1>1, IntervalInit, IntervalNext, PTL DEF Spec


-----------------------------------------------------------------------------
(* Types *)

TypeInv == TypeOK /\ IntervalInv

\* An interval is a number, before a step and after it.
LEMMA IntervalType ==
  /\ IntervalInv => interval \in Int
  /\ IntervalInv' => interval' \in Int
  <1>1. PollInterval \in Nat /\ MaxPollInterval \in Nat
    BY IntervalAssumption
  <1>2. ASSUME IntervalInv PROVE interval \in Int
    <2>1. PowerOf2(IF failures > 0 THEN failures ELSE idlePolls \div 3) \in Nat
      BY <1>2, PowerOf2Type DEF IntervalInv
    <2> QED
      BY <1>1, <1>2, <2>1 DEF IntervalInv, IntervalIsCappedDoubling
  <1>3. ASSUME IntervalInv' PROVE interval' \in Int
    <2>1. PowerOf2(IF failures' > 0 THEN failures' ELSE idlePolls' \div 3) \in Nat
      BY <1>3, PowerOf2Type DEF IntervalInv
    <2> QED
      BY <1>1, <1>3, <2>1 DEF IntervalInv, IntervalIsCappedDoubling
  <1> QED
    BY <1>2, <1>3

\* A freshly opened engine has its types.
LEMMA TypeInit == Init => TypeInv
  <1> SUFFICES ASSUME Init PROVE TypeInv
    OBVIOUS
  <1>1. PollInterval \in Nat
    BY IntervalAssumption
  <1>2. /\ pc \in [Threads -> AllLabels]
        /\ pc[Run] = "begin" /\ pc[App] = "idle" /\ pc[Watch] = "off"
    BY Distinct DEF Init, Threads
  <1>3. events \in 0..EventBuffer
    BY BufferAssumption DEF Init
  <1>4. /\ closed \in BOOLEAN /\ eventsClosed \in BOOLEAN /\ cancelled \in BOOLEAN
        /\ wakeSync \in BOOLEAN /\ loginSucceededRun \in BOOLEAN
        /\ loginSucceededWatch \in BOOLEAN
        /\ timer \in BOOLEAN /\ moved \in BOOLEAN /\ idlePolling \in BOOLEAN
    BY DEF Init
  <1>5. /\ srvHead = 0 /\ head = 0 /\ syncMu = Nobody /\ readers = {}
        /\ closer = "open" /\ cause = "none"
        /\ failures = 0 /\ idlePolls = 0 /\ interval = PollInterval
        /\ known = 0 /\ hint = 0 /\ answer = "none" /\ report = "none"
    BY DEF Init
  <1>6. TypeOK
    BY <1>1, <1>2, <1>3, <1>4, <1>5 DEF TypeOK
  <1> QED
    BY <1>6, IntervalInit DEF TypeInv

\* What emit does to the types: an event is counted only where there is room.
LEMMA EmitTypes ==
  ASSUME TypeOK, interval' \in Int, NEW t \in Threads, EmitStep(t)
  PROVE  TypeOK'
  <1>1. CASE SendEvent(t)
    <2>1. events' \in 0..EventBuffer /\ readers' \subseteq Threads
      BY <1>1, BufferAssumption DEF SendEvent, TypeOK
    <2>2. /\ pc' \in [Threads -> AllLabels]
          /\ pc'[Run] \in SyncLabels \cup {"begin", "select", "done"}
          /\ pc'[App] \in SyncLabels \cup {"idle"}
          /\ pc'[Watch] \in WatchLabels
      BY <1>1, Distinct DEF SendEvent, Goto, EmitLabels, AfterEmit, TypeOK, Threads
    <2> QED
      BY <1>1, <2>1, <2>2 DEF SendEvent, TypeOK, headVars, closeVars, chanVars, runVars, backoffVars,
         watchVars
  <1>2. CASE BeginEmit(t)
    <2>1. readers' \subseteq Threads /\ moved' \in BOOLEAN
      BY <1>2 DEF BeginEmit, TypeOK
    <2>2. /\ pc' \in [Threads -> AllLabels]
          /\ pc'[Run] \in SyncLabels \cup {"begin", "select", "done"}
          /\ pc'[App] \in SyncLabels \cup {"idle"}
          /\ pc'[Watch] \in WatchLabels
      BY <1>2, Distinct DEF BeginEmit, Goto, EmitLabels, AfterEmit, TypeOK, Threads
    <2> QED
      BY <1>2, <2>1, <2>2 DEF BeginEmit, TypeOK, headVars, closeVars, chanVars, backoffVars, watchVars
  <1> QED
    BY <1>1, <1>2 DEF EmitStep

\* What SyncNow's own steps do to the types.
LEMMA PassTypes ==
  ASSUME TypeOK, interval' \in Int, NEW t \in Syncers,
         LockSync(t) \/ Pull(t) \/ FinishPass(t) \/ Push(t) \/ FailPass(t)
  PROVE  TypeOK'
  <1>1. PICK label \in PassLabels \cup {"err"} : pc' = [pc EXCEPT ![t] = label]
    BY DEF LockSync, Pull, FinishPass, Push, FailPass, Goto
  <1>2. /\ pc' \in [Threads -> AllLabels]
        /\ pc'[Run] \in SyncLabels \cup {"begin", "select", "done"}
        /\ pc'[App] \in SyncLabels \cup {"idle"}
        /\ pc'[Watch] \in WatchLabels
    BY <1>1, Distinct DEF TypeOK, Syncers
  <1>3. syncMu' \in Syncers \cup {Close, Nobody} /\ srvHead' \in Nat /\ head' \in Nat
    BY DEF LockSync, Pull, FinishPass, Push, FailPass, TypeOK, headVars
  <1>4. UNCHANGED <<emitVars, closeVars, chanVars, runVars, watchVars>>
    BY DEF LockSync, Pull, FinishPass, Push, FailPass
  <1> QED
    BY <1>2, <1>3, <1>4 DEF TypeOK, emitVars, closeVars, chanVars, runVars, backoffVars, watchVars

\* What Run's steps do to the types.
LEMMA RunTypes ==
  ASSUME TypeOK, IntervalInv', interval' \in Int, RunStep
  PROVE  TypeOK'
  <1>1. failures' \in Nat /\ idlePolls' \in Nat
    BY DEF IntervalInv
  <1>2. /\ pc' \in [Threads -> AllLabels]
        /\ pc'[Run] \in SyncLabels \cup {"begin", "select", "done"}
        /\ pc'[App] \in SyncLabels \cup {"idle"}
        /\ pc'[Watch] \in WatchLabels
    BY Distinct DEF RunStep, StartRun, PassReturns, SelectDone, SelectTimer, SelectWake, SelectLogin,
       SelectRequest, Goto, TypeOK
  <1>3. /\ cause' \in {"none", "initial", "timer", "wake", "request"}
        /\ moved' \in BOOLEAN /\ timer' \in BOOLEAN
        /\ answer' \in {"none", "ok", "err", "rollback"}
        /\ wakeSync' \in BOOLEAN /\ loginSucceededRun' \in BOOLEAN
    <2>1. CASE StartRun
      BY <2>1 DEF StartRun, BeginPass, TypeOK, chanVars, watchVars
    <2>2. CASE PassReturns
      BY <2>2 DEF PassReturns, TypeOK, chanVars
    <2>3. CASE SelectDone \/ SelectTimer \/ SelectWake
      BY <2>3 DEF SelectDone, SelectTimer, SelectWake, BeginPass, TypeOK, chanVars, watchVars
    <2>4. CASE SelectLogin
      BY <2>4 DEF SelectLogin, BeginPass, TypeOK, watchVars
    <2>5. CASE SelectRequest
      BY <2>5 DEF SelectRequest, BeginPass, TypeOK, chanVars
    <2> QED
      BY <2>1, <2>2, <2>3, <2>4, <2>5 DEF RunStep
  <1>4. syncMu' \in Syncers \cup {Close, Nobody}
    BY DEF RunStep, StartRun, PassReturns, SelectDone, SelectTimer, SelectWake, SelectLogin,
       SelectRequest, TypeOK
  <1>5. UNCHANGED <<headVars, emitVars, closeVars, loginSucceededWatch, idlePolling, known, hint,
                    report>>
    BY DEF RunStep, StartRun, PassReturns, SelectDone, SelectTimer, SelectWake, SelectLogin,
       SelectRequest, chanVars, watchVars
  <1> QED
    BY <1>1, <1>2, <1>3, <1>4, <1>5 DEF TypeOK, headVars, emitVars, closeVars

\* What the watch does to the types.
LEMMA WatchTypes ==
  ASSUME TypeOK, interval' \in Int,
         \/ OpenWatch \/ WatchChanged \/ WatchTimedOut \/ HandleHint \/ WatchAnswered
         \/ WatchWakes \/ WatchStops \/ RequestFails \/ WatchFails \/ WatchUnsupported
  PROVE  TypeOK'
  <1>1. PICK label \in WatchLabels : pc' = [pc EXCEPT ![Watch] = label]
    BY DEF OpenWatch, WatchChanged, WatchTimedOut, HandleHint, WatchAnswered, WatchWakes, WatchStops,
           RequestFails, WatchFails, WatchUnsupported, WatchGoto, WatchError, Goto
  <1>2. /\ pc' \in [Threads -> AllLabels]
        /\ pc'[Run] \in SyncLabels \cup {"begin", "select", "done"}
        /\ pc'[App] \in SyncLabels \cup {"idle"}
        /\ pc'[Watch] \in WatchLabels
    BY <1>1, Distinct DEF TypeOK
  <1>3. /\ known' \in Nat /\ hint' \in Nat /\ report' \in {"none", "error", "rollback"}
        /\ answer' \in {"none", "ok", "err", "rollback"}
    BY DEF OpenWatch, WatchChanged, WatchTimedOut, HandleHint, WatchAnswered, WatchWakes, WatchStops,
           RequestFails, WatchFails, WatchUnsupported, WatchGoto, WatchError, TypeOK
  <1>4. /\ loginSucceededWatch' \in BOOLEAN
        /\ UNCHANGED <<headVars, syncMu, emitVars, closeVars, wakeSync, loginSucceededRun, runVars>>
    BY DEF OpenWatch, WatchChanged, WatchTimedOut, HandleHint, WatchAnswered, WatchWakes, WatchStops,
           RequestFails, WatchFails, WatchUnsupported, WatchGoto, WatchError, TypeOK, frameOfWatch, chanVars
  <1> QED
    BY <1>2, <1>3, <1>4 DEF TypeOK, headVars, emitVars, closeVars, chanVars, runVars, backoffVars

\* What the calls of the app and Close do to the types.
LEMMA CallTypes ==
  ASSUME TypeOK, interval' \in Int,
         \/ SyncNowReturns \/ CloseStep \/ ReadEvent \/ RemoteWrite \/ ScheduleStep \/ CallStep
         \/ UNCHANGED vars
  PROVE  TypeOK'
  <1>1. CASE SyncNowReturns \/ CallSyncNow
    <2>1. PICK label \in {"idle", "lock"} : pc' = [pc EXCEPT ![App] = label]
      BY <1>1 DEF SyncNowReturns, CallSyncNow, Goto
    <2>2. /\ pc' \in [Threads -> AllLabels]
          /\ pc'[Run] \in SyncLabels \cup {"begin", "select", "done"}
          /\ pc'[App] \in SyncLabels \cup {"idle"}
          /\ pc'[Watch] \in WatchLabels
      BY <2>1, Distinct DEF TypeOK
    <2> QED
      BY <1>1, <2>2 DEF SyncNowReturns, CallSyncNow, TypeOK, headVars, emitVars, closeVars, chanVars,
         runVars, backoffVars, watchVars
  <1>2. CASE CloseStep \/ BeginClose \/ Cancel
    <2>1. /\ UNCHANGED <<pc, headVars, emitVars, chanVars, runVars, watchVars>>
          /\ syncMu' \in Syncers \cup {Close, Nobody}
          /\ closed' \in BOOLEAN /\ eventsClosed' \in BOOLEAN /\ cancelled' \in BOOLEAN
          /\ closer' \in {"open", "sync", "events", "closed"}
      BY <1>2 DEF CloseStep, CloseLockSync, CloseEvents, BeginClose, Cancel, TypeOK
    <2> QED
      BY <2>1 DEF TypeOK, headVars, emitVars, chanVars, runVars, backoffVars, watchVars
  <1>3. CASE ReadEvent \/ RemoteWrite
    BY <1>3, BufferAssumption DEF ReadEvent, RemoteWrite, TypeOK, headVars, emitVars, closeVars,
       chanVars, runVars, backoffVars, watchVars
  <1>4. CASE ScheduleStep \/ Login
    <2>1. /\ wakeSync' \in BOOLEAN /\ loginSucceededRun' \in BOOLEAN
          /\ loginSucceededWatch' \in BOOLEAN /\ idlePolling' \in BOOLEAN
      BY <1>4 DEF ScheduleStep, ScheduleSync, SetIdlePolling, Login, TypeOK, runVars
    <2>2. UNCHANGED <<pc, headVars, syncMu, emitVars, closeVars, timer, cause, moved, backoffVars,
                      watchVars>>
      BY <1>4 DEF ScheduleStep, ScheduleSync, SetIdlePolling, Login, runVars
    <2> QED
      BY <2>1, <2>2 DEF TypeOK, headVars, emitVars, closeVars, backoffVars, watchVars
  <1>5. CASE UNCHANGED vars
    BY <1>5 DEF TypeOK, vars, headVars, emitVars, closeVars, chanVars, runVars, backoffVars, watchVars
  <1> QED
    BY <1>1, <1>2, <1>3, <1>4, <1>5 DEF CallStep

\* Every step of the program keeps the types.
LEMMA TypeNext == TypeInv /\ [Next]_vars => TypeInv'
  <1> SUFFICES ASSUME TypeInv, [Next]_vars PROVE TypeInv'
    OBVIOUS
  <1>1. IntervalInv'
    BY IntervalNext DEF TypeInv
  <1>2. TypeOK
    BY DEF TypeInv
  <1>3. interval' \in Int
    BY <1>1, IntervalType
  <1>4. TypeOK'
    <2>1. CASE EngineStep
      BY <1>1, <1>2, <1>3, <2>1, EmitTypes, PassTypes, RunTypes, WatchTypes, CallTypes, Distinct
         DEF EngineStep, PassStep, WatchStep
    <2>2. CASE FaultStep \/ RemoteWrite \/ UploadStep
      BY <1>2, <1>3, <2>2, PassTypes, WatchTypes, CallTypes DEF FaultStep, UploadStep
    <2>3. CASE ScheduleStep \/ CallStep \/ UNCHANGED vars
      BY <1>2, <1>3, <2>3, CallTypes
    <2> QED
      BY <2>1, <2>2, <2>3 DEF Next
  <1> QED
    BY <1>1, <1>4 DEF TypeInv

\* Every variable keeps its type: in particular the event channel never holds more
\* than its buffer, and every goroutine is at one of its own labels.
THEOREM TypeCorrect == Spec => []TypeOK
  <1>1. TypeInv => TypeOK
    BY DEF TypeInv
  <1> QED
    BY <1>1, TypeInit, TypeNext, PTL DEF Spec
=============================================================================

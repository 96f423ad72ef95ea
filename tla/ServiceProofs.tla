---------------------------- MODULE ServiceProofs ---------------------------
(***************************************************************************)
(* What holds of HistoryService for every number of owners, requests and   *)
(* calls of start(): the scheduler never runs two passes and never leaves  *)
(* a timer behind, and no pass begins between stop() and the next start(). *)
(*                                                                         *)
(* SchedulerOK is OnePass with the ranges it takes for granted.  It is     *)
(* inductive as it stands, because every action of the scheduler that sets *)
(* a timer looks whether one is pending.  That the scheduler is stopped    *)
(* whenever a stop() is remembered needs one more fact: a start() that is  *)
(* still waiting for listen, and will start the scheduler, either has      *)
(* forgotten the last stop() or was crossed by the next (StoppedByStop).   *)
(*                                                                         *)
(* A graceful end rests on three more facts: the admission count is the    *)
(* number of requests that hold a slot (SlotsCounted), a close() awaits    *)
(* the stop() of its own run (EndInOrder), and what stop() has waited for  *)
(* does not come back (EndReached).  That the pipeline keeps its promises  *)
(* in the service follows from its own invariant (RequestProofs): nothing  *)
(* the service adds touches a limiter, the replay window or an answer.     *)
(***************************************************************************)
EXTENDS HistoryService, RequestProofs

SchedulerOK ==
    /\ stopped \in BOOLEAN /\ inFlight \in BOOLEAN /\ rearm \in BOOLEAN
    /\ passes \in Seq(Int) /\ Len(passes) <= 1
    /\ inFlight <=> passes # <<>>
    /\ armed \in {0, 1}
    /\ stopped => armed = 0

StoppedByStop ==
    (starting \/ ~stopped) => (~stopMemo \/ "stopInStart" \in crossed)
-----------------------------------------------------------------------------
(***************************************************************************)
(* The scheduler's own steps keep it in order.                             *)
(***************************************************************************)
LEMMA InitScheduler == SchedulerInit => SchedulerOK
<1> SUFFICES ASSUME SchedulerInit PROVE SchedulerOK
    OBVIOUS
<1>1. passes = <<>> /\ inFlight = FALSE /\ stopped = TRUE /\ rearm = FALSE /\ armed = 0
    BY DEF SchedulerInit
<1>2. passes \in Seq(Int) /\ Len(passes) <= 1
    BY <1>1
<1> QED
    BY <1>1, <1>2, Zenon DEF SchedulerOK

\* execute joins the pass in flight or begins the only one.
LEMMA ExecuteOnce ==
    ASSUME SchedulerOK, Execute
    PROVE  /\ inFlight' \in BOOLEAN /\ passes' \in Seq(Int) /\ Len(passes') <= 1
           /\ inFlight' <=> passes' # <<>>
<1>1. CASE inFlight
    BY <1>1, Zenon DEF SchedulerOK, Execute
<1>2. CASE ~inFlight
    <2>1. inFlight' = TRUE /\ passes = <<>> /\ passes' = Append(passes, 1 + CleanupOwners)
        BY <1>2, Zenon DEF SchedulerOK, Execute
    <2>2. passes' \in Seq(Int) /\ Len(passes') <= 1 /\ passes' # <<>>
        BY <2>1, CleanupOwnersType
    <2> QED
        BY <2>1, <2>2, Zenon
<1> QED
    BY <1>1, <1>2

LEMMA TickKeeps == SchedulerOK /\ Tick => SchedulerOK'
<1> SUFFICES ASSUME SchedulerOK, Tick PROVE SchedulerOK'
    OBVIOUS
<1>1. armed = 1 /\ armed' = 0 /\ stopped' = stopped
    BY DEF SchedulerOK, Tick
<1>2. CASE stopped
    BY <1>1, <1>2 DEF SchedulerOK, Tick
<1>3. CASE ~stopped
    <2>1. Execute /\ rearm' = TRUE
        BY <1>3 DEF Tick
    <2> QED
        BY <1>1, <2>1, ExecuteOnce DEF SchedulerOK
<1> QED
    BY <1>2, <1>3

LEMMA RunNowKeeps == SchedulerOK /\ RunNow => SchedulerOK'
BY ExecuteOnce DEF SchedulerOK, RunNow

LEMMA PassStepKeeps == SchedulerOK /\ PassStep => SchedulerOK'
<1> SUFFICES ASSUME SchedulerOK, NEW i \in DOMAIN passes,
                    PassAdvances(i) \/ PassSettles(i)
             PROVE  SchedulerOK'
    BY DEF PassStep
<1>1. i = 1 /\ Len(passes) = 1
    <2>1. passes \in Seq(Int) /\ Len(passes) <= 1
        BY DEF SchedulerOK
    <2>2. Len(passes) \in Nat /\ DOMAIN passes = 1..Len(passes)
        BY <2>1
    <2> QED
        BY <2>1, <2>2
<1>2. inFlight = TRUE /\ passes # <<>> /\ passes \in Seq(Int)
    <2>1. passes # <<>>
        BY <1>1
    <2> QED
        BY <2>1, Zenon DEF SchedulerOK
<1>3. CASE PassAdvances(i)
    <2>1. passes' = [passes EXCEPT ![1] = @ - 1]
        BY <1>1, <1>3 DEF PassAdvances
    <2>2. passes \in Seq(Int) /\ Len(passes) = 1
        BY <1>1, <1>2
    <2>3. passes' \in Seq(Int) /\ Len(passes') = 1
        BY <2>1, <2>2
    <2>4. Len(passes') <= 1 /\ passes' # <<>>
        BY <2>3
    <2> QED
        BY <1>2, <1>3, <2>3, <2>4, Zenon DEF SchedulerOK, PassAdvances
<1>4. CASE PassSettles(i)
    <2>1. SubSeq(passes, 1, 0) = <<>> /\ SubSeq(passes, 2, 1) = <<>>
        BY SubSeqEmpty
    <2>2. passes' = SubSeq(passes, 1, 0) \o SubSeq(passes, 2, 1)
        BY <1>1, <1>4 DEF PassSettles
    <2>3. passes' = <<>>
        BY <2>1, <2>2
    <2>4. passes' \in Seq(Int) /\ Len(passes') <= 1
        BY <2>3
    <2>5. armed' \in {0, 1} /\ (stopped' => armed' = 0)
        BY <1>4 DEF SchedulerOK, PassSettles, ArmedAfter
    <2> QED
        BY <1>4, <2>3, <2>4, <2>5, Zenon DEF SchedulerOK, PassSettles
<1> QED
    BY <1>3, <1>4

LEMMA SchedulerStartKeeps == SchedulerOK /\ SchedulerStart => SchedulerOK'
<1> SUFFICES ASSUME SchedulerOK, SchedulerStart PROVE SchedulerOK'
    OBVIOUS
<1>1. armed' \in {0, 1} /\ stopped' = FALSE
    BY DEF SchedulerOK, SchedulerStart
<1> QED
    BY <1>1, Zenon DEF SchedulerOK, SchedulerStart

LEMMA SchedulerStopKeeps == SchedulerOK /\ SchedulerStop => SchedulerOK'
BY DEF SchedulerOK, SchedulerStop

LEMMA SchedulerUnchanged == SchedulerOK /\ UNCHANGED schedulerVars => SchedulerOK'
BY DEF SchedulerOK, schedulerVars
-----------------------------------------------------------------------------
(***************************************************************************)
(* The scheduler among the other parts of the service.                     *)
(***************************************************************************)
LEMMA ServiceInitOK == ServiceInit => SchedulerOK /\ StoppedByStop
BY InitScheduler DEF ServiceInit, SchedulerInit, StoppedByStop

\* Of the steps of stop() only its beginning touches the scheduler.
LEMMA StopStepLeavesScheduler ==
    StopStep => UNCHANGED <<schedulerVars, starting, stopMemo, crossed>>
BY DEF StopStep, SchedulerStopped, Drained, DrainTimesOut, LetGo, ServerClosed,
       PoolDestroyed

LEMMA BeginStopKeeps ==
    SchedulerOK /\ BeginStop => SchedulerOK' /\ StoppedByStop'
<1> SUFFICES ASSUME SchedulerOK, BeginStop PROVE SchedulerOK' /\ StoppedByStop'
    OBVIOUS
<1>1. SchedulerOK'
    BY SchedulerStopKeeps DEF BeginStop
<1>2. stopped' = TRUE /\ starting' = starting
    BY DEF BeginStop, SchedulerStop
<1>3. starting => "stopInStart" \in crossed'
    BY DEF BeginStop
<1> QED
    BY <1>1, <1>2, <1>3 DEF StoppedByStop

LEMMA ServiceStepOK ==
    SchedulerOK /\ StoppedByStop /\ [ServiceNext]_serviceVars
        => SchedulerOK' /\ StoppedByStop'
<1> SUFFICES ASSUME SchedulerOK, StoppedByStop, [ServiceNext]_serviceVars
             PROVE  SchedulerOK' /\ StoppedByStop'
    OBVIOUS
<1>1. CASE UNCHANGED <<schedulerVars, starting, stopMemo, crossed>>
    BY <1>1, SchedulerUnchanged DEF StoppedByStop, schedulerVars
<1>2. CASE StartCalled
    <2>1. SchedulerOK'
        BY <1>2, SchedulerUnchanged DEF StartCalled
    <2> QED
        BY <1>2, <2>1 DEF StartCalled, StoppedByStop
<1>3. CASE Listening
    <2>1. SchedulerOK'
        BY <1>3, SchedulerStartKeeps DEF Listening
    <2> QED
        BY <1>3, <2>1 DEF Listening, StoppedByStop
<1>4. CASE ListenFails
    <2>1. SchedulerOK'
        BY <1>4, SchedulerUnchanged DEF ListenFails
    <2> QED
        BY <1>4, <2>1 DEF ListenFails, StoppedByStop, schedulerVars
<1>5. CASE StopCalled \/ CloseCalled
    <2>1. BeginStop \/ UNCHANGED <<schedulerVars, starting, stopMemo, crossed>>
        BY <1>5 DEF StopCalled, CloseCalled
    <2> QED
        BY <2>1, <1>1, BeginStopKeeps
<1>6. CASE StopStep
    BY <1>1, <1>6, StopStepLeavesScheduler
<1>7. CASE Migrate \/ Request
    BY <1>1, <1>7 DEF Migrate, Request, lifecycleVars
<1>8. CASE Cleanup(Tick) \/ Cleanup(RunNow) \/ Cleanup(PassStep)
    <2>1. SchedulerOK'
        BY <1>8, TickKeeps, RunNowKeeps, PassStepKeeps DEF Cleanup
    <2>2. stopped' = stopped
        BY <1>8 DEF Cleanup, Tick, RunNow, PassStep, PassAdvances, PassSettles
    <2> QED
        BY <1>8, <2>1, <2>2 DEF Cleanup, lifecycleVars, StoppedByStop
<1>9. CASE UNCHANGED serviceVars
    BY <1>1, <1>9 DEF serviceVars, lifecycleVars
<1> QED
    BY <1>2, <1>3, <1>4, <1>5, <1>6, <1>7, <1>8, <1>9 DEF ServiceNext

\* Only a scheduler that is not stopped begins a pass.
LEMMA PassesBegin ==
    SchedulerOK /\ [ServiceNext]_serviceVars /\ Len(passes') > Len(passes) => ~stopped
<1> SUFFICES ASSUME SchedulerOK, [ServiceNext]_serviceVars, stopped
             PROVE  ~(Len(passes') > Len(passes))
    OBVIOUS
<1>1. passes \in Seq(Int) /\ armed = 0
    BY DEF SchedulerOK
<1>2. Len(passes) \in Nat
    BY <1>1
<1>3. CASE passes' = passes
    BY <1>2, <1>3
<1>4. CASE Cleanup(PassStep)
    <2> SUFFICES ASSUME NEW i \in DOMAIN passes, PassAdvances(i) \/ PassSettles(i)
                 PROVE  ~(Len(passes') > Len(passes))
        BY <1>4 DEF Cleanup, PassStep
    <2>1. CASE PassAdvances(i)
        <3>1. passes' = [passes EXCEPT ![i] = @ - 1]
            BY <2>1 DEF PassAdvances
        <3>2. Len(passes') = Len(passes)
            BY <1>1, <3>1
        <3> QED
            BY <1>2, <3>2
    <2>2. CASE PassSettles(i)
        <3>1. i = 1 /\ Len(passes) = 1
            <4>1. passes \in Seq(Int) /\ Len(passes) <= 1
                BY DEF SchedulerOK
            <4>2. DOMAIN passes = 1..Len(passes)
                BY <4>1
            <4> QED
                BY <1>2, <4>1, <4>2
        <3>2. SubSeq(passes, 1, 0) = <<>> /\ SubSeq(passes, 2, 1) = <<>>
            BY SubSeqEmpty
        <3>3. passes' = SubSeq(passes, 1, 0) \o SubSeq(passes, 2, 1)
            BY <3>1, <2>2 DEF PassSettles
        <3>4. passes' = <<>>
            BY <3>2, <3>3
        <3> QED
            BY <1>2, <3>4
    <2> QED
        BY <2>1, <2>2
<1>5. ~Cleanup(RunNow)
    BY DEF Cleanup, RunNow
<1>6. ~Cleanup(Tick)
    BY <1>1 DEF Cleanup, Tick
<1>7. CASE Migrate \/ Request \/ StopStep
    <2>1. UNCHANGED schedulerVars
        BY <1>7, StopStepLeavesScheduler DEF Migrate, Request
    <2> QED
        BY <1>3, <2>1 DEF schedulerVars
<1>8. CASE StartCalled \/ Listening \/ ListenFails
    BY <1>3, <1>8 DEF StartCalled, Listening, ListenFails, SchedulerStart, schedulerVars
<1>9. CASE StopCalled \/ CloseCalled
    BY <1>3, <1>9 DEF StopCalled, CloseCalled, BeginStop, SchedulerStop, schedulerVars
<1>10. CASE UNCHANGED serviceVars
    BY <1>3, <1>10 DEF serviceVars, schedulerVars
<1> QED
    BY <1>4, <1>5, <1>6, <1>7, <1>8, <1>9, <1>10 DEF ServiceNext
-----------------------------------------------------------------------------
(***************************************************************************)
(* The admission slots (SlotsCounted) under the service's own steps.       *)
(***************************************************************************)
\* The drain's time limit ends every connection.
LEMMA DrainTimesOutKeeps == SlotsCounted /\ DrainTimesOut => SlotsCounted'
<1> SUFFICES ASSUME SlotsCounted, DrainTimesOut PROVE SlotsCounted'
    OBVIOUS
<1>1. req' = [s \in Slot |-> Disconnected(s)] /\ active' = 0
    BY DEF DrainTimesOut
<1>2. \A s \in Slot : /\ Disconnected(s) \in {Free} \cup Waiting \cup Running
                      /\ Disconnected(s) = Free \/ ~Disconnected(s).holds
    BY DEF SlotsCounted, ReqOK, Disconnected, Free, Waiting, Running
<1>3. ReqOK'
    BY <1>1, <1>2 DEF ReqOK
<1>4. Holding' = {}
    BY <1>1, <1>2 DEF Holding, Busy, Free
<1> QED
    BY <1>1, <1>3, <1>4, FS_EmptySet DEF SlotsCounted

LEMMA SlotsStepOK == SlotsCounted /\ [ServiceNext]_serviceVars => SlotsCounted'
<1> SUFFICES ASSUME SlotsCounted, [ServiceNext]_serviceVars PROVE SlotsCounted'
    OBVIOUS
<1>1. CASE UNCHANGED <<req, active>>
    BY <1>1 DEF SlotsCounted, ReqOK, Holding, Busy
<1>2. CASE Request
    BY <1>1, <1>2, IncomingKeeps, ServeKeeps DEF Request, NextWindow
<1>3. CASE StopStep
    BY <1>1, <1>3, DrainTimesOutKeeps
    DEF StopStep, SchedulerStopped, Drained, ServerClosed, PoolDestroyed, pipelineVars
<1>4. CASE ServiceNext /\ ~Request /\ ~StopStep
    BY <1>1, <1>4 DEF ServiceNext, StartCalled, Listening, ListenFails, StopCalled,
       CloseCalled, BeginStop, Migrate, Cleanup, pipelineVars
<1> QED
    BY <1>1, <1>2, <1>3, <1>4 DEF serviceVars, pipelineVars
-----------------------------------------------------------------------------
(***************************************************************************)
(* The end of the service.  A stop() that no call crosses and no time      *)
(* limit cuts short has ended the passes, then the requests.               *)
(***************************************************************************)
EndInOrder ==
    /\ stopAt = "cleanup" => ~cut
    /\ closeMemo => stopMemo
    /\ closeMemo /\ ~closing => stopAt = "idle"

UndisturbedStop == stopMemo /\ crossed = {} /\ ~cut

EndReached ==
    UndisturbedStop =>
        /\ stopAt # "cleanup" => passes = <<>>
        /\ stopAt \in {"close", "idle"} => server = "none" /\ Holding = {}

\* Everything the inductive proof is about.
ServiceInv ==
    SchedulerOK /\ StoppedByStop /\ SlotsCounted /\ EndInOrder /\ EndReached

LEMMA InitInv == ServiceInit => ServiceInv
<1> SUFFICES ASSUME ServiceInit PROVE ServiceInv
    OBVIOUS
<1>1. req = [s \in Slot |-> Free] /\ active = 0
    BY DEF ServiceInit, PipelineInit
<1>2. ReqOK
    BY <1>1 DEF ReqOK
<1>3. Holding = {}
    BY <1>1 DEF Holding, Busy, Free
<1>4. SlotsCounted
    BY <1>1, <1>2, <1>3, FS_EmptySet DEF SlotsCounted
<1>5. EndInOrder /\ EndReached
    BY DEF ServiceInit, EndInOrder, EndReached, UndisturbedStop
<1> QED
    BY <1>4, <1>5, ServiceInitOK DEF ServiceInv

LEMMA EndInOrderKeeps == EndInOrder /\ [ServiceNext]_serviceVars => EndInOrder'
<1> SUFFICES ASSUME EndInOrder, [ServiceNext]_serviceVars PROVE EndInOrder'
    OBVIOUS
<1>1. CASE UNCHANGED lifecycleVars
    BY <1>1 DEF EndInOrder, lifecycleVars
<1>2. CASE StartCalled
    BY <1>2 DEF EndInOrder, StartCalled
<1>3. CASE Listening \/ ListenFails
    BY <1>3 DEF EndInOrder, Listening, ListenFails
<1>4. CASE StopCalled
    BY <1>4 DEF EndInOrder, StopCalled, BeginStop
<1>5. CASE CloseCalled
    BY <1>5 DEF EndInOrder, CloseCalled, BeginStop
<1>6. CASE StopStep
    BY <1>6 DEF EndInOrder, StopStep, SchedulerStopped, Drained, DrainTimesOut, LetGo,
       ServerClosed, PoolDestroyed
<1> QED
    BY <1>1, <1>2, <1>3, <1>4, <1>5, <1>6
    DEF ServiceNext, serviceVars, Migrate, Request, Cleanup

\* What a stopped scheduler has ended does not begin again.
LEMMA PassesStayOver ==
    SchedulerOK /\ SchedulerOK' /\ [ServiceNext]_serviceVars /\ stopped /\ passes = <<>>
        => passes' = <<>>
<1> SUFFICES ASSUME SchedulerOK, SchedulerOK', [ServiceNext]_serviceVars, stopped,
                    passes = <<>>
             PROVE  passes' = <<>>
    OBVIOUS
<1>1. ~(Len(passes') > Len(passes)) /\ Len(passes) = 0
    BY PassesBegin
<1>2. passes' \in Seq(Int)
    BY DEF SchedulerOK
<1> QED
    BY <1>1, <1>2

\* Without a server the requests that hold a slot only get fewer.
LEMMA HoldersStayGone ==
    ASSUME SlotsCounted, Request, server = "none", Holding = {}
    PROVE  Holding' = {}
<1>1. CASE NextWindow
    BY <1>1 DEF NextWindow, Holding, Busy
<1>2. CASE \E s \in Slot : Serve(s) \/ Disconnect(s)
    BY <1>2, ServeKeeps
<1> QED
    BY <1>1, <1>2 DEF Request

LEMMA EndReachedKeeps == ServiceInv /\ [ServiceNext]_serviceVars => EndReached'
<1> SUFFICES ASSUME ServiceInv, [ServiceNext]_serviceVars, UndisturbedStop'
             PROVE  /\ stopAt' # "cleanup" => passes' = <<>>
                    /\ stopAt' \in {"close", "idle"} => server' = "none" /\ Holding' = {}
    BY DEF EndReached
<1>1. SchedulerOK /\ SchedulerOK' /\ SlotsCounted
    BY ServiceStepOK DEF ServiceInv
<1>2. UndisturbedStop => stopped /\ ~starting
    BY DEF ServiceInv, StoppedByStop, UndisturbedStop
<1>3. UndisturbedStop /\ stopAt # "cleanup" => passes' = <<>>
    BY <1>1, <1>2, PassesStayOver DEF ServiceInv, EndReached
<1>4. (UndisturbedStop /\ stopAt \in {"close", "idle"}) => server = "none" /\ Holding = {}
    BY DEF ServiceInv, EndReached
<1>5. CASE UNCHANGED <<req, lifecycleVars>>
    <2>1. UndisturbedStop /\ stopAt' = stopAt /\ server' = server
        BY <1>5 DEF UndisturbedStop, lifecycleVars
    <2>2. Holding' = Holding
        BY <1>5 DEF Holding, Busy
    <2> QED
        BY <1>3, <1>4, <2>1, <2>2
<1>6. CASE Request
    <2>1. UndisturbedStop /\ stopAt' = stopAt /\ server' = server
        BY <1>6 DEF Request, UndisturbedStop, lifecycleVars
    <2> QED
        BY <1>1, <1>3, <1>4, <1>6, <2>1, HoldersStayGone
<1>7. CASE StartCalled \/ Listening \/ ListenFails
    <2>1. ~StartCalled
        BY DEF StartCalled, UndisturbedStop
    <2>2. (Listening \/ ListenFails) => starting /\ UndisturbedStop
        <3>1. ASSUME Listening \/ ListenFails
              PROVE  starting /\ UNCHANGED <<stopMemo, crossed, cut>>
            BY <3>1 DEF Listening, ListenFails
        <3> QED
            BY <3>1, Zenon DEF UndisturbedStop
    <2> QED
        BY <1>2, <1>7, <2>1, <2>2
<1>8. CASE StopCalled \/ CloseCalled
    <2>1. CASE BeginStop
        BY <2>1 DEF BeginStop
    <2>2. CASE ~BeginStop
        <3>1. /\ UNCHANGED <<stopMemo, crossed, cut>>
              /\ stopAt' = stopAt /\ server' = server /\ req' = req
            BY <1>8, <2>2 DEF StopCalled, CloseCalled, pipelineVars
        <3>2. UndisturbedStop
            BY <3>1, Zenon DEF UndisturbedStop
        <3>3. Holding' = Holding
            BY <3>1 DEF Holding, Busy
        <3> QED
            BY <1>3, <1>4, <3>1, <3>2, <3>3
    <2> QED
        BY <2>1, <2>2
<1>9. CASE SchedulerStopped
    <2>1. stopAt' = "drain" /\ ~inFlight /\ passes' = passes
        BY <1>9 DEF SchedulerStopped, UndisturbedStop, schedulerVars
    <2>2. passes = <<>>
        BY <1>1, <2>1, Zenon DEF SchedulerOK
    <2> QED
        BY <2>1, <2>2
<1>10. CASE Drained
    <2>1. UndisturbedStop /\ stopAt = "drain" /\ server' = "none" /\ active = 0 /\ req' = req
        BY <1>10 DEF Drained, LetGo, UndisturbedStop, pipelineVars
    <2>2. Holding = {}
        BY <1>1, <2>1, HoldingFinite DEF SlotsCounted
    <2>3. Holding' = Holding
        BY <2>1 DEF Holding, Busy
    <2> QED
        BY <1>3, <2>1, <2>2, <2>3
<1>11. CASE ServerClosed \/ PoolDestroyed
    <2>1. /\ UNCHANGED <<stopMemo, crossed, cut>>
          /\ stopAt \in {"close", "idle"} /\ server' = server /\ req' = req
        BY <1>11 DEF ServerClosed, PoolDestroyed, pipelineVars
    <2>2. UndisturbedStop
        BY <2>1, Zenon DEF UndisturbedStop
    <2>3. Holding' = Holding
        BY <2>1 DEF Holding, Busy
    <2> QED
        BY <1>3, <1>4, <2>1, <2>2, <2>3
<1>12. ~DrainTimesOut
    BY DEF DrainTimesOut, UndisturbedStop
<1>13. CASE Migrate \/ Cleanup(Tick) \/ Cleanup(RunNow) \/ Cleanup(PassStep)
    BY <1>5, <1>13 DEF Migrate, Cleanup, pipelineVars
<1>14. CASE UNCHANGED serviceVars
    BY <1>5, <1>14 DEF serviceVars, pipelineVars
<1> QED
    BY <1>6, <1>7, <1>8, <1>9, <1>10, <1>11, <1>12, <1>13, <1>14 DEF ServiceNext, StopStep

LEMMA StepInv == ServiceInv /\ [ServiceNext]_serviceVars => ServiceInv'
BY ServiceStepOK, SlotsStepOK, EndInOrderKeeps, EndReachedKeeps DEF ServiceInv
-----------------------------------------------------------------------------
(***************************************************************************)
(* One cleanup pass at a time and one pending tick, for every number of    *)
(* configured owners and every interleaving of ticks, manual triggers,     *)
(* starts and stops with the pass (service.ts, createCleanupScheduler).    *)
(***************************************************************************)
THEOREM OnePassAtATime == ServiceSpec => []OnePass
<1>1. SchedulerOK => OnePass
    BY DEF SchedulerOK, OnePass
<1> QED
    BY <1>1, ServiceInitOK, ServiceStepOK, PTL DEF ServiceSpec

(***************************************************************************)
(* From the call of stop() to the next start() no cleanup pass begins,     *)
(* unless stop() came while start() was waiting for its listen, for every  *)
(* number of requests, owners and calls.                                   *)
(***************************************************************************)
THEOREM NoPassInShutdown == ServiceSpec => NoCleanupInShutdown
<1> DEFINE Begins == Len(passes') > Len(passes) => ~stopMemo \/ "stopInStart" \in crossed
<1>1. SchedulerOK /\ StoppedByStop /\ [ServiceNext]_serviceVars => [Begins]_serviceVars
    BY PassesBegin DEF StoppedByStop
<1> QED
    BY <1>1, ServiceInitOK, ServiceStepOK, PTL DEF ServiceSpec, NoCleanupInShutdown

(***************************************************************************)
(* The admission slots are neither lost nor counted twice, for every       *)
(* number of requests, limit, address and identity: however a request ends *)
(* and in whatever order its answer, its disconnection and the drain's     *)
(* time limit come, the count is the number of requests that hold a slot   *)
(* (service.ts, AdmissionTracker and its release).                         *)
(***************************************************************************)
THEOREM SlotsNeverLeak == ServiceSpec => []SlotsCounted
<1>1. ServiceInv => SlotsCounted
    BY DEF ServiceInv
<1> QED
    BY <1>1, InitInv, StepInv, PTL DEF ServiceSpec

(***************************************************************************)
(* A close() that no other call crosses and no time limit cuts short ends  *)
(* with no cleanup pass running, no client waiting and no server, for      *)
(* every number of requests, owners and calls.                             *)
(***************************************************************************)
THEOREM EndsGracefully == ServiceSpec => []GracefulEnd
<1>1. ServiceInv => GracefulEnd
    <2> SUFFICES ASSUME ServiceInv, pool = "destroyed", closeMemo, ~closing, ~cut,
                        crossed = {}
                 PROVE  /\ passes = <<>> /\ server = "none"
                        /\ \A s \in Slot : Busy(s) => ~req[s].holds
        BY DEF GracefulEnd
    <2>1. stopMemo /\ stopAt = "idle"
        BY DEF ServiceInv, EndInOrder
    <2>2. passes = <<>> /\ server = "none" /\ Holding = {}
        BY <2>1 DEF ServiceInv, EndReached, UndisturbedStop
    <2> QED
        BY <2>2 DEF Holding
<1> QED
    BY <1>1, InitInv, StepInv, PTL DEF ServiceSpec
-----------------------------------------------------------------------------
(***************************************************************************)
(* Types.  The promises of the pipeline survive in the service, as no      *)
(* start or stop touches the limiters, the replay window or an answer.     *)
(***************************************************************************)
CallsLeft == \A i \in DOMAIN passes : passes[i] \in 1..(1 + CleanupOwners)

LifeTyped ==
    /\ stopAt \in {"idle", "cleanup", "drain", "close"}
    /\ stopMemo \in BOOLEAN /\ closeMemo \in BOOLEAN /\ closing \in BOOLEAN
    /\ starting \in BOOLEAN /\ cut \in BOOLEAN
    /\ server \in {"none", "up"} /\ pool \in {"open", "destroyed"}
    /\ crossed \subseteq {"startInStop", "stopInStart"}

LEMMA PipelineStepOK == PipelineInv /\ [ServiceNext]_serviceVars => PipelineInv'
<1> SUFFICES ASSUME PipelineInv, [ServiceNext]_serviceVars PROVE PipelineInv'
    OBVIOUS
<1> DEFINE Stays == /\ UNCHANGED <<req, active, told, passed>>
                    /\ UNCHANGED limiterVars /\ UNCHANGED replayVars
<1>1. CASE Stays
    BY <1>1, AdmittedStays, CountedStays, RemembersStays, EarnedStays DEF PipelineInv
<1>2. CASE Request
    BY <1>2, IncomingStep, ServeStep, WindowStep DEF Request
<1>3. CASE DrainTimesOut
    <2>1. SlotsCounted' /\ active' = 0
        BY <1>3, DrainTimesOutKeeps DEF PipelineInv, Admitted, DrainTimesOut
    <2>2. Admitted'
        BY <2>1, LimitsTyped DEF Admitted
    <2>3. UNCHANGED <<told, passed>> /\ UNCHANGED limiterVars /\ UNCHANGED replayVars
        BY <1>3 DEF DrainTimesOut, requestVars, limiterVars, replayVars
    <2> QED
        BY <2>2, <2>3, CountedStays, RemembersStays, EarnedStays DEF PipelineInv
<1>4. CASE StopStep /\ ~DrainTimesOut
    <2>1. Stays
        BY <1>4 DEF StopStep, SchedulerStopped, Drained, ServerClosed, PoolDestroyed,
           pipelineVars, limiterVars, replayVars
    <2> QED
        BY <1>1, <2>1
<1>5. CASE ServiceNext /\ ~Request /\ ~StopStep
    <2>1. Stays
        BY <1>5 DEF ServiceNext, StartCalled, Listening, ListenFails, StopCalled,
           CloseCalled, BeginStop, Migrate, Cleanup, pipelineVars, requestVars,
           limiterVars, replayVars
    <2> QED
        BY <1>1, <2>1
<1>6. CASE UNCHANGED serviceVars
    <2>1. Stays
        BY <1>6 DEF serviceVars, pipelineVars, limiterVars, replayVars
    <2> QED
        BY <1>1, <2>1
<1> QED
    BY <1>2, <1>3, <1>4, <1>5, <1>6

LEMMA LifeStepOK == LifeTyped /\ SchedulerOK /\ [ServiceNext]_serviceVars => LifeTyped'
<1> SUFFICES ASSUME LifeTyped, SchedulerOK, [ServiceNext]_serviceVars PROVE LifeTyped'
    OBVIOUS
<1>1. CASE UNCHANGED lifecycleVars
    BY <1>1 DEF LifeTyped, lifecycleVars
<1>2. CASE StartCalled \/ Listening \/ ListenFails
    BY <1>2 DEF LifeTyped, StartCalled, Listening, ListenFails
<1>3. CASE StopCalled \/ CloseCalled
    BY <1>3 DEF LifeTyped, StopCalled, CloseCalled, BeginStop
<1>4. CASE StopStep
    BY <1>4 DEF LifeTyped, SchedulerOK, StopStep, SchedulerStopped, Drained, DrainTimesOut,
       LetGo, ServerClosed, PoolDestroyed
<1> QED
    BY <1>1, <1>2, <1>3, <1>4 DEF ServiceNext, Migrate, Request, Cleanup, serviceVars

\* A pass begins with all its calls, and is over before it has none left.
LEMMA CallsStepOK ==
    ASSUME SchedulerOK, CallsLeft, [ServiceNext]_serviceVars
    PROVE  CallsLeft'
<1>1. CASE passes' = passes
    BY <1>1 DEF CallsLeft
<1>2. CASE Execute
    <2>1. CASE ~inFlight
        <3>1. passes = <<>> /\ passes' = Append(passes, 1 + CleanupOwners)
            BY <2>1, <1>2, Zenon DEF SchedulerOK, Execute
        <3>2. DOMAIN passes' = {1} /\ passes'[1] = 1 + CleanupOwners
            BY <3>1
        <3>3. 1 + CleanupOwners \in 1..(1 + CleanupOwners)
            BY CleanupOwnersType
        <3> QED
            BY <3>2, <3>3 DEF CallsLeft
    <2> QED
        BY <1>1, <1>2, <2>1 DEF Execute
<1>3. CASE PassStep
    <2>1. PICK i \in DOMAIN passes : PassAdvances(i) \/ PassSettles(i)
        BY <1>3 DEF PassStep
    <2>2. passes \in Seq(Int) /\ Len(passes) <= 1
        BY DEF SchedulerOK
    <2>3. Len(passes) = 1 /\ i = 1 /\ DOMAIN passes = {1}
        BY <2>1, <2>2
    <2>4. CASE PassAdvances(i)
        <3>1. passes[1] > 1 /\ passes' = [passes EXCEPT ![1] = @ - 1]
            BY <2>3, <2>4 DEF PassAdvances
        <3>2. passes[1] \in 1..(1 + CleanupOwners)
            BY <2>3 DEF CallsLeft
        <3>3. DOMAIN passes' = {1} /\ passes'[1] = passes[1] - 1
            BY <2>3, <3>1
        <3>4. passes[1] - 1 \in 1..(1 + CleanupOwners)
            BY <3>1, <3>2, CleanupOwnersType
        <3> QED
            BY <3>3, <3>4 DEF CallsLeft
    <2>5. CASE PassSettles(i)
        <3>1. SubSeq(passes, 1, 0) = <<>> /\ SubSeq(passes, 2, 1) = <<>>
            BY SubSeqEmpty
        <3>2. passes' = SubSeq(passes, 1, 0) \o SubSeq(passes, 2, 1)
            BY <2>3, <2>5 DEF PassSettles
        <3>3. DOMAIN passes' = {}
            BY <3>1, <3>2
        <3> QED
            BY <3>3 DEF CallsLeft
    <2> QED
        BY <2>1, <2>4, <2>5
<1>4. CASE Cleanup(Tick) \/ Cleanup(RunNow) \/ Cleanup(PassStep)
    BY <1>1, <1>2, <1>3, <1>4 DEF Cleanup, Tick, RunNow
<1>5. CASE StartCalled \/ Listening \/ ListenFails \/ StopCalled \/ CloseCalled
    BY <1>1, <1>5 DEF StartCalled, Listening, ListenFails, StopCalled, CloseCalled,
       BeginStop, SchedulerStart, SchedulerStop, schedulerVars
<1>6. CASE StopStep
    BY <1>1, <1>6, StopStepLeavesScheduler DEF schedulerVars
<1>7. CASE Migrate \/ Request \/ UNCHANGED serviceVars
    BY <1>1, <1>7 DEF Migrate, Request, serviceVars, schedulerVars
<1> QED
    BY <1>4, <1>5, <1>6, <1>7 DEF ServiceNext

LEMMA InitTypes == ServiceInit => PipelineInv /\ LifeTyped /\ CallsLeft
<1> SUFFICES ASSUME ServiceInit PROVE PipelineInv /\ LifeTyped /\ CallsLeft
    OBVIOUS
<1>1. PipelineInv
    BY InitPipeline DEF ServiceInit
<1>2. LifeTyped
    BY DEF ServiceInit, LifeTyped
<1>3. CallsLeft
    <2>1. passes = <<>> /\ DOMAIN <<>> = {}
        BY DEF ServiceInit, SchedulerInit
    <2> QED
        BY <2>1 DEF CallsLeft
<1> QED
    BY <1>1, <1>2, <1>3

(***************************************************************************)
(* Types and sizes in the service: slots within their bound, the Maps and  *)
(* the replay window within theirs, whatever starts, stops and drains.     *)
(***************************************************************************)
THEOREM ServiceTypeCorrect == ServiceSpec => []ServiceTypeOK
<1> DEFINE Types == SchedulerOK /\ StoppedByStop /\ PipelineInv /\ LifeTyped /\ CallsLeft
<1>1. ServiceInit => Types
    BY ServiceInitOK, InitTypes
<1>2. Types /\ [ServiceNext]_serviceVars => Types'
    BY ServiceStepOK, PipelineStepOK, LifeStepOK, CallsStepOK
<1>3. Types => ServiceTypeOK
    BY PipelineTypes DEF SchedulerOK, LifeTyped, CallsLeft, ServiceTypeOK
<1> QED
    BY <1>1, <1>2, <1>3, PTL DEF ServiceSpec

(***************************************************************************)
(* What the pipeline promises on its own it promises in the service: a 429 *)
(* is earned, an allowance is kept, and an id passes once per window of    *)
(* ids, across every start, stop and drain.                                *)
(***************************************************************************)
THEOREM ServiceKeepsPromises ==
    ServiceSpec => [](DenialEarned /\ AllowanceKept /\ ReplayWindowHolds)
BY InitTypes, PipelineStepOK, PromisesHold, PTL DEF ServiceSpec
=============================================================================

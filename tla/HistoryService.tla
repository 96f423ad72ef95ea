---------------------------- MODULE HistoryService --------------------------
(***************************************************************************)
(* createService: the request pipeline and the cleanup scheduler under     *)
(* start, stop, close and migrate.  stop() begins the drain, stops the     *)
(* scheduler and waits for its pass, waits for the requests, and closes    *)
(* the server, each wait with a time limit; close() is stop() and then the *)
(* end of the connection pool.  Both are memoised until the next start().  *)
(*                                                                         *)
(* Callers may call each of them at any time.  At most one start(), one    *)
(* stop() and one close() are under way at once, a bound of the model that *)
(* the code has not: a second start() during the first would listen again. *)
(***************************************************************************)
EXTENDS RequestPipeline, CleanupScheduler

CONSTANT MaxStarts     \* bound of the model on the calls of start() that listen

ASSUME ServiceType == MaxStarts \in Nat

VARIABLES
    server,      \* the server the service knows is "none", or it is "up"
    starts,      \* the calls of start() that have waited for listen
    starting,    \* a start() waits for listen
    stopAt,      \* where the performStop under way is, or "idle"
    stopMemo,    \* stopPromise is not null
    closing,     \* a close() waits for its stop()
    closeMemo,   \* closePromise is not null
    pool,        \* the owned Knex pool: "open" or "destroyed"
    cut,         \* (history variable) the last stop() ran out of a time limit
    crossed      \* (history variable) the calls since the last start() that
                 \* came while the opposite call was under way

lifecycleVars == <<server, starts, starting, stopAt, stopMemo, closing, closeMemo,
                   pool, cut, crossed>>
serviceVars   == <<pipelineVars, schedulerVars, lifecycleVars>>

\* All of the pipeline but what a drain and a closing server change.
requestVars == <<addresses, identities, seenIds, window, verified, told, passed,
                 fresh>>

ServiceInit ==
    /\ PipelineInit /\ SchedulerInit
    /\ server = "none" /\ starts = 0 /\ starting = FALSE
    /\ stopAt = "idle" /\ stopMemo = FALSE
    /\ closing = FALSE /\ closeMemo = FALSE /\ pool = "open"
    /\ cut = FALSE /\ crossed = {}
-----------------------------------------------------------------------------
(***************************************************************************)
(* start().  With a server there is nothing to do.  Otherwise the memos go *)
(* and admission opens before listen is awaited; the scheduler starts once *)
(* the server listens, unless listen fails.                                *)
(***************************************************************************)
StartCalled ==
    /\ server = "none" /\ ~starting /\ starts < MaxStarts
    /\ starting' = TRUE /\ starts' = starts + 1
    /\ stopMemo' = FALSE /\ closeMemo' = FALSE
    /\ draining' = FALSE
    /\ cut' = FALSE
    /\ crossed' = IF stopAt # "idle" \/ closing THEN {"startInStop"} ELSE {}
    /\ UNCHANGED <<req, active, requestVars, schedulerVars, server, stopAt,
                   closing, pool>>

Listening ==
    /\ starting
    /\ starting' = FALSE
    /\ server' = "up"
    /\ SchedulerStart
    /\ UNCHANGED <<pipelineVars, starts, stopAt, stopMemo, closing, closeMemo,
                   pool, cut, crossed>>

ListenFails ==
    /\ starting
    /\ starting' = FALSE
    /\ UNCHANGED <<pipelineVars, schedulerVars, server, starts, stopAt, stopMemo,
                   closing, closeMemo, pool, cut, crossed>>
-----------------------------------------------------------------------------
(***************************************************************************)
(* stop() and close().  performStop runs up to the wait for the pass in    *)
(* flight within the call.                                                 *)
(***************************************************************************)
BeginStop ==
    /\ stopAt = "idle"
    /\ stopAt' = "cleanup"
    /\ stopMemo' = TRUE
    /\ draining' = TRUE
    /\ SchedulerStop
    /\ cut' = FALSE
    /\ crossed' = IF starting THEN crossed \cup {"stopInStart"} ELSE crossed
    /\ UNCHANGED <<req, active, requestVars, server, starts, starting, pool>>

StopCalled == ~stopMemo /\ BeginStop /\ UNCHANGED <<closing, closeMemo>>

CloseCalled ==
    /\ ~closeMemo /\ ~closing
    /\ closeMemo' = TRUE /\ closing' = TRUE
    /\ \/ ~stopMemo /\ BeginStop
       \/ /\ stopMemo
          /\ UNCHANGED <<pipelineVars, schedulerVars, server, starts, starting,
                         stopAt, stopMemo, pool, cut, crossed>>

\* The pass in flight has settled, or CLEANUP_STOP_DEFAULT_TIMEOUT_MS is over.
SchedulerStopped ==
    /\ stopAt = "cleanup"
    /\ stopAt' = "drain"
    /\ cut' = inFlight
    /\ UNCHANGED <<pipelineVars, schedulerVars, server, starts, starting, stopMemo,
                   closing, closeMemo, pool, crossed>>

\* The server takes no more connections; with none there is nothing to close.
LetGo ==
    /\ stopAt' = IF server = "up" THEN "close" ELSE "idle"
    /\ server' = "none"
    /\ UNCHANGED <<schedulerVars, starts, starting, stopMemo, closing, closeMemo,
                   pool, crossed>>

\* (mutant) the requests are not waited for
MutDrained == stopAt = "drain" /\ LetGo /\ UNCHANGED <<pipelineVars, cut>>

\* waitIdle: no slot is held.
Drained == stopAt = "drain" /\ active = 0 /\ LetGo /\ UNCHANGED <<pipelineVars, cut>>

\* shutdownDrainTimeoutMs is over: closeAllConnections, as if every client had
\* gone.
DrainTimesOut ==
    /\ stopAt = "drain"
    /\ active > 0
    /\ LetGo
    /\ cut' = TRUE
    /\ req' = [s \in Slot |-> Disconnected(s)]
    /\ active' = 0
    /\ UNCHANGED <<draining, requestVars>>

\* The server has closed its last connection.
ServerClosed ==
    /\ stopAt = "close"
    /\ stopAt' = "idle"
    /\ UNCHANGED <<pipelineVars, schedulerVars, server, starts, starting, stopMemo,
                   closing, closeMemo, pool, cut, crossed>>

\* close() goes on where the stop() it awaits has finished.
PoolDestroyed ==
    /\ closing /\ stopAt = "idle"
    /\ closing' = FALSE
    /\ pool' = "destroyed"
    /\ UNCHANGED <<pipelineVars, schedulerVars, server, starts, starting, stopAt,
                   stopMemo, closeMemo, cut, crossed>>

\* (mutant) the promise of the wait is not settled by the time limit
MutStopStep ==
    \/ SchedulerStopped /\ ~inFlight
    \/ Drained \/ ServerClosed \/ PoolDestroyed

StopStep ==
    SchedulerStopped \/ Drained \/ DrainTimesOut \/ ServerClosed \/ PoolDestroyed
-----------------------------------------------------------------------------
\* migrate(): the versions are verified, or a failure takes them back.
Migrate ==
    /\ verified' \in BOOLEAN
    /\ UNCHANGED <<req, active, draining, addresses, identities, seenIds, window,
                   told, passed, fresh, schedulerVars, lifecycleVars>>

\* The pipeline goes on, and new requests come in while there is a server.
Request ==
    /\ \/ server = "up" /\ Incoming
       \/ \E s \in Slot : Serve(s) \/ Disconnect(s)
       \/ NextWindow
    /\ UNCHANGED <<schedulerVars, lifecycleVars>>

Cleanup(step) == step /\ UNCHANGED <<pipelineVars, lifecycleVars>>

ServiceNext ==
    \/ StartCalled \/ Listening \/ ListenFails
    \/ StopCalled \/ CloseCalled \/ StopStep
    \/ Migrate \/ Request
    \/ Cleanup(Tick) \/ Cleanup(RunNow) \/ Cleanup(PassStep)

ServiceSpec == ServiceInit /\ [][ServiceNext]_serviceVars

(***************************************************************************)
(* Timers fire, a repository call settles (the driver has its own time     *)
(* limits), and each wait of stop() ends, by its time limit if by nothing  *)
(* else.  Nobody need call anything, and no client need make a request.    *)
(***************************************************************************)
FairServiceSpec ==
    /\ ServiceSpec
    /\ WF_serviceVars(Cleanup(Tick))
    /\ WF_serviceVars(Cleanup(PassStep))
    /\ WF_serviceVars(StopStep)
-----------------------------------------------------------------------------
(***************************************************************************)
(* Properties                                                              *)
(***************************************************************************)

(***************************************************************************)
(* Types.  A server that closes is none the service knows.                 *)
(***************************************************************************)
ServiceTypeOK ==
    /\ PipelineTypeOK
    /\ armed \in Nat /\ \A i \in DOMAIN passes : passes[i] \in 1..(1 + CleanupOwners)
    /\ stopAt \in {"idle", "cleanup", "drain", "close"}
    /\ {stopMemo, closeMemo, closing, starting, cut} \subseteq BOOLEAN
    /\ server \in {"none", "up"} /\ pool \in {"open", "destroyed"}
    /\ crossed \subseteq {"startInStop", "stopInStart"}

(***************************************************************************)
(* One cleanup pass at a time and one pending tick, none while stopped,    *)
(* however ticks, triggers, stops and starts interleave with the pass.     *)
(***************************************************************************)
OnePass ==
    /\ Len(passes) <= 1 /\ (inFlight <=> passes # <<>>)
    /\ armed <= 1 /\ (stopped => armed = 0)

(***************************************************************************)
(* A graceful end: when close() has destroyed the pool and no time limit   *)
(* was reached, no cleanup pass is running, no client still waits for the  *)
(* answer to its request, and nothing listens.  Calls that crossed are     *)
(* excepted: a server may come up during or after such a stop().           *)
(***************************************************************************)
GracefulEnd ==
    pool = "destroyed" /\ closeMemo /\ ~closing /\ ~cut /\ crossed = {} =>
        /\ passes = <<>> /\ server = "none"
        /\ \A s \in Slot : Busy(s) => ~req[s].holds

(***************************************************************************)
(* From the call of stop() to the next start() no cleanup pass begins      *)
(* (service.ts:2886: "so no cleanup work can begin during or after         *)
(* shutdown"), except if stop() was called while start() waited for its    *)
(* listen: the scheduler starts after that stop() has stopped it.  A       *)
(* start() during a stop() does no such harm.                              *)
(***************************************************************************)
NoCleanupInShutdown ==
    [][Len(passes') > Len(passes) => ~stopMemo \/ "stopInStart" \in crossed]_serviceVars

(***************************************************************************)
(* stop() comes to its end, whatever requests and passes do meanwhile and  *)
(* whatever else is called.                                                *)
(***************************************************************************)
StopFinishes == (stopAt # "idle") ~> (stopAt = "idle")

(***************************************************************************)
(* Cleanup goes on: while the scheduler is not stopped, passes begin and   *)
(* end again and again, after failures, triggers, stops and restarts.      *)
(***************************************************************************)
KeepsCleaning ==
    <>[](~stopped) => []<>(passes # <<>>) /\ []<>(passes = <<>>)
=============================================================================

--------------------------- MODULE CleanupScheduler -------------------------
(***************************************************************************)
(* The scheduler of the retention passes, createCleanupScheduler, and the  *)
(* pass it runs, createRepositoryCleanup.  A pass is a series of           *)
(* repository calls with awaits between them: one for the expired          *)
(* snapshots, then one for each configured owner's changes.  Ticks, manual *)
(* triggers, stop and start come at any point of it.                       *)
(*                                                                         *)
(* The code means one pass to run at a time and one timer to be pending.   *)
(* The model counts both, so that it can tell when there are more.         *)
(***************************************************************************)
EXTENDS Integers, Sequences

CONSTANT CleanupOwners   \* the number of configured owners

ASSUME CleanupOwnersType == CleanupOwners \in Nat

VARIABLES
    stopped,     \* stopped, TRUE before the first start
    armed,       \* the interval timers that are pending
    inFlight,    \* currentRun is not null
    passes,      \* for each running pass, the repository calls it has left
    rearm        \* a tick waits for the pass and will schedule the next tick

schedulerVars == <<stopped, armed, inFlight, passes, rearm>>

SchedulerInit ==
    /\ stopped = TRUE
    /\ armed = 0
    /\ inFlight = FALSE
    /\ passes = <<>>
    /\ rearm = FALSE

\* (mutant) an execution that does not join the pass in flight
MutExecute ==
    /\ inFlight' = TRUE
    /\ passes' = Append(passes, 1 + CleanupOwners)

\* execute: joins the pass in flight, or begins one.
Execute ==
    IF inFlight THEN UNCHANGED <<inFlight, passes>>
    ELSE /\ inFlight' = TRUE
         /\ passes' = Append(passes, 1 + CleanupOwners)

\* (mutant) a tick that finds a pass running is skipped, the next one is not set
MutTick ==
    /\ armed > 0
    /\ armed' = armed - 1
    /\ IF stopped \/ inFlight THEN UNCHANGED <<inFlight, passes, rearm>>
       ELSE Execute /\ rearm' = TRUE
    /\ UNCHANGED stopped

\* The timer fires.  The next one is set only when the pass has settled.
Tick ==
    /\ armed > 0
    /\ armed' = armed - 1
    /\ IF stopped THEN UNCHANGED <<inFlight, passes, rearm>>
       ELSE Execute /\ rearm' = TRUE
    /\ UNCHANGED stopped

\* runNow, the manual trigger: no tick follows from it.
RunNow ==
    /\ ~stopped
    /\ Execute
    /\ UNCHANGED <<stopped, armed, rearm>>

\* A repository call that is not the pass's last one succeeds.
PassAdvances(i) ==
    /\ passes[i] > 1
    /\ passes' = [passes EXCEPT ![i] = @ - 1]
    /\ UNCHANGED <<stopped, armed, inFlight, rearm>>

\* scheduleNext, if it is called
ArmedAfter(wanted) == IF ~stopped /\ wanted /\ armed = 0 THEN 1 ELSE armed

\* The last call succeeds, or any of them fails: the pass is over.
PassSettles(i) ==
    /\ passes' = SubSeq(passes, 1, i - 1) \o SubSeq(passes, i + 1, Len(passes))
    /\ inFlight' = FALSE
    /\ armed' = ArmedAfter(rearm)
    /\ rearm' = FALSE
    /\ UNCHANGED stopped

PassStep == \E i \in DOMAIN passes : PassAdvances(i) \/ PassSettles(i)

SchedulerStart ==
    /\ stopped' = FALSE
    /\ armed' = IF stopped /\ armed = 0 THEN 1 ELSE armed
    /\ UNCHANGED <<inFlight, passes, rearm>>

\* (mutant) the pending timer is cancelled, the flag forgotten
MutSchedulerStop ==
    /\ stopped' = stopped
    /\ armed' = 0
    /\ UNCHANGED <<inFlight, passes, rearm>>

\* The part of stop before it waits for the pass in flight.
SchedulerStop ==
    /\ stopped' = TRUE
    /\ armed' = 0
    /\ UNCHANGED <<inFlight, passes, rearm>>
=============================================================================

----------------------------- MODULE WorkerSlot -----------------------------
(***************************************************************************)
(* sdk/remote-policy/python/.../evaluation.py: every remote policy is      *)
(* evaluated in a child process, and one slot for the whole host process   *)
(* admits one child at a time.  The slot outlives the call that took it:   *)
(* when the call is cancelled or times out, a cleanup task (for a spawn    *)
(* nobody waits for any more) or a drain task (for a killed child) keeps   *)
(* it until the child is gone.                                             *)
(*                                                                         *)
(* An action is what runs between two awaits of one task.  A timeout may   *)
(* fire whenever its wait is under way.                                    *)
(***************************************************************************)
EXTENDS Integers

CONSTANT Requests    \* calls of evaluate_policy_snapshot, each made once

VARIABLES
  permits,    \* value of _WORKER_ADMISSION, a BoundedSemaphore(1)
  slot,       \* slot[c]: the call's _WorkerSlot: "none", "held", "released"
  deferred,   \* _WorkerSlot.deferred: the call itself does not release
  pc,         \* where the call is
  result,     \* how the call ended, or will end unless cleanup fails
  spawn,      \* the task that creates the child
  worker,     \* the child process
  cleanup,    \* the _discard_spawn task
  drain,      \* the _drain_worker task
  killed,     \* the child was sent SIGKILL
  stuck       \* history: the child could not be killed, or its drain was lost

workerVars == <<permits, slot, deferred, pc, result, spawn, worker, cleanup, drain, killed,
                stuck>>

SpawnPending == {"pending", "cancelling"}
SpawnFailed == {"oserror", "failed", "cancelled"}
DrainOver == {"ended", "done"}  \* before and after the callback of the task

WorkerInit ==
  /\ permits = 1
  /\ slot = [c \in Requests |-> "none"]
  /\ deferred = [c \in Requests |-> FALSE]
  /\ pc = [c \in Requests |-> "idle"]
  /\ result = [c \in Requests |-> "none"]
  /\ spawn = [c \in Requests |-> "none"]
  /\ worker = [c \in Requests |-> "none"]
  /\ cleanup = [c \in Requests |-> "none"]
  /\ drain = [c \in Requests |-> "none"]
  /\ killed = [c \in Requests |-> FALSE]
  /\ stuck = [c \in Requests |-> FALSE]

-----------------------------------------------------------------------------
(* _WorkerSlot                                                             *)

\* release: at most once per slot.
releases(c) ==
  IF slot[c] = "held"
  THEN /\ slot' = [slot EXCEPT ![c] = "released"]
       /\ permits' = permits + 1
  ELSE UNCHANGED <<slot, permits>>

ends(c, how) ==
  /\ pc' = [pc EXCEPT ![c] = "done"]
  /\ result' = [result EXCEPT ![c] = how]

\* The finally of evaluate_policy_snapshot.
ends_and_releases(c, how) ==
  /\ ends(c, how)
  /\ IF deferred[c] THEN UNCHANGED <<slot, permits>> ELSE releases(c)

-----------------------------------------------------------------------------
(* A call: admission, and the wait for its child to be created             *)

\* The slot is taken, or the call fails at once.  A request that does not
\* encode or is too large ends the call before anything is spawned.
EvaluateSnapshot(c, encodes) ==
  /\ pc[c] = "idle"
  /\ \/ /\ permits = 0
        /\ ends(c, "busy")
        /\ UNCHANGED <<permits, slot, spawn>>
     \/ /\ permits > 0 /\ ~encodes
        /\ slot' = [slot EXCEPT ![c] = "released"]
        /\ ends(c, "invalid")
        /\ UNCHANGED <<permits, spawn>>
     \/ /\ permits > 0 /\ encodes
        /\ permits' = permits - 1
        /\ slot' = [slot EXCEPT ![c] = "held"]
        /\ spawn' = [spawn EXCEPT ![c] = "pending"]
        /\ pc' = [pc EXCEPT ![c] = "spawning"]
        /\ UNCHANGED result
  /\ UNCHANGED <<deferred, worker, cleanup, drain, killed, stuck>>

\* asyncio creates the child; once its task is over without a child of its own
\* to hand out, there is none alive.
SpawnForks(c) ==
  /\ spawn[c] \in SpawnPending
  /\ worker[c] = "none"
  /\ worker' = [worker EXCEPT ![c] = "alive"]
  /\ UNCHANGED <<permits, slot, deferred, pc, result, spawn, cleanup, drain, killed,
                 stuck>>

SpawnEnds(c, how) ==
  /\ spawn[c] \in SpawnPending
  /\ how = "done" => worker[c] # "none"
  /\ how \in SpawnFailed => worker[c] # "alive"
  /\ how = "cancelled" => spawn[c] = "cancelling"
  /\ spawn' = [spawn EXCEPT ![c] = how]
  /\ UNCHANGED <<permits, slot, deferred, pc, result, worker, cleanup, drain, killed,
                 stuck>>

WorkerExits(c) ==
  /\ worker[c] = "alive"
  /\ worker' = [worker EXCEPT ![c] = "exited"]
  /\ UNCHANGED <<permits, slot, deferred, pc, result, spawn, cleanup, drain, killed,
                 stuck>>

\* The call has its child and starts to feed and read it.
Spawned(c) ==
  /\ pc[c] = "spawning"
  /\ spawn[c] = "done"
  /\ pc' = [pc EXCEPT ![c] = "working"]
  /\ UNCHANGED <<permits, slot, deferred, result, spawn, worker, cleanup, drain, killed,
                 stuck>>

\* An error nobody expected: the call releases the slot itself.
SpawnCrashes(c) ==
  /\ pc[c] = "spawning"
  /\ spawn[c] = "failed"
  /\ ends_and_releases(c, "crashed")
  /\ UNCHANGED <<deferred, spawn, worker, cleanup, drain, killed, stuck>>

\* Mutant: the call gives its slot back as soon as it has cancelled the spawn.
AbandonSpawnReleases(c, why) ==
  /\ pc[c] = "spawning"
  /\ spawn' = [spawn EXCEPT ![c] = IF @ = "pending" THEN "cancelling" ELSE @]
  /\ cleanup' = [cleanup EXCEPT ![c] = "waiting"]
  /\ pc' = [pc EXCEPT ![c] = "closing_spawn"]
  /\ result' = [result EXCEPT ![c] = why]
  /\ releases(c)
  /\ UNCHANGED <<deferred, worker, drain, killed, stuck>>

\* Cancelled, timed out or refused by the system: _close_spawn hands the spawn,
\* which may have completed meanwhile, and the slot to a cleanup task.
AbandonSpawn(c, why) ==
  /\ pc[c] = "spawning"
  /\ spawn' = [spawn EXCEPT ![c] = IF @ = "pending" THEN "cancelling" ELSE @]
  /\ deferred' = [deferred EXCEPT ![c] = TRUE]
  /\ cleanup' = [cleanup EXCEPT ![c] = "waiting"]
  /\ pc' = [pc EXCEPT ![c] = "closing_spawn"]
  /\ result' = [result EXCEPT ![c] = why]
  /\ UNCHANGED <<permits, slot, worker, drain, killed, stuck>>

-----------------------------------------------------------------------------
(* Killing and draining                                                    *)

\* _close_worker up to its wait.  It succeeds in signalling the child, or finds
\* it gone, or the system refuses.
begins_drain(c) ==
  /\ deferred' = [deferred EXCEPT ![c] = TRUE]
  /\ drain' = [drain EXCEPT ![c] = "running"]

kill_succeeds(c) ==
  /\ killed' = [killed EXCEPT ![c] = worker[c] = "alive"]
  /\ UNCHANGED stuck

kill_fails(c) ==
  /\ worker[c] = "alive"
  /\ stuck' = [stuck EXCEPT ![c] = TRUE]
  /\ UNCHANGED killed

\* The call is over, one way or another, and closes its worker.  A verdict is
\* read only from a child that has exited.
WorkEnds(c, why) ==
  /\ pc[c] = "working"
  /\ why = "verdict" => worker[c] = "exited"
  /\ begins_drain(c)
  /\ \/ /\ kill_succeeds(c)
        /\ pc' = [pc EXCEPT ![c] = "closing_worker"]
        /\ result' = [result EXCEPT ![c] = why]
     \/ /\ kill_fails(c)
        /\ ends(c, "close_failed")
  /\ UNCHANGED <<permits, slot, spawn, worker, cleanup>>

\* _WorkerSlot.release_after.
release_after(c) ==
  IF worker[c] = "exited" THEN releases(c) ELSE UNCHANGED <<slot, permits>>

DrainEnds(c) ==
  /\ drain[c] = "running"
  /\ worker[c] = "exited"
  /\ drain' = [drain EXCEPT ![c] = "ended"]
  /\ UNCHANGED <<permits, slot, deferred, pc, result, spawn, worker, cleanup, killed,
                 stuck>>

\* The drain task fails or is cancelled from outside.
DrainLost(c) ==
  /\ drain[c] = "running"
  /\ drain' = [drain EXCEPT ![c] = "lost"]
  /\ stuck' = [stuck EXCEPT ![c] = TRUE]
  /\ UNCHANGED <<permits, slot, deferred, pc, result, spawn, worker, cleanup, killed>>

\* The loop runs the callback of the drain task one turn after the task is over;
\* a call or a cleanup that wakes at its deadline may run before it.
DrainCallback(c) ==
  /\ drain[c] \in {"ended", "lost"}
  /\ drain' = [drain EXCEPT ![c] = IF @ = "ended" THEN "done" ELSE "failed"]
  /\ release_after(c)
  /\ UNCHANGED <<deferred, pc, result, spawn, worker, cleanup, killed, stuck>>

\* The wait of _close_worker ends with its drain or at its deadline.
CloseWorkerEnds(c) ==
  /\ pc[c] = "closing_worker"
  /\ ends(c, IF drain[c] \in DrainOver THEN result[c] ELSE "close_failed")
  /\ UNCHANGED <<permits, slot, deferred, spawn, worker, cleanup, drain, killed, stuck>>

\* A cancellation during that wait is kept for its end.
CancelledWhileClosing(c) ==
  /\ pc[c] = "closing_worker"
  /\ result' = [result EXCEPT ![c] = "cancelled"]
  /\ UNCHANGED <<permits, slot, deferred, pc, spawn, worker, cleanup, drain, killed, stuck>>

-----------------------------------------------------------------------------
(* _discard_spawn, the cleanup task                                        *)

\* Mutant: the cleanup leaves the slot to the call.
CleanupFindsNoneKeepsSlot(c) ==
  /\ cleanup[c] = "waiting"
  /\ spawn[c] \in SpawnFailed
  /\ cleanup' = [cleanup EXCEPT ![c] = IF spawn[c] = "failed" THEN "failed" ELSE "done"]
  /\ UNCHANGED <<permits, slot, deferred, pc, result, spawn, worker, drain, killed, stuck>>

CleanupFindsNone(c) ==
  /\ cleanup[c] = "waiting"
  /\ spawn[c] \in SpawnFailed
  /\ releases(c)
  /\ cleanup' = [cleanup EXCEPT ![c] = IF spawn[c] = "failed" THEN "failed" ELSE "done"]
  /\ UNCHANGED <<deferred, pc, result, spawn, worker, drain, killed, stuck>>

CleanupFindsChild(c) ==
  /\ cleanup[c] = "waiting"
  /\ spawn[c] = "done"
  /\ begins_drain(c)
  /\ \/ /\ kill_succeeds(c)
        /\ cleanup' = [cleanup EXCEPT ![c] = "closing"]
     \/ /\ kill_fails(c)
        /\ cleanup' = [cleanup EXCEPT ![c] = "failed"]
  /\ UNCHANGED <<permits, slot, pc, result, spawn, worker>>

CleanupEnds(c) ==
  /\ cleanup[c] = "closing"
  /\ cleanup' = [cleanup EXCEPT ![c] = IF drain[c] \in DrainOver THEN "done" ELSE "failed"]
  /\ UNCHANGED <<permits, slot, deferred, pc, result, spawn, worker, drain, killed, stuck>>

\* The wait of _close_spawn ends with the cleanup or at its deadline; a
\* cancellation meanwhile is ignored.
CloseSpawnEnds(c) ==
  /\ pc[c] = "closing_spawn"
  /\ ends_and_releases(c, IF cleanup[c] = "done" THEN result[c] ELSE "close_failed")
  /\ UNCHANGED <<deferred, spawn, worker, cleanup, drain, killed, stuck>>

-----------------------------------------------------------------------------
WorkerStep ==
  \E c \in Requests :
    \/ \E encodes \in BOOLEAN : EvaluateSnapshot(c, encodes)
    \/ SpawnForks(c)
    \/ \E how \in {"done"} \cup SpawnFailed : SpawnEnds(c, how)
    \/ WorkerExits(c)
    \/ Spawned(c)
    \/ SpawnCrashes(c)
    \/ \E why \in {"cancelled", "unavailable"} : AbandonSpawn(c, why)
    \/ \E why \in {"verdict", "cancelled", "unavailable"} : WorkEnds(c, why)
    \/ DrainEnds(c)
    \/ DrainLost(c)
    \/ DrainCallback(c)
    \/ CloseWorkerEnds(c)
    \/ CancelledWhileClosing(c)
    \/ CleanupFindsNone(c)
    \/ CleanupFindsChild(c)
    \/ CleanupEnds(c)
    \/ CloseSpawnEnds(c)

WorkerSpec == WorkerInit /\ [][WorkerStep]_workerVars

\* The loop runs its tasks and timers; a killed child exits, and so does one
\* whose creation asyncio undoes, after which that creation is over.  Nothing is
\* assumed of a child that was not killed.
WorkerFairness ==
  \A c \in Requests :
    /\ WF_workerVars((killed[c] \/ spawn[c] = "cancelling") /\ WorkerExits(c))
    /\ WF_workerVars(spawn[c] = "cancelling" /\ SpawnEnds(c, "cancelled"))
    /\ WF_workerVars(AbandonSpawn(c, "unavailable"))
    /\ WF_workerVars(SpawnCrashes(c))
    /\ WF_workerVars(WorkEnds(c, "unavailable"))
    /\ WF_workerVars(DrainEnds(c))
    /\ WF_workerVars(DrainCallback(c))
    /\ WF_workerVars(CloseWorkerEnds(c))
    /\ WF_workerVars(CleanupFindsNone(c))
    /\ WF_workerVars(CleanupFindsChild(c))
    /\ WF_workerVars(CleanupEnds(c))
    /\ WF_workerVars(CloseSpawnEnds(c))

-----------------------------------------------------------------------------
(* Properties                                                              *)

WorkerTypeOK ==
  /\ permits \in 0 .. 1
  /\ slot \in [Requests -> {"none", "held", "released"}]
  /\ deferred \in [Requests -> BOOLEAN]
  /\ pc \in [Requests -> {"idle", "spawning", "working", "closing_spawn", "closing_worker",
                       "done"}]
  /\ result \in [Requests -> {"none", "busy", "invalid", "crashed", "verdict", "cancelled",
                           "unavailable", "close_failed"}]
  /\ spawn \in [Requests -> {"none", "done"} \cup SpawnPending \cup SpawnFailed]
  /\ worker \in [Requests -> {"none", "alive", "exited"}]
  /\ cleanup \in [Requests -> {"none", "waiting", "closing", "done", "failed"}]
  /\ drain \in [Requests -> {"none", "running", "ended", "lost", "done", "failed"}]
  /\ killed \in [Requests -> BOOLEAN]
  /\ stuck \in [Requests -> BOOLEAN]

(* "One worker is admitted process-wide": however calls are cancelled,     *)
(* time out or fail, during the creation of the child or after it, no two  *)
(* children are alive at a time.                                           *)
OneWorker ==
  \A c, d \in Requests : worker[c] = "alive" /\ worker[d] = "alive" => c = d

(* "Timeout/cancellation kills and drains the worker before its slot is    *)
(* released": whoever gives the slot back, the call, the drain or the      *)
(* cleanup, no child of the call is alive or still to be created.          *)
ReleasedMeansGone ==
  \A c \in Requests : slot[c] = "released" =>
    worker[c] # "alive" /\ spawn[c] \notin SpawnPending

(* A verdict is returned only once its child is drained: the slot is back, *)
(* or the callback that gives it back is already scheduled, so a later     *)
(* call is not refused for a child whose answer was already used.          *)
VerdictFreesSlot ==
  \A c \in Requests : pc[c] = "done" /\ result[c] = "verdict" =>
    slot[c] = "released" \/ (drain[c] = "ended" /\ worker[c] = "exited")

(* A call that took the slot ends, although the child may never answer nor *)
(* exit, and the slot comes back, unless the child could not be killed or  *)
(* its drain was lost.                                                     *)
SlotComesBack ==
  \A c \in Requests :
    slot[c] = "held" ~> pc[c] = "done" /\ (slot[c] = "released" \/ stuck[c])
=============================================================================

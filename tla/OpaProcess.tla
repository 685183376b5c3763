----------------------------- MODULE OpaProcess -----------------------------
(***************************************************************************
 OpaRegoRunner (engine/src/opa.rs): one decision is one `opa eval` child.
 The caller may stage a pinned bundle in a directory of its own, spawns the
 child, feeds it the policy input, waits for its exit or the deadline and
 removes the directory, on every way out.

 The child is external: it may read its input or close it unread, fill its
 output, exit, or do none of these for ever.
 ***************************************************************************)
EXTENDS Integers

CONSTANTS
    EvalTimeout,    \* the evaluation timeout, in polls of the wait loop
    CleanupAttempts \* BUNDLE_CLEANUP_ATTEMPTS

ASSUME OpaAssumption == EvalTimeout \in Nat /\ CleanupAttempts \in Nat \ {0}

VARIABLES
    opa,        \* the caller: where it is, its result, polls waited, removals tried
    child,      \* the process: life, input and output
    directory   \* the staged bundle's directory

opaVars == <<opa, child, directory>>

\* What opa printed, as parse_opa_eval_output tells it apart.
Printed == {"not_json", "errors", "no_result", "many_results", "no_value", "many_values", "verdict"}

OpaInit(large) ==
    /\ opa = [at |-> "unused", remote |-> FALSE, large |-> large,
              waited |-> 0, tries |-> 0, result |-> "none"]
    /\ child = [life |-> "none", stdin |-> "open", stdout |-> "room", status |-> 0,
                printed |-> "verdict"]
    /\ directory = "none"

Goes(to, result) == opa' = [opa EXCEPT !.at = to, !.result = result]
Moves(to) == opa' = [opa EXCEPT !.at = to]

\* A decision is asked for, with a bundle to fetch or not.
Invoked(remote) == opa' = [opa EXCEPT !.at = "start", !.remote = remote]

\* run_opa_eval up to the spawn: the pinned bundle is fetched and checked first.
FetchBundle ==
    /\ opa.at = "start"
    /\ IF opa.remote THEN Moves("stage") \/ Goes("done", "failed") ELSE Moves("spawn")
    /\ UNCHANGED <<child, directory>>

\* StagedBundle::new; dropping a bundle that could not be written removes it.
Stage ==
    /\ opa.at = "stage" /\ UNCHANGED child
    /\ \/ directory' = "staged" /\ Moves("spawn")
       \/ directory' = "partial" /\ Goes("cleanup", "failed")
       \/ Goes("done", "failed") /\ UNCHANGED directory

Spawn ==
    /\ opa.at = "spawn" /\ UNCHANGED directory
    /\ \/ child' = [child EXCEPT !.life = "running"] /\ Moves("feed")
       \/ Goes("cleanup", "failed") /\ UNCHANGED child

\* write_all returns once the pipe has taken the input, and fails when the
\* reading end is closed.
Feed ==
    /\ opa.at = "feed"
    /\ \/ /\ child.stdin = "read" \/ (~opa.large /\ child.stdin = "open")
          /\ Moves("poll")
       \/ child.stdin = "closed" /\ Goes("reap", "failed")
    /\ UNCHANGED <<child, directory>>

\* Mutant: the input could not be written, so the call is over.
ReapUnlessFailed ==
    /\ opa.at = "reap" /\ opa.result = "failed"
    /\ Moves("cleanup")
    /\ UNCHANGED <<child, directory>>

\* child.wait(): no deadline of its own.
Reap ==
    /\ opa.at = "reap" /\ child.life = "exited"
    /\ child' = [child EXCEPT !.life = "reaped"]
    /\ Moves("cleanup")
    /\ UNCHANGED directory

\* try_wait of wait_for_exit_or_timeout; the readers drain the output meanwhile.
Poll ==
    /\ opa.at = "poll" /\ UNCHANGED directory
    /\ IF child.life = "exited"
       THEN child' = [child EXCEPT !.life = "reaped"] /\ Goes("cleanup", "collected")
       ELSE Moves("deadline") /\ UNCHANGED child

\* Mutant: the deadline counts from the last poll.
OnDeadlineRestarted ==
    /\ opa.at = "deadline"
    /\ IF EvalTimeout = 0 THEN Goes("kill", "failed") ELSE Moves("poll")
    /\ UNCHANGED <<child, directory>>

OnDeadline ==
    /\ opa.at = "deadline"
    /\ IF opa.waited >= EvalTimeout THEN Goes("kill", "failed")
       ELSE opa' = [opa EXCEPT !.at = "poll", !.waited = @ + 1]
    /\ UNCHANGED <<child, directory>>

\* kill and wait; a child that exited in between is only reaped.
Kill ==
    /\ opa.at = "kill"
    /\ child' = [child EXCEPT !.life = "reaped"]
    /\ Moves("cleanup")
    /\ UNCHANGED directory

\* cleanup_bundle_directory: a few tries, then the directory is the host's.
AfterCleanup == IF opa.result = "collected" THEN "parse" ELSE "done"
Cleanup ==
    /\ opa.at = "cleanup" /\ UNCHANGED child
    /\ \/ directory = "none" /\ Moves(AfterCleanup) /\ UNCHANGED directory
       \/ directory # "none" /\ directory' = "none" /\ Moves(AfterCleanup)
       \/ /\ directory # "none" /\ UNCHANGED directory
          /\ opa' = [opa EXCEPT !.tries = @ + 1,
                        !.at = IF opa.tries + 1 = CleanupAttempts THEN AfterCleanup ELSE @]

\* evaluate: a failed process, or anything but one value, is no verdict.
parse_opa_eval_output ==
    /\ opa.at = "parse"
    /\ Goes("done", IF child.status = 0 /\ child.printed = "verdict" THEN "verdict" ELSE "failed")
    /\ UNCHANGED <<child, directory>>

CallerStep ==
    \/ FetchBundle \/ Stage \/ Spawn \/ Feed \/ Reap \/ Poll \/ OnDeadline \/ Kill
    \/ Cleanup \/ parse_opa_eval_output

-----------------------------------------------------------------------------
\* The readers start after the input is written.
Drained == opa.at \notin {"feed", "reap"}

ChildReads ==
    /\ child.life = "running" /\ child.stdin = "open"
    /\ child' = [child EXCEPT !.stdin = "read"]
    /\ UNCHANGED <<opa, directory>>
ChildCloses ==
    /\ child.life = "running" /\ child.stdin = "open"
    /\ child' = [child EXCEPT !.stdin = "closed"]
    /\ UNCHANGED <<opa, directory>>
ChildFills ==
    /\ child.life = "running" /\ child.stdout = "room" /\ ~Drained
    /\ child' = [child EXCEPT !.stdout = "full"]
    /\ UNCHANGED <<opa, directory>>
ChildExits ==
    /\ child.life = "running" /\ (child.stdout = "room" \/ Drained)
    /\ \E status \in {0, 1}, printed \in Printed :
          child' = [child EXCEPT !.life = "exited", !.status = status, !.printed = printed,
                                 !.stdin = IF @ = "open" THEN "closed" ELSE @]
    /\ UNCHANGED <<opa, directory>>

ChildStep == ChildReads \/ ChildCloses \/ ChildFills \/ ChildExits

\* One decision by itself; PolicyBackends says which policies come to it.
OpaStep ==
    \/ /\ opa.at = "unused" /\ UNCHANGED <<child, directory>>
       /\ \E remote \in BOOLEAN : Invoked(remote)
    \/ CallerStep
    \/ ChildStep
OpaSpec == (\E large \in BOOLEAN : OpaInit(large)) /\ [][OpaStep]_opaVars

-----------------------------------------------------------------------------
\* The bundle is there as long as the child that was given it, and a call that
\* returned left no child behind, and no directory unless every attempt to
\* remove it failed (opa.rs, StagedBundle and run_opa_eval).
BundleOutlivesChild ==
    /\ child.life = "running" /\ opa.remote => directory = "staged"
    /\ opa.at = "done" =>
         /\ child.life \in {"none", "reaped"}
         /\ directory # "none" => opa.tries = CleanupAttempts

\* Once its child has been fed, a decision ends by its deadline whatever the
\* child does (opa.rs, wait_for_exit_or_timeout).
FedCallEnds == (opa.at = "poll") ~> (opa.at = "done")
=============================================================================

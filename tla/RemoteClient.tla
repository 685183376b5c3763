---------------------------- MODULE RemoteClient ----------------------------
(***************************************************************************
 sdk/remote-policy/python/.../client.py and the credential registry of
 auth.py: one lifetime of a RemotePolicyClient on one event loop.

 The user enters RemotePolicyClient.open, which starts a task (own) that
 enters the credential provider, builds the source and the poller, starts the
 poller, hands a client to the user and, once told to, takes everything down
 in the reverse order.  The provider lives in a task of its own (cred).
 Evaluations run meanwhile.  Whatever is awaited may fail, ignore its
 cancellation or never end; the waits of the teardown have deadlines, so a
 wait for something that is not done may end at any time.

 An action is what a task runs between two awaits.  A task that is cancelled
 learns of it when it is resumed (cancel).  The loop resumes tasks in the order
 they became ready, so a new task has made its first step before any task that
 waits for it can react: the first steps of own and cred belong to their
 creation.  Of the poller (PolicyPoller) and of the evaluation worker
 (WorkerSlot) only what the client can see of them happens here, at any time;
 the source and the provider are the host's.
 ***************************************************************************)
EXTENDS Integers

CONSTANTS
    Callers,        \* tasks that evaluate, each once
    NoCaller,
    MAX_ACTIVE,     \* source calls _OwnedSource admits at once
    MaxPolicies     \* bound: snapshots the poller installs

ASSUME ClientAssumption ==
    /\ NoCaller \notin Callers
    /\ MAX_ACTIVE \in Nat \ {0} /\ MaxPolicies \in Nat \ {0}

VARIABLES
    user,           \* the task inside open, with the exception it carries out
    own,            \* the owner task, with the exception under way
    ready, told,    \* the futures ready and closed of open
    release,        \* the event release of open
    registry,       \* _active, _failed, and whether the configuration names a provider
    cred,           \* the registry's _own: its task, release event and future ready
    source,         \* _OwnedSource: _active and the task _closing
    poller, policy, \* the poller, and the snapshot it would hand out (0: none)
    installed,      \* snapshots installed so far; a snapshot is its number
    client,         \* RemotePolicyClient: _closed, _evaluation, _cleanup_failed
    job             \* evaluate_completion of each caller, and the work it awaits

openVars == <<user, own, ready, told, release>>
credVars == <<registry, cred>>
pollVars == <<source, poller, policy, installed>>
jobVars == <<client, job>>
clientVars == <<openVars, credVars, pollVars, jobVars>>

NoCred == [pc |-> "none", cancel |-> FALSE, release |-> FALSE, offer |-> "pending"]
NoJob == [pc |-> "idle", cancel |-> FALSE, stop |-> FALSE, snapshot |-> 0, outcome |-> "none"]

\* An earlier lifetime may have left the registry failed, or still use it.
ClientInit ==
    /\ user = [pc |-> "outside", primary |-> "none", cancel |-> FALSE, later |-> FALSE, result |-> "none"]
    /\ own = [pc |-> "none", error |-> "none", cancel |-> FALSE, later |-> FALSE]
    /\ ready = "pending" /\ told = "pending" /\ release = FALSE
    /\ registry \in {r \in [active : BOOLEAN, failed : BOOLEAN, named : BOOLEAN] : ~(r.active /\ r.failed)}
    /\ cred = NoCred
    /\ source = [active |-> 0, closing |-> "absent"]
    /\ poller = "none" /\ policy = 0 /\ installed = 0
    /\ client = [state |-> "none", evaluation |-> NoCaller, cleanup_failed |-> FALSE]
    /\ job = [c \in Callers |-> NoJob]

Ended == {"done", "cancelled", "failed"}
Closed == {"closed", "close_failed"}
SourceClosed == source.closing \in {"absent"} \cup Closed

-----------------------------------------------------------------------------
(* The end of own: its exit stack, and the futures of open.                 *)
settles(e) ==
    /\ ready' = IF ready = "pending" THEN "error" ELSE ready
    /\ told' = IF told # "pending" THEN told ELSE IF e \in {"none", "cancelled"} THEN "ok" ELSE "error"

own_at(pc, e) == own' = [own EXCEPT !.pc = pc, !.error = e, !.cancel = FALSE, !.later = FALSE]

\* The registry's context is left with e; abandon: the provider is cancelled too.
exits(e, abandon) ==
    IF cred.pc = "none"
    THEN /\ own_at("done", e) /\ settles(e)
         /\ registry' = [registry EXCEPT !.active = FALSE]
         /\ UNCHANGED cred
    ELSE /\ own_at("exit_half", e)
         /\ cred' = [cred EXCEPT !.release = TRUE, !.cancel = @ \/ abandon]
         /\ UNCHANGED <<registry, ready, told>>

\* _OwnedSource.aclose makes its one close task.
closes_source == [source EXCEPT !.closing = IF @ = "open" THEN "closing" ELSE @]

-----------------------------------------------------------------------------
(* Startup.                                                                 *)
\* What own does once it has its credentials: make_source or make_poller may
\* raise, and a poller with another configuration is refused.
Builds == {"no_source", "no_poller", "mismatch", "built"}
build(b) ==
    /\ b # "no_source" => registry' = [registry EXCEPT !.active = TRUE]
    /\ CASE b = "no_source" ->
              exits("error", FALSE) /\ UNCHANGED <<source, poller>>
         [] b = "no_poller" ->
              /\ own_at("close_source", "error") /\ source' = [source EXCEPT !.closing = "closing"]
              /\ UNCHANGED <<cred, ready, told, poller>>
         [] b = "mismatch" ->
              /\ own_at("close_poller", "error") /\ source' = [source EXCEPT !.closing = "open"]
              /\ poller' = "closing"
              /\ UNCHANGED <<cred, ready, told>>
         [] b = "built" ->
              /\ own_at("starting", "none") /\ source' = [source EXCEPT !.closing = "open"]
              /\ poller' = "starting"
              /\ UNCHANGED <<cred, ready, told>>

\* open, and the first steps of own, of CredentialProviderRegistry.open and of
\* the provider's task.  The registry refuses a second use, any use after it
\* failed, and a provider the host did not register.
Open(b) ==
    /\ user.pc = "outside"
    /\ user' = [user EXCEPT !.pc = "entering"]
    /\ \/ /\ registry.active \/ registry.failed \/ registry.named
          /\ own_at("done", "error") /\ settles("error")
          /\ UNCHANGED <<credVars, source, poller>>
       \/ /\ ~registry.active /\ ~registry.failed /\ registry.named
          /\ own_at("credentials", "none")
          /\ registry' = [registry EXCEPT !.active = TRUE]
          /\ cred' = [cred EXCEPT !.pc = "entering"]
          /\ UNCHANGED <<ready, told, source, poller>>
       \/ /\ ~registry.active /\ ~registry.failed /\ ~registry.named
          /\ build(b)
    /\ UNCHANGED <<release, policy, installed, jobVars>>

\* The wait for the provider ends: entered, failed, at its timeout, or cancelled.
\* The timeout may still fire when the provider has answered and own has not
\* resumed.
OwnCredentials(b) ==
    /\ own.pc = "credentials"
    /\ \/ /\ ~own.cancel /\ cred.offer = "credential"
          /\ build(b)
       \/ /\ ~own.cancel /\ cred.offer = "error"
          /\ exits("error", FALSE) /\ UNCHANGED <<source, poller>>
       \/ /\ ~own.cancel
          /\ exits("error", TRUE) /\ UNCHANGED <<source, poller>>
       \/ /\ own.cancel
          /\ exits("cancelled", TRUE) /\ UNCHANGED <<source, poller>>
    /\ UNCHANGED <<user, release, policy, installed, jobVars>>

\* poller.start returns, raises, or is cancelled; a poller that is cancelled
\* while it starts closes itself first.
OwnStarting ==
    /\ own.pc = "starting"
    /\ \/ /\ ~own.cancel /\ poller = "starting" /\ own.error = "none"
          /\ own_at("serving", "none") /\ ready' = "client"
          /\ poller' = "running" /\ policy' = 1 /\ installed' = 1
          /\ client' = [client EXCEPT !.state = "open"]
       \/ /\ own.cancel /\ poller = "starting"
          /\ own_at("starting", "cancelled") /\ poller' = "failing"
          /\ UNCHANGED <<ready, policy, installed, client>>
       \/ /\ poller = "failing"
          /\ own_at("close_poller", IF own.cancel \/ own.error = "cancelled" THEN "cancelled" ELSE "error")
          /\ poller' = "closing"
          /\ UNCHANGED <<ready, policy, installed, client>>
    /\ UNCHANGED <<user, told, release, credVars, source, job>>

-----------------------------------------------------------------------------
(* Teardown.  An exception raised on the way replaces the one under way.    *)
Raised(e) == IF e = "none" THEN own.error ELSE e

Working(c) == c # NoCaller /\ job[c].pc = "evaluating"

\* release is set; _close_evaluation cancels the evaluation.
OwnServing ==
    /\ own.pc = "serving" /\ release
    /\ own_at("close_evaluation", "none")
    /\ client' = [client EXCEPT !.state = "closed"]
    /\ job' = [c \in Callers |-> IF c = client.evaluation /\ Working(c) THEN [job[c] EXCEPT !.stop = TRUE]
                                 ELSE job[c]]
    /\ UNCHANGED <<user, ready, told, release, credVars, pollVars>>

\* It waits for the evaluation to end, which resumes its job first, or for its
\* deadline; then _close_poller.
OwnClosesEvaluation ==
    /\ own.pc = "close_evaluation" /\ \A c \in Callers : job[c].pc # "evaluated"
    /\ own_at("close_poller", IF Working(client.evaluation) \/ client.cleanup_failed THEN "close_error"
                              ELSE "none")
    /\ poller' = "closing" /\ policy' = 0
    /\ UNCHANGED <<user, ready, told, release, credVars, source, installed, jobVars>>

\* _close_poller ends, with the poller or at its deadline; then source.aclose.
OwnClosesPoller ==
    /\ own.pc = "close_poller" /\ ~own.cancel
    /\ own_at("close_source", Raised(IF poller # "closed" THEN "close_error"
                                     ELSE IF own.later THEN "cancelled" ELSE "none"))
    /\ source' = closes_source
    /\ UNCHANGED <<user, ready, told, release, credVars, poller, policy, installed, jobVars>>

\* Mutant: the owner does not stay with a source that did not close in time.
OwnClosesSourceHastily ==
    /\ own.pc = "close_source"
    /\ IF own.cancel THEN exits("cancelled", FALSE)
       ELSE IF source.closing = "closed" THEN exits(own.error, FALSE) ELSE exits("close_error", FALSE)
    /\ UNCHANGED <<user, release, pollVars, jobVars>>
\* source.aclose ends.  A source that failed or is late is reported at once and
\* waited for; a cancellation just leaves.
OwnClosesSource ==
    /\ own.pc = "close_source"
    /\ \/ own.cancel /\ exits("cancelled", FALSE)
       \/ ~own.cancel /\ source.closing = "closed" /\ exits(own.error, FALSE)
       \/ /\ ~own.cancel /\ source.closing # "closed"
          /\ own_at("wait_source", "close_error") /\ settles("close_error")
          /\ UNCHANGED credVars
    /\ UNCHANGED <<user, release, pollVars, jobVars>>

\* wait_closed has no deadline.
OwnWaitsSource ==
    /\ own.pc = "wait_source" /\ SourceClosed
    /\ exits("close_error", FALSE)
    /\ UNCHANGED <<user, release, pollVars, jobVars>>

\* A wait that outlasts cancellation remembers it.
OwnAbsorbs ==
    /\ own.cancel /\ own.pc \in {"close_poller", "exit_half", "exit_rest"}
    /\ own' = [own EXCEPT !.cancel = FALSE, !.later = TRUE]
    /\ UNCHANGED <<user, ready, told, release, credVars, pollVars, jobVars>>

\* The registry's _close: half of the timeout, a cancellation, the other half.
OwnInterrupts ==
    /\ own.pc = "exit_half" /\ ~own.cancel /\ cred.pc \notin Ended
    /\ own' = [own EXCEPT !.pc = "exit_rest"]
    /\ cred' = [cred EXCEPT !.cancel = TRUE]
    /\ UNCHANGED <<user, ready, told, release, registry, pollVars, jobVars>>

cleanup_failed ==
    \/ cred.pc \notin Ended \/ cred.pc = "failed"
    \/ cred.pc = "cancelled" /\ own.pc = "exit_rest"

\* _close ends, and with it the context and own.
OwnExits ==
    /\ ~own.cancel
    /\ own.pc = "exit_rest" \/ (own.pc = "exit_half" /\ cred.pc \in Ended)
    /\ LET e == CASE cleanup_failed /\ own.error # "none" -> own.error
                  [] cleanup_failed /\ own.error = "none" ->
                       IF own.later THEN "cancelled" ELSE "close_error"
                  [] ~cleanup_failed -> IF own.later THEN "cancelled" ELSE own.error
       IN  own_at("done", e) /\ settles(e)
    /\ registry' = [registry EXCEPT !.active = FALSE, !.failed = @ \/ cleanup_failed]
    /\ cred' = [cred EXCEPT !.offer = IF @ = "pending" THEN "cancelled" ELSE @]
    /\ UNCHANGED <<user, release, pollVars, jobVars>>

OwnStep ==
    \/ \E b \in Builds : OwnCredentials(b)
    \/ OwnStarting \/ OwnServing \/ OwnClosesEvaluation \/ OwnClosesPoller \/ OwnClosesSource
    \/ OwnWaitsSource \/ OwnAbsorbs \/ OwnInterrupts \/ OwnExits

-----------------------------------------------------------------------------
(* The provider's task.                                                     *)
\* The provider's context is entered, fails, or ends for its cancellation,
\* which it may also ignore.  An entry that nobody waits for any more exits.
CredEnters(outcome) ==
    /\ cred.pc = "entering"
    /\ \/ /\ outcome = "done"
          /\ cred' = IF cred.offer = "pending" THEN [cred EXCEPT !.pc = "open", !.offer = "credential"]
                     ELSE [cred EXCEPT !.pc = "exiting"]
       \/ /\ outcome = "failed"
          /\ cred' = IF cred.offer # "pending" \/ cred.cancel THEN [cred EXCEPT !.pc = "failed", !.cancel = FALSE]
                     ELSE [cred EXCEPT !.pc = "done", !.offer = "error"]
       \/ /\ outcome = "cancelled" /\ cred.cancel
          /\ cred' = [cred EXCEPT !.pc = "cancelled", !.cancel = FALSE, !.offer = IF @ = "pending" THEN "cancelled" ELSE @]
    /\ UNCHANGED <<openVars, registry, pollVars, jobVars>>

CredReleased ==
    /\ cred.pc = "open" /\ (cred.release \/ cred.cancel)
    /\ cred' = [cred EXCEPT !.pc = "exiting"]
    /\ UNCHANGED <<openVars, registry, pollVars, jobVars>>

CredExits(outcome) ==
    /\ cred.pc = "exiting"
    /\ outcome = "cancelled" => cred.cancel
    /\ cred' = [cred EXCEPT !.pc = outcome, !.cancel = FALSE]
    /\ UNCHANGED <<openVars, registry, pollVars, jobVars>>

-----------------------------------------------------------------------------
(* The source and the poller.                                               *)
FetchBegins ==
    /\ poller \in {"starting", "running"}
    /\ source.closing = "open" /\ source.active < MAX_ACTIVE
    /\ source' = [source EXCEPT !.active = @ + 1]
    /\ UNCHANGED <<openVars, credVars, poller, policy, installed, jobVars>>

FetchEnds ==
    /\ source.active > 0
    /\ source' = [source EXCEPT !.active = @ - 1]
    /\ UNCHANGED <<openVars, credVars, poller, policy, installed, jobVars>>

\* source.aclose ends, and _close waits for the calls that are still out.
SourceCloses(outcome) ==
    /\ source.closing = "closing"
    /\ source' = [source EXCEPT !.closing = IF outcome = "closed" THEN "draining" ELSE "drain_failed"]
    /\ UNCHANGED <<openVars, credVars, poller, policy, installed, jobVars>>

SourceDrained ==
    /\ source.closing \in {"draining", "drain_failed"} /\ source.active = 0
    /\ source' = [source EXCEPT !.closing = IF @ = "draining" THEN "closed" ELSE "close_failed"]
    /\ UNCHANGED <<openVars, credVars, poller, policy, installed, jobVars>>

\* A first download fails; the poller closes itself, and with it the source.
PollerFails ==
    /\ poller = "starting" /\ poller' = "failing"
    /\ UNCHANGED <<openVars, credVars, source, policy, installed, jobVars>>

PollerClosesSource ==
    /\ poller \in {"failing", "closing"} /\ source.closing = "open"
    /\ source' = closes_source
    /\ UNCHANGED <<openVars, credVars, poller, policy, installed, jobVars>>

PollerCloses(outcome) ==
    /\ poller = "closing" /\ poller' = outcome
    /\ UNCHANGED <<openVars, credVars, source, policy, installed, jobVars>>

\* A policy is installed, withdrawn or lapses.
PolicyChanges(p) ==
    /\ poller = "running" /\ p # policy
    /\ p \in {0} \cup (IF installed < MaxPolicies THEN {installed + 1} ELSE {})
    /\ policy' = p /\ installed' = IF p = 0 THEN installed ELSE p
    /\ UNCHANGED <<openVars, credVars, source, poller, jobVars>>

-----------------------------------------------------------------------------
(* The user.                                                                *)
user_leaves(primary) ==
    /\ user' = [user EXCEPT !.pc = "leaving", !.primary = primary, !.cancel = FALSE]
    /\ release' = TRUE
    /\ own' = [own EXCEPT !.cancel = ready = "pending"]
    /\ UNCHANGED <<ready, told, credVars, pollVars, jobVars>>

UserEnters ==
    /\ user.pc = "entering"
    /\ \/ /\ ~user.cancel /\ ready = "client"
          /\ user' = [user EXCEPT !.pc = "inside"]
          /\ UNCHANGED <<own, ready, told, release, credVars, pollVars, jobVars>>
       \/ ~user.cancel /\ ready = "error" /\ user_leaves("error")
       \/ user.cancel /\ user_leaves("cancelled")

\* The body of the context ends.
UserExits == user.pc = "inside" /\ user_leaves(IF user.cancel THEN "cancelled" ELSE "none")

\* The wait for closed remembers a cancellation; one is enough to know (bound).
UserCancelled ==
    /\ user.pc \in {"entering", "inside", "leaving"} /\ ~user.cancel /\ ~user.later
    /\ user' = [user EXCEPT !.cancel = user.pc # "leaving", !.later = user.pc = "leaving"]
    /\ UNCHANGED <<own, ready, told, release, credVars, pollVars, jobVars>>

\* open returns once own has closed, or said that it could not in time.
left_with ==
    CASE user.primary # "none" -> IF user.later THEN "cancelled" ELSE user.primary
      [] user.primary = "none" ->
           IF told = "error" THEN "close_error" ELSE IF user.later THEN "cancelled" ELSE "none"
UserLeaves ==
    /\ user.pc = "leaving" /\ told # "pending"
    /\ user' = [user EXCEPT !.pc = "left", !.result = left_with, !.primary = "none", !.later = FALSE]
    /\ UNCHANGED <<own, ready, told, release, credVars, pollVars, jobVars>>

-----------------------------------------------------------------------------
(* evaluate_completion, in a task of its own or of its caller.              *)
Usable == client.state = "open" /\ poller = "running" /\ policy # 0
Current(snapshot) == Usable /\ policy = snapshot

\* A job that has ended; only an answer is bound to its snapshot.
Finished(outcome, snapshot) ==
    [NoJob EXCEPT !.pc = "done", !.outcome = outcome,
                  !.snapshot = IF outcome \in {"verdict", "denied"} THEN snapshot ELSE 0]

\* Up to its await: the host's context is read and its agent known, or not; a
\* policy is there; one evaluation at a time.  A caller over capacity gets a deny
\* bound to the current snapshot from the managed evaluator, an error from the
\* client.
begun(c, context_ok, busy) ==
    CASE job[c].cancel -> Finished("cancelled", 0)
      [] ~job[c].cancel /\ (~context_ok \/ ~Usable) -> Finished("error", 0)
      [] OTHER -> IF Working(client.evaluation) THEN Finished(busy, policy)
                  ELSE [job[c] EXCEPT !.pc = "evaluating", !.snapshot = policy]

\* evaluate_policy_snapshot ends, with a verdict unless it was cancelled, and
\* _evaluation_finished runs.
WorkEnds(c, outcome) ==
    /\ job[c].pc = "evaluating"
    /\ outcome \in (IF job[c].stop THEN {"cancelled", "close_error"} ELSE {"verdict", "error", "close_error"})
    /\ job' = [job EXCEPT ![c].pc = "evaluated", ![c].outcome = outcome, ![c].stop = FALSE]
    /\ client' = [client EXCEPT !.cleanup_failed = @ \/ outcome = "close_error"]
    /\ UNCHANGED <<openVars, credVars, pollVars>>

\* After its await: the snapshot must still be current.
resumed(c) ==
    Finished(IF job[c].cancel THEN "cancelled"
              ELSE IF job[c].outcome = "verdict" /\ ~Current(job[c].snapshot) THEN "error"
              ELSE job[c].outcome, job[c].snapshot)

\* The evaluation the client knows of, when the job of c becomes j.
evaluation_after(c, j) ==
    IF j.pc = "evaluating" THEN c
    ELSE IF client.evaluation = c /\ job[c].pc = "evaluated" THEN NoCaller ELSE client.evaluation

\* task.cancel() of a job: what it awaits is cancelled, or else it is when it resumes.
Cancelled(j) ==
    CASE j.pc = "evaluating" -> [j EXCEPT !.stop = TRUE]
      [] j.pc \in {"created", "evaluated"} -> [j EXCEPT !.cancel = TRUE]
      [] OTHER -> j

-----------------------------------------------------------------------------
(* Steps of which nothing is promised.                                      *)
External ==
    \/ \E o \in {"done", "failed", "cancelled"} : CredEnters(o) \/ CredExits(o)
    \/ CredReleased \/ FetchBegins \/ FetchEnds \/ SourceDrained \/ PollerFails \/ PollerClosesSource
    \/ \E o \in Closed : SourceCloses(o) \/ PollerCloses(o)
    \/ \E p \in 0 .. MaxPolicies : PolicyChanges(p)
    \/ \E c \in Callers, o \in {"verdict", "error", "close_error", "cancelled"} : WorkEnds(c, o)
=============================================================================

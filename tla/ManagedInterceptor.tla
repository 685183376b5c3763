------------------------- MODULE ManagedInterceptor -------------------------
(***************************************************************************
 The managed mode of AsyncAcsInterceptor (sdk/python/.../async_interceptor.py)
 over ManagedRuntime (loading.py) over RemoteClient: entering starts a task that
 is the user of RemotePolicyClient.open, an interception runs a task that is a
 job of the client, closing cancels the interception under way and then ends
 the user's body.  In direct mode a host uses RemotePolicyClient itself.
 ***************************************************************************)
EXTENDS RemoteClient

VARIABLES
    mode,           \* "managed" or "direct"
    enter,          \* the host's task in __aenter__
    acs,            \* _closed, _backend, _start_failed, _backend_work
    drain,          \* _close_task
    retained,       \* the work whose end is to close the runtime
    runtime,        \* ManagedRuntime: _closing, _ready, _release
    caller          \* the tasks that intercept

managedVars == <<mode, enter, acs, drain, retained, runtime, caller>>
vars == <<clientVars, managedVars>>

Init ==
    /\ ClientInit
    /\ mode \in {"managed", "direct"}
    /\ enter = [pc |-> "outside", cancel |-> FALSE]
    /\ acs = [closed |-> FALSE, backend |-> FALSE, start_failed |-> FALSE, work |-> NoCaller]
    /\ drain = "none" /\ retained = NoCaller
    /\ runtime = [closing |-> FALSE, ready |-> "none", release |-> FALSE]
    /\ caller = [c \in Callers |-> [pc |-> "idle", cancelling |-> FALSE, must |-> FALSE]]

Managed == mode = "managed"
Running(c) == c # NoCaller /\ job[c].pc \in {"created", "evaluating", "evaluated"}

-----------------------------------------------------------------------------
(* ManagedRuntime.                                                          *)
\* Mutant: a runtime that is ready is cancelled like one that is not.
request_close_cancels ==
    IF runtime.closing THEN UNCHANGED <<runtime, user>>
    ELSE /\ runtime' = [runtime EXCEPT !.closing = TRUE]
         /\ user' = [user EXCEPT !.cancel = user.pc = "entering"]
\* request_close: the user is cancelled while it enters, told to leave after.
request_close ==
    IF runtime.closing THEN UNCHANGED <<runtime, user>>
    ELSE /\ runtime' = [runtime EXCEPT !.closing = TRUE, !.release = runtime.ready \notin {"none", "pending"}]
         /\ user' = IF runtime.ready # "pending" THEN user
                    ELSE IF user.pc = "entering" THEN [user EXCEPT !.cancel = TRUE]
                    ELSE IF user.pc = "leaving" THEN [user EXCEPT !.later = TRUE] ELSE user

\* The user's body and end, as the task _own.
RuntimeReady ==
    /\ Managed /\ UserEnters
    /\ runtime' = [runtime EXCEPT !.ready = IF user'.pc = "inside" THEN "backend" ELSE @]
    /\ UNCHANGED <<mode, enter, acs, drain, retained, caller>>
RuntimeReleased == Managed /\ runtime.release /\ UserExits /\ UNCHANGED managedVars
RuntimeEnds ==
    /\ Managed /\ UserLeaves
    /\ runtime' = [runtime EXCEPT !.ready = IF @ # "pending" THEN @
                                            ELSE IF left_with = "cancelled" THEN "cancelled" ELSE "error"]
    /\ UNCHANGED <<mode, enter, acs, drain, retained, caller>>

-----------------------------------------------------------------------------
(* Entering.                                                                *)
Aenter(b) ==
    /\ Managed /\ enter.pc = "outside" /\ ~acs.closed
    /\ enter' = [enter EXCEPT !.pc = "starting"]
    /\ runtime' = [runtime EXCEPT !.ready = "pending"]
    /\ Open(b)
    /\ UNCHANGED <<mode, acs, drain, retained, caller>>

\* aclose makes a close task; one that failed is replaced unless an evaluation is
\* still out.
closable == drain = "none" \/ (drain = "error" /\ ~Running(acs.work))

enter_fails(error) ==
    /\ enter' = [enter EXCEPT !.pc = "failing", !.cancel = FALSE]
    /\ drain' = IF closable THEN "created" ELSE drain
    /\ acs' = [acs EXCEPT !.closed = @ \/ closable, !.start_failed = ~acs.closed /\ error # "cancelled"]

\* start returns, raises, times out or is cancelled.
EnterResumes ==
    /\ enter.pc = "starting"
    /\ \/ /\ ~enter.cancel /\ runtime.ready = "backend" /\ ~acs.closed
          /\ enter' = [enter EXCEPT !.pc = "entered"]
          /\ acs' = [acs EXCEPT !.backend = TRUE]
          /\ UNCHANGED drain
       \/ ~enter.cancel /\ runtime.ready = "backend" /\ acs.closed /\ enter_fails("error")
       \/ /\ ~enter.cancel /\ runtime.ready \in {"pending", "error", "cancelled"}
          /\ enter_fails(IF runtime.ready = "cancelled" /\ ~runtime.closing THEN "cancelled" ELSE "error")
       \/ enter.cancel /\ enter_fails("cancelled")
    /\ UNCHANGED <<clientVars, mode, retained, runtime, caller>>

\* finish_owned: whatever its cancellation, __aenter__ stays for the close.
EnterFails ==
    /\ enter.pc = "failing" /\ drain \in {"ok", "error"}
    /\ enter' = [enter EXCEPT !.pc = "failed"]
    /\ UNCHANGED <<clientVars, mode, acs, drain, retained, runtime, caller>>

EnterCancelled ==
    /\ enter.pc = "starting" /\ ~enter.cancel
    /\ enter' = [enter EXCEPT !.cancel = TRUE]
    /\ UNCHANGED <<clientVars, mode, acs, drain, retained, runtime, caller>>

-----------------------------------------------------------------------------
(* Closing.                                                                 *)
\* The end of a close resumes __aenter__ before it can be tried again.
Aclose ==
    /\ Managed /\ closable /\ (drain = "error" => enter.pc # "failing")
    /\ drain' = "created" /\ acs' = [acs EXCEPT !.closed = TRUE]
    /\ UNCHANGED <<clientVars, mode, enter, retained, runtime, caller>>

\* _drain: the evaluation is cancelled and waited for, then the runtime closes.
DrainStarts ==
    /\ drain = "created"
    /\ IF acs.work # NoCaller
       THEN /\ drain' = "draining"
            /\ job' = [job EXCEPT ![acs.work] = Cancelled(@)]
            /\ UNCHANGED <<runtime, user>>
       ELSE drain' = "closing" /\ request_close /\ UNCHANGED job
    /\ UNCHANGED <<own, ready, told, release, credVars, pollVars, client,
                   mode, enter, acs, retained, caller>>

\* Work that ends resumes its interception before anyone who began to wait later.
Resumed == \A c \in Callers : caller[c].pc = "waiting" => Running(c)

\* Mutant: the runtime is closed under an evaluation that does not end.
DrainEndsAnyway ==
    /\ drain = "draining" /\ Resumed
    /\ drain' = "closing" /\ request_close
    /\ UNCHANGED <<own, ready, told, release, credVars, pollVars, jobVars,
                   mode, enter, acs, retained, caller>>
DrainEnds ==
    /\ drain = "draining" /\ Resumed
    /\ IF \A c \in Callers : ~Running(c)
       THEN drain' = "closing" /\ request_close /\ UNCHANGED retained
       ELSE drain' = "error" /\ retained' = acs.work /\ UNCHANGED <<runtime, user>>
    /\ UNCHANGED <<own, ready, told, release, credVars, pollVars, jobVars, mode, enter, acs, caller>>

\* ManagedRuntime.aclose: the owner is gone, or its deadline has come.
CloseEnds ==
    /\ drain = "closing"
    /\ drain' = IF runtime.ready = "none" \/ (user.pc = "left" /\ user.result \in {"none", "cancelled"})
                THEN "ok" ELSE "error"
    /\ UNCHANGED <<clientVars, mode, enter, acs, retained, runtime, caller>>

-----------------------------------------------------------------------------
(* Intercepting.                                                            *)
\* What intercept answers before it starts any work, "none" if it starts it.
refused(context_ok) ==
    CASE acs.start_failed -> "error"
      [] ~acs.start_failed /\ acs.closed -> "denied"
      [] ~acs.start_failed /\ ~acs.closed /\ ~acs.backend -> "error"
      [] OTHER -> IF Running(acs.work) THEN "denied" ELSE IF context_ok THEN "none" ELSE "error"

\* intercept up to its await; a call that is refused leaves nothing behind.
Intercept(c, context_ok) ==
    /\ Managed /\ caller[c].pc = "idle" /\ refused(context_ok) = "none"
    /\ caller' = [caller EXCEPT ![c].pc = "waiting"]
    /\ job' = [job EXCEPT ![c] = [NoJob EXCEPT !.pc = "created"]]
    /\ acs' = [acs EXCEPT !.work = c]
    /\ UNCHANGED <<openVars, credVars, pollVars, client, mode, enter, drain, retained, runtime>>

\* The job's steps, in a task of the interceptor; in direct mode the caller's own,
\* whose answer is the outcome.
JobStep(c) ==
    /\ \E j \in (CASE job[c].pc = "created" -> {begun(c, ok, "denied") : ok \in BOOLEAN}
                    [] job[c].pc = "evaluated" -> {resumed(c)}
                    [] OTHER -> {}) :
         /\ client' = [client EXCEPT !.evaluation = evaluation_after(c, j)]
         /\ job' = [job EXCEPT ![c] = IF ~Managed /\ j.pc = "done" THEN NoJob ELSE j]
    /\ UNCHANGED <<openVars, credVars, pollVars, managedVars>>

\* The callback that _drain left on work that outlived it.
RetainedEnds ==
    /\ retained # NoCaller /\ ~Running(retained) /\ Resumed
    /\ retained' = NoCaller /\ request_close
    /\ UNCHANGED <<own, ready, told, release, credVars, pollVars, jobVars, mode, enter, acs, drain,
                   caller>>

\* Mutant: the verdict is returned as the evaluator gave it.
told_as_given(c) ==
    IF caller[c].must \/ job[c].outcome = "cancelled"
    THEN IF caller[c].cancelling THEN "cancelled" ELSE IF acs.closed THEN "denied" ELSE "error"
    ELSE IF job[c].outcome \in {"error", "close_error"} THEN "error"
    ELSE IF acs.closed THEN "denied" ELSE job[c].outcome
\* What intercept returns or raises once its work has ended.
told_to(c) ==
    IF caller[c].must \/ job[c].outcome = "cancelled"
    THEN IF caller[c].cancelling THEN "cancelled" ELSE IF acs.closed THEN "denied" ELSE "error"
    ELSE IF job[c].outcome \in {"error", "close_error"} THEN "error"
    ELSE IF acs.closed THEN "denied"
    ELSE IF Current(job[c].snapshot) THEN job[c].outcome ELSE "error"

InterceptResumes(c) ==
    /\ caller[c].pc = "waiting" /\ job[c].pc = "done"
    /\ caller' = [caller EXCEPT ![c] = [pc |-> "idle", cancelling |-> FALSE, must |-> FALSE]]
    /\ job' = [job EXCEPT ![c] = NoJob]
    /\ acs' = [acs EXCEPT !.work = IF @ = c THEN NoCaller ELSE @]
    /\ UNCHANGED <<openVars, credVars, pollVars, client, mode, enter, drain, retained, runtime>>

\* The host cancels a task in intercept: its work is cancelled, or it learns of
\* it when it resumes.
InterceptCancelled(c) ==
    /\ caller[c].pc = "waiting" /\ ~caller[c].cancelling
    /\ caller' = [caller EXCEPT ![c].cancelling = TRUE, ![c].must = ~Running(c)]
    /\ job' = [job EXCEPT ![c] = Cancelled(@)]
    /\ UNCHANGED <<openVars, credVars, pollVars, client, mode, enter, acs, drain, retained, runtime>>

-----------------------------------------------------------------------------
(* A host that uses RemotePolicyClient itself.                              *)
Direct(step) == mode = "direct" /\ step /\ UNCHANGED managedVars

Evaluate(c) ==
    /\ user.pc \in {"inside", "leaving"} /\ job[c].pc = "idle"
    /\ LET j == begun(c, TRUE, "error")
       IN  /\ job' = [job EXCEPT ![c] = IF j.pc = "done" THEN NoJob ELSE j]
           /\ client' = [client EXCEPT !.evaluation = evaluation_after(c, j)]
    /\ UNCHANGED <<openVars, credVars, pollVars>>
EvaluateCancelled(c) ==
    /\ Running(c) /\ ~job[c].cancel /\ ~job[c].stop
    /\ job' = [job EXCEPT ![c] = Cancelled(@)]
    /\ UNCHANGED <<openVars, credVars, pollVars, client>>

-----------------------------------------------------------------------------
Host ==
    \/ \E b \in Builds : Aenter(b) \/ Direct(Open(b))
    \/ EnterCancelled \/ Aclose
    \/ Direct(UserExits) \/ Direct(UserCancelled)
    \/ \E c \in Callers :
         \/ \E context_ok \in BOOLEAN : Intercept(c, context_ok)
         \/ InterceptCancelled(c) \/ Direct(Evaluate(c)) \/ Direct(EvaluateCancelled(c))

\* What the event loop runs, with the deadlines it keeps.
Owner == OwnStep /\ UNCHANGED managedVars
User == Direct(UserEnters \/ UserLeaves) \/ RuntimeReady \/ RuntimeReleased \/ RuntimeEnds
Evaluating == \E c \in Callers : JobStep(c) \/ InterceptResumes(c)
Entering == EnterResumes \/ EnterFails
Closing == DrainStarts \/ DrainEnds \/ CloseEnds \/ RetainedEnds

Next ==
    \/ Host
    \/ External /\ UNCHANGED managedVars
    \/ Owner \/ User \/ Entering \/ Closing \/ Evaluating

Spec == Init /\ [][Next]_vars
\* Tasks that are ready run and deadlines come.  Nothing is promised of the host,
\* the provider, the source, the poller and the worker.
FairSpec ==
    /\ Spec
    /\ WF_vars(Owner) /\ WF_vars(User) /\ WF_vars(Entering) /\ WF_vars(Closing) /\ WF_vars(Evaluating)

-----------------------------------------------------------------------------
(* Properties.                                                              *)
InUse == source.active > 0 \/ ~SourceClosed
\* own left because it was cancelled before it had handed out a client.
StartCancelled == ready # "client" /\ own.error = "cancelled"

\* "Credentials remain owned until all users exit": unless a start is cancelled,
\* the provider is told to exit only when no source call is out and the source has
\* closed, however late; and a provider whose task has outlived its owner, such as
\* an entry that ignored its cancellation, is never taken for closed: the registry
\* stays failed (client.py own, _OwnedSource; auth.py open, _close).
CredentialsAreOwned ==
    /\ cred.release /\ InUse => StartCancelled
    /\ own.pc = "done" /\ cred.pc \notin Ended \cup {"none"} => registry.failed
    /\ own.pc \notin {"none", "done"} /\ cred.pc # "none" => registry.active

\* What the documentation of open and the package's tests say without exception:
\* credentials are closed after the source, "including startup failure and
\* cancellation".
CredentialsOutliveSource == cred.release => ~InUse

\* A close that reports success has left nothing behind: of a client that was
\* ready the owner and the provider are gone, the source is closed and unused and
\* no evaluation runs; and the loader is never closed under an interception
\* (async_interceptor.py _drain, loading.py aclose, client.py open).
CleanCloseMeansGone ==
    /\ ready = "client" /\ user.pc = "left" /\ user.result = "none" =>
         /\ own.pc = "done" /\ cred.pc \in {"none", "done"} /\ ~registry.failed
         /\ ~InUse /\ poller = "closed"
         /\ \A c \in Callers : job[c].pc # "evaluating"
    /\ Managed /\ runtime.closing => \A c \in Callers : ~Running(c)
    /\ drain = "ok" => user.pc \in {"outside", "left"}

ReturnsVerdict(c) ==
    \/ InterceptResumes(c) /\ told_to(c) = "verdict"
    \/ ~Managed /\ JobStep(c) /\ job[c].pc = "evaluated" /\ resumed(c).outcome = "verdict"

\* A verdict is returned only while everything below it serves: of the snapshot in
\* force at that instant, by a client with its credentials open, and never once
\* closing has begun (intercept's final gate, evaluate).
VerdictIsCurrent ==
    [][\A c \in Callers : ReturnsVerdict(c) =>
         /\ policy' = job[c].snapshot /\ policy' # 0
         /\ own'.pc = "serving" /\ poller' = "running" /\ source'.closing = "open"
         /\ cred'.pc \in {"none", "open"} /\ ~cred'.release
         /\ ~acs'.closed /\ ~runtime'.closing]_vars

\* Whatever the provider, the source, the poller or the worker do, entering and
\* leaving end: __aenter__ returns or raises, open returns although its owner may
\* have to stay with a source that does not close, and an evaluation that outlived
\* the close ends the runtime when it ends.
ClosesEnd ==
    /\ enter.pc = "starting" ~> enter.pc \in {"entered", "failed"}
    /\ user.pc = "leaving" ~> user.pc = "left"
    /\ retained # NoCaller /\ ~Running(retained) ~> user.pc = "left"
=============================================================================

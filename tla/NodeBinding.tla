----------------------------- MODULE NodeBinding -----------------------------
(***************************************************************************
 Evaluations through the Node binding when the host supplies its own
 annotator, policy dispatcher and telemetry sink (sdk/node/native/src/lib.rs).
 intercept and policy_evaluate run the engine on the JS thread and call the
 host's function there, through the env they publish in a thread-local;
 intercept_async runs it on a thread of its own, which posts each call to the
 JS thread and blocks until the function, or the Promise it returned, answers.
 A host function is JS code like any other: it may start further evaluations.
 Of the engine only the order of the calls is kept: annotator, policy, sink,
 and the deny that a failed call becomes (EvaluationPipeline has the rest).
 ***************************************************************************)
EXTENDS Integers, Sequences

CONSTANTS
    SyncEvals,      \* evaluations the host may run with intercept or policy_evaluate
    AsyncEvals      \* and with intercept_async, each at most once
Evals == SyncEvals \cup AsyncEvals

VARIABLES
    run,        \* what each evaluation is doing
    js,         \* the evaluations with a frame on the JS thread's stack
    env,        \* CURRENT_ENV of the JS thread is published
    closing     \* the env is torn down: no JS runs any more
nodeVars == <<run, js, env, closing>>

\* What a host function may do with a call.
Good == {"allow", "deny"}
Returns == Good \cup {"throws", "promise"}
Settlements == Good \cup {"rejects"}

\* previous is the EnvScope of a synchronous evaluation; blame the stage at which
\* the host, or the end of the env, really failed the evaluation.
NotStarted ==
    [mode |-> "none", stage |-> "annotate", at |-> "engine", previous |-> FALSE,
     failed |-> "none", policy |-> "none", blame |-> "none"]

NodeInit ==
    /\ run = [e \in Evals |-> NotStarted]
    /\ js = <<>>
    /\ env = FALSE
    /\ closing = FALSE

Top == js[Len(js)]
Pop == SubSeq(js, 1, Len(js) - 1)
Idle == js = <<>> /\ ~closing
\* The host's own JS runs: from the event loop, or inside a host function.
HostCode == ~closing /\ (js # <<>> => run[Top].at = "host")

\* The engine takes an answer: a failed annotator or policy denies, the sink's
\* answer is dropped.
Proceed(r, answer) ==
    CASE r.stage = "annotate" /\ answer \in Good -> [r EXCEPT !.at = "engine", !.stage = "policy"]
      [] r.stage = "policy" /\ answer \in Good ->
           [r EXCEPT !.at = "engine", !.stage = "emit", !.policy = answer]
      [] r.stage \in {"annotate", "policy"} /\ answer \notin Good ->
           [r EXCEPT !.at = "engine", !.stage = "emit", !.failed = r.stage]
      [] r.stage = "emit" -> [r EXCEPT !.at = "engine", !.stage = "done"]

Blame(r, answer) ==
    IF answer \in Good \/ r.stage = "emit" THEN r ELSE [r EXCEPT !.blame = r.stage]

\* EnvScope::enter.
Publish == env' = TRUE
\* Mutant: dropping a scope always clears the env.
restore_cleared(r) == FALSE
\* EnvScope::drop.
restore(r) == r.previous

-----------------------------------------------------------------------------
\* intercept and policy_evaluate, on the JS thread.
intercept(e) ==
    /\ HostCode
    /\ run[e].mode = "none"
    /\ run' = [run EXCEPT ![e].mode = "sync", ![e].previous = env]
    /\ js' = Append(js, e)
    /\ Publish
    /\ UNCHANGED closing

\* call on the JS thread: without a published env it fails closed.
call_on_js_thread(e) ==
    /\ js # <<>> /\ Top = e
    /\ run[e].mode = "sync" /\ run[e].at = "engine" /\ run[e].stage # "done"
    /\ run' = [run EXCEPT ![e] = IF env THEN [@ EXCEPT !.at = "host"] ELSE Proceed(@, "unpublished")]
    /\ UNCHANGED <<js, env, closing>>

\* The host function returns to the engine; a Promise cannot be awaited here.
ReturnsToEngine(e, answer) ==
    /\ js # <<>> /\ Top = e
    /\ run[e].mode = "sync" /\ run[e].at = "host"
    /\ run' = [run EXCEPT ![e] = Proceed(Blame(@, answer), answer)]
    /\ UNCHANGED <<js, env, closing>>

\* The synchronous entry point returns its verdict.
SyncReturns(e) ==
    /\ js # <<>> /\ Top = e
    /\ run[e].mode = "sync" /\ run[e].stage = "done"
    /\ run' = [run EXCEPT ![e].at = "returned"]
    /\ js' = Pop
    /\ env' = restore(run[e])
    /\ UNCHANGED closing

-----------------------------------------------------------------------------
\* intercept_async: a thread of its own, or a rejection when none could start.
intercept_async(e, spawned) ==
    /\ HostCode
    /\ run[e].mode = "none"
    /\ run' = [run EXCEPT ![e].mode = "async", ![e].at = IF spawned THEN "engine" ELSE "rejecting"]
    /\ UNCHANGED <<js, env, closing>>

call_from_worker(e) ==
    /\ run[e].mode = "async" /\ run[e].at = "engine" /\ run[e].stage # "done"
    /\ run' = [run EXCEPT ![e] = IF closing THEN Proceed(Blame(@, "closing"), "closing")
                                 ELSE [@ EXCEPT !.at = "posted"]]
    /\ UNCHANGED <<js, env, closing>>

\* The event loop runs a posted host function, with no env published.
RunPosted(e) ==
    /\ Idle
    /\ run[e].at = "posted"
    /\ run' = [run EXCEPT ![e].at = "host"]
    /\ js' = <<e>>
    /\ UNCHANGED <<env, closing>>

\* deliver: the answer goes to the worker now, or when the Promise settles.
deliver(e, answer) ==
    /\ js # <<>> /\ Top = e
    /\ run[e].mode = "async" /\ run[e].at = "host"
    /\ run' = [run EXCEPT ![e] = IF answer = "promise" THEN [@ EXCEPT !.at = "promised"]
                                 ELSE Proceed(Blame(@, answer), answer)]
    /\ js' = Pop
    /\ UNCHANGED <<env, closing>>

\* then and catch: a settled value that is not a string rejects as well.
Settles(e, answer) ==
    /\ Idle
    /\ run[e].at = "promised"
    /\ run' = [run EXCEPT ![e] = Proceed(Blame(@, answer), answer)]
    /\ UNCHANGED <<js, env, closing>>

\* A panic that escapes the engine is caught on its thread and rejects.
Panics(e) ==
    /\ run[e].mode = "async" /\ run[e].at = "engine"
    /\ run' = [run EXCEPT ![e].at = "rejecting"]
    /\ UNCHANGED <<js, env, closing>>

\* The deferred settles the promise from the event loop.
PromiseSettles(e) ==
    /\ Idle
    /\ run[e].mode = "async"
    /\ \/ run[e].at = "engine" /\ run[e].stage = "done" /\ run' = [run EXCEPT ![e].at = "returned"]
       \/ run[e].at = "rejecting" /\ run' = [run EXCEPT ![e].at = "rejected"]
    /\ UNCHANGED <<js, env, closing>>

\* The env goes away between two turns of the event loop.
CloseEnv ==
    /\ Idle
    /\ closing' = TRUE
    /\ UNCHANGED <<run, js, env>>

\* A worker whose call was never run learns that its sender is gone.
SenderDropped(e) ==
    /\ closing
    /\ run[e].at \in {"posted", "promised"}
    /\ run' = [run EXCEPT ![e] = Proceed(Blame(@, "gone"), "gone")]
    /\ UNCHANGED <<js, env, closing>>

JsThread ==
    \/ \E e \in Evals : call_on_js_thread(e) \/ SyncReturns(e) \/ RunPosted(e) \/ PromiseSettles(e)
    \/ \E e \in Evals, a \in Returns : ReturnsToEngine(e, a) \/ deliver(e, a)
Worker(e) == call_from_worker(e) \/ SenderDropped(e)
Settling == \E e \in Evals, a \in Settlements : Settles(e, a)
NodeStep ==
    \/ JsThread \/ Settling \/ CloseEnv
    \/ \E e \in SyncEvals : intercept(e)
    \/ \E e \in AsyncEvals : Worker(e) \/ Panics(e)
    \/ \E e \in AsyncEvals, b \in BOOLEAN : intercept_async(e, b)

NodeSpec == NodeInit /\ [][NodeStep]_nodeVars

Verdict(r) == IF r.failed # "none" \/ r.policy # "allow" THEN "deny" ELSE "allow"

-----------------------------------------------------------------------------
\* An evaluation is denied for a failed host function only when that function
\* failed, or no JS will run again, whatever evaluations its host functions ran
\* themselves; and a host function that failed is never read as one that answered
\* (lib.rs, EnvScope and HostFunction::call).
FailureIsTheHosts ==
    \A e \in Evals :
        /\ run[e].failed # "none" => run[e].blame = run[e].failed
        /\ run[e].at = "returned" /\ Verdict(run[e]) = "allow" => run[e].blame = "none"

\* Every promise an asynchronous evaluation returned is settled if its host
\* functions return and their promises settle, whatever they return or throw,
\* unless the env goes away (lib.rs, deliver and intercept_async).
AsyncSettles ==
    \A e \in AsyncEvals : run[e].mode = "async" ~> run[e].at \in {"returned", "rejected"} \/ closing
=============================================================================

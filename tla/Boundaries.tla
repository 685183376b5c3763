----------------------------- MODULE Boundaries -----------------------------
(***************************************************************************
 Where the engine is called, or runs, outside itself: the language bindings
 over one engine (sdk/ffi, sdk/python, sdk/node/native) and the child process
 a remote policy is evaluated in (sdk/remote-policy, evaluation.py).  A run is
 about one part: evaluations with host functions on the JS thread and off it,
 host threads sharing a stream session, one question asked in every language,
 or calls that compete for the child.
 ***************************************************************************)
EXTENDS NodeBinding, SessionHandles, HostCallbacks, WorkerSlot

CONSTANT Questions      \* what a host may ask, or be asked by a callback

VARIABLE part           \* which of the four a run is about
vars == <<part, nodeVars, sessionVars, handleVars, answerVars, workerVars>>

Init ==
    /\ NodeInit /\ WorkerInit
    /\ \/ part \in {"node", "worker"} /\ HandlesInit("node") /\ AnswersInit(Nothing)
       \/ part = "session" /\ (\E l \in Languages : HandlesInit(l)) /\ AnswersInit(Nothing)
       \/ part = "answers" /\ HandlesInit("node") /\ (\E q \in Questions : AnswersInit(q))

In(name, step) == part = name /\ step /\ UNCHANGED part
Node(step) == In("node", step) /\ UNCHANGED <<sessionVars, handleVars, answerVars, workerVars>>
Threaded(step) == In("session", step) /\ UNCHANGED <<nodeVars, answerVars, workerVars>>

Next ==
    \/ Node(NodeStep)
    \/ Threaded(HandlesStep)
    \/ /\ In("answers", AnswersStep \/ CallbackStep)
       /\ UNCHANGED <<nodeVars, sessionVars, handleVars, workerVars>>
    \/ /\ In("worker", WorkerStep)
       /\ UNCHANGED <<nodeVars, sessionVars, handleVars, answerVars>>

Spec == Init /\ [][Next]_vars
\* The JS thread and every other thread run, a host's function returns and its
\* promises settle; nobody need start an evaluation, panic or end.  In the other
\* parts no call was made, and nothing that WorkerFairness names is enabled.
FairSpec ==
    /\ Spec
    /\ WF_vars(Node(JsThread)) /\ WF_vars(Node(Settling))
    /\ \A e \in Evals : WF_vars(Node(Worker(e)))
    /\ \A t \in Threads : WF_vars(Threaded(ThreadStep(t)))
    /\ WorkerFairness

\* Every evaluation and every call on a session ends: promises settle and no
\* thread waits for another for ever.
EveryCallEnds == AsyncSettles /\ CallsReturn
=============================================================================

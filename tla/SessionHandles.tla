--------------------------- MODULE SessionHandles ---------------------------
(***************************************************************************
 Host threads driving one stream session through a binding
 (the stream entry points of sdk/ffi/src/lib.rs, sdk/python/src/lib.rs and
 sdk/node/native/src/lib.rs).  An entry point reads its
 arguments, takes the handle's lock, runs the engine's method (StreamSession's
 actions) and turns its answer into what its language returns.  A panic inside
 the lock poisons it.  A Python thread holds the interpreter from entry to
 return, except while the engine evaluates; JS runs on one thread.
 ***************************************************************************)
EXTENDS Integers, FiniteSets

CONSTANTS
    Threads,
    MaxCalls,       \* calls all threads make together
    Tasks, MAX_RUNE_OFFSET, Configs, HostVerdicts,     \* see StreamSession
    Calls,          \* the calls a host may make
    Free            \* nobody holds the lock or the interpreter

ASSUME FreeAssumption == Free \notin Threads

VARIABLES
    config, frontier, confirmed, received, ended, payloads_closed, cleared, emitted,
    binding,        \* ffi, python or node
    interpreter,    \* the thread that holds the GIL, or is the JS thread
    mutex,          \* the thread that holds the handle's lock
    poisoned,
    thread,         \* where each thread is, its call and what it was told
    calls           \* how many calls were made

Session == INSTANCE StreamSession
sessionVars == <<config, frontier, confirmed, received, ended, payloads_closed, cleared, emitted>>
handleVars == <<binding, interpreter, mutex, poisoned, thread, calls>>

\* What a host may write in a call; bad names an argument that does not decode.
Operations ==
    {"observe", "observe_text", "record_outcome", "record_verdict", "advance", "safe_offset",
     "pending", "watermark", "state", "end_of_payloads", "finish"}
ASSUME CallsAssumption ==
    Calls \subseteq [op : Operations, bad : STRING, track : Session!Tracks,
                    runes : Session!ArgOffsets, task : Tasks, span : Session!ArgSpans,
                    outcome : {"cleared", "denied", "transformed"}, verdict : HostVerdicts]
ASSUME SessionAssumption ==
    /\ MAX_RUNE_OFFSET \in Nat
    /\ Configs \subseteq Session!SessionConfigs
    /\ HostVerdicts \subseteq Session!Verdicts

-----------------------------------------------------------------------------
(* Entry points: the arguments each refuses before it takes the lock, and   *)
(* how it answers.                                                          *)
Entry(args, answer) == [args |-> args, answer |-> answer]

\* Shared by the three bindings: a span is built before the lock is taken.
span_refused(span) == span.end <= span.start \/ span.end > MAX_RUNE_OFFSET

acs_stream_session_observe == Entry({"source_type"}, "i64")
acs_stream_session_observe_text == Entry({"source_type", "text"}, "i64")
acs_stream_session_record_outcome == Entry({"task", "source_type", "outcome", "span"}, "i32")
acs_stream_session_record_verdict == Entry({"task", "source_type", "verdict", "span"}, "i32")
acs_stream_session_advance == Entry({"track"}, "i64")
acs_stream_session_safe_offset == Entry({"track"}, "i64")
acs_stream_session_pending == Entry({"track"}, "i64")
acs_stream_session_watermark == Entry({"track"}, "json")
acs_stream_session_state == Entry({}, "json")
acs_stream_session_end_of_payloads == Entry({}, "i32")
acs_stream_session_finish == Entry({}, "json")
ffi_entries ==
    [observe |-> acs_stream_session_observe, observe_text |-> acs_stream_session_observe_text,
     record_outcome |-> acs_stream_session_record_outcome,
     record_verdict |-> acs_stream_session_record_verdict, advance |-> acs_stream_session_advance,
     safe_offset |-> acs_stream_session_safe_offset, pending |-> acs_stream_session_pending,
     watermark |-> acs_stream_session_watermark, state |-> acs_stream_session_state,
     end_of_payloads |-> acs_stream_session_end_of_payloads, finish |-> acs_stream_session_finish]

\* Python takes decoded strings; the interpreter refuses one that does not decode.
stream_observe == Entry({"source_type"}, "value")
stream_observe_text == Entry({"source_type", "text"}, "value")
stream_record_outcome == Entry({"task", "source_type", "outcome", "span"}, "value")
stream_record_verdict == Entry({"task", "source_type", "span", "verdict"}, "value")
stream_advance == Entry({"track"}, "value")
stream_safe_offset == Entry({"track"}, "value")
stream_pending == Entry({"track"}, "value")
stream_watermark == Entry({"track"}, "value")
\* is_ended, transformed, end_reason and config.
stream_reads == Entry({}, "value")
stream_end_of_payloads == Entry({}, "value")
stream_finish == Entry({}, "value")
python_entries ==
    [observe |-> stream_observe, observe_text |-> stream_observe_text,
     record_outcome |-> stream_record_outcome, record_verdict |-> stream_record_verdict,
     advance |-> stream_advance, safe_offset |-> stream_safe_offset, pending |-> stream_pending,
     watermark |-> stream_watermark, state |-> stream_reads,
     end_of_payloads |-> stream_end_of_payloads, finish |-> stream_finish]

stream_session_observe == Entry({"source_type"}, "value")
stream_session_observe_text == Entry({"source_type", "text"}, "value")
stream_session_record_outcome == Entry({"task", "source_type", "outcome", "span"}, "value")
stream_session_record_verdict == Entry({"task", "source_type", "verdict", "span"}, "value")
stream_session_advance == Entry({"track"}, "value")
stream_session_safe_offset == Entry({"track"}, "value")
stream_session_pending == Entry({"track"}, "value")
stream_session_watermark == Entry({"track"}, "value")
stream_session_state == Entry({}, "value")
stream_session_end_of_payloads == Entry({}, "value")
stream_session_finish == Entry({}, "value")
node_entries ==
    [observe |-> stream_session_observe, observe_text |-> stream_session_observe_text,
     record_outcome |-> stream_session_record_outcome,
     record_verdict |-> stream_session_record_verdict, advance |-> stream_session_advance,
     safe_offset |-> stream_session_safe_offset, pending |-> stream_session_pending,
     watermark |-> stream_session_watermark, state |-> stream_session_state,
     end_of_payloads |-> stream_session_end_of_payloads, finish |-> stream_session_finish]

entry(op) ==
    CASE binding = "ffi" -> ffi_entries[op]
      [] binding = "python" -> python_entries[op]
      [] binding = "node" -> node_entries[op]

refused(call) ==
    LET args == entry(call.op).args
    IN  call.bad \in args \/ ("span" \in args /\ span_refused(call.span))

(* What the engine answers, and what the host is told: C numbers and        *)
(* err_out, or a value, null (-1 here) and an exception.                    *)
Some(n) == [kind |-> "some", n |-> n]
Absent == [kind |-> "absent", n |-> 0]
Done == [kind |-> "done", n |-> 0]
Failure == [kind |-> "failure", n |-> 0]

tells(answer, r) ==
    [value |-> CASE r.kind = "some" -> r.n
                 [] r.kind = "failure" /\ answer = "i64" -> -2
                 [] r.kind = "done" /\ answer \in {"i32", "json"} -> 0
                 [] OTHER -> -1,
     error |-> r.kind = "failure"]

-----------------------------------------------------------------------------
(* The engine's methods under the lock.  On an ended session a mutating     *)
(* method reports it and changes nothing.                                   *)
Unless(action) == IF ended = Session!Open THEN action ELSE UNCHANGED sessionVars
Kept(r) == IF ended = Session!Open /\ ended'.kind # "failed" THEN r ELSE Failure

method(call) ==
    CASE call.op \in {"observe", "observe_text"} -> Unless(Session!Observe(call.track, call.runes))
      [] call.op = "record_outcome" ->
           Unless(Session!RecordOutcome(call.task, call.track, call.span, call.outcome))
      [] call.op = "record_verdict" ->
           Unless(Session!RecordVerdict(call.task, call.track, call.span, call.verdict))
      [] call.op = "advance" -> Unless(Session!Advance(call.track))
      [] call.op = "end_of_payloads" -> Session!EndOfPayloads
      [] call.op = "finish" -> Unless(Session!Finish)
      [] OTHER -> UNCHANGED sessionVars

\* What the method answers, from the session before and after it.
answered(call) ==
    CASE call.op \in {"observe", "observe_text"} -> Kept(Some(received'[call.track]))
      [] call.op \in {"record_outcome", "record_verdict"} -> Kept(Done)
      [] call.op = "advance" ->
           IF confirmed'[call.track] > confirmed[call.track] THEN Some(confirmed'[call.track])
           ELSE Absent
      [] call.op = "safe_offset" ->
           IF ended = Session!Open THEN Some(confirmed[call.track]) ELSE Absent
      [] call.op = "pending" -> Some(received[call.track] - confirmed[call.track])
      [] OTHER -> Done

-----------------------------------------------------------------------------
(* Threads.                                                                 *)
Resting == [at |-> "idle", call |-> [op |-> "none"], told |-> tells("value", Done), hooks |-> 0]

HandlesInit(language) ==
    /\ Session!Init
    /\ binding = language
    /\ interpreter = Free
    /\ mutex = Free
    /\ poisoned = FALSE
    /\ thread = [t \in Threads |-> Resting]
    /\ calls = 0

\* C hosts have no interpreter.
Interpreted == binding # "ffi"
MayRun(t) == Interpreted => interpreter = t
Told(t, r) ==
    thread' = [thread EXCEPT ![t].at = "told", ![t].told = tells(entry(thread[t].call.op).answer, r)]

\* A call that its arguments do not refuse goes on to the lock.
Enter(t, call) ==
    /\ thread[t].at = "idle" /\ calls < MaxCalls
    /\ Interpreted => interpreter = Free
    /\ interpreter' = IF Interpreted THEN t ELSE Free
    /\ thread' = [thread EXCEPT ![t] =
                    IF refused(call)
                    THEN [Resting EXCEPT !.at = "told", !.call = call,
                                         !.told = tells(entry(call.op).answer, Failure)]
                    ELSE [Resting EXCEPT !.at = "locking", !.call = call]]
    /\ calls' = calls + 1
    /\ UNCHANGED <<sessionVars, binding, mutex, poisoned>>

\* Mutant: the handle hands out the guard of a poisoned lock.
lock_ignoring_poison(t) ==
    /\ thread[t].at = "locking" /\ mutex = Free
    /\ mutex' = t
    /\ thread' = [thread EXCEPT ![t].at = "locked"]
    /\ UNCHANGED <<sessionVars, binding, interpreter, poisoned, calls>>
\* Mutant: the interpreter is released while the session is locked.
lock_detached(t) ==
    /\ thread[t].at = "locking" /\ mutex = Free
    /\ \/ poisoned /\ Told(t, Failure) /\ UNCHANGED <<mutex, interpreter>>
       \/ ~poisoned /\ mutex' = t /\ interpreter' = Free /\ thread' = [thread EXCEPT ![t].at = "locked"]
    /\ UNCHANGED <<sessionVars, binding, poisoned, calls>>
\* with_session, locked and lock: a poisoned lock is refused.
lock(t) ==
    /\ thread[t].at = "locking" /\ mutex = Free
    /\ \/ poisoned /\ Told(t, Failure) /\ UNCHANGED mutex
       \/ ~poisoned /\ mutex' = t /\ thread' = [thread EXCEPT ![t].at = "locked"]
    /\ UNCHANGED <<sessionVars, binding, interpreter, poisoned, calls>>

Runs(t) ==
    /\ thread[t].at = "locked" /\ MayRun(t)
    /\ method(thread[t].call)
    /\ Told(t, answered(thread[t].call))
    /\ mutex' = Free
    /\ UNCHANGED <<binding, interpreter, poisoned, calls>>

\* A panic leaves the accounting half applied; it is caught at the boundary of
\* C and Python and ends a Node process.
PanicsLocked(t) ==
    /\ thread[t].at = "locked" /\ MayRun(t) /\ binding # "node"
    /\ \E n \in 0..received[thread[t].call.track] :
         confirmed' = [confirmed EXCEPT ![thread[t].call.track] = n]
    /\ poisoned' = TRUE
    /\ mutex' = Free
    /\ Told(t, Failure)
    /\ UNCHANGED <<config, frontier, received, ended, payloads_closed, cleared, emitted,
                   binding, interpreter, calls>>

Leave(t) ==
    /\ thread[t].at = "told"
    /\ thread' = [thread EXCEPT ![t] = Resting]
    /\ interpreter' = Free
    /\ UNCHANGED <<sessionVars, binding, mutex, poisoned, calls>>

(* intercept and policy_evaluate of the Python binding: the engine runs     *)
(* without the interpreter, and each host callback takes it.                *)
Evaluate(t, hooks) ==
    /\ binding = "python"
    /\ thread[t].at = "idle" /\ calls < MaxCalls
    /\ interpreter = Free
    /\ thread' = [thread EXCEPT ![t] = [Resting EXCEPT !.at = "detached", !.hooks = hooks]]
    /\ calls' = calls + 1
    /\ UNCHANGED <<sessionVars, binding, interpreter, mutex, poisoned>>

\* Python::attach: for a callback, and to return.
Attach(t) ==
    /\ thread[t].at \in {"detached", "locked"} /\ Interpreted
    /\ interpreter = Free
    /\ interpreter' = t
    /\ thread' = [thread EXCEPT ![t].at =
                    IF @ = "locked" THEN @ ELSE IF thread[t].hooks = 0 THEN "told" ELSE "callback",
                    ![t].hooks = IF @ = 0 THEN 0 ELSE @ - 1]
    /\ UNCHANGED <<sessionVars, binding, mutex, poisoned, calls>>

CallbackReturns(t) ==
    /\ thread[t].at = "callback"
    /\ thread' = [thread EXCEPT ![t].at = "detached"]
    /\ interpreter' = Free
    /\ UNCHANGED <<sessionVars, binding, mutex, poisoned, calls>>

ThreadStep(t) == lock(t) \/ Runs(t) \/ Leave(t) \/ Attach(t) \/ CallbackReturns(t)
HandlesStep ==
    \/ \E t \in Threads : ThreadStep(t) \/ PanicsLocked(t)
    \/ \E t \in Threads, call \in Calls : Enter(t, call)
    \/ \E t \in Threads, hooks \in 0..2 : Evaluate(t, hooks)

HandlesSpec ==
    (\E language \in {"ffi", "python", "node"} : HandlesInit(language))
      /\ [][HandlesStep]_<<sessionVars, handleVars>>

-----------------------------------------------------------------------------
\* An offset any thread is told it may release through is covered by runes every
\* task of the track cleared, whichever binding it asks and whatever panicked
\* before (ffi with_session; python locked; node lock).
OffsetsAreVouched ==
    \A t \in Threads :
        LET call == thread[t].call
        IN  thread[t].at = "told" /\ call.op \in {"advance", "safe_offset"} /\ thread[t].told.value >= 0
              => \A k \in config.tasks[call.track] :
                    config.start[call.track]..(thread[t].told.value - 1) \subseteq cleared[call.track][k]

\* No thread waits for another for ever: every call returns to its host (the
\* interpreter and the session's lock are never waited for crosswise).
CallsReturn == \A t \in Threads : thread[t].at # "idle" ~> thread[t].at = "idle"
=============================================================================

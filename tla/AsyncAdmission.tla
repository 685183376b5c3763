--------------------------- MODULE AsyncAdmission ---------------------------
(***************************************************************************)
(* sdk/python/agent_control_spec/async_interceptor.py, local mode: how     *)
(* AsyncAcsInterceptor admits callers of one event loop to a bounded pool  *)
(* of evaluation threads.                                                  *)
(*                                                                         *)
(* One action is what the loop runs without yielding: intercept up to its  *)
(* first await, a caller's task resuming from its waiter, a done callback, *)
(* a timer callback, aclose up to its await.  Between them anything may    *)
(* run, so a waiter's future may be resolved, and its task cancelled,      *)
(* before the task resumes.  The evaluation threads finish on their own.   *)
(* The loop may also die with everything pending, which close recovers.    *)
(***************************************************************************)
EXTENDS Integers, Sequences, FiniteSets, SequencesExt

CONSTANTS
  Callers,            \* tasks that call intercept, each once
  MaxConcurrency,     \* max_concurrency
  MaxPending,         \* max_pending
  AdmissionTimeout,   \* admission_timeout, in ticks of the loop's clock
  MaxTime             \* bound: the loop's clock stops here

ASSUME ConcurrencyAssumption == MaxConcurrency \in Nat \ {0}
ASSUME PendingAssumption == MaxPending \in Nat \ {0}
ASSUME TimeoutAssumption == AdmissionTimeout \in Nat \ {0}
ASSUME TimeAssumption == MaxTime \in Nat
ASSUME CallersAssumption == IsFiniteSet(Callers)

VARIABLES
  on_saturation,  \* the configured Saturation, fixed at construction
  state,          \* state[c]: where caller c's task is
  future,         \* future[c]: the caller's waiter future
  signals,        \* signals[c]: what cancelled the task since it last ran
  deadline,       \* deadline[c]: when the caller's admission times out
  now,            \* loop.time()
  waiters,        \* _waiters: the queued futures, oldest first
  reserved,       \* _reserved: slots granted and not yet submitted
  in_flight,      \* _in_flight: submitted, not yet accounted complete
  running,        \* native evaluations a thread is executing
  closed,         \* _closed
  executor,       \* "open" or "shutdown"
  loop            \* "unbound" before first use, then "alive", then "dead"

vars == <<on_saturation, state, future, signals, deadline, now, waiters,
          reserved, in_flight, running, closed, executor, loop>>

Saturations == {"reject", "wait"}
Futures == {"none", "pending", "true", "false", "cancelled"}

\* "idle" has not called; "queued" awaits its waiter; "awaiting" awaits its
\* evaluation; the others are how intercept ended.
Answers == {"allowed", "denied", "answered", "cancelled", "invalid", "raised"}
States == {"idle", "queued", "awaiting"} \cup Answers

used == Cardinality(in_flight) + reserved

Init ==
  /\ on_saturation \in Saturations
  /\ state = [c \in Callers |-> "idle"]
  /\ future = [c \in Callers |-> "none"]
  /\ signals = [c \in Callers |-> {}]
  /\ deadline = [c \in Callers |-> 0]
  /\ now = 0
  /\ waiters = <<>>
  /\ reserved = 0
  /\ in_flight = {}
  /\ running = {}
  /\ closed = FALSE
  /\ executor = "open"
  /\ loop = "unbound"

-----------------------------------------------------------------------------
(* _wake_waiters on a queue q whose futures are f, with n slots in use.    *)
(* It pops from the front while there is a free slot: a future that is     *)
(* done is dropped, an expired one is told False, a live one is granted    *)
(* the slot.                                                               *)

Live(c, f, d) == f[c] = "pending" /\ now < d[c]

Granted(q, f, d, k) == {c \in Range(SubSeq(q, 1, k)) : Live(c, f, d)}

\* How many entries are popped.
Popped(q, f, d, n) ==
  LET free == MaxConcurrency - n
      full == {k \in 0 .. Len(q) : Cardinality(Granted(q, f, d, k)) = free}
  IN  IF closed THEN 0
      ELSE IF full = {} THEN Len(q)
      ELSE CHOOSE k \in full : \A j \in full : k <= j

\* Mutant: the newest waiter is served first.
wake_newest(q, f, d, flying, n) ==
  LET newest == [i \in 1 .. Len(q) |-> q[Len(q) - i + 1]]
      k == Popped(newest, f, d, Cardinality(flying) + n)
      granted == Granted(newest, f, d, k)
      popped == Range(SubSeq(newest, 1, k))
  IN  /\ waiters' = SubSeq(q, 1, Len(q) - k)
      /\ reserved' = n + Cardinality(granted)
      /\ future' = [c \in Callers |->
                     IF c \in granted THEN "true"
                     ELSE IF c \in popped /\ f[c] = "pending" THEN "false"
                     ELSE f[c]]

wake_waiters(q, f, d, flying, n) ==
  LET k == Popped(q, f, d, Cardinality(flying) + n)
      granted == Granted(q, f, d, k)
      popped == Range(SubSeq(q, 1, k))
  IN  /\ waiters' = SubSeq(q, k + 1, Len(q))
      /\ reserved' = n + Cardinality(granted)
      /\ future' = [c \in Callers |->
                     IF c \in granted THEN "true"
                     ELSE IF c \in popped /\ f[c] = "pending" THEN "false"
                     ELSE f[c]]

\* executor.submit and what follows it.  The pool has a thread for every slot,
\* and refuses work once it is shut down.
submit(c) ==
  \/ /\ executor = "open"
     /\ in_flight' = in_flight \cup {c}
     /\ running' = running \cup {c}
     /\ state' = [state EXCEPT ![c] = "awaiting"]
  \/ /\ executor = "shutdown"
     /\ state' = [state EXCEPT ![c] = "raised"]
     /\ UNCHANGED <<in_flight, running>>

finishes(c, answer) ==
  /\ state' = [state EXCEPT ![c] = answer]
  /\ UNCHANGED <<in_flight, running>>

-----------------------------------------------------------------------------
(* intercept up to its first await.  bound says whether the point is in    *)
(* scope, dumps whether the context serialises.                            *)

Saturated == waiters # <<>> \/ used >= MaxConcurrency

QueueRefuses == on_saturation = "reject" \/ Len(waiters) >= MaxPending

Intercept(c, bound, dumps) ==
  /\ loop \in {"unbound", "alive"} /\ loop' = "alive"
  /\ state[c] = "idle"
  /\ \/ /\ closed
        /\ finishes(c, "denied")
        /\ UNCHANGED <<deadline, waiters, reserved, future>>
     \/ /\ ~closed /\ ~bound
        /\ finishes(c, "allowed")
        /\ UNCHANGED <<deadline, waiters, reserved, future>>
     \/ /\ ~closed /\ bound /\ Saturated /\ QueueRefuses
        /\ finishes(c, "denied")
        /\ UNCHANGED <<deadline, waiters, reserved, future>>
     \/ /\ ~closed /\ bound /\ Saturated /\ ~QueueRefuses
        /\ deadline' = [deadline EXCEPT ![c] = now + AdmissionTimeout]
        /\ finishes(c, "queued")
        /\ wake_waiters(Append(waiters, c), [future EXCEPT ![c] = "pending"],
                        deadline', in_flight, reserved)
     \/ /\ ~closed /\ bound /\ ~Saturated
        /\ \/ dumps /\ submit(c)
           \/ ~dumps /\ finishes(c, "invalid")
        /\ wake_waiters(waiters, future, deadline, in_flight', reserved)
        /\ UNCHANGED deadline
  /\ UNCHANGED <<on_saturation, signals, now, closed, executor>>

-----------------------------------------------------------------------------
(* What may happen to a queued caller before its task runs again           *)

\* Task.cancel: the waiter is cancelled if it is still pending, otherwise the
\* cancellation is delivered when the task resumes.
cancel(c, signal) ==
  /\ signal \notin signals[c]
  /\ future' = [future EXCEPT ![c] = IF @ = "pending" THEN "cancelled" ELSE @]
  /\ signals' = [signals EXCEPT ![c] = @ \cup {signal}]

\* The timer of asyncio.timeout_at.
TimeoutFires(c) ==
  /\ loop = "alive"
  /\ state[c] = "queued"
  /\ now >= deadline[c]
  /\ cancel(c, "timeout")
  /\ UNCHANGED <<on_saturation, state, deadline, now, waiters, reserved,
                 in_flight, running, closed, executor, loop>>

\* Someone cancels the calling task.  While it awaits its evaluation the shield
\* keeps the evaluation and its accounting.
CancelCaller(c) ==
  /\ loop = "alive"
  /\ \/ /\ state[c] = "queued"
        /\ cancel(c, "cancel")
        /\ UNCHANGED state
     \/ /\ state[c] = "awaiting"
        /\ state' = [state EXCEPT ![c] = "cancelled"]
        /\ UNCHANGED <<future, signals>>
  /\ UNCHANGED <<on_saturation, deadline, now, waiters, reserved, in_flight,
                 running, closed, executor, loop>>

Tick ==
  /\ now < MaxTime
  /\ now' = now + 1
  /\ UNCHANGED <<on_saturation, state, future, signals, deadline, waiters,
                 reserved, in_flight, running, closed, executor, loop>>

-----------------------------------------------------------------------------
(* A caller's task resumes from its waiter                                 *)

\* The waiter leaves the queue if it is still there.
Unqueued(c) == RemoveFirst(waiters, c)

\* Mutant: a slot granted before the cancellation was delivered is forgotten.
ResumeUnadmittedKeepsSlot(c) ==
  /\ signals[c] # {} \/ future[c] # "true"
  /\ finishes(c, IF "cancel" \in signals[c] THEN "cancelled" ELSE "denied")
  /\ waiters' = Unqueued(c) /\ UNCHANGED <<future, reserved>>

\* Cancelled, or not granted: a slot granted meanwhile is handed onwards.
ResumeUnadmitted(c) ==
  /\ signals[c] # {} \/ future[c] # "true"
  /\ finishes(c, IF "cancel" \in signals[c] THEN "cancelled" ELSE "denied")
  /\ IF future[c] = "true"
     THEN wake_waiters(Unqueued(c), future, deadline, in_flight, reserved - 1)
     ELSE waiters' = Unqueued(c) /\ UNCHANGED <<future, reserved>>

\* Granted: the work is submitted unless the adapter was closed, the context
\* does not serialise or the deadline passed; then the reservation ends.
ResumeGranted(c, dumps) ==
  /\ signals[c] = {} /\ future[c] = "true"
  /\ \/ closed /\ finishes(c, "denied")
     \/ ~closed /\ ~dumps /\ finishes(c, "invalid")
     \/ ~closed /\ dumps /\ now >= deadline[c] /\ finishes(c, "denied")
     \/ ~closed /\ dumps /\ now < deadline[c] /\ submit(c)
  /\ wake_waiters(Unqueued(c), future, deadline, in_flight', reserved - 1)

Resume(c, dumps) ==
  /\ loop = "alive"
  /\ state[c] = "queued"
  /\ future[c] \notin {"none", "pending"}
  /\ ResumeUnadmitted(c) \/ ResumeGranted(c, dumps)
  /\ signals' = [signals EXCEPT ![c] = {}]
  /\ UNCHANGED <<on_saturation, deadline, now, closed, executor, loop>>

-----------------------------------------------------------------------------
(* Evaluations                                                             *)

\* A native evaluation returns in its thread.
WorkerDone(c) ==
  /\ c \in running
  /\ running' = running \ {c}
  /\ UNCHANGED <<on_saturation, state, future, signals, deadline, now,
                 waiters, reserved, in_flight, closed, executor, loop>>

\* Mutant: the evaluation of a cancelled caller is never accounted.
CompletedIfAwaited(c) ==
  /\ loop = "alive"
  /\ c \in in_flight \ running
  /\ state[c] = "awaiting"
  /\ in_flight' = in_flight \ {c}
  /\ state' = [state EXCEPT ![c] = "answered"]
  /\ wake_waiters(waiters, future, deadline, in_flight', reserved)
  /\ UNCHANGED <<on_saturation, signals, deadline, now, running, closed,
                 executor, loop>>

\* _completed, on the loop; then the caller, if it still waits, has its answer.
Completed(c) ==
  /\ loop = "alive"
  /\ c \in in_flight \ running
  /\ in_flight' = in_flight \ {c}
  /\ state' = [state EXCEPT ![c] = IF @ = "awaiting" THEN "answered" ELSE @]
  /\ wake_waiters(waiters, future, deadline, in_flight', reserved)
  /\ UNCHANGED <<on_saturation, signals, deadline, now, running, closed,
                 executor, loop>>

-----------------------------------------------------------------------------
(* Closing                                                                 *)

\* aclose up to its await: nobody is admitted any more.
Aclose ==
  /\ loop \in {"unbound", "alive"} /\ loop' = "alive"
  /\ ~closed
  /\ closed' = TRUE
  /\ future' = [c \in Callers |->
                 IF c \in Range(waiters) /\ future[c] = "pending" THEN "false"
                 ELSE future[c]]
  /\ waiters' = <<>>
  /\ UNCHANGED <<on_saturation, state, signals, deadline, now, reserved,
                 in_flight, running, executor>>

\* _drain: once nothing is in flight the executor is shut down.
Drain ==
  /\ loop = "alive"
  /\ closed
  /\ in_flight = {}
  /\ executor = "open"
  /\ executor' = "shutdown"
  /\ UNCHANGED <<on_saturation, state, future, signals, deadline, now,
                 waiters, reserved, in_flight, running, closed, loop>>

\* The owning loop is closed with tasks and evaluations pending.
LoopDies ==
  /\ loop = "alive"
  /\ loop' = "dead"
  /\ UNCHANGED <<on_saturation, state, future, signals, deadline, now,
                 waiters, reserved, in_flight, running, closed, executor>>

\* close, once the owning loop is gone or before first use, up to the wait
\* inside executor.shutdown.
CloseBegin ==
  /\ loop \in {"unbound", "dead"}
  /\ closed' = TRUE
  /\ executor' = "shutdown"
  /\ UNCHANGED <<on_saturation, state, future, signals, deadline, now,
                 waiters, reserved, in_flight, running, loop>>

\* close once every thread has been joined: the bookkeeping is discarded.
CloseEnd ==
  /\ loop \in {"unbound", "dead"}
  /\ closed /\ executor = "shutdown"
  /\ running = {}
  /\ in_flight' = {}
  /\ waiters' = <<>>
  /\ reserved' = 0
  /\ UNCHANGED <<on_saturation, state, future, signals, deadline, now,
                 running, closed, executor, loop>>

-----------------------------------------------------------------------------
Next ==
  \/ \E c \in Callers, b \in BOOLEAN, s \in BOOLEAN : Intercept(c, b, s)
  \/ \E c \in Callers : TimeoutFires(c)
  \/ \E c \in Callers : CancelCaller(c)
  \/ Tick
  \/ \E c \in Callers, s \in BOOLEAN : Resume(c, s)
  \/ \E c \in Callers : WorkerDone(c)
  \/ \E c \in Callers : Completed(c)
  \/ Aclose
  \/ Drain
  \/ LoopDies
  \/ CloseBegin
  \/ CloseEnd

\* The loop runs what is ready, its clock goes on, and every native evaluation
\* returns (the class comment asks for finite operation deadlines).
Fairness ==
  /\ \A c \in Callers :
       /\ WF_vars(\E s \in BOOLEAN : Resume(c, s))
       /\ WF_vars(WorkerDone(c))
       /\ WF_vars(Completed(c))
       /\ WF_vars(TimeoutFires(c))
  /\ WF_vars(Tick)
  /\ WF_vars(Drain)

Spec == Init /\ [][Next]_vars
FairSpec == Spec /\ Fairness

-----------------------------------------------------------------------------
(* Properties                                                              *)

TypeOK ==
  /\ on_saturation \in Saturations
  /\ state \in [Callers -> States]
  /\ future \in [Callers -> Futures]
  /\ signals \in [Callers -> SUBSET {"timeout", "cancel"}]
  /\ deadline \in [Callers -> Nat]
  /\ now \in Nat
  /\ waiters \in Seq(Callers)
  /\ reserved \in Nat
  /\ in_flight \subseteq Callers
  /\ running \subseteq Callers
  /\ closed \in BOOLEAN
  /\ executor \in {"open", "shutdown"}
  /\ loop \in {"unbound", "alive", "dead"}

\* Callers that were granted a slot and whose task has not resumed since.
Holders == {c \in Callers : state[c] = "queued" /\ future[c] = "true"}

(* While the loop lives every reserved slot has exactly one holder: no     *)
(* cancellation, timeout or close between the grant in _wake_waiters and   *)
(* the task resuming leaks a slot or gives it back twice.                  *)
ReservationsAreHeld == loop # "dead" => reserved = Cardinality(Holders)

(* The pool is never promised beyond max_concurrency nor the queue beyond  *)
(* max_pending, counting slots that are granted but not yet used.          *)
CapacityIsBounded == used <= MaxConcurrency /\ Len(waiters) <= MaxPending

(* No capacity is given back while its evaluation still runs, and nobody   *)
(* submits to an executor that is shut down, which would raise out of      *)
(* intercept instead of denying.                                           *)
ThreadsAreAccounted == running \subseteq in_flight /\ \A c \in Callers : state[c] # "raised"

(* No wakeup is lost: whoever is queued waits because every slot is taken. *)
QueuedOnlyWhenFull == loop # "dead" /\ waiters # <<>> => used = MaxConcurrency

(* Slots are conserved: through every order of grants, submissions,        *)
(* cancellations, timeouts, completions and closes the bookkeeping of      *)
(* async_interceptor.py says what is really held, running and waiting.     *)
SlotsAreConserved ==
  ReservationsAreHeld /\ CapacityIsBounded /\ ThreadsAreAccounted /\ QueuedOnlyWhenFull

\* What a step may do while the waiter at i stays live in the queue.
TurnIsKept ==
  \A i \in DOMAIN waiters :
    LET w == waiters[i]
        waits == future[w] = "pending" /\ future'[w] = "pending" /\ now < deadline[w]
    IN  waits => /\ \A c \in Callers : state[c] = "idle" => c \notin in_flight'
                 /\ \A j \in (i + 1) .. Len(waiters) : future'[waiters[j]] # "true"

(* A live waiter is not overtaken: neither by a newcomer that goes         *)
(* straight to the pool nor by a waiter behind it.                         *)
NoOvertaking == [][TurnIsKept]_vars

(* Every caller of intercept gets an answer and a close that has begun     *)
(* drains until the executor is shut down, unless the loop dies.           *)
CallsAndCloseEnd ==
  /\ \A c \in Callers :
       state[c] \in {"queued", "awaiting"} ~> state[c] \in Answers \/ loop = "dead"
  /\ closed ~> executor = "shutdown" \/ loop = "dead"
=============================================================================

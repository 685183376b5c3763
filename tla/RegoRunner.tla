----------------------------- MODULE RegoRunner -----------------------------
(***************************************************************************
 RegorusRegoRunner (engine/src/rego.rs) with its policy cache and hard
 deadline on: callers evaluate and warm Rego policies on pooled worker
 threads, give up on a thread at the deadline and charge it to the pool's
 abandoned budget, while the threads load policy sets from disk through a
 cache that a host may clear.  One pool serves evaluation, another warming.

 A call is a number; a worker is a thread with its two channels and the
 WorkerState it shares with whichever caller holds it.  A policy set is a
 key; its content on disk is a version.  A job may take for ever, fail or
 panic wherever it reads a bundle or runs a policy.
 ***************************************************************************)
EXTENDS Integers, Sequences, FiniteSets, SequencesExt

CONSTANTS
    Callers,        \* host threads
    Workers,        \* threads that may be spawned in a run: 1 .. n
    Keys,           \* policy sets (CacheKey)
    Budgets,        \* bound: how many evals, warms and edits a run may hold
    MaxAbandoned,   \* MAX_ABANDONED_WORKERS
    MaxIdle,        \* MAX_IDLE_WORKERS
    MaxCached,      \* MAX_CACHED_POLICY_SETS
    Wrap            \* 2^64: how far below zero an AtomicUsize wraps to

ASSUME RunnerAssumption ==
    /\ IsFiniteSet(Callers)
    /\ Workers \subseteq Nat \ {0}
    /\ MaxAbandoned \in Nat \ {0}
    /\ MaxIdle \in Nat /\ MaxCached \in Nat
    /\ Wrap \in Nat /\ Wrap > MaxAbandoned + Cardinality(Callers)

None == 0
Pools == {"eval", "warm"}

VARIABLES
    at,         \* caller -> where its call is
    call,       \* caller -> its call: number, pool and policy set
    held,       \* caller -> the worker it holds
    calls,      \* pool -> calls made so far, within some budget
    wstate,     \* worker -> WorkerState: unborn, running, abandoned, finished
    step,       \* worker -> where its thread is
    wpool,      \* worker -> the pool that spawned it
    jobs,       \* worker -> calls sent to it; the thread works on the first
    outcomes,   \* worker -> outcomes sent and not received
    engine,     \* worker -> version of the engine its job holds, or None
    idle,       \* pool -> parked workers, last parked last
    abandoned,  \* pool -> WorkerPoolCounters.abandoned, as a signed number
    cache,      \* policy set -> version of the cached engine, or None
    disk,       \* version of the policy files
    floor       \* history: version at the last clear no load was running across

callVars == <<at, call, held, calls>>
threadVars == <<wstate, step, wpool, jobs, outcomes, engine>>
cacheVars == <<cache, disk, floor>>
vars == <<callVars, threadVars, idle, abandoned, cacheVars>>

WithinBudget(made, version) ==
    \E b \in Budgets : made["eval"] <= b.eval /\ made["warm"] <= b.warm /\ version - 1 <= b.edits

NoCall == [id |-> 0, pool |-> "eval", key |-> None, floor |-> 0]

\* The thread holds a LiveCount until it is gone; its channels close with it.
Alive(w) == wstate[w] # "unborn" /\ step[w] # "gone"
\* The Worker value exists: a caller holds it or it is parked.
Owned(w) == (\E c \in Callers : held[c] = w) \/ (\E p \in Pools : w \in ToSet(idle[p]))
Cached == {k \in Keys : cache[k] # None}
\* A load that read the disk and may still put what it read into the cache.
LoadInFlight == \E w \in Workers : step[w] \in {"insert", "run"}

Init ==
    /\ at = [c \in Callers |-> "idle"]
    /\ call = [c \in Callers |-> NoCall]
    /\ held = [c \in Callers |-> None]
    /\ calls = [p \in Pools |-> 0]
    /\ wstate = [w \in Workers |-> "unborn"]
    /\ step = [w \in Workers |-> "recv"]
    /\ wpool = [w \in Workers |-> "eval"]
    /\ jobs = [w \in Workers |-> <<>>]
    /\ outcomes = [w \in Workers |-> <<>>]
    /\ engine = [w \in Workers |-> None]
    /\ idle = [p \in Pools |-> <<>>]
    /\ abandoned = [p \in Pools |-> 0]
    /\ cache = [k \in Keys |-> None]
    /\ disk = 1
    /\ floor = 1

-----------------------------------------------------------------------------
(* The caller: evaluate or warm, and run_with_deadline.                     *)

\* The call returns and drops its worker, unless release has parked it.
Return(c) ==
    /\ at' = [at EXCEPT ![c] = "idle"]
    /\ held' = [held EXCEPT ![c] = None]
    /\ call' = [call EXCEPT ![c] = NoCall]
    /\ UNCHANGED calls

\* A remote bundle, refused before a worker is taken, changes nothing.
Begin(c, p, k) ==
    /\ at[c] = "idle"
    /\ calls' = [calls EXCEPT ![p] = @ + 1]
    /\ WithinBudget(calls', disk)
    /\ call' = [call EXCEPT ![c] = [id |-> calls["eval"] + calls["warm"] + 1, pool |-> p,
                                    key |-> k, floor |-> floor]]
    /\ at' = [at EXCEPT ![c] = "taking"]
    /\ UNCHANGED <<held, threadVars, idle, abandoned, cacheVars>>

\* jobs.send, and the wait starts: a parked or new thread is receiving.
SendJob(c, w) ==
    /\ held' = [held EXCEPT ![c] = w]
    /\ jobs' = [jobs EXCEPT ![w] = Append(@, call[c])]
    /\ step' = [step EXCEPT ![w] = IF @ = "recv" THEN "lookup" ELSE @]
    /\ at' = [at EXCEPT ![c] = "waiting"]

take_idle(c) ==
    LET p == call[c].pool
    IN /\ at[c] = "taking"
       /\ IF idle[p] # <<>>
          THEN /\ SendJob(c, Last(idle[p]))
               /\ idle' = [idle EXCEPT ![p] = Front(@)]
          ELSE /\ at' = [at EXCEPT ![c] = "spawning"]
               /\ UNCHANGED <<held, jobs, step, idle>>
       /\ UNCHANGED <<call, calls, wstate, wpool, outcomes, engine, abandoned, cacheVars>>

\* What abandoned.load() returns: an AtomicUsize below zero reads as a huge number.
Loaded(p) == IF abandoned[p] < 0 THEN abandoned[p] + Wrap ELSE abandoned[p]

MayNotSpawn(p) == Loaded(p) >= MaxAbandoned

spawn_worker(c) ==
    LET p == call[c].pool
    IN /\ at[c] = "spawning"
       /\ IF MayNotSpawn(p)
          THEN Return(c) /\ UNCHANGED threadVars
          ELSE \E w \in Workers :
                 /\ wstate[w] = "unborn"
                 /\ \A v \in Workers : wstate[v] = "unborn" => w <= v
                 /\ SendJob(c, w)
                 /\ wstate' = [wstate EXCEPT ![w] = "running"]
                 /\ wpool' = [wpool EXCEPT ![w] = p]
                 /\ UNCHANGED <<call, calls, outcomes, engine>>
       /\ UNCHANGED <<idle, abandoned, cacheVars>>

\* release: a worker beyond the idle limit is dropped.
release(p, w) == IF Len(idle[p]) < MaxIdle THEN [idle EXCEPT ![p] = Append(@, w)] ELSE idle

Receive(c) ==
    LET w == held[c]
    IN /\ at[c] = "waiting"
       /\ outcomes[w] # <<>>
       /\ Return(c)
       /\ outcomes' = [outcomes EXCEPT ![w] = Tail(@)]
       /\ idle' = release(call[c].pool, w)
       /\ UNCHANGED <<wstate, step, wpool, jobs, engine, abandoned, cacheVars>>

\* The outcome channel closed with nothing in it: the thread panicked.
Disconnected(c) ==
    /\ at[c] = "waiting"
    /\ outcomes[held[c]] = <<>>
    /\ step[held[c]] = "gone"
    /\ Return(c)
    /\ UNCHANGED <<threadVars, idle, abandoned, cacheVars>>

\* Mutant: a warm waits for its outcome without a deadline.
TimeOutEvalOnly(c) ==
    /\ call[c].pool = "eval"
    /\ at[c] = "waiting"
    /\ outcomes[held[c]] = <<>>
    /\ step[held[c]] # "gone"
    /\ at' = [at EXCEPT ![c] = "late"]
    /\ UNCHANGED <<call, held, calls, threadVars, idle, abandoned, cacheVars>>

\* recv_timeout gives up ...
TimeOut(c) ==
    /\ at[c] = "waiting"
    /\ outcomes[held[c]] = <<>>
    /\ step[held[c]] # "gone"
    /\ at' = [at EXCEPT ![c] = "late"]
    /\ UNCHANGED <<call, held, calls, threadVars, idle, abandoned, cacheVars>>

\* Mutant: the caller stores the state instead of comparing and exchanging it.
abandonBlindly(c) ==
    /\ at[c] = "late"
    /\ wstate' = [wstate EXCEPT ![held[c]] = "abandoned"]
    /\ at' = [at EXCEPT ![c] = "claimed"]
    /\ UNCHANGED <<call, held, calls, step, wpool, jobs, outcomes, engine, idle,
                   abandoned, cacheVars>>

\* ... WorkerState::abandon claims the worker by compare-exchange ...
abandon(c) ==
    LET w == held[c]
    IN /\ at[c] = "late"
       /\ IF wstate[w] = "running"
          THEN /\ wstate' = [wstate EXCEPT ![w] = "abandoned"]
               /\ at' = [at EXCEPT ![c] = "claimed"]
               /\ UNCHANGED <<call, held, calls>>
          ELSE Return(c) /\ UNCHANGED wstate
       /\ UNCHANGED <<step, wpool, jobs, outcomes, engine, idle, abandoned, cacheVars>>

\* Mutant: the late worker goes back to the pool.
ChargeReleases(c) ==
    /\ at[c] = "claimed"
    /\ abandoned' = [abandoned EXCEPT ![call[c].pool] = @ + 1]
    /\ idle' = release(call[c].pool, held[c])
    /\ Return(c)
    /\ UNCHANGED <<threadVars, cacheVars>>

\* ... and counts it in a second step; only then is the worker dropped.
Charge(c) ==
    /\ at[c] = "claimed"
    /\ abandoned' = [abandoned EXCEPT ![call[c].pool] = @ + 1]
    /\ Return(c)
    /\ UNCHANGED <<threadVars, idle, cacheVars>>

-----------------------------------------------------------------------------
(* The worker thread.                                                      *)

\* The thread ends, however it ends, and LiveCount::drop settles its account.
Exit(w) ==
    /\ step' = [step EXCEPT ![w] = "gone"]
    /\ jobs' = [jobs EXCEPT ![w] = <<>>]
    /\ engine' = [engine EXCEPT ![w] = None]
    /\ IF wstate[w] = "running"
       THEN wstate' = [wstate EXCEPT ![w] = "finished"] /\ UNCHANGED abandoned
       ELSE abandoned' = [abandoned EXCEPT ![wpool[w]] = @ - 1] /\ UNCHANGED wstate

Goto(w, s) == step' = [step EXCEPT ![w] = s] /\ UNCHANGED <<wstate, abandoned, jobs>>
Key(w) == Head(jobs[w]).key

\* prepared_engine, in three steps: the lock is not held across the load.
Lookup(w) ==
    LET found == cache[Key(w)]
    IN /\ step[w] = "lookup"
       /\ Goto(w, IF found # None THEN "run" ELSE "load")
       /\ engine' = [engine EXCEPT ![w] = found]
       /\ UNCHANGED <<callVars, wpool, outcomes, idle, cacheVars>>

\* The outcome is sent while somebody holds the receiver; otherwise the thread stops.
Send(w, version) ==
    /\ IF Owned(w)
       THEN /\ jobs' = [jobs EXCEPT ![w] = Tail(@)]
            /\ step' = [step EXCEPT ![w] = IF Len(jobs[w]) > 1 THEN "lookup" ELSE "recv"]
            /\ engine' = [engine EXCEPT ![w] = None]
            /\ outcomes' = [outcomes EXCEPT ![w] =
                              Append(@, [id |-> Head(jobs[w]).id, version |-> version])]
            /\ UNCHANGED <<wstate, abandoned>>
       ELSE Exit(w) /\ UNCHANGED outcomes
    /\ UNCHANGED <<callVars, wpool, idle, disk, floor>>

build_engine(w) ==
    /\ step[w] = "load"
    /\ \/ /\ Goto(w, "insert")
          /\ engine' = [engine EXCEPT ![w] = disk]
          /\ UNCHANGED <<callVars, wpool, outcomes, idle, cacheVars>>
       \/ Send(w, None) /\ UNCHANGED cache         \* unreadable or invalid policy

\* What is put into the cache: prepared_engine looks at the cap alone ...
Prepared(k, version) ==
    IF Cardinality(Cached) < MaxCached THEN [cache EXCEPT ![k] = version] ELSE cache

\* ... store_warmed also replaces a key that is there already.
Warmed(k, version) ==
    IF Cardinality(Cached) < MaxCached \/ cache[k] # None
    THEN [cache EXCEPT ![k] = version] ELSE cache

Insert(w) ==
    /\ step[w] = "insert"
    /\ cache' = Prepared(Key(w), engine[w])
    /\ Goto(w, "run")
    /\ UNCHANGED <<callVars, wpool, outcomes, engine, idle, disk, floor>>

\* eval_rule, eval_query: a verdict or an error.  A warm ignores what it computes,
\* keeps the compiled engine and answers without a verdict.
Run(w) ==
    /\ step[w] = "run"
    /\ IF Head(jobs[w]).pool = "warm"
       THEN Send(w, None) /\ cache' = Warmed(Key(w), engine[w])
       ELSE (Send(w, engine[w]) \/ Send(w, None)) /\ UNCHANGED cache

\* The worker was dropped: its job channel is closed and empty.
HangUp(w) ==
    /\ Alive(w)
    /\ step[w] = "recv"
    /\ ~Owned(w)
    /\ Exit(w)
    /\ UNCHANGED <<callVars, wpool, outcomes, idle, cacheVars>>

Panic(w) ==
    /\ step[w] \in {"load", "run"}
    /\ Exit(w)
    /\ UNCHANGED <<callVars, wpool, outcomes, idle, cacheVars>>

-----------------------------------------------------------------------------
(* The host.                                                               *)

\* Mutant: the cache is cleared only once it is full.
clear_when_full ==
    /\ cache' = [k \in Keys |-> IF Cardinality(Cached) > MaxCached THEN None ELSE cache[k]]
    /\ floor' = IF LoadInFlight THEN floor ELSE disk
    /\ UNCHANGED <<callVars, threadVars, idle, abandoned, disk>>

clear_policy_cache ==
    /\ cache' = [k \in Keys |-> None]
    /\ floor' = IF LoadInFlight THEN floor ELSE disk
    /\ UNCHANGED <<callVars, threadVars, idle, abandoned, disk>>

EditPolicy ==
    /\ disk' = disk + 1
    /\ WithinBudget(calls, disk')
    /\ UNCHANGED <<callVars, threadVars, idle, abandoned, cache, floor>>

CallerStep(c) ==
    \/ take_idle(c) \/ spawn_worker(c) \/ Receive(c) \/ Disconnected(c)
    \/ TimeOut(c) \/ abandon(c) \/ Charge(c)

ThreadStep(w) ==
    \/ Lookup(w) \/ build_engine(w) \/ Insert(w) \/ Run(w) \/ HangUp(w) \/ Panic(w)

Next ==
    \/ \E c \in Callers, p \in Pools, k \in Keys : Begin(c, p, k)
    \/ \E c \in Callers : CallerStep(c)
    \/ \E w \in Workers : ThreadStep(w)
    \/ clear_policy_cache
    \/ EditPolicy

Spec == Init /\ [][Next]_vars

\* A caller's thread is scheduled and its deadline passes; a job may hang for ever.
FairSpec == Spec /\ \A c \in Callers : WF_vars(CallerStep(c))

-----------------------------------------------------------------------------
(* Properties.                                                             *)

Charged(p) == {w \in Workers : wpool[w] = p /\ wstate[w] = "abandoned" /\ Alive(w)}
Settling(p) == {c \in Callers : at[c] = "claimed" /\ call[c].pool = p}

\* The abandoned counter is off from the threads that really run unattended by
\* exactly the callers that have claimed a worker and not counted it yet, so it
\* neither leaks nor loses a slot through any race of a deadline, a finish and a
\* panic (WorkerState::abandon against LiveCount::drop).
ExactAccounting ==
    \A p \in Pools : abandoned[p] = Cardinality(Charged(p)) - Cardinality(Settling(p))

\* The convergence bound MAX_ABANDONED_WORKERS documents: unattended threads of a
\* pool stay below the limit plus the host's own concurrency, parked workers,
\* which take_idle hands out past the gate, included.
BacklogConverges ==
    \A p \in Pools : Cardinality(Charged(p)) < MaxAbandoned + Cardinality(Callers)

\* The backlog of unattended threads is counted exactly and converges.
BacklogIsExact == ExactAccounting /\ BacklogConverges

\* A call is answered by its own job or not at all: a worker that still owes an
\* outcome to a caller that left is never handed to the next caller.
AnswersAreOwn ==
    \A c \in Callers : at[c] = "waiting" /\ outcomes[held[c]] # <<>>
        => Head(outcomes[held[c]]).id = call[c].id

\* After a clear that no load was running across, no evaluation begun later
\* decides by an engine older than the files were at that moment.
ClearIsEffective ==
    \A w \in Workers : step[w] \in {"insert", "run"} /\ jobs[w] # <<>>
        => engine[w] >= Head(jobs[w]).floor

\* The hard deadline: every call returns, even if every policy hangs for ever.
EveryCallReturns == \A c \in Callers : at[c] # "idle" ~> at[c] = "idle"

=============================================================================

# Verification of agent-control-spec in TLA+

This directory models the parts of the repository whose correctness depends on the
order in which things happen or on cases nobody writes a test for: release accounting
for streamed text, admission of concurrent evaluations, the lifetime of remotely served
policies and of the child processes that evaluate them, the stages of one evaluation, the
composition of manifests from documents of different origin, the policy backends with their
caches, threads and processes, the annotators with the host's credentials, the language
bindings above it all, and the teardown of the remote client under the managed interceptor. TLC checks the models on
small instances; TLAPS proves the central results for every instance.

## 1. The system

A host (an agent runtime) intercepts an agent at well-known points and asks for a
verdict: allow, deny or transform. The *engine* (Rust) evaluates a declarative
manifest: it collects annotations, runs a policy backend (Rego, Cedar, OPA, a test
dispatcher) and normalises the output. Every error becomes a deny. The *SDKs* expose
it to other languages; the Python SDK adds an asynchronous interceptor with bounded
concurrency, and a remote-policy package that downloads policies under a lease and
evaluates them in an isolated child process.

| component | state it keeps | operations | how it interacts | hard behaviour | what makes it correct |
|---|---|---|---|---|---|
| stream session (`engine/src/stream_session.rs`) | per track: frontier of each task, release point, end of observed text; terminal reason | observe, record_outcome, record_verdict, advance, safe_offset, end_of_payloads, finish | driven by a host that runs tasks concurrently and reports in any order | stale, repeated, out-of-order and gapped outcomes; calls after the end; settling with residue; offset ceiling | nothing is released that some task did not allow; the end is final |
| asynchronous interceptor (`sdk/python/.../async_interceptor.py`) | queue of waiters, reserved slots, work in flight, closed flag, executor | intercept, aclose, close, done callbacks, timers | callers on one event loop; evaluations on a thread pool | cancellation between grant and resumption, lost wakeups, loop death, close during grants | capacity is neither exceeded nor leaked; everyone is answered |
| policy poller (`sdk/remote-policy/.../poller.py`) | per agent: snapshot, installed revision, lease deadline, status; refresh and request tasks; phase | start, refresh, get_policy, assert_current, status, aclose, scheduler, callbacks | calls a policy source; evaluations read snapshots and re-check them before acting | timeouts with late answers, revocation, expiry, clock changes, ABA, close racing everything | no policy is used after it lapsed, was revoked or replaced; revisions never roll back; everything ends |
| lease-aware planning (poller) | planned attempts, last attempts | `_plan_lease_refreshes`, `_run` | decides when the poller refreshes | spacing, starvation of the regular poll | an extra attempt before each lease ends, the fixed rate kept |
| remote client (`client.py`, `integration.py`) | owner task, one evaluation, source users | open, evaluate, close | owns poller, source and credentials | teardown order under failure and cancellation | credentials outlive their users |
| isolated evaluation (`evaluation.py`) | a process-wide worker slot | evaluate_policy_snapshot and its cleanup | spawns, kills and drains a child process | cancellation during spawn, cleanup that outlives its caller | one worker; the slot is released once, after the child is gone |
| credential registry (`auth.py`) | active and failed flags, owner task | open, close | enters and leaves provider contexts in one task | entry that ignores cancellation | one owner; a failed cleanup blocks reuse |
| managed activation (`loading.py`) | claim flag, owner task | claim, start, request_close, aclose | used by the managed interceptor | startup cancelled or closed, retained owners | single use; the owner is never duplicated |
| evaluation runtime (`runtime.rs`, `annotation.rs`) | none across calls | evaluate | calls dispatchers, which may panic | partial failure at each stage | fail closed; an annotation sees only what it declared |
| output normalisation (`policy_output.rs`) | none | normalise | between backend and runtime | malformed policy output | no malformed output becomes an allow |
| manifest loading (`manifest.rs`) | during a load: stack, fetched bodies, merged manifest with the provenance of its entries | load, merge_chain, validate | reads files, fetches documents | cycles across files and URLs, pins, relative references, merges in any order | termination; a fetched document gains no access to the host's files and secrets |
| policy sources (`policy.rs`, `activation.rs`) | none across calls | validate, resolve paths, merge a binding, prepare | between a loaded manifest and a backend | paths and queries from documents of different origin | nothing fetched reaches a host file; what was accepted prepares |
| Rego runner (`rego.rs`) | two pools of worker threads, a count of abandoned threads, a cache of engines | evaluate, warm, clear_policy_cache | runs policies that may hang on threads it can only abandon | deadline racing an end or a panic, a clear during a load | bounded backlog; every call returns; answers are the call's own; a clear is effective |
| Cedar backend (`cedar.rs`) | a cache of parsed policy sets | evaluate, warm | reads files a host may edit | two threads loading one set; numbers and reserved keys in the input | later evaluations see an activation; Cedar sees the input as it is; the verdict is what the policies demand |
| opa backend (`opa.rs`) | per call: a staged directory and a child process | evaluate | feeds, polls, kills an `opa` process | a child that does not read, write or exit | the bundle outlives the child, no child is left behind, a fed call ends |
| annotator dispatchers (`dispatchers/`) | none across calls | dispatch | credentials from the host, a prompt GET, an inference POST | the order of reads, gates and requests, differing per provider | no host secret leaves for a fetched manifest; scores are judged as declared |
| activation, interceptor (`activation.rs`, `interceptor.rs`) | the runtime | activate, intercept | evaluates on a blocking thread | an evaluation that outlives its future | every governed point is warmed |
| language bindings (`sdk/ffi`, `sdk/python/src`, `sdk/node/native`) | handles, a lock per session, the published JS environment | one function per engine call | host functions call back into JS, Python or C | nested evaluations, promises, panics under a lock, the interpreter lock, limits lost on the way | the bindings answer alike; failures are the host's own; nobody waits for ever |
| wire format, telemetry, HTTP source, generator | none that outlives a call | | external services | I/O | |

## 2. Modules

Modelled now:

* `ReleaseGate` - abstract: text arrives, checkers vouch for runes, a prefix is
  released only if every checker vouched for it, and the gate either settles with
  everything released or withholds the rest for good.
* `StreamSession` - `stream_session.rs`, one action per public call. The state is the
  session's (`frontier`, `confirmed`, `received`, `ended`, `payloads_closed`), plus two
  variables that the code does not have: `cleared`, the runes each task really allowed,
  and `emitted`, how far a host that obeys `safe_offset` has emitted. Text is a count of
  runes. A verdict is the tuple of features `verdict_shape_is_invalid` reads.
  `RecordOutcome` and `RecordVerdict` contain the whole chain of refusals in the order of
  the code. A call on an ended session changes nothing and is a stuttering step.
* `AsyncAdmission` - `AsyncAcsInterceptor` in local mode. An action is what the event
  loop runs without yielding: `Intercept` up to the first await, `Resume` of a waiter,
  `Completed` (the done callback), `TimeoutFires` (the timer), `Aclose`, `Drain`,
  `CloseBegin`/`CloseEnd` (the blocking close after the loop died). `_wake_waiters` is
  part of every action that calls it. Task cancellation follows asyncio: a pending waiter
  is cancelled at once, a resolved one learns of it when its task resumes.
* `PolicyPoller` - `PolicyPoller` with its refresh tasks (`flight`) and source calls
  (`request`) as separate processes. A task's end and its done callback are one step. A
  document stands for its etag. The scheduler may poll any set of agents at any time, which
  covers every schedule `_run` can produce. What an evaluation does between reading a
  policy and its last gate is `reader`. `revoked` is history.
* `WorkerSlot` - `evaluation.py`: calls of `evaluate_policy_snapshot`, and for each the tasks
  that may outlive it: the creation of the child (`spawn`), the cleanup of a creation
  nobody waits for (`_discard_spawn`), the drain of a killed child and its done
  callback. A timeout may fire and a cancellation arrive whenever the wait concerned is
  under way. asyncio's process creation and the operating system are external actions.
* `PolicyOutput` - operators: `normalize_policy_output` on the features of an output it
  tells apart, with its refusals in order, and the verdict of an output that is accepted.
* `EvaluationPipeline` - `runtime.rs` from the snapshot to the verdict, and the part of
  `manifest.rs` that validates and orders the annotators of a point. It uses
  `PolicyOutput`. A JSON value is its nesting depth, so that the piecewise depth checks can
  be compared with the depth of what is handed to a dispatcher. Dispatchers may answer
  anything, fail or panic. `seen`, `given` and `output` are history.
* `EvidenceCap` - `degrade_evidence`, the binary search that fits oversize evidence under
  the cap. Evidence is what its canonical form measures.
* `ManifestLoader` - `ManifestLoader::load` with its recursion as a stack of frames,
  `merge_manifest` with provenance, the gates on fetched documents and merged manifests,
  and `merge_chain`. What a file or URL contains is chosen when it is first read, and a
  server's answer stays in `url_bodies`. Annotators stand for policies, tools and metadata
  too, which merge the same way.
* `Evaluation` - puts the pipeline, `EvidenceCap` and `AnnotatorDispatch` in one run. The three keep
  their state to themselves, so a behaviour is about one of them.
* `AnnotatorDispatch` - one call of the bundled annotator dispatcher, by the set of fields an
  annotator declares, the environment variables that are set and the origin of the manifest.
  `net` records every network operation with the credentials it carries. Servers answer
  anything. Request bodies and Bedrock's signature, with a manifest's own date for it, are
  left out.
* `RegoRunner` - `RegorusRegoRunner` with its hard deadline and cache on. Callers, worker
  threads with their two channels, the shared `WorkerState`, the idle lists and the abandoned
  counter (an `AtomicUsize`, which wraps) are separate; a thread may take for ever, fail or
  panic wherever it reads a bundle or runs a policy. Files have versions; `floor` is history.
* `PolicySources` - `policy.rs`, the gates of `manifest.rs` on paths and queries, activation from
  memory and the choice of a backend: one step (`LoadSource`) from a policy and a binding to the
  invocation and where it goes. A path is relative, absolute, missing or malformed.
* `CedarRequest` - operators: the Cedar request and the translation of JSON into Cedar values,
  with the width of a long, the scale of a decimal and the bits of a float as constants. A number
  that is no integer is the fraction a document writes; the code sees the float nearest to it
  (`as_f64`, taken to be rounded correctly), and its product with the scale is rounded to a float
  again (`scale`) before it is rounded to an integer. What `cedar_policy` reads in a context is
  external and kept apart (`CedarReads`).
* `CedarVerdict` - operators: advice, contributing policies, the verdict, and the test double.
  Cedar's own decision (`is_authorized`) is external.
* `CedarCache` - `PreparedCache` under evaluations, activations and edits of files by several
  threads, one step per lock or file read. What a policy set decides is a parameter of a step.
* `OpaProcess` - one `opa eval` child and its caller.
* `PolicyBackends` - composes the five: a manifest is accepted or refused, becomes an invocation
  and goes to the backend its dispatcher chooses. It also says what a Cedar policy set at hand
  decides (`builtin_evaluate`, `test_evaluate`).
* `NodeBinding` - Node's host functions: on the JS thread within the scope that publishes the
  environment (`EnvScope`), nested at will, and from worker threads through the event loop.
* `SessionHandles` - threads of a host that share one session through C, Python or Node. It
  instantiates `StreamSession` for what a call does; the session's mutex, its poisoning, the
  interpreter lock and callbacks into Python are its own.
* `BindingAnswers` - one question (validate, parse, merge, diagnose, build, activate, evaluate,
  open a session) put to the C, Python and Node entry points; operators give each reply, with the
  readers of limits and configurations of `wire.rs`. A document has the size of its text; a file, and
  a list of documents to merge, also has the size of what it composes into, serialised, which may be
  larger or smaller than the texts and is bounded by the same cap. A file is the first level of the
  depth its `extends` may reach.
* `HostCallbacks` - the same for what a host callback returns: the conversions of Python, and the
  strings a C host hands over and gets back.
* `Boundaries` - composes the four and `WorkerSlot`. They keep their state to themselves, so a
  behaviour is about one of them.
* `RemoteClient` - one lifetime of `RemotePolicyClient` and of the credential registry below it: the
  task of the user inside `open` (`user`), the owner task (`own`), the provider's task (`cred`), the
  source with its one close task, the poller as the client sees it (`poller.py`: a start that fails, a
  close, a policy installed or withdrawn, each whenever it may), and one evaluation per caller
  (`job`). An action is what a task runs between two awaits; `cancel` is a cancellation the task has
  not met yet, `later` one that a wait remembers. The provider, the source, the poller and the worker
  may fail, ignore their cancellation or never end. The order of the exceptions is the code's: what
  is raised on the way out replaces what was under way, and decides what `open` reports.
* `ManagedInterceptor` - the managed mode of `AsyncAcsInterceptor` over `ManagedRuntime` over
  `RemoteClient`: `__aenter__` starts the task that is the user of `open`, `intercept` starts a job of
  the client, `aclose` cancels it and closes the runtime, and an evaluation that outlives the close
  (`retained`) closes the runtime when it ends. In direct mode a host uses the client itself.
* `MC...` - the instances. `ManagedInterceptor` needs none.
* `StreamSessionProofs`, `AsyncAdmissionProofs`, `PolicyPollerProofs`, `ManifestLoaderProofs`,
  `RegoRunnerProofs`, `ManagedInterceptorProofs` - the theorems about the module each is named after.
  `EvaluationProofs` - those about `EvaluationPipeline`, `AnnotatorDispatch`, `CedarCache` and
  `EvidenceCap`. `BoundaryProofs` - those about `WorkerSlot`, `OpaProcess`, `NodeBinding`,
  `SessionHandles` and `BindingAnswers`. `RegoRunnerProofs` also has those about `PolicySources`.

Definitions marked `Mutant` are wrong on purpose: each is a plausible bug that the
property it is paired with in `PROJECT.json` has to notice.

## 3. Runs

| run | instance | shows |
|---|---|---|
| `stream_session` | two tasks, ceiling 2, offsets in arguments up to 3, configurations with one or both tracks mediated, resumed at 0 and 1, withholding and deferred | the properties of section 4, and that each track implements `ReleaseGate` |
| `admission` | three callers, one slot, a queue of two, timeout 1, clock up to 1 | slots, no overtaking, everyone is answered, a close drains |
| `policy_poller` | one agent, one evaluation, three documents (revision 1, a second document claiming revision 1, revision 2 with a longer lease), three source calls over one fetch slot, both clocks up to 1, the wall clock settable at any time, a source that may never answer | revocation, rollback, refreshes and close end |
| `evaluation` | pipeline: three annotators with every list of up to two needs, depth limit 3, annotator limit 2 and 3, and every policy output that differs in one member from a well-formed allow, warn, escalate or transform; evidence: up to four pointers and 9 bytes, with artefacts that fit alone, beside one pointer or not at all, cap 8; dispatch: every provider with the sets of fields it reads, every set of variables in the environment, two categories, scores and thresholds 0 to 3 | plans, visibility, fail-closed; the search keeps what it should; secrets and scores |
| `manifest_loader` | the root, a file below it and one outside, two URLs, two annotators of which one may need the other, depth 3, chains of two texts | stack, pins, merges, provenance, gates |
| `rego_runner` | two callers, three threads, one policy set, one abandoned thread allowed, three evaluations, or two and an edit, or one, a warm-up and an edit | accounting, answers, clearing, return of every call |
| `policy_backends` | 16,726 scenarios: Rego, Cedar and other policies by origin and by binding, policy inputs around the limits of a long of 31, with decimals of scale 11 and floats of five bits, policy sets of up to three policies, cache races of two threads over two edits, opa calls with small and large input | sources, Cedar requests and verdicts, cache, child process |
| `cedar_activation_doc` | the cache scenarios | expected violation, see section 7 |
| `cedar_decimal_doc` | one evaluation, with a number small enough for its float to tell any two decimals apart | expected violation, see section 7 |
| `boundaries` | three evaluations of which two nest on the JS thread and two run on workers; two threads making four calls on a session; 15,410 questions; two calls of the worker, whose child never exits unless killed | failures, offsets, settlement, agreement, caps; one worker, calls and slots come to an end |
| `remote_client` | managed or direct, two callers, one source call at a time, two snapshots, a registry that is free, in use or failed, with and without a provider | credentials outlive their users, a clean close left nothing, verdicts are current, closes end |
| `credential_order_doc` | the same | expected violation, see section 7 |

The bounds are small but each interesting case needs no more: a gap needs a ceiling of
two runes and a slower task needs two tasks; overtaking needs two waiters behind one
running evaluation; a late revocation needs a policy from one call, a second
call that times out, and a third to reinstall. Two calls are every overlap the worker slot
can meet. Three annotators give diamonds, chains and cycles of needs. The documents of
`manifest_loader` hold each kind of reference (relative, confined, escaping, repeated,
pinned rightly and wrongly, back to the root) and each pair of statements the merge rules and
the gates distinguish. A backlog of threads that passes its limit needs a limit of one and
a third call; a clear that a load runs across needs one edit. The cache is full with one entry.
Cedar's limits lie within the inputs, so that rounding and overflow happen on both sides; with a
scale of 11 and five bits the tie of 1.5 units is lost in the product, as that of 0.00015 is with
10^4 and 53 bits, and the largest inputs have floats too coarse for their last decimal place.
`Exponents` covers every float that occurs.
A nested evaluation needs a second one, and a third runs on a worker meanwhile. A stale verdict
needs a second snapshot, a busy client a second caller. `MaxTime` and `MaxRequests` only stop
counters. The models check deadlock, except that `EndOfPayloads`, `Status` and similar calls
are always possible, so the absence of deadlock says little there; the liveness properties
say more. Deadlock is not checked where the modelled calls come to an end: a session that
ended, an evaluation or load that returned, worker calls that are each made once, a client that
was closed.

Fairness. In `AsyncAdmission` and `PolicyPoller` the event loop eventually runs every ready
task, callback and timer, which is what asyncio does; hence weak fairness of those
actions. Native evaluations return (the class comment demands finite deadlines of the
dispatchers). Nothing is assumed of callers, of the policy source or of its `aclose`: no
fairness on `SourceAnswers`, `RequestCancelled`, `Fetch` or `SourceCloses`. In `WorkerSlot`
the loop runs its tasks and timers, a child that was sent SIGKILL exits, and a creation that
asyncio is undoing ends; nothing is assumed of a child that was not killed. In `RegoRunner` callers
run and their deadlines fire; nothing is assumed of the worker threads. In `PolicyBackends` the
caller of opa runs, and nothing is assumed of the child. In `Boundaries` the JS thread and
every worker and host thread run, host functions return and the promises they return settle,
without which no evaluation could end; nobody need start one, and the environment may close. In
`ManagedInterceptor` the loop runs its ready tasks and the deadlines of the waits come; nothing is
assumed of the host, the provider, the source, the poller or the worker. asyncio runs ready tasks in
the order they became ready; where the code depends on it (the first step of a new task, an
interception that resumes before a close that began to wait later) the model says so (`Resumed`).

## 4. Properties

Stream session: `ReleasedIsCleared` (a released prefix was allowed rune by rune by every task),
`CleanMeansAllCleared` (a clean settlement hides no rune), `RewriteIsNotTooLate` (nothing of a
rewritten track reached the caller), `ImplementsReleaseGate`. The proofs add `TypeOK`,
`EndIsFinal` and `FailureReleasesNothing`.

Admission: `SlotsAreConserved` (each reserved slot has exactly one holder; the pool and the queue
are never promised beyond their bounds; capacity stays taken while a thread runs and nobody
submits after shutdown; whoever waits waits because every slot is taken), `NoOvertaking`,
`CallsAndCloseEnd` (every caller is answered, and a close ends with nothing in flight).

Poller: `RevocationHolds` (a revocation, however late, and a close or a failure withdraw every
policy, no refresh brings one back, and no evaluation that read a revoked one passes its last
gate, not even when the same document was installed again), `NoRollback` (revisions and leases,
across expiry, revocation and changes of the wall clock), `RefreshesAndCloseEnd` (although a source
may never answer nor close).

Worker: `OneWorker`, `SlotComesBack` (calls end and the slot is given back, unless a child could
not be killed or its drain was lost). The proofs add `ReleasedMeansGone` and `VerdictFreesSlot`.

Evaluation: `PlanIsLeastOrder` (against the set of all orders: the plan is the least that
meets the needs, and a point is called cyclic only if there is none), `SeesOnlyDeclared`
(although one copy of the input is reused), `FailClosed` (a decision is earned and well-formed,
and no dispatcher sees an input deeper than the limit that is checked piecewise).

Evidence: `LongestPrefix`; the proofs add `MarkedIffLost`.

Manifests: `ChainIsSound` (no cycle, bounded depth, no way back from a fetched document to a
file, remote content only behind pins on every hop), `MergeIsExact` (the manifest is the union
of its documents, and fetched means that no host document wrote it, in whatever order they were
merged), `OverlayIsSafe` (what the gates are for: no host secret meets an endpoint that a
fetched document chose).

Annotators: `HostSecretsStayHome`, `BlockedIffReached` (against the rule the thresholds state).

Rego runner: `BacklogIsExact` (the abandoned counter is off only by callers in the middle of
counting, and the backlog converges as documented), `AnswersAreOwn`, `ClearIsEffective` (only for a
clear that no load was running across: a load that began before the clear and ends after it may put
the old engine back, which this property does not notice; see section 7), `EveryCallReturns`.

Backends: `SourcesAreTheHosts`, `ContextIsFaithful` (Cedar reads the policy input and nothing
else; of a number that is no integer, a decimal that is nearest but for what two roundings to a
float may add, which for numbers whose float can tell decimals apart means that a number of at
most four digits is exact and a tie goes to one of its two neighbours), `CedarVerdictIsSound`,
`ActivationIsSeen` (but for loads that overlap the activation), `BundleOutlivesChild`,
`FedCallEnds` (feeding itself has no deadline).

Bindings: `FailureIsTheHosts` (an evaluation is denied for a failed host function only if it
failed, and never allowed over one), `OffsetsAreVouched` (no offset is given out after a panic
under the lock, and every one is vouched for), `BindingsAgree` (the same answer in C, Python and
Node, and host values that cross a callback unharmed), `AskedCapsHold` (an entry point that takes
caps has every stage obey all of them or refuses; a manifest it accepts keeps the cap on bytes in
each source and in the serialised composition, and the cap on levels of `extends`), `EveryCallEnds`
(an asynchronous evaluation settles if the host's functions return and their promises settle, and no
thread waits for ever on a session's lock or the interpreter's).

Remote client and managed mode: `CredentialsAreOwned` (unless a start is cancelled, the provider is
told to exit only when the source has closed and no source call is out, however late; a provider
whose task outlived its owner leaves the registry failed), `CleanCloseMeansGone` (a close that
reports success left no owner, provider, source call or evaluation behind, and the loader is never
closed under an interception), `VerdictIsCurrent` (a verdict is returned only for the snapshot in
force at that instant, with everything below it serving), `ClosesEnd` (entering and leaving end,
whatever the provider, the source, the poller and the worker do).

## 5. Proofs

Each theorem below holds for every value of the constants that satisfies the assumptions of its
module. TLC evaluates those on every run; they are types (limits are natural numbers, zero
excluded where the code's constructors exclude it), the finiteness of the sets of callers, and
that reserved names stand for nothing else. A bound of a run (`MaxTime`, `MaxRequests`,
`MaxPointers`...) is an arbitrary natural number in a proof.

### Stream session (`StreamSessionProofs`)

For any finite or infinite set of tasks, any ceiling, any set of configurations and verdicts:

* `TypeCorrect`, `ReleaseSafety`, `CleanSettlement`, `RewriteSafety` - the invariants
  `TypeOK`, `ReleasedIsCleared`, `CleanMeansAllCleared`, `RewriteIsNotTooLate`;
* `EndFinality`, `FailureSafety` - the action properties `EndIsFinal` and
  `FailureReleasesNothing`;
* `Refinement` - each track implements `ReleaseGate`.

None of the invariants is inductive alone. `ReleasedIsCleared` speaks of the release point
only, but `advance` raises it to the lowest frontier, so one has to know what a frontier
stands for: `WatermarkInv` says that a task allowed every rune below its frontier, which
`record` keeps because it refuses gaps. `RewriteIsNotTooLate` needs that a withholding host
never emits past the release point, and `CleanMeansAllCleared` that a track without tasks
never receives text; both are in `SettlementInv`. The inductive invariant is
`Inv == TypeOK /\ WatermarkInv /\ SettlementInv`; lemma `NextInv` shows it preserved, with
one lemma per action. The one arithmetic fact about sets is that the minimum of a
non-empty set of offsets exists (`LeastIsLeast`), from the well-foundedness of `<` on the
naturals. The refinement goes action by action: what a task cleared has arrived, and grows
(`ClearedGrows`), so that an outcome is a clearance and an `advance` a release; a call that
refuses or changes only frontiers is a stutter of the gate.

### Admission (`AsyncAdmissionProofs`)

For any finite set of callers, any concurrency, queue length and timeout: `SlotSafety`
(`SlotsAreConserved`) and the action property `TurnSafety` (`NoOvertaking`). `SlotsAreConserved`
is one conjunct of the invariant; it needs that the queue holds distinct callers whose futures
nobody has resolved (`Queueing`), what a closed interceptor has given up (`Closing`), and that a
caller that has not begun holds nothing (`Fresh`). Every slot moves in `_wake_waiters`, a loop over
the queue. One lemma summarises what a call of it does (`Serves`: it serves a prefix, and stops
early only when nothing is left), by taking the least position at which that would fail; another
shows that a wake which starts from an honest count of the holders ends with one (`WakeRestores`).
An action then only has to show what it hands to the wake. `NoOvertaking` follows from the same
summary: what is served is a prefix, and a live waiter in a prefix is served itself.

### Poller (`PolicyPollerProofs`)

For any agents, evaluations and documents, and whatever source, clocks and close do:
`RevocationSafety` (`RevocationHolds`) and `RollbackSafety` (`NoRollback`), both with their action
parts. The invariant numbers the source calls of an agent: the call a refresh waits for is the
newest until the refresh ends, and no revocation is newer than a call under way or than an answer
that is no revocation (`Calls`); a policy in use, or read by an evaluation, was brought by a call
after the last revocation (`InUse`); a poller that closed or failed has withdrawn everything
(`ClosedIsClosed`). A late answer meets a refresh that is no longer there, and that is what keeps
`InUse`.

### Evaluation (`EvaluationProofs`)

The pipeline, for any annotators, needs, limits and outputs: `PlanSafety` (`PlanIsLeastOrder`),
`SightSafety` (`SeesOnlyDeclared`), `FailClosedSafety` (`FailClosed`). The order is Kahn's algorithm;
`Counting` says that a counter is the number of needs not yet in the order, `Ordered` that the order
so far was chosen greedily (`Greedy`). That a greedy order is the least one takes an argument about
any other order that meets the needs: at the least position where they differ, the other one's
annotator was ready too and so is not smaller. When the algorithm stops short, the rest has no
order: the first of the rest in any order would be ready. What an annotator sees is kept by
`Collected` and `Shown` (the reused input has exactly the results of its needs), the depth by
`Bounded`, piece by piece as the code checks it.

An annotator's call, for any set of fields and environment: `SecretSafety` (`HostSecretsStayHome`).
A stage's result is *clean* if it carries no value of the host for a fetched manifest. Request,
provider and prompt stages are shown clean one by one, and a chain of clean stages is clean. The
one difficulty is the order of the code: a prompt is fetched before the request is finished, so
one has to know that what was asked before the prompt is all the request asks (`PromptedIsSettled`).

The cache of Cedar policy sets, for any number of threads, policy sets, contents, decisions and
edits: `ActivationSafety` (`ActivationIsSeen`). The invariant says of every call under way, by the
place it has reached, how old what it holds may be (`CallFits`): nothing in the cache and no load on
its way to it is older than the last activation that no other load overlapped. An activation may
raise that floor exactly because no other load of the set has read a file then (`FloorMayRise`).

Evidence, for every cap, artefact and list of pointers (given that the
empty object fits and that every pointer adds bytes): `TypeCorrect`, `KeepsLongestPrefix`
(`LongestPrefix`) and `MarkerIsTrue` (`MarkedIffLost`). The invariant of the search
(`SearchInv`) is that the lower bound fits and that no length from the upper bound on does.
The first upper bound is one past the whole list and never measured: that the whole list
does not fit beside the kept artefact is not known then, and is not needed, because the
loop may still find that it does. Sizes grow with the prefix (`SizesGrow`), and the middle
lies strictly between the bounds (`MiddleIsBetween`).

### Manifests (`ManifestLoaderProofs`)

For any files, servers, documents, annotators and limits: `ChainSafety` (`ChainIsSound`),
`MergeSafety` (`MergeIsExact`) and `OverlaySafety` (`OverlayIsSafe`). `MergeIsExact` speaks of
the manifest that is returned, which is merged piecewise along a tree, so the invariant follows every
document admitted: it is on the stack, or some partial result on the stack covers it (`Loading`), and
an entry that a partial result does not count as fetched is owed to a document of the host
(`Accounted`). That a merge keeps both is one lemma about two maps (`MapsMerge`), which is where the
rule for what stays fetched has to be right. For the pins, a frame that counts as pinned has the
pinned document at every fetched hop below it (`Pinned`); a file resets this, and may, because only
files are below it. `OverlayIsSafe` follows from the gates once *fetched* is known to mean what
`MergeIsExact` says.

### Rego runner and policy sources (`RegoRunnerProofs`)

For any finite set of callers, any threads, policy sets, calls and limits, and a counter wide enough
for all of them: `BacklogSafety` (`BacklogIsExact`), `AnswerSafety` (`AnswersAreOwn`), `ClearSafety`
(`ClearIsEffective`). A thread has at most one owner, a caller or an idle list (`Ownership`); what the
two channels hold follows from the thread's step and its owner's place (`Exchange`); the counter of a
pool is the number of its abandoned threads, give or take the callers between claiming and counting
(`Accounts`, with cardinalities of finite sets); the engine a thread runs, the cached ones and the
floor of a call are ordered (`Freshness`). The four are inductive only together.

For any policy, binding, origins and dispatcher, `SourceSafety` (`SourcesAreTheHosts`), over the
specification `SourceSpec` of `PolicySources` alone. The invocation is what the loaded policy and
binding prepare, so each path it opens is followed back: merging two adapter maps opens nothing that
neither opens (`MergedPaths`), a resolved map opens nothing relative (`NoneRelative`), and a fetched
policy or binding that passed its gate opens nothing at all and names at most a rule
(`RegoPolicyGate`, `CedarPolicyGate`, `BindingGate`). Which of the two documents a query came from
decides which gate vouches for it.

### Managed mode (`ManagedInterceptorProofs`)

For any callers, any number of source calls and of installed policies, and whatever provider, source,
poller, worker and host do, in managed and in direct mode: `CredentialSafety` (`CredentialsAreOwned`),
`CloseSafety` (`CleanCloseMeansGone`) and the action property `VerdictSafety` (`VerdictIsCurrent`).

Everything hangs on how far the owner task has come, so the invariant says for each of its places what
the rest may be. Nothing is built before it has its credentials (`Startup`); while it is on its way
they are open and nobody has told the provider to go (`Wanted`); a poller that runs has an open source,
and a client that is open has a serving owner (`Reaching`); a cancellation reaches the owner only while
it has not handed out a client (`Cancelling`). `CredentialsAreOwned` is itself a conjunct and is kept
because leaving the registry's context is the one place that tells the provider to exit (`ExitsInv`):
each way there either closed the source first or was cancelled while starting. For a close that reports
success, `Teardown` follows an owner that has handed out a client on its way down: as long as it has
met no error, the poller has closed and no evaluation runs; and it may be met by no cancellation, which
is what `Cancelling` is for. `Settled` says what the two futures (`ready`, `told`) promise of the
owner's end, so that success at the user means it ended without error. Above the client, `Managing`
says that an interception which still runs is the one the interceptor knows, and that the runtime is
not closed under it. `VerdictIsCurrent` follows: a snapshot in force means an open client, thus a
serving owner, thus credentials nobody has released.

### Boundaries (`BoundaryProofs`)

For any set of calls of the worker: `PermitCorrect` (the semaphore stays between
0 and 1), `MutualExclusion` (`OneWorker`), `ReleaseAfterExit` (`ReleasedMeansGone`) and
`VerdictAfterDrain` (`VerdictFreesSlot`: a verdict is returned only once the child is
drained and the slot is back or its callback scheduled). `OneWorker` follows from two facts:
at most one slot is held, and then the semaphore is taken (`PermitInv`); a call with a live
child, or with one being created, holds the slot (`HolderInv`). The second is kept only
because whoever releases does so when the child is gone, and which of the call, the drain
and the cleanup that is depends on how far each has come: `StageInv` relates `pc`, `spawn`,
`cleanup`, `drain` and `deferred`. The inductive invariant is
`WorkerInv == WorkerTypeOK /\ PermitInv /\ HolderInv /\ StageInv`.

* `BundleSafety` (`BundleOutlivesChild`), for any deadline and number of removals: the caller's place
  says how far the child and its directory have come (`Fits`).
* `HostBlameSafety` (`FailureIsTheHosts`), for any evaluations, nested or on workers: the environment
  is published exactly while a synchronous frame is on the stack of the JS thread, and each frame
  restores what the frames below it had published (`NodeStack`).
* `HandleSafety` (`OffsetsAreVouched`), for any threads and calls on one handle: while the lock is not
  poisoned, the session's state satisfies the invariant of `StreamSessionProofs`, whose lemmas are
  used through an instance; an offset that a thread was told was the session's at that time.
* `CapSafety` (`AskedCapsHold`) and `AgreementSafety` (`AnswersAgree`, the part of `BindingsAgree`
  about a host's questions), for any documents, caps under any names, bundles and session parameters
  (`AnswersSpec`). Caps: whatever a mapping holds is read field by field or refused (`CapsAreRead`),
  and the stages an entry point builds get what was read (`FfiKeeps`, `PythonKeeps`, `NodeKeeps`).
  What a reading of the engine accepts, of text, of a file or of a list to merge, is within what was
  read (`TextInCap`, `FileInCap`, `MergeInCap`).
  Agreement: for most questions the three replies are equal (`JudgedAlike`, `BuiltAlike`), because
  the order in which two arguments are refused does not show (`ArgumentsCommute`); for the others it
  is shown that they differ only in how a refusal is worded (`ValuesAlike`, `OpenedAlike`).

## 6. Only model-checked

* Liveness under fairness is outside the prover's reach: `CallsAndCloseEnd`, `RefreshesAndCloseEnd`,
  `SlotComesBack`, `EveryCallReturns`, `FedCallEnds`, `EveryCallEnds`, `ClosesEnd`.
* `BlockedIffReached` compares a fold over the scores with the rule, which is an induction over data.
* `ContextIsFaithful` and the part of `BindingsAgree` about host callbacks (`HostValuesHold`) are about
  recursive operators over JSON values. `CedarVerdictIsSound` compares the result of sorting and
  filtering a sequence of policies with the rule, an induction over data too.
* The three runs that expect a violation.

## 7. Disagreements between code and comments

`cedar_activation_doc`: `warm` of the Cedar dispatcher promises that "a host that reuses one
dispatcher across activations gets the current file at each activation" (`cedar.rs:785`).
`PreparedCache::prepared` loads without the lock and inserts without looking again, so an
evaluation that began to load before an edit stores the old policy set over the one an
activation has stored since, and later evaluations use it until the next activation. The run's
trace is one interleaving of that load-then-insert; an older activation that stores last (`refresh`
does not look again either) does the same.

`cedar_decimal_doc`: "the value is rounded to the nearest such value, ties to even"
(`SPECIFICATION.md:333`), and the comment on `float_to_decimal` says "round to the nearest integer
with ties to even" (`cedar.rs:306`). The code rounds the product of two floats, which has been
rounded to a float before (`cedar.rs:313`), so a tie may have left the half by then: 0.00015 becomes
1.4999999999999998 and `decimal("0.0001")`, 0.00305 becomes 30.500000000000004 and
`decimal("0.0031")`. The repository's test of ties knows this and picks amounts that "scale to an
exact half in f64" (`cedar_context.rs:1198`).

`credential_order_doc`: "Cancellation arriving during startup or teardown still waits for bounded
poller/source shutdown before closing registry-owned credentials" (the package's `README.md:149`), and
the docstring of `open` says the same (`client.py:195`). When a startup has failed and the owner task
is in its last wait, `source.aclose()` (`client.py:257`), `ready` is still pending, so a cancellation
of the caller makes `open` cancel the owner (`client.py:296`). `CancelledError` is no
`PolicyCloseError`: the owner leaves without `wait_closed`, the provider is told to exit while the
source is closing or in use, and `closed` reports a clean end. A cancellation that meets the owner
earlier, in `_close_poller`, is absorbed and does no harm.

Noticed while modelling and not checked by a run:

* `clear_policy_cache` "Drops every cached engine, forcing the next evaluation to re-read policies
  from disk" (`rego.rs:400`). A load that runs across the clear stores the engine it built from the
  older files, and the next evaluation finds that one. `ClearIsEffective` leaves this case out.
* The doc comment of `StreamSession::finish` says it "Recomputes both watermarks first". With
  residue the code leaves both release points untouched, which is the safe behaviour.
* `EvaluationResult::policy_input` is "The final policy input the dispatcher evaluated"; when an
  annotator fails the result carries the preliminary input, which no dispatcher was given.
* `SPECIFICATION.md` section 7: a timeout of an annotator fails closed with
  `runtime_error:annotation_timeout`. `send_transport_request`, which LLM and bundled classifier
  annotators use, turns every error into a string, so theirs is `annotation_failed`.
* `ActivatedPolicy::activate_from_path` names Cedar and `test` policies among what it supports; the
  dispatcher it builds refuses everything but Rego.
* `acs_artifact_diagnostics` without bundles "answers exactly as `acs_manifest_diagnostics` does"; it
  activates, and so also reports Cedar policies it cannot run and `extends` it will not follow.
* "A rego policy left naming a relative `bundle` or data path is an error" (activation from memory):
  data that does not parse is passed over by that gate although a binding may replace it.
* `limits` of an activation from memory in Python bound dispatchers and runtime; the manifest's text
  is read under the default caps.

## 8. Not modelled

Lease planning: the poller's model allows every schedule. The HTTP source, telemetry and the
generator are I/O or run once. The credential providers themselves (token caches, authentication
flows, `azure.py`): the registry's model lets a provider do anything. Classification of a managed
source and the claim of an activation, a flag under a lock.

Left out of modelled parts: in the poller, a source call that raises `PolicyUsageError`, audit
records and the `error` field of an entry; in the worker, what the child itself does
(`_worker.py`); in the evaluation, how a path is resolved, byte limits (they fail the same
way as depth limits), the fields of an invocation, telemetry of stages that succeed, and the
error for a policy id the manifest does not know, which validation excludes; in
normalisation, message texts and the last gate, `Verdict::validate` of the agent-hooks
library: `FailClosed` shows what holds before it; in manifest loading, YAML parsing, the
validation of single fields and the fetch itself; in the Rego runner, running without the hard
deadline or the cache, the layout of bundles and the digest of one in memory; in the Cedar
backend, a poisoned cache lock and what a schema checks; in opa, a pipe that a grandchild of the
process keeps open; in the bindings, authoring helpers (`check_authoring_complexity`,
`parse_rego_ast`), warming through a Python dispatcher, NUL bytes in paths and handles that are
used after they were freed; in the remote client, `refresh` and `status`, which only delegate to the
poller, credentials injected by the host, a use from a second event loop, and an evaluator or
completion of another make that is no evaluator at all.

---------------------------- MODULE PolicyPoller ----------------------------
(***************************************************************************)
(* sdk/remote-policy/python/.../poller.py, class PolicyPoller: one event   *)
(* loop keeps, per agent, the policy snapshot the last accepted download   *)
(* gave, and hands it out only while its lease lasts and nobody revoked    *)
(* it.  A refresh is a task (a flight) that waits, with a timeout, for     *)
(* another task (the request) that calls the policy source.  The two end   *)
(* separately: a request that timed out may linger, ignore its             *)
(* cancellation and still bring a late answer.                             *)
(*                                                                         *)
(* An action is what the loop runs between two awaits.  A policy document  *)
(* stands for its own etag, which is the hash of its bytes.  The wall      *)
(* clock, which documents name their expiry in, may be set at any time.    *)
(* A task's end and its done callback are one step.                        *)
(***************************************************************************)
EXTENDS Integers, FiniteSets

CONSTANTS
  Agents,        \* the registered agents
  Readers,       \* evaluations that read a policy and act on it later
  Docs,          \* documents the source may serve: [rev, expires, copy]
  NoDoc,         \* no document, no etag
  MaxFetches,    \* MAX_CONCURRENT_FETCHES
  MaxRequests,   \* bound: source calls made per agent
  MaxTime        \* bound: both clocks stop here

ASSUME DocsAssumption ==
  /\ Docs \subseteq [rev : Nat \ {0}, expires : Nat, copy : Nat]
  /\ NoDoc \notin Docs
ASSUME FetchesAssumption == MaxFetches \in Nat \ {0}
ASSUME BoundsAssumption == MaxRequests \in Nat /\ MaxTime \in Nat

VARIABLES
  phase,       \* _phase
  mono, wall,  \* the monotonic and the wall clock
  snapshot,    \* _Entry.snapshot
  installed,   \* _Entry.etag and revision: the document last installed
  deadline,    \* _Entry.deadline: lease end of what was last installed
  state,       \* _Entry.state
  flight,      \* _flights: the refresh task of each agent
  request,     \* _requests: the source call of each agent
  calls,       \* source calls made so far; the id of the newest one
  startup,     \* what start has seen of each agent's first refresh
  scheduler,   \* _scheduler
  closer,      \* _closing: where the close task is
  source,      \* _source_closing: what became of source.aclose
  revoked,     \* history: newest call that ended in an authoritative failure
  reader       \* reader[r]: an evaluation, and the snapshot it holds

entries == <<snapshot, installed, deadline, state>>
tasks == <<flight, request, calls>>
closing == <<closer, source>>
clocks == <<mono, wall>>
vars == <<phase, clocks, entries, tasks, startup, scheduler, closing, revoked,
          reader>>

-----------------------------------------------------------------------------
(* Values                                                                  *)

Phases == {"created", "starting", "running", "closing", "closed", "failed",
           "close_failed"}
States == {"pending", "active", "expired", "unavailable", "failed", "closed"}

None == [id |-> 0]
Snapshot(id, doc, dl) == [id |-> id, doc |-> doc, deadline |-> dl]

\* Answers of the source.  "changed" with valid FALSE is a document _decode
\* rejects, "crash" one it fails on with an error of its own.
Responses ==
  [kind : {"changed"}, doc : Docs, valid : BOOLEAN]
    \cup [kind : {"not_modified"}, doc : Docs]
    \cup [kind : {"authoritative", "transient", "crash"}]

NoResponse == [kind |-> "none"]
CancelledResponse == [kind |-> "cancelled"]

NoFlight == [pc |-> "none", etag |-> NoDoc, response |-> NoResponse, cancelled |-> FALSE]
Idle == [pc |-> "idle"]
NoRequest == [pc |-> "none", cancelled |-> FALSE]

Rev(doc) == IF doc = NoDoc THEN 0 ELSE doc.rev

Serving == phase \in {"starting", "running"}

Init ==
  /\ phase = "created"
  /\ mono = 0 /\ wall = 0
  /\ snapshot = [a \in Agents |-> None]
  /\ installed = [a \in Agents |-> NoDoc]
  /\ deadline = [a \in Agents |-> 0]
  /\ state = [a \in Agents |-> "pending"]
  /\ flight = [a \in Agents |-> NoFlight]
  /\ request = [a \in Agents |-> NoRequest]
  /\ calls = [a \in Agents |-> 0]
  /\ startup = [a \in Agents |-> "none"]
  /\ scheduler = "none"
  /\ closer = "none"
  /\ source = "open"
  /\ revoked = [a \in Agents |-> 0]
  /\ reader = [r \in Readers |-> Idle]

-----------------------------------------------------------------------------
(* Leases                                                                  *)

Lapsed(s) == wall >= s.doc.expires \/ mono >= s.deadline

\* _expire: what it leaves of an agent's snapshot and state.
Unexpired(a) == IF snapshot[a] # None /\ Lapsed(snapshot[a]) THEN None ELSE snapshot[a]

expire(a) ==
  /\ snapshot' = [snapshot EXCEPT ![a] = Unexpired(a)]
  /\ state' = [state EXCEPT ![a] = IF Unexpired(a) = snapshot[a] THEN @ ELSE "expired"]

\* _fence: the anti-rollback fields stay.
fence(a) ==
  /\ snapshot' = [snapshot EXCEPT ![a] = None]
  /\ state' = [state EXCEPT ![a] = "unavailable"]

clear_all(why) ==
  /\ snapshot' = [a \in Agents |-> None]
  /\ state' = [a \in Agents |-> why]

Tick ==
  /\ mono < MaxTime /\ wall < MaxTime
  /\ mono' = mono + 1
  /\ wall' = wall + 1
  /\ UNCHANGED <<phase, entries, tasks, startup, scheduler, closing, revoked, reader>>

\* The wall clock is set, back or forth; the monotonic clock is not.
WallSet ==
  /\ wall' \in 0 .. MaxTime
  /\ UNCHANGED <<phase, mono, entries, tasks, startup, scheduler, closing, revoked,
                 reader>>

-----------------------------------------------------------------------------
(* Reading                                                                 *)

Status(a) ==
  /\ expire(a)
  /\ UNCHANGED <<phase, clocks, installed, deadline, tasks, startup, scheduler,
                 closing, revoked, reader>>

\* get_policy, at the start of an evaluation; it raises unless a live snapshot
\* is there.
GetPolicy(r, a) ==
  /\ phase = "running"
  /\ reader[r] = Idle
  /\ expire(a)
  /\ reader' = IF Unexpired(a) = None THEN reader
               ELSE [reader EXCEPT ![r] = [pc |-> "holding", agent |-> a,
                                           held |-> Unexpired(a)]]
  /\ UNCHANGED <<phase, clocks, installed, deadline, tasks, startup, scheduler,
                 closing, revoked>>

\* assert_current compares the object the evaluation read, not its content.
IsCurrent(a, s) == Unexpired(a) # None /\ Unexpired(a).id = s.id

\* assert_current as the last gate before the evaluation's verdict is used;
\* a gate that fails raises and the verdict is lost.
AssertCurrent(r) ==
  /\ reader[r].pc = "holding"
  /\ LET a == reader[r].agent
     IN  \/ /\ phase = "running" /\ IsCurrent(a, reader[r].held)
            /\ expire(a)
            /\ reader' = [reader EXCEPT ![r].pc = "acted"]
         \/ /\ phase = "running" /\ ~IsCurrent(a, reader[r].held)
            /\ expire(a)
            /\ reader' = [reader EXCEPT ![r] = Idle]
         \/ /\ phase # "running"
            /\ reader' = [reader EXCEPT ![r] = Idle]
            /\ UNCHANGED <<snapshot, state>>
  /\ UNCHANGED <<phase, clocks, installed, deadline, tasks, startup, scheduler,
                 closing, revoked>>

-----------------------------------------------------------------------------
(* Refreshing                                                              *)

\* _flight: one refresh task per agent, shared by everyone who asks.
begins(S) ==
  flight' = [b \in Agents |->
              IF b \in S /\ flight[b] = NoFlight /\ calls[b] < MaxRequests
              THEN [NoFlight EXCEPT !.pc = "created"] ELSE flight[b]]

Refresh(a) ==
  /\ phase = "running"
  /\ begins({a})
  /\ UNCHANGED <<phase, clocks, entries, request, calls, startup, scheduler, closing,
                 revoked, reader>>

\* A turn of _run: the regular poll refreshes every agent, a lease-aware one
\* some of them.  The task does not look at the phase.
SchedulerPolls(S) ==
  /\ scheduler = "alive"
  /\ begins(S)
  /\ UNCHANGED <<phase, clocks, entries, request, calls, startup, scheduler, closing,
                 revoked, reader>>

\* _run ends with an exception, which only a running poller fences.
SchedulerFails ==
  /\ scheduler = "alive"
  /\ scheduler' = "done"
  /\ \/ /\ phase = "running"
        /\ phase' = "failed"
        /\ clear_all("failed")
     \/ /\ phase # "running"
        /\ UNCHANGED <<phase, snapshot, state>>
  /\ UNCHANGED <<clocks, installed, deadline, tasks, startup, closing, revoked, reader>>

\* A flight ends and leaves _flights; start notes how it went.
lands(a, outcome) ==
  /\ flight' = [flight EXCEPT ![a] = NoFlight]
  /\ startup' = [startup EXCEPT ![a] = IF @ = "pending" THEN outcome ELSE @]

\* _refresh up to its wait: a request still lingering means busy.
FlightBegins(a) ==
  /\ flight[a].pc = "created" /\ ~flight[a].cancelled
  /\ expire(a)
  /\ \/ /\ request[a] # NoRequest
        /\ lands(a, "failed")
        /\ UNCHANGED <<request, calls>>
     \/ /\ request[a] = NoRequest
        /\ calls' = [calls EXCEPT ![a] = @ + 1]
        /\ request' = [request EXCEPT ![a] = [NoRequest EXCEPT !.pc = "queued"]]
        /\ flight' = [flight EXCEPT ![a].pc = "waiting",
                        ![a].etag = IF Unexpired(a) = None THEN NoDoc ELSE Unexpired(a).doc]
        /\ UNCHANGED startup
  /\ UNCHANGED <<phase, clocks, installed, deadline, scheduler, closing, revoked, reader>>

\* _call_source gets one of the slots.
Fetch(a) ==
  /\ request[a].pc = "queued"
  /\ Cardinality({b \in Agents : request[b].pc = "fetching"}) < MaxFetches
  /\ request' = [request EXCEPT ![a].pc = "fetching"]
  /\ UNCHANGED <<phase, clocks, entries, flight, calls, startup, scheduler, closing,
                 revoked, reader>>

\* Mutant: a revocation counts only while a flight waits for it.
RequestFinishedIfAwaited(a, response) ==
  /\ request' = [request EXCEPT ![a] = NoRequest]
  /\ flight' = [flight EXCEPT ![a] =
                 IF @.pc = "waiting"
                 THEN [@ EXCEPT !.pc = "answered", !.response = response] ELSE @]
  /\ IF response.kind = "authoritative" /\ Serving /\ flight[a].pc = "waiting"
     THEN fence(a) ELSE UNCHANGED <<snapshot, state>>
  /\ revoked' = IF response.kind = "authoritative"
                THEN [revoked EXCEPT ![a] = calls[a]] ELSE revoked
  /\ UNCHANGED <<phase, clocks, installed, deadline, calls, startup, scheduler,
                 closing, reader>>

\* The request task ends and _request_finished runs.  A flight still waiting
\* for it will see the response.
RequestFinished(a, response) ==
  /\ request' = [request EXCEPT ![a] = NoRequest]
  /\ flight' = [flight EXCEPT ![a] =
                 IF @.pc = "waiting"
                 THEN [@ EXCEPT !.pc = "answered", !.response = response] ELSE @]
  /\ \/ /\ response.kind = "authoritative" /\ Serving
        /\ fence(a)
     \/ /\ ~(response.kind = "authoritative" /\ Serving)
        /\ UNCHANGED <<snapshot, state>>
  /\ revoked' = IF response.kind = "authoritative"
                THEN [revoked EXCEPT ![a] = calls[a]] ELSE revoked
  /\ UNCHANGED <<phase, clocks, installed, deadline, calls, startup, scheduler,
                 closing, reader>>

SourceAnswers(a, response) ==
  /\ request[a].pc = "fetching"
  /\ RequestFinished(a, response)

RequestCancelled(a) ==
  /\ request[a].cancelled
  /\ RequestFinished(a, CancelledResponse)

\* The wait runs out: the request is cancelled but not awaited.
FlightTimesOut(a) ==
  /\ flight[a].pc = "waiting" /\ ~flight[a].cancelled
  /\ request' = [request EXCEPT ![a].cancelled = TRUE]
  /\ expire(a)
  /\ lands(a, "failed")
  /\ UNCHANGED <<phase, clocks, installed, deadline, calls, scheduler, closing, revoked,
                 reader>>

FlightCancelled(a) ==
  /\ flight[a].cancelled
  /\ lands(a, "failed")
  /\ UNCHANGED <<phase, clocks, entries, request, calls, scheduler, closing, revoked,
                 reader>>

-----------------------------------------------------------------------------
(* A flight resumes with the answer of its request                         *)

\* The lease of a document decoded now, in monotonic time.
DecodedDeadline(doc) == mono + (doc.expires - wall)

SmallerOf(x, y) == IF x <= y THEN x ELSE y

\* Mutant: a fresh lease for an old revision.
CandidateDeadlineUncapped(a, doc) == DecodedDeadline(doc)

\* A revision already installed never gets more lease than it had.
CandidateDeadline(a, doc) ==
  IF doc = installed[a] THEN SmallerOf(DecodedDeadline(doc), deadline[a])
  ELSE DecodedDeadline(doc)

\* What _decode and the revision checks let through.
Acceptable(a, response) ==
  LET doc == response.doc
  IN  /\ response.valid
      /\ doc.expires > wall
      /\ Rev(doc) >= Rev(installed[a])
      /\ Rev(doc) = Rev(installed[a]) =>
           doc = installed[a] /\ mono < CandidateDeadline(a, doc)

\* The source says the policy has not changed, in so many words or by sending
\* the same document again.
SaysUnchanged(a, response) ==
  \/ response.kind = "not_modified"
  \/ /\ response.kind = "changed"
     /\ Unexpired(a) # None
     /\ response.doc = flight[a].etag

ResumeClosed(a) ==
  /\ ~Serving
  /\ expire(a)
  /\ lands(a, "failed")
  /\ UNCHANGED <<installed, deadline>>

ResumeFailed(a) ==
  /\ Serving
  /\ flight[a].response.kind \in {"transient", "cancelled"}
  /\ expire(a)
  /\ lands(a, "failed")
  /\ UNCHANGED <<installed, deadline>>

ResumeRevoked(a) ==
  /\ Serving
  /\ flight[a].response.kind = "authoritative"
  /\ fence(a)
  /\ lands(a, "failed")
  /\ UNCHANGED <<installed, deadline>>

\* An error that is none of the poller's own: _flight_finished fences.
ResumeCrashed(a) ==
  /\ Serving
  /\ flight[a].response.kind = "crash"
  /\ snapshot' = [snapshot EXCEPT ![a] = None]
  /\ state' = [state EXCEPT ![a] = "failed"]
  /\ lands(a, "failed")
  /\ UNCHANGED <<installed, deadline>>

ResumeUnchanged(a) ==
  /\ Serving
  /\ SaysUnchanged(a, flight[a].response)
  /\ expire(a)
  /\ lands(a, IF /\ Unexpired(a) # None /\ flight[a].etag # NoDoc
                 /\ flight[a].response.doc = flight[a].etag
                 /\ flight[a].response.kind = "changed" => flight[a].response.valid
              THEN "ok" ELSE "failed")
  /\ UNCHANGED <<installed, deadline>>

installs(a, doc) ==
  /\ snapshot' = [snapshot EXCEPT ![a] =
                   Snapshot(calls[a], doc, CandidateDeadline(a, doc))]
  /\ state' = [state EXCEPT ![a] = "active"]
  /\ installed' = [installed EXCEPT ![a] = doc]
  /\ deadline' = [deadline EXCEPT ![a] = CandidateDeadline(a, doc)]

ResumeChanged(a) ==
  LET response == flight[a].response
      doc == response.doc
  IN  /\ Serving
      /\ response.kind = "changed"
      /\ ~SaysUnchanged(a, response)
      /\ \/ /\ ~Acceptable(a, response)
            /\ expire(a)
            /\ lands(a, "failed")
            /\ UNCHANGED <<installed, deadline>>
         \/ /\ Acceptable(a, response)
            /\ doc = installed[a] /\ Unexpired(a) # None
            /\ expire(a)
            /\ lands(a, "ok")
            /\ UNCHANGED <<installed, deadline>>
         \/ /\ Acceptable(a, response)
            /\ ~(doc = installed[a] /\ Unexpired(a) # None)
            /\ installs(a, doc)
            /\ lands(a, "ok")

FlightResumes(a) ==
  /\ flight[a].pc = "answered" /\ ~flight[a].cancelled
  /\ \/ ResumeClosed(a)
     \/ ResumeFailed(a)
     \/ ResumeRevoked(a)
     \/ ResumeCrashed(a)
     \/ ResumeUnchanged(a)
     \/ ResumeChanged(a)
  /\ UNCHANGED <<phase, clocks, request, calls, scheduler, closing, revoked, reader>>

-----------------------------------------------------------------------------
(* Starting and closing                                                    *)

Start ==
  /\ phase = "created"
  /\ phase' = "starting"
  /\ begins(Agents)
  /\ startup' = [a \in Agents |-> "pending"]
  /\ UNCHANGED <<clocks, entries, request, calls, scheduler, closing, revoked, reader>>

\* aclose up to its await: every policy is withdrawn at once, and a close task
\* is made unless one is at work or has succeeded.
closes ==
  IF closer = "none" \/ (closer = "done" /\ phase = "close_failed")
  THEN /\ phase' = "closing"
       /\ clear_all("closed")
       /\ closer' = "created"
  ELSE UNCHANGED <<phase, snapshot, state, closer>>

Aclose ==
  /\ closes
  /\ UNCHANGED <<clocks, installed, deadline, tasks, startup, scheduler, source, revoked,
                 reader>>

\* start resumes once every first refresh has ended, or is cancelled before.
StartEnds ==
  /\ \A a \in Agents : startup[a] \in {"ok", "failed"}
  /\ \/ /\ \E a \in Agents : startup[a] = "failed"
        /\ closes
        /\ UNCHANGED scheduler
     \/ /\ \A a \in Agents : startup[a] = "ok"
        /\ phase = "starting"
        /\ phase' = "running"
        /\ scheduler' = "alive"
        /\ UNCHANGED <<snapshot, state, closer>>
     \/ /\ \A a \in Agents : startup[a] = "ok"
        /\ phase # "starting"
        /\ UNCHANGED <<phase, snapshot, state, closer, scheduler>>
  /\ startup' = [a \in Agents |-> "done"]
  /\ UNCHANGED <<clocks, installed, deadline, tasks, source, revoked, reader>>

StartCancelled ==
  /\ \E a \in Agents : startup[a] = "pending"
  /\ closes
  /\ startup' = [a \in Agents |-> "done"]
  /\ UNCHANGED <<clocks, installed, deadline, tasks, scheduler, source, revoked, reader>>

\* _close up to its first wait: everything that runs is cancelled.
CloseCancels ==
  /\ closer = "created"
  /\ closer' = "draining"
  /\ flight' = [a \in Agents |-> IF flight[a] = NoFlight THEN NoFlight
                                 ELSE [flight[a] EXCEPT !.cancelled = TRUE]]
  /\ request' = [a \in Agents |-> IF request[a] = NoRequest THEN NoRequest
                                  ELSE [request[a] EXCEPT !.cancelled = TRUE]]
  /\ scheduler' = IF scheduler = "alive" THEN "cancelling" ELSE scheduler
  /\ UNCHANGED <<phase, clocks, entries, calls, startup, source, revoked, reader>>

SchedulerCancelled ==
  /\ scheduler = "cancelling"
  /\ scheduler' = "done"
  /\ UNCHANGED <<phase, clocks, entries, tasks, startup, closing, revoked, reader>>

Drained ==
  /\ \A a \in Agents : flight[a] = NoFlight /\ request[a] = NoRequest
  /\ scheduler \in {"none", "done"}

\* Mutant: a wait without its timeout.
CloseSourceWhenDrained ==
  /\ closer = "draining" /\ Drained
  /\ closer' = "source_drained"
  /\ source' = IF source \in {"open", "cancelled"} THEN "closing" ELSE source
  /\ UNCHANGED <<phase, clocks, entries, tasks, startup, scheduler, revoked, reader>>

\* The first wait of _close ends, drained or at its timeout; source.aclose is
\* called unless an earlier call is still good.
CloseSource ==
  /\ closer = "draining"
  /\ closer' = IF Drained THEN "source_drained" ELSE "source_pending"
  /\ source' = IF source \in {"open", "cancelled"} THEN "closing" ELSE source
  /\ UNCHANGED <<phase, clocks, entries, tasks, startup, scheduler, revoked, reader>>

SourceCloses(outcome) ==
  /\ source \in {"closing", "cancelling"}
  /\ source' = outcome
  /\ outcome = "cancelled" => source = "cancelling"
  /\ UNCHANGED <<phase, clocks, entries, tasks, startup, scheduler, closer, revoked,
                 reader>>

\* The second wait of _close ends, and _close_finished runs.
CloseEnds ==
  /\ closer \in {"source_drained", "source_pending"}
  /\ closer' = "done"
  /\ source' = IF source = "closing" THEN "cancelling" ELSE source
  /\ \/ /\ closer = "source_drained" /\ source = "closed"
        /\ phase' = "closed"
        /\ UNCHANGED state
     \/ /\ ~(closer = "source_drained" /\ source = "closed")
        /\ phase' = "close_failed"
        /\ state' = [a \in Agents |-> "failed"]
  /\ UNCHANGED <<clocks, snapshot, installed, deadline, tasks, startup, scheduler,
                 revoked, reader>>

-----------------------------------------------------------------------------
Next ==
  \/ Tick
  \/ WallSet
  \/ \E a \in Agents : Status(a)
  \/ \E r \in Readers, a \in Agents : GetPolicy(r, a)
  \/ \E r \in Readers : AssertCurrent(r)
  \/ \E a \in Agents : Refresh(a)
  \/ \E S \in SUBSET Agents : SchedulerPolls(S)
  \/ SchedulerFails
  \/ \E a \in Agents : FlightBegins(a)
  \/ \E a \in Agents : Fetch(a)
  \/ \E a \in Agents : \E response \in Responses : SourceAnswers(a, response)
  \/ \E a \in Agents : RequestCancelled(a)
  \/ \E a \in Agents : FlightTimesOut(a)
  \/ \E a \in Agents : FlightCancelled(a)
  \/ \E a \in Agents : FlightResumes(a)
  \/ Start
  \/ Aclose
  \/ StartEnds
  \/ StartCancelled
  \/ CloseCancels
  \/ SchedulerCancelled
  \/ CloseSource
  \/ \E outcome \in {"closed", "failed", "cancelled"} : SourceCloses(outcome)
  \/ CloseEnds

Spec == Init /\ [][Next]_vars

\* The loop runs what is ready and its timers fire; the source may never answer.
Fairness ==
  /\ \A a \in Agents :
       /\ WF_vars(FlightBegins(a))
       /\ WF_vars(FlightTimesOut(a))
       /\ WF_vars(FlightCancelled(a))
       /\ WF_vars(FlightResumes(a))
  /\ WF_vars(StartEnds)
  /\ WF_vars(CloseCancels)
  /\ WF_vars(SchedulerCancelled)
  /\ WF_vars(CloseSource)
  /\ WF_vars(CloseEnds)

FairSpec == Spec /\ Fairness

-----------------------------------------------------------------------------
(* Properties                                                              *)

Snapshots == {None} \cup [id : Nat \ {0}, doc : Docs, deadline : Nat]

Flights ==
  [pc : {"none", "created", "waiting", "answered"}, etag : Docs \cup {NoDoc},
   response : Responses \cup {NoResponse, CancelledResponse}, cancelled : BOOLEAN]

TypeOK ==
  /\ phase \in Phases
  /\ mono \in Nat /\ wall \in Nat
  /\ snapshot \in [Agents -> Snapshots]
  /\ installed \in [Agents -> Docs \cup {NoDoc}]
  /\ deadline \in [Agents -> Nat]
  /\ state \in [Agents -> States]
  /\ flight \in [Agents -> Flights]
  /\ request \in [Agents -> [pc : {"none", "queued", "fetching"}, cancelled : BOOLEAN]]
  /\ calls \in [Agents -> Nat]
  /\ startup \in [Agents -> {"none", "pending", "ok", "failed", "done"}]
  /\ scheduler \in {"none", "alive", "cancelling", "done"}
  /\ closer \in {"none", "created", "draining", "source_drained", "source_pending", "done"}
  /\ source \in {"open", "closing", "cancelling", "closed", "failed", "cancelled"}
  /\ revoked \in [Agents -> Nat]
  /\ reader \in [Readers -> {Idle} \cup [pc : {"holding", "acted"}, agent : Agents,
                                         held : Snapshots]]

\* What a step leaves in use was brought after the last revocation.
NothingRevokedIsUsed ==
  /\ \A a \in Agents : snapshot'[a] # None =>
       snapshot'[a].id > revoked'[a] /\ phase' \in {"starting", "running"}
  /\ \A r \in Readers : reader[r].pc = "holding" /\ reader'[r].pc = "acted" =>
       reader[r].held.id > revoked[reader[r].agent] /\ phase = "running"

(* An authoritative failure, however late it arrives, ends the use of      *)
(* every policy that an earlier source call brought: it is withdrawn, and  *)
(* no evaluation that read it before passes its last gate, not even when   *)
(* the same document was installed again since (assert_current).  Closing, *)
(* a failed start and a failed scheduler withdraw every policy, and no     *)
(* refresh under way brings one back (the phase check after the wait in    *)
(* _refresh).                                                              *)
RevocationHolds == [][NothingRevokedIsUsed]_vars

\* What a step does to the document an agent last installed, and to its lease.
RevisionOnlyGrows ==
  \A a \in Agents :
    /\ Rev(installed'[a]) >= Rev(installed[a])
    /\ installed[a] # NoDoc /\ Rev(installed'[a]) = Rev(installed[a]) =>
         installed'[a] = installed[a] /\ deadline'[a] <= deadline[a]

(* No rollback, across expiry and revocation: an agent's revision never    *)
(* goes down, one revision is one document, and its lease never grows,     *)
(* whatever the wall clock does.                                           *)
NoRollback == [][RevisionOnlyGrows]_vars

(* Every refresh ends although the source never answers.  A close that was *)
(* asked for ends: closed, with no refresh, source call or scheduler left  *)
(* and the source closed, or close_failed.                                 *)
RefreshesAndCloseEnd ==
  /\ \A a \in Agents : flight[a] # NoFlight ~> flight[a] = NoFlight
  /\ closer = "created" ~>
       closer = "done" /\ (phase = "closed" => Drained /\ source = "closed")
=============================================================================

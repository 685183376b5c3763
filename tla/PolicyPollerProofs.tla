------------------------- MODULE PolicyPollerProofs -------------------------
(***************************************************************************)
(* Proofs about PolicyPoller: for any number of agents, evaluations and    *)
(* documents, and whatever the source, the clocks and the close do, a      *)
(* revocation ends the use of every policy brought before it, and no agent *)
(* is rolled back to an older revision or given a longer lease.            *)
(***************************************************************************)
EXTENDS PolicyPoller, TLAPS

-----------------------------------------------------------------------------
(* The inductive invariant                                                 *)

\* A flight that waits has its source call under way.  The call it was made
\* for is the newest one until the flight ends, and no revocation is newer
\* than a call under way, or than an answer that is not a revocation itself.
Calls(a) ==
  /\ revoked[a] <= calls[a]
  /\ request[a] # NoRequest => request[a].pc # "none" /\ revoked[a] < calls[a]
  /\ flight[a].pc = "waiting" => request[a] # NoRequest
  /\ flight[a].pc = "answered" =>
       /\ request[a] = NoRequest
       /\ flight[a].response.kind = "authoritative" \/ revoked[a] < calls[a]

\* A policy in use was brought by a call after the last revocation, and only
\* a poller that serves has one.
InUse(a) == snapshot[a] # None => snapshot[a].id > revoked[a] /\ Serving

\* A poller that closes no longer serves.
ClosedIsClosed == closer # "none" => phase \in {"closing", "closed", "close_failed"}

Inv ==
  /\ TypeOK
  /\ ClosedIsClosed
  /\ \A a \in Agents : Calls(a) /\ InUse(a)

-----------------------------------------------------------------------------
(* What the helpers do                                                     *)

\* A step that brings no policy.
Withdraws ==
  /\ snapshot' \in [Agents -> Snapshots]
  /\ state' \in [Agents -> States]
  /\ \A b \in Agents : snapshot'[b] \in {snapshot[b], None}

(* A snapshot that did not lapse is the one that was there.                *)
LEMMA UnexpiredIs ==
  ASSUME TypeOK, NEW a \in Agents
  PROVE  Unexpired(a) \in {snapshot[a], None} /\ Unexpired(a) \in Snapshots
<1>1. None \in Snapshots
  BY DEF Snapshots
<1>2. snapshot[a] \in Snapshots
  BY DEF TypeOK
<1> QED BY <1>1, <1>2, Zenon DEF Unexpired

(* _expire, _fence and clearing everything only withdraw.                  *)
LEMMA Withdrawals ==
  ASSUME TypeOK,
         \/ \E a \in Agents : expire(a) \/ fence(a)
         \/ \E why \in States : clear_all(why)
         \/ \E a \in Agents : snapshot' = [snapshot EXCEPT ![a] = None]
                              /\ state' = [state EXCEPT ![a] = "failed"]
         \/ UNCHANGED <<snapshot, state>>
  PROVE  Withdraws
<1>1. None \in Snapshots /\ {"expired", "unavailable", "failed"} \subseteq States
  BY DEF Snapshots, States
<1>2. snapshot \in [Agents -> Snapshots] /\ state \in [Agents -> States]
  BY DEF TypeOK
<1>3. ASSUME NEW a \in Agents, expire(a) PROVE Withdraws
  <2>1. PICK u \in {snapshot[a], None} : u = Unexpired(a)
    BY UnexpiredIs
  <2>2. snapshot' = [snapshot EXCEPT ![a] = u]
    BY <1>3, <2>1 DEF expire
  <2>3. state' \in [Agents -> States]
    BY <1>1, <1>2, <1>3 DEF expire
  <2> QED BY <1>1, <1>2, <2>1, <2>2, <2>3 DEF Withdraws
<1>4. ASSUME NEW a \in Agents, fence(a) PROVE Withdraws
  BY <1>1, <1>2, <1>4 DEF fence, Withdraws
<1>5. ASSUME NEW why \in States, clear_all(why) PROVE Withdraws
  BY <1>1, <1>2, <1>5 DEF clear_all, Withdraws
<1>6. ASSUME NEW a \in Agents, snapshot' = [snapshot EXCEPT ![a] = None],
             state' = [state EXCEPT ![a] = "failed"]
      PROVE  Withdraws
  BY <1>1, <1>2, <1>6 DEF Withdraws
<1>7. ASSUME UNCHANGED <<snapshot, state>> PROVE Withdraws
  BY <1>2, <1>7 DEF Withdraws
<1> QED BY <1>3, <1>4, <1>5, <1>6, <1>7

(* What is withdrawn is not in use, so a step that brings no policy keeps  *)
(* InUse unless it stops serving or revokes.                               *)
LEMMA WithdrawKeepsUse ==
  ASSUME Inv, Withdraws, UNCHANGED revoked, Serving => Serving'
  PROVE  \A a \in Agents : InUse(a)'
<1>1. TAKE a \in Agents
<1>2. snapshot'[a] \in {snapshot[a], None} /\ InUse(a)
  BY DEF Withdraws, Inv
<1> QED BY <1>2 DEF InUse

(* Once everything is withdrawn nothing is in use.                         *)
LEMMA ClearedIsUnused ==
  ASSUME NEW why, clear_all(why)
  PROVE  \A a \in Agents : InUse(a)'
BY DEF clear_all, InUse

(* Steps that touch no task keep what is known of the calls.               *)
LEMMA CallsKept ==
  ASSUME Inv, UNCHANGED <<tasks, revoked>>
  PROVE  \A a \in Agents : Calls(a)'
BY DEF Inv, Calls, tasks

(* The steps of the closing code keep a closed poller closed.              *)
LEMMA ClosedKept ==
  ASSUME Inv, UNCHANGED <<phase, closer>>
  PROVE  ClosedIsClosed'
BY DEF Inv, ClosedIsClosed

\* The variables outside an agent's entry and tasks.
OthersOK ==
  /\ phase \in Phases
  /\ mono \in Nat /\ wall \in Nat
  /\ startup \in [Agents -> {"none", "pending", "ok", "failed", "done"}]
  /\ scheduler \in {"none", "alive", "cancelling", "done"}
  /\ closer \in {"none", "created", "draining", "source_drained", "source_pending", "done"}
  /\ source \in {"open", "closing", "cancelling", "closed", "failed", "cancelled"}
  /\ revoked \in [Agents -> Nat]
  /\ reader \in [Readers -> {Idle} \cup [pc : {"holding", "acted"}, agent : Agents,
                                         held : Snapshots]]

TasksOK ==
  /\ flight \in [Agents -> Flights]
  /\ request \in [Agents -> [pc : {"none", "queued", "fetching"}, cancelled : BOOLEAN]]
  /\ calls \in [Agents -> Nat]

LeasesOK ==
  /\ installed \in [Agents -> Docs \cup {NoDoc}]
  /\ deadline \in [Agents -> Nat]

(* The parts of the type invariant make it.                                *)
LEMMA TypeParts ==
  /\ TypeOK <=> /\ OthersOK /\ TasksOK /\ LeasesOK
                /\ snapshot \in [Agents -> Snapshots] /\ state \in [Agents -> States]
  /\ TypeOK' <=> /\ OthersOK' /\ TasksOK' /\ LeasesOK'
                 /\ snapshot' \in [Agents -> Snapshots] /\ state' \in [Agents -> States]
BY Zenon DEF TypeOK, OthersOK, TasksOK, LeasesOK

-----------------------------------------------------------------------------
(* Every action keeps the invariant                                        *)

(* It holds of a poller that has just been built.                          *)
LEMMA InitInv == Init => Inv
<1> SUFFICES ASSUME Init PROVE Inv
  OBVIOUS
<1>1. None \in Snapshots /\ NoFlight \in Flights
      /\ NoRequest \in [pc : {"none", "queued", "fetching"}, cancelled : BOOLEAN]
  BY DEF Snapshots, NoFlight, Flights, NoRequest
<1>2. OthersOK
  BY DEF Init, OthersOK, Phases
<1>3. TasksOK /\ LeasesOK
  BY <1>1 DEF Init, TasksOK, LeasesOK
<1>4. snapshot \in [Agents -> Snapshots] /\ state \in [Agents -> States]
  BY <1>1 DEF Init, States
<1>5. \A a \in Agents : Calls(a) /\ InUse(a)
  BY DEF Init, Calls, InUse, NoRequest, NoFlight
<1>6. ClosedIsClosed
  BY DEF Init, ClosedIsClosed
<1> QED BY <1>2, <1>3, <1>4, <1>5, <1>6, TypeParts DEF Inv

(* The clocks move, and a policy is read, checked or looked at: nothing is *)
(* brought and no task moves.                                              *)
LEMMA ReadingInv ==
  ASSUME Inv,
         \/ Tick \/ WallSet
         \/ \E a \in Agents : Status(a)
         \/ \E r \in Readers, a \in Agents : GetPolicy(r, a)
         \/ \E r \in Readers : AssertCurrent(r)
  PROVE  Inv'
<1>1. TypeOK
  BY DEF Inv
<1>2. OthersOK /\ TasksOK /\ LeasesOK
  BY <1>1, TypeParts
<1>3. Idle \in {Idle} \cup [pc : {"holding", "acted"}, agent : Agents, held : Snapshots]
  OBVIOUS
<1>4. ASSUME Withdraws,
             UNCHANGED <<phase, installed, deadline, tasks, startup, scheduler, closing, revoked>>,
             mono' \in Nat, wall' \in Nat,
             reader' \in [Readers -> {Idle} \cup [pc : {"holding", "acted"}, agent : Agents,
                                                 held : Snapshots]]
      PROVE  Inv'
  <2>1. OthersOK' /\ TasksOK' /\ LeasesOK'
    BY <1>2, <1>4 DEF OthersOK, TasksOK, LeasesOK, tasks, closing
  <2>2. TypeOK'
    BY <1>4, <2>1, TypeParts DEF Withdraws
  <2>3. ClosedIsClosed'
    BY <1>4, ClosedKept DEF closing
  <2>4. \A a \in Agents : Calls(a)' /\ InUse(a)'
    BY <1>4, CallsKept, WithdrawKeepsUse DEF Serving
  <2> QED BY <2>2, <2>3, <2>4 DEF Inv
<1>5. CASE Tick \/ WallSet
  <2>1. Withdraws
    BY <1>1, <1>5, Withdrawals DEF Tick, WallSet, entries
  <2> QED BY <1>2, <1>4, <1>5, <2>1, BoundsAssumption
          DEF Tick, WallSet, entries, OthersOK
<1>6. ASSUME NEW a \in Agents, Status(a) PROVE Inv'
  <2>1. Withdraws
    BY <1>1, <1>6, Withdrawals DEF Status
  <2> QED BY <1>2, <1>4, <1>6, <2>1 DEF Status, OthersOK, clocks
<1>7. ASSUME NEW r \in Readers, NEW a \in Agents, GetPolicy(r, a) PROVE Inv'
  <2>1. Withdraws
    BY <1>1, <1>7, Withdrawals DEF GetPolicy
  <2>2. Unexpired(a) \in Snapshots
    BY <1>1, UnexpiredIs
  <2>3. [pc |-> "holding", agent |-> a, held |-> Unexpired(a)]
          \in [pc : {"holding", "acted"}, agent : Agents, held : Snapshots]
    BY <2>2
  <2>4. reader' \in [Readers -> {Idle} \cup [pc : {"holding", "acted"}, agent : Agents,
                                             held : Snapshots]]
    BY <1>2, <1>7, <2>3 DEF GetPolicy, OthersOK
  <2> QED BY <1>2, <1>4, <1>7, <2>1, <2>4 DEF GetPolicy, OthersOK, clocks
<1>8. ASSUME NEW r \in Readers, AssertCurrent(r) PROVE Inv'
  <2>1. reader[r].pc = "holding" /\ reader[r] \in {Idle} \cup
          [pc : {"holding", "acted"}, agent : Agents, held : Snapshots]
    BY <1>2, <1>8 DEF AssertCurrent, OthersOK
  <2>2. reader[r] \in [pc : {"holding", "acted"}, agent : Agents, held : Snapshots]
    BY <2>1 DEF Idle
  <2>3. [reader[r] EXCEPT !.pc = "acted"]
          \in [pc : {"holding", "acted"}, agent : Agents, held : Snapshots]
    BY <2>2
  <2>4. Withdraws
    BY <1>1, <1>8, <2>2, Withdrawals DEF AssertCurrent
  <2>5. reader' = [reader EXCEPT ![r] = [reader[r] EXCEPT !.pc = "acted"]]
          \/ reader' = [reader EXCEPT ![r] = Idle]
    BY <1>8 DEF AssertCurrent
  <2>6. reader' \in [Readers -> {Idle} \cup [pc : {"holding", "acted"}, agent : Agents,
                                             held : Snapshots]]
    BY <1>2, <2>3, <2>5 DEF OthersOK
  <2> QED BY <1>2, <1>4, <1>8, <2>4, <2>6 DEF AssertCurrent, OthersOK, clocks
<1> QED BY <1>5, <1>6, <1>7, <1>8

(* A step that brings no policy keeps the invariant when it keeps what is  *)
(* known of the tasks, does not revoke and does not stop serving.          *)
LEMMA WithdrawingInv ==
  ASSUME Inv, Withdraws, OthersOK', TasksOK', \A a \in Agents : Calls(a)',
         UNCHANGED <<installed, deadline, revoked>>,
         Serving => Serving', ClosedIsClosed'
  PROVE  Inv'
<1>1. LeasesOK'
  BY TypeParts DEF Inv, LeasesOK
<1>2. TypeOK'
  BY <1>1, TypeParts DEF Withdraws
<1>3. \A a \in Agents : InUse(a)'
  BY WithdrawKeepsUse
<1> QED BY <1>2, <1>3 DEF Inv

(* _flight makes tasks, which have not called the source yet.              *)
LEMMA BeginsKeeps ==
  ASSUME Inv, NEW S, begins(S), UNCHANGED <<request, calls, revoked>>
  PROVE  TasksOK' /\ \A a \in Agents : Calls(a)'
<1>1. TasksOK
  BY TypeParts DEF Inv
<1>2. [NoFlight EXCEPT !.pc = "created"] \in Flights
      /\ [NoFlight EXCEPT !.pc = "created"].pc = "created"
  BY DEF NoFlight, Flights
<1>3. /\ flight' \in [Agents -> Flights]
      /\ \A a \in Agents : flight'[a] = flight[a] \/ flight'[a].pc = "created"
  BY <1>1, <1>2 DEF begins, TasksOK
<1>4. TasksOK'
  BY <1>1, <1>3 DEF TasksOK
<1>5. ASSUME NEW a \in Agents PROVE Calls(a)'
  <2>1. Calls(a)
    BY DEF Inv
  <2>2. CASE flight'[a] = flight[a]
    BY <2>1, <2>2 DEF Calls
  <2>3. CASE flight'[a].pc = "created"
    BY <2>1, <2>3 DEF Calls
  <2> QED BY <1>3, <2>2, <2>3
<1> QED BY <1>4, <1>5

(* Somebody asks for a refresh.                                            *)
LEMMA AskInv ==
  ASSUME Inv, (\E a \in Agents : Refresh(a)) \/ (\E S \in SUBSET Agents : SchedulerPolls(S))
              \/ Start
  PROVE  Inv'
<1>1. OthersOK /\ TypeOK /\ ClosedIsClosed
  BY TypeParts DEF Inv
<1>2. TasksOK' /\ \A a \in Agents : Calls(a)'
  BY BeginsKeeps DEF Refresh, SchedulerPolls, Start
<1>3. Withdraws
  BY <1>1, Withdrawals DEF Refresh, SchedulerPolls, Start, entries
<1>4. UNCHANGED <<installed, deadline, revoked>>
  BY DEF Refresh, SchedulerPolls, Start, entries
<1>5. OthersOK' /\ (Serving => Serving') /\ ClosedIsClosed'
  BY <1>1 DEF Refresh, SchedulerPolls, Start, OthersOK, Phases, Serving, clocks, closing,
              ClosedIsClosed
<1> QED BY <1>2, <1>3, <1>4, <1>5, WithdrawingInv

(* A flight that ends leaves its agent without one.                        *)
LEMMA LandsKeeps ==
  ASSUME TypeOK, NEW a \in Agents, NEW outcome \in {"ok", "failed"}, lands(a, outcome)
  PROVE  /\ flight' \in [Agents -> Flights]
         /\ flight'[a] = NoFlight
         /\ \A b \in Agents \ {a} : flight'[b] = flight[b]
         /\ startup' \in [Agents -> {"none", "pending", "ok", "failed", "done"}]
<1>1. NoFlight \in Flights
  BY DEF NoFlight, Flights
<1>2. flight \in [Agents -> Flights]
      /\ startup \in [Agents -> {"none", "pending", "ok", "failed", "done"}]
  BY DEF TypeOK
<1> QED BY <1>1, <1>2 DEF lands

(* _refresh up to its wait: it makes the newest call, or finds the last    *)
(* one lingering.                                                          *)
LEMMA FlightBeginsInv ==
  ASSUME Inv, NEW a \in Agents, FlightBegins(a)
  PROVE  Inv'
<1>1. TypeOK /\ OthersOK /\ TasksOK /\ ClosedIsClosed /\ \A b \in Agents : Calls(b)
  BY TypeParts DEF Inv
<1>2. Withdraws
  BY <1>1, Withdrawals DEF FlightBegins
<1>3. UNCHANGED <<phase, mono, wall, installed, deadline, scheduler, closer, source, revoked, reader>>
  BY DEF FlightBegins, clocks, closing
<1>4. ClosedIsClosed' /\ (Serving => Serving')
  BY <1>1, <1>3 DEF ClosedIsClosed, Serving
<1>5. CASE lands(a, "failed") /\ UNCHANGED <<request, calls>>
  <2>1. /\ flight' \in [Agents -> Flights]
        /\ flight'[a] = NoFlight
        /\ \A b \in Agents \ {a} : flight'[b] = flight[b]
        /\ startup' \in [Agents -> {"none", "pending", "ok", "failed", "done"}]
    BY <1>1, <1>5, LandsKeeps
  <2>2. OthersOK' /\ TasksOK'
    BY <1>1, <1>3, <1>5, <2>1 DEF OthersOK, TasksOK
  <2>3. \A b \in Agents : Calls(b)'
    BY <1>1, <1>3, <1>5, <2>1 DEF Calls, NoFlight
  <2> QED BY <1>2, <1>3, <1>4, <2>2, <2>3, WithdrawingInv
<1>6. CASE /\ request[a] = NoRequest
           /\ calls' = [calls EXCEPT ![a] = @ + 1]
           /\ request' = [request EXCEPT ![a] = [NoRequest EXCEPT !.pc = "queued"]]
           /\ flight' = [flight EXCEPT ![a].pc = "waiting",
                           ![a].etag = IF Unexpired(a) = None THEN NoDoc ELSE Unexpired(a).doc]
           /\ UNCHANGED startup
  <2>1. PICK e \in Docs \cup {NoDoc} : e = IF Unexpired(a) = None THEN NoDoc ELSE Unexpired(a).doc
    <3>1. Unexpired(a) \in Snapshots
      BY <1>1, UnexpiredIs
    <3>2. Unexpired(a) # None => Unexpired(a).doc \in Docs
      BY <3>1 DEF Snapshots
    <3> QED BY <3>2
  <2>2. flight[a] \in Flights
    BY <1>1 DEF TasksOK
  <2>3. [flight[a] EXCEPT !.pc = "waiting", !.etag = e] \in Flights
        /\ [flight[a] EXCEPT !.pc = "waiting", !.etag = e].pc = "waiting"
    BY <2>2 DEF Flights
  <2>4. flight' = [flight EXCEPT ![a] = [flight[a] EXCEPT !.pc = "waiting", !.etag = e]]
    BY <1>1, <1>6, <2>1 DEF TasksOK
  <2>5. /\ flight' \in [Agents -> Flights] /\ flight'[a].pc = "waiting"
        /\ \A b \in Agents \ {a} : flight'[b] = flight[b]
    BY <1>1, <2>3, <2>4 DEF TasksOK
  <2>6. /\ request' \in [Agents -> [pc : {"none", "queued", "fetching"}, cancelled : BOOLEAN]]
        /\ request'[a] # NoRequest /\ request'[a].pc = "queued"
        /\ \A b \in Agents \ {a} : request'[b] = request[b]
    BY <1>1, <1>6 DEF TasksOK, NoRequest
  <2>7. /\ calls' \in [Agents -> Nat] /\ calls'[a] = calls[a] + 1
        /\ \A b \in Agents \ {a} : calls'[b] = calls[b]
    BY <1>1, <1>6 DEF TasksOK
  <2>8. OthersOK' /\ TasksOK'
    BY <1>1, <1>3, <1>6, <2>5, <2>6, <2>7 DEF OthersOK, TasksOK
  <2>9. ASSUME NEW b \in Agents PROVE Calls(b)'
    <3>1. CASE b = a
      <4>1. revoked[a] \in Nat /\ calls[a] \in Nat /\ revoked[a] <= calls[a]
        BY <1>1 DEF OthersOK, TasksOK, Calls
      <4> QED BY <1>3, <2>5, <2>6, <2>7, <3>1, <4>1 DEF Calls
    <3>2. CASE b # a
      BY <1>1, <1>3, <2>5, <2>6, <2>7, <3>2 DEF Calls
    <3> QED BY <3>1, <3>2
  <2> QED BY <1>2, <1>3, <1>4, <2>8, <2>9, WithdrawingInv
<1> QED BY <1>5, <1>6 DEF FlightBegins

(* A call gets its slot; a flight gives up on its call, or is cancelled.   *)
LEMMA FlightLeavesInv ==
  ASSUME Inv, NEW a \in Agents, Fetch(a) \/ FlightTimesOut(a) \/ FlightCancelled(a)
  PROVE  Inv'
<1>1. TypeOK /\ OthersOK /\ TasksOK /\ ClosedIsClosed /\ \A b \in Agents : Calls(b)
  BY TypeParts DEF Inv
<1>2. Withdraws
  BY <1>1, Withdrawals DEF Fetch, FlightTimesOut, FlightCancelled, entries
<1>3. UNCHANGED <<phase, mono, wall, installed, deadline, calls, scheduler, closer, source,
                  revoked, reader>>
  BY DEF Fetch, FlightTimesOut, FlightCancelled, clocks, closing, entries
<1>4. ClosedIsClosed' /\ (Serving => Serving')
  BY <1>1, <1>3 DEF ClosedIsClosed, Serving
<1>5. ASSUME NEW b \in Agents PROVE request[b] \in [pc : {"none", "queued", "fetching"}, cancelled : BOOLEAN]
  BY <1>1 DEF TasksOK
<1>6. /\ request' \in [Agents -> [pc : {"none", "queued", "fetching"}, cancelled : BOOLEAN]]
      /\ \A b \in Agents : \/ request'[b] = request[b]
                           \/ request[b] # NoRequest /\ request'[b] # NoRequest
                              /\ request'[b].pc # "none"
  <2>1. CASE Fetch(a)
    <3>1. request[a].pc = "queued" /\ request' = [request EXCEPT ![a] = [request[a] EXCEPT !.pc = "fetching"]]
      BY <2>1 DEF Fetch
    <3>2. [request[a] EXCEPT !.pc = "fetching"] \in [pc : {"none", "queued", "fetching"}, cancelled : BOOLEAN]
          /\ [request[a] EXCEPT !.pc = "fetching"].pc = "fetching"
      BY <1>5
    <3> QED BY <1>1, <3>1, <3>2 DEF TasksOK, NoRequest
  <2>2. CASE FlightTimesOut(a)
    <3>1. request[a] # NoRequest /\ request[a].pc # "none"
      BY <1>1, <2>2 DEF FlightTimesOut, Calls
    <3>2. request' = [request EXCEPT ![a] = [request[a] EXCEPT !.cancelled = TRUE]]
      BY <2>2 DEF FlightTimesOut
    <3>3. [request[a] EXCEPT !.cancelled = TRUE] \in [pc : {"none", "queued", "fetching"}, cancelled : BOOLEAN]
          /\ [request[a] EXCEPT !.cancelled = TRUE].pc = request[a].pc
      BY <1>5
    <3> QED BY <1>1, <3>1, <3>2, <3>3 DEF TasksOK, NoRequest
  <2>3. CASE FlightCancelled(a)
    BY <1>1, <2>3 DEF FlightCancelled, TasksOK
  <2> QED BY <2>1, <2>2, <2>3
<1>7. /\ flight' \in [Agents -> Flights]
      /\ \A b \in Agents : flight'[b] = flight[b] \/ flight'[b] = NoFlight
      /\ startup' \in [Agents -> {"none", "pending", "ok", "failed", "done"}]
  <2>1. CASE Fetch(a)
    BY <1>1, <2>1 DEF Fetch, TasksOK, OthersOK
  <2>2. CASE FlightTimesOut(a) \/ FlightCancelled(a)
    BY <1>1, <2>2, LandsKeeps DEF FlightTimesOut, FlightCancelled
  <2> QED BY <2>1, <2>2
<1>8. OthersOK' /\ TasksOK'
  BY <1>1, <1>3, <1>6, <1>7 DEF OthersOK, TasksOK
<1>9. ASSUME NEW b \in Agents PROVE Calls(b)'
  <2>1. Calls(b)
    BY <1>1
  <2>2. CASE flight'[b] = flight[b]
    BY <1>3, <1>6, <2>1, <2>2 DEF Calls
  <2>3. CASE flight'[b] = NoFlight
    BY <1>3, <1>6, <2>1, <2>3 DEF Calls, NoFlight
  <2> QED BY <1>7, <2>2, <2>3
<1> QED BY <1>2, <1>3, <1>4, <1>8, <1>9, WithdrawingInv

(* The source call ends: an authoritative failure withdraws the policy,    *)
(* whether a flight still waits for it or not.                             *)
LEMMA RequestFinishedInv ==
  ASSUME Inv, NEW a \in Agents, NEW response \in Responses \cup {CancelledResponse},
         request[a] # NoRequest, RequestFinished(a, response)
  PROVE  Inv'
<1>1. /\ TypeOK /\ OthersOK /\ TasksOK /\ LeasesOK /\ ClosedIsClosed
      /\ \A b \in Agents : Calls(b) /\ InUse(b)
  BY TypeParts DEF Inv
<1>2. UNCHANGED <<phase, mono, wall, installed, deadline, calls, startup, scheduler, closer,
                  source, reader>>
  BY DEF RequestFinished, clocks, closing
<1>3. Withdraws
  BY <1>1, Withdrawals DEF RequestFinished
<1>4. /\ request' \in [Agents -> [pc : {"none", "queued", "fetching"}, cancelled : BOOLEAN]]
      /\ request'[a] = NoRequest
      /\ \A b \in Agents \ {a} : request'[b] = request[b]
  BY <1>1 DEF RequestFinished, TasksOK, NoRequest
<1>5. /\ flight' \in [Agents -> Flights]
      /\ flight[a].pc = "waiting" => flight'[a].pc = "answered" /\ flight'[a].response = response
      /\ flight[a].pc # "waiting" => flight'[a] = flight[a]
      /\ \A b \in Agents \ {a} : flight'[b] = flight[b]
  <2>1. flight[a] \in Flights
    BY <1>1 DEF TasksOK
  <2> DEFINE seen == [flight[a] EXCEPT !.pc = "answered", !.response = response]
  <2>2. seen \in Flights /\ seen.pc = "answered" /\ seen.response = response
    BY <2>1 DEF Flights
  <2>3. flight' = [flight EXCEPT ![a] = IF flight[a].pc = "waiting" THEN seen ELSE flight[a]]
    BY DEF RequestFinished
  <2> HIDE DEF seen
  <2> QED BY <1>1, <2>1, <2>2, <2>3 DEF TasksOK
<1>6. /\ revoked' \in [Agents -> Nat]
      /\ revoked'[a] = IF response.kind = "authoritative" THEN calls[a] ELSE revoked[a]
      /\ \A b \in Agents \ {a} : revoked'[b] = revoked[b]
  BY <1>1 DEF RequestFinished, OthersOK, TasksOK
<1>7. OthersOK' /\ TasksOK' /\ LeasesOK'
  BY <1>1, <1>2, <1>4, <1>5, <1>6 DEF OthersOK, TasksOK, LeasesOK
<1>8. TypeOK'
  BY <1>3, <1>7, TypeParts DEF Withdraws
<1>9. ClosedIsClosed'
  BY <1>2, ClosedKept
<1>10. ASSUME NEW b \in Agents, b # a PROVE Calls(b)' /\ InUse(b)'
  <2>1. Calls(b)'
    BY <1>1, <1>2, <1>4, <1>5, <1>6, <1>10 DEF Calls
  <2>2. snapshot'[b] \in {snapshot[b], None}
    BY <1>3 DEF Withdraws
  <2>3. InUse(b)'
    BY <1>1, <1>2, <1>6, <1>10, <2>2 DEF InUse, Serving
  <2> QED BY <2>1, <2>3
<1>11. revoked[a] \in Nat /\ calls[a] \in Nat /\ revoked[a] < calls[a] /\ flight[a].pc # "answered"
  BY <1>1 DEF OthersOK, TasksOK, Calls
<1>12. Calls(a)'
  <2>1. revoked'[a] <= calls'[a]
    BY <1>2, <1>6, <1>11
  <2>2. flight'[a].pc = "answered" =>
          flight'[a].response.kind = "authoritative" \/ revoked'[a] < calls'[a]
    BY <1>2, <1>5, <1>6, <1>11
  <2>3. flight'[a].pc # "waiting"
    BY <1>5
  <2> QED BY <1>4, <2>1, <2>2, <2>3 DEF Calls
<1>13. InUse(a)'
  <2>1. CASE response.kind = "authoritative" /\ Serving
    BY <1>1, <2>1 DEF RequestFinished, fence, InUse, TypeOK
  <2>2. CASE response.kind = "authoritative" /\ ~Serving
    BY <1>1, <2>2 DEF RequestFinished, InUse
  <2>3. CASE response.kind # "authoritative"
    BY <1>1, <1>2, <1>6, <2>3 DEF RequestFinished, InUse, Serving
  <2> QED BY <2>1, <2>2, <2>3
<1> QED BY <1>8, <1>9, <1>10, <1>12, <1>13 DEF Inv

(* A call ends with an answer or by its cancellation.                      *)
LEMMA AnswerInv ==
  ASSUME Inv, NEW a \in Agents,
         (\E response \in Responses : SourceAnswers(a, response)) \/ RequestCancelled(a)
  PROVE  Inv'
<1>1. request[a] # NoRequest
  BY DEF SourceAnswers, RequestCancelled, NoRequest
<1> QED BY <1>1, RequestFinishedInv DEF SourceAnswers, RequestCancelled

(* A document that _decode and the revision checks let through keeps the   *)
(* types, and is given a lease that ends in the future of the wall clock.  *)
LEMMA CandidateType ==
  ASSUME TypeOK, NEW a \in Agents, NEW doc \in Docs, doc.expires > wall
  PROVE  CandidateDeadline(a, doc) \in Nat
<1>1. doc.expires \in Nat /\ wall \in Nat /\ mono \in Nat /\ deadline[a] \in Nat
  BY DocsAssumption DEF TypeOK
<1>2. DecodedDeadline(doc) \in Nat
  BY <1>1 DEF DecodedDeadline
<1> QED BY <1>1, <1>2 DEF CandidateDeadline, SmallerOf

(* An answer that brings a document is a record with one.                  *)
LEMMA ChangedHasDoc ==
  ASSUME TypeOK, NEW a \in Agents, flight[a].response.kind = "changed"
  PROVE  flight[a].response.doc \in Docs
<1>1. flight[a].response \in Responses \cup {NoResponse, CancelledResponse}
  BY DEF TypeOK, Flights
<1> QED BY <1>1 DEF Responses, NoResponse, CancelledResponse

(* A flight resumes with its answer: what it installs was brought by the   *)
(* newest call, which no revocation has caught up with.                    *)
LEMMA FlightResumesInv ==
  ASSUME Inv, NEW a \in Agents, FlightResumes(a)
  PROVE  Inv'
<1>1. /\ TypeOK /\ OthersOK /\ TasksOK /\ LeasesOK /\ ClosedIsClosed
      /\ \A b \in Agents : Calls(b) /\ InUse(b)
  BY TypeParts DEF Inv
<1>2. UNCHANGED <<phase, mono, wall, request, calls, scheduler, closer, source, revoked, reader>>
  BY DEF FlightResumes, clocks, closing
<1>3. \E outcome \in {"ok", "failed"} : lands(a, outcome)
  BY DEF FlightResumes, ResumeClosed, ResumeFailed, ResumeRevoked, ResumeCrashed,
         ResumeUnchanged, ResumeChanged
<1>4. /\ flight' \in [Agents -> Flights]
      /\ flight'[a] = NoFlight
      /\ \A b \in Agents \ {a} : flight'[b] = flight[b]
      /\ startup' \in [Agents -> {"none", "pending", "ok", "failed", "done"}]
  BY <1>1, <1>3, LandsKeeps
<1>5. OthersOK' /\ TasksOK' /\ ClosedIsClosed' /\ (Serving => Serving')
  BY <1>1, <1>2, <1>4 DEF OthersOK, TasksOK, ClosedIsClosed, Serving
<1>6. \A b \in Agents : Calls(b)'
  <2>1. Calls(a)'
    BY <1>1, <1>2, <1>4 DEF Calls, NoFlight
  <2>2. \A b \in Agents \ {a} : Calls(b)'
    BY <1>1, <1>2, <1>4 DEF Calls
  <2> QED BY <2>1, <2>2
<1>7. CASE /\ \/ expire(a) \/ fence(a)
              \/ snapshot' = [snapshot EXCEPT ![a] = None] /\ state' = [state EXCEPT ![a] = "failed"]
           /\ UNCHANGED <<installed, deadline>>
  <2>1. Withdraws
    BY <1>1, <1>7, Withdrawals
  <2> QED BY <1>2, <1>5, <1>6, <1>7, <2>1, WithdrawingInv
<1>8. CASE /\ Serving /\ flight[a].pc = "answered" /\ flight[a].response.kind = "changed"
           /\ Acceptable(a, flight[a].response) /\ installs(a, flight[a].response.doc)
  <2>1. PICK doc \in Docs : doc = flight[a].response.doc
    BY <1>1, <1>8, ChangedHasDoc
  <2>2. doc.expires > wall
    BY <1>8, <2>1 DEF Acceptable
  <2>3. PICK dl \in Nat : dl = CandidateDeadline(a, doc)
    BY <1>1, <2>2, CandidateType
  <2>4. revoked[a] < calls[a] /\ revoked[a] \in Nat /\ calls[a] \in Nat
    BY <1>1, <1>8 DEF Calls, OthersOK, TasksOK
  <2>5. Snapshot(calls[a], doc, dl) \in Snapshots
        /\ Snapshot(calls[a], doc, dl).id = calls[a]
    BY <2>4 DEF Snapshot, Snapshots
  <2>6. /\ snapshot' = [snapshot EXCEPT ![a] = Snapshot(calls[a], doc, dl)]
        /\ state' = [state EXCEPT ![a] = "active"]
        /\ installed' = [installed EXCEPT ![a] = doc]
        /\ deadline' = [deadline EXCEPT ![a] = dl]
    BY <1>8, <2>1, <2>3 DEF installs
  <2>7. LeasesOK'
    BY <1>1, <2>6 DEF LeasesOK
  <2>8. snapshot' \in [Agents -> Snapshots] /\ state' \in [Agents -> States]
    BY <1>1, <2>5, <2>6 DEF TypeOK, States
  <2>9. TypeOK'
    BY <1>5, <2>7, <2>8, TypeParts
  <2>10. \A b \in Agents : InUse(b)'
    <3>1. TAKE b \in Agents
    <3>2. CASE b = a
      <4>1. snapshot'[a].id > revoked'[a]
        BY <1>1, <1>2, <2>4, <2>5, <2>6 DEF TypeOK
      <4> QED BY <1>5, <1>8, <3>2, <4>1 DEF InUse
    <3>3. CASE b # a
      BY <1>1, <1>2, <1>5, <2>6, <3>3 DEF InUse, TypeOK
    <3> QED BY <3>2, <3>3
  <2> QED BY <1>5, <1>6, <2>9, <2>10 DEF Inv
<1> QED BY <1>7, <1>8 DEF FlightResumes, ResumeClosed, ResumeFailed, ResumeRevoked, ResumeCrashed,
                          ResumeUnchanged, ResumeChanged

(* closes withdraws every policy before the phase says so to anybody.      *)
LEMMA ClosesKeeps ==
  ASSUME Inv, closes
  PROVE  /\ Withdraws
         /\ phase' \in Phases
         /\ closer' \in {"none", "created", "draining", "source_drained", "source_pending", "done"}
         /\ ClosedIsClosed'
         /\ UNCHANGED revoked => \A a \in Agents : InUse(a)'
<1>1. TypeOK
  BY DEF Inv
<1>2. CASE phase' = "closing" /\ clear_all("closed") /\ closer' = "created"
  <2>1. "closed" \in States /\ "closing" \in Phases
    BY DEF States, Phases
  <2> QED BY <1>1, <1>2, <2>1, Withdrawals, ClearedIsUnused DEF ClosedIsClosed
<1>3. CASE UNCHANGED <<phase, snapshot, state, closer>>
  <2>1. Withdraws
    BY <1>1, <1>3, Withdrawals
  <2>2. UNCHANGED revoked => \A a \in Agents : InUse(a)'
    BY <1>3, <2>1, WithdrawKeepsUse DEF Serving
  <2> QED BY <1>1, <1>3, <2>1, <2>2, ClosedKept DEF TypeOK
<1> QED BY <1>2, <1>3 DEF closes

(* Starting fails or succeeds, or a close is asked for.                    *)
LEMMA StartAndCloseInv ==
  ASSUME Inv, Aclose \/ StartEnds \/ StartCancelled
  PROVE  Inv'
<1>1. /\ TypeOK /\ OthersOK /\ TasksOK /\ LeasesOK /\ ClosedIsClosed
  BY TypeParts DEF Inv
<1>2. UNCHANGED <<mono, wall, installed, deadline, flight, request, calls, source, revoked, reader>>
  BY DEF Aclose, StartEnds, StartCancelled, clocks, tasks
<1>3. /\ startup' \in [Agents -> {"none", "pending", "ok", "failed", "done"}]
      /\ scheduler' \in {"none", "alive", "cancelling", "done"}
  BY <1>1 DEF Aclose, StartEnds, StartCancelled, OthersOK
<1>4. /\ Withdraws
      /\ phase' \in Phases
      /\ closer' \in {"none", "created", "draining", "source_drained", "source_pending", "done"}
      /\ ClosedIsClosed'
      /\ \A a \in Agents : InUse(a)'
  <2>1. CASE closes
    BY <1>2, <2>1, ClosesKeeps
  <2>2. CASE /\ phase = "starting" /\ phase' = "running"
             /\ UNCHANGED <<snapshot, state, closer>>
    <3>1. Withdraws
      BY <1>1, <2>2, Withdrawals
    <3>2. \A a \in Agents : InUse(a)'
      BY <1>2, <2>2, <3>1, WithdrawKeepsUse DEF Serving
    <3> QED BY <1>1, <2>2, <3>1, <3>2 DEF OthersOK, Phases, ClosedIsClosed
  <2>3. CASE UNCHANGED <<phase, snapshot, state, closer>>
    <3>1. Withdraws
      BY <1>1, <2>3, Withdrawals
    <3>2. \A a \in Agents : InUse(a)'
      BY <1>2, <2>3, <3>1, WithdrawKeepsUse DEF Serving
    <3> QED BY <1>1, <2>3, <3>1, <3>2 DEF OthersOK, ClosedIsClosed
  <2> QED BY <2>1, <2>2, <2>3 DEF Aclose, StartEnds, StartCancelled
<1>5. OthersOK' /\ TasksOK' /\ LeasesOK'
  BY <1>1, <1>2, <1>3, <1>4 DEF OthersOK, TasksOK, LeasesOK
<1>6. TypeOK'
  BY <1>4, <1>5, TypeParts DEF Withdraws
<1>7. \A a \in Agents : Calls(a)'
  BY <1>2, CallsKept DEF tasks
<1> QED BY <1>4, <1>6, <1>7 DEF Inv

(* _close cancels what runs; a cancelled call is still under way.          *)
LEMMA CloseCancelsInv ==
  ASSUME Inv, CloseCancels
  PROVE  Inv'
<1>1. /\ TypeOK /\ OthersOK /\ TasksOK /\ ClosedIsClosed /\ \A b \in Agents : Calls(b)
  BY TypeParts DEF Inv
<1>2. UNCHANGED <<phase, mono, wall, snapshot, state, installed, deadline, calls, startup,
                  source, revoked, reader>>
  BY DEF CloseCancels, clocks, entries
<1>3. Withdraws
  BY <1>1, <1>2, Withdrawals
<1>4. /\ scheduler' \in {"none", "alive", "cancelling", "done"} /\ closer' = "draining"
      /\ closer # "none"
  BY <1>1 DEF CloseCancels, OthersOK
<1>5. ASSUME NEW b \in Agents
      PROVE  /\ flight'[b] \in Flights /\ flight'[b].pc = flight[b].pc
             /\ flight'[b].response = flight[b].response
             /\ request'[b] \in [pc : {"none", "queued", "fetching"}, cancelled : BOOLEAN]
             /\ request'[b].pc = request[b].pc
             /\ request[b] = NoRequest <=> request'[b] = NoRequest
  <2>1. flight[b] \in Flights
        /\ request[b] \in [pc : {"none", "queued", "fetching"}, cancelled : BOOLEAN]
    BY <1>1 DEF TasksOK
  <2>2. [flight[b] EXCEPT !.cancelled = TRUE] \in Flights
        /\ [flight[b] EXCEPT !.cancelled = TRUE].pc = flight[b].pc
        /\ [flight[b] EXCEPT !.cancelled = TRUE].response = flight[b].response
    BY <2>1 DEF Flights
  <2>3. [request[b] EXCEPT !.cancelled = TRUE]
            \in [pc : {"none", "queued", "fetching"}, cancelled : BOOLEAN]
        /\ [request[b] EXCEPT !.cancelled = TRUE].pc = request[b].pc
        /\ [request[b] EXCEPT !.cancelled = TRUE] # NoRequest
    BY <2>1 DEF NoRequest
  <2>4. flight'[b] = IF flight[b] = NoFlight THEN NoFlight
                     ELSE [flight[b] EXCEPT !.cancelled = TRUE]
    BY DEF CloseCancels
  <2>5. request'[b] = IF request[b] = NoRequest THEN NoRequest
                      ELSE [request[b] EXCEPT !.cancelled = TRUE]
    BY DEF CloseCancels
  <2> QED BY <2>1, <2>2, <2>3, <2>4, <2>5
<1>6. TasksOK'
  <2>1. flight' \in [Agents -> Flights]
    BY <1>5 DEF CloseCancels
  <2>2. request' \in [Agents -> [pc : {"none", "queued", "fetching"}, cancelled : BOOLEAN]]
    BY <1>5 DEF CloseCancels
  <2> QED BY <1>1, <1>2, <2>1, <2>2 DEF TasksOK
<1>7. OthersOK'
  BY <1>1, <1>2, <1>4 DEF OthersOK
<1>8. \A b \in Agents : Calls(b)'
  BY <1>1, <1>2, <1>5 DEF Calls
<1>9. ClosedIsClosed' /\ (Serving => Serving')
  BY <1>1, <1>2, <1>4 DEF ClosedIsClosed, Serving
<1> QED BY <1>2, <1>3, <1>6, <1>7, <1>8, <1>9, WithdrawingInv

(* The scheduler and the rest of the close: a scheduler that fails         *)
(* withdraws every policy, and a close ends when none is left.             *)
LEMMA ShutdownInv ==
  ASSUME Inv, \/ SchedulerFails \/ SchedulerCancelled \/ CloseSource
              \/ (\E outcome \in {"closed", "failed", "cancelled"} : SourceCloses(outcome))
              \/ CloseEnds
  PROVE  Inv'
<1>1. /\ TypeOK /\ OthersOK /\ TasksOK /\ LeasesOK /\ ClosedIsClosed
      /\ \A a \in Agents : InUse(a)
  BY TypeParts DEF Inv
<1>2. UNCHANGED <<mono, wall, installed, deadline, flight, request, calls, startup, revoked, reader>>
  BY DEF SchedulerFails, SchedulerCancelled, CloseSource, SourceCloses, CloseEnds, clocks,
         entries, tasks
<1>3. OthersOK'
  BY <1>1, <1>2 DEF SchedulerFails, SchedulerCancelled, CloseSource, SourceCloses, CloseEnds,
                    OthersOK, Phases, closing
<1>4. TasksOK' /\ LeasesOK'
  BY <1>1, <1>2 DEF TasksOK, LeasesOK
<1>5. \A a \in Agents : Calls(a)'
  BY <1>2, CallsKept DEF tasks
<1>6. CASE SchedulerFails /\ phase = "running"
  <2>1. phase' = "failed" /\ clear_all("failed") /\ UNCHANGED closer
    BY <1>6 DEF SchedulerFails, closing
  <2>2. Withdraws /\ \A a \in Agents : InUse(a)'
    <3>1. "failed" \in States
      BY DEF States
    <3> QED BY <1>1, <2>1, <3>1, Withdrawals, ClearedIsUnused
  <2>3. TypeOK'
    BY <1>3, <1>4, <2>2, TypeParts DEF Withdraws
  <2>4. ClosedIsClosed'
    BY <1>1, <1>6, <2>1 DEF ClosedIsClosed
  <2> QED BY <1>5, <2>2, <2>3, <2>4 DEF Inv
<1>7. CASE CloseEnds
  <2>1. phase' \in {"closed", "close_failed"} /\ UNCHANGED snapshot /\ ~Serving
    BY <1>1, <1>7 DEF CloseEnds, ClosedIsClosed, Serving
  <2>2. snapshot' \in [Agents -> Snapshots] /\ state' \in [Agents -> States]
    BY <1>1, <1>7 DEF CloseEnds, TypeOK, States
  <2>3. TypeOK'
    BY <1>3, <1>4, <2>2, TypeParts
  <2>4. \A a \in Agents : InUse(a)'
    BY <1>1, <2>1 DEF InUse
  <2>5. ClosedIsClosed'
    BY <2>1 DEF ClosedIsClosed
  <2> QED BY <1>5, <2>3, <2>4, <2>5 DEF Inv
<1>8. CASE ~(SchedulerFails /\ phase = "running") /\ ~CloseEnds
  <2>1. UNCHANGED <<phase, snapshot, state>> /\ (closer' # "none" => closer # "none")
    BY <1>8 DEF SchedulerFails, SchedulerCancelled, CloseSource, SourceCloses, entries, closing
  <2>2. Withdraws
    BY <1>1, <2>1, Withdrawals
  <2>3. ClosedIsClosed' /\ (Serving => Serving')
    BY <1>1, <2>1 DEF ClosedIsClosed, Serving
  <2> QED BY <1>2, <1>3, <1>4, <1>5, <2>2, <2>3, WithdrawingInv
<1> QED BY <1>6, <1>7, <1>8

(* Every step of the poller keeps the invariant.                           *)
LEMMA NextInv == Inv /\ [Next]_vars => Inv'
<1> SUFFICES ASSUME Inv, [Next]_vars PROVE Inv'
  OBVIOUS
<1>1. CASE UNCHANGED vars
  <2>1. TypeOK'
    BY <1>1 DEF vars, clocks, entries, tasks, closing, Inv, TypeOK
  <2>2. \A a \in Agents : Calls(a)' /\ InUse(a)'
    BY <1>1 DEF vars, clocks, entries, tasks, closing, Inv, Calls, InUse, Serving
  <2>3. ClosedIsClosed'
    BY <1>1, ClosedKept DEF vars, closing
  <2> QED BY <2>1, <2>2, <2>3 DEF Inv
<1>2. CASE Next
  BY <1>2, ReadingInv, AskInv, FlightBeginsInv, FlightLeavesInv, AnswerInv, FlightResumesInv,
     StartAndCloseInv, CloseCancelsInv, ShutdownInv DEF Next
<1> QED BY <1>1, <1>2

(* Types, calls, revocations and phases stay consistent in every reachable *)
(* state of the poller.                                                    *)
THEOREM Invariance == Spec => []Inv
BY InitInv, NextInv, PTL DEF Spec

-----------------------------------------------------------------------------
(* What follows                                                            *)

(* An evaluation that passes assert_current holds the policy in use.       *)
LEMMA GateIsCurrent ==
  ASSUME Inv, Next, NEW r \in Readers,
         reader[r].pc = "holding", reader'[r].pc = "acted"
  PROVE  reader[r].held.id > revoked[reader[r].agent] /\ phase = "running"
<1>1. TypeOK /\ \A a \in Agents : InUse(a)
  BY DEF Inv
<1>2. \A x \in Readers : reader[x] \in {Idle} \cup [pc : {"holding", "acted"}, agent : Agents,
                                                   held : Snapshots]
  BY <1>1 DEF TypeOK
<1>3. reader[r].agent \in Agents
  BY <1>2 DEF Idle
<1>4. ~UNCHANGED reader
  OBVIOUS
<1>5. CASE \E x \in Readers, a \in Agents : GetPolicy(x, a)
  <2>1. PICK x \in Readers, a \in Agents : GetPolicy(x, a)
    BY <1>5
  <2>2. \/ reader' = reader
        \/ reader' = [reader EXCEPT ![x] = [pc |-> "holding", agent |-> a, held |-> Unexpired(a)]]
    BY <2>1 DEF GetPolicy
  <2> QED BY <1>1, <2>2 DEF TypeOK
<1>6. CASE \E x \in Readers : AssertCurrent(x)
  <2>1. PICK x \in Readers : AssertCurrent(x)
    BY <1>6
  <2>2. x = r
    BY <1>1, <2>1 DEF AssertCurrent, TypeOK
  <2>3. reader' # [reader EXCEPT ![r] = Idle]
    BY <1>1 DEF TypeOK, Idle
  <2>4. phase = "running" /\ IsCurrent(reader[r].agent, reader[r].held)
    BY <2>1, <2>2, <2>3 DEF AssertCurrent
  <2>5. Unexpired(reader[r].agent) = snapshot[reader[r].agent]
        /\ snapshot[reader[r].agent] # None
        /\ snapshot[reader[r].agent].id = reader[r].held.id
    BY <1>1, <1>3, <2>4, UnexpiredIs DEF IsCurrent
  <2> QED BY <1>1, <1>3, <2>4, <2>5 DEF InUse
<1>7. CASE ~(\E x \in Readers, a \in Agents : GetPolicy(x, a)) /\ ~(\E x \in Readers : AssertCurrent(x))
  BY <1>4, <1>7 DEF Next, Tick, WallSet, Status, Refresh, SchedulerPolls, SchedulerFails,
     FlightBegins, Fetch, SourceAnswers, RequestFinished, RequestCancelled, FlightTimesOut,
     FlightCancelled, FlightResumes, Start, Aclose, StartEnds, StartCancelled, CloseCancels,
     SchedulerCancelled, CloseSource, SourceCloses, CloseEnds
<1> QED BY <1>5, <1>6, <1>7

(* However late a revocation arrives, no policy that an earlier call       *)
(* brought stays in use or passes an evaluation's last gate, and a poller  *)
(* that stops serving has none, for any number of agents and evaluations.  *)
THEOREM RevocationSafety == Spec => RevocationHolds
<1>1. Inv /\ Inv' /\ [Next]_vars => [NothingRevokedIsUsed]_vars
  <2> SUFFICES ASSUME Inv, Inv', Next PROVE NothingRevokedIsUsed
    OBVIOUS
  <2>1. \A a \in Agents : snapshot'[a] # None =>
          snapshot'[a].id > revoked'[a] /\ phase' \in {"starting", "running"}
    BY DEF Inv, InUse, Serving
  <2> QED BY <2>1, GateIsCurrent DEF NothingRevokedIsUsed
<1> QED BY <1>1, Invariance, PTL DEF Spec, RevocationHolds

(* Only an accepted answer changes what is installed.                      *)
LEMMA LeasesKept ==
  ASSUME Next, ~(\E a \in Agents : FlightResumes(a))
  PROVE  UNCHANGED <<installed, deadline>>
BY DEF Next, Tick, WallSet, Status, GetPolicy, AssertCurrent, Refresh, SchedulerPolls,
       SchedulerFails, FlightBegins, Fetch, SourceAnswers, RequestFinished, RequestCancelled,
       FlightTimesOut, FlightCancelled, Start, Aclose, StartEnds, StartCancelled, CloseCancels,
       SchedulerCancelled, CloseSource, SourceCloses, CloseEnds, entries

(* No agent is rolled back: across expiry, revocation and any setting of   *)
(* the wall clock its revision only grows, one revision is one document,   *)
(* and that document's lease only shrinks, for any set of documents.       *)
THEOREM RollbackSafety == Spec => NoRollback
<1>1. Inv /\ [Next]_vars => [RevisionOnlyGrows]_vars
  <2> SUFFICES ASSUME Inv, Next PROVE RevisionOnlyGrows
    OBVIOUS
  <2>1. TypeOK
    BY DEF Inv
  <2>2. SUFFICES ASSUME NEW b \in Agents
                 PROVE  /\ Rev(installed'[b]) >= Rev(installed[b])
                        /\ installed[b] # NoDoc /\ Rev(installed'[b]) = Rev(installed[b]) =>
                             installed'[b] = installed[b] /\ deadline'[b] <= deadline[b]
    BY DEF RevisionOnlyGrows
  <2> DEFINE Grown == /\ Rev(installed'[b]) >= Rev(installed[b])
                      /\ installed[b] # NoDoc /\ Rev(installed'[b]) = Rev(installed[b]) =>
                           installed'[b] = installed[b] /\ deadline'[b] <= deadline[b]
  <2>3. \A doc \in Docs \cup {NoDoc} : Rev(doc) \in Nat
    BY DocsAssumption DEF Rev
  <2>4. installed[b] \in Docs \cup {NoDoc} /\ deadline[b] \in Nat /\ Rev(installed[b]) \in Nat
    BY <2>1, <2>3 DEF TypeOK
  <2>5. CASE installed'[b] = installed[b] /\ deadline'[b] = deadline[b]
    BY <2>4, <2>5
  <2>6. ASSUME NEW a \in Agents, FlightResumes(a),
               ~(installed'[b] = installed[b] /\ deadline'[b] = deadline[b])
        PROVE  Grown
    <3>1. /\ flight[a].response.kind = "changed"
          /\ Acceptable(a, flight[a].response) /\ installs(a, flight[a].response.doc)
      BY <2>6 DEF FlightResumes, ResumeClosed, ResumeFailed, ResumeRevoked, ResumeCrashed,
                  ResumeUnchanged, ResumeChanged
    <3>2. PICK doc \in Docs : doc = flight[a].response.doc
      BY <2>1, <3>1, ChangedHasDoc
    <3>3. a = b
      BY <2>1, <2>6, <3>1 DEF installs, TypeOK
    <3>4. installed'[b] = doc /\ deadline'[b] = CandidateDeadline(b, doc)
      BY <2>1, <3>1, <3>2, <3>3 DEF installs, TypeOK
    <3>5. /\ doc.expires > wall /\ Rev(doc) >= Rev(installed[b])
          /\ Rev(doc) = Rev(installed[b]) => doc = installed[b]
      BY <3>1, <3>2, <3>3 DEF Acceptable
    <3>6. PICK dl \in Nat : dl = DecodedDeadline(doc)
      <4>1. doc.expires \in Nat /\ wall \in Nat /\ mono \in Nat
        BY <2>1, DocsAssumption DEF TypeOK
      <4> QED BY <3>5, <4>1 DEF DecodedDeadline
    <3>7. doc = installed[b] => CandidateDeadline(b, doc) <= deadline[b]
      BY <2>4, <3>6 DEF CandidateDeadline, SmallerOf
    <3> QED BY <3>4, <3>5, <3>7
  <2> QED BY <2>5, <2>6, LeasesKept
<1> QED BY <1>1, Invariance, PTL DEF Spec, NoRollback
=============================================================================

----------------------- MODULE ManagedInterceptorProofs -----------------------
(***************************************************************************)
(* Proofs about ManagedInterceptor: for any callers, any number of source  *)
(* calls and any number of snapshots, credentials are owned until nobody   *)
(* uses them, a close that reports success has left nothing behind, and no *)
(* verdict is returned that is not current.                                *)
(*                                                                         *)
(* The invariant says, for each place the owner task can be at, what the   *)
(* provider, the source, the poller and the futures are then (Startup,     *)
(* Teardown, Settled), who may evaluate (Evaluations), and what the        *)
(* interceptor over the client may still do once it closes (Managing).     *)
(***************************************************************************)
EXTENDS ManagedInterceptor, TLAPS

-----------------------------------------------------------------------------
(* The inductive invariant                                                 *)

Errors == {"none", "error", "cancelled", "close_error"}
OwnPlaces == {"none", "credentials", "starting", "serving", "close_evaluation", "close_poller",
              "close_source", "wait_source", "exit_half", "exit_rest", "done"}
Users == [pc : {"outside", "entering", "inside", "leaving", "left"},
          primary : {"none", "error", "cancelled"}, cancel : BOOLEAN, later : BOOLEAN,
          result : Errors]
Owners == [pc : OwnPlaces, error : Errors, cancel : BOOLEAN, later : BOOLEAN]
Creds == [pc : {"none", "entering", "open", "exiting"} \cup Ended, cancel : BOOLEAN,
          release : BOOLEAN, offer : {"pending", "credential", "error", "cancelled"}]
Sources == [active : Nat,
            closing : {"absent", "open", "closing", "draining", "drain_failed"} \cup Closed]
Clients == [state : {"none", "open", "closed"}, evaluation : Callers \cup {NoCaller},
            cleanup_failed : BOOLEAN]
Jobs == [pc : {"idle", "created", "evaluating", "evaluated", "done"}, cancel : BOOLEAN,
         stop : BOOLEAN, snapshot : Nat,
         outcome : {"none", "verdict", "denied", "error", "cancelled", "close_error"}]

ClientTypes ==
    /\ user \in Users
    /\ own \in Owners
    /\ ready \in {"pending", "client", "error"} /\ told \in {"pending", "ok", "error"}
    /\ release \in BOOLEAN
    /\ registry \in [active : BOOLEAN, failed : BOOLEAN, named : BOOLEAN]
    /\ cred \in Creds
    /\ source \in Sources
    /\ poller \in {"none", "starting", "failing", "running", "closing"} \cup Closed
    /\ policy \in Nat /\ installed \in Nat
    /\ client \in Clients
    /\ job \in [Callers -> Jobs]

ManagedTypes ==
    /\ mode \in {"managed", "direct"}
    /\ enter \in [pc : {"outside", "starting", "entered", "failing", "failed"}, cancel : BOOLEAN]
    /\ acs \in [closed : BOOLEAN, backend : BOOLEAN, start_failed : BOOLEAN,
                work : Callers \cup {NoCaller}]
    /\ drain \in {"none", "created", "draining", "closing", "ok", "error"}
    /\ retained \in Callers \cup {NoCaller}
    /\ runtime \in [closing : BOOLEAN, release : BOOLEAN,
                    ready : {"none", "pending", "backend", "error", "cancelled"}]
    /\ caller \in [Callers -> [pc : {"idle", "waiting"}, cancelling : BOOLEAN, must : BOOLEAN]]

TypeOK == ClientTypes /\ ManagedTypes

Leaving == {"exit_half", "exit_rest", "done"}

\* Until own has its credentials nothing has been built.
Startup ==
    /\ own.pc = "none" <=> user.pc = "outside"
    /\ own.pc \in {"none", "credentials"} =>
         /\ source.closing = "absent" /\ poller = "none" /\ ready = "pending" /\ told = "pending"
    /\ own.pc = "none" => cred.pc = "none" /\ cred.offer # "credential"
    /\ own.pc = "credentials" /\ cred.offer = "credential" => cred.pc = "open"

\* What the credentials serve: while own is on its way they are open and wanted.
Wanted ==
    /\ cred.release => own.pc \in Leaving
    /\ cred.cancel \/ cred.pc = "cancelled" => own.pc \in Leaving
    /\ own.pc \notin Leaving \cup {"none", "credentials"} => cred.pc \in {"none", "open"}
    /\ own.pc \notin {"none", "done"} => ~registry.failed

\* The source and the poller.
Reaching ==
    /\ SourceClosed => source.active = 0
    /\ poller \in {"starting", "running"} =>
         source.closing = "open" /\ own.pc \in {"starting", "serving", "close_evaluation"}
    /\ client.state = "open" => own.pc = "serving"

\* A cancellation of own is the user's, and comes only while it may still start.
Cancelling ==
    /\ own.cancel => ready = "pending"
    /\ own.later => ready = "pending" /\ own.pc \in {"close_poller", "exit_half", "exit_rest"}

\* The way down of an owner that has handed out a client.
Teardown ==
    ready = "client" =>
      /\ own.pc \notin {"none", "credentials", "starting"}
      /\ own.error \in {"none", "close_error"}
      /\ own.pc = "exit_half" => ~cred.cancel /\ cred.pc # "cancelled"
      /\ own.pc \in Leaving => ~InUse
      /\ own.error = "none" /\ own.pc \in {"close_source", "wait_source"} \cup Leaving => poller = "closed"
      /\ own.error = "none" /\ own.pc \in {"close_poller", "close_source", "wait_source"} \cup Leaving =>
           \A c \in Callers : job[c].pc # "evaluating"

\* What own has told the user.
Settled ==
    /\ told # "pending" => own.pc \in {"wait_source"} \cup Leaving
    /\ told = "ok" => own.pc = "done"
    /\ user.pc = "left" => told # "pending"
    /\ told = "ok" /\ ready = "client" =>
         own.error = "none" /\ cred.pc \in {"none", "done"} /\ ~registry.failed
    /\ user.pc = "left" /\ user.result = "none" /\ ready = "client" => told = "ok"

\* The client knows the one evaluation that runs.
Evaluations == \A c \in Callers : job[c].pc = "evaluating" => client.evaluation = c

\* The interceptor over the client; in direct mode it does nothing.
Managing ==
    /\ Managed => /\ runtime.ready = "none" <=> user.pc = "outside"
                  /\ \A c \in Callers : Running(c) => acs.work = c
    /\ ~Managed => /\ enter.pc = "outside" /\ drain = "none" /\ retained = NoCaller
                   /\ ~acs.closed /\ ~runtime.closing
                   /\ \A c \in Callers : caller[c].pc = "idle"
    /\ drain # "none" => acs.closed
    /\ retained # NoCaller => acs.closed /\ \A c \in Callers : Running(c) => c = retained
    /\ runtime.closing => acs.closed
    /\ drain = "ok" => user.pc \in {"outside", "left"}
    /\ Managed /\ runtime.closing => \A c \in Callers : ~Running(c)

Lifetime == Startup /\ Wanted /\ Reaching /\ Cancelling
ClientInv ==
    ClientTypes /\ Lifetime /\ Teardown /\ Settled /\ Evaluations /\ CredentialsAreOwned
ManagedInv == ManagedTypes /\ Managing
Inv == ClientInv /\ ManagedInv

-----------------------------------------------------------------------------
(* The owner's steps                                                       *)

\* The values own's end may take, and the fields it leaves alone.
Registries == [active : BOOLEAN, failed : BOOLEAN, named : BOOLEAN]

(* own_at moves the owner and forgets its cancellations.                   *)
LEMMA OwnAt ==
    ASSUME ClientTypes, NEW p \in OwnPlaces, NEW e \in Errors, own_at(p, e)
    PROVE  /\ own' \in Owners
           /\ own'.pc = p /\ own'.error = e /\ own'.cancel = FALSE /\ own'.later = FALSE
BY DEF ClientTypes, Owners, own_at

(* settles sets what is pending, and nothing else.                         *)
LEMMA SettlesDo ==
    ASSUME ClientTypes, NEW e \in Errors, settles(e)
    PROVE  /\ ready' \in {"pending", "client", "error"} /\ told' \in {"ok", "error"}
           /\ ready' = "client" <=> ready = "client"
           /\ ready' # "pending"
           /\ told # "pending" => told' = told
           /\ told = "pending" /\ told' = "ok" => e \in {"none", "cancelled"}
BY DEF ClientTypes, settles

(* Leaving the registry's context either ends own or begins the provider's *)
(* exit.                                                                   *)
Ends(e) == cred.pc = "none" /\ own'.pc = "done" /\ settles(e) /\ UNCHANGED cred
BeginsExit(abandon) ==
    /\ cred.pc # "none" /\ own'.pc = "exit_half"
    /\ cred'.release /\ (cred'.cancel <=> cred.cancel \/ abandon)
    /\ UNCHANGED <<registry, ready, told>>
LEMMA ExitsDo ==
    ASSUME ClientTypes, NEW e \in Errors, NEW abandon \in BOOLEAN, exits(e, abandon)
    PROVE  /\ own' \in Owners /\ own'.error = e /\ own'.cancel = FALSE /\ own'.later = FALSE
           /\ registry' \in Registries /\ registry'.failed = registry.failed
           /\ cred' \in Creds /\ cred'.pc = cred.pc /\ cred'.offer = cred.offer
           /\ Ends(e) \/ BeginsExit(abandon)
<1>1. CASE cred.pc = "none"
  <2>1. own_at("done", e) /\ settles(e) /\ UNCHANGED cred
        /\ registry' = [registry EXCEPT !.active = FALSE]
    BY <1>1 DEF exits
  <2> QED
    BY <1>1, <2>1, OwnAt DEF OwnPlaces, ClientTypes, Registries, Ends
<1>2. CASE cred.pc # "none"
  <2>1. /\ own_at("exit_half", e) /\ UNCHANGED <<registry, ready, told>>
        /\ cred' = [cred EXCEPT !.release = TRUE, !.cancel = @ \/ abandon]
    BY <1>2 DEF exits
  <2>2. /\ cred' \in Creds /\ cred'.pc = cred.pc /\ cred'.offer = cred.offer
        /\ cred'.release = TRUE /\ cred'.cancel = (cred.cancel \/ abandon)
    BY <2>1 DEF ClientTypes, Creds
  <2> QED
    BY <1>2, <2>1, <2>2, OwnAt DEF OwnPlaces, ClientTypes, Registries, BeginsExit
<1> QED
  BY <1>1, <1>2

(* Wherever own leaves the registry's context from, the invariant holds if *)
(* a source still in use means that a start was cancelled.                 *)
Stays == user' \in Users /\ user'.pc # "outside" /\ (user'.pc = "left" => UNCHANGED user)
LEMMA ExitsInv ==
    ASSUME ClientInv, NEW e \in Errors, NEW abandon \in BOOLEAN, exits(e, abandon), Stays,
           UNCHANGED <<release, pollVars, jobVars>>,
           own.pc \in {"none", "credentials", "close_source", "wait_source"}, ~registry.failed,
           InUse => e = "cancelled" /\ ready # "client",
           ready = "client" => ~abandon /\ e \in {"none", "close_error"} /\ (e = "none" => own.error = "none")
    PROVE  ClientInv'
<1> USE DEF ClientInv
<1>1. /\ own' \in Owners /\ own'.error = e /\ own'.cancel = FALSE /\ own'.later = FALSE
      /\ registry' \in Registries /\ registry'.failed = registry.failed
      /\ cred' \in Creds /\ cred'.pc = cred.pc /\ cred'.offer = cred.offer
      /\ Ends(e) \/ BeginsExit(abandon)
  BY ExitsDo
<1>2. /\ ready' \in {"pending", "client", "error"} /\ told' \in {"pending", "ok", "error"}
      /\ ready' = "client" <=> ready = "client"
      /\ own'.pc \in {"exit_half", "done"}
  BY <1>1, SettlesDo DEF Ends, BeginsExit, ClientTypes
<1>3. ClientTypes'
  BY <1>1, <1>2 DEF ClientTypes, Stays, Registries, pollVars, jobVars
<1>4. Startup'
  BY <1>1, <1>2 DEF Stays, Startup
<1>5. Wanted'
  BY <1>1, <1>2 DEF Lifetime, Wanted, Leaving, Ends, BeginsExit
<1>6. Reaching'
  BY <1>1 DEF Lifetime, Startup, Reaching, SourceClosed, pollVars, jobVars
<1>7. Cancelling'
  BY <1>1 DEF Cancelling
<1>8. Teardown'
  <2> SUFFICES ASSUME ready' = "client"
               PROVE  Teardown'
    BY DEF Teardown
  <2>1. /\ ready = "client" /\ own.pc \in {"close_source", "wait_source"}
        /\ ~cred.cancel /\ cred.pc # "cancelled"
    BY <1>2 DEF Lifetime, Startup, Wanted, Leaving
  <2>2. own'.pc = "exit_half" => ~cred'.cancel /\ cred'.pc # "cancelled"
    BY <1>1, <2>1 DEF Ends, BeginsExit
  <2>3. InUse' <=> InUse
    BY DEF InUse, SourceClosed, pollVars
  <2>4. e = "none" => poller = "closed" /\ \A c \in Callers : job[c].pc # "evaluating"
    BY <2>1 DEF Teardown
  <2> QED
    BY <1>1, <1>2, <2>1, <2>2, <2>3, <2>4 DEF Teardown, pollVars, jobVars
<1>9. Settled'
  BY <1>1, <1>2, SettlesDo DEF Settled, Teardown, Leaving, Stays, BeginsExit, Ends, pollVars, jobVars
<1>10. CredentialsAreOwned'
  BY <1>1, <1>2 DEF CredentialsAreOwned, InUse, StartCancelled, SourceClosed, Ends, BeginsExit, pollVars, Lifetime, Startup
<1>11. Evaluations'
  BY DEF Evaluations, jobVars
<1> QED
  BY <1>3, <1>4, <1>5, <1>6, <1>7, <1>8, <1>9, <1>10, <1>11 DEF Lifetime

(* Once own has its credentials it builds.                                 *)
LEMMA BuildInv ==
    ASSUME ClientInv, NEW b \in Builds, build(b), Stays,
           UNCHANGED <<release, policy, installed, jobVars>>,
           (own.pc = "none" /\ ~registry.failed) \/ (own.pc = "credentials" /\ cred.offer = "credential")
    PROVE  ClientInv'
<1> USE DEF ClientInv
<1>1. /\ ~registry.failed /\ ~cred.release /\ ~cred.cancel /\ cred.pc \in {"none", "open"}
      /\ source.closing = "absent" /\ source.active = 0 /\ poller = "none"
      /\ ready = "pending" /\ told = "pending"
  BY DEF Lifetime, Startup, Wanted, Leaving, Reaching, SourceClosed, Settled
<1>2. ~InUse
  BY <1>1 DEF InUse, SourceClosed
<1>3. CASE b = "no_source"
  <2>1. exits("error", FALSE) /\ UNCHANGED pollVars
    BY <1>3 DEF build, pollVars
  <2> QED
    BY <1>1, <1>2, <2>1, ExitsInv DEF Errors
<1>4. CASE b # "no_source"
  <2>1. registry' = [registry EXCEPT !.active = TRUE] /\ UNCHANGED <<cred, ready, told>>
    BY <1>4 DEF build, Builds
  <2>2. registry' \in Registries /\ registry'.active = TRUE /\ registry'.failed = FALSE
    BY <1>1, <2>1 DEF ClientTypes, Registries
  <2>3. PICK p \in {"close_source", "close_poller", "starting"}, e \in {"error", "none"} :
             /\ own_at(p, e)
             /\ source' \in {[source EXCEPT !.closing = "closing"], [source EXCEPT !.closing = "open"]}
             /\ poller' \in {"none", "closing", "starting"}
             /\ poller' = "starting" => p = "starting" /\ source' = [source EXCEPT !.closing = "open"]
    BY <1>1, <1>4, Zenon DEF build, Builds
  <2>4. own' \in Owners /\ own'.pc = p /\ own'.error = e /\ own'.cancel = FALSE /\ own'.later = FALSE
    BY <2>3, OwnAt DEF OwnPlaces, Errors
  <2>5. /\ source' \in Sources /\ source'.active = 0 /\ source'.closing \in {"closing", "open"}
        /\ poller' = "starting" => source'.closing = "open"
    BY <1>1, <2>3 DEF ClientTypes, Sources
  <2>6. ClientTypes'
    BY <2>1, <2>2, <2>3, <2>4, <2>5 DEF ClientTypes, Stays, Registries, jobVars
  <2>7. Lifetime'
    BY <1>1, <2>1, <2>2, <2>3, <2>4, <2>5
       DEF Lifetime, Startup, Wanted, Reaching, Cancelling, Leaving, SourceClosed, Closed, Stays, jobVars
  <2>8. Teardown' /\ Settled'
    BY <1>1, <2>1 DEF Teardown, Settled, Stays
  <2>9. CredentialsAreOwned'
    BY <1>1, <2>1, <2>2, <2>4 DEF CredentialsAreOwned
  <2> QED
    BY <2>6, <2>7, <2>8, <2>9 DEF Evaluations, jobVars
<1> QED
  BY <1>3, <1>4

(* The credential provider's task starts, or own builds at once.           *)
LEMMA OpenInv ==
    ASSUME ClientInv, NEW b \in Builds, Open(b)
    PROVE  ClientInv' /\ user.pc = "outside" /\ user'.pc = "entering"
<1> USE DEF ClientInv
<1>1. /\ user.pc = "outside" /\ user' = [user EXCEPT !.pc = "entering"]
      /\ UNCHANGED <<release, policy, installed, jobVars>>
  BY DEF Open
<1>2. user' \in Users /\ user'.pc = "entering"
  BY <1>1 DEF ClientTypes, Users
<1>3. Stays
  BY <1>2 DEF Stays
<1>4. /\ own.pc = "none" /\ cred.pc = "none" /\ ~cred.release /\ ~cred.cancel
      /\ source.closing = "absent" /\ source.active = 0 /\ poller = "none"
      /\ ready = "pending" /\ told = "pending"
  BY <1>1 DEF Lifetime, Startup, Wanted, Leaving, Reaching, SourceClosed
<1>5. CASE own_at("done", "error") /\ settles("error") /\ UNCHANGED <<credVars, source, poller>>
  <2>1. own_at("done", "error") /\ settles("error") /\ UNCHANGED <<credVars, source, poller>>
    BY <1>5
  <2>2. /\ own' \in Owners /\ own'.pc = "done" /\ own'.cancel = FALSE /\ own'.later = FALSE
    BY <2>1, OwnAt DEF OwnPlaces, Errors
  <2>3. /\ ready' \in {"pending", "client", "error"} /\ told' \in {"ok", "error"}
        /\ ready' # "client" /\ told' # "ok"
    BY <1>4, <2>1, SettlesDo DEF Errors
  <2>4. ClientTypes'
    BY <1>1, <1>2, <2>1, <2>2, <2>3 DEF ClientTypes, credVars, jobVars
  <2>5. Lifetime'
    BY <1>1, <1>2, <1>4, <2>1, <2>2
       DEF Lifetime, Startup, Wanted, Reaching, Cancelling, Leaving, SourceClosed, credVars, jobVars
  <2>6. Teardown' /\ Settled'
    BY <2>2, <2>3 DEF Teardown, Settled, Leaving
  <2>7. CredentialsAreOwned'
    BY <1>4, <2>1, <2>2 DEF CredentialsAreOwned, credVars
  <2> QED
    BY <1>1, <1>2, <2>4, <2>5, <2>6, <2>7 DEF Evaluations, jobVars
<1>6. CASE /\ ~registry.active /\ ~registry.failed /\ registry.named
           /\ own_at("credentials", "none") /\ UNCHANGED <<ready, told, source, poller>>
           /\ registry' = [registry EXCEPT !.active = TRUE] /\ cred' = [cred EXCEPT !.pc = "entering"]
  <2>1. /\ own_at("credentials", "none") /\ UNCHANGED <<ready, told, source, poller>>
        /\ registry' = [registry EXCEPT !.active = TRUE] /\ cred' = [cred EXCEPT !.pc = "entering"]
    BY <1>6
  <2>2. own' \in Owners /\ own'.pc = "credentials" /\ own'.cancel = FALSE /\ own'.later = FALSE
    BY <2>1, OwnAt DEF OwnPlaces, Errors
  <2>3. /\ registry' \in Registries /\ registry'.active = TRUE /\ registry'.failed = FALSE
        /\ cred' \in Creds /\ cred'.pc = "entering"
        /\ cred'.release = cred.release /\ cred'.cancel = cred.cancel /\ cred'.offer = cred.offer
    BY <1>6, <2>1 DEF ClientTypes, Registries, Creds
  <2>4. ClientTypes'
    BY <1>1, <1>2, <2>1, <2>2, <2>3 DEF ClientTypes, Registries, jobVars
  <2>5. cred.offer # "credential"
    BY <1>4 DEF Lifetime, Startup
  <2>6. Lifetime'
    BY <1>1, <1>2, <1>4, <2>1, <2>2, <2>3, <2>5
       DEF Lifetime, Startup, Wanted, Reaching, Cancelling, Leaving, Ended, SourceClosed, jobVars
  <2>7. Teardown' /\ Settled'
    BY <1>2, <1>4, <2>1 DEF Teardown, Settled
  <2>8. CredentialsAreOwned'
    BY <1>4, <2>2, <2>3 DEF CredentialsAreOwned
  <2> QED
    BY <1>1, <1>2, <2>4, <2>6, <2>7, <2>8 DEF Evaluations, jobVars
<1>7. CASE ~registry.active /\ ~registry.failed /\ ~registry.named /\ build(b)
  <2>1. build(b)
    BY <1>7
  <2>0. (own.pc = "none" /\ ~registry.failed) \/ (own.pc = "credentials" /\ cred.offer = "credential")
    BY <1>4, <1>7
  <2> HIDE DEF ClientInv
  <2>2. ClientInv'
    BY <1>1, <1>3, <2>0, <2>1, BuildInv
  <2> QED
    BY <1>1, <1>2, <2>2
<1> QED
  BY <1>5, <1>6, <1>7 DEF Open

(* The wait for the provider ends.                                         *)
LEMMA OwnCredentialsInv ==
    ASSUME ClientInv, NEW b \in Builds, OwnCredentials(b)
    PROVE  ClientInv'
<1> USE DEF ClientInv
<1>1. own.pc = "credentials" /\ UNCHANGED <<user, release, policy, installed, jobVars>>
  BY DEF OwnCredentials
<1>2. Stays /\ ~registry.failed /\ ready = "pending"
  BY <1>1 DEF Stays, ClientTypes, Lifetime, Startup, Wanted
<1>3. ~InUse
  BY <1>1 DEF InUse, Lifetime, Startup, Reaching, SourceClosed
<1>4. CASE cred.offer = "credential" /\ build(b)
  BY <1>1, <1>2, <1>4, BuildInv
<1>5. ASSUME NEW e \in Errors, NEW abandon \in BOOLEAN, exits(e, abandon), UNCHANGED <<source, poller>>
      PROVE  ClientInv'
  <2>1. UNCHANGED pollVars
    BY <1>1, <1>5 DEF pollVars
  <2> QED
    BY <1>1, <1>2, <1>3, <1>5, <2>1, ExitsInv
<1> QED
  BY <1>4, <1>5 DEF OwnCredentials, Errors

(* source.aclose ends.                                                     *)
LEMMA OwnClosesSourceInv ==
    ASSUME ClientInv, OwnClosesSource
    PROVE  ClientInv'
<1> USE DEF ClientInv
<1>1. own.pc = "close_source" /\ UNCHANGED <<user, release, pollVars, jobVars>>
  BY DEF OwnClosesSource
<1>2. Stays /\ ~registry.failed /\ (ready = "client" => ~own.cancel /\ own.error \in {"none", "close_error"})
      /\ own.error \in Errors
  BY <1>1 DEF Stays, ClientTypes, Owners, Lifetime, Startup, Wanted, Cancelling, Teardown
<1>3. CASE own.cancel /\ exits("cancelled", FALSE)
  BY <1>1, <1>2, <1>3, ExitsInv DEF Errors
<1>4. CASE source.closing = "closed" /\ exits(own.error, FALSE)
  <2>1. ~InUse
    BY <1>4 DEF InUse, Lifetime, Reaching, SourceClosed, Closed
  <2> QED
    BY <1>1, <1>2, <1>4, <2>1, ExitsInv
<1>5. CASE own_at("wait_source", "close_error") /\ settles("close_error") /\ UNCHANGED credVars
  <2>1. /\ own' \in Owners /\ own'.pc = "wait_source" /\ own'.error = "close_error"
        /\ own'.cancel = FALSE /\ own'.later = FALSE
    BY <1>5, OwnAt DEF OwnPlaces, Errors
  <2>2. /\ ready' \in {"pending", "client", "error"} /\ told' \in {"ok", "error"}
        /\ told' = told \/ told' # "ok"
        /\ ready' = "client" <=> ready = "client"
    BY <1>5, SettlesDo DEF Errors
  <2>3. told' # "ok"
    BY <1>1, <2>2 DEF Settled
  <2>4. ClientTypes'
    BY <1>1, <1>5, <2>1, <2>2 DEF ClientTypes, credVars, pollVars, jobVars
  <2>5. Lifetime'
    BY <1>1, <1>5, <2>1
       DEF Lifetime, Startup, Wanted, Reaching, Cancelling, Leaving, SourceClosed, credVars, pollVars, jobVars
  <2>6. Teardown'
    BY <1>1, <2>1, <2>2 DEF Teardown, Leaving
  <2>7. Settled'
    BY <1>1, <2>1, <2>2, <2>3 DEF Settled
  <2>8. CredentialsAreOwned'
    BY <1>1, <1>5, <2>1 DEF CredentialsAreOwned, Lifetime, Wanted, Leaving, credVars
  <2> QED
    BY <1>1, <2>4, <2>5, <2>6, <2>7, <2>8 DEF Evaluations, jobVars
<1> QED
  BY <1>3, <1>4, <1>5 DEF OwnClosesSource

(* wait_closed ends.                                                       *)
LEMMA OwnWaitsSourceInv ==
    ASSUME ClientInv, OwnWaitsSource
    PROVE  ClientInv'
<1> USE DEF ClientInv
<1>1. /\ own.pc = "wait_source" /\ SourceClosed /\ exits("close_error", FALSE)
      /\ UNCHANGED <<user, release, pollVars, jobVars>>
  BY DEF OwnWaitsSource
<1>2. Stays /\ ~registry.failed
  BY <1>1 DEF Stays, ClientTypes, Lifetime, Startup, Wanted
<1>3. ~InUse
  BY <1>1 DEF InUse, Lifetime, Reaching
<1> QED
  BY <1>1, <1>2, <1>3, ExitsInv DEF Errors

(* The poller has started, or has not.                                     *)
LEMMA OwnStartingInv ==
    ASSUME ClientInv, OwnStarting
    PROVE  ClientInv'
<1> USE DEF ClientInv
<1>1. own.pc = "starting" /\ UNCHANGED <<user, told, release, credVars, source, job>>
  BY DEF OwnStarting
<1>2. /\ told = "pending" /\ user.pc # "left" /\ user.pc # "outside" /\ ready # "client"
      /\ ~cred.release /\ ~cred.cancel /\ cred.pc \in {"none", "open"}
      /\ ~registry.failed /\ client.state # "open"
  BY <1>1 DEF Settled, Lifetime, Startup, Wanted, Reaching, Teardown, Leaving
<1>3. CredentialsAreOwned' /\ Evaluations'
  <2>1. own'.pc \in {"starting", "serving", "close_poller"} /\ client'.evaluation = client.evaluation
    BY DEF OwnStarting, own_at, ClientTypes, Owners, Clients
  <2> QED
    BY <1>1, <1>2, <2>1 DEF CredentialsAreOwned, Evaluations, credVars
<1>4. CASE /\ ~own.cancel /\ poller = "starting"
           /\ own_at("serving", "none") /\ ready' = "client"
           /\ poller' = "running" /\ policy' = 1 /\ installed' = 1
           /\ client' = [client EXCEPT !.state = "open"]
  <2>1. /\ own' \in Owners /\ own'.pc = "serving" /\ own'.error = "none"
        /\ own'.cancel = FALSE /\ own'.later = FALSE
    BY <1>4, OwnAt DEF OwnPlaces, Errors
  <2>2. client' \in Clients
    BY <1>4 DEF ClientTypes, Clients
  <2>3. ClientTypes'
    BY <1>1, <1>4, <2>1, <2>2 DEF ClientTypes, credVars
  <2>4. Lifetime'
    BY <1>1, <1>2, <1>4, <2>1
       DEF Lifetime, Startup, Wanted, Reaching, Cancelling, Leaving, SourceClosed, credVars
  <2>5. Teardown' /\ Settled'
    BY <1>1, <1>2, <2>1 DEF Teardown, Settled, Leaving
  <2> QED
    BY <1>3, <2>3, <2>4, <2>5
<1>5. CASE \E p \in {"starting", "close_poller"}, e \in {"cancelled", "error"} :
             /\ own_at(p, e) /\ poller' \in {"failing", "closing"}
             /\ UNCHANGED <<ready, policy, installed, client>>
  <2>1. PICK p \in {"starting", "close_poller"}, e \in {"cancelled", "error"} :
             /\ own_at(p, e) /\ poller' \in {"failing", "closing"}
             /\ UNCHANGED <<ready, policy, installed, client>>
    BY <1>5
  <2>2. own' \in Owners /\ own'.pc = p /\ own'.cancel = FALSE /\ own'.later = FALSE
    BY <2>1, OwnAt DEF OwnPlaces, Errors
  <2>3. ClientTypes'
    BY <1>1, <2>1, <2>2 DEF ClientTypes, credVars
  <2>4. Lifetime'
    BY <1>1, <1>2, <2>1, <2>2
       DEF Lifetime, Startup, Wanted, Reaching, Cancelling, Leaving, SourceClosed, credVars
  <2>5. Teardown' /\ Settled'
    BY <1>1, <1>2, <2>1, <2>2 DEF Teardown, Settled, Leaving
  <2> QED
    BY <1>3, <2>3, <2>4, <2>5
<1> QED
  BY <1>4, <1>5, Zenon DEF OwnStarting

(* release is set: the client closes and its evaluation is cancelled.      *)
LEMMA OwnServingInv ==
    ASSUME ClientInv, OwnServing
    PROVE  ClientInv'
<1> USE DEF ClientInv
<1>1. /\ own.pc = "serving" /\ UNCHANGED <<user, ready, told, release, credVars, pollVars>>
      /\ own_at("close_evaluation", "none") /\ client' = [client EXCEPT !.state = "closed"]
  BY DEF OwnServing
<1>2. /\ own' \in Owners /\ own'.pc = "close_evaluation" /\ own'.error = "none"
      /\ own'.cancel = FALSE /\ own'.later = FALSE
  BY <1>1, OwnAt DEF OwnPlaces, Errors
<1>3. client' \in Clients /\ client'.state = "closed" /\ client'.evaluation = client.evaluation
  BY <1>1 DEF ClientTypes, Clients
<1>4. job' \in [Callers -> Jobs] /\ \A c \in Callers : job'[c].pc = job[c].pc
  <2>1. job \in [Callers -> Jobs]
    BY DEF ClientTypes
  <2>2. ASSUME NEW c \in Callers
        PROVE  [job[c] EXCEPT !.stop = TRUE] \in Jobs /\ [job[c] EXCEPT !.stop = TRUE].pc = job[c].pc
    BY <2>1 DEF Jobs
  <2>3. \A c \in Callers : job'[c] \in {job[c], [job[c] EXCEPT !.stop = TRUE]}
    BY DEF OwnServing
  <2>4. job' = [c \in Callers |-> job'[c]]
    BY DEF OwnServing
  <2> QED
    BY <2>1, <2>2, <2>3, <2>4
<1>5. ClientTypes'
  BY <1>1, <1>2, <1>3, <1>4 DEF ClientTypes, credVars, pollVars
<1>6. Lifetime'
  BY <1>1, <1>2, <1>3
     DEF Lifetime, Startup, Wanted, Reaching, Cancelling, Leaving, SourceClosed, credVars, pollVars
<1>7. Teardown' /\ Settled'
  BY <1>1, <1>2 DEF Teardown, Settled, Leaving
<1>8. CredentialsAreOwned'
  BY <1>1, <1>2 DEF CredentialsAreOwned, Lifetime, Wanted, Leaving, credVars
<1>9. Evaluations'
  BY <1>3, <1>4 DEF Evaluations
<1> QED
  BY <1>5, <1>6, <1>7, <1>8, <1>9

(* The evaluation has ended, or its deadline has come.                     *)
LEMMA OwnClosesEvaluationInv ==
    ASSUME ClientInv, OwnClosesEvaluation
    PROVE  ClientInv'
<1> USE DEF ClientInv
<1>1. /\ own.pc = "close_evaluation" /\ poller' = "closing" /\ policy' = 0
      /\ UNCHANGED <<user, ready, told, release, credVars, source, installed, jobVars>>
  BY DEF OwnClosesEvaluation
<1>2. PICK e \in {"close_error", "none"} :
           own_at("close_poller", e) /\ (e = "none" => ~Working(client.evaluation))
  BY DEF OwnClosesEvaluation
<1>3. /\ own' \in Owners /\ own'.pc = "close_poller" /\ own'.error = e
      /\ own'.cancel = FALSE /\ own'.later = FALSE
  BY <1>2, OwnAt DEF OwnPlaces, Errors
<1>4. e = "none" => \A c \in Callers : job[c].pc # "evaluating"
  BY <1>2, ClientAssumption DEF Evaluations, Working
<1>5. ClientTypes'
  BY <1>1, <1>3 DEF ClientTypes, Closed, credVars, jobVars
<1>6. Lifetime'
  BY <1>1, <1>3
     DEF Lifetime, Startup, Wanted, Reaching, Cancelling, Leaving, SourceClosed, credVars, jobVars
<1>7. Teardown' /\ Settled'
  BY <1>1, <1>3, <1>4 DEF Teardown, Settled, Leaving, jobVars
<1>8. CredentialsAreOwned'
  BY <1>1, <1>3 DEF CredentialsAreOwned, Lifetime, Wanted, Leaving, credVars
<1>9. Evaluations'
  BY <1>1 DEF Evaluations, jobVars
<1> QED
  BY <1>5, <1>6, <1>7, <1>8, <1>9

(* _close_poller ends and source.aclose begins.                            *)
LEMMA OwnClosesPollerInv ==
    ASSUME ClientInv, OwnClosesPoller
    PROVE  ClientInv'
<1> USE DEF ClientInv
<1>1. /\ own.pc = "close_poller" /\ source' = closes_source
      /\ UNCHANGED <<user, ready, told, release, credVars, poller, policy, installed, jobVars>>
  BY DEF OwnClosesPoller
<1>2. PICK e \in Errors : /\ own_at("close_source", e)
                          /\ ready = "client" => e \in {own.error, "close_error"}
                          /\ ready = "client" /\ e = "none" => poller = "closed" /\ own.error = "none"
  BY DEF OwnClosesPoller, Raised, Lifetime, Cancelling, ClientTypes, Owners, Errors
<1>3. /\ own' \in Owners /\ own'.pc = "close_source" /\ own'.error = e
      /\ own'.cancel = FALSE /\ own'.later = FALSE
  BY <1>2, OwnAt DEF OwnPlaces
<1>4. /\ source' \in Sources /\ source'.active = source.active
      /\ source'.closing \in {"closing", source.closing}
  BY <1>1 DEF closes_source, ClientTypes, Sources
<1>5. ClientTypes'
  BY <1>1, <1>3, <1>4 DEF ClientTypes, credVars, jobVars
<1>6. Lifetime'
  BY <1>1, <1>3, <1>4
     DEF Lifetime, Startup, Wanted, Reaching, Cancelling, Leaving, SourceClosed, Closed, credVars, jobVars
<1>7. Teardown' /\ Settled'
  BY <1>1, <1>2, <1>3 DEF Teardown, Settled, Leaving, jobVars
<1>8. CredentialsAreOwned'
  BY <1>1, <1>3 DEF CredentialsAreOwned, Lifetime, Wanted, Leaving, credVars
<1>9. Evaluations'
  BY <1>1 DEF Evaluations, jobVars
<1> QED
  BY <1>5, <1>6, <1>7, <1>8, <1>9

(* A wait that outlasts a cancellation goes on.                            *)
LEMMA OwnAbsorbsInv ==
    ASSUME ClientInv, OwnAbsorbs
    PROVE  ClientInv'
<1> USE DEF ClientInv
<1>1. /\ own.cancel /\ own.pc \in {"close_poller", "exit_half", "exit_rest"}
      /\ own' = [own EXCEPT !.cancel = FALSE, !.later = TRUE]
      /\ UNCHANGED <<user, ready, told, release, credVars, pollVars, jobVars>>
  BY DEF OwnAbsorbs
<1>2. /\ own' \in Owners /\ own'.pc = own.pc /\ own'.error = own.error
      /\ own'.cancel = FALSE /\ own'.later = TRUE
  BY <1>1 DEF ClientTypes, Owners
<1>3. ClientTypes'
  BY <1>1, <1>2 DEF ClientTypes, credVars, pollVars, jobVars
<1>4. Lifetime'
  BY <1>1, <1>2
     DEF Lifetime, Startup, Wanted, Reaching, Cancelling, Leaving, SourceClosed, credVars, pollVars, jobVars
<1>5. Teardown' /\ Settled'
  BY <1>1, <1>2 DEF Lifetime, Cancelling, Teardown, Settled, Leaving
<1>6. CredentialsAreOwned'
  BY <1>1, <1>2 DEF CredentialsAreOwned, InUse, StartCancelled, SourceClosed, credVars, pollVars
<1> QED
  BY <1>1, <1>3, <1>4, <1>5, <1>6 DEF Evaluations, jobVars

(* Half of the registry's timeout is over.                                 *)
LEMMA OwnInterruptsInv ==
    ASSUME ClientInv, OwnInterrupts
    PROVE  ClientInv'
<1> USE DEF ClientInv
<1>1. /\ own.pc = "exit_half" /\ ~own.cancel /\ own' = [own EXCEPT !.pc = "exit_rest"]
      /\ cred' = [cred EXCEPT !.cancel = TRUE]
      /\ UNCHANGED <<user, ready, told, release, registry, pollVars, jobVars>>
  BY DEF OwnInterrupts
<1>2. /\ own' \in Owners /\ own'.pc = "exit_rest" /\ own'.error = own.error
      /\ own'.cancel = own.cancel /\ own'.later = own.later
  BY <1>1 DEF ClientTypes, Owners, OwnPlaces
<1>3. /\ cred' \in Creds /\ cred'.pc = cred.pc /\ cred'.release = cred.release
      /\ cred'.offer = cred.offer
  BY <1>1 DEF ClientTypes, Creds
<1>4. ClientTypes'
  BY <1>1, <1>2, <1>3 DEF ClientTypes, pollVars, jobVars
<1>5. Lifetime'
  BY <1>1, <1>2, <1>3
     DEF Lifetime, Startup, Wanted, Reaching, Cancelling, Leaving, SourceClosed, pollVars, jobVars
<1>6. InUse' <=> InUse
  BY <1>1 DEF InUse, SourceClosed, pollVars
<1>7. Teardown' /\ Settled'
  BY <1>1, <1>2, <1>3, <1>6 DEF Teardown, Settled, Leaving, pollVars, jobVars
<1>8. CredentialsAreOwned'
  BY <1>1, <1>2, <1>3, <1>6 DEF CredentialsAreOwned, StartCancelled
<1> QED
  BY <1>1, <1>4, <1>5, <1>7, <1>8 DEF Evaluations, jobVars

(* The registry's context has been left, and own with it.                  *)
LEMMA OwnExitsInv ==
    ASSUME ClientInv, OwnExits
    PROVE  ClientInv'
<1> USE DEF ClientInv
<1>1. /\ own.pc = "exit_rest" \/ (own.pc = "exit_half" /\ cred.pc \in Ended)
      /\ registry' = [registry EXCEPT !.active = FALSE, !.failed = @ \/ cleanup_failed]
      /\ cred' = [cred EXCEPT !.offer = IF @ = "pending" THEN "cancelled" ELSE @]
      /\ UNCHANGED <<user, release, pollVars, jobVars>>
  BY DEF OwnExits
<1>2. PICK e \in Errors :
           /\ own_at("done", e) /\ settles(e)
           /\ own.error = "cancelled" => e = "cancelled"
           /\ ready = "client" => e \in {own.error, "close_error"} /\ (e = "none" => ~cleanup_failed)
  <2>1. own.error \in Errors /\ (ready = "client" => ~own.later)
    BY DEF ClientTypes, Owners, Lifetime, Cancelling
  <2> QED
    BY <2>1 DEF OwnExits, Errors
<1>3. /\ own' \in Owners /\ own'.pc = "done" /\ own'.error = e
      /\ own'.cancel = FALSE /\ own'.later = FALSE
  BY <1>2, OwnAt DEF OwnPlaces
<1>4. /\ ready' \in {"pending", "client", "error"} /\ told' \in {"ok", "error"}
      /\ ready' = "client" <=> ready = "client"
      /\ told # "pending" => told' = told
      /\ told = "pending" /\ told' = "ok" => e \in {"none", "cancelled"}
  BY <1>2, SettlesDo
<1>5. /\ cred' \in Creds /\ cred'.pc = cred.pc /\ cred'.release = cred.release /\ cred'.cancel = cred.cancel
  BY <1>1 DEF ClientTypes, Creds
<1>6. registry' \in Registries /\ (registry'.failed <=> registry.failed \/ cleanup_failed)
  BY <1>1 DEF ClientTypes, Registries, cleanup_failed
<1>7. ClientTypes'
  BY <1>1, <1>3, <1>4, <1>5, <1>6 DEF ClientTypes, Registries, pollVars, jobVars
<1>8. Lifetime'
  BY <1>1, <1>3, <1>5
     DEF Lifetime, Startup, Wanted, Reaching, Cancelling, Leaving, SourceClosed, pollVars, jobVars
<1>9. InUse' <=> InUse
  BY <1>1 DEF InUse, SourceClosed, pollVars
<1>10. Teardown'
  BY <1>1, <1>2, <1>3, <1>4, <1>9 DEF Teardown, Leaving, pollVars, jobVars
<1>11. Settled'
  <2>1. told # "ok" /\ ~registry.failed
    BY <1>1 DEF Settled, Lifetime, Wanted
  <2>2. ASSUME ready = "client", ~cleanup_failed PROVE cred.pc = "done"
    BY <1>1, <2>2 DEF cleanup_failed, Teardown, Ended
  <2>3. told' = "ok" /\ ready' = "client" =>
          own'.error = "none" /\ cred'.pc \in {"none", "done"} /\ ~registry'.failed
    BY <1>2, <1>3, <1>4, <1>5, <1>6, <2>1, <2>2 DEF Teardown
  <2>4. user.pc = "left" /\ user.result = "none" /\ ready = "client" => told = "ok"
    BY DEF Settled
  <2> QED
    BY <1>1, <1>3, <1>4, <2>1, <2>3, <2>4 DEF Settled, Leaving
<1>12. CredentialsAreOwned'
  BY <1>1, <1>2, <1>3, <1>4, <1>5, <1>6, <1>9
     DEF CredentialsAreOwned, StartCancelled, cleanup_failed
<1> QED
  BY <1>1, <1>7, <1>8, <1>10, <1>11, <1>12 DEF Evaluations, jobVars

-----------------------------------------------------------------------------
(* The provider, the source and the poller                                 *)

(* The provider's task moves on: it opens only for an owner that waits for *)
(* it, ends by cancellation only if cancelled, and leaves "open" only when *)
(* it is told to.                                                          *)
LEMMA CredStepInv ==
    ASSUME ClientInv, UNCHANGED <<openVars, registry, pollVars, jobVars>>,
           cred' \in Creds, cred.pc \notin Ended \cup {"none"}, cred'.pc # "none",
           cred'.release = cred.release, cred'.cancel => cred.cancel,
           cred'.pc = "cancelled" => cred.cancel,
           cred.pc = "open" => cred.release \/ cred.cancel,
           cred'.offer = "credential" => cred'.pc = "open" \/ cred.offer = "credential"
    PROVE  ClientInv'
<1> USE DEF ClientInv
<1>1. UNCHANGED <<user, own, ready, told, release, registry, source, poller, policy, installed, client, job>>
  BY DEF openVars, pollVars, jobVars
<1>2. cred.pc = "open" => own.pc \in Leaving
  BY DEF Lifetime, Wanted
<1>3. own.pc # "none" /\ (own.pc \notin Leaving => own.pc = "credentials")
  BY <1>2 DEF Lifetime, Startup, Wanted
<1>4. ClientTypes'
  BY <1>1 DEF ClientTypes
<1>5. Startup'
  BY <1>1, <1>2, <1>3 DEF Lifetime, Startup, Leaving
<1>6. Wanted'
  BY <1>1, <1>3 DEF Lifetime, Wanted
<1>7. Reaching' /\ Cancelling'
  BY <1>1 DEF Lifetime, Reaching, Cancelling, SourceClosed
<1>8. Teardown'
  BY <1>1 DEF Teardown, Leaving, InUse, SourceClosed
<1>9. Settled'
  BY <1>1 DEF Settled, Teardown, Ended
<1>10. CredentialsAreOwned'
  BY <1>1 DEF CredentialsAreOwned, InUse, StartCancelled, SourceClosed
<1> QED
  BY <1>1, <1>4, <1>5, <1>6, <1>7, <1>8, <1>9, <1>10 DEF Lifetime, Evaluations

(* The provider's context is entered, or is not.                           *)
LEMMA CredEntersInv ==
    ASSUME ClientInv, NEW o \in {"done", "failed", "cancelled"}, CredEnters(o)
    PROVE  ClientInv'
<1>1. cred \in Creds /\ cred.pc = "entering" /\ UNCHANGED <<openVars, registry, pollVars, jobVars>>
  BY DEF ClientInv, ClientTypes, CredEnters
<1>2. CASE cred' = [cred EXCEPT !.pc = "open", !.offer = "credential"]
  <2>1. /\ cred' \in Creds /\ cred'.pc = "open" /\ cred'.cancel = cred.cancel
        /\ cred'.release = cred.release
    BY <1>1, <1>2 DEF Creds
  <2> QED
    BY <1>1, <2>1, CredStepInv DEF Ended
<1>3. CASE cred' = [cred EXCEPT !.pc = "exiting"]
  <2>1. /\ cred' \in Creds /\ cred'.pc = "exiting" /\ cred'.cancel = cred.cancel
        /\ cred'.release = cred.release /\ cred'.offer = cred.offer
    BY <1>1, <1>3 DEF Creds
  <2> QED
    BY <1>1, <2>1, CredStepInv DEF Ended
<1>4. CASE cred' = [cred EXCEPT !.pc = "failed", !.cancel = FALSE]
  <2>1. /\ cred' \in Creds /\ cred'.pc = "failed" /\ cred'.cancel = FALSE
        /\ cred'.release = cred.release /\ cred'.offer = cred.offer
    BY <1>1, <1>4 DEF Creds, Ended
  <2> QED
    BY <1>1, <2>1, CredStepInv DEF Ended
<1>5. CASE cred' = [cred EXCEPT !.pc = "done", !.offer = "error"]
  <2>1. /\ cred' \in Creds /\ cred'.pc = "done" /\ cred'.cancel = cred.cancel
        /\ cred'.release = cred.release /\ cred'.offer = "error"
    BY <1>1, <1>5 DEF Creds, Ended
  <2> QED
    BY <1>1, <2>1, CredStepInv DEF Ended
<1>6. CASE cred.cancel /\ cred' = [cred EXCEPT !.pc = "cancelled", !.cancel = FALSE,
                                               !.offer = IF @ = "pending" THEN "cancelled" ELSE @]
  <2>1. /\ cred' \in Creds /\ cred'.pc = "cancelled" /\ cred'.cancel = FALSE
        /\ cred'.release = cred.release /\ cred'.offer \in {"cancelled", cred.offer}
    BY <1>1, <1>6 DEF Creds, Ended
  <2> QED
    BY <1>1, <1>6, <2>1, CredStepInv DEF Ended
<1> QED
  BY <1>2, <1>3, <1>4, <1>5, <1>6 DEF CredEnters

(* The provider is told to exit.                                           *)
LEMMA CredReleasedInv ==
    ASSUME ClientInv, CredReleased
    PROVE  ClientInv'
<1>1. /\ cred' \in Creds /\ cred'.pc = "exiting" /\ cred'.cancel = cred.cancel
      /\ cred'.offer = cred.offer /\ cred'.release = cred.release
  BY DEF CredReleased, ClientInv, ClientTypes, Creds
<1> QED
  BY <1>1, CredStepInv DEF CredReleased, Ended

(* The provider's context is left.                                         *)
LEMMA CredExitsInv ==
    ASSUME ClientInv, NEW o \in {"done", "failed", "cancelled"}, CredExits(o)
    PROVE  ClientInv'
<1>1. /\ cred' \in Creds /\ cred'.pc = o /\ cred'.cancel = FALSE
      /\ cred'.offer = cred.offer /\ cred'.release = cred.release
  BY DEF CredExits, ClientInv, ClientTypes, Creds, Ended
<1> QED
  BY <1>1, CredStepInv DEF CredExits, Ended

(* The source and the poller move on: a closed source has no call out, a   *)
(* poller that serves keeps its source, and what has closed stays closed.  *)
LEMMA PollStepInv ==
    ASSUME ClientInv, UNCHANGED <<openVars, credVars, jobVars>>,
           source' \in Sources, policy' \in Nat, installed' \in Nat,
           poller' \in {"none", "starting", "failing", "running", "closing"} \cup Closed,
           SourceClosed' => source'.active = 0, InUse' => InUse,
           poller' \in {"starting", "running"} => poller' = poller /\ source'.closing = source.closing,
           source.closing = "absent" => source'.closing = "absent",
           poller \in {"none", "closed"} => poller' = poller
    PROVE  ClientInv'
<1> USE DEF ClientInv
<1>1. UNCHANGED <<user, own, ready, told, release, registry, cred, client, job>>
  BY DEF openVars, credVars, jobVars
<1>2. ClientTypes'
  BY <1>1 DEF ClientTypes
<1>3. Startup' /\ Wanted' /\ Cancelling'
  BY <1>1 DEF Lifetime, Startup, Wanted, Cancelling
<1>4. Reaching'
  BY <1>1 DEF Lifetime, Reaching
<1>5. Teardown' /\ Settled'
  BY <1>1 DEF Teardown, Settled
<1>6. CredentialsAreOwned'
  BY <1>1 DEF CredentialsAreOwned, StartCancelled
<1> QED
  BY <1>1, <1>2, <1>3, <1>4, <1>5, <1>6 DEF Lifetime, Evaluations

(* A source call begins or ends, and the source closes step by step.       *)
LEMMA SourceStepInv ==
    ASSUME ClientInv,
           \/ FetchBegins \/ FetchEnds \/ SourceDrained \/ PollerClosesSource
           \/ \E o \in Closed : SourceCloses(o)
    PROVE  ClientInv'
<1>1. /\ source \in Sources /\ poller \in {"none", "starting", "failing", "running", "closing"} \cup Closed
      /\ policy \in Nat /\ installed \in Nat
      /\ SourceClosed => source.active = 0
      /\ poller \in {"starting", "running"} => source.closing = "open"
  BY DEF ClientInv, ClientTypes, Lifetime, Reaching
<1>2. UNCHANGED <<openVars, credVars, poller, policy, installed, jobVars>>
  BY DEF FetchBegins, FetchEnds, SourceDrained, PollerClosesSource, SourceCloses
<1>3. CASE FetchBegins
  <2>1. source' \in Sources /\ source'.closing = "open" /\ source.closing = "open"
    BY <1>1, <1>3 DEF FetchBegins, Sources
  <2> QED
    BY <1>1, <1>2, <2>1, PollStepInv DEF SourceClosed, Closed, InUse
<1>4. CASE FetchEnds
  <2>1. source' \in Sources /\ source'.closing = source.closing /\ source.active > 0
    BY <1>1, <1>4 DEF FetchEnds, Sources
  <2> QED
    BY <1>1, <1>2, <2>1, PollStepInv DEF SourceClosed, Closed, InUse
<1>5. CASE SourceDrained
  <2>1. /\ source' \in Sources /\ source'.active = 0 /\ source'.closing \in Closed
        /\ source.closing \in {"draining", "drain_failed"}
    BY <1>1, <1>5 DEF SourceDrained, Sources, Closed
  <2> QED
    BY <1>1, <1>2, <2>1, PollStepInv DEF SourceClosed, Closed, InUse
<1>6. CASE PollerClosesSource
  <2>1. /\ source' \in Sources /\ source'.closing = "closing" /\ source.closing = "open"
        /\ poller \in {"failing", "closing"}
    BY <1>1, <1>6 DEF PollerClosesSource, closes_source, Sources
  <2> QED
    BY <1>1, <1>2, <2>1, PollStepInv DEF SourceClosed, Closed, InUse
<1>7. CASE \E o \in Closed : SourceCloses(o)
  <2>1. /\ source' \in Sources /\ source'.closing \in {"draining", "drain_failed"}
        /\ source.closing = "closing"
    BY <1>1, <1>7 DEF SourceCloses, Sources
  <2> QED
    BY <1>1, <1>2, <2>1, PollStepInv DEF SourceClosed, Closed, InUse
<1> QED
  BY <1>3, <1>4, <1>5, <1>6, <1>7

(* The poller fails, closes, or changes the policy it hands out.           *)
LEMMA PollerStepInv ==
    ASSUME ClientInv,
           \/ PollerFails
           \/ \E o \in Closed : PollerCloses(o)
           \/ \E p \in 0 .. MaxPolicies : PolicyChanges(p)
    PROVE  ClientInv'
<1>1. /\ source \in Sources /\ poller \in {"none", "starting", "failing", "running", "closing"} \cup Closed
      /\ policy \in Nat /\ installed \in Nat
      /\ SourceClosed => source.active = 0
  BY DEF ClientInv, ClientTypes, Lifetime, Reaching
<1>2. /\ UNCHANGED <<openVars, credVars, source, jobVars>>
      /\ SourceClosed' => source'.active = 0
      /\ InUse' => InUse
  BY <1>1 DEF PollerFails, PollerCloses, PolicyChanges, SourceClosed, InUse
<1>3. CASE PollerFails
  BY <1>1, <1>2, <1>3, PollStepInv DEF PollerFails
<1>4. CASE \E o \in Closed : PollerCloses(o)
  BY <1>1, <1>2, <1>4, PollStepInv DEF PollerCloses, Closed
<1>5. CASE \E p \in 0 .. MaxPolicies : PolicyChanges(p)
  <2>1. poller' = poller /\ policy' \in Nat /\ installed' \in Nat
    BY <1>1, <1>5, ClientAssumption DEF PolicyChanges
  <2> QED
    BY <1>1, <1>2, <2>1, PollStepInv
<1> QED
  BY <1>3, <1>4, <1>5

-----------------------------------------------------------------------------
(* The user and the evaluations                                            *)

(* Steps that leave the owner and what it owns alone: the user neither     *)
(* comes nor goes, and a job evaluates only if it did or the client is     *)
(* open, and then the client knows of it.                                  *)
LEMMA FrameInv ==
    ASSUME ClientInv, UNCHANGED <<own, ready, told, release, credVars, pollVars>>,
           user' \in Users, user'.pc = "outside" <=> user.pc = "outside",
           user'.pc = "left" => UNCHANGED user,
           client' \in Clients, client'.state = client.state, job' \in [Callers -> Jobs],
           \A c \in Callers : job'[c].pc = "evaluating" =>
              client'.evaluation = c /\ (job[c].pc = "evaluating" \/ client.state = "open")
    PROVE  ClientInv'
<1> USE DEF ClientInv
<1>1. UNCHANGED <<own, ready, told, release, registry, cred, source, poller, policy, installed>>
  BY DEF credVars, pollVars
<1>2. ClientTypes'
  BY <1>1 DEF ClientTypes
<1>3. Startup' /\ Wanted' /\ Cancelling'
  BY <1>1 DEF Lifetime, Startup, Wanted, Cancelling
<1>4. Reaching'
  BY <1>1 DEF Lifetime, Reaching, SourceClosed
<1>5. Teardown'
  <2>1. client.state = "open" => own.pc = "serving"
    BY DEF Lifetime, Reaching
  <2> QED
    BY <1>1, <2>1 DEF Teardown, Leaving, InUse, SourceClosed
<1>6. Settled'
  BY <1>1 DEF Settled
<1>7. CredentialsAreOwned'
  BY <1>1 DEF CredentialsAreOwned, InUse, StartCancelled, SourceClosed
<1> QED
  BY <1>2, <1>3, <1>4, <1>5, <1>6, <1>7 DEF Lifetime, Evaluations

(* A step of the user alone.                                               *)
LEMMA UserFrameInv ==
    ASSUME ClientInv, UNCHANGED <<own, ready, told, release, credVars, pollVars, jobVars>>,
           user' \in Users, user'.pc = "outside" <=> user.pc = "outside",
           user'.pc = "left" => UNCHANGED user
    PROVE  ClientInv'
BY FrameInv DEF ClientInv, ClientTypes, Evaluations, jobVars

(* Jobs that only learn of a cancellation, start or end.                   *)
LEMMA JobFrameInv ==
    ASSUME ClientInv, UNCHANGED <<own, ready, told, release, credVars, pollVars, client>>,
           user' \in Users, user'.pc = "outside" <=> user.pc = "outside",
           user'.pc = "left" => UNCHANGED user,
           job' \in [Callers -> Jobs],
           \A c \in Callers : job'[c].pc = "evaluating" => job[c].pc = "evaluating"
    PROVE  ClientInv'
BY FrameInv DEF ClientInv, ClientTypes, Evaluations

(* The user leaves its body, or open itself: own is cancelled while it may *)
(* still start.                                                            *)
LEMMA UserLeavingInv ==
    ASSUME ClientInv, user.pc \in {"entering", "inside"},
           NEW primary \in {"none", "error", "cancelled"}, user_leaves(primary)
    PROVE  ClientInv' /\ user'.pc = "leaving" /\ UNCHANGED job
<1> USE DEF ClientInv
<1>1. UNCHANGED <<ready, told, registry, cred, source, poller, policy, installed, client, job>>
      /\ release' = TRUE
  BY DEF user_leaves, credVars, pollVars, jobVars
<1>2. user' \in Users /\ user'.pc = "leaving"
  BY DEF user_leaves, ClientTypes, Users
<1>3. /\ own' \in Owners /\ own'.pc = own.pc /\ own'.error = own.error
      /\ own'.cancel = (ready = "pending") /\ own'.later = own.later
  BY DEF user_leaves, ClientTypes, Owners
<1>4. ClientTypes'
  BY <1>1, <1>2, <1>3 DEF ClientTypes
<1>5. Startup' /\ Wanted' /\ Cancelling'
  BY <1>1, <1>2, <1>3 DEF Lifetime, Startup, Wanted, Cancelling
<1>6. Reaching'
  BY <1>1, <1>3 DEF Lifetime, Reaching, SourceClosed
<1>7. Teardown' /\ Settled'
  BY <1>1, <1>2, <1>3 DEF Teardown, Settled, InUse, SourceClosed
<1>8. CredentialsAreOwned'
  BY <1>1, <1>3 DEF CredentialsAreOwned, InUse, StartCancelled, SourceClosed
<1> QED
  BY <1>1, <1>2, <1>4, <1>5, <1>6, <1>7, <1>8 DEF Lifetime, Evaluations

(* The user's wait for a client ends: inside, or on its way out.           *)
LEMMA UserEntersInv ==
    ASSUME ClientInv, UserEnters
    PROVE  ClientInv' /\ user.pc = "entering" /\ user'.pc \in {"inside", "leaving"} /\ UNCHANGED job
<1>1. user \in Users /\ user.pc = "entering"
  BY DEF ClientInv, ClientTypes, UserEnters
<1>2. CASE /\ user' = [user EXCEPT !.pc = "inside"]
           /\ UNCHANGED <<own, ready, told, release, credVars, pollVars, jobVars>>
  <2>1. user' \in Users /\ user'.pc = "inside"
    BY <1>1, <1>2 DEF Users
  <2> QED
    BY <1>1, <1>2, <2>1, UserFrameInv DEF jobVars
<1>3. CASE user_leaves("error")
  BY <1>1, <1>3, UserLeavingInv
<1>4. CASE user_leaves("cancelled")
  BY <1>1, <1>4, UserLeavingInv
<1> QED
  BY <1>2, <1>3, <1>4 DEF UserEnters

(* The body of the context ends.                                           *)
LEMMA UserExitsInv ==
    ASSUME ClientInv, UserExits
    PROVE  ClientInv' /\ user.pc = "inside" /\ user'.pc = "leaving" /\ UNCHANGED job
BY UserLeavingInv DEF UserExits

(* A cancellation of the user is remembered.                               *)
LEMMA UserCancelledInv ==
    ASSUME ClientInv, UserCancelled
    PROVE  ClientInv'
<1>1. /\ user' \in Users /\ user'.pc = user.pc /\ user.pc \notin {"outside", "left"}
      /\ UNCHANGED <<own, ready, told, release, credVars, pollVars, jobVars>>
  BY DEF UserCancelled, ClientInv, ClientTypes, Users
<1> QED
  BY <1>1, UserFrameInv

(* open returns: only an owner that closed without a complaint leaves it   *)
(* without one.                                                            *)
LEMMA UserLeavesInv ==
    ASSUME ClientInv, UserLeaves
    PROVE  ClientInv' /\ user.pc = "leaving" /\ user'.pc = "left" /\ UNCHANGED job
<1> USE DEF ClientInv
<1>1. /\ user.pc = "leaving" /\ told \in {"ok", "error"}
      /\ UNCHANGED <<own, ready, told, release, registry, cred, source, poller, policy, installed, client, job>>
  BY DEF UserLeaves, ClientTypes, credVars, pollVars, jobVars
<1>2. user \in Users /\ left_with \in Errors /\ (left_with = "none" => told = "ok")
  BY <1>1 DEF ClientTypes, Users, left_with, Errors
<1>3. user' \in Users /\ user'.pc = "left" /\ user'.result = left_with
  BY <1>2 DEF UserLeaves, Users
<1>4. ClientTypes'
  BY <1>1, <1>3 DEF ClientTypes
<1>5. Lifetime'
  BY <1>1, <1>3 DEF Lifetime, Startup, Wanted, Cancelling, Reaching, SourceClosed
<1>6. Teardown' /\ CredentialsAreOwned'
  BY <1>1 DEF Teardown, CredentialsAreOwned, InUse, StartCancelled, SourceClosed
<1>7. Settled'
  BY <1>1, <1>2, <1>3 DEF Settled
<1> QED
  BY <1>1, <1>3, <1>4, <1>5, <1>6, <1>7 DEF Evaluations

(* An evaluation ends.                                                     *)
LEMMA WorkEndsInv ==
    ASSUME ClientInv, NEW c \in Callers,
           NEW o \in {"verdict", "error", "close_error", "cancelled"}, WorkEnds(c, o)
    PROVE  ClientInv' /\ \A d \in Callers : Running(d)' <=> Running(d)
<1>1. /\ user \in Users /\ job \in [Callers -> Jobs] /\ client \in Clients /\ job[c].pc = "evaluating"
      /\ UNCHANGED <<user, own, ready, told, release, credVars, pollVars>>
  BY DEF WorkEnds, ClientInv, ClientTypes, openVars
<1>2. client' \in Clients /\ client'.state = client.state /\ client'.evaluation = client.evaluation
  BY <1>1 DEF WorkEnds, Clients
<1>3. job' = [job EXCEPT ![c] = [job[c] EXCEPT !.pc = "evaluated", !.outcome = o, !.stop = FALSE]]
  BY <1>1, Zenon DEF WorkEnds
<1>4. /\ [job[c] EXCEPT !.pc = "evaluated", !.outcome = o, !.stop = FALSE] \in Jobs
      /\ [job[c] EXCEPT !.pc = "evaluated", !.outcome = o, !.stop = FALSE].pc = "evaluated"
  BY <1>1 DEF Jobs
<1>5. /\ job' \in [Callers -> Jobs] /\ job'[c].pc = "evaluated"
      /\ \A d \in Callers \ {c} : job'[d] = job[d]
  BY <1>1, <1>3, <1>4
<1>6. ClientInv'
  BY <1>1, <1>2, <1>5, FrameInv DEF ClientInv, Evaluations
<1> QED
  BY <1>1, <1>5, <1>6 DEF Running

(* A job that has ended is a job.                                          *)
LEMMA FinishedDo ==
    ASSUME NEW o \in {"none", "verdict", "denied", "error", "cancelled", "close_error"}, NEW s \in Nat
    PROVE  Finished(o, s) \in Jobs /\ Finished(o, s).pc = "done"
BY DEF Finished, NoJob, Jobs

(* A job begins to evaluate only with a client that is open and free.      *)
LEMMA BegunDo ==
    ASSUME ClientTypes, NEW c \in Callers, NEW ok \in BOOLEAN, NEW busy \in {"denied", "error"}
    PROVE  /\ begun(c, ok, busy) \in Jobs
           /\ \/ begun(c, ok, busy).pc = "done"
              \/ /\ begun(c, ok, busy).pc = "evaluating"
                 /\ client.state = "open" /\ ~Working(client.evaluation)
<1>1. job[c] \in Jobs /\ policy \in Nat /\ job[c].cancel \in BOOLEAN
  BY DEF ClientTypes, Jobs
<1>2. CASE job[c].cancel
  BY <1>2, FinishedDo DEF begun
<1>3. CASE ~job[c].cancel /\ (~ok \/ ~Usable)
  BY <1>3, FinishedDo DEF begun
<1>4. CASE ~job[c].cancel /\ ok /\ Usable /\ Working(client.evaluation)
  <2>1. begun(c, ok, busy) = Finished(busy, policy)
    BY <1>4 DEF begun
  <2> QED
    BY <1>1, <2>1, FinishedDo
<1>5. CASE ~job[c].cancel /\ ok /\ Usable /\ ~Working(client.evaluation)
  <2>1. begun(c, ok, busy) = [job[c] EXCEPT !.pc = "evaluating", !.snapshot = policy]
    BY <1>5 DEF begun
  <2>2. begun(c, ok, busy) \in Jobs /\ begun(c, ok, busy).pc = "evaluating"
    BY <1>1, <2>1 DEF Jobs
  <2> QED
    BY <1>5, <2>2 DEF Usable
<1> QED
  BY <1>1, <1>2, <1>3, <1>4, <1>5

(* A job that has resumed has ended.                                       *)
LEMMA ResumedDo ==
    ASSUME ClientTypes, NEW c \in Callers
    PROVE  resumed(c) \in Jobs /\ resumed(c).pc = "done"
<1>1. /\ job[c].outcome \in {"none", "verdict", "denied", "error", "cancelled", "close_error"}
      /\ job[c].snapshot \in Nat
  BY DEF ClientTypes, Jobs
<1> QED
  BY <1>1, FinishedDo DEF resumed

(* A job moves on and the client's _evaluation with it.                    *)
LEMMA JobMovesInv ==
    ASSUME ClientInv, NEW c \in Callers, job[c].pc # "evaluating",
           NEW j \in Jobs, NEW k \in Jobs, k.pc = "evaluating" => j.pc = "evaluating",
           j.pc = "evaluating" => client.state = "open" /\ ~Working(client.evaluation),
           client' = [client EXCEPT !.evaluation = evaluation_after(c, j)],
           job' = [job EXCEPT ![c] = k], UNCHANGED <<openVars, credVars, pollVars>>
    PROVE  ClientInv'
<1>1. user \in Users /\ client \in Clients /\ job \in [Callers -> Jobs]
      /\ UNCHANGED <<user, own, ready, told, release, credVars, pollVars>>
  BY DEF ClientInv, ClientTypes, openVars
<1>2. evaluation_after(c, j) \in Callers \cup {NoCaller}
  BY <1>1 DEF evaluation_after, Clients
<1>3. client' \in Clients /\ client'.state = client.state /\ client'.evaluation = evaluation_after(c, j)
  BY <1>1, <1>2 DEF Clients
<1>4. job' \in [Callers -> Jobs] /\ job'[c] = k /\ \A d \in Callers \ {c} : job'[d] = job[d]
  BY <1>1
<1>5. ASSUME NEW d \in Callers, job'[d].pc = "evaluating"
      PROVE  client'.evaluation = d /\ (job[d].pc = "evaluating" \/ client.state = "open")
  <2>1. CASE d = c
    BY <1>3, <1>4, <1>5, <2>1 DEF evaluation_after
  <2>2. CASE d # c
    <3>1. job[d].pc = "evaluating" /\ client.evaluation = d
      BY <1>4, <1>5, <2>2 DEF ClientInv, Evaluations
    <3>2. j.pc # "evaluating"
      BY <3>1, ClientAssumption DEF Working
    <3> QED
      BY <1>3, <2>2, <3>1, <3>2 DEF evaluation_after
  <2> QED
    BY <2>1, <2>2
<1> QED
  BY <1>1, <1>3, <1>4, <1>5, FrameInv

(* Cancelling a job changes what it does when it resumes, not where it is. *)
LEMMA CancelledDo ==
    ASSUME ClientTypes, NEW c \in Callers, job' = [job EXCEPT ![c] = Cancelled(@)]
    PROVE  job' \in [Callers -> Jobs] /\ \A d \in Callers : job'[d].pc = job[d].pc
<1>1. job \in [Callers -> Jobs] /\ job[c] \in Jobs
  BY DEF ClientTypes
<1>2. Cancelled(job[c]) \in Jobs /\ Cancelled(job[c]).pc = job[c].pc
  BY <1>1 DEF Cancelled, Jobs
<1> QED
  BY <1>1, <1>2

-----------------------------------------------------------------------------
(* The steps of the client, together                                       *)

\* What the interceptor over the client sees of a step of the client.
SameRuns == \A c \in Callers : Running(c)' <=> Running(c)

(* The owner's steps keep the invariant, the user and who runs.            *)
LEMMA OwnStepInv ==
    ASSUME ClientInv, OwnStep
    PROVE  ClientInv' /\ UNCHANGED user /\ SameRuns
<1>1. CASE OwnServing
  <2>1. \A c \in Callers : job'[c].pc = job[c].pc
    BY <1>1 DEF OwnServing, ClientInv, ClientTypes, Jobs
  <2> QED
    BY <1>1, <2>1, OwnServingInv DEF OwnServing, SameRuns, Running
<1>2. CASE OwnStep /\ ~OwnServing
  <2>1. UNCHANGED <<user, job>>
    BY <1>2 DEF OwnStep, OwnCredentials, OwnStarting, OwnClosesEvaluation, OwnClosesPoller, OwnClosesSource,
                OwnWaitsSource, OwnAbsorbs, OwnInterrupts, OwnExits, jobVars
  <2>2. ClientInv'
    BY <1>2, OwnCredentialsInv, OwnStartingInv, OwnClosesEvaluationInv, OwnClosesPollerInv,
       OwnClosesSourceInv, OwnWaitsSourceInv, OwnAbsorbsInv, OwnInterruptsInv, OwnExitsInv DEF OwnStep
  <2> QED
    BY <2>1, <2>2 DEF SameRuns, Running
<1> QED
  BY <1>1, <1>2

(* So do the steps of which nothing is promised.                           *)
LEMMA ExternalInv ==
    ASSUME ClientInv, External
    PROVE  ClientInv' /\ UNCHANGED user /\ SameRuns
<1>1. CASE \E c \in Callers, o \in {"verdict", "error", "close_error", "cancelled"} : WorkEnds(c, o)
  <2>1. PICK c \in Callers, o \in {"verdict", "error", "close_error", "cancelled"} : WorkEnds(c, o)
    BY <1>1
  <2>2. UNCHANGED user
    BY <2>1 DEF WorkEnds, openVars
  <2> QED
    BY <2>1, <2>2, WorkEndsInv DEF SameRuns
<1>2. CASE \/ \E o \in {"done", "failed", "cancelled"} : CredEnters(o) \/ CredExits(o)
           \/ CredReleased
  <2>1. ClientInv'
    BY <1>2, CredEntersInv, CredExitsInv, CredReleasedInv
  <2> QED
    BY <1>2, <2>1 DEF CredEnters, CredExits, CredReleased, openVars, jobVars, SameRuns, Running
<1>3. CASE \/ FetchBegins \/ FetchEnds \/ SourceDrained \/ PollerClosesSource
           \/ \E o \in Closed : SourceCloses(o)
  <2>1. ClientInv'
    BY <1>3, SourceStepInv
  <2> QED
    BY <1>3, <2>1 DEF FetchBegins, FetchEnds, SourceDrained, PollerClosesSource, SourceCloses,
                      openVars, jobVars, SameRuns, Running
<1>4. CASE \/ PollerFails
           \/ \E o \in Closed : PollerCloses(o)
           \/ \E p \in 0 .. MaxPolicies : PolicyChanges(p)
  <2>1. ClientInv'
    BY <1>4, PollerStepInv
  <2> QED
    BY <1>4, <2>1 DEF PollerFails, PollerCloses, PolicyChanges, openVars, jobVars, SameRuns, Running
<1> QED
  BY <1>1, <1>2, <1>3, <1>4 DEF External

-----------------------------------------------------------------------------
(* The interceptor's steps                                                 *)

(* A step that leaves the interceptor alone: in managed mode nobody comes, *)
(* who has left stays away and no work starts.                             *)
LEMMA ManagedFrame ==
    ASSUME ManagedInv, UNCHANGED managedVars,
           Managed => /\ user'.pc = "outside" <=> user.pc = "outside"
                      /\ user.pc = "left" => user'.pc = "left"
                      /\ \A c \in Callers : Running(c)' => Running(c)
    PROVE  ManagedInv'
<1>1. UNCHANGED <<mode, enter, acs, drain, retained, runtime, caller>>
  BY DEF managedVars
<1>2. Managed' <=> Managed
  BY <1>1 DEF Managed
<1>3. ManagedTypes'
  BY <1>1 DEF ManagedInv, ManagedTypes
<1>4. Managing'
  BY <1>1, <1>2, SMTT(20) DEF ManagedInv, Managing
<1> QED
  BY <1>3, <1>4 DEF ManagedInv

(* What the parts of Managing say of a step that changes the interceptor.  *)
LEMMA ManagingFollows ==
    ASSUME ManagedInv, ManagedTypes', Managed, UNCHANGED mode,
           runtime'.ready = "none" <=> user'.pc = "outside",
           \A c \in Callers : Running(c)' => acs'.work = c,
           drain' # "none" => acs'.closed,
           retained' # NoCaller => acs'.closed /\ \A c \in Callers : Running(c)' => c = retained',
           runtime'.closing => acs'.closed /\ \A c \in Callers : ~Running(c)',
           drain' = "ok" => user'.pc \in {"outside", "left"}
    PROVE  ManagedInv'
<1>1. Managed'
  BY DEF Managed
<1>2. Managing'
  BY <1>1 DEF Managing
<1> QED
  BY <1>2 DEF ManagedInv

(* The facts of Managing, for a step in managed mode.                      *)
LEMMA ManagedFacts ==
    ASSUME ManagedInv, Managed
    PROVE  /\ runtime.ready = "none" <=> user.pc = "outside"
           /\ \A c \in Callers : Running(c) => acs.work = c
           /\ drain # "none" => acs.closed
           /\ retained # NoCaller => acs.closed /\ \A c \in Callers : Running(c) => c = retained
           /\ runtime.closing => acs.closed /\ \A c \in Callers : ~Running(c)
           /\ drain = "ok" => user.pc \in {"outside", "left"}
BY DEF ManagedInv, Managing

(* A step of the interceptor is one of managed mode.                       *)
LEMMA OnlyManaged ==
    ASSUME ManagedInv,
           enter.pc # "outside" \/ drain # "none" \/ retained # NoCaller
             \/ \E c \in Callers : caller[c].pc = "waiting"
    PROVE  Managed
BY DEF ManagedInv, Managing

(* request_close tells or cancels the user, and changes nothing else of it.*)
LEMMA RequestCloseDo ==
    ASSUME ClientTypes, ManagedTypes, request_close
    PROVE  /\ user' \in Users /\ user'.pc = user.pc
           /\ user.pc \in {"outside", "left"} => UNCHANGED user
           /\ runtime' \in [closing : BOOLEAN, release : BOOLEAN,
                            ready : {"none", "pending", "backend", "error", "cancelled"}]
           /\ runtime'.ready = runtime.ready
<1>1. CASE runtime.closing
  BY <1>1 DEF request_close, ClientTypes, ManagedTypes
<1>2. CASE ~runtime.closing
  <2>1. /\ runtime' = [runtime EXCEPT !.closing = TRUE, !.release = runtime.ready \notin {"none", "pending"}]
        /\ \/ UNCHANGED user
           \/ user.pc = "entering" /\ user' = [user EXCEPT !.cancel = TRUE]
           \/ user.pc = "leaving" /\ user' = [user EXCEPT !.later = TRUE]
    BY <1>2 DEF request_close
  <2>2. /\ user' \in Users /\ user'.pc = user.pc
        /\ user.pc \in {"outside", "left"} => UNCHANGED user
    BY <2>1 DEF ClientTypes, Users
  <2> QED
    BY <2>1, <2>2 DEF ManagedTypes
<1> QED
  BY <1>1, <1>2

(* The task _own is the user: it becomes ready, is released and ends.      *)
LEMMA RuntimeInv ==
    ASSUME Inv, RuntimeReady \/ RuntimeReleased \/ RuntimeEnds
    PROVE  Inv'
<1> USE DEF Inv
<1>1. CASE RuntimeReady
  <2>1. /\ Managed /\ UNCHANGED <<mode, enter, acs, drain, retained, caller>>
        /\ ClientInv' /\ user.pc = "entering" /\ user'.pc \in {"inside", "leaving"} /\ UNCHANGED job
    BY <1>1, UserEntersInv DEF RuntimeReady
  <2>2. /\ ManagedTypes' /\ runtime'.closing = runtime.closing
        /\ runtime'.ready = "none" => runtime.ready = "none"
    BY <1>1, <2>1 DEF RuntimeReady, ManagedInv, ManagedTypes
  <2> QED
    BY <2>1, <2>2, ManagedFacts, ManagingFollows DEF Running
<1>2. CASE RuntimeReleased
  <2>1. /\ Managed /\ UNCHANGED managedVars
        /\ ClientInv' /\ user.pc = "inside" /\ user'.pc = "leaving" /\ UNCHANGED job
    BY <1>2, UserExitsInv DEF RuntimeReleased
  <2> QED
    BY <2>1, ManagedFrame DEF Running
<1>3. CASE RuntimeEnds
  <2>1. /\ Managed /\ UNCHANGED <<mode, enter, acs, drain, retained, caller>>
        /\ ClientInv' /\ user.pc = "leaving" /\ user'.pc = "left" /\ UNCHANGED job
    BY <1>3, UserLeavesInv DEF RuntimeEnds
  <2>2. /\ ManagedTypes' /\ runtime'.closing = runtime.closing
        /\ runtime'.ready = "none" => runtime.ready = "none"
    BY <1>3, <2>1 DEF RuntimeEnds, ManagedInv, ManagedTypes
  <2> QED
    BY <2>1, <2>2, ManagedFacts, ManagingFollows DEF Running
<1> QED
  BY <1>1, <1>2, <1>3

(* __aenter__ starts the runtime.                                          *)
LEMMA AenterInv ==
    ASSUME Inv, NEW b \in Builds, Aenter(b)
    PROVE  Inv'
<1>1. /\ Managed /\ ~acs.closed /\ UNCHANGED <<mode, acs, drain, retained, caller, job>>
      /\ ClientInv' /\ user.pc = "outside" /\ user'.pc = "entering"
  BY OpenInv DEF Aenter, Inv, Open, jobVars
<1>2. ManagedTypes' /\ runtime'.closing = runtime.closing /\ runtime'.ready = "pending"
  BY <1>1 DEF Aenter, Inv, ManagedInv, ManagedTypes
<1> QED
  BY <1>1, <1>2, ManagedFacts, ManagingFollows DEF Inv, Running

(* A step of the interceptor that leaves the client and the runtime alone. *)
LEMMA AcsStep ==
    ASSUME Inv, Managed, UNCHANGED <<clientVars, mode, retained, runtime>>, ManagedTypes',
           acs'.work = acs.work, acs.closed => acs'.closed, drain' # "none" => acs'.closed,
           drain' = "ok" => user.pc \in {"outside", "left"}
    PROVE  Inv'
<1>1. UNCHANGED <<user, own, ready, told, release, credVars, pollVars, client, job>>
  BY DEF clientVars, openVars, jobVars
<1>2. ClientInv'
  BY <1>1, JobFrameInv DEF Inv, ClientInv, ClientTypes
<1> QED
  BY <1>1, <1>2, ManagedFacts, ManagingFollows DEF Inv, Running

(* __aenter__ ends, fails, or is cancelled; aclose makes a close task.     *)
LEMMA EnteringInv ==
    ASSUME Inv, EnterResumes \/ EnterFails \/ EnterCancelled \/ Aclose
    PROVE  Inv'
<1>1. Managed
  BY OnlyManaged DEF Inv, EnterResumes, EnterFails, EnterCancelled, Aclose
<1>2. UNCHANGED <<clientVars, mode, retained, runtime, caller>>
  BY DEF EnterResumes, EnterFails, EnterCancelled, Aclose
<1>3. /\ ManagedTypes /\ (drain # "none" => acs.closed)
      /\ drain = "ok" => user.pc \in {"outside", "left"}
  BY <1>1, ManagedFacts DEF Inv, ManagedInv
<1>4. ASSUME enter' \in [pc : {"outside", "starting", "entered", "failing", "failed"}, cancel : BOOLEAN],
             NEW k \in BOOLEAN, NEW h \in BOOLEAN, NEW f \in BOOLEAN,
             acs' = [acs EXCEPT !.closed = k, !.backend = h, !.start_failed = f],
             acs.closed => k, drain' = drain \/ (drain' = "created" /\ k)
      PROVE  Inv'
  <2>1. /\ acs'.work = acs.work /\ acs'.closed = k
        /\ acs' \in [closed : BOOLEAN, backend : BOOLEAN, start_failed : BOOLEAN,
                     work : Callers \cup {NoCaller}]
    BY <1>3, <1>4 DEF ManagedTypes
  <2>2. ManagedTypes'
    BY <1>2, <1>3, <1>4, <2>1 DEF ManagedTypes
  <2> QED
    BY <1>1, <1>2, <1>3, <1>4, <2>1, <2>2, AcsStep
<1>5. ASSUME NEW e \in {"error", "cancelled"}, enter_fails(e)
      PROVE  Inv'
  <2>1. enter' \in [pc : {"outside", "starting", "entered", "failing", "failed"}, cancel : BOOLEAN]
    BY <1>3, <1>5 DEF enter_fails, ManagedTypes
  <2>2. acs' = [acs EXCEPT !.closed = acs.closed \/ closable, !.backend = acs.backend,
                           !.start_failed = ~acs.closed /\ e # "cancelled"]
    BY <1>3, <1>5 DEF enter_fails, ManagedTypes
  <2>3. (acs.closed \/ closable) \in BOOLEAN /\ (~acs.closed /\ e # "cancelled") \in BOOLEAN
    OBVIOUS
  <2>4. acs.backend \in BOOLEAN
    BY <1>3 DEF ManagedTypes
  <2>5. drain' = drain \/ (drain' = "created" /\ closable)
    BY <1>5 DEF enter_fails
  <2> QED
    BY <1>4, <2>1, <2>2, <2>3, <2>4, <2>5
<1>6. ASSUME enter' \in [pc : {"outside", "starting", "entered", "failing", "failed"}, cancel : BOOLEAN],
             NEW h \in BOOLEAN, acs' = [acs EXCEPT !.backend = h], UNCHANGED drain
      PROVE  Inv'
  <2>1. /\ acs.closed \in BOOLEAN /\ acs.start_failed \in BOOLEAN
        /\ acs' = [acs EXCEPT !.closed = acs.closed, !.backend = h, !.start_failed = acs.start_failed]
    BY <1>3, <1>6 DEF ManagedTypes
  <2> QED
    BY <1>4, <1>6, <2>1
<1>7. CASE EnterResumes
  <2>1. CASE enter' = [enter EXCEPT !.pc = "entered"] /\ acs' = [acs EXCEPT !.backend = TRUE] /\ UNCHANGED drain
    BY <1>3, <1>6, <2>1 DEF ManagedTypes
  <2> QED
    BY <1>5, <1>7, <2>1 DEF EnterResumes
<1>8. CASE EnterFails \/ EnterCancelled
  <2>1. UNCHANGED <<acs, drain>>
    BY <1>8 DEF EnterFails, EnterCancelled
  <2>2. enter' \in [pc : {"outside", "starting", "entered", "failing", "failed"}, cancel : BOOLEAN]
    BY <1>3, <1>8 DEF EnterFails, EnterCancelled, ManagedTypes
  <2>3. acs.backend \in BOOLEAN /\ acs' = [acs EXCEPT !.backend = acs.backend]
    BY <1>3, <2>1 DEF ManagedTypes
  <2> QED
    BY <1>6, <2>1, <2>2, <2>3
<1>9. CASE Aclose
  <2>1. /\ enter' \in [pc : {"outside", "starting", "entered", "failing", "failed"}, cancel : BOOLEAN]
        /\ acs.backend \in BOOLEAN /\ acs.start_failed \in BOOLEAN
        /\ acs' = [acs EXCEPT !.closed = TRUE, !.backend = acs.backend, !.start_failed = acs.start_failed]
        /\ drain' = "created"
    BY <1>3, <1>9 DEF Aclose, ManagedTypes
  <2> QED
    BY <1>4, <2>1
<1> QED
  BY <1>7, <1>8, <1>9

(* A step that closes the runtime does so when no work runs.               *)
LEMMA ClosesRuntime ==
    ASSUME Inv, Managed, acs.closed, \A c \in Callers : ~Running(c), request_close,
           drain' \in {drain, "closing"}, retained' \in {retained, NoCaller},
           UNCHANGED <<own, ready, told, release, credVars, pollVars, client, job, mode, enter, acs, caller>>
    PROVE  Inv'
<1>1. ClientTypes /\ ManagedTypes
  BY DEF Inv, ClientInv, ManagedInv
<1>2. /\ user' \in Users /\ user'.pc = user.pc
      /\ user.pc \in {"outside", "left"} => UNCHANGED user
      /\ runtime' \in [closing : BOOLEAN, release : BOOLEAN,
                       ready : {"none", "pending", "backend", "error", "cancelled"}]
      /\ runtime'.ready = runtime.ready
  BY <1>1, RequestCloseDo
<1>3. ClientInv'
  BY <1>1, <1>2, JobFrameInv DEF Inv, ClientTypes
<1>4. ManagedTypes'
  BY <1>1, <1>2 DEF ManagedTypes
<1>5. ManagedInv'
  BY <1>2, <1>4, ManagedFacts, ManagingFollows DEF Inv, Running
<1> QED
  BY <1>3, <1>5 DEF Inv

(* A step that changes a job, and the interceptor's record of its work.    *)
LEMMA AcsJobStep ==
    ASSUME Inv, Managed, ManagedTypes', UNCHANGED <<openVars, credVars, pollVars, client, mode, runtime>>,
           job' \in [Callers -> Jobs],
           \A c \in Callers : job'[c].pc = "evaluating" => job[c].pc = "evaluating",
           \A c \in Callers : Running(c)' => acs'.work = c,
           acs'.closed = acs.closed, drain' # "none" => acs.closed, drain' = "ok" => drain = "ok",
           retained' = retained \/ (acs.closed /\ retained' = acs.work),
           acs.closed => \A c \in Callers : Running(c)' => Running(c)
    PROVE  Inv'
<1>1. UNCHANGED <<user, own, ready, told, release>>
  BY DEF openVars
<1>2. ClientInv'
  BY <1>1, JobFrameInv DEF Inv, ClientInv, ClientTypes
<1>3. ManagedInv'
  BY <1>1, ManagedFacts, ManagingFollows DEF Inv
<1> QED
  BY <1>2, <1>3 DEF Inv

(* _drain, up to its wait for the work.                                    *)
LEMMA DrainStartsInv ==
    ASSUME Inv, DrainStarts
    PROVE  Inv'
<1>1. Managed /\ acs.closed /\ ClientTypes /\ ManagedTypes
  BY OnlyManaged, ManagedFacts DEF Inv, ClientInv, ManagedInv, DrainStarts
<1>2. CASE acs.work # NoCaller
  <2>1. /\ acs.work \in Callers /\ drain' = "draining"
        /\ job' = [job EXCEPT ![acs.work] = Cancelled(@)]
        /\ UNCHANGED <<user, own, ready, told, release, credVars, pollVars, client,
                       mode, enter, acs, retained, runtime, caller>>
    BY <1>1, <1>2 DEF DrainStarts, ManagedTypes
  <2>2. job' \in [Callers -> Jobs] /\ \A d \in Callers : job'[d].pc = job[d].pc
    BY <1>1, <2>1, CancelledDo
  <2>3. ManagedTypes'
    BY <1>1, <2>1 DEF ManagedTypes
  <2> QED
    BY <1>1, <2>1, <2>2, <2>3, ManagedFacts, AcsJobStep DEF Inv, Running, openVars
<1>3. CASE acs.work = NoCaller
  <2>1. \A c \in Callers : ~Running(c)
    BY <1>1, <1>3, ManagedFacts, ClientAssumption DEF Inv
  <2> QED
    BY <1>1, <1>3, <2>1, ClosesRuntime DEF DrainStarts
<1> QED
  BY <1>2, <1>3

(* _drain's wait ends: with the work, or without it.                       *)
LEMMA DrainEndsInv ==
    ASSUME Inv, DrainEnds
    PROVE  Inv'
<1>1. Managed /\ acs.closed /\ ClientTypes /\ ManagedTypes
  BY OnlyManaged, ManagedFacts DEF Inv, ClientInv, ManagedInv, DrainEnds
<1>2. CASE \A c \in Callers : ~Running(c)
  BY <1>1, <1>2, ClosesRuntime DEF DrainEnds, jobVars
<1>3. CASE ~\A c \in Callers : ~Running(c)
  <2>1. /\ drain' = "error" /\ retained' = acs.work
        /\ UNCHANGED <<user, own, ready, told, release, credVars, pollVars, client, job,
                       mode, enter, acs, runtime, caller>>
    BY <1>3 DEF DrainEnds, jobVars
  <2>2. ManagedTypes'
    BY <1>1, <2>1 DEF ManagedTypes
  <2> QED
    BY <1>1, <2>1, <2>2, ManagedFacts, AcsJobStep DEF Inv, ClientTypes, Running, openVars
<1> QED
  BY <1>2, <1>3

(* Work that outlived its close ends the runtime when it ends.             *)
LEMMA RetainedEndsInv ==
    ASSUME Inv, RetainedEnds
    PROVE  Inv'
<1>1. Managed /\ acs.closed /\ \A c \in Callers : ~Running(c)
  BY OnlyManaged, ManagedFacts DEF Inv, RetainedEnds
<1> QED
  BY <1>1, ClosesRuntime DEF RetainedEnds, jobVars

(* ManagedRuntime.aclose ends: well only if nobody entered or all left.    *)
LEMMA CloseEndsInv ==
    ASSUME Inv, CloseEnds
    PROVE  Inv'
<1>1. Managed /\ acs.closed /\ ManagedTypes
  BY OnlyManaged, ManagedFacts DEF Inv, ManagedInv, CloseEnds
<1>2. ManagedTypes'
  BY <1>1 DEF CloseEnds, ManagedTypes
<1>3. drain' = "ok" => user.pc \in {"outside", "left"}
  BY <1>1, ManagedFacts DEF Inv, CloseEnds
<1> QED
  BY <1>1, <1>2, <1>3, AcsStep DEF CloseEnds

(* An interception starts its work when nothing else runs.                 *)
LEMMA InterceptInv ==
    ASSUME Inv, NEW c \in Callers, NEW context_ok \in BOOLEAN, Intercept(c, context_ok)
    PROVE  Inv'
<1>1. Managed /\ ClientTypes /\ ManagedTypes
  BY DEF Inv, ClientInv, ManagedInv, Intercept
<1>2. ~acs.closed /\ ~Running(acs.work)
  BY DEF Intercept, refused
<1>3. \A d \in Callers : ~Running(d)
  BY <1>1, <1>2, ManagedFacts DEF Inv
<1>4. [NoJob EXCEPT !.pc = "created"] \in Jobs /\ [NoJob EXCEPT !.pc = "created"].pc = "created"
  BY DEF NoJob, Jobs
<1>5. /\ job' \in [Callers -> Jobs] /\ job'[c].pc = "created"
      /\ \A d \in Callers \ {c} : job'[d] = job[d]
  BY <1>1, <1>4 DEF Intercept, ClientTypes
<1>6. caller' \in [Callers -> [pc : {"idle", "waiting"}, cancelling : BOOLEAN, must : BOOLEAN]]
  BY <1>1 DEF Intercept, ManagedTypes
<1>7. ManagedTypes' /\ acs'.work = c /\ acs'.closed = acs.closed
  BY <1>1, <1>6 DEF Intercept, ManagedTypes
<1>8. \A d \in Callers : Running(d)' => d = c
  BY <1>3, <1>5 DEF Running
<1> QED
  BY <1>1, <1>2, <1>5, <1>7, <1>8, ManagedFacts, AcsJobStep DEF Inv, Intercept

(* An interception returns, and its work is forgotten.                     *)
LEMMA InterceptResumesInv ==
    ASSUME Inv, NEW c \in Callers, InterceptResumes(c)
    PROVE  Inv'
<1>1. Managed /\ ClientTypes /\ ManagedTypes
  BY OnlyManaged DEF Inv, ClientInv, ManagedInv, InterceptResumes
<1>2. NoJob \in Jobs /\ NoJob.pc = "idle"
  BY DEF NoJob, Jobs
<1>3. /\ job' \in [Callers -> Jobs] /\ job'[c].pc = "idle"
      /\ \A d \in Callers \ {c} : job'[d] = job[d]
  BY <1>1, <1>2 DEF InterceptResumes, ClientTypes
<1>4. caller' \in [Callers -> [pc : {"idle", "waiting"}, cancelling : BOOLEAN, must : BOOLEAN]]
  BY <1>1 DEF InterceptResumes, ManagedTypes
<1>5. /\ ManagedTypes' /\ acs'.closed = acs.closed
      /\ acs'.work = IF acs.work = c THEN NoCaller ELSE acs.work
  BY <1>1, <1>4 DEF InterceptResumes, ManagedTypes
<1>6. \A d \in Callers : Running(d)' => d # c /\ Running(d)
  BY <1>3 DEF Running
<1> QED
  BY <1>1, <1>3, <1>5, <1>6, ManagedFacts, AcsJobStep DEF Inv, InterceptResumes

(* An interception is cancelled, and its work with it.                     *)
LEMMA InterceptCancelledInv ==
    ASSUME Inv, NEW c \in Callers, InterceptCancelled(c)
    PROVE  Inv'
<1>1. Managed /\ ClientTypes /\ ManagedTypes
  BY OnlyManaged DEF Inv, ClientInv, ManagedInv, InterceptCancelled
<1>2. job' \in [Callers -> Jobs] /\ \A d \in Callers : job'[d].pc = job[d].pc
  BY <1>1, CancelledDo DEF InterceptCancelled
<1>3. ManagedTypes'
  <2>1. (~Running(c)) = TRUE \/ (~Running(c)) = FALSE
    OBVIOUS
  <2>2. caller' = [caller EXCEPT ![c] = [caller[c] EXCEPT !.cancelling = TRUE, !.must = ~Running(c)]]
    BY <1>1, Zenon DEF InterceptCancelled
  <2>3. /\ [caller[c] EXCEPT !.cancelling = TRUE, !.must = TRUE]
             \in [pc : {"idle", "waiting"}, cancelling : BOOLEAN, must : BOOLEAN]
        /\ [caller[c] EXCEPT !.cancelling = TRUE, !.must = FALSE]
             \in [pc : {"idle", "waiting"}, cancelling : BOOLEAN, must : BOOLEAN]
    <3>1. caller[c] \in [pc : {"idle", "waiting"}, cancelling : BOOLEAN, must : BOOLEAN]
      BY <1>1 DEF ManagedTypes
    <3> QED
      BY <3>1
  <2>4. caller' \in [Callers -> [pc : {"idle", "waiting"}, cancelling : BOOLEAN, must : BOOLEAN]]
    BY <1>1, <2>1, <2>2, <2>3 DEF ManagedTypes
  <2> QED
    BY <1>1, <2>4 DEF InterceptCancelled, ManagedTypes
<1> QED
  BY <1>1, <1>2, <1>3, ManagedFacts, AcsJobStep DEF Inv, InterceptCancelled, Running

(* A job moves on; in managed mode none that did not run begins to.        *)
LEMMA JobStepInv ==
    ASSUME Inv, NEW c \in Callers, JobStep(c)
    PROVE  Inv'
<1>1. ClientTypes /\ job \in [Callers -> Jobs]
  BY DEF Inv, ClientInv, ClientTypes
<1>2. PICK j \in (CASE job[c].pc = "created" -> {begun(c, ok, "denied") : ok \in BOOLEAN}
                    [] job[c].pc = "evaluated" -> {resumed(c)}
                    [] OTHER -> {}) :
           /\ client' = [client EXCEPT !.evaluation = evaluation_after(c, j)]
           /\ job' = [job EXCEPT ![c] = IF ~Managed /\ j.pc = "done" THEN NoJob ELSE j]
  BY DEF JobStep
<1>3. job[c].pc \in {"created", "evaluated"}
  BY <1>2
<1>4. j \in Jobs /\ (j.pc = "done" \/ (j.pc = "evaluating" /\ client.state = "open" /\ ~Working(client.evaluation)))
  <2>1. CASE job[c].pc = "created"
    <3>1. PICK ok \in BOOLEAN : j = begun(c, ok, "denied")
      BY <1>2, <2>1
    <3> QED
      BY <1>1, <3>1, BegunDo
  <2>2. CASE job[c].pc = "evaluated"
    BY <1>1, <1>2, <2>2, ResumedDo
  <2> QED
    BY <1>3, <2>1, <2>2
<1>5. PICK k \in Jobs : job' = [job EXCEPT ![c] = k] /\ (k.pc = "evaluating" => j.pc = "evaluating")
  <2>1. NoJob \in Jobs /\ NoJob.pc = "idle"
    BY DEF NoJob, Jobs
  <2>2. CASE ~Managed /\ j.pc = "done"
    BY <1>2, <2>1, <2>2
  <2>3. CASE ~(~Managed /\ j.pc = "done")
    BY <1>2, <1>4, <2>3
  <2> QED
    BY <2>2, <2>3
<1>6. UNCHANGED <<openVars, credVars, pollVars, managedVars>>
  BY DEF JobStep
<1>7. ClientInv'
  BY <1>2, <1>3, <1>4, <1>5, <1>6, JobMovesInv DEF Inv
<1>8. \A d \in Callers : Running(d)' => Running(d)
  BY <1>1, <1>3, <1>5 DEF Running
<1>9. ManagedInv'
  BY <1>6, <1>8, ManagedFrame DEF Inv, openVars
<1> QED
  BY <1>7, <1>9 DEF Inv

(* In direct mode the interceptor does nothing.                            *)
LEMMA DirectFrame ==
    ASSUME ManagedInv, mode = "direct", UNCHANGED managedVars
    PROVE  ManagedInv'
BY ManagedFrame DEF Managed

(* A host that uses the client itself evaluates and cancels an evaluation. *)
LEMMA EvaluateInv ==
    ASSUME ClientInv, NEW c \in Callers, Evaluate(c) \/ EvaluateCancelled(c)
    PROVE  ClientInv'
<1>1. ClientTypes
  BY DEF ClientInv
<1>2. CASE Evaluate(c)
  <2> DEFINE j == begun(c, TRUE, "error")
             k == IF j.pc = "done" THEN NoJob ELSE j
  <2>1. j \in Jobs /\ (j.pc = "done" \/ (j.pc = "evaluating" /\ client.state = "open" /\ ~Working(client.evaluation)))
    BY <1>1, BegunDo
  <2>2. NoJob \in Jobs /\ NoJob.pc = "idle"
    BY DEF NoJob, Jobs
  <2>3. k \in Jobs /\ (k.pc = "evaluating" => j.pc = "evaluating")
    BY <2>1, <2>2
  <2>4. /\ job[c].pc # "evaluating" /\ job' = [job EXCEPT ![c] = k]
        /\ client' = [client EXCEPT !.evaluation = evaluation_after(c, j)]
        /\ UNCHANGED <<openVars, credVars, pollVars>>
    BY <1>2 DEF Evaluate
  <2> HIDE DEF j, k
  <2> QED
    BY <2>1, <2>3, <2>4, JobMovesInv
<1>3. CASE EvaluateCancelled(c)
  <2>1. job' \in [Callers -> Jobs] /\ \A d \in Callers : job'[d].pc = job[d].pc
    BY <1>1, <1>3, CancelledDo DEF EvaluateCancelled
  <2> QED
    BY <1>1, <1>3, <2>1, JobFrameInv DEF EvaluateCancelled, openVars, ClientTypes
<1> QED
  BY <1>2, <1>3

-----------------------------------------------------------------------------
(* The theorems                                                            *)

(* Nothing has been opened in an initial state.                            *)
LEMMA InitInv ==
    ASSUME Init
    PROVE  Inv
<1> USE ClientAssumption
<1>1. ClientTypes
  <2>1. user \in Users /\ own \in Owners /\ cred \in Creds /\ source \in Sources /\ client \in Clients
    BY DEF Init, ClientInit, NoCred, Users, Owners, OwnPlaces, Errors, Creds, Sources, Clients
  <2>2. job \in [Callers -> Jobs]
    BY DEF Init, ClientInit, NoJob, Jobs
  <2> QED
    BY <2>1, <2>2 DEF Init, ClientInit, ClientTypes
<1>2. Lifetime /\ Teardown /\ Settled
  BY DEF Init, ClientInit, NoCred, Lifetime, Startup, Wanted, Reaching, Cancelling, Teardown, Settled, Ended
<1>3. Evaluations /\ \A c \in Callers : ~Running(c)
  BY DEF Init, ClientInit, NoJob, Evaluations, Running
<1>4. CredentialsAreOwned
  BY DEF Init, ClientInit, NoCred, CredentialsAreOwned
<1>5. ManagedTypes
  BY DEF Init, ManagedTypes
<1>6. Managing
  BY <1>3 DEF Init, ClientInit, Managing
<1> QED
  BY <1>1, <1>2, <1>3, <1>4, <1>5, <1>6 DEF Inv, ClientInv, ManagedInv

(* What a host does in direct mode.                                        *)
LEMMA DirectInv ==
    ASSUME Inv, mode = "direct", UNCHANGED managedVars,
           \/ \E b \in Builds : Open(b)
           \/ UserEnters \/ UserExits \/ UserCancelled \/ UserLeaves
           \/ \E c \in Callers : Evaluate(c) \/ EvaluateCancelled(c)
    PROVE  Inv'
<1>1. ManagedInv'
  BY DirectFrame DEF Inv
<1>2. ClientInv'
  BY OpenInv, UserEntersInv, UserExitsInv, UserCancelledInv, UserLeavesInv, EvaluateInv DEF Inv
<1> QED
  BY <1>1, <1>2 DEF Inv

(* Every step keeps the invariant.                                         *)
LEMMA NextInv ==
    ASSUME Inv, [Next]_vars
    PROVE  Inv'
<1>1. CASE Host
  <2>1. CASE \E b \in Builds : Aenter(b)
    BY <2>1, AenterInv
  <2>2. CASE EnterCancelled \/ Aclose
    BY <2>2, EnteringInv
  <2>3. CASE \E c \in Callers, context_ok \in BOOLEAN : Intercept(c, context_ok)
    BY <2>3, InterceptInv
  <2>4. CASE \E c \in Callers : InterceptCancelled(c)
    BY <2>4, InterceptCancelledInv
  <2>5. CASE \/ \E b \in Builds : Direct(Open(b))
             \/ Direct(UserExits) \/ Direct(UserCancelled)
             \/ \E c \in Callers : Direct(Evaluate(c)) \/ Direct(EvaluateCancelled(c))
    BY <2>5, DirectInv DEF Direct
  <2> QED
    BY <1>1, <2>1, <2>2, <2>3, <2>4, <2>5 DEF Host
<1>2. CASE External /\ UNCHANGED managedVars
  BY <1>2, ExternalInv, ManagedFrame DEF Inv, SameRuns
<1>3. CASE Owner
  BY <1>3, OwnStepInv, ManagedFrame DEF Inv, Owner, SameRuns
<1>4. CASE User
  BY <1>4, DirectInv, RuntimeInv DEF User, Direct
<1>5. CASE Entering
  BY <1>5, EnteringInv DEF Entering
<1>6. CASE Closing
  BY <1>6, DrainStartsInv, DrainEndsInv, CloseEndsInv, RetainedEndsInv DEF Closing
<1>7. CASE Evaluating
  BY <1>7, JobStepInv, InterceptResumesInv DEF Evaluating
<1>8. CASE UNCHANGED vars
  <2>1. UNCHANGED <<user, own, ready, told, release, credVars, pollVars, client, job, managedVars>>
    BY <1>8 DEF vars, clientVars, openVars, jobVars
  <2>2. ClientInv'
    BY <2>1, JobFrameInv DEF Inv, ClientInv, ClientTypes
  <2> QED
    BY <2>1, <2>2, ManagedFrame DEF Inv, Running
<1> QED
  BY <1>1, <1>2, <1>3, <1>4, <1>5, <1>6, <1>7, <1>8 DEF Next

(* The invariant, for any callers and any bounds: what the provider, the   *)
(* source, the poller and the futures of open are wherever the owner is.   *)
THEOREM Invariance == Spec => []Inv
<1>1. Init => Inv
  BY InitInv
<1>2. Inv /\ [Next]_vars => Inv'
  BY NextInv
<1> QED
  BY <1>1, <1>2, PTL DEF Spec

(* Credentials stay owned until all their users are gone, unless a start   *)
(* is cancelled, and a provider that outlives its owner fails its registry *)
(* (client.py own, auth.py open).                                          *)
THEOREM CredentialSafety == Spec => []CredentialsAreOwned
<1>1. Inv => CredentialsAreOwned
  BY DEF Inv, ClientInv
<1> QED
  BY <1>1, Invariance, PTL

(* A close that reports success has left nothing behind, and the runtime   *)
(* is never closed under an interception (async_interceptor.py _drain,     *)
(* loading.py aclose, client.py open).                                     *)
THEOREM CloseSafety == Spec => []CleanCloseMeansGone
<1>1. ASSUME Inv PROVE CleanCloseMeansGone
  <2>1. ASSUME ready = "client", user.pc = "left", user.result = "none"
        PROVE  /\ own.pc = "done" /\ cred.pc \in {"none", "done"} /\ ~registry.failed
               /\ ~InUse /\ poller = "closed"
               /\ \A c \in Callers : job[c].pc # "evaluating"
    <3>1. told = "ok" /\ own.pc = "done" /\ own.error = "none"
          /\ cred.pc \in {"none", "done"} /\ ~registry.failed
      BY <1>1, <2>1 DEF Inv, ClientInv, Settled
    <3> QED
      BY <1>1, <2>1, <3>1 DEF Inv, ClientInv, Teardown, Leaving
  <2>2. Managed /\ runtime.closing => \A c \in Callers : ~Running(c)
    BY <1>1 DEF Inv, ManagedInv, Managing
  <2>3. drain = "ok" => user.pc \in {"outside", "left"}
    BY <1>1 DEF Inv, ManagedInv, Managing
  <2> QED
    BY <2>1, <2>2, <2>3 DEF CleanCloseMeansGone
<1> QED
  BY <1>1, Invariance, PTL

(* A snapshot that is current is served: the owner serves, with its poller *)
(* and its source, and its credentials are open.                           *)
LEMMA CurrentIsServed ==
    ASSUME Inv, NEW s, Current(s)
    PROVE  /\ policy = s /\ policy # 0
           /\ own.pc = "serving" /\ poller = "running" /\ source.closing = "open"
           /\ cred.pc \in {"none", "open"} /\ ~cred.release
<1>1. client.state = "open" /\ poller = "running" /\ policy # 0 /\ policy = s
  BY DEF Current, Usable
<1>2. own.pc = "serving" /\ source.closing = "open"
  BY <1>1 DEF Inv, ClientInv, Lifetime, Reaching
<1> QED
  BY <1>1, <1>2 DEF Inv, ClientInv, Lifetime, Wanted, Leaving

(* A verdict is returned only while everything below it serves: of the     *)
(* snapshot in force at that instant, with the credentials open, and never *)
(* once closing has begun (intercept's final gate, evaluate).              *)
THEOREM VerdictSafety == Spec => VerdictIsCurrent
<1> DEFINE Served(c) ==
      /\ policy' = job[c].snapshot /\ policy' # 0
      /\ own'.pc = "serving" /\ poller' = "running" /\ source'.closing = "open"
      /\ cred'.pc \in {"none", "open"} /\ ~cred'.release
      /\ ~acs'.closed /\ ~runtime'.closing
<1>1. ASSUME Inv, NEW c \in Callers, ReturnsVerdict(c)
      PROVE  Served(c)
  <2>1. CASE InterceptResumes(c) /\ told_to(c) = "verdict"
    <3>1. Current(job[c].snapshot) /\ ~acs.closed
      BY <2>1 DEF told_to
    <3>2. ~runtime.closing
      BY <1>1, <3>1 DEF Inv, ManagedInv, Managing
    <3>3. acs'.closed = acs.closed
      BY <1>1, <2>1 DEF InterceptResumes, Inv, ManagedInv, ManagedTypes
    <3>4. UNCHANGED <<policy, own, poller, source, cred, runtime>>
      BY <2>1 DEF InterceptResumes, openVars, credVars, pollVars
    <3> QED
      BY <1>1, <3>1, <3>2, <3>3, <3>4, CurrentIsServed
  <2>2. CASE ~Managed /\ JobStep(c) /\ job[c].pc = "evaluated" /\ resumed(c).outcome = "verdict"
    <3>1. Current(job[c].snapshot)
      BY <2>2 DEF resumed, Finished, NoJob
    <3>2. ~acs.closed /\ ~runtime.closing
      BY <1>1, <2>2 DEF Inv, ManagedInv, Managing
    <3>3. UNCHANGED <<policy, own, poller, source, cred, acs, runtime>>
      BY <2>2 DEF JobStep, openVars, credVars, pollVars, managedVars
    <3> QED
      BY <1>1, <3>1, <3>2, <3>3, CurrentIsServed
  <2> QED
    BY <1>1, <2>1, <2>2 DEF ReturnsVerdict
<1>2. Inv /\ [Next]_vars => [\A c \in Callers : ReturnsVerdict(c) => Served(c)]_vars
  BY <1>1
<1> QED
  BY <1>2, Invariance, PTL DEF Spec, VerdictIsCurrent

=============================================================================

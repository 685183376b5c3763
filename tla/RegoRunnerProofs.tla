-------------------------- MODULE RegoRunnerProofs --------------------------
(***************************************************************************)
(* The worker pool of RegorusRegoRunner, for any number of callers,        *)
(* threads, policy sets and calls and any limits; and, after it, where the *)
(* paths and the query of any backend's invocation come from               *)
(* (PolicySources).                                                        *)
(*                                                                         *)
(* Ownership says that a thread has at most one owner, a caller or a       *)
(* pool's idle list; Exchange what the channels between a thread and its   *)
(* owner hold; Accounts ties the abandoned counter to the threads and      *)
(* bounds it; Freshness orders the versions of the engines.  The four      *)
(* together are inductive.                                                 *)
(***************************************************************************)
EXTENDS RegoRunner, PolicySources, TLAPS, FiniteSetTheorems

Places == {"idle", "taking", "spawning", "waiting", "late", "claimed"}
Holding == {"waiting", "late", "claimed"}
Working == {"lookup", "load", "insert", "run"}
Calls == [id : Nat, pool : Pools, key : Keys, floor : Nat]
Answers == [id : Nat, version : Nat]

TypeOK ==
    /\ at \in [Callers -> Places]
    /\ call \in [Callers -> Calls \cup {NoCall}]
    /\ held \in [Callers -> Workers \cup {None}]
    /\ calls \in [Pools -> Nat]
    /\ wstate \in [Workers -> {"unborn", "running", "abandoned", "finished"}]
    /\ step \in [Workers -> Working \cup {"recv", "gone"}]
    /\ wpool \in [Workers -> Pools]
    /\ jobs \in [Workers -> Seq(Calls)]
    /\ outcomes \in [Workers -> Seq(Answers)]
    /\ engine \in [Workers -> Nat]
    /\ idle \in [Pools -> Seq(Workers)]
    /\ abandoned \in [Pools -> Int]
    /\ cache \in [Keys -> Nat]
    /\ disk \in Nat \ {0}
    /\ floor \in Nat \ {0}

\* A thread belongs to one caller, or to one place of its pool's idle list.
Ownership ==
    /\ \A c \in Callers : at[c] # "idle" => call[c] \in Calls
    /\ \A c \in Callers : held[c] # None <=> at[c] \in Holding
    /\ \A c, d \in Callers : held[c] # None /\ held[c] = held[d] => c = d
    /\ \A c \in Callers : at[c] \in Holding =>
         wstate[held[c]] # "unborn" /\ wpool[held[c]] = call[c].pool
    /\ \A p \in Pools : IsInjective(idle[p])
    /\ \A p \in Pools : \A w \in ToSet(idle[p]) :
         /\ wpool[w] = p
         /\ \A c \in Callers : held[c] # w

\* What a thread's state says of its step and of its job channel.
Threads ==
    \A w \in Workers :
      /\ wstate[w] = "unborn" => step[w] = "recv" /\ outcomes[w] = <<>>
      /\ wstate[w] = "running" => step[w] # "gone"
      /\ wstate[w] = "finished" => step[w] = "gone"
      /\ step[w] \in Working => Len(jobs[w]) = 1
      /\ step[w] \notin Working => jobs[w] = <<>>

\* A holder finds its own job at work, its own answer, or nothing and the
\* thread gone.
AtWork(c, w) == step[w] \in Working /\ Head(jobs[w]) = call[c] /\ outcomes[w] = <<>>
Answered(c, w) ==
    step[w] = "recv" /\ Len(outcomes[w]) = 1 /\ Head(outcomes[w]).id = call[c].id
Lost(w) == step[w] = "gone" /\ outcomes[w] = <<>>

Served(c, w) ==
    /\ AtWork(c, w) \/ Answered(c, w) \/ Lost(w)
    /\ wstate[w] = "abandoned" <=> at[c] = "claimed"

\* A parked thread owes nobody anything.
Parked(w) == wstate[w] = "running" /\ step[w] = "recv" /\ outcomes[w] = <<>>

Exchange ==
    /\ Threads
    /\ \A c \in Callers : at[c] \in Holding => Served(c, held[c])
    /\ \A p \in Pools : \A w \in ToSet(idle[p]) : Parked(w)

Engaged(p) == {c \in Callers : at[c] \in Holding \cup {"spawning"} /\ call[c].pool = p}
Holders(p) == {c \in Callers : at[c] \in Holding /\ call[c].pool = p}

\* The counter is exact, and parked threads, held threads and counted ones
\* stay together below the limit plus the number of callers.
Account(p) ==
    /\ IsFiniteSet(Charged(p))
    /\ abandoned[p] = Cardinality(Charged(p)) - Cardinality(Settling(p))
    /\ Len(idle[p]) + Cardinality(Engaged(p)) <= Cardinality(Callers)
    /\ abandoned[p] + Len(idle[p]) + Cardinality(Holders(p))
         < MaxAbandoned + Cardinality(Callers)

Accounts == \A p \in Pools : Account(p)

\* No engine in use or in the cache is older than the floor, which no call
\* is ahead of.
Freshness ==
    /\ floor <= disk
    /\ \A c \in Callers : call[c].floor <= floor
    /\ \A w \in Workers : step[w] \in Working => Head(jobs[w]).floor <= floor
    /\ \A w \in Workers : step[w] \in {"insert", "run"} => engine[w] >= floor
    /\ \A k \in Keys : cache[k] # None => cache[k] >= floor

Inv == TypeOK /\ Ownership /\ Exchange /\ Accounts /\ Freshness

-----------------------------------------------------------------------------
(* Sequences and cardinalities                                             *)

(* Parking a thread that is not parked adds it to the idle list once.      *)
LEMMA AppendOnce ==
    ASSUME NEW S, NEW s \in Seq(S), NEW x \in S, IsInjective(s), x \notin ToSet(s)
    PROVE  /\ Append(s, x) \in Seq(S)
           /\ Len(Append(s, x)) = Len(s) + 1
           /\ IsInjective(Append(s, x))
           /\ ToSet(Append(s, x)) = ToSet(s) \cup {x}
<1>1. /\ Append(s, x) \in Seq(S)
      /\ Len(Append(s, x)) = Len(s) + 1
      /\ \A i \in 1 .. Len(s) : Append(s, x)[i] = s[i]
      /\ Append(s, x)[Len(s) + 1] = x
  OBVIOUS
<1>2. /\ Len(s) \in Nat
      /\ DOMAIN s = 1 .. Len(s)
      /\ DOMAIN Append(s, x) = 1 .. Len(s) + 1
  BY <1>1
<1>3. ToSet(Append(s, x)) = ToSet(s) \cup {x}
  <2>1. 1 .. Len(s) + 1 = (1 .. Len(s)) \cup {Len(s) + 1}
    BY <1>2
  <2> QED
    BY <1>1, <1>2, <2>1 DEF ToSet
<1>4. IsInjective(Append(s, x))
  <2> SUFFICES ASSUME NEW i \in 1 .. Len(s) + 1, NEW j \in 1 .. Len(s) + 1,
                      Append(s, x)[i] = Append(s, x)[j]
               PROVE  i = j
    BY <1>2 DEF IsInjective
  <2>1. \A n \in 1 .. Len(s) : s[n] # x
    BY <1>2 DEF ToSet
  <2> QED
    BY <1>1, <1>2, <2>1 DEF IsInjective
<1> QED
  BY <1>1, <1>3, <1>4

(* Taking the last parked thread removes it, and only it, from the list.   *)
LEMMA FrontDropsLast ==
    ASSUME NEW S, NEW s \in Seq(S), s # <<>>, IsInjective(s)
    PROVE  /\ Last(s) \in ToSet(s)
           /\ Front(s) \in Seq(S)
           /\ Len(Front(s)) = Len(s) - 1
           /\ IsInjective(Front(s))
           /\ ToSet(Front(s)) = ToSet(s) \ {Last(s)}
<1>1. Len(s) \in Nat \ {0} /\ DOMAIN s = 1 .. Len(s)
  OBVIOUS
<1>2. /\ Front(s) \in Seq(S)
      /\ Len(Front(s)) = Len(s) - 1
      /\ \A i \in 1 .. Len(s) - 1 : Front(s)[i] = s[i]
  BY <1>1 DEF Front
<1>3. DOMAIN Front(s) = 1 .. Len(s) - 1
  BY <1>1, <1>2
<1> QED
  BY <1>1, <1>2, <1>3 DEF IsInjective, ToSet, Last

(* A sequence is empty exactly when its length is zero.                    *)
LEMMA EmptyIffZero ==
    ASSUME NEW S, NEW s \in Seq(S)
    PROVE  s = <<>> <=> Len(s) = 0
OBVIOUS

(* A finite set gains one or loses one element.                            *)
LEMMA CountChanges ==
    ASSUME NEW S, IsFiniteSet(S), NEW x
    PROVE  /\ Cardinality(S) \in Nat
           /\ IsFiniteSet(S \cup {x}) /\ IsFiniteSet(S \ {x})
           /\ x \notin S => Cardinality(S \cup {x}) = Cardinality(S) + 1
           /\ x \in S => Cardinality(S \ {x}) = Cardinality(S) - 1
BY FS_CardinalityType, FS_AddElement, FS_RemoveElement

(* The sets of callers that the accounts count are finite.                 *)
LEMMA CallersAreCounted ==
    ASSUME NEW S \in SUBSET Callers
    PROVE  IsFiniteSet(S) /\ Cardinality(S) \in Nat /\ Cardinality(S) <= Cardinality(Callers)
           /\ Cardinality(Callers) \in Nat
BY RunnerAssumption, FS_Subset, FS_CardinalityType


(* Whoever is parked is a worker.                                          *)
LEMMA ParkedIsWorker ==
    ASSUME TypeOK, NEW p \in Pools, NEW w \in ToSet(idle[p])
    PROVE  w \in Workers
BY DEF TypeOK, ToSet

-----------------------------------------------------------------------------
(* The invariant, one lemma per step of a caller                           *)

Pooling == TypeOK /\ Ownership /\ Exchange /\ Accounts

(* An empty runner satisfies the invariant.                                *)
LEMMA InitInv == Init => Inv
<1> SUFFICES ASSUME Init
             PROVE  Inv
  OBVIOUS
<1>1. TypeOK
  BY DEF Init, TypeOK, Places, Pools, None
<1>2. \A p \in Pools : ToSet(idle[p]) = {} /\ IsInjective(idle[p]) /\ Len(idle[p]) = 0
  BY DEF Init, ToSet, IsInjective
<1>3. Ownership
  BY <1>2 DEF Init, Ownership, Holding
<1>4. Exchange
  BY <1>2 DEF Init, Exchange, Threads, Holding, Working
<1>5. Accounts
  <2> SUFFICES ASSUME NEW p \in Pools
               PROVE  Account(p)
    BY DEF Accounts
  <2>1. Charged(p) = {} /\ Settling(p) = {} /\ Engaged(p) = {} /\ Holders(p) = {}
    BY DEF Init, Charged, Settling, Engaged, Holders, Holding
  <2> QED
    BY <1>2, <2>1, FS_EmptySet, CallersAreCounted, RunnerAssumption DEF Init, Account
<1>6. Freshness
  BY DEF Init, Freshness, NoCall, Working, None
<1> QED
  BY <1>1, <1>3, <1>4, <1>5, <1>6 DEF Inv

(* The numbers an account adds up.                                         *)
LEMMA CountTypes ==
    ASSUME TypeOK, Accounts, NEW p \in Pools
    PROVE  /\ abandoned[p] \in Int /\ Len(idle[p]) \in Nat
           /\ MaxAbandoned \in Nat \ {0} /\ Cardinality(Callers) \in Nat
           /\ Cardinality(Charged(p)) \in Nat /\ Cardinality(Settling(p)) \in Nat
           /\ Cardinality(Engaged(p)) \in Nat /\ Cardinality(Holders(p)) \in Nat
<1>1. Settling(p) \in SUBSET Callers /\ Engaged(p) \in SUBSET Callers
      /\ Holders(p) \in SUBSET Callers
  BY DEF Settling, Engaged, Holders
<1>2. Cardinality(Charged(p)) \in Nat
  BY FS_CardinalityType DEF Accounts, Account
<1> QED
  BY <1>1, <1>2, CallersAreCounted, RunnerAssumption DEF TypeOK

(* The accounts depend on who is counted, and on nothing else.             *)
LEMMA SameAccounts ==
    ASSUME Accounts, UNCHANGED abandoned,
           \A p \in Pools : Len(idle'[p]) = Len(idle[p])
                          /\ Charged(p)' = Charged(p) /\ Settling(p)' = Settling(p)
                          /\ Engaged(p)' = Engaged(p) /\ Holders(p)' = Holders(p)
    PROVE  Accounts'
BY DEF Accounts, Account

(* What a holder may find depends on its own call and its own thread only. *)
LEMMA ServedKept ==
    ASSUME NEW d \in Callers, NEW w \in Workers, Served(d, w), held'[d] = w,
           at'[d] = at[d], call'[d] = call[d], wstate'[w] = wstate[w],
           step'[w] = step[w], jobs'[w] = jobs[w], outcomes'[w] = outcomes[w]
    PROVE  Served(d, held[d])'
BY DEF Served, AtWork, Answered, Lost

(* A step of caller c that no other caller and no thread takes part in     *)
(* keeps the exchange, once the part about c itself is shown.              *)
LEMMA ExchangeKept ==
    ASSUME TypeOK, Ownership, Exchange, NEW c \in Callers,
           \A d \in Callers \ {c} : at'[d] = at[d] /\ call'[d] = call[d] /\ held'[d] = held[d],
           UNCHANGED <<wstate, step, jobs, outcomes>>,
           at'[c] \in Holding => Served(c, held[c])',
           \A p \in Pools : \A w \in ToSet(idle'[p]) : Parked(w)
    PROVE  Exchange'
<1>1. Threads'
  BY DEF Exchange, Threads
<1>2. ASSUME NEW d \in Callers, at'[d] \in Holding
      PROVE  Served(d, held[d])'
  <2>1. CASE d # c
    <3>1. held[d] \in Workers /\ Served(d, held[d])
      BY <1>2, <2>1 DEF TypeOK, Ownership, Exchange
    <3> QED
      BY <2>1, <3>1, ServedKept
  <2> QED
    BY <1>2, <2>1
<1>3. \A p \in Pools : \A w \in ToSet(idle'[p]) : Parked(w)'
  BY DEF Parked
<1> QED
  BY <1>1, <1>2, <1>3 DEF Exchange

(* A call begins: it holds nothing yet and is counted nowhere.             *)
LEMMA BeginInv ==
    ASSUME Pooling, NEW c \in Callers, NEW p \in Pools, NEW k \in Keys, Begin(c, p, k)
    PROVE  Pooling'
<1> USE DEF Pooling
<1>1. /\ at[c] = "idle" /\ at' = [at EXCEPT ![c] = "taking"]
      /\ calls' = [calls EXCEPT ![p] = @ + 1]
      /\ call' = [call EXCEPT ![c] = [id |-> calls["eval"] + calls["warm"] + 1, pool |-> p,
                                     key |-> k, floor |-> floor]]
      /\ UNCHANGED <<held, threadVars, idle, abandoned, cacheVars>>
  BY DEF Begin
<1>2. [id |-> calls["eval"] + calls["warm"] + 1, pool |-> p, key |-> k, floor |-> floor] \in Calls
  BY DEF TypeOK, Calls, Pools
<1>3. /\ at' \in [Callers -> Places] /\ at'[c] = "taking"
      /\ call' \in [Callers -> Calls \cup {NoCall}] /\ call'[c] \in Calls
      /\ \A d \in Callers \ {c} : at'[d] = at[d] /\ call'[d] = call[d]
  BY <1>1, <1>2 DEF TypeOK, Places
<1>4. calls' \in [Pools -> Nat]
  BY <1>1 DEF TypeOK
<1>5. UNCHANGED <<held, wstate, step, wpool, jobs, outcomes, engine, idle, abandoned,
                  cache, disk, floor>>
  BY <1>1 DEF threadVars, cacheVars
<1>6. TypeOK'
  BY <1>3, <1>4, <1>5 DEF TypeOK
<1>7. Ownership'
  BY <1>1, <1>3, <1>5 DEF Ownership, Holding
<1>8. Exchange'
  BY <1>3, <1>5, ExchangeKept DEF Exchange, Holding
<1>9. Accounts'
  <2>1. \A q \in Pools : /\ Charged(q)' = Charged(q) /\ Settling(q)' = Settling(q)
                         /\ Engaged(q)' = Engaged(q) /\ Holders(q)' = Holders(q)
    BY <1>1, <1>3, <1>5 DEF Charged, Settling, Engaged, Holders, Holding, Alive
  <2> QED
    BY <1>5, <2>1, SameAccounts
<1> QED
  BY <1>6, <1>7, <1>8, <1>9

\* Caller c sends its job to thread w, which is new or was parked.
Hires(c, w) ==
    /\ SendJob(c, w)
    /\ step[w] = "recv" /\ outcomes[w] = <<>> /\ \A d \in Callers : held[d] # w
    /\ wstate' \in [Workers -> {"unborn", "running", "abandoned", "finished"}]
    /\ wpool' \in [Workers -> Pools]
    /\ wstate'[w] = "running" /\ wpool'[w] = call[c].pool
    /\ \A v \in Workers \ {w} : wstate'[v] = wstate[v] /\ wpool'[v] = wpool[v]
    /\ idle' \in [Pools -> Seq(Workers)]
    /\ \A q \in Pools : IsInjective(idle'[q]) /\ ToSet(idle'[q]) = ToSet(idle[q]) \ {w}
    /\ UNCHANGED <<call, calls, outcomes, engine, abandoned, cacheVars>>

(* A job is sent to a thread that is new or was parked: the caller becomes *)
(* its one owner and finds its own job on the channel.                     *)
LEMMA HiresInv ==
    ASSUME TypeOK, Ownership, Exchange,
           NEW c \in Callers, NEW w \in Workers, Hires(c, w),
           at[c] \in {"taking", "spawning"}
    PROVE  TypeOK' /\ Ownership' /\ Exchange'
<1>1. w # None
  BY RunnerAssumption DEF None
<1>2. call[c] \in Calls /\ jobs[w] = <<>>
  BY DEF Ownership, Exchange, Threads, Working, Hires
<1>3. /\ held' \in [Callers -> Workers \cup {None}]
      /\ held'[c] = w /\ \A d \in Callers \ {c} : held'[d] = held[d] /\ held[d] # w
  BY DEF Hires, SendJob, TypeOK
<1>4. /\ at' \in [Callers -> Places]
      /\ at'[c] = "waiting" /\ \A d \in Callers \ {c} : at'[d] = at[d]
  BY DEF Hires, SendJob, TypeOK, Places
<1>5. /\ step' \in [Workers -> Working \cup {"recv", "gone"}]
      /\ step'[w] = "lookup" /\ \A v \in Workers \ {w} : step'[v] = step[v]
  BY DEF Hires, SendJob, TypeOK, Working
<1>6. /\ jobs' \in [Workers -> Seq(Calls)]
      /\ Len(jobs'[w]) = 1 /\ Head(jobs'[w]) = call[c]
      /\ \A v \in Workers \ {w} : jobs'[v] = jobs[v]
  <2>1. Append(jobs[w], call[c]) \in Seq(Calls)
    BY <1>2 DEF TypeOK
  <2>2. jobs' \in [Workers -> Seq(Calls)] /\ jobs'[w] = Append(jobs[w], call[c])
    BY <2>1 DEF Hires, SendJob, TypeOK
  <2>3. Len(jobs'[w]) = 1 /\ Head(jobs'[w]) = call[c]
    BY <1>2, <2>1, <2>2
  <2> QED
    BY <2>2, <2>3 DEF Hires, SendJob, TypeOK
<1>7. /\ wstate' \in [Workers -> {"unborn", "running", "abandoned", "finished"}]
      /\ wpool' \in [Workers -> Pools]
      /\ wstate'[w] = "running" /\ wpool'[w] = call[c].pool
      /\ \A v \in Workers \ {w} : wstate'[v] = wstate[v] /\ wpool'[v] = wpool[v]
      /\ UNCHANGED <<call, calls, outcomes, engine, abandoned, cacheVars>>
      /\ outcomes[w] = <<>>
  BY DEF Hires
<1>8. /\ \A q \in Pools : IsInjective(idle'[q])
      /\ \A q \in Pools : \A v \in ToSet(idle'[q]) : v \in ToSet(idle[q]) /\ v \in Workers \ {w}
  BY ParkedIsWorker DEF Hires
<1>9. idle' \in [Pools -> Seq(Workers)]
  BY DEF Hires
<1>10. TypeOK'
  BY <1>3, <1>4, <1>5, <1>6, <1>7, <1>9 DEF TypeOK, cacheVars
<1>11. Ownership'
  <2>1. \A d \in Callers : at'[d] # "idle" => call'[d] \in Calls
    BY <1>2, <1>4, <1>7 DEF Ownership
  <2>2. \A d \in Callers : held'[d] # None <=> at'[d] \in Holding
    BY <1>1, <1>3, <1>4 DEF Ownership, Holding
  <2>3. \A d, e \in Callers : held'[d] # None /\ held'[d] = held'[e] => d = e
    BY <1>3 DEF Ownership
  <2>4. ASSUME NEW d \in Callers, at'[d] \in Holding
        PROVE  wstate'[held'[d]] # "unborn" /\ wpool'[held'[d]] = call'[d].pool
    <3>1. CASE d = c
      BY <1>3, <1>7, <3>1
    <3>2. CASE d # c
      <4>1. held'[d] = held[d] /\ held[d] \in Workers \ {w} /\ at[d] \in Holding
        BY <1>3, <1>4, <2>4, <3>2 DEF TypeOK, Ownership
      <4> QED
        BY <1>7, <4>1 DEF Ownership
    <3> QED
      BY <3>1, <3>2
  <2>5. ASSUME NEW q \in Pools, NEW v \in ToSet(idle'[q])
        PROVE  wpool'[v] = q /\ \A d \in Callers : held'[d] # v
    BY <1>3, <1>7, <1>8, <2>5 DEF Ownership
  <2> QED
    BY <1>8, <2>1, <2>2, <2>3, <2>4, <2>5 DEF Ownership
<1>12. Exchange'
  <2>1. Threads'
    <3> SUFFICES ASSUME NEW v \in Workers
                 PROVE  Threads!(v)'
      BY DEF Threads
    <3>1. CASE v = w
      BY <1>5, <1>6, <1>7, <3>1 DEF Working
    <3>2. CASE v # w
      BY <1>5, <1>6, <1>7, <3>2 DEF Exchange, Threads
    <3> QED
      BY <3>1, <3>2
  <2>2. ASSUME NEW d \in Callers, at'[d] \in Holding
        PROVE  Served(d, held[d])'
    <3>1. CASE d = c
      BY <1>3, <1>4, <1>5, <1>6, <1>7, <3>1 DEF Served, AtWork, Working
    <3>2. CASE d # c
      <4>1. held[d] \in Workers \ {w} /\ Served(d, held[d])
        BY <1>3, <1>4, <2>2, <3>2 DEF TypeOK, Ownership, Exchange
      <4> QED
        BY <1>3, <1>4, <1>5, <1>6, <1>7, <3>2, <4>1, ServedKept
    <3> QED
      BY <3>1, <3>2
  <2>3. ASSUME NEW q \in Pools, NEW v \in ToSet(idle'[q])
        PROVE  Parked(v)'
    BY <1>5, <1>7, <1>8, <2>3 DEF Exchange, Parked
  <2> QED
    BY <2>1, <2>2, <2>3 DEF Exchange
<1> QED
  BY <1>10, <1>11, <1>12

(* take_idle keeps the invariant: the thread leaves the list and gets its  *)
(* one owner, or the caller goes on to spawn because the list is empty.    *)
LEMMA TakeIdleInv ==
    ASSUME Pooling, NEW c \in Callers, take_idle(c)
    PROVE  Pooling'
<1> USE DEF Pooling
<1>1. at[c] = "taking" /\ call[c] \in Calls /\ held[c] = None
  BY DEF take_idle, Ownership, Holding
<1>2. UNCHANGED <<call, calls, wstate, wpool, outcomes, engine, abandoned, cacheVars>>
  BY DEF take_idle
<1>3. PICK p \in Pools : p = call[c].pool
  BY <1>1 DEF Calls
<1>4. CASE idle[p] # <<>>
  <2>1. PICK w : w = Last(idle[p])
    OBVIOUS
  <2>2. SendJob(c, w) /\ idle' = [idle EXCEPT ![p] = Front(@)]
    BY <1>3, <1>4, <2>1 DEF take_idle
  <2>3. /\ w \in ToSet(idle[p])
        /\ Front(idle[p]) \in Seq(Workers)
        /\ Len(Front(idle[p])) = Len(idle[p]) - 1
        /\ IsInjective(Front(idle[p]))
        /\ ToSet(Front(idle[p])) = ToSet(idle[p]) \ {w}
    <3>1. idle[p] \in Seq(Workers) /\ IsInjective(idle[p])
      BY DEF TypeOK, Ownership
    <3> QED
      BY <1>4, <2>1, <3>1, FrontDropsLast
  <2>4. /\ w \in Workers /\ wpool[w] = p /\ wstate[w] = "running"
        /\ step[w] = "recv" /\ outcomes[w] = <<>>
        /\ \A d \in Callers : held[d] # w
    BY <2>3, ParkedIsWorker DEF Ownership, Exchange, Parked
  <2>5. /\ idle' \in [Pools -> Seq(Workers)]
        /\ idle'[p] = Front(idle[p])
        /\ \A q \in Pools \ {p} : idle'[q] = idle[q]
    BY <2>2, <2>3 DEF TypeOK
  <2>6. \A q \in Pools : IsInjective(idle'[q]) /\ ToSet(idle'[q]) = ToSet(idle[q]) \ {w}
    BY <2>3, <2>4, <2>5 DEF Ownership
  <2>7. TypeOK' /\ Ownership' /\ Exchange'
    <3>1. Hires(c, w)
      BY <1>2, <1>3, <2>2, <2>4, <2>5, <2>6 DEF Hires, TypeOK
    <3> QED
      BY <1>1, <2>4, <3>1, HiresInv
  <2>8. /\ at'[c] = "waiting" /\ \A d \in Callers \ {c} : at'[d] = at[d]
        /\ \A v \in Workers : step'[v] = "gone" <=> step[v] = "gone"
    BY <2>2, <2>4 DEF SendJob, TypeOK
  <2>9. Accounts'
    <3>1. \A q \in Pools : Charged(q)' = Charged(q) /\ Settling(q)' = Settling(q)
      BY <1>1, <1>2, <2>8 DEF Charged, Settling, Alive
    <3>2. \A q \in Pools \ {p} : Engaged(q)' = Engaged(q) /\ Holders(q)' = Holders(q)
      BY <1>1, <1>2, <1>3, <2>8 DEF Engaged, Holders
    <3>3. /\ c \notin Engaged(p) /\ Engaged(p)' = Engaged(p) \cup {c}
          /\ c \notin Holders(p) /\ Holders(p)' = Holders(p) \cup {c}
      BY <1>1, <1>2, <1>3, <2>8 DEF Engaged, Holders, Holding
    <3>4. /\ Cardinality(Engaged(p)') = Cardinality(Engaged(p)) + 1
          /\ Cardinality(Holders(p)') = Cardinality(Holders(p)) + 1
      <4>1. IsFiniteSet(Engaged(p)) /\ IsFiniteSet(Holders(p))
        BY CallersAreCounted DEF Engaged, Holders
      <4> QED
        BY <3>3, <4>1, CountChanges
    <3>5. Account(p)'
      <4>1. Len(idle'[p]) = Len(idle[p]) - 1
        BY <2>3, <2>5
      <4>2. Account(p)
        BY DEF Accounts
      <4>3. /\ abandoned[p] \in Int /\ Len(idle[p]) \in Nat
            /\ MaxAbandoned \in Nat /\ Cardinality(Callers) \in Nat
            /\ Cardinality(Engaged(p)) \in Nat /\ Cardinality(Holders(p)) \in Nat
        BY CountTypes
      <4>4. /\ Len(idle'[p]) + Cardinality(Engaged(p)') <= Cardinality(Callers)
            /\ abandoned'[p] + Len(idle'[p]) + Cardinality(Holders(p)')
                 < MaxAbandoned + Cardinality(Callers)
        BY <1>2, <3>4, <4>1, <4>2, <4>3, SMTT(30) DEF Account
      <4> QED
        BY <1>2, <3>1, <4>2, <4>4 DEF Account
    <3>6. \A q \in Pools \ {p} : Account(q)'
      BY <1>2, <2>5, <3>1, <3>2 DEF Accounts, Account
    <3> QED
      BY <3>5, <3>6 DEF Accounts
  <2> QED
    BY <2>7, <2>9
<1>5. CASE idle[p] = <<>>
  <2>1. at' = [at EXCEPT ![c] = "spawning"] /\ UNCHANGED <<held, jobs, step, idle>>
    BY <1>3, <1>5 DEF take_idle
  <2>2. /\ at' \in [Callers -> Places]
        /\ at'[c] = "spawning" /\ \A d \in Callers \ {c} : at'[d] = at[d]
    BY <2>1 DEF TypeOK, Places
  <2>3. TypeOK'
    BY <1>2, <2>1, <2>2 DEF TypeOK, cacheVars
  <2>4. Ownership'
    BY <1>1, <1>2, <2>1, <2>2 DEF Ownership, Holding
  <2>5. Exchange'
    BY <1>2, <2>1, <2>2, ExchangeKept DEF Exchange, Holding
  <2>6. Accounts'
    <3>1. \A q \in Pools : Charged(q)' = Charged(q) /\ Settling(q)' = Settling(q)
                          /\ Holders(q)' = Holders(q)
      BY <1>1, <1>2, <2>1, <2>2 DEF Charged, Settling, Holders, Holding, Alive
    <3>2. \A q \in Pools \ {p} : Engaged(q)' = Engaged(q)
      BY <1>1, <1>2, <1>3, <2>2 DEF Engaged
    <3>3. Len(idle[p]) + Cardinality(Engaged(p)') <= Cardinality(Callers)
      <4>1. Engaged(p)' \in SUBSET Callers
        BY DEF Engaged
      <4>2. Len(idle[p]) = 0
        BY <1>5
      <4> QED
        BY <4>1, <4>2, CallersAreCounted
    <3> QED
      BY <1>2, <2>1, <3>1, <3>2, <3>3 DEF Accounts, Account
  <2> QED
    BY <2>3, <2>4, <2>5, <2>6
<1> QED
  BY <1>4, <1>5

(* What returning does to the callers, and to the sets that count them.    *)
LEMMA ReturnFacts ==
    ASSUME TypeOK, NEW c \in Callers, Return(c)
    PROVE  /\ at' \in [Callers -> Places] /\ at'[c] = "idle"
           /\ held' \in [Callers -> Workers \cup {None}] /\ held'[c] = None
           /\ call' \in [Callers -> Calls \cup {NoCall}]
           /\ calls' = calls
           /\ \A d \in Callers \ {c} : at'[d] = at[d] /\ call'[d] = call[d] /\ held'[d] = held[d]
           /\ \A p \in Pools : /\ Settling(p)' = Settling(p) \ {c}
                               /\ Engaged(p)' = Engaged(p) \ {c}
                               /\ Holders(p)' = Holders(p) \ {c}
<1>1. /\ at' \in [Callers -> Places] /\ at'[c] = "idle"
      /\ held' \in [Callers -> Workers \cup {None}] /\ held'[c] = None
      /\ call' \in [Callers -> Calls \cup {NoCall}]
      /\ \A d \in Callers \ {c} : at'[d] = at[d] /\ call'[d] = call[d] /\ held'[d] = held[d]
  BY DEF Return, TypeOK, Places
<1>2. \A p \in Pools : /\ Settling(p)' = Settling(p) \ {c}
                       /\ Engaged(p)' = Engaged(p) \ {c}
                       /\ Holders(p)' = Holders(p) \ {c}
  BY <1>1 DEF Settling, Engaged, Holders, Holding
<1> QED
  BY <1>1, <1>2 DEF Return

(* A caller that returns without parking its thread drops it: the thread   *)
(* has no owner any more, and nobody else is touched.                      *)
LEMMA ReturnInv ==
    ASSUME TypeOK, Ownership, Exchange, NEW c \in Callers, Return(c),
           UNCHANGED <<threadVars, idle, cacheVars>>, abandoned' \in [Pools -> Int]
    PROVE  TypeOK' /\ Ownership' /\ Exchange'
<1>1. UNCHANGED <<wstate, step, wpool, jobs, outcomes, engine, idle, cache, disk, floor>>
  BY DEF threadVars, cacheVars
<1>2. TypeOK'
  BY <1>1, ReturnFacts DEF TypeOK
<1>3. Ownership'
  <2>1. /\ at'[c] = "idle" /\ held'[c] = None
        /\ \A d \in Callers \ {c} : at'[d] = at[d] /\ call'[d] = call[d] /\ held'[d] = held[d]
    BY ReturnFacts
  <2>2. \A d \in Callers : held'[d] # None <=> at'[d] \in Holding
    BY <2>1 DEF Ownership, Holding
  <2>3. \A d, e \in Callers : held'[d] # None /\ held'[d] = held'[e] => d = e
    BY <2>1 DEF Ownership
  <2>4. \A d \in Callers : at'[d] \in Holding =>
          wstate'[held'[d]] # "unborn" /\ wpool'[held'[d]] = call'[d].pool
    BY <1>1, <2>1 DEF Ownership, Holding
  <2>5. \A p \in Pools : \A w \in ToSet(idle[p]) : \A d \in Callers : held'[d] # w
    BY <2>1, ParkedIsWorker, RunnerAssumption DEF Ownership, None
  <2> QED
    BY <1>1, <2>1, <2>2, <2>3, <2>4, <2>5 DEF Ownership
<1>4. Exchange'
  BY <1>1, ReturnFacts, ExchangeKept DEF Exchange, Holding
<1> QED
  BY <1>2, <1>3, <1>4

(* A caller that returns with nothing to settle lowers the accounts.       *)
LEMMA ReturnAccounts ==
    ASSUME TypeOK, Accounts, NEW c \in Callers, Return(c), at[c] # "claimed",
           UNCHANGED <<wstate, step, wpool, idle, abandoned>>
    PROVE  Accounts'
<1> SUFFICES ASSUME NEW p \in Pools
             PROVE  Account(p)'
  BY DEF Accounts
<1>1. Charged(p)' = Charged(p)
  BY DEF Charged, Alive
<1>2. Settling(p)' = Settling(p)
  BY ReturnFacts DEF Settling
<1>3. /\ IsFiniteSet(Engaged(p)) /\ IsFiniteSet(Holders(p))
      /\ Engaged(p)' \subseteq Engaged(p) /\ Holders(p)' \subseteq Holders(p)
  BY ReturnFacts, CallersAreCounted DEF Engaged, Holders
<1>4. /\ Cardinality(Engaged(p)') \in Nat /\ Cardinality(Engaged(p)') <= Cardinality(Engaged(p))
      /\ Cardinality(Holders(p)') \in Nat /\ Cardinality(Holders(p)') <= Cardinality(Holders(p))
  BY <1>3, FS_Subset, FS_CardinalityType
<1>5. Account(p)
  BY DEF Accounts
<1>6. /\ abandoned[p] \in Int /\ Len(idle[p]) \in Nat
      /\ MaxAbandoned \in Nat /\ Cardinality(Callers) \in Nat
      /\ Cardinality(Engaged(p)) \in Nat /\ Cardinality(Holders(p)) \in Nat
  BY CountTypes
<1>7. /\ Len(idle'[p]) + Cardinality(Engaged(p)') <= Cardinality(Callers)
      /\ abandoned'[p] + Len(idle'[p]) + Cardinality(Holders(p)')
           < MaxAbandoned + Cardinality(Callers)
  <2>1. /\ Len(idle[p]) + Cardinality(Engaged(p)) <= Cardinality(Callers)
        /\ abandoned[p] + Len(idle[p]) + Cardinality(Holders(p))
             < MaxAbandoned + Cardinality(Callers)
    BY <1>5 DEF Account
  <2>2. Len(idle[p]) + Cardinality(Engaged(p)') <= Len(idle[p]) + Cardinality(Engaged(p))
    BY <1>4, <1>6
  <2>3. abandoned[p] + Len(idle[p]) + Cardinality(Holders(p)')
          <= abandoned[p] + Len(idle[p]) + Cardinality(Holders(p))
    BY <1>4, <1>6
  <2>4. Len(idle[p]) + Cardinality(Engaged(p)') <= Cardinality(Callers)
    BY <1>4, <1>6, <2>1, <2>2, SMTT(30)
  <2>5. abandoned[p] + Len(idle[p]) + Cardinality(Holders(p)')
          < MaxAbandoned + Cardinality(Callers)
    BY <1>4, <1>6, <2>1, <2>3, SMTT(30)
  <2> QED
    BY <2>4, <2>5
<1> QED
  BY <1>1, <1>2, <1>5, <1>7 DEF Account

(* The gate of spawn_worker: when it opens, the counter is below the limit *)
(* and not below zero, for a negative one reads as a huge number.          *)
LEMMA GateIsExact ==
    ASSUME TypeOK, Accounts, NEW p \in Pools, ~MayNotSpawn(p)
    PROVE  0 <= abandoned[p] /\ abandoned[p] < MaxAbandoned
<1>1. Account(p)
  BY DEF Accounts
<1>2. Settling(p) \in SUBSET Callers
  BY DEF Settling
<1>3. /\ abandoned[p] \in Int /\ MaxAbandoned \in Nat /\ Cardinality(Callers) \in Nat
      /\ Cardinality(Charged(p)) \in Nat /\ Cardinality(Settling(p)) \in Nat
      /\ Cardinality(Settling(p)) <= Cardinality(Callers)
  BY <1>2, CountTypes, CallersAreCounted
<1>4. Wrap \in Nat /\ Wrap > MaxAbandoned + Cardinality(Callers)
  BY RunnerAssumption
<1>5. abandoned[p] >= -Cardinality(Callers)
  BY <1>1, <1>3 DEF Account
<1> QED
  BY <1>3, <1>4, <1>5 DEF MayNotSpawn, Loaded

(* spawn_worker keeps the invariant: refused, the call returns; otherwise  *)
(* a thread nobody had becomes the caller's, within the limits the gate    *)
(* and the number of callers set.                                          *)
LEMMA SpawnInv ==
    ASSUME Pooling, NEW c \in Callers, spawn_worker(c)
    PROVE  Pooling'
<1> USE DEF Pooling
<1>1. at[c] = "spawning" /\ call[c] \in Calls /\ UNCHANGED <<idle, abandoned, cacheVars>>
  BY DEF spawn_worker, Ownership
<1>2. PICK p \in Pools : p = call[c].pool
  BY <1>1 DEF Calls
<1>3. CASE MayNotSpawn(p)
  <2>1. Return(c) /\ UNCHANGED threadVars
    BY <1>2, <1>3 DEF spawn_worker
  <2>2. TypeOK' /\ Ownership' /\ Exchange'
    BY <1>1, <2>1, ReturnInv DEF TypeOK
  <2>3. Accounts'
    BY <1>1, <2>1, ReturnAccounts DEF threadVars
  <2> QED
    BY <2>2, <2>3
<1>4. CASE ~MayNotSpawn(p)
  <2>1. PICK w \in Workers :
          /\ wstate[w] = "unborn" /\ SendJob(c, w)
          /\ wstate' = [wstate EXCEPT ![w] = "running"]
          /\ wpool' = [wpool EXCEPT ![w] = p]
          /\ UNCHANGED <<call, calls, outcomes, engine>>
    BY <1>2, <1>4 DEF spawn_worker
  <2>2. step[w] = "recv" /\ outcomes[w] = <<>>
    BY <2>1 DEF Exchange, Threads
  <2>3. \A d \in Callers : held[d] # w
    BY <2>1, RunnerAssumption DEF Ownership, None
  <2>4. \A q \in Pools : w \notin ToSet(idle[q])
    BY <2>1 DEF Exchange, Parked
  <2>5. Hires(c, w)
    <3>1. /\ wstate' \in [Workers -> {"unborn", "running", "abandoned", "finished"}]
          /\ wpool' \in [Workers -> Pools]
          /\ wstate'[w] = "running" /\ wpool'[w] = call[c].pool
          /\ \A v \in Workers \ {w} : wstate'[v] = wstate[v] /\ wpool'[v] = wpool[v]
      BY <1>2, <2>1 DEF TypeOK
    <3>2. idle' \in [Pools -> Seq(Workers)]
      BY <1>1 DEF TypeOK
    <3>3. \A q \in Pools : IsInjective(idle'[q]) /\ ToSet(idle'[q]) = ToSet(idle[q]) \ {w}
      BY <1>1, <2>4 DEF Ownership
    <3> QED
      BY <1>1, <2>1, <2>2, <2>3, <3>1, <3>2, <3>3 DEF Hires
  <2>6. TypeOK' /\ Ownership' /\ Exchange'
    BY <1>1, <2>5, HiresInv
  <2>7. /\ at'[c] = "waiting" /\ \A d \in Callers \ {c} : at'[d] = at[d]
        /\ \A v \in Workers \ {w} : /\ step'[v] = step[v] /\ wstate'[v] = wstate[v]
                                    /\ wpool'[v] = wpool[v]
        /\ wstate'[w] = "running"
    BY <2>1 DEF SendJob, TypeOK
  <2>8. Accounts'
    <3>1. \A q \in Pools : Charged(q)' = Charged(q) /\ Settling(q)' = Settling(q)
                          /\ Engaged(q)' = Engaged(q)
      BY <1>1, <2>1, <2>7 DEF Charged, Settling, Alive, Engaged, Holding
    <3>2. \A q \in Pools \ {p} : Holders(q)' = Holders(q)
      BY <1>1, <1>2, <2>1, <2>7 DEF Holders
    <3>3. Account(p)'
      <4>1. Holders(p)' \subseteq Engaged(p)' /\ Engaged(p) \in SUBSET Callers
        BY DEF Holders, Engaged
      <4>2. /\ Cardinality(Holders(p)') \in Nat
            /\ Cardinality(Holders(p)') <= Cardinality(Engaged(p))
        BY <3>1, <4>1, CallersAreCounted, FS_Subset, FS_CardinalityType
      <4>3. Account(p) /\ abandoned[p] < MaxAbandoned
        BY <1>4, GateIsExact DEF Accounts
      <4>4. /\ abandoned[p] \in Int /\ Len(idle[p]) \in Nat
            /\ MaxAbandoned \in Nat /\ Cardinality(Callers) \in Nat
            /\ Cardinality(Engaged(p)) \in Nat
        BY CountTypes
      <4>5. abandoned'[p] + Len(idle'[p]) + Cardinality(Holders(p)')
              < MaxAbandoned + Cardinality(Callers)
        BY <1>1, <4>2, <4>3, <4>4 DEF Account
      <4> QED
        BY <1>1, <3>1, <4>3, <4>5 DEF Account
    <3>4. \A q \in Pools \ {p} : Account(q)'
      BY <1>1, <3>1, <3>2 DEF Accounts, Account
    <3> QED
      BY <3>3, <3>4 DEF Accounts
  <2> QED
    BY <2>6, <2>8
<1> QED
  BY <1>3, <1>4

(* release puts a thread its caller held on the list once, or drops it.    *)
LEMMA ReleaseFacts ==
    ASSUME TypeOK, Ownership, NEW p \in Pools, NEW w \in Workers, w \notin ToSet(idle[p]),
           idle' = release(p, w)
    PROVE  /\ idle' \in [Pools -> Seq(Workers)]
           /\ \A q \in Pools : IsInjective(idle'[q])
           /\ \A q \in Pools \ {p} : idle'[q] = idle[q]
           /\ ToSet(idle'[p]) \subseteq ToSet(idle[p]) \cup {w}
           /\ Len(idle'[p]) <= Len(idle[p]) + 1
<1>1. /\ Append(idle[p], w) \in Seq(Workers)
      /\ Len(Append(idle[p], w)) = Len(idle[p]) + 1
      /\ IsInjective(Append(idle[p], w))
      /\ ToSet(Append(idle[p], w)) = ToSet(idle[p]) \cup {w}
  BY AppendOnce DEF TypeOK, Ownership
<1>2. CASE Len(idle[p]) < MaxIdle
  <2>1. idle' = [idle EXCEPT ![p] = Append(idle[p], w)]
    BY <1>2 DEF release
  <2>2. /\ idle' \in [Pools -> Seq(Workers)]
        /\ idle'[p] = Append(idle[p], w)
        /\ \A q \in Pools \ {p} : idle'[q] = idle[q]
    BY <1>1, <2>1 DEF TypeOK
  <2>3. \A q \in Pools : IsInjective(idle'[q])
    BY <1>1, <2>2 DEF Ownership
  <2>4. Len(idle[p]) \in Nat
    BY DEF TypeOK
  <2> QED
    BY <1>1, <2>2, <2>3, <2>4
<1>3. CASE ~(Len(idle[p]) < MaxIdle)
  BY <1>3 DEF release, Ownership, TypeOK
<1> QED
  BY <1>2, <1>3

(* Receive keeps the invariant: the answer taken was the only one owed, so *)
(* the thread that is parked owes nothing.                                 *)
LEMMA ReceiveInv ==
    ASSUME Pooling, NEW c \in Callers, Receive(c)
    PROVE  Pooling'
<1> USE DEF Pooling
<1>1. at[c] = "waiting" /\ Return(c) /\ call[c] \in Calls
      /\ UNCHANGED <<wstate, step, wpool, jobs, engine, abandoned, cacheVars>>
  BY DEF Receive, Ownership
<1>2. PICK p \in Pools : p = call[c].pool
  BY <1>1 DEF Calls
<1>3. PICK w \in Workers : w = held[c]
  BY <1>1 DEF Ownership, TypeOK, Holding
<1>4. /\ outcomes[w] # <<>> /\ outcomes' = [outcomes EXCEPT ![w] = Tail(@)]
      /\ idle' = release(p, w)
  BY <1>2, <1>3 DEF Receive
<1>5. Served(c, w) /\ wpool[w] = p /\ wstate[w] # "unborn"
  BY <1>1, <1>2, <1>3 DEF Ownership, Exchange, Holding
<1>6. step[w] = "recv" /\ Len(outcomes[w]) = 1 /\ wstate[w] = "running"
  <2>1. Answered(c, w) /\ wstate[w] # "abandoned"
    BY <1>1, <1>4, <1>5 DEF Served, AtWork, Lost
  <2> QED
    BY <1>5, <2>1 DEF Answered, Exchange, Threads, TypeOK
<1>7. /\ outcomes' \in [Workers -> Seq(Answers)] /\ outcomes'[w] = <<>>
      /\ \A v \in Workers \ {w} : outcomes'[v] = outcomes[v]
  <2>1. Tail(outcomes[w]) \in Seq(Answers) /\ Tail(outcomes[w]) = <<>>
    <3>1. outcomes[w] \in Seq(Answers)
      BY DEF TypeOK
    <3>2. Tail(outcomes[w]) \in Seq(Answers) /\ Len(Tail(outcomes[w])) = 0
      BY <1>4, <1>6, <3>1
    <3> QED
      BY <3>2, EmptyIffZero
  <2> QED
    BY <1>4, <2>1 DEF TypeOK
<1>8. \A q \in Pools : w \notin ToSet(idle[q])
  BY <1>3 DEF Ownership
<1>9. /\ idle' \in [Pools -> Seq(Workers)]
      /\ \A q \in Pools : IsInjective(idle'[q])
      /\ \A q \in Pools \ {p} : idle'[q] = idle[q]
      /\ ToSet(idle'[p]) \subseteq ToSet(idle[p]) \cup {w}
      /\ Len(idle'[p]) <= Len(idle[p]) + 1
  BY <1>4, <1>8, ReleaseFacts
<1>10. /\ at' \in [Callers -> Places] /\ at'[c] = "idle"
       /\ held' \in [Callers -> Workers \cup {None}] /\ held'[c] = None
       /\ call' \in [Callers -> Calls \cup {NoCall}]
       /\ calls' = calls
       /\ \A d \in Callers \ {c} : at'[d] = at[d] /\ call'[d] = call[d] /\ held'[d] = held[d]
  BY <1>1, ReturnFacts
<1>11. TypeOK'
  BY <1>1, <1>7, <1>9, <1>10 DEF TypeOK, cacheVars
<1>12. \A d \in Callers \ {c} : held[d] # w
  BY <1>3, RunnerAssumption DEF Ownership, None
<1>13. Ownership'
  <2>1. \A d \in Callers : held'[d] # None <=> at'[d] \in Holding
    BY <1>10 DEF Ownership, Holding
  <2>2. \A d, e \in Callers : held'[d] # None /\ held'[d] = held'[e] => d = e
    BY <1>10 DEF Ownership
  <2>3. \A d \in Callers : at'[d] \in Holding =>
          wstate'[held'[d]] # "unborn" /\ wpool'[held'[d]] = call'[d].pool
    BY <1>1, <1>10 DEF Ownership, Holding
  <2>4. ASSUME NEW q \in Pools, NEW v \in ToSet(idle'[q])
        PROVE  wpool'[v] = q /\ \A d \in Callers : held'[d] # v
    <3>1. w # None /\ (v \in ToSet(idle[q]) => v # None)
      BY ParkedIsWorker, RunnerAssumption DEF None
    <3>2. CASE v \in ToSet(idle[q])
      BY <1>1, <1>10, <3>1, <3>2 DEF Ownership
    <3>3. CASE v \notin ToSet(idle[q])
      <4>1. q = p /\ v = w
        BY <1>9, <2>4, <3>3
      <4> QED
        BY <1>1, <1>5, <1>10, <1>12, <3>1, <4>1
    <3> QED
      BY <3>2, <3>3
  <2> QED
    BY <1>9, <1>10, <2>1, <2>2, <2>3, <2>4 DEF Ownership
<1>14. Exchange'
  <2>1. Threads'
    BY <1>1, <1>5, <1>7 DEF Exchange, Threads
  <2>2. ASSUME NEW d \in Callers, at'[d] \in Holding
        PROVE  Served(d, held[d])'
    <3>1. d # c
      BY <1>10, <2>2 DEF Holding
    <3>2. held[d] \in Workers \ {w} /\ Served(d, held[d])
      BY <1>10, <1>12, <2>2, <3>1 DEF TypeOK, Ownership, Exchange
    <3> QED
      BY <1>1, <1>7, <1>10, <3>1, <3>2, ServedKept
  <2>3. ASSUME NEW q \in Pools, NEW v \in ToSet(idle'[q])
        PROVE  Parked(v)'
    <3>1. CASE v \in ToSet(idle[q])
      <4>1. v \in Workers \ {w} /\ Parked(v)
        BY <1>8, <3>1, ParkedIsWorker DEF Exchange
      <4> QED
        BY <1>1, <1>7, <4>1 DEF Parked
    <3>2. CASE v \notin ToSet(idle[q])
      <4>1. v = w
        BY <1>9, <2>3, <3>2
      <4> QED
        BY <1>1, <1>6, <1>7, <4>1 DEF Parked
    <3> QED
      BY <3>1, <3>2
  <2> QED
    BY <2>1, <2>2, <2>3 DEF Exchange
<1>15. Accounts'
  <2>1. \A q \in Pools : Charged(q)' = Charged(q)
    BY <1>1 DEF Charged, Alive
  <2>2. \A q \in Pools : Settling(q)' = Settling(q) /\ Engaged(q)' = Engaged(q) \ {c}
                        /\ Holders(q)' = Holders(q) \ {c}
    BY <1>1, ReturnFacts DEF Settling
  <2>3. c \in Engaged(p) /\ c \in Holders(p)
        /\ \A q \in Pools \ {p} : c \notin Engaged(q) /\ c \notin Holders(q)
    BY <1>1, <1>2 DEF Engaged, Holders, Holding
  <2>4. /\ Cardinality(Engaged(p)') = Cardinality(Engaged(p)) - 1
        /\ Cardinality(Holders(p)') = Cardinality(Holders(p)) - 1
    BY <2>2, <2>3, CountChanges, CallersAreCounted DEF Engaged, Holders
  <2>5. Account(p)'
    <3>1. Account(p)
      BY DEF Accounts
    <3>2. /\ abandoned[p] \in Int /\ Len(idle[p]) \in Nat /\ Len(idle'[p]) \in Nat
          /\ MaxAbandoned \in Nat /\ Cardinality(Callers) \in Nat
          /\ Cardinality(Engaged(p)) \in Nat /\ Cardinality(Holders(p)) \in Nat
      BY <1>9, CountTypes
    <3>3. /\ Len(idle'[p]) + Cardinality(Engaged(p)') <= Cardinality(Callers)
          /\ abandoned'[p] + Len(idle'[p]) + Cardinality(Holders(p)')
               < MaxAbandoned + Cardinality(Callers)
      <4>1. /\ Len(idle[p]) + Cardinality(Engaged(p)) <= Cardinality(Callers)
            /\ abandoned[p] + Len(idle[p]) + Cardinality(Holders(p))
                 < MaxAbandoned + Cardinality(Callers)
        BY <3>1 DEF Account
      <4>2. Len(idle'[p]) <= Len(idle[p]) + 1 /\ abandoned'[p] = abandoned[p]
        BY <1>1, <1>9
      <4>3. Len(idle'[p]) + Cardinality(Engaged(p)') <= Cardinality(Callers)
        BY <2>4, <3>2, <4>1, <4>2, SMTT(30)
      <4>4. abandoned'[p] + Len(idle'[p]) + Cardinality(Holders(p)')
              < MaxAbandoned + Cardinality(Callers)
        BY <2>4, <3>2, <4>1, <4>2, SMTT(30)
      <4> QED
        BY <4>3, <4>4
    <3> QED
      BY <1>1, <2>1, <2>2, <3>1, <3>3 DEF Account
  <2>6. \A q \in Pools \ {p} : Account(q)'
    <3>1. \A q \in Pools \ {p} : Engaged(q)' = Engaged(q) /\ Holders(q)' = Holders(q)
      <4> SUFFICES ASSUME NEW q \in Pools \ {p}
                   PROVE  Engaged(q)' = Engaged(q) /\ Holders(q)' = Holders(q)
        OBVIOUS
      <4>1. Engaged(q) \ {c} = Engaged(q) /\ Holders(q) \ {c} = Holders(q)
        BY <2>3
      <4> QED
        BY <2>2, <4>1
    <3> QED
      BY <1>1, <1>9, <2>1, <2>2, <3>1 DEF Accounts, Account
  <2> QED
    BY <2>5, <2>6 DEF Accounts
<1> QED
  BY <1>11, <1>13, <1>14, <1>15

(* A caller whose thread is gone returns empty handed.                     *)
LEMMA DisconnectedInv ==
    ASSUME Pooling, NEW c \in Callers, Disconnected(c)
    PROVE  Pooling'
<1> USE DEF Pooling
<1>1. /\ at[c] = "waiting" /\ Return(c)
      /\ UNCHANGED <<threadVars, idle, abandoned, cacheVars>>
  BY DEF Disconnected
<1>2. TypeOK' /\ Ownership' /\ Exchange'
  BY <1>1, ReturnInv DEF TypeOK
<1>3. Accounts'
  BY <1>1, ReturnAccounts DEF threadVars
<1> QED
  BY <1>2, <1>3

(* recv_timeout gives up: the caller still owns the thread.                *)
LEMMA TimeOutInv ==
    ASSUME Pooling, NEW c \in Callers, TimeOut(c)
    PROVE  Pooling'
<1> USE DEF Pooling
<1>1. /\ at[c] = "waiting" /\ at' = [at EXCEPT ![c] = "late"]
      /\ UNCHANGED <<call, held, calls, threadVars, idle, abandoned, cacheVars>>
  BY DEF TimeOut
<1>2. UNCHANGED <<wstate, step, wpool, jobs, outcomes, engine, cache, disk, floor>>
  BY <1>1 DEF threadVars, cacheVars
<1>3. /\ at' \in [Callers -> Places]
      /\ at'[c] = "late" /\ \A d \in Callers \ {c} : at'[d] = at[d]
  BY <1>1 DEF TypeOK, Places
<1>4. TypeOK'
  BY <1>1, <1>2, <1>3 DEF TypeOK
<1>5. Ownership'
  <2>1. \A d \in Callers : at'[d] \in Holding <=> at[d] \in Holding
    BY <1>1, <1>3 DEF Holding
  <2>2. \A d \in Callers : at'[d] # "idle" => at[d] # "idle"
    BY <1>1, <1>3
  <2> QED
    BY <1>1, <1>2, <2>1, <2>2 DEF Ownership
<1>6. Exchange'
  <2>1. Served(c, held[c])
    BY <1>1 DEF Exchange, Holding
  <2>2. Served(c, held[c])'
    BY <1>1, <1>2, <1>3, <2>1 DEF Served, AtWork, Answered, Lost
  <2>3. \A p \in Pools : \A w \in ToSet(idle'[p]) : Parked(w)
    BY <1>1 DEF Exchange
  <2> QED
    BY <1>1, <1>2, <1>3, <2>2, <2>3, ExchangeKept
<1>7. Accounts'
  <2>1. \A q \in Pools : /\ Charged(q)' = Charged(q) /\ Settling(q)' = Settling(q)
                         /\ Engaged(q)' = Engaged(q) /\ Holders(q)' = Holders(q)
    BY <1>1, <1>2, <1>3 DEF Charged, Settling, Engaged, Holders, Holding, Alive
  <2> QED
    BY <1>1, <2>1, SameAccounts
<1> QED
  BY <1>4, <1>5, <1>6, <1>7

(* WorkerState::abandon keeps the invariant: a thread that still runs is   *)
(* claimed, and is one more to count; one that ended is dropped.           *)
LEMMA AbandonInv ==
    ASSUME Pooling, NEW c \in Callers, abandon(c)
    PROVE  Pooling'
<1> USE DEF Pooling
<1>1. /\ at[c] = "late" /\ call[c] \in Calls
      /\ UNCHANGED <<step, wpool, jobs, outcomes, engine, idle, abandoned, cacheVars>>
  BY DEF abandon, Ownership
<1>2. PICK p \in Pools : p = call[c].pool
  BY <1>1 DEF Calls
<1>3. PICK w \in Workers : w = held[c]
  BY <1>1 DEF Ownership, TypeOK, Holding
<1>4. CASE wstate[w] # "running"
  <2>1. Return(c) /\ UNCHANGED wstate
    BY <1>3, <1>4 DEF abandon
  <2>2. TypeOK' /\ Ownership' /\ Exchange'
    BY <1>1, <2>1, ReturnInv DEF TypeOK, threadVars
  <2>3. Accounts'
    BY <1>1, <2>1, ReturnAccounts
  <2> QED
    BY <2>2, <2>3
<1>5. CASE wstate[w] = "running"
  <2>1. /\ wstate' = [wstate EXCEPT ![w] = "abandoned"]
        /\ at' = [at EXCEPT ![c] = "claimed"]
        /\ UNCHANGED <<call, held, calls>>
    BY <1>3, <1>5 DEF abandon
  <2>2. /\ wstate' \in [Workers -> {"unborn", "running", "abandoned", "finished"}]
        /\ wstate'[w] = "abandoned" /\ \A v \in Workers \ {w} : wstate'[v] = wstate[v]
    BY <2>1 DEF TypeOK
  <2>3. /\ at' \in [Callers -> Places]
        /\ at'[c] = "claimed" /\ \A d \in Callers \ {c} : at'[d] = at[d]
    BY <2>1 DEF TypeOK, Places
  <2>4. TypeOK'
    BY <1>1, <2>1, <2>2, <2>3 DEF TypeOK, cacheVars
  <2>5. \A d \in Callers \ {c} : held[d] # w
    BY <1>3, RunnerAssumption DEF Ownership, None
  <2>6. Ownership'
    <3>1. \A d \in Callers : at'[d] \in Holding <=> at[d] \in Holding
      BY <1>1, <2>3 DEF Holding
    <3>2. \A d \in Callers : at'[d] # "idle" => at[d] # "idle"
      BY <1>1, <2>3
    <3>3. \A d \in Callers : at[d] \in Holding => held[d] \in Workers
      BY DEF Ownership, TypeOK
    <3>4. \A v \in Workers : wstate[v] # "unborn" => wstate'[v] # "unborn"
      BY <2>2
    <3>5. \A d \in Callers : at'[d] \in Holding =>
            wstate'[held'[d]] # "unborn" /\ wpool'[held'[d]] = call'[d].pool
      BY <1>1, <2>1, <3>1, <3>3, <3>4 DEF Ownership
    <3> QED
      BY <1>1, <2>1, <3>1, <3>2, <3>5 DEF Ownership
  <2>7. Exchange'
    <3>1. Threads'
      BY <1>1, <2>2 DEF Exchange, Threads
    <3>2. ASSUME NEW d \in Callers, at'[d] \in Holding
          PROVE  Served(d, held[d])'
      <4>1. CASE d = c
        <5>1. Served(c, w)
          BY <1>1, <1>3 DEF Exchange, Holding
        <5> QED
          BY <1>1, <1>3, <2>1, <2>2, <2>3, <4>1, <5>1 DEF Served, AtWork, Answered, Lost
      <4>2. CASE d # c
        <5>1. held[d] \in Workers \ {w} /\ Served(d, held[d])
          BY <2>3, <2>5, <3>2, <4>2 DEF TypeOK, Ownership, Exchange
        <5> QED
          BY <1>1, <2>1, <2>2, <2>3, <4>2, <5>1, ServedKept
      <4> QED
        BY <4>1, <4>2
    <3>3. ASSUME NEW q \in Pools, NEW v \in ToSet(idle'[q])
          PROVE  Parked(v)'
      <4>1. v \in Workers \ {w} /\ Parked(v)
        BY <1>1, <1>3, <3>3, ParkedIsWorker DEF Ownership, Exchange
      <4> QED
        BY <1>1, <2>2, <4>1 DEF Parked
    <3> QED
      BY <3>1, <3>2, <3>3 DEF Exchange
  <2>8. Accounts'
    <3>1. wpool[w] = p /\ step[w] # "gone"
      BY <1>1, <1>2, <1>3, <1>5 DEF Ownership, Exchange, Threads, Holding
    <3>2. /\ w \notin Charged(p) /\ Charged(p)' = Charged(p) \cup {w}
          /\ c \notin Settling(p) /\ Settling(p)' = Settling(p) \cup {c}
      <4>1. w \notin Charged(p) /\ Charged(p)' = Charged(p) \cup {w}
        BY <1>1, <1>5, <2>2, <3>1 DEF Charged, Alive
      <4>2. c \notin Settling(p) /\ Settling(p)' = Settling(p) \cup {c}
        BY <1>1, <1>2, <2>1, <2>3 DEF Settling
      <4> QED
        BY <4>1, <4>2
    <3>3. \A q \in Pools \ {p} : Charged(q)' = Charged(q) /\ Settling(q)' = Settling(q)
      <4>1. \A q \in Pools \ {p} : Charged(q)' = Charged(q)
        BY <1>1, <2>2, <3>1 DEF Charged, Alive
      <4>2. \A q \in Pools \ {p} : Settling(q)' = Settling(q)
        BY <1>1, <1>2, <2>1, <2>3 DEF Settling
      <4> QED
        BY <4>1, <4>2
    <3>4. \A q \in Pools : Engaged(q)' = Engaged(q) /\ Holders(q)' = Holders(q)
      BY <1>1, <2>1, <2>3 DEF Engaged, Holders, Holding
    <3>5. Account(p) /\ IsFiniteSet(Charged(p)) /\ IsFiniteSet(Settling(p))
      BY CallersAreCounted DEF Accounts, Account, Settling
    <3>6. /\ IsFiniteSet(Charged(p)')
          /\ Cardinality(Charged(p)') = Cardinality(Charged(p)) + 1
          /\ Cardinality(Settling(p)') = Cardinality(Settling(p)) + 1
      BY <3>2, <3>5, CountChanges
    <3>7. Account(p)'
      <4>1. Cardinality(Charged(p)) \in Nat /\ Cardinality(Settling(p)) \in Nat
        BY CountTypes
      <4>2. abandoned'[p] = Cardinality(Charged(p)') - Cardinality(Settling(p)')
        BY <1>1, <3>5, <3>6, <4>1 DEF Account
      <4> QED
        BY <1>1, <3>4, <3>5, <3>6, <4>2 DEF Account
    <3>8. \A q \in Pools \ {p} : Account(q)'
      BY <1>1, <3>3, <3>4 DEF Accounts, Account
    <3> QED
      BY <3>7, <3>8 DEF Accounts
  <2> QED
    BY <2>4, <2>6, <2>7, <2>8
<1> QED
  BY <1>4, <1>5

(* A thread that moves from its holder to the counter leaves the sum of an *)
(* account as it was.                                                      *)
LEMMA OneMovesOver ==
    ASSUME NEW a \in Int, NEW l \in Nat, NEW h \in Nat
    PROVE  (a + 1) + l + (h - 1) = a + l + h
OBVIOUS

(* A caller that lets go leaves room in an account.                        *)
LEMMA OneFewer ==
    ASSUME NEW l \in Nat, NEW e \in Nat, NEW m \in Nat, l + e <= m
    PROVE  l + (e - 1) <= m
OBVIOUS

(* Counting the claimed thread keeps the invariant: the counter catches up *)
(* with the threads, and the caller lets go.                               *)
LEMMA ChargeInv ==
    ASSUME Pooling, NEW c \in Callers, Charge(c)
    PROVE  Pooling'
<1> USE DEF Pooling
<1>1. /\ at[c] = "claimed" /\ Return(c) /\ call[c] \in Calls
      /\ UNCHANGED <<threadVars, idle, cacheVars>>
  BY DEF Charge, Ownership
<1>2. PICK p \in Pools : p = call[c].pool
  BY <1>1 DEF Calls
<1>3. /\ abandoned' \in [Pools -> Int] /\ abandoned'[p] = abandoned[p] + 1
      /\ \A q \in Pools \ {p} : abandoned'[q] = abandoned[q]
  BY <1>2 DEF Charge, TypeOK
<1>4. TypeOK' /\ Ownership' /\ Exchange'
  BY <1>1, <1>3, ReturnInv
<1>5. Accounts'
  <2>1. \A q \in Pools : Charged(q)' = Charged(q)
    BY <1>1 DEF Charged, Alive, threadVars
  <2>2. \A q \in Pools : Settling(q)' = Settling(q) \ {c} /\ Engaged(q)' = Engaged(q) \ {c}
                        /\ Holders(q)' = Holders(q) \ {c}
    BY <1>1, ReturnFacts
  <2>3. c \in Settling(p) /\ c \in Engaged(p) /\ c \in Holders(p)
    BY <1>1, <1>2 DEF Settling, Engaged, Holders, Holding
  <2>4. /\ Cardinality(Settling(p)') = Cardinality(Settling(p)) - 1
        /\ Cardinality(Engaged(p)') = Cardinality(Engaged(p)) - 1
        /\ Cardinality(Holders(p)') = Cardinality(Holders(p)) - 1
    <3>1. IsFiniteSet(Settling(p)) /\ IsFiniteSet(Engaged(p)) /\ IsFiniteSet(Holders(p))
      BY CallersAreCounted DEF Settling, Engaged, Holders
    <3> QED
      BY <2>2, <2>3, <3>1, CountChanges
  <2>5. Account(p)'
    <3>1. Account(p)
      BY DEF Accounts
    <3>2. /\ abandoned[p] \in Int /\ Len(idle[p]) \in Nat
          /\ MaxAbandoned \in Nat /\ Cardinality(Callers) \in Nat
          /\ Cardinality(Charged(p)) \in Nat /\ Cardinality(Settling(p)) \in Nat
          /\ Cardinality(Engaged(p)) \in Nat /\ Cardinality(Holders(p)) \in Nat
      BY CountTypes
    <3>3. /\ abandoned'[p] = Cardinality(Charged(p)) - Cardinality(Settling(p)')
          /\ Len(idle[p]) + Cardinality(Engaged(p)') <= Cardinality(Callers)
          /\ abandoned'[p] + Len(idle[p]) + Cardinality(Holders(p)')
               < MaxAbandoned + Cardinality(Callers)
      <4>1. /\ abandoned[p] = Cardinality(Charged(p)) - Cardinality(Settling(p))
            /\ Len(idle[p]) + Cardinality(Engaged(p)) <= Cardinality(Callers)
            /\ abandoned[p] + Len(idle[p]) + Cardinality(Holders(p))
                 < MaxAbandoned + Cardinality(Callers)
        BY <3>1 DEF Account
      <4>2. abandoned'[p] = Cardinality(Charged(p)) - Cardinality(Settling(p)')
        BY <1>3, <2>4, <3>2, <4>1
      <4>3. Len(idle[p]) + Cardinality(Engaged(p)') <= Cardinality(Callers)
        BY <2>4, <3>2, <4>1, OneFewer, Zenon
      <4>4. abandoned'[p] + Len(idle[p]) + Cardinality(Holders(p)')
              < MaxAbandoned + Cardinality(Callers)
        <5>1. abandoned'[p] + Len(idle[p]) + Cardinality(Holders(p)')
                = abandoned[p] + Len(idle[p]) + Cardinality(Holders(p))
          <6>1. abandoned'[p] + Len(idle[p]) + Cardinality(Holders(p)')
                  = (abandoned[p] + 1) + Len(idle[p]) + (Cardinality(Holders(p)) - 1)
            BY <1>3, <2>4
          <6>2. (abandoned[p] + 1) + Len(idle[p]) + (Cardinality(Holders(p)) - 1)
                  = abandoned[p] + Len(idle[p]) + Cardinality(Holders(p))
            BY <3>2, OneMovesOver, Zenon
          <6> QED
            BY <6>1, <6>2
        <5> QED
          BY <4>1, <5>1
      <4> QED
        BY <4>2, <4>3, <4>4
    <3> QED
      BY <1>1, <2>1, <3>1, <3>3 DEF Account
  <2>6. ASSUME NEW q \in Pools \ {p}
        PROVE  Account(q)'
    <3>1. c \notin Settling(q) /\ c \notin Engaged(q) /\ c \notin Holders(q)
      BY <1>2, <2>6 DEF Settling, Engaged, Holders
    <3>2. Settling(q)' = Settling(q) /\ Engaged(q)' = Engaged(q) /\ Holders(q)' = Holders(q)
      <4>1. /\ Settling(q) \ {c} = Settling(q)
            /\ Engaged(q) \ {c} = Engaged(q)
            /\ Holders(q) \ {c} = Holders(q)
        BY <3>1
      <4> QED
        BY <2>2, <4>1
    <3> QED
      BY <1>1, <1>3, <2>1, <3>2 DEF Accounts, Account
  <2> QED
    BY <2>5, <2>6 DEF Accounts
<1> QED
  BY <1>4, <1>5

-----------------------------------------------------------------------------
(* The invariant, one lemma per step of a thread                           *)

\* What a step of a thread leaves alone, and the types of what it may write.
ThreadFrame ==
    /\ UNCHANGED <<callVars, wpool, idle>>
    /\ engine' \in [Workers -> Nat]
    /\ cache' \in [Keys -> Nat]
    /\ UNCHANGED <<disk, floor>>

(* Callers, ownership and the counts of callers do not move with a thread. *)
LEMMA FrameFacts ==
    ASSUME TypeOK, Ownership, ThreadFrame, \A v \in Workers : wstate'[v] = "unborn" => wstate[v] = "unborn"
    PROVE  /\ UNCHANGED <<at, call, held, calls, wpool, idle>>
           /\ Ownership'
           /\ \A q \in Pools : /\ Settling(q)' = Settling(q)
                               /\ Engaged(q)' = Engaged(q) /\ Holders(q)' = Holders(q)
<1>1. UNCHANGED <<at, call, held, calls, wpool, idle>>
  BY DEF ThreadFrame, callVars
<1>2. Ownership'
  <2>1. \A d \in Callers : at[d] \in Holding =>
          wstate'[held[d]] # "unborn" /\ wpool[held[d]] = call[d].pool
    BY DEF Ownership, TypeOK
  <2> QED
    BY <1>1, <2>1 DEF Ownership
<1>3. \A q \in Pools : /\ Settling(q)' = Settling(q)
                       /\ Engaged(q)' = Engaged(q) /\ Holders(q)' = Holders(q)
  BY <1>1 DEF Settling, Engaged, Holders
<1> QED
  BY <1>1, <1>2, <1>3

(* The thread at work has one job, a whole call.                           *)
LEMMA JobFacts ==
    ASSUME TypeOK, Exchange, NEW w \in Workers, step[w] \in Working
    PROVE  Len(jobs[w]) = 1 /\ Head(jobs[w]) \in Calls /\ Key(w) \in Keys
<1>1. jobs[w] \in Seq(Calls) /\ Len(jobs[w]) = 1
  BY DEF TypeOK, Exchange, Threads
<1>2. Head(jobs[w]) \in Calls
  BY <1>1
<1> QED
  BY <1>1, <1>2 DEF Key, Calls

(* A thread that goes from one stage of its job to the next.               *)
LEMMA GotoInv ==
    ASSUME Pooling, NEW w \in Workers, NEW s \in Working, step[w] \in Working,
           Goto(w, s), ThreadFrame, UNCHANGED outcomes
    PROVE  Pooling'
<1> USE DEF Pooling
<1>1. /\ step' \in [Workers -> Working \cup {"recv", "gone"}]
      /\ step'[w] \in Working /\ \A v \in Workers \ {w} : step'[v] = step[v]
      /\ UNCHANGED <<wstate, abandoned, jobs>>
  BY DEF Goto, TypeOK
<1>2. /\ UNCHANGED <<at, call, held, calls, wpool, idle>>
      /\ Ownership'
      /\ \A q \in Pools : /\ Settling(q)' = Settling(q)
                          /\ Engaged(q)' = Engaged(q) /\ Holders(q)' = Holders(q)
  BY <1>1, FrameFacts
<1>3. TypeOK'
  BY <1>1, <1>2 DEF TypeOK, ThreadFrame
<1>4. Exchange'
  <2>1. Threads'
    <3> SUFFICES ASSUME NEW v \in Workers
                 PROVE  Threads!(v)'
      BY DEF Threads
    <3>1. CASE v = w
      BY <1>1, <3>1 DEF Exchange, Threads, Working
    <3>2. CASE v # w
      BY <1>1, <3>2 DEF Exchange, Threads
    <3> QED
      BY <3>1, <3>2
  <2>2. ASSUME NEW d \in Callers, at'[d] \in Holding
        PROVE  Served(d, held[d])'
    <3>1. held[d] \in Workers /\ Served(d, held[d]) /\ held'[d] = held[d]
      BY <1>2, <2>2 DEF TypeOK, Ownership, Exchange
    <3>2. CASE held[d] = w
      BY <1>1, <1>2, <3>1, <3>2 DEF Served, AtWork, Answered, Lost, Working
    <3>3. CASE held[d] # w
      BY <1>1, <1>2, <3>1, <3>3, ServedKept
    <3> QED
      BY <3>2, <3>3
  <2>3. ASSUME NEW q \in Pools, NEW v \in ToSet(idle'[q])
        PROVE  Parked(v)'
    <3>1. v \in Workers /\ Parked(v)
      BY <1>2, <2>3, ParkedIsWorker DEF Exchange
    <3> QED
      BY <1>1, <3>1 DEF Parked, Working
  <2> QED
    BY <2>1, <2>2, <2>3 DEF Exchange
<1>5. Accounts'
  <2>1. \A q \in Pools : Charged(q)' = Charged(q)
    BY <1>1, <1>2 DEF Charged, Alive, Working
  <2> QED
    BY <1>1, <1>2, <2>1, SameAccounts
<1> QED
  BY <1>2, <1>3, <1>4, <1>5

\* A thread answers its job: somebody still holds the receiver.
Replies(w, version) ==
    /\ Owned(w)
    /\ jobs' = [jobs EXCEPT ![w] = Tail(@)]
    /\ step' = [step EXCEPT ![w] = IF Len(jobs[w]) > 1 THEN "lookup" ELSE "recv"]
    /\ engine' = [engine EXCEPT ![w] = None]
    /\ outcomes' = [outcomes EXCEPT ![w] =
                       Append(@, [id |-> Head(jobs[w]).id, version |-> version])]
    /\ UNCHANGED <<wstate, abandoned>>

(* The answer goes to the caller whose job it answers: the owner of a      *)
(* thread at work is the caller that sent the job.                         *)
LEMMA RepliesInv ==
    ASSUME Pooling, NEW w \in Workers, NEW version \in Nat, step[w] \in Working,
           Replies(w, version), ThreadFrame
    PROVE  Pooling'
<1> USE DEF Pooling
<1>1. Len(jobs[w]) = 1 /\ Head(jobs[w]) \in Calls
  BY JobFacts
<1>2. PICK c \in Callers : held[c] = w
  <2>1. \A q \in Pools : w \notin ToSet(idle[q])
    BY DEF Exchange, Parked, Working
  <2> QED
    BY <2>1 DEF Replies, Owned
<1>3. at[c] \in Holding /\ Served(c, w) /\ \A d \in Callers \ {c} : held[d] # w
  BY <1>2, RunnerAssumption DEF Ownership, Exchange, None
<1>4. Head(jobs[w]) = call[c] /\ outcomes[w] = <<>>
  BY <1>3 DEF Served, AtWork, Answered, Lost, Working
<1>5. /\ step' \in [Workers -> Working \cup {"recv", "gone"}]
      /\ step'[w] = "recv" /\ \A v \in Workers \ {w} : step'[v] = step[v]
  BY <1>1 DEF Replies, TypeOK
<1>6. /\ jobs' \in [Workers -> Seq(Calls)]
      /\ jobs'[w] = <<>> /\ \A v \in Workers \ {w} : jobs'[v] = jobs[v]
  <2>1. Tail(jobs[w]) \in Seq(Calls) /\ Tail(jobs[w]) = <<>>
    <3>1. jobs[w] \in Seq(Calls)
      BY DEF TypeOK
    <3>2. Tail(jobs[w]) \in Seq(Calls) /\ Len(Tail(jobs[w])) = 0
      BY <1>1, <3>1
    <3> QED
      BY <3>2, EmptyIffZero
  <2> QED
    BY <2>1 DEF Replies, TypeOK
<1>7. /\ outcomes' \in [Workers -> Seq(Answers)]
      /\ Len(outcomes'[w]) = 1 /\ Head(outcomes'[w]).id = call[c].id
      /\ \A v \in Workers \ {w} : outcomes'[v] = outcomes[v]
  <2>1. PICK a \in Answers : a = [id |-> call[c].id, version |-> version]
    BY <1>1, <1>4 DEF Calls, Answers
  <2>2. /\ outcomes' = [outcomes EXCEPT ![w] = Append(@, a)]
        /\ a.id = call[c].id
    BY <1>4, <2>1 DEF Replies
  <2>3. Append(outcomes[w], a) \in Seq(Answers)
    BY DEF TypeOK
  <2>4. /\ outcomes' \in [Workers -> Seq(Answers)]
        /\ outcomes'[w] = Append(outcomes[w], a)
        /\ \A v \in Workers \ {w} : outcomes'[v] = outcomes[v]
    BY <2>2, <2>3 DEF TypeOK
  <2>5. Len(outcomes'[w]) = 1 /\ Head(outcomes'[w]) = a
    BY <1>4, <2>3, <2>4
  <2> QED
    BY <2>2, <2>4, <2>5
<1>8. UNCHANGED <<wstate, abandoned>>
  BY DEF Replies
<1>9. /\ UNCHANGED <<at, call, held, calls, wpool, idle>>
      /\ Ownership'
      /\ \A q \in Pools : /\ Settling(q)' = Settling(q)
                          /\ Engaged(q)' = Engaged(q) /\ Holders(q)' = Holders(q)
  BY <1>8, FrameFacts
<1>10. TypeOK'
  BY <1>5, <1>6, <1>7, <1>8, <1>9 DEF TypeOK, ThreadFrame
<1>11. Exchange'
  <2>1. Threads'
    <3> SUFFICES ASSUME NEW v \in Workers
                 PROVE  Threads!(v)'
      BY DEF Threads
    <3>1. CASE v = w
      <4>1. wstate[w] \notin {"unborn", "finished"}
        BY DEF Exchange, Threads, Working
      <4> QED
        BY <1>5, <1>6, <1>8, <3>1, <4>1 DEF Working
    <3>2. CASE v # w
      BY <1>5, <1>6, <1>7, <1>8, <3>2 DEF Exchange, Threads
    <3> QED
      BY <3>1, <3>2
  <2>2. ASSUME NEW d \in Callers, at'[d] \in Holding
        PROVE  Served(d, held[d])'
    <3>1. held[d] \in Workers /\ Served(d, held[d]) /\ held'[d] = held[d]
      BY <1>9, <2>2 DEF TypeOK, Ownership, Exchange
    <3>2. CASE d = c
      BY <1>2, <1>3, <1>5, <1>7, <1>8, <1>9, <3>2 DEF Served, Answered
    <3>3. CASE d # c
      BY <1>3, <1>5, <1>6, <1>7, <1>8, <1>9, <3>1, <3>3, ServedKept
    <3> QED
      BY <3>2, <3>3
  <2>3. ASSUME NEW q \in Pools, NEW v \in ToSet(idle'[q])
        PROVE  Parked(v)'
    <3>1. v \in Workers /\ Parked(v)
      BY <1>9, <2>3, ParkedIsWorker DEF Exchange
    <3>2. v # w
      BY <3>1 DEF Parked, Working
    <3> QED
      BY <1>5, <1>7, <1>8, <3>1, <3>2 DEF Parked
  <2> QED
    BY <2>1, <2>2, <2>3 DEF Exchange
<1>12. Accounts'
  <2>1. \A q \in Pools : Charged(q)' = Charged(q)
    BY <1>5, <1>8, <1>9 DEF Charged, Alive, Working
  <2> QED
    BY <1>8, <1>9, <2>1, SameAccounts
<1> QED
  BY <1>9, <1>10, <1>11, <1>12

(* However a thread ends, its account is settled: LiveCount::drop finds    *)
(* the thread running, and nobody counted it, or abandoned, and takes it   *)
(* off the counter exactly once.                                           *)
LEMMA ExitInv ==
    ASSUME Pooling, NEW w \in Workers, Alive(w), step[w] \in Working \/ ~Owned(w),
           Exit(w), ThreadFrame, UNCHANGED outcomes
    PROVE  Pooling'
<1> USE DEF Pooling
<1>1. /\ step' \in [Workers -> Working \cup {"recv", "gone"}]
      /\ step'[w] = "gone" /\ \A v \in Workers \ {w} : step'[v] = step[v]
  BY DEF Exit, TypeOK
<1>2. /\ jobs' \in [Workers -> Seq(Calls)]
      /\ jobs'[w] = <<>> /\ \A v \in Workers \ {w} : jobs'[v] = jobs[v]
  BY DEF Exit, TypeOK
<1>3. wstate[w] \in {"running", "abandoned"} /\ step[w] # "gone"
  BY DEF Alive, Exchange, Threads, TypeOK
<1>4. /\ wstate' \in [Workers -> {"unborn", "running", "abandoned", "finished"}]
      /\ wstate'[w] = IF wstate[w] = "running" THEN "finished" ELSE "abandoned"
      /\ \A v \in Workers \ {w} : wstate'[v] = wstate[v]
  BY <1>3 DEF Exit, TypeOK
<1>5. abandoned' \in [Pools -> Int]
  BY DEF Exit, TypeOK
<1>6. /\ UNCHANGED <<at, call, held, calls, wpool, idle>>
      /\ Ownership'
      /\ \A q \in Pools : /\ Settling(q)' = Settling(q)
                          /\ Engaged(q)' = Engaged(q) /\ Holders(q)' = Holders(q)
  <2>1. \A v \in Workers : wstate'[v] = "unborn" => wstate[v] = "unborn"
    BY <1>3, <1>4
  <2> QED
    BY <2>1, FrameFacts
<1>7. TypeOK'
  BY <1>1, <1>2, <1>4, <1>5, <1>6 DEF TypeOK, ThreadFrame
<1>8. Exchange'
  <2>1. Threads'
    <3> SUFFICES ASSUME NEW v \in Workers
                 PROVE  Threads!(v)'
      BY DEF Threads
    <3>1. CASE v = w
      BY <1>1, <1>2, <1>4, <3>1 DEF Working
    <3>2. CASE v # w
      BY <1>1, <1>2, <1>4, <3>2 DEF Exchange, Threads
    <3> QED
      BY <3>1, <3>2
  <2>2. ASSUME NEW d \in Callers, at'[d] \in Holding
        PROVE  Served(d, held[d])'
    <3>1. held[d] \in Workers /\ Served(d, held[d]) /\ held'[d] = held[d]
      BY <1>6, <2>2 DEF TypeOK, Ownership, Exchange
    <3>2. CASE held[d] = w
      <4>1. step[w] \in Working
        BY <3>2 DEF Owned
      <4>2. outcomes[w] = <<>> /\ (wstate[w] = "abandoned" <=> at[d] = "claimed")
        BY <3>1, <3>2, <4>1 DEF Served, AtWork, Answered, Lost, Working
      <4> QED
        BY <1>1, <1>3, <1>4, <1>6, <3>1, <3>2, <4>2 DEF Served, Lost
    <3>3. CASE held[d] # w
      BY <1>1, <1>2, <1>4, <1>6, <3>1, <3>3, ServedKept
    <3> QED
      BY <3>2, <3>3
  <2>3. ASSUME NEW q \in Pools, NEW v \in ToSet(idle'[q])
        PROVE  Parked(v)'
    <3>1. v \in Workers /\ Parked(v) /\ v \in ToSet(idle[q])
      BY <1>6, <2>3, ParkedIsWorker DEF Exchange
    <3>2. v # w
      BY <3>1 DEF Parked, Working, Owned
    <3> QED
      BY <1>1, <1>4, <3>1, <3>2 DEF Parked
  <2> QED
    BY <2>1, <2>2, <2>3 DEF Exchange
<1>9. CASE wstate[w] = "running"
  <2>1. \A q \in Pools : Charged(q)' = Charged(q)
    BY <1>1, <1>4, <1>6, <1>9 DEF Charged, Alive
  <2>2. UNCHANGED abandoned
    BY <1>9 DEF Exit
  <2>3. Accounts'
    BY <1>6, <2>1, <2>2, SameAccounts
  <2> QED
    BY <1>6, <1>7, <1>8, <2>3
<1>10. CASE wstate[w] = "abandoned"
  <2>1. PICK p \in Pools : p = wpool[w]
    BY DEF TypeOK
  <2>2. /\ abandoned'[p] = abandoned[p] - 1
        /\ \A q \in Pools \ {p} : abandoned'[q] = abandoned[q]
    BY <1>10, <2>1 DEF Exit, TypeOK
  <2>3. w \in Charged(p) /\ Charged(p)' = Charged(p) \ {w}
    BY <1>1, <1>4, <1>6, <1>10, <2>1 DEF Charged, Alive
  <2>4. \A q \in Pools \ {p} : Charged(q)' = Charged(q)
    BY <1>1, <1>4, <1>6, <2>1 DEF Charged, Alive
  <2>5. Account(p)'
    <3>1. /\ IsFiniteSet(Charged(p))
          /\ abandoned[p] = Cardinality(Charged(p)) - Cardinality(Settling(p))
          /\ Len(idle[p]) + Cardinality(Engaged(p)) <= Cardinality(Callers)
          /\ abandoned[p] + Len(idle[p]) + Cardinality(Holders(p))
               < MaxAbandoned + Cardinality(Callers)
      BY DEF Accounts, Account
    <3>2. /\ IsFiniteSet(Charged(p)')
          /\ Cardinality(Charged(p)') = Cardinality(Charged(p)) - 1
      BY <2>3, <3>1, CountChanges
    <3>3. /\ abandoned[p] \in Int /\ Len(idle[p]) \in Nat
          /\ MaxAbandoned \in Nat /\ Cardinality(Callers) \in Nat
          /\ Cardinality(Charged(p)) \in Nat /\ Cardinality(Settling(p)) \in Nat
          /\ Cardinality(Holders(p)) \in Nat
      BY CountTypes
    <3>4. abandoned'[p] = Cardinality(Charged(p)') - Cardinality(Settling(p))
      BY <2>2, <3>1, <3>2, <3>3
    <3>5. abandoned'[p] + Len(idle[p]) + Cardinality(Holders(p))
            < MaxAbandoned + Cardinality(Callers)
      BY <2>2, <3>1, <3>3, SMTT(30)
    <3> QED
      BY <1>6, <3>1, <3>2, <3>4, <3>5 DEF Account
  <2>6. \A q \in Pools \ {p} : Account(q)'
    BY <1>6, <2>2, <2>4 DEF Accounts, Account
  <2>7. Accounts'
    BY <2>5, <2>6 DEF Accounts
  <2> QED
    BY <1>6, <1>7, <1>8, <2>7
<1> QED
  BY <1>3, <1>9, <1>10

(* Sending an outcome is a reply or, with nobody to receive it, an end.    *)
LEMMA SendInv ==
    ASSUME Pooling, NEW w \in Workers, NEW version \in Nat, step[w] \in Working,
           Send(w, version), cache' \in [Keys -> Nat]
    PROVE  Pooling'
<1>1. Alive(w)
  BY DEF Pooling, Alive, Exchange, Threads, Working
<1>2. engine' \in [Workers -> Nat]
  <2>1. engine' = [engine EXCEPT ![w] = None]
    BY DEF Send, Exit
  <2> QED
    BY <2>1 DEF Pooling, TypeOK, None
<1>3. ThreadFrame
  BY <1>2 DEF Send, ThreadFrame
<1>4. CASE Owned(w)
  <2>1. Replies(w, version)
    BY <1>4 DEF Send, Replies
  <2> QED
    BY <1>3, <2>1, RepliesInv
<1>5. CASE ~Owned(w)
  <2>1. Exit(w) /\ UNCHANGED outcomes
    BY <1>5 DEF Send
  <2> QED
    BY <1>1, <1>3, <1>5, <2>1, ExitInv
<1> QED
  BY <1>4, <1>5

(* Every step of a thread keeps the invariant.                             *)
LEMMA ThreadStepInv ==
    ASSUME Pooling, NEW w \in Workers, ThreadStep(w)
    PROVE  Pooling'
<1>1. TypeOK /\ Exchange
  BY DEF Pooling
<1>2. CASE Lookup(w)
  <2>1. step[w] \in Working /\ Key(w) \in Keys
    BY <1>1, <1>2, JobFacts DEF Lookup, Working
  <2>2. ThreadFrame
    BY <1>1, <1>2, <2>1 DEF Lookup, ThreadFrame, cacheVars, TypeOK
  <2>3. PICK s \in Working : Goto(w, s)
    BY <1>2 DEF Lookup, Working
  <2>4. UNCHANGED outcomes
    BY <1>2 DEF Lookup
  <2> QED
    BY <2>1, <2>2, <2>3, <2>4, GotoInv
<1>3. CASE build_engine(w)
  <2>1. step[w] \in Working
    BY <1>3 DEF build_engine, Working
  <2>2. CASE Goto(w, "insert") /\ engine' = [engine EXCEPT ![w] = disk]
             /\ UNCHANGED <<callVars, wpool, outcomes, idle, cacheVars>>
    <3>1. ThreadFrame
      BY <1>1, <2>2 DEF ThreadFrame, cacheVars, TypeOK
    <3> QED
      BY <2>1, <2>2, <3>1, GotoInv DEF Working
  <2>3. CASE Send(w, None) /\ UNCHANGED cache
    BY <1>1, <2>1, <2>3, SendInv DEF TypeOK, None
  <2> QED
    BY <1>3, <2>2, <2>3 DEF build_engine
<1>4. CASE Insert(w)
  <2>1. step[w] \in Working /\ Key(w) \in Keys
    BY <1>1, <1>4, JobFacts DEF Insert, Working
  <2>2. cache' \in [Keys -> Nat]
    BY <1>1, <1>4, <2>1 DEF Insert, Prepared, TypeOK
  <2>3. ThreadFrame
    BY <1>1, <1>4, <2>2 DEF Insert, ThreadFrame, TypeOK
  <2> QED
    BY <1>4, <2>1, <2>3, GotoInv DEF Insert, Working
<1>5. CASE Run(w)
  <2>1. step[w] \in Working /\ Key(w) \in Keys
    BY <1>1, <1>5, JobFacts DEF Run, Working
  <2>2. cache' \in [Keys -> Nat]
    BY <1>1, <1>5, <2>1 DEF Run, Warmed, TypeOK
  <2>3. engine[w] \in Nat /\ None \in Nat
    BY <1>1 DEF TypeOK, None
  <2>4. Send(w, engine[w]) \/ Send(w, None)
    BY <1>5 DEF Run
  <2> QED
    BY <2>1, <2>2, <2>3, <2>4, SendInv
<1>6. CASE HangUp(w)
  <2>1. ThreadFrame
    BY <1>1, <1>6 DEF HangUp, Exit, ThreadFrame, cacheVars, TypeOK, None
  <2> QED
    BY <1>6, <2>1, ExitInv DEF HangUp
<1>7. CASE Panic(w)
  <2>1. ThreadFrame
    BY <1>1, <1>7 DEF Panic, Exit, ThreadFrame, cacheVars, TypeOK, None
  <2>2. step[w] \in Working /\ Alive(w)
    BY <1>1, <1>7 DEF Panic, Alive, Exchange, Threads, Working
  <2> QED
    BY <1>7, <2>1, <2>2, ExitInv DEF Panic
<1> QED
  BY <1>2, <1>3, <1>4, <1>5, <1>6, <1>7 DEF ThreadStep

-----------------------------------------------------------------------------
(* Versions                                                                *)

\* The part of Freshness that is about one thread.
FreshThread(w) ==
    /\ step[w] \in Working => Head(jobs[w]).floor <= floor
    /\ step[w] \in {"insert", "run"} => engine[w] >= floor

(* No step of a caller ages an engine: a job carries the floor its call    *)
(* saw, which the floor has not fallen below.                              *)
LEMMA CallerFresh ==
    ASSUME TypeOK, Ownership, Exchange, Freshness, NEW c \in Callers, CallerStep(c)
    PROVE  Freshness'
<1>1. UNCHANGED <<cache, disk, floor, engine>>
  BY DEF CallerStep, take_idle, spawn_worker, Receive, Disconnected, TimeOut, abandon,
         Charge, threadVars, cacheVars
<1>2. call' = call \/ call' = [call EXCEPT ![c] = NoCall]
  BY DEF CallerStep, take_idle, spawn_worker, Receive, Disconnected, TimeOut, abandon,
         Charge, Return
<1>3. floor \in Nat /\ disk \in Nat
  BY DEF TypeOK
<1>4. \A d \in Callers : call'[d].floor <= floor
  <2> SUFFICES ASSUME NEW d \in Callers
               PROVE  call'[d].floor <= floor
    OBVIOUS
  <2>1. call'[d] = call[d] \/ call'[d] = NoCall
    BY <1>2 DEF TypeOK
  <2>2. NoCall.floor = 0
    BY DEF NoCall
  <2> QED
    BY <1>3, <2>1, <2>2 DEF Freshness
<1>5. CASE UNCHANGED <<step, jobs>>
  BY <1>1, <1>4, <1>5 DEF Freshness
<1>6. CASE ~UNCHANGED <<step, jobs>>
  <2>1. PICK w \in Workers : SendJob(c, w) /\ step[w] = "recv"
    <3>1. CASE take_idle(c)
      <4>1. idle[call[c].pool] # <<>> /\ SendJob(c, Last(idle[call[c].pool]))
        BY <1>6, <3>1 DEF take_idle
      <4>2. call[c].pool \in Pools
        BY <3>1 DEF take_idle, Ownership, Calls
      <4>3. Last(idle[call[c].pool]) \in ToSet(idle[call[c].pool])
        <5>1. idle[call[c].pool] \in Seq(Workers) /\ IsInjective(idle[call[c].pool])
          BY <4>2 DEF Ownership, TypeOK
        <5> QED
          BY <4>1, <5>1, FrontDropsLast
      <4> QED
        BY <4>1, <4>2, <4>3, ParkedIsWorker DEF Exchange, Parked
    <3>2. CASE spawn_worker(c)
      BY <1>6, <3>2 DEF spawn_worker, threadVars, Exchange, Threads
    <3> QED
      BY <1>6, <3>1, <3>2 DEF CallerStep, Receive, Disconnected, TimeOut, abandon, Charge,
                              threadVars
  <2>2. jobs[w] = <<>> /\ jobs[w] \in Seq(Calls)
    BY <2>1 DEF Exchange, Threads, Working, TypeOK
  <2>3. at[c] \in {"taking", "spawning"} /\ call[c] \in Calls
    BY <1>6 DEF CallerStep, take_idle, spawn_worker, Receive, Disconnected, TimeOut,
                abandon, Charge, threadVars, Ownership
  <2>4. /\ jobs'[w] = Append(jobs[w], call[c]) /\ step'[w] = "lookup"
        /\ \A v \in Workers \ {w} : jobs'[v] = jobs[v] /\ step'[v] = step[v]
    BY <2>1 DEF SendJob, TypeOK
  <2>5. Head(jobs'[w]) = call[c]
    BY <2>2, <2>3, <2>4
  <2>6. \A v \in Workers : FreshThread(v)'
    <3> SUFFICES ASSUME NEW v \in Workers
                 PROVE  FreshThread(v)'
      OBVIOUS
    <3>1. CASE v = w
      BY <1>1, <2>4, <2>5, <3>1 DEF FreshThread, Freshness
    <3>2. CASE v # w
      BY <1>1, <2>4, <3>2 DEF FreshThread, Freshness
    <3> QED
      BY <3>1, <3>2
  <2> QED
    BY <1>1, <1>4, <2>6 DEF Freshness, FreshThread
<1> QED
  BY <1>5, <1>6

(* A thread's answer or end leaves it without a job.                       *)
LEMMA SendLeavesNoJob ==
    ASSUME TypeOK, Exchange, NEW w \in Workers, NEW version, step[w] \in Working, Send(w, version)
    PROVE  /\ step'[w] \notin Working
           /\ \A v \in Workers \ {w} : /\ step'[v] = step[v] /\ jobs'[v] = jobs[v]
                                       /\ engine'[v] = engine[v]
           /\ UNCHANGED <<call, disk, floor>>
<1>1. Len(jobs[w]) = 1
  BY JobFacts
<1>2. step'[w] \notin Working
  BY <1>1 DEF Send, Exit, TypeOK, Working
<1>3. \A v \in Workers \ {w} : /\ step'[v] = step[v] /\ jobs'[v] = jobs[v]
                               /\ engine'[v] = engine[v]
  BY DEF Send, Exit, TypeOK
<1> QED
  BY <1>2, <1>3 DEF Send, callVars

(* No step of a thread ages an engine: it reads the disk, which is never   *)
(* below the floor, or the cache, and caches what it has read so.          *)
LEMMA ThreadFresh ==
    ASSUME TypeOK, Exchange, Freshness, NEW w \in Workers, ThreadStep(w)
    PROVE  Freshness'
<1>1. floor \in Nat /\ disk \in Nat /\ floor <= disk
  BY DEF TypeOK, Freshness
<1>2. ASSUME UNCHANGED <<call, disk, floor>>,
             \A v \in Workers \ {w} : /\ step'[v] = step[v] /\ jobs'[v] = jobs[v]
                                      /\ engine'[v] = engine[v],
             FreshThread(w)',
             \A k \in Keys : cache'[k] # None => cache'[k] >= floor
      PROVE  Freshness'
  <2>1. \A v \in Workers : FreshThread(v)'
    BY <1>2 DEF Freshness, FreshThread
  <2> QED
    BY <1>2, <2>1 DEF Freshness, FreshThread
<1>3. CASE Lookup(w)
  <2>1. Key(w) \in Keys
    BY <1>3, JobFacts DEF Lookup, Working
  <2>2. /\ step'[w] = IF cache[Key(w)] # None THEN "run" ELSE "load"
        /\ engine'[w] = cache[Key(w)]
        /\ \A v \in Workers \ {w} : step'[v] = step[v] /\ engine'[v] = engine[v]
        /\ UNCHANGED <<call, jobs, cache, disk, floor>>
    BY <1>3 DEF Lookup, Goto, TypeOK, callVars, cacheVars
  <2>3. FreshThread(w)'
    BY <1>3, <2>1, <2>2 DEF FreshThread, Freshness, Lookup, Working
  <2> QED
    BY <1>2, <2>2, <2>3 DEF Freshness
<1>4. CASE build_engine(w)
  <2>1. CASE Goto(w, "insert") /\ engine' = [engine EXCEPT ![w] = disk]
             /\ UNCHANGED <<callVars, wpool, outcomes, idle, cacheVars>>
    <3>1. /\ step'[w] = "insert" /\ engine'[w] = disk
          /\ \A v \in Workers \ {w} : step'[v] = step[v] /\ engine'[v] = engine[v]
          /\ UNCHANGED <<call, jobs, cache, disk, floor>>
      BY <2>1 DEF Goto, TypeOK, callVars, cacheVars
    <3>2. FreshThread(w)'
      BY <1>1, <1>4, <3>1 DEF FreshThread, Freshness, build_engine, Working
    <3> QED
      BY <1>2, <3>1, <3>2 DEF Freshness
  <2>2. CASE Send(w, None) /\ UNCHANGED cache
    <3>1. step[w] \in Working
      BY <1>4 DEF build_engine, Working
    <3>2. FreshThread(w)'
      BY <2>2, <3>1, SendLeavesNoJob DEF FreshThread, Working
    <3> QED
      BY <1>2, <2>2, <3>1, <3>2, SendLeavesNoJob DEF Freshness
  <2> QED
    BY <1>4, <2>1, <2>2 DEF build_engine
<1>5. CASE Insert(w)
  <2>1. Key(w) \in Keys
    BY <1>5, JobFacts DEF Insert, Working
  <2>2. /\ step'[w] = "run"
        /\ \A v \in Workers \ {w} : step'[v] = step[v]
        /\ UNCHANGED <<call, jobs, engine, disk, floor>>
    BY <1>5 DEF Insert, Goto, TypeOK, callVars
  <2>3. engine[w] >= floor
    BY <1>5 DEF Insert, Freshness
  <2>4. \A k \in Keys : cache'[k] # None => cache'[k] >= floor
    BY <1>5, <2>1, <2>3 DEF Insert, Prepared, Freshness, TypeOK
  <2>5. FreshThread(w)'
    BY <1>5, <2>2, <2>3 DEF FreshThread, Freshness, Insert, Working
  <2> QED
    BY <1>2, <2>2, <2>4, <2>5
<1>6. CASE Run(w)
  <2>1. step[w] \in Working /\ Key(w) \in Keys /\ engine[w] >= floor
    BY <1>6, JobFacts DEF Run, Working, Freshness
  <2>2. PICK version : Send(w, version)
    BY <1>6 DEF Run
  <2>3. \A k \in Keys : cache'[k] # None => cache'[k] >= floor
    BY <1>6, <2>1 DEF Run, Warmed, Freshness, TypeOK
  <2>4. FreshThread(w)'
    BY <2>1, <2>2, SendLeavesNoJob DEF FreshThread, Working
  <2> QED
    BY <1>2, <2>1, <2>2, <2>3, <2>4, SendLeavesNoJob
<1>7. CASE HangUp(w) \/ Panic(w)
  <2>1. /\ step'[w] = "gone"
        /\ \A v \in Workers \ {w} : /\ step'[v] = step[v] /\ jobs'[v] = jobs[v]
                                    /\ engine'[v] = engine[v]
        /\ UNCHANGED <<call, cache, disk, floor>>
    BY <1>7 DEF HangUp, Panic, Exit, TypeOK, callVars, cacheVars
  <2>2. FreshThread(w)'
    BY <2>1 DEF FreshThread, Working
  <2> QED
    BY <1>2, <2>1, <2>2 DEF Freshness
<1> QED
  BY <1>3, <1>4, <1>5, <1>6, <1>7 DEF ThreadStep

(* Every step keeps the invariant: a clear raises the floor only when no   *)
(* load is between the disk and the cache, and an edit raises the disk.    *)
LEMMA NextInv == Inv /\ [Next]_vars => Inv'
<1> SUFFICES ASSUME Inv, [Next]_vars
             PROVE  Inv'
  OBVIOUS
<1>1. Pooling /\ TypeOK /\ Ownership /\ Exchange /\ Accounts /\ Freshness
  BY DEF Inv, Pooling
<1>2. ASSUME Pooling', Freshness'
      PROVE  Inv'
  BY <1>2 DEF Inv, Pooling
<1>3. ASSUME UNCHANGED <<callVars, threadVars, idle, abandoned>>, cache' \in [Keys -> Nat],
             disk' \in Nat \ {0}, floor' \in Nat \ {0}
      PROVE  Pooling'
  <2>1. UNCHANGED <<at, call, held, calls, wstate, step, wpool, jobs, outcomes, engine>>
    BY <1>3 DEF callVars, threadVars
  <2>2. TypeOK'
    BY <1>1, <1>3, <2>1 DEF TypeOK
  <2>3. Ownership'
    BY <1>1, <1>3, <2>1 DEF Ownership
  <2>4. Exchange'
    BY <1>1, <1>3, <2>1 DEF Exchange, Threads, Served, AtWork, Answered, Lost, Parked
  <2>5. Accounts'
    <3>1. \A q \in Pools : /\ Charged(q)' = Charged(q) /\ Settling(q)' = Settling(q)
                           /\ Engaged(q)' = Engaged(q) /\ Holders(q)' = Holders(q)
      BY <2>1 DEF Charged, Settling, Engaged, Holders, Alive
    <3> QED
      BY <1>1, <1>3, <3>1, SameAccounts
  <2> QED
    BY <2>2, <2>3, <2>4, <2>5 DEF Pooling
<1>4. ASSUME NEW c \in Callers, NEW p \in Pools, NEW k \in Keys, Begin(c, p, k)
      PROVE  Inv'
  <2>1. Pooling'
    BY <1>1, <1>4, BeginInv
  <2>2. /\ UNCHANGED <<step, jobs, engine, cache, disk, floor>>
        /\ call'[c].floor = floor /\ \A d \in Callers \ {c} : call'[d] = call[d]
        /\ floor \in Nat
    BY <1>1, <1>4 DEF Begin, threadVars, cacheVars, TypeOK
  <2>3. \A d \in Callers : call'[d].floor <= floor
    BY <1>1, <2>2 DEF Freshness
  <2>4. Freshness'
    BY <1>1, <2>2, <2>3 DEF Freshness
  <2> QED
    BY <1>2, <2>1, <2>4
<1>5. ASSUME NEW c \in Callers, CallerStep(c)
      PROVE  Inv'
  <2>1. Pooling'
    BY <1>1, <1>5, TakeIdleInv, SpawnInv, ReceiveInv, DisconnectedInv, TimeOutInv,
       AbandonInv, ChargeInv DEF CallerStep
  <2> QED
    BY <1>1, <1>2, <1>5, <2>1, CallerFresh
<1>6. ASSUME NEW w \in Workers, ThreadStep(w)
      PROVE  Inv'
  BY <1>1, <1>2, <1>6, ThreadStepInv, ThreadFresh
<1>7. CASE clear_policy_cache
  <2>1. /\ cache' = [k \in Keys |-> None]
        /\ floor' = IF LoadInFlight THEN floor ELSE disk
        /\ UNCHANGED <<callVars, threadVars, idle, abandoned, disk>>
    BY <1>7 DEF clear_policy_cache
  <2>2. floor \in Nat /\ disk \in Nat /\ floor <= disk /\ floor' \in Nat \ {0}
    BY <1>1, <2>1 DEF TypeOK, Freshness
  <2>3. Pooling'
    BY <1>1, <1>3, <2>1, <2>2 DEF TypeOK, None
  <2>4. floor <= floor' /\ floor' <= disk'
    BY <2>1, <2>2
  <2>5. UNCHANGED <<call, step, jobs, engine>>
    BY <2>1 DEF callVars, threadVars
  <2>6. \A c \in Callers : call[c].floor <= floor'
    <3> SUFFICES ASSUME NEW c \in Callers
                 PROVE  call[c].floor <= floor'
      OBVIOUS
    <3>1. call[c].floor \in Nat /\ call[c].floor <= floor
      BY <1>1 DEF TypeOK, Calls, NoCall, Freshness
    <3> QED
      BY <2>2, <2>4, <3>1
  <2>7. ASSUME NEW w \in Workers
        PROVE  FreshThread(w)'
    <3>1. step[w] \in Working => Head(jobs[w]).floor \in Nat /\ Head(jobs[w]).floor <= floor
      BY <1>1, JobFacts DEF Freshness, Calls
    <3>2. step[w] \in {"insert", "run"} => engine[w] >= floor'
      BY <1>1, <2>1 DEF LoadInFlight, Freshness
    <3> QED
      BY <2>2, <2>4, <2>5, <3>1, <3>2 DEF FreshThread
  <2>8. Freshness'
    BY <2>1, <2>4, <2>5, <2>6, <2>7 DEF Freshness, FreshThread
  <2> QED
    BY <1>2, <2>3, <2>8
<1>8. CASE EditPolicy
  <2>1. disk' = disk + 1 /\ UNCHANGED <<callVars, threadVars, idle, abandoned, cache, floor>>
    BY <1>8 DEF EditPolicy
  <2>2. Pooling'
    BY <1>1, <1>3, <2>1 DEF TypeOK
  <2>3. floor' <= disk'
    BY <1>1, <2>1 DEF TypeOK, Freshness
  <2>4. Freshness'
    BY <1>1, <2>1, <2>3 DEF Freshness, callVars, threadVars
  <2> QED
    BY <1>2, <2>2, <2>4
<1>9. CASE UNCHANGED vars
  <2>1. UNCHANGED <<callVars, threadVars, idle, abandoned, cacheVars>>
    BY <1>9 DEF vars
  <2>2. Pooling'
    BY <1>1, <1>3, <2>1 DEF TypeOK, cacheVars
  <2>3. Freshness'
    BY <1>1, <2>1 DEF Freshness, callVars, threadVars, cacheVars
  <2> QED
    BY <1>2, <2>2, <2>3
<1> QED
  BY <1>4, <1>5, <1>6, <1>7, <1>8, <1>9 DEF Next

(* The inductive invariant holds in every behaviour of a runner.           *)
THEOREM Invariance == Spec => []Inv
BY InitInv, NextInv, PTL DEF Spec

-----------------------------------------------------------------------------
(* What the invariant gives                                                *)

(* The counter of abandoned threads is exact up to the callers about to    *)
(* count one, and the threads that run unattended stay below the limit     *)
(* plus the number of callers, whatever the races of deadlines, answers,   *)
(* panics and parked threads (WorkerState::abandon, LiveCount::drop).      *)
THEOREM BacklogSafety == Spec => []BacklogIsExact
<1>1. Inv => BacklogIsExact
  <2> SUFFICES ASSUME Inv, NEW p \in Pools
               PROVE  /\ abandoned[p] = Cardinality(Charged(p)) - Cardinality(Settling(p))
                      /\ Cardinality(Charged(p)) < MaxAbandoned + Cardinality(Callers)
    BY DEF BacklogIsExact, ExactAccounting, BacklogConverges
  <2>1. /\ abandoned[p] = Cardinality(Charged(p)) - Cardinality(Settling(p))
        /\ abandoned[p] + Len(idle[p]) + Cardinality(Holders(p))
             < MaxAbandoned + Cardinality(Callers)
    BY DEF Inv, Accounts, Account
  <2>2. /\ abandoned[p] \in Int /\ Len(idle[p]) \in Nat
        /\ MaxAbandoned \in Nat /\ Cardinality(Callers) \in Nat
        /\ Cardinality(Charged(p)) \in Nat /\ Cardinality(Settling(p)) \in Nat
        /\ Cardinality(Holders(p)) \in Nat
    BY CountTypes DEF Inv
  <2>3. Settling(p) \subseteq Holders(p) /\ IsFiniteSet(Holders(p))
    BY CallersAreCounted DEF Settling, Holders, Holding
  <2>4. Cardinality(Settling(p)) <= Cardinality(Holders(p))
    BY <2>3, FS_Subset
  <2> QED
    BY <2>1, <2>2, <2>4, SMTT(30)
<1> QED
  BY <1>1, Invariance, PTL

(* An answer belongs to the call that receives it: no thread is handed on  *)
(* while it owes an answer (release, run_with_deadline).                   *)
THEOREM AnswerSafety == Spec => []AnswersAreOwn
<1>1. Inv => AnswersAreOwn
  <2> SUFFICES ASSUME Inv, NEW c \in Callers, at[c] = "waiting", outcomes[held[c]] # <<>>
               PROVE  Head(outcomes[held[c]]).id = call[c].id
    BY DEF AnswersAreOwn
  <2>1. Served(c, held[c])
    BY DEF Inv, Exchange, Holding
  <2> QED
    BY <2>1 DEF Served, AtWork, Answered, Lost
<1> QED
  BY <1>1, Invariance, PTL

(* A cleared cache stays cleared: no call begun after a clear that no load *)
(* was running across decides by older files (clear_policy_cache).         *)
THEOREM ClearSafety == Spec => []ClearIsEffective
<1>1. Inv => ClearIsEffective
  <2> SUFFICES ASSUME Inv, NEW w \in Workers, step[w] \in {"insert", "run"}
               PROVE  engine[w] >= Head(jobs[w]).floor
    BY DEF ClearIsEffective
  <2>1. engine[w] >= floor /\ Head(jobs[w]).floor <= floor
    BY DEF Inv, Freshness, Working
  <2>2. Head(jobs[w]) \in Calls
    BY JobFacts DEF Inv, Working
  <2>3. engine[w] \in Nat /\ floor \in Nat /\ Head(jobs[w]).floor \in Nat
    BY <2>2 DEF Inv, TypeOK, Calls
  <2> QED
    BY <2>1, <2>3
<1> QED
  BY <1>1, Invariance, PTL


-----------------------------------------------------------------------------
(* Where an invocation's paths and query come from (PolicySources)         *)

\* Once a manifest was accepted, the invocation is what its loaded parts prepare.
SourcesInv ==
    /\ source \in ManifestSources
    /\ \/ phase \in {"loading", "refused"}
       \/ /\ Accepted(source)
          /\ invocation = prepare_policy_invocation(LoadedPolicy(source), LoadedBinding(source))
          /\ phase # "unprepared"
          /\ phase \in {"regorus", "opa", "cedar"} => invocation.type \in {"rego", "cedar"}

(* What resolving does to a Rego policy, and to a Cedar policy.            *)
LEMMA RegoResolves ==
    ASSUME NEW p, p.type = "rego"
    PROVE  resolve_relative_paths(p) =
             [p EXCEPT !.bundle = resolve_relative_string(@),
                       !.adapter_config = resolve_adapter_config_paths(@)]
BY Zenon DEF resolve_relative_paths

LEMMA CedarResolves ==
    ASSUME NEW p, p.type = "cedar"
    PROVE  resolve_relative_paths(p) =
             [p EXCEPT !.policy_path = resolve_relative_string(@),
                       !.entities_path = resolve_relative_string(@),
                       !.schema_path = resolve_relative_string(@)]
<1>1. p.type # "rego" BY SMT
<1> QED BY <1>1, Zenon DEF resolve_relative_paths

LEMMA OtherResolves ==
    ASSUME NEW p, p.type \notin {"rego", "cedar"}
    PROVE  resolve_relative_paths(p) =
             [p EXCEPT !.adapter_config = resolve_adapter_config_paths(@)]
<1>1. p.type # "rego" /\ p.type # "cedar" BY Zenon
<1> QED BY <1>1, Zenon DEF resolve_relative_paths

\* Adapter configurations and policies once paths may have been resolved.
LoadedAdapters ==
    [data : DataValues, data_paths : DataValues, bundle_url : {Absent, "pinned", "malformed"},
     cedar_field : BOOLEAN]
LoadedPolicies ==
    [type : {"rego", "cedar", "test", "custom"}, query : Queries, bundle : PathValues, inline : BOOLEAN,
     adapter_config : LoadedAdapters, policy_set : {Absent, "text", "empty", "blank"},
     policy_path : PathValues, entities_path : PathValues, schema_path : PathValues,
     adapter : {"named", "blank"}]

(* A resolved string is a path, and a resolved map a map of paths.         *)
LEMMA StringResolves ==
    ASSUME NEW p \in DataValues
    PROVE  /\ resolve_relative_string(p) \in DataValues \ {"rel"}
           /\ p \in PathValues => resolve_relative_string(p) \in PathValues
BY DEF resolve_relative_string, DataValues, PathValues, Absent

LEMMA AdapterResolves ==
    ASSUME NEW a \in AdapterConfigs
    PROVE  /\ a \in LoadedAdapters
           /\ resolve_adapter_config_paths(a) \in LoadedAdapters
           /\ resolve_adapter_config_paths(a).data = resolve_relative_string(a.data)
           /\ resolve_adapter_config_paths(a).data_paths = resolve_relative_string(a.data_paths)
BY StringResolves DEF resolve_adapter_config_paths, AdapterConfigs, LoadedAdapters

(* Loading changes neither the type nor the query of a policy or a binding. *)
LEMMA LoadedKeeps ==
    ASSUME NEW s \in ManifestSources
    PROVE  /\ LoadedPolicy(s) \in LoadedPolicies
           /\ LoadedPolicy(s).type = s.policy.type
           /\ LoadedPolicy(s).query = s.policy.query
           /\ LoadedBinding(s).adapter_config \in LoadedAdapters
           /\ LoadedBinding(s).query = s.binding.query
<1> DEFINE p == s.policy
           Same(q) == q \in LoadedPolicies /\ q.type = p.type /\ q.query = p.query
<1>0. p \in PolicyConfigs /\ s.binding \in PolicyBindings
  BY DEF ManifestSources
<1>a. p.adapter_config \in AdapterConfigs /\ s.binding.adapter_config \in AdapterConfigs
  BY <1>0 DEF PolicyConfigs, PolicyBindings
<1>b. Written \subseteq PathValues /\ PathValues \subseteq DataValues
  BY DEF Written, DataValues
<1>p. Same(p)
  BY <1>0, <1>a, <1>b, AdapterResolves DEF PolicyConfigs, LoadedPolicies
<1>1. /\ LoadedBinding(s).adapter_config \in LoadedAdapters
      /\ LoadedBinding(s).query = s.binding.query
  BY <1>0, <1>a, AdapterResolves DEF LoadedBinding, ResolvedBinding, PolicyBindings
<1>2. Same(resolve_relative_paths(p))
  <2>r. resolve_adapter_config_paths(p.adapter_config) \in LoadedAdapters
    BY <1>a, AdapterResolves
  <2>s. \A path \in PathValues : resolve_relative_string(path) \in PathValues
    BY <1>b, StringResolves
  <2>1. CASE p.type = "rego"
    <3> DEFINE q == [p EXCEPT !.bundle = resolve_relative_string(@),
                              !.adapter_config = resolve_adapter_config_paths(@)]
    <3>1. resolve_relative_paths(p) = q
      BY <2>1, RegoResolves
    <3>2. resolve_relative_string(p.bundle) \in PathValues
      BY <1>p, <2>s DEF LoadedPolicies
    <3>3. Same(q)
      BY <1>p, <2>r, <3>2 DEF LoadedPolicies
    <3> QED BY <3>1, <3>3
  <2>2. CASE p.type = "cedar"
    <3> DEFINE q == [p EXCEPT !.policy_path = resolve_relative_string(@),
                              !.entities_path = resolve_relative_string(@),
                              !.schema_path = resolve_relative_string(@)]
    <3>1. resolve_relative_paths(p) = q
      BY <2>2, CedarResolves
    <3>2. \A path \in {p.policy_path, p.entities_path, p.schema_path} :
            resolve_relative_string(path) \in PathValues
      BY <1>p, <2>s DEF LoadedPolicies
    <3>3. Same(q)
      BY <1>p, <3>2 DEF LoadedPolicies
    <3> QED BY <3>1, <3>3
  <2>3. CASE p.type \notin {"rego", "cedar"}
    BY <1>p, <2>3, <2>r, OtherResolves DEF LoadedPolicies
  <2> QED BY <2>1, <2>2, <2>3
<1>3. Same(set_rego_bundle_in_memory(p))
  <2>1. [p.adapter_config EXCEPT !.bundle_url = Absent] \in LoadedAdapters
    BY <1>a DEF AdapterConfigs, LoadedAdapters
  <2> QED BY <1>p, <2>1 DEF set_rego_bundle_in_memory, LoadedPolicies, PathValues
<1> QED BY <1>1, <1>2, <1>3, <1>p DEF LoadedPolicy, Resolved

(* A dispatcher hands Rego backends and Cedar only policies of their type. *)
LEMMA RoutesByType ==
    ASSUME NEW kind, NEW p, route(kind, p) \in {"regorus", "opa", "cedar"}
    PROVE  p.type \in {"rego", "cedar"}
<1> SUFFICES ASSUME p.type # "rego", p.type # "cedar" PROVE FALSE
  BY Zenon
<1>1. route(kind, p) \in {"literal", "error"}
  BY Zenon DEF route
<1> QED BY <1>1

(* The type of an invocation is its policy's, and so is the query unless   *)
(* the binding of a Rego policy has one.                                   *)
LEMMA PreparedFields ==
    ASSUME NEW s \in ManifestSources
    PROVE  LET p == LoadedPolicy(s)
               i == prepare_policy_invocation(p, LoadedBinding(s))
           IN  /\ i.type = p.type
               /\ p.type = "rego" =>
                    /\ i.query = IF s.binding.query # Absent THEN s.binding.query ELSE s.policy.query
                    /\ i.bundle = p.bundle
                    /\ i.adapter_config =
                         merge_adapter_config(p.adapter_config, LoadedBinding(s).adapter_config)
               /\ p.type = "cedar" =>
                    /\ i.policy_path = p.policy_path
                    /\ i.entities_path = p.entities_path
                    /\ i.schema_path = p.schema_path
<1>1. LoadedPolicy(s) \in LoadedPolicies /\ LoadedPolicy(s).query = s.policy.query
      /\ LoadedBinding(s).query = s.binding.query
  BY LoadedKeeps
<1> QED BY <1>1 DEF prepare_policy_invocation, LoadedPolicies


(* What a merged map opens, one of the two maps opens.                     *)
LEMMA MergedPaths ==
    ASSUME NEW a \in LoadedAdapters, NEW b \in LoadedAdapters
    PROVE  rego_adapter_data_paths(merge_adapter_config(a, b))
             \subseteq rego_adapter_data_paths(a) \cup rego_adapter_data_paths(b)
BY DEF rego_adapter_data_paths, merge_adapter_config, LoadedAdapters

(* A resolved map opens no relative path.                                  *)
LEMMA NoneRelative ==
    ASSUME NEW a \in AdapterConfigs
    PROVE  "rel" \notin rego_adapter_data_paths(resolve_adapter_config_paths(a))
<1>1. a.data \in DataValues /\ a.data_paths \in DataValues
  BY DEF AdapterConfigs
<1> QED BY <1>1, StringResolves, AdapterResolves DEF rego_adapter_data_paths

(* The gates on a fetched policy: a Rego policy that passes has no path    *)
(* and asks for a rule, a Cedar policy has no path.                        *)
LEMMA RegoPolicyGate ==
    ASSUME NEW p, p.type = "rego", NEW from \in Fetched, ~document_refused(from, p, NoBinding)
    PROVE  /\ p.bundle = Absent
           /\ rego_adapter_data_paths(p.adapter_config) = {}
           /\ p.query \in {Absent, "rule"}
<1>1. ~reject_filesystem_path_fields(p) /\ ~reject_non_rule_query(p)
  BY Zenon DEF document_refused
<1>2. p.bundle = Absent /\ ~reject_adapter_data_paths(p.adapter_config)
  BY <1>1, Zenon DEF reject_filesystem_path_fields
<1>3. p.query \in {Absent, "rule"}
  BY <1>1, Zenon DEF reject_non_rule_query
<1> QED BY <1>2, <1>3 DEF reject_adapter_data_paths, rego_adapter_data_paths

LEMMA CedarPolicyGate ==
    ASSUME NEW p, p.type = "cedar", NEW from \in Fetched, ~document_refused(from, p, NoBinding)
    PROVE  p.policy_path = Absent /\ p.entities_path = Absent /\ p.schema_path = Absent
<1>1. ~reject_filesystem_path_fields(p)
  BY Zenon DEF document_refused
<1>2. p.type # "rego"
  BY SMT
<1>3. ~\E path \in {p.policy_path, p.entities_path, p.schema_path} : path # Absent
  BY <1>1, <1>2, Zenon DEF reject_filesystem_path_fields
<1> QED BY <1>3

(* The gate on a fetched binding.                                          *)
LEMMA BindingGate ==
    ASSUME NEW b, NEW bound \in Fetched, ~document_refused(bound, NoPolicy, b)
    PROVE  rego_adapter_data_paths(b.adapter_config) = {} /\ b.query \in {Absent, "rule"}
<1>1. ~reject_adapter_data_paths(b.adapter_config) /\ b.query \in {Absent, "rule"}
  BY Zenon DEF document_refused
<1> QED BY <1>1 DEF reject_adapter_data_paths, rego_adapter_data_paths

(* What the host chose to be opened (SourcesAreTheHosts).                  *)
Chosen(s) ==
    (IF s.from = "file" THEN OpenedPaths(resolve_relative_paths(s.policy)) ELSE {})
      \cup (IF s.bound = "file"
            THEN rego_adapter_data_paths(resolve_adapter_config_paths(s.binding.adapter_config))
            ELSE {})

(* A chain's accepted Rego manifest opens what the host chose, and a query *)
(* of a fetched document is a rule's name.                                 *)
LEMMA RegoIsTheHosts ==
    ASSUME NEW s \in ManifestSources, s.from # "memory", s.policy.type = "rego", Accepted(s)
    PROVE  LET i == prepare_policy_invocation(LoadedPolicy(s), LoadedBinding(s))
           IN  /\ OpenedPaths(i) \subseteq Chosen(s) \ {"rel"}
               /\ (IF s.binding.query # Absent THEN s.bound ELSE s.from) \in Fetched =>
                    i.query = "rule"
<1> DEFINE p == LoadedPolicy(s)
           b == LoadedBinding(s)
           i == prepare_policy_invocation(p, b)
<1>0. /\ s.policy \in PolicyConfigs /\ s.binding \in PolicyBindings
      /\ s.from \in {"file"} \cup Fetched /\ s.bound \in {"file"} \cup Fetched
  BY DEF ManifestSources, Origins, Fetched
<1>1. /\ ~document_refused(s.from, s.policy, NoBinding)
      /\ ~document_refused(s.bound, NoPolicy, s.binding)
      /\ validate_policy_binding(p, b)
  BY Zenon DEF Accepted
<1>2. /\ p \in LoadedPolicies /\ p.type = "rego" /\ p.query = s.policy.query
      /\ b.adapter_config \in LoadedAdapters /\ b.query = s.binding.query
  BY LoadedKeeps
<1>3. /\ i.type = "rego" /\ i.bundle = p.bundle
      /\ i.query = IF s.binding.query # Absent THEN s.binding.query ELSE s.policy.query
      /\ i.adapter_config = merge_adapter_config(p.adapter_config, b.adapter_config)
  BY <1>2, PreparedFields
<1>4. OpenedPaths(i) \subseteq ({p.bundle} \cup rego_adapter_data_paths(p.adapter_config)
                                \cup rego_adapter_data_paths(b.adapter_config)) \ {Absent}
  <2>1. p.adapter_config \in LoadedAdapters
    BY <1>2 DEF LoadedPolicies
  <2>2. OpenedPaths(i) = ({p.bundle} \cup rego_adapter_data_paths(
                            merge_adapter_config(p.adapter_config, b.adapter_config))) \ {Absent}
    BY <1>3 DEF OpenedPaths
  <2> QED BY <1>2, <2>1, <2>2, MergedPaths
<1>5. ({p.bundle} \cup rego_adapter_data_paths(p.adapter_config)) \ {Absent} \subseteq Chosen(s) \ {"rel"}
  <2>1. CASE s.from = "file"
    <3> DEFINE r == [s.policy EXCEPT !.bundle = resolve_relative_string(@),
                                     !.adapter_config = resolve_adapter_config_paths(@)]
    <3>1. p = r /\ resolve_relative_paths(s.policy) = r
      BY <2>1, RegoResolves DEF LoadedPolicy, Resolved
    <3>2. s.policy.adapter_config \in AdapterConfigs /\ s.policy.bundle \in DataValues
      BY <1>0 DEF PolicyConfigs, Written, DataValues
    <3>3. /\ r.type = "rego" /\ r.bundle = resolve_relative_string(s.policy.bundle)
          /\ r.adapter_config = resolve_adapter_config_paths(s.policy.adapter_config)
      BY <1>0 DEF PolicyConfigs
    <3>4. r.bundle # "rel" /\ "rel" \notin rego_adapter_data_paths(r.adapter_config)
      BY <3>2, <3>3, StringResolves, NoneRelative
    <3>5. OpenedPaths(r) = ({r.bundle} \cup rego_adapter_data_paths(r.adapter_config)) \ {Absent}
      BY <3>3 DEF OpenedPaths
    <3> QED BY <2>1, <3>1, <3>4, <3>5 DEF Chosen
  <2>2. CASE s.from \in Fetched
    <3>1. p = s.policy
      BY <2>2 DEF LoadedPolicy, Resolved, Fetched
    <3> QED BY <1>1, <2>2, <3>1, RegoPolicyGate
  <2> QED BY <1>0, <2>1, <2>2
<1>6. rego_adapter_data_paths(b.adapter_config) \subseteq Chosen(s) \ {"rel"}
  <2>1. s.binding.adapter_config \in AdapterConfigs
    BY <1>0 DEF PolicyBindings
  <2>2. CASE s.bound = "file"
    <3>1. b.adapter_config = resolve_adapter_config_paths(s.binding.adapter_config)
      BY <1>0, <2>2 DEF LoadedBinding, ResolvedBinding, PolicyBindings
    <3> QED BY <2>1, <2>2, <3>1, NoneRelative DEF Chosen
  <2>3. CASE s.bound \in Fetched
    <3>1. b = s.binding
      BY <2>3 DEF LoadedBinding, ResolvedBinding, Fetched
    <3> QED BY <1>1, <2>3, <3>1, BindingGate
  <2> QED BY <1>0, <2>2, <2>3
<1>7. ASSUME (IF s.binding.query # Absent THEN s.bound ELSE s.from) \in Fetched
      PROVE  i.query = "rule"
  <2>1. CASE s.binding.query # Absent
    BY <1>1, <1>3, <1>7, <2>1, BindingGate
  <2>2. CASE s.binding.query = Absent
    <3>1. s.policy.query # Absent
      BY <1>1, <1>2, <2>2 DEF validate_policy_binding
    <3> QED BY <1>1, <1>3, <1>7, <2>2, <3>1, RegoPolicyGate
  <2> QED BY <2>1, <2>2
<1> QED BY <1>4, <1>5, <1>6, <1>7

(* A chain's accepted Cedar manifest opens what the host chose.            *)
LEMMA CedarIsTheHosts ==
    ASSUME NEW s \in ManifestSources, s.from # "memory", s.policy.type = "cedar", Accepted(s)
    PROVE  OpenedPaths(prepare_policy_invocation(LoadedPolicy(s), LoadedBinding(s)))
             \subseteq Chosen(s) \ {"rel"}
<1> DEFINE p == LoadedPolicy(s)
           i == prepare_policy_invocation(p, LoadedBinding(s))
           Paths(q) == {q.policy_path, q.entities_path, q.schema_path} \ {Absent}
<1>0. s.policy \in PolicyConfigs /\ s.from \in {"file"} \cup Fetched
  BY DEF ManifestSources, Origins, Fetched
<1>1. ~document_refused(s.from, s.policy, NoBinding)
  BY Zenon DEF Accepted
<1>2. p.type = "cedar"
  BY LoadedKeeps
<1>3. OpenedPaths(i) = Paths(p)
  <2>1. /\ i.type = "cedar" /\ i.policy_path = p.policy_path
        /\ i.entities_path = p.entities_path /\ i.schema_path = p.schema_path
    BY <1>2, PreparedFields
  <2> QED BY <2>1 DEF OpenedPaths
<1>4. CASE s.from = "file"
  <2> DEFINE r == [s.policy EXCEPT !.policy_path = resolve_relative_string(@),
                                   !.entities_path = resolve_relative_string(@),
                                   !.schema_path = resolve_relative_string(@)]
  <2>1. p = r /\ resolve_relative_paths(s.policy) = r
    BY <1>4, CedarResolves DEF LoadedPolicy, Resolved
  <2>2. /\ r.type = "cedar" /\ r.policy_path = resolve_relative_string(s.policy.policy_path)
        /\ r.entities_path = resolve_relative_string(s.policy.entities_path)
        /\ r.schema_path = resolve_relative_string(s.policy.schema_path)
    BY <1>0 DEF PolicyConfigs
  <2>3. \A path \in {s.policy.policy_path, s.policy.entities_path, s.policy.schema_path} :
          resolve_relative_string(path) # "rel"
    BY <1>0, StringResolves DEF PolicyConfigs, Written, DataValues
  <2>4. OpenedPaths(r) = Paths(r)
    BY <2>2 DEF OpenedPaths
  <2> QED BY <1>3, <1>4, <2>1, <2>2, <2>3, <2>4 DEF Chosen
<1>5. CASE s.from \in Fetched
  <2>1. p = s.policy
    BY <1>5 DEF LoadedPolicy, Resolved, Fetched
  <2> QED BY <1>1, <1>3, <1>5, <2>1, CedarPolicyGate
<1> QED BY <1>0, <1>4, <1>5

(* An accepted manifest prepares: the validation of its binding asked what *)
(* preparing asks again.                                                   *)
LEMMA AcceptedPrepares ==
    ASSUME NEW s, Accepted(s)
    PROVE  ~prepare_fails(LoadedPolicy(s), LoadedBinding(s))
<1>1. validate_policy_binding(LoadedPolicy(s), LoadedBinding(s))
  BY Zenon DEF Accepted
<1> QED BY <1>1 DEF validate_policy_binding, prepare_fails

(* Loading keeps the invariant.                                            *)
LEMMA LoadSourceInv == SourcesInv /\ [LoadSource]_sourceVars => SourcesInv'
<1> SUFFICES ASSUME SourcesInv, [LoadSource]_sourceVars PROVE SourcesInv'
  OBVIOUS
<1>1. CASE UNCHANGED sourceVars
  BY <1>1 DEF SourcesInv, sourceVars
<1>2. CASE LoadSource
  <2> DEFINE policy == LoadedPolicy(source)
             binding == LoadedBinding(source)
             prepared_policy == prepare_policy_invocation(policy, binding)
  <2>0. source \in ManifestSources /\ source' = source
    BY <1>2 DEF SourcesInv, LoadSource
  <2>1. CASE ~Accepted(source) \/ default_policy_dispatcher_refuses(dispatcher, policy)
    <3>1. phase' = "refused"
      BY <1>2, <2>1 DEF LoadSource
    <3> QED BY <2>0, <3>1 DEF SourcesInv
  <2>2. CASE ~(~Accepted(source) \/ default_policy_dispatcher_refuses(dispatcher, policy))
    <3>1. Accepted(source) /\ ~prepare_fails(policy, binding)
      BY <2>2, AcceptedPrepares
    <3>2. /\ invocation' = prepared_policy
          /\ phase' = IF route(dispatcher, policy) = "opa" /\ opa_refuses(prepared_policy)
                       THEN "error" ELSE route(dispatcher, policy)
      BY <1>2, <2>2, <3>1 DEF LoadSource
    <3>3. prepared_policy.type = policy.type
      BY <2>0, PreparedFields
    <3>4. phase' # "unprepared"
      <4>1. route(dispatcher, policy) \in {"regorus", "opa", "cedar", "literal", "error"}
        BY Zenon DEF route
      <4> QED BY <3>2, <4>1
    <3>5. phase' \in {"regorus", "opa", "cedar"} => invocation'.type \in {"rego", "cedar"}
      BY <3>2, <3>3, RoutesByType
    <3> QED BY <2>0, <3>1, <3>2, <3>4, <3>5 DEF SourcesInv
  <2> QED BY <2>1, <2>2
<1> QED BY <1>1, <1>2

(* Whatever policy and binding a host loads, in memory or from a chain of  *)
(* its own and of fetched documents, and whichever dispatcher it chose:    *)
(* what the backend opens the host wrote, a fetched query names a rule,    *)
(* and an accepted manifest prepares (SourcesAreTheHosts).                 *)
THEOREM SourceSafety == SourceSpec => []SourcesAreTheHosts
<1>1. (\E s \in ManifestSources, d \in {"binding", "default", "cedar", "opa"} : SourceInit(s, d))
        => SourcesInv
  BY DEF SourceInit, SourcesInv
<1>2. SourcesInv => SourcesAreTheHosts
  <2> SUFFICES ASSUME SourcesInv PROVE SourcesAreTheHosts
    OBVIOUS
  <2>1. phase # "unprepared"
    BY DEF SourcesInv
  <2>2. ASSUME phase \in {"regorus", "opa", "cedar"}, source.from # "memory"
        PROVE  /\ OpenedPaths(invocation) \subseteq Chosen(source) \ {"rel"}
               /\ invocation.type = "rego" /\
                  (IF source.binding.query # Absent THEN source.bound ELSE source.from) \in Fetched
                    => invocation.query = "rule"
    <3>1. /\ source \in ManifestSources /\ Accepted(source)
          /\ invocation = prepare_policy_invocation(LoadedPolicy(source), LoadedBinding(source))
          /\ invocation.type \in {"rego", "cedar"}
      BY <2>2 DEF SourcesInv
    <3>2. invocation.type = source.policy.type
      BY <3>1, PreparedFields, LoadedKeeps
    <3>3. CASE source.policy.type = "rego"
      BY <2>2, <3>1, <3>3, RegoIsTheHosts
    <3>4. CASE source.policy.type = "cedar"
      BY <2>2, <3>1, <3>2, <3>4, CedarIsTheHosts
    <3> QED BY <3>1, <3>2, <3>3, <3>4
  <2> QED BY <2>1, <2>2 DEF SourcesAreTheHosts, Chosen
<1> QED BY <1>1, <1>2, LoadSourceInv, PTL DEF SourceSpec
=============================================================================

------------------------ MODULE AsyncAdmissionProofs ------------------------
(***************************************************************************)
(* Proofs about AsyncAdmission: for any number of callers, any concurrency *)
(* and any queue length, the slots of async_interceptor.py are conserved   *)
(* through every order of grants, cancellations, timeouts, completions and *)
(* closes, and no live waiter is overtaken.                                *)
(*                                                                         *)
(* Every slot moves in _wake_waiters, so the proof turns around one        *)
(* summary of what a call of it does (Serves) and one lemma (WakeRestores):*)
(* a wake that starts from an honest count of the holders ends with one.   *)
(* An action then only has to show what it hands to the wake.              *)
(***************************************************************************)
EXTENDS AsyncAdmission, TLAPS, FiniteSetTheorems, SequenceTheorems,
        WellFoundedInduction

-----------------------------------------------------------------------------
(* The inductive invariant                                                 *)

\* A queue of distinct callers that wait on futures nobody has resolved.
Orderly(q, f, s) ==
  /\ \A i, j \in DOMAIN q : q[i] = q[j] => i = j
  /\ \A i \in DOMAIN q : s[q[i]] = "queued" /\ f[q[i]] \in {"pending", "cancelled"}

Queueing == Orderly(waiters, future, state)

\* What has been closed stays out of use, and what was never used is empty.
Closing ==
  /\ executor = "shutdown" => closed
  /\ closed /\ loop # "dead" => waiters = <<>>
  /\ loop = "unbound" => /\ \A c \in Callers : state[c] = "idle"
                         /\ waiters = <<>>
                         /\ reserved = 0
                         /\ in_flight = {}

\* Nobody has work in the pool before calling.
Fresh == \A c \in Callers : state[c] = "idle" => c \notin in_flight

Inv == TypeOK /\ Queueing /\ Closing /\ Fresh /\ SlotsAreConserved

-----------------------------------------------------------------------------
(* Numbers and queues                                                      *)

(* A set of natural numbers that is not empty has a least one: what an     *)
(* induction over the positions of a queue rests on.                       *)
LEMMA LeastNumber ==
  ASSUME NEW T, T \subseteq Nat, T # {}
  PROVE  \E m \in T : \A n \in T : m <= n
<1> DEFINE R == {ss \in Nat \X Nat : ss[1] < ss[2]}
<1>1. IsWellFoundedOn(R, Nat)
  BY NatLessThanWellFounded, Zenon DEF OpToRel
<1>2. \A n, m \in Nat : n < m => <<n, m>> \in R
  BY SMT DEF R
<1> HIDE DEF R
<1>3. PICK m \in T : \A n \in T : ~(<<n, m>> \in R)
  BY <1>1, WFMin, Zenon
<1>4. \A n \in T : ~(n < m)
  BY <1>2, <1>3, Zenon
<1>5. \A n \in T : m <= n
  BY <1>4
<1> QED BY <1>5

(* What is left of a queue once its first k entries are popped.            *)
LEMMA SuffixOf ==
  ASSUME NEW q \in Seq(Callers), NEW k \in 0 .. Len(q)
  PROVE  /\ SubSeq(q, k + 1, Len(q)) \in Seq(Callers)
         /\ Len(SubSeq(q, k + 1, Len(q))) = Len(q) - k
         /\ \A i \in 1 .. Len(q) - k : SubSeq(q, k + 1, Len(q))[i] = q[k + i]
OBVIOUS

(* Granted names the live callers among the first k entries of the queue.  *)
LEMMA GrantedAre ==
  ASSUME NEW q \in Seq(Callers), NEW f, NEW d, NEW k \in 0 .. Len(q)
  PROVE  /\ Granted(q, f, d, k) \subseteq Callers
         /\ IsFiniteSet(Granted(q, f, d, k))
         /\ Cardinality(Granted(q, f, d, k)) \in Nat
         /\ \A c : c \in Granted(q, f, d, k) <=> Live(c, f, d) /\ \E i \in 1 .. k : q[i] = c
<1>1. /\ Len(SubSeq(q, 1, k)) = k
      /\ SubSeq(q, 1, k) \in Seq(Callers)
      /\ \A i \in 1 .. k : SubSeq(q, 1, k)[i] = q[i]
  OBVIOUS
<1>2. DOMAIN SubSeq(q, 1, k) = 1 .. k
  BY <1>1
<1>3. Range(SubSeq(q, 1, k)) = {q[i] : i \in 1 .. k}
  BY <1>1, <1>2 DEF Range
<1>4. {q[i] : i \in 1 .. k} \subseteq Callers
  OBVIOUS
<1>5. /\ Granted(q, f, d, k) \subseteq Callers
      /\ \A c : c \in Granted(q, f, d, k) <=> Live(c, f, d) /\ \E i \in 1 .. k : q[i] = c
  BY <1>3, <1>4, Zenon DEF Granted
<1> QED BY <1>5, CallersAssumption, FS_Subset, FS_CardinalityType

(* One more entry popped grants at most one more slot.                     *)
LEMMA GrantedGrows ==
  ASSUME NEW q \in Seq(Callers), NEW f, NEW d, NEW k \in 0 .. Len(q), k # 0
  PROVE  Cardinality(Granted(q, f, d, k)) <= Cardinality(Granted(q, f, d, k - 1)) + 1
<1>1. k - 1 \in 0 .. Len(q) /\ k \in 1 .. Len(q)
  OBVIOUS
<1> DEFINE A == Granted(q, f, d, k)
           B == Granted(q, f, d, k - 1)
<1>2. /\ IsFiniteSet(B) /\ Cardinality(B) \in Nat
      /\ \A c : c \in B <=> Live(c, f, d) /\ \E i \in 1 .. k - 1 : q[i] = c
  BY <1>1, GrantedAre
<1>3. \A c : c \in A <=> Live(c, f, d) /\ \E i \in 1 .. k : q[i] = c
  BY GrantedAre
<1>4. \A i \in 1 .. k : i = k \/ i \in 1 .. k - 1
  OBVIOUS
<1> HIDE DEF A, B
<1>5. A \subseteq B \cup {q[k]}
  <2>1. SUFFICES ASSUME NEW c \in A, c # q[k] PROVE c \in B
    OBVIOUS
  <2>2. PICK i \in 1 .. k : q[i] = c
    BY <1>3
  <2>3. i \in 1 .. k - 1
    BY <1>4, <2>1, <2>2
  <2> QED BY <1>2, <1>3, <2>2, <2>3, Zenon
<1>6. /\ IsFiniteSet(B \cup {q[k]})
      /\ Cardinality(B \cup {q[k]}) \in {Cardinality(B), Cardinality(B) + 1}
  BY <1>2, FS_AddElement, Zenon
<1>7. /\ Cardinality(A) <= Cardinality(B \cup {q[k]})
      /\ IsFiniteSet(A)
  BY <1>5, <1>6, FS_Subset
<1>8. Cardinality(A) \in Nat /\ Cardinality(B \cup {q[k]}) \in Nat
  BY <1>6, <1>7, FS_CardinalityType
<1>9. Cardinality(A) <= Cardinality(B) + 1
  BY <1>2, <1>6, <1>7, <1>8
<1> QED BY <1>9 DEF A, B

(* The loop of _wake_waiters hands out what is free and no more, and stops *)
(* before the end of the queue only when nothing is left to hand out.      *)
LEMMA PoppedFits ==
  ASSUME NEW q \in Seq(Callers), NEW f, NEW d,
         NEW n \in Nat, n <= MaxConcurrency, ~closed
  PROVE  /\ Popped(q, f, d, n) \in 0 .. Len(q)
         /\ n + Cardinality(Granted(q, f, d, Popped(q, f, d, n))) <= MaxConcurrency
         /\ Popped(q, f, d, n) < Len(q)
              => n + Cardinality(Granted(q, f, d, Popped(q, f, d, n))) = MaxConcurrency
<1> DEFINE size(k) == Cardinality(Granted(q, f, d, k))
           free == MaxConcurrency - n
           full == {k \in 0 .. Len(q) : size(k) = free}
<1>1. Len(q) \in Nat /\ free \in Nat
  BY ConcurrencyAssumption
<1>2. \A k \in 0 .. Len(q) : size(k) \in Nat
  BY GrantedAre
<1>3. CASE full # {}
  <2>1. full \subseteq Nat
    BY <1>1
  <2>2. \E k \in full : \A j \in full : k <= j
    BY <1>3, <2>1, LeastNumber
  <2>3. Popped(q, f, d, n) = CHOOSE k \in full : \A j \in full : k <= j
    BY <1>3 DEF Popped
  <2>4. Popped(q, f, d, n) \in full
    BY <2>2, <2>3
  <2>5. /\ Popped(q, f, d, n) \in 0 .. Len(q)
        /\ size(Popped(q, f, d, n)) = free
    BY <2>4
  <2> HIDE DEF size
  <2>6. n + size(Popped(q, f, d, n)) = MaxConcurrency
    BY <2>5, ConcurrencyAssumption
  <2> QED BY <2>5, <2>6, ConcurrencyAssumption DEF size
<1>4. CASE full = {}
  <2>1. Popped(q, f, d, n) = Len(q)
    BY <1>4 DEF Popped
  <2> DEFINE over == {k \in 0 .. Len(q) : size(k) >= free}
  <2>2. over = {}
    <3>1. SUFFICES ASSUME over # {} PROVE FALSE
      OBVIOUS
    <3>2. over \subseteq Nat
      BY <1>1
    <3>3. PICK m \in over : \A k \in over : m <= k
      BY <3>1, <3>2, LeastNumber
    <3>4. m \in 0 .. Len(q) /\ size(m) >= free /\ size(m) # free
      BY <1>4, <3>3
    <3>5. Granted(q, f, d, 0) = {}
      BY <1>1, GrantedAre
    <3>6. size(0) = 0
      BY <3>5, FS_EmptySet
    <3>7. m # 0
      BY <1>1, <3>4, <3>6
    <3>8. m - 1 \in 0 .. Len(q)
      BY <1>1, <3>4, <3>7
    <3>9. size(m) <= size(m - 1) + 1
      BY <3>4, <3>7, GrantedGrows
    <3> HIDE DEF size
    <3>10. size(m - 1) >= free
      BY <1>1, <1>2, <3>4, <3>8, <3>9
    <3>11. m - 1 \in over
      BY <3>8, <3>10
    <3>12. m <= m - 1
      BY <3>3, <3>11
    <3> QED BY <3>4, <3>12
  <2>3. Len(q) \in 0 .. Len(q)
    BY <1>1
  <2> HIDE DEF size
  <2>4. size(Len(q)) < free
    BY <1>1, <1>2, <2>2, <2>3
  <2>5. n + size(Len(q)) <= MaxConcurrency
    BY <1>1, <1>2, <2>3, <2>4, ConcurrencyAssumption
  <2> QED BY <1>1, <2>1, <2>5 DEF size
<1> QED BY <1>3, <1>4

-----------------------------------------------------------------------------
(* What one call of _wake_waiters does                                     *)

\* The first k entries of the queue q leave it; G of them are granted a slot.
Serves(q, f, d, k, G) ==
  /\ \A c \in Callers : c \in G <=> Live(c, f, d) /\ \E i \in 1 .. k : q[i] = c
  /\ waiters' \in Seq(Callers)
  /\ Len(waiters') = Len(q) - k
  /\ \A i \in 1 .. Len(q) - k : waiters'[i] = q[k + i]
  /\ future' \in [Callers -> Futures]
  /\ \A c \in G : future'[c] = "true"
  /\ \A c \in Callers \ G : future'[c] \in {f[c], "false"}
  /\ \A c \in Callers : (\A i \in 1 .. k : q[i] # c) => future'[c] = f[c]

\* The slots are counted: n are in use before the wake.
Counts(q, n, k, G) ==
  /\ n + Cardinality(G) <= MaxConcurrency
  /\ closed => k = 0
  /\ k < Len(q) /\ ~closed => n + Cardinality(G) = MaxConcurrency

\* How far the wake goes.
Cut(q, f, d, flying, n) == Popped(q, f, d, Cardinality(flying) + n)

(* _wake_waiters serves a prefix of the queue.                             *)
LEMMA PrefixServed ==
  ASSUME NEW q, q \in Seq(Callers), NEW f, f \in [Callers -> Futures], NEW d,
         NEW flying, NEW n, closed \in BOOLEAN,
         wake_waiters(q, f, d, flying, n)
  PROVE  /\ Cut(q, f, d, flying, n) \in 0 .. Len(q)
         /\ Granted(q, f, d, Cut(q, f, d, flying, n)) \in SUBSET Callers
         /\ Serves(q, f, d, Cut(q, f, d, flying, n),
                   Granted(q, f, d, Cut(q, f, d, flying, n)))
         /\ reserved' = n + Cardinality(Granted(q, f, d, Cut(q, f, d, flying, n)))
<1>0. PICK k : k = Popped(q, f, d, Cardinality(flying) + n)
  OBVIOUS
<1> DEFINE G == Granted(q, f, d, k)
<1>1. Len(q) \in Nat
  OBVIOUS
<1>2. k \in 0 .. Len(q)
  <2> DEFINE full == {j \in 0 .. Len(q) :
                        Cardinality(Granted(q, f, d, j))
                          = MaxConcurrency - (Cardinality(flying) + n)}
  <2>1. full \subseteq Nat /\ full \subseteq 0 .. Len(q)
    BY <1>1
  <2>2. CASE closed \/ full = {}
    BY <1>0, <1>1, <2>2 DEF Popped
  <2>3. CASE ~closed /\ full # {}
    <3>1. \E j \in full : \A i \in full : j <= i
      BY <2>1, <2>3, LeastNumber
    <3>2. k = CHOOSE j \in full : \A i \in full : j <= i
      BY <1>0, <2>3 DEF Popped
    <3>3. k \in full
      BY <3>1, <3>2
    <3> QED BY <2>1, <3>3
  <2> QED BY <2>2, <2>3
<1>3. /\ G \subseteq Callers
      /\ \A c : c \in G <=> Live(c, f, d) /\ \E i \in 1 .. k : q[i] = c
  BY <1>2, GrantedAre
<1>4. Range(SubSeq(q, 1, k)) = {q[i] : i \in 1 .. k}
  <2>1. /\ Len(SubSeq(q, 1, k)) = k
        /\ SubSeq(q, 1, k) \in Seq(Callers)
        /\ \A i \in 1 .. k : SubSeq(q, 1, k)[i] = q[i]
    BY <1>2
  <2>2. DOMAIN SubSeq(q, 1, k) = 1 .. k
    BY <1>2, <2>1
  <2> QED BY <2>1, <2>2 DEF Range
<1>5. /\ waiters' = SubSeq(q, k + 1, Len(q))
      /\ reserved' = n + Cardinality(G)
      /\ future' = [c \in Callers |->
                     IF c \in G THEN "true"
                     ELSE IF c \in {q[i] : i \in 1 .. k} /\ f[c] = "pending" THEN "false"
                     ELSE f[c]]
  BY <1>0, <1>4 DEF wake_waiters
<1> HIDE DEF G
<1>6. /\ waiters' \in Seq(Callers)
      /\ Len(waiters') = Len(q) - k
      /\ \A i \in 1 .. Len(q) - k : waiters'[i] = q[k + i]
  BY <1>2, <1>5, SuffixOf
<1>7. /\ future' \in [Callers -> Futures]
      /\ \A c \in G : future'[c] = "true"
      /\ \A c \in Callers \ G : future'[c] \in {f[c], "false"}
      /\ \A c \in Callers : (\A i \in 1 .. k : q[i] # c) => future'[c] = f[c]
  BY <1>3, <1>5 DEF Futures
<1>8. Serves(q, f, d, k, G)
  BY <1>3, <1>6, <1>7 DEF Serves
<1> QED BY <1>0, <1>2, <1>3, <1>5, <1>8, Zenon DEF G, Cut

(* It also keeps within the pool, when the pool was kept before.           *)
LEMMA WakeServes ==
  ASSUME NEW q \in Seq(Callers), NEW f \in [Callers -> Futures], NEW d,
         NEW flying, Cardinality(flying) \in Nat, NEW n \in Nat,
         Cardinality(flying) + n <= MaxConcurrency, closed \in BOOLEAN,
         wake_waiters(q, f, d, flying, n)
  PROVE  \E k \in 0 .. Len(q), G \in SUBSET Callers :
           /\ Serves(q, f, d, k, G)
           /\ Counts(q, Cardinality(flying) + n, k, G)
           /\ reserved' = n + Cardinality(G)
<1> DEFINE m == Cardinality(flying) + n
           k == Cut(q, f, d, flying, n)
           G == Granted(q, f, d, k)
<1>1. m \in Nat /\ m <= MaxConcurrency /\ Len(q) \in Nat
  OBVIOUS
<1>2. /\ k \in 0 .. Len(q)
      /\ G \in SUBSET Callers
      /\ Serves(q, f, d, k, G)
      /\ reserved' = n + Cardinality(G)
  BY PrefixServed
<1>3. Counts(q, m, k, G)
  <2>1. CASE ~closed
    BY <1>1, <2>1, PoppedFits DEF Counts, Cut
  <2>2. CASE closed
    <3>1. k = 0
      BY <2>2 DEF Popped, Cut
    <3>2. \A c : c \notin G
      BY <1>1, <3>1, GrantedAre
    <3>3. G = {} /\ Cardinality(G) = 0
      BY <3>2, FS_EmptySet
    <3> HIDE DEF k, G, m
    <3> QED BY <1>1, <2>2, <3>1, <3>3 DEF Counts
  <2> QED BY <2>1, <2>2
<1> HIDE DEF m, k, G
<1> QED BY <1>2, <1>3, Zenon DEF m

\* What an action hands to the wake: a queue q of callers with futures f, n
\* slots held by those among s that were granted one, and the rest in flying.
Ready(q, f, s, flying, n) ==
  /\ q \in Seq(Callers)
  /\ f \in [Callers -> Futures]
  /\ Orderly(q, f, s)
  /\ flying \subseteq Callers
  /\ n = Cardinality({c \in Callers : s[c] = "queued" /\ f[c] = "true"})
  /\ Cardinality(flying) + n <= MaxConcurrency
  /\ Len(q) <= MaxPending
  /\ closed \in BOOLEAN
  /\ closed => q = <<>>

\* What holds after it.
Restored ==
  /\ waiters \in Seq(Callers)
  /\ future \in [Callers -> Futures]
  /\ reserved \in Nat
  /\ Queueing
  /\ reserved = Cardinality(Holders)
  /\ CapacityIsBounded
  /\ waiters # <<>> => used = MaxConcurrency

(* A wake that starts from an honest count of the holders ends with one,   *)
(* and leaves somebody in the queue only when every slot is taken.         *)
LEMMA WakeRestores ==
  ASSUME NEW q, NEW f, NEW d, NEW n,
         Ready(q, f, state', in_flight', n),
         wake_waiters(q, f, d, in_flight', n)
  PROVE  Restored' /\ (closed => waiters' = <<>>)
<1> DEFINE H == {c \in Callers : state'[c] = "queued" /\ f[c] = "true"}
<1>1. /\ IsFiniteSet(H) /\ H \subseteq Callers
      /\ IsFiniteSet(in_flight') /\ Cardinality(in_flight') \in Nat
      /\ n \in Nat /\ n = Cardinality(H)
  BY CallersAssumption, FS_Subset, FS_CardinalityType DEF Ready
<1>2. PICK k \in 0 .. Len(q), G \in SUBSET Callers :
           /\ Serves(q, f, d, k, G)
           /\ Counts(q, Cardinality(in_flight') + n, k, G)
           /\ reserved' = n + Cardinality(G)
  <2>1. /\ q \in Seq(Callers) /\ f \in [Callers -> Futures] /\ closed \in BOOLEAN
        /\ Cardinality(in_flight') + n <= MaxConcurrency
    BY DEF Ready
  <2>2. Cardinality(in_flight') \in Nat /\ n \in Nat
    BY <1>1
  <2> HIDE DEF H
  <2> QED BY <2>1, <2>2, WakeServes
<1>3. q \in Seq(Callers) /\ Len(q) \in Nat /\ f \in [Callers -> Futures]
  BY DEF Ready
<1>4. IsFiniteSet(G) /\ Cardinality(G) \in Nat
  BY CallersAssumption, FS_Subset, FS_CardinalityType
<1>5. reserved' \in Nat
  BY <1>1, <1>2, <1>4
<1>6. Queueing'
  <2>1. /\ waiters' \in Seq(Callers)
        /\ DOMAIN waiters' = 1 .. Len(q) - k
        /\ \A i \in 1 .. Len(q) - k : waiters'[i] = q[k + i] /\ k + i \in DOMAIN q
    BY <1>2, <1>3 DEF Serves
  <2>2. /\ \A i, j \in DOMAIN q : q[i] = q[j] => i = j
        /\ \A i \in DOMAIN q : state'[q[i]] = "queued" /\ f[q[i]] \in {"pending", "cancelled"}
    BY DEF Ready, Orderly
  <2>3. \A i, j \in DOMAIN waiters' : waiters'[i] = waiters'[j] => i = j
    BY <1>3, <2>1, <2>2
  <2>4. ASSUME NEW i \in 1 .. Len(q) - k
        PROVE  future'[q[k + i]] = f[q[k + i]]
    <3>1. \A j \in 1 .. k : q[j] # q[k + i]
      BY <1>3, <2>2
    <3>2. q[k + i] \in Callers
      BY <1>3
    <3> QED BY <1>2, <3>1, <3>2, Zenon DEF Serves
  <2>5. \A i \in DOMAIN waiters' : /\ state'[waiters'[i]] = "queued"
                                   /\ future'[waiters'[i]] \in {"pending", "cancelled"}
    <3>1. TAKE i \in DOMAIN waiters'
    <3>2. /\ waiters'[i] = q[k + i] /\ k + i \in DOMAIN q
          /\ future'[q[k + i]] = f[q[k + i]]
      BY <2>1, <2>4, Zenon
    <3> QED BY <2>2, <3>2, Zenon
  <2> QED BY <2>3, <2>5 DEF Queueing, Orderly
<1>7. \A c \in G : state'[c] = "queued" /\ f[c] = "pending"
  <2>1. \A c \in G : f[c] = "pending" /\ \E i \in 1 .. k : q[i] = c
    BY <1>2 DEF Serves, Live
  <2>2. \A i \in 1 .. k : state'[q[i]] = "queued"
    BY <1>2, <1>3 DEF Ready, Orderly
  <2> QED BY <2>1, <2>2
<1>8. Holders' = H \cup G
  <2>1. \A c \in Callers : future'[c] = "true" <=> c \in G \/ f[c] = "true"
    <3>1. ASSUME NEW c \in Callers, c \notin G, f[c] # "true" PROVE future'[c] # "true"
      BY <1>2, <3>1 DEF Serves
    <3>2. ASSUME NEW c \in Callers, f[c] = "true" PROVE future'[c] = "true"
      <4>1. \A i \in 1 .. k : q[i] # c
        BY <1>2, <1>3, <3>2 DEF Ready, Orderly
      <4> QED BY <1>2, <3>2, <4>1, Zenon DEF Serves
    <3>3. \A c \in G : future'[c] = "true"
      BY <1>2 DEF Serves
    <3> QED BY <3>1, <3>2, <3>3
  <2> QED BY <1>7, <2>1 DEF Holders
<1>9. H \cap G = {}
  BY <1>7
<1> HIDE DEF H
<1>10. Cardinality(Holders') = Cardinality(H) + Cardinality(G)
  <2>1. Cardinality(H \cup G) = Cardinality(H) + Cardinality(G) - Cardinality({})
    BY <1>1, <1>4, <1>9, FS_Union
  <2>2. Cardinality({}) = 0 /\ Cardinality(H) \in Nat
    BY <1>1, FS_EmptySet
  <2> QED BY <1>4, <1>8, <2>1, <2>2
<1>11. reserved' = Cardinality(Holders')
  BY <1>1, <1>2, <1>10
<1>12. used' <= MaxConcurrency /\ Len(waiters') <= MaxPending
  <2>1. Cardinality(in_flight') + n + Cardinality(G) <= MaxConcurrency
    BY <1>2 DEF Counts
  <2>2. Len(waiters') = Len(q) - k /\ Len(q) <= MaxPending
    BY <1>2 DEF Serves, Ready
  <2>3. used' = Cardinality(in_flight') + reserved'
    BY DEF used
  <2>4. used' <= MaxConcurrency
    <3>1. used' = Cardinality(in_flight') + (n + Cardinality(G))
      BY <1>2, <2>3
    <3>2. Cardinality(in_flight') + (n + Cardinality(G)) <= MaxConcurrency
      BY <1>1, <1>4, <2>1
    <3> QED BY <3>1, <3>2
  <2>5. Len(waiters') <= MaxPending
    BY <1>2, <1>3, <2>2, PendingAssumption
  <2> QED BY <2>4, <2>5
<1>13. ASSUME waiters' # <<>> PROVE used' = MaxConcurrency
  <2>1. waiters' \in Seq(Callers) /\ Len(waiters') = Len(q) - k
    BY <1>2 DEF Serves
  <2>2. Len(waiters') # 0
    BY <1>13, <2>1
  <2>3. k < Len(q) /\ Len(q) # 0
    BY <1>2, <1>3, <2>1, <2>2
  <2>4. ~closed
    BY <1>3, <2>3 DEF Ready
  <2>5. Cardinality(in_flight') + n + Cardinality(G) = MaxConcurrency
    BY <1>2, <2>3, <2>4 DEF Counts
  <2>6. used' = Cardinality(in_flight') + reserved'
    BY DEF used
  <2> QED BY <1>1, <1>2, <1>4, <2>5, <2>6
<1>14. waiters' \in Seq(Callers) /\ future' \in [Callers -> Futures]
  BY <1>2 DEF Serves
<1>15. ASSUME closed PROVE waiters' = <<>>
  <2>1. Len(q) = 0
    BY <1>15 DEF Ready
  <2>2. k = 0
    BY <2>1
  <2>3. Len(waiters') = Len(q) - k
    BY <1>2 DEF Serves
  <2> QED BY <1>14, <2>1, <2>2, <2>3
<1> QED BY <1>5, <1>6, <1>11, <1>12, <1>13, <1>14, <1>15 DEF Restored, CapacityIsBounded

\* What the wake does not touch.
Rest ==
  /\ on_saturation \in Saturations
  /\ state \in [Callers -> States]
  /\ signals \in [Callers -> SUBSET {"timeout", "cancel"}]
  /\ deadline \in [Callers -> Nat]
  /\ now \in Nat
  /\ in_flight \subseteq Callers
  /\ running \subseteq Callers
  /\ closed \in BOOLEAN
  /\ executor \in {"open", "shutdown"}
  /\ loop \in {"unbound", "alive", "dead"}
  /\ Closing
  /\ Fresh
  /\ ThreadsAreAccounted

(* The two halves make the invariant of the next state.                    *)
LEMMA Reassemble ==
  ASSUME Restored', Rest'
  PROVE  Inv'
BY DEF Restored, Rest, Inv, TypeOK, SlotsAreConserved, ReservationsAreHeld, QueuedOnlyWhenFull

(* Between two actions of a living loop the bookkeeping is ready for a     *)
(* wake.                                                                   *)
LEMMA InvIsReady ==
  ASSUME Inv, loop # "dead"
  PROVE  Ready(waiters, future, state, in_flight, reserved)
<1>1. used <= MaxConcurrency /\ Len(waiters) <= MaxPending /\ reserved = Cardinality(Holders)
  BY DEF Inv, SlotsAreConserved, CapacityIsBounded, ReservationsAreHeld
<1>2. closed => waiters = <<>>
  BY DEF Inv, Closing
<1> QED BY <1>1, <1>2 DEF Inv, TypeOK, Ready, Queueing, used, Holders

(* A queue that lost an entry is still in order, and never longer.         *)
LEMMA UnqueuedIsOrderly ==
  ASSUME TypeOK, Queueing, NEW c \in Callers
  PROVE  /\ Unqueued(c) \in Seq(Callers)
         /\ Len(Unqueued(c)) <= Len(waiters)
         /\ Unqueued(c) # <<>> => waiters # <<>>
         /\ (\A i \in DOMAIN waiters : waiters[i] # c) => Unqueued(c) = waiters
         /\ \A i, j \in DOMAIN Unqueued(c) : Unqueued(c)[i] = Unqueued(c)[j] => i = j
         /\ \A i \in DOMAIN Unqueued(c) :
              /\ Unqueued(c)[i] # c
              /\ \E j \in DOMAIN waiters : Unqueued(c)[i] = waiters[j]
<1>1. waiters \in Seq(Callers) /\ Len(waiters) \in Nat /\ DOMAIN waiters = 1 .. Len(waiters)
  BY DEF TypeOK
<1>2. \A i, j \in DOMAIN waiters : waiters[i] = waiters[j] => i = j
  BY DEF Queueing, Orderly
<1>3. CASE \A i \in DOMAIN waiters : waiters[i] # c
  <2>1. Unqueued(c) = waiters
    BY <1>1, <1>3, Zenon DEF Unqueued, RemoveFirst
  <2> QED BY <1>1, <1>2, <1>3, <2>1
<1>4. CASE ~\A i \in DOMAIN waiters : waiters[i] # c
  <2>1. PICK p \in 1 .. Len(waiters) : waiters[p] = c
    BY <1>1, <1>4
  <2> DEFINE I == {i \in 1 .. Len(waiters) : waiters[i] = c}
  <2>2. I = {p}
    BY <1>1, <1>2, <2>1
  <2>3. SelectInSeq(waiters, LAMBDA v : v = c) = IF I # {} THEN Min(I) ELSE 0
    BY Zenon DEF SelectInSeq
  <2>4. Min(I) = p
    BY <2>2 DEF Min
  <2>5. SelectInSeq(waiters, LAMBDA v : v = c) = p
    BY <2>2, <2>3, <2>4, Zenon
  <2>6. Unqueued(c) = RemoveAt(waiters, p)
    BY <2>1, <2>5, Zenon DEF Unqueued, RemoveFirst
  <2>7. Unqueued(c) = SubSeq(waiters, 1, p - 1) \o SubSeq(waiters, p + 1, Len(waiters))
    BY <2>6, Zenon DEF RemoveAt
  <2>8. /\ Unqueued(c) \in Seq(Callers)
        /\ Len(Unqueued(c)) = Len(waiters) - 1
        /\ \A i \in 1 .. Len(waiters) - 1 :
             Unqueued(c)[i] = waiters[IF i < p THEN i ELSE i + 1]
    <3> DEFINE s == SubSeq(waiters, 1, p - 1)
               u == SubSeq(waiters, p + 1, Len(waiters))
    <3>1. /\ s \in Seq(Callers) /\ Len(s) = p - 1
          /\ \A i \in 1 .. p - 1 : s[i] = waiters[i]
      BY <1>1, <2>1
    <3>2. /\ u \in Seq(Callers) /\ Len(u) = Len(waiters) - p
          /\ \A i \in 1 .. Len(waiters) - p : u[i] = waiters[p + i]
      <4>1. p \in 0 .. Len(waiters)
        BY <1>1
      <4> QED BY <1>1, <4>1, SuffixOf, Zenon
    <3> HIDE DEF s, u
    <3>3. /\ s \o u \in Seq(Callers) /\ Len(s \o u) = Len(s) + Len(u)
          /\ \A i \in 1 .. Len(s) + Len(u) :
               (s \o u)[i] = IF i <= Len(s) THEN s[i] ELSE u[i - Len(s)]
      BY <3>1, <3>2, ConcatProperties
    <3>4. Unqueued(c) = s \o u
      BY <2>7 DEF s, u
    <3>5. ASSUME NEW i \in 1 .. Len(waiters) - 1
          PROVE  (s \o u)[i] = waiters[IF i < p THEN i ELSE i + 1]
      <4>1. CASE i < p
        <5>1. i \in 1 .. p - 1 /\ i <= Len(s) /\ i \in 1 .. Len(s) + Len(u)
          BY <1>1, <3>1, <3>2, <4>1
        <5> QED BY <3>1, <3>3, <4>1, <5>1
      <4>2. CASE ~(i < p)
        <5>1. /\ i - (p - 1) \in 1 .. Len(waiters) - p /\ ~(i <= Len(s))
              /\ i \in 1 .. Len(s) + Len(u) /\ p + (i - (p - 1)) = i + 1
          BY <1>1, <3>1, <3>2, <4>2
        <5>2. (s \o u)[i] = u[i - (p - 1)]
          BY <3>1, <3>3, <5>1
        <5> QED BY <3>2, <4>2, <5>1, <5>2
      <4> QED BY <4>1, <4>2
    <3>6. Len(s) + Len(u) = Len(waiters) - 1
      BY <1>1, <2>1, <3>1, <3>2
    <3> QED BY <3>3, <3>4, <3>5, <3>6
  <2>9. DOMAIN Unqueued(c) = 1 .. Len(waiters) - 1
    BY <1>1, <2>1, <2>8
  <2>10. \A i \in 1 .. Len(waiters) - 1 :
           /\ (IF i < p THEN i ELSE i + 1) \in DOMAIN waiters
           /\ (IF i < p THEN i ELSE i + 1) # p
    BY <1>1, <2>1
  <2>11. \A i \in DOMAIN Unqueued(c) :
              /\ Unqueued(c)[i] # c
              /\ \E j \in DOMAIN waiters : Unqueued(c)[i] = waiters[j]
    BY <1>1, <1>2, <2>1, <2>8, <2>9, <2>10
  <2>12. \A i, j \in DOMAIN Unqueued(c) : Unqueued(c)[i] = Unqueued(c)[j] => i = j
    <3>1. SUFFICES ASSUME NEW i \in 1 .. Len(waiters) - 1, NEW j \in 1 .. Len(waiters) - 1,
                          Unqueued(c)[i] = Unqueued(c)[j]
                   PROVE  i = j
      BY <2>9
    <3>2. (IF i < p THEN i ELSE i + 1) = (IF j < p THEN j ELSE j + 1)
      BY <1>2, <2>8, <2>10, <3>1
    <3> QED BY <1>1, <2>1, <3>2
  <2>13. waiters # <<>> /\ Len(Unqueued(c)) <= Len(waiters)
    BY <1>1, <2>1, <2>8
  <2> QED BY <1>4, <2>8, <2>11, <2>12, <2>13
<1> QED BY <1>3, <1>4

-----------------------------------------------------------------------------
(* Every action keeps the invariant                                        *)

(* It holds of an interceptor that has just been built.                    *)
LEMMA InitInv == Init => Inv
<1> SUFFICES ASSUME Init PROVE Inv
  OBVIOUS
<1>1. TypeOK
  <2>1. /\ state \in [Callers -> States] /\ future \in [Callers -> Futures]
        /\ deadline \in [Callers -> Nat]
    BY DEF Init, States, Futures
  <2>2. signals \in [Callers -> SUBSET {"timeout", "cancel"}]
    BY Zenon DEF Init
  <2>3. /\ waiters \in Seq(Callers) /\ now \in Nat /\ reserved \in Nat
        /\ in_flight \subseteq Callers /\ running \subseteq Callers
    BY DEF Init
  <2>4. /\ on_saturation \in Saturations /\ closed \in BOOLEAN
        /\ executor \in {"open", "shutdown"} /\ loop \in {"unbound", "alive", "dead"}
    BY DEF Init
  <2> QED BY <2>1, <2>2, <2>3, <2>4, Zenon DEF TypeOK
<1>2. Holders = {} /\ Cardinality(Holders) = 0 /\ Cardinality(in_flight) = 0
  BY FS_EmptySet DEF Init, Holders
<1>3. SlotsAreConserved
  BY <1>2, ConcurrencyAssumption, PendingAssumption
     DEF Init, SlotsAreConserved, ReservationsAreHeld, CapacityIsBounded,
         ThreadsAreAccounted, QueuedOnlyWhenFull, used
<1>4. Queueing /\ Closing /\ Fresh
  BY DEF Init, Queueing, Orderly, Closing, Fresh
<1> QED BY <1>1, <1>3, <1>4 DEF Inv

(* A step that moves no slot keeps the accounts.                           *)
LEMMA NoSlotMoves ==
  ASSUME Inv, Holders' = Holders,
         UNCHANGED <<waiters, reserved, in_flight, loop>>,
         running' \subseteq running, \A c \in Callers : state'[c] # "raised"
  PROVE  SlotsAreConserved'
BY DEF Inv, SlotsAreConserved, ReservationsAreHeld, CapacityIsBounded,
       ThreadsAreAccounted, QueuedOnlyWhenFull, used

(* Work reaches the pool only while it is open, and is then in flight.     *)
LEMMA SubmitKeeps ==
  ASSUME Inv, NEW c \in Callers, ~closed, submit(c)
  PROVE  /\ state' \in [Callers -> States]
         /\ state'[c] = "awaiting"
         /\ \A x \in Callers \ {c} : state'[x] = state[x]
         /\ in_flight' = in_flight \cup {c}
         /\ running' = running \cup {c}
<1>1. executor = "open"
  BY DEF Inv, TypeOK, Closing
<1> QED BY <1>1 DEF submit, Inv, TypeOK, States

(* A call that ends, or starts to wait, moves nothing in the pool.         *)
LEMMA FinishesKeeps ==
  ASSUME Inv, NEW c \in Callers, NEW answer \in States, finishes(c, answer)
  PROVE  /\ state' \in [Callers -> States]
         /\ state'[c] = answer
         /\ \A x \in Callers \ {c} : state'[x] = state[x]
         /\ in_flight' = in_flight
         /\ running' = running
BY DEF finishes, Inv, TypeOK

(* intercept up to its first await: it answers at once, queues the caller, *)
(* or submits when there is room.                                          *)
LEMMA InterceptInv ==
  ASSUME Inv, NEW c \in Callers, NEW bound \in BOOLEAN, NEW dumps \in BOOLEAN,
         Intercept(c, bound, dumps)
  PROVE  Inv'
<1> USE DEF Inv
<1>1. /\ loop # "dead" /\ loop' = "alive" /\ state[c] = "idle"
      /\ UNCHANGED <<on_saturation, signals, now, closed, executor>>
  BY DEF Intercept
<1>2. Ready(waiters, future, state, in_flight, reserved)
  BY <1>1, InvIsReady
<1>3. closed => waiters = <<>>
  BY <1>1 DEF Closing
<1>4. ASSUME NEW answer \in {"denied", "allowed"}, finishes(c, answer),
             UNCHANGED <<deadline, waiters, reserved, future>>
      PROVE  Inv'
  <2>1. answer \in States /\ answer # "queued" /\ answer # "raised" /\ answer # "idle"
    BY <1>4 DEF States, Answers
  <2>2. /\ state' \in [Callers -> States]
        /\ state'[c] = answer
        /\ \A x \in Callers \ {c} : state'[x] = state[x]
        /\ in_flight' = in_flight
        /\ running' = running
    BY <1>4, <2>1, FinishesKeeps
  <2>3. Holders' = Holders
    BY <1>1, <1>4, <2>1, <2>2 DEF Holders
  <2>4. TypeOK' /\ Fresh' /\ Closing'
    BY <1>1, <1>3, <1>4, <2>1, <2>2 DEF TypeOK, Fresh, Closing
  <2>5. Queueing'
    BY <1>1, <1>4, <2>2 DEF Queueing, Orderly, TypeOK
  <2>6. SlotsAreConserved'
    BY <1>1, <1>4, <2>1, <2>2, <2>3
       DEF SlotsAreConserved, ReservationsAreHeld, CapacityIsBounded,
           ThreadsAreAccounted, QueuedOnlyWhenFull, used
  <2> QED BY <2>4, <2>5, <2>6
<1>5. CASE /\ ~closed /\ bound /\ Saturated /\ ~QueueRefuses
           /\ deadline' = [deadline EXCEPT ![c] = now + AdmissionTimeout]
           /\ finishes(c, "queued")
           /\ wake_waiters(Append(waiters, c), [future EXCEPT ![c] = "pending"],
                           deadline', in_flight, reserved)
  <2> DEFINE q == Append(waiters, c)
             f == [future EXCEPT ![c] = "pending"]
  <2>1. /\ state' \in [Callers -> States]
        /\ state'[c] = "queued"
        /\ \A x \in Callers \ {c} : state'[x] = state[x]
        /\ in_flight' = in_flight
        /\ running' = running
    <3>1. "queued" \in States
      BY DEF States
    <3> QED BY <1>5, <3>1, FinishesKeeps
  <2>2. Ready(q, f, state', in_flight', reserved)
    <3>1. /\ q \in Seq(Callers) /\ Len(q) = Len(waiters) + 1 /\ DOMAIN q = 1 .. Len(q)
          /\ \A i \in 1 .. Len(waiters) : q[i] = waiters[i]
          /\ q[Len(waiters) + 1] = c
      BY DEF TypeOK
    <3>2. /\ f \in [Callers -> Futures] /\ f[c] = "pending"
          /\ \A x \in Callers \ {c} : f[x] = future[x]
      BY DEF TypeOK, Futures
    <3>3. /\ \A i, j \in 1 .. Len(waiters) : waiters[i] = waiters[j] => i = j
          /\ \A i \in 1 .. Len(waiters) : /\ waiters[i] \in Callers \ {c}
                                          /\ state[waiters[i]] = "queued"
                                          /\ future[waiters[i]] \in {"pending", "cancelled"}
      BY <1>1 DEF Queueing, Orderly, TypeOK
    <3>4. Len(waiters) \in Nat /\ Len(waiters) < MaxPending
      BY <1>5, PendingAssumption DEF QueueRefuses, TypeOK
    <3> HIDE DEF q, f
    <3>5. \A i \in DOMAIN q : \/ i \in 1 .. Len(waiters) /\ q[i] = waiters[i]
                              \/ i = Len(waiters) + 1 /\ q[i] = c
      <4>1. DOMAIN q = 1 .. Len(waiters) + 1
        BY <3>1
      <4>2. \A i \in 1 .. Len(waiters) + 1 : i \in 1 .. Len(waiters) \/ i = Len(waiters) + 1
        BY <3>4
      <4>3. TAKE i \in DOMAIN q
      <4>4. CASE i = Len(waiters) + 1
        BY <3>1, <4>4
      <4>5. CASE i \in 1 .. Len(waiters)
        BY <3>1, <4>5, Zenon
      <4> QED BY <4>1, <4>2, <4>4, <4>5, Zenon
    <3>6. \A i, j \in DOMAIN q : q[i] = q[j] => i = j
      <4>1. TAKE i, j \in DOMAIN q
      <4>2. HAVE q[i] = q[j]
      <4>3. CASE i \in 1 .. Len(waiters) /\ q[i] = waiters[i]
        BY <3>3, <3>5, <4>2, <4>3, Zenon
      <4>4. CASE i = Len(waiters) + 1 /\ q[i] = c
        BY <3>3, <3>5, <4>2, <4>4, Zenon
      <4> QED BY <3>5, <4>3, <4>4, Zenon
    <3>7. \A i \in DOMAIN q : state'[q[i]] = "queued" /\ f[q[i]] \in {"pending", "cancelled"}
      <4>1. TAKE i \in DOMAIN q
      <4>2. CASE i \in 1 .. Len(waiters) /\ q[i] = waiters[i]
        BY <2>1, <3>2, <3>3, <4>2
      <4>3. CASE q[i] = c
        BY <2>1, <3>2, <4>3
      <4> QED BY <3>5, <4>2, <4>3
    <3>8. {x \in Callers : state'[x] = "queued" /\ f[x] = "true"} = Holders
      BY <1>1, <2>1, <3>2 DEF Holders
    <3>9. Len(q) <= MaxPending
      BY <3>1, <3>4, PendingAssumption
    <3>10. Cardinality(in_flight) + reserved <= MaxConcurrency /\ in_flight \subseteq Callers
      BY <1>2 DEF Ready
    <3>11. reserved = Cardinality(Holders)
      BY <1>1 DEF SlotsAreConserved, ReservationsAreHeld
    <3>12. Orderly(q, f, state')
      BY <3>6, <3>7, Zenon DEF Orderly
    <3>13. ~closed /\ closed \in BOOLEAN
      BY <1>5 DEF TypeOK
    <3> QED BY <2>1, <3>1, <3>2, <3>8, <3>9, <3>10, <3>11, <3>12, <3>13, Zenon DEF Ready
  <2>3. wake_waiters(q, f, deadline', in_flight', reserved)
    BY <1>5, <2>1
  <2> HIDE DEF q, f
  <2>4. Restored'
    BY <2>2, <2>3, WakeRestores
  <2>5. Rest'
    <3>1. deadline' \in [Callers -> Nat]
      BY <1>5, TimeoutAssumption DEF TypeOK
    <3>2. Closing'
      BY <1>1, <1>5 DEF Closing
    <3>3. Fresh' /\ ThreadsAreAccounted'
      BY <2>1 DEF Fresh, SlotsAreConserved, ThreadsAreAccounted
    <3> QED BY <1>1, <2>1, <3>1, <3>2, <3>3 DEF Rest, TypeOK
  <2> QED BY <2>4, <2>5, Reassemble
<1>6. CASE /\ ~closed /\ bound /\ ~Saturated
           /\ \/ dumps /\ submit(c)
              \/ ~dumps /\ finishes(c, "invalid")
           /\ wake_waiters(waiters, future, deadline, in_flight', reserved)
           /\ UNCHANGED deadline
  <2>1. /\ state' \in [Callers -> States]
        /\ state'[c] \in {"awaiting", "invalid"}
        /\ \A x \in Callers \ {c} : state'[x] = state[x]
        /\ in_flight' \in {in_flight, in_flight \cup {c}}
        /\ running' \subseteq in_flight'
        /\ running' \subseteq Callers
    <3>1. running \subseteq in_flight /\ running \subseteq Callers
      BY DEF TypeOK, SlotsAreConserved, ThreadsAreAccounted
    <3>2. CASE submit(c)
      BY <1>6, <3>1, <3>2, SubmitKeeps
    <3>3. CASE finishes(c, "invalid")
      <4>1. "invalid" \in States
        BY DEF States, Answers
      <4> QED BY <3>1, <3>3, <4>1, FinishesKeeps
    <3> QED BY <1>6, <3>2, <3>3
  <2>2. Cardinality(in_flight') + reserved <= MaxConcurrency
    <3>1. IsFiniteSet(in_flight) /\ Cardinality(in_flight) \in Nat
      BY CallersAssumption, FS_Subset, FS_CardinalityType DEF TypeOK
    <3>2. used < MaxConcurrency
      <4>1. used \in Nat
        BY <3>1 DEF used, TypeOK
      <4>2. ~(used >= MaxConcurrency)
        BY <1>6 DEF Saturated
      <4> QED BY <4>1, <4>2, ConcurrencyAssumption
    <3>3. Cardinality(in_flight') \in {Cardinality(in_flight), Cardinality(in_flight) + 1}
      BY <2>1, <3>1, FS_AddElement, Zenon
    <3> QED BY <3>1, <3>2, <3>3, ConcurrencyAssumption DEF used, TypeOK
  <2>3. {x \in Callers : state'[x] = "queued" /\ future[x] = "true"} = Holders
    BY <1>1, <2>1 DEF Holders
  <2>4. reserved = Cardinality(Holders)
    BY <1>1 DEF SlotsAreConserved, ReservationsAreHeld
  <2>5. waiters = <<>>
    BY <1>6 DEF Saturated
  <2>6. Ready(waiters, future, state', in_flight', reserved)
    <3>1. Orderly(waiters, future, state')
      BY <2>5 DEF Orderly
    <3>2. /\ waiters \in Seq(Callers) /\ future \in [Callers -> Futures]
          /\ Len(waiters) <= MaxPending /\ ~closed /\ closed \in BOOLEAN
          /\ in_flight' \subseteq Callers
      BY <1>2, <1>6, <2>1 DEF Ready
    <3> QED BY <2>2, <2>3, <2>4, <3>1, <3>2, Zenon DEF Ready
  <2>7. Restored'
    BY <1>6, <2>6, WakeRestores
  <2>8. Rest'
    <3>1. Closing'
      BY <1>1, <1>6 DEF Closing
    <3>2. Fresh' /\ ThreadsAreAccounted'
      BY <1>1, <2>1 DEF Fresh, SlotsAreConserved, ThreadsAreAccounted
    <3> QED BY <1>1, <1>6, <2>1, <3>1, <3>2 DEF Rest, TypeOK
  <2> QED BY <2>7, <2>8, Reassemble
<1> QED BY <1>4, <1>5, <1>6 DEF Intercept

(* A timer or somebody else cancels the caller's task: a pending future is *)
(* cancelled, and a slot granted before stays held until the task resumes. *)
LEMMA CancelInv ==
  ASSUME Inv, NEW c \in Callers, TimeoutFires(c) \/ CancelCaller(c)
  PROVE  Inv'
<1>1. TypeOK /\ Queueing /\ Closing /\ Fresh /\ SlotsAreConserved
  BY DEF Inv
<1>2. /\ state' \in [Callers -> States] /\ future' \in [Callers -> Futures]
      /\ signals' \in [Callers -> SUBSET {"timeout", "cancel"}]
      /\ \A x \in Callers : \/ state'[x] = state[x]
                            \/ state[x] = "awaiting" /\ state'[x] = "cancelled"
      /\ \A x \in Callers : \/ future'[x] = future[x]
                            \/ future[x] = "pending" /\ future'[x] = "cancelled"
      /\ UNCHANGED <<on_saturation, deadline, now, waiters, reserved, in_flight,
                     running, closed, executor, loop>>
  <2>1. ASSUME NEW signal \in {"timeout", "cancel"}, cancel(c, signal), UNCHANGED state
        PROVE  /\ future' \in [Callers -> Futures]
               /\ signals' \in [Callers -> SUBSET {"timeout", "cancel"}]
               /\ \A x \in Callers : \/ future'[x] = future[x]
                                     \/ future[x] = "pending" /\ future'[x] = "cancelled"
    BY <1>1, <2>1 DEF cancel, TypeOK, Futures
  <2>2. CASE TimeoutFires(c)
    BY <1>1, <2>1, <2>2 DEF TimeoutFires, TypeOK
  <2>3. CASE CancelCaller(c) /\ UNCHANGED state
    BY <1>1, <2>1, <2>3 DEF CancelCaller, TypeOK
  <2>4. CASE CancelCaller(c) /\ ~UNCHANGED state
    BY <1>1, <2>4 DEF CancelCaller, TypeOK, States, Answers
  <2> QED BY <2>2, <2>3, <2>4
<1>3. Holders' = Holders
  BY <1>2 DEF Holders
<1>4. \A x \in Callers : state'[x] # "raised"
  BY <1>1, <1>2 DEF SlotsAreConserved, ThreadsAreAccounted
<1>5. SlotsAreConserved'
  BY <1>2, <1>3, <1>4, NoSlotMoves
<1>6. Queueing'
  <2>1. ASSUME NEW i \in DOMAIN waiters
        PROVE  state'[waiters[i]] = "queued" /\ future'[waiters[i]] \in {"pending", "cancelled"}
    <3>1. waiters[i] \in Callers
      BY <1>1 DEF TypeOK
    <3>2. state[waiters[i]] = "queued" /\ future[waiters[i]] \in {"pending", "cancelled"}
      BY <1>1 DEF Queueing, Orderly
    <3> QED BY <1>2, <3>1, <3>2
  <2> QED BY <1>1, <1>2, <2>1 DEF Queueing, Orderly
<1>7. TypeOK' /\ Fresh'
  BY <1>1, <1>2 DEF TypeOK, Fresh
<1>8. Closing'
  <2>1. loop # "unbound"
    BY DEF TimeoutFires, CancelCaller
  <2> QED BY <1>1, <1>2, <2>1 DEF Closing
<1> QED BY <1>5, <1>6, <1>7, <1>8 DEF Inv

(* The holder of a slot resumes: its slot goes to the pool or onwards.     *)
LEMMA SlotHandedOn ==
  ASSUME Inv, loop = "alive", NEW c \in Callers,
         state[c] = "queued", future[c] = "true",
         state' \in [Callers -> States], state'[c] # "queued",
         \A x \in Callers \ {c} : state'[x] = state[x],
         in_flight' \in {in_flight, in_flight \cup {c}},
         wake_waiters(Unqueued(c), future, deadline, in_flight', reserved - 1)
  PROVE  Restored' /\ (closed => waiters' = <<>>)
<1>1. TypeOK /\ Queueing
  BY DEF Inv
<1>2. Ready(waiters, future, state, in_flight, reserved)
  BY InvIsReady
<1>3. \A i \in DOMAIN waiters : waiters[i] \in Callers /\ waiters[i] # c
  <2>1. TAKE i \in DOMAIN waiters
  <2>2. waiters[i] \in Callers
    BY <1>1 DEF TypeOK
  <2>3. future[waiters[i]] # "true"
    BY <1>1 DEF Queueing, Orderly
  <2> QED BY <2>2, <2>3
<1>4. Unqueued(c) = waiters
  BY <1>1, <1>3, UnqueuedIsOrderly
<1>5. IsFiniteSet(Holders) /\ Cardinality(Holders) = reserved /\ c \in Holders
  <2>1. Holders \subseteq Callers /\ c \in Holders
    BY DEF Holders
  <2>2. Cardinality(Holders) = reserved
    BY DEF Inv, SlotsAreConserved, ReservationsAreHeld
  <2> QED BY <2>1, <2>2, CallersAssumption, FS_Subset
<1>6. {x \in Callers : state'[x] = "queued" /\ future[x] = "true"} = Holders \ {c}
  BY DEF Holders
<1>7. reserved - 1 = Cardinality(Holders \ {c})
  BY <1>5, FS_RemoveElement, Zenon
<1>8. Cardinality(in_flight') + (reserved - 1) <= MaxConcurrency
  <2>1. IsFiniteSet(in_flight) /\ Cardinality(in_flight) \in Nat
    BY <1>1, CallersAssumption, FS_Subset, FS_CardinalityType DEF TypeOK
  <2>2. Cardinality(in_flight') \in {Cardinality(in_flight), Cardinality(in_flight) + 1}
    <3>1. CASE in_flight' = in_flight
      BY <3>1
    <3>2. CASE in_flight' = in_flight \cup {c}
      BY <2>1, <3>2, FS_AddElement, Zenon
    <3> QED BY <3>1, <3>2
  <2>3. Cardinality(in_flight) + reserved <= MaxConcurrency
    BY <1>2 DEF Ready
  <2>4. reserved \in Nat
    BY <1>1 DEF TypeOK
  <2> QED BY <2>1, <2>2, <2>3, <2>4, ConcurrencyAssumption
<1>9. Orderly(waiters, future, state')
  BY <1>1, <1>3 DEF Queueing, Orderly
<1>10. in_flight' \subseteq Callers
  BY <1>1 DEF TypeOK
<1>11. Ready(waiters, future, state', in_flight', reserved - 1)
  <2>1. /\ waiters \in Seq(Callers) /\ future \in [Callers -> Futures]
        /\ Len(waiters) <= MaxPending /\ closed \in BOOLEAN /\ (closed => waiters = <<>>)
    BY <1>2 DEF Ready
  <2> QED BY <1>6, <1>7, <1>8, <1>9, <1>10, <2>1, Zenon DEF Ready
<1> QED BY <1>4, <1>11, WakeRestores

(* A queued caller's task runs again.                                      *)
LEMMA ResumeInv ==
  ASSUME Inv, NEW c \in Callers, NEW dumps \in BOOLEAN, Resume(c, dumps)
  PROVE  Inv'
<1>1. TypeOK /\ Queueing /\ Closing /\ Fresh /\ SlotsAreConserved
  BY DEF Inv
<1>2. /\ loop = "alive" /\ state[c] = "queued" /\ future[c] \notin {"none", "pending"}
      /\ signals' = [signals EXCEPT ![c] = {}]
      /\ UNCHANGED <<on_saturation, deadline, now, closed, executor, loop>>
  BY DEF Resume
<1>3. signals' \in [Callers -> SUBSET {"timeout", "cancel"}]
  BY <1>1, <1>2 DEF TypeOK
<1>4. /\ state' \in [Callers -> States]
      /\ state'[c] \notin {"queued", "idle", "raised"}
      /\ \A x \in Callers \ {c} : state'[x] = state[x]
      /\ in_flight' \in {in_flight, in_flight \cup {c}}
      /\ running' \subseteq in_flight' /\ running' \subseteq Callers
      /\ ResumeUnadmitted(c) => in_flight' = in_flight /\ running' = running
  <2>1. running \subseteq in_flight /\ running \subseteq Callers
    BY <1>1 DEF TypeOK, SlotsAreConserved, ThreadsAreAccounted
  <2>2. {"denied", "cancelled", "invalid"} \subseteq States
    BY DEF States, Answers
  <2>3. ASSUME NEW answer \in {"denied", "cancelled", "invalid"}, finishes(c, answer)
        PROVE  <1>4!1 /\ <1>4!2 /\ <1>4!3 /\ in_flight' = in_flight /\ running' = running
    BY <2>2, <2>3, FinishesKeeps
  <2>4. CASE ResumeUnadmitted(c)
    BY <2>1, <2>3, <2>4 DEF ResumeUnadmitted
  <2>5. CASE ResumeGranted(c, dumps) /\ ~ResumeUnadmitted(c)
    <3>1. CASE \E answer \in {"denied", "invalid"} : finishes(c, answer)
      BY <2>1, <2>3, <2>5, <3>1
    <3>2. CASE ~closed /\ submit(c)
      BY <2>1, <2>5, <3>2, SubmitKeeps
    <3> QED BY <2>5, <3>1, <3>2 DEF ResumeGranted
  <2> QED BY <2>4, <2>5 DEF Resume
<1>5. CASE future[c] = "true"
  <2>1. wake_waiters(Unqueued(c), future, deadline, in_flight', reserved - 1)
    <3>1. CASE ResumeUnadmitted(c)
      BY <1>4, <1>5, <3>1 DEF ResumeUnadmitted
    <3>2. CASE ResumeGranted(c, dumps)
      BY <3>2 DEF ResumeGranted
    <3> QED BY <3>1, <3>2 DEF Resume
  <2>2. Restored' /\ (closed => waiters' = <<>>)
    BY <1>2, <1>4, <1>5, <2>1, SlotHandedOn
  <2>3. Closing'
    BY <1>1, <1>2, <2>2 DEF Closing
  <2>4. Fresh' /\ ThreadsAreAccounted'
    BY <1>1, <1>2, <1>4 DEF Fresh, SlotsAreConserved, ThreadsAreAccounted
  <2>5. in_flight' \subseteq Callers
    BY <1>1, <1>4 DEF TypeOK
  <2>6. Rest'
    BY <1>1, <1>2, <1>3, <1>4, <2>3, <2>4, <2>5 DEF Rest, TypeOK
  <2> QED BY <2>2, <2>6, Reassemble
<1>6. CASE future[c] # "true"
  <2>1. ResumeUnadmitted(c) /\ waiters' = Unqueued(c) /\ UNCHANGED <<future, reserved>>
    BY <1>6 DEF Resume, ResumeUnadmitted, ResumeGranted
  <2>2. in_flight' = in_flight /\ running' = running
    BY <1>4, <2>1
  <2>3. /\ waiters' \in Seq(Callers)
        /\ Len(waiters') <= Len(waiters)
        /\ waiters' # <<>> => waiters # <<>>
        /\ \A i, j \in DOMAIN waiters' : waiters'[i] = waiters'[j] => i = j
        /\ \A i \in DOMAIN waiters' :
              waiters'[i] # c /\ \E j \in DOMAIN waiters : waiters'[i] = waiters[j]
    BY <1>1, <2>1, UnqueuedIsOrderly
  <2>4. Queueing'
    <3>1. ASSUME NEW i \in DOMAIN waiters'
          PROVE  /\ state'[waiters'[i]] = "queued"
                 /\ future'[waiters'[i]] \in {"pending", "cancelled"}
      <4>1. PICK j \in DOMAIN waiters : waiters'[i] = waiters[j]
        BY <2>3
      <4>2. waiters[j] \in Callers \ {c}
        BY <1>1, <2>3, <4>1 DEF TypeOK
      <4>3. state[waiters[j]] = "queued" /\ future[waiters[j]] \in {"pending", "cancelled"}
        BY <1>1 DEF Queueing, Orderly
      <4> QED BY <1>4, <2>1, <4>1, <4>2, <4>3
    <3> QED BY <2>3, <3>1 DEF Queueing, Orderly
  <2>5. Holders' = Holders
    BY <1>4, <1>6, <2>1 DEF Holders
  <2>6. SlotsAreConserved'
    <3>1. ReservationsAreHeld' /\ ThreadsAreAccounted'
      BY <1>1, <1>2, <1>4, <2>1, <2>5 DEF SlotsAreConserved, ReservationsAreHeld, ThreadsAreAccounted
    <3>2. Len(waiters) \in Nat /\ Len(waiters') \in Nat
      BY <1>1, <2>3 DEF TypeOK
    <3>3. CapacityIsBounded' /\ QueuedOnlyWhenFull'
      BY <1>1, <1>2, <2>1, <2>2, <2>3, <3>2, PendingAssumption
         DEF SlotsAreConserved, CapacityIsBounded, QueuedOnlyWhenFull, used
    <3> QED BY <3>1, <3>3 DEF SlotsAreConserved
  <2>7. TypeOK' /\ Fresh'
    BY <1>1, <1>2, <1>3, <1>4, <2>1, <2>2, <2>3 DEF TypeOK, Fresh
  <2>8. Closing'
    BY <1>1, <1>2, <2>3 DEF Closing
  <2> QED BY <2>4, <2>6, <2>7, <2>8 DEF Inv
<1> QED BY <1>5, <1>6

(* A thread ends, and the loop's clock goes on: no slot moves.             *)
LEMMA BackgroundInv ==
  ASSUME Inv, Tick \/ \E c \in Callers : WorkerDone(c)
  PROVE  Inv'
<1>1. TypeOK /\ Queueing /\ Closing /\ Fresh /\ SlotsAreConserved
  BY DEF Inv
<1>2. /\ UNCHANGED <<on_saturation, state, future, signals, deadline, waiters,
                     reserved, in_flight, closed, executor, loop>>
      /\ running' \subseteq running
      /\ now' \in Nat
  BY <1>1 DEF Tick, WorkerDone, TypeOK
<1>3. Holders' = Holders
  BY <1>2 DEF Holders
<1>4. SlotsAreConserved'
  BY <1>1, <1>2, <1>3, NoSlotMoves DEF SlotsAreConserved, ThreadsAreAccounted
<1>5. TypeOK'
  BY <1>1, <1>2 DEF TypeOK
<1>6. Queueing' /\ Closing' /\ Fresh'
  BY <1>1, <1>2 DEF Queueing, Orderly, Closing, Fresh
<1> QED BY <1>4, <1>5, <1>6 DEF Inv

(* The done callback of an evaluation frees its slot and hands it on.      *)
LEMMA CompletedInv ==
  ASSUME Inv, NEW c \in Callers, Completed(c)
  PROVE  Inv'
<1>1. TypeOK /\ Queueing /\ Closing /\ Fresh /\ SlotsAreConserved
  BY DEF Inv
<1>2. /\ loop = "alive" /\ c \in in_flight \ running
      /\ in_flight' = in_flight \ {c}
      /\ wake_waiters(waiters, future, deadline, in_flight', reserved)
      /\ UNCHANGED <<on_saturation, signals, deadline, now, running, closed, executor, loop>>
  BY DEF Completed
<1>3. /\ state' \in [Callers -> States]
      /\ \A x \in Callers \ {c} : state'[x] = state[x]
      /\ \/ state'[c] = state[c]
         \/ state[c] = "awaiting" /\ state'[c] = "answered"
  <2>1. state \in [Callers -> States] /\ "answered" \in States
    BY <1>1 DEF TypeOK, States, Answers
  <2>2. state' = [state EXCEPT ![c] = IF state[c] = "awaiting" THEN "answered" ELSE state[c]]
    BY DEF Completed
  <2> QED BY <2>1, <2>2
<1>4. {x \in Callers : state'[x] = "queued" /\ future[x] = "true"} = Holders
  BY <1>3 DEF Holders
<1>5. reserved = Cardinality(Holders)
  BY <1>1, <1>2 DEF SlotsAreConserved, ReservationsAreHeld
<1>6. Cardinality(in_flight') + reserved <= MaxConcurrency
  <2>1. IsFiniteSet(in_flight) /\ Cardinality(in_flight) \in Nat
    BY <1>1, CallersAssumption, FS_Subset, FS_CardinalityType DEF TypeOK
  <2>2. Cardinality(in_flight') = Cardinality(in_flight) - 1
    BY <1>2, <2>1, FS_RemoveElement
  <2>3. Cardinality(in_flight) + reserved <= MaxConcurrency
    BY <1>1 DEF SlotsAreConserved, CapacityIsBounded, used
  <2> QED BY <1>1, <2>1, <2>2, <2>3, ConcurrencyAssumption DEF TypeOK
<1>7. Orderly(waiters, future, state')
  <2>1. ASSUME NEW i \in DOMAIN waiters
        PROVE  state'[waiters[i]] = "queued" /\ future[waiters[i]] \in {"pending", "cancelled"}
    <3>1. waiters[i] \in Callers
      BY <1>1 DEF TypeOK
    <3>2. state[waiters[i]] = "queued" /\ future[waiters[i]] \in {"pending", "cancelled"}
      BY <1>1 DEF Queueing, Orderly
    <3> QED BY <1>3, <3>1, <3>2
  <2> QED BY <1>1, <2>1 DEF Queueing, Orderly
<1>8. Ready(waiters, future, state', in_flight', reserved)
  <2>1. Ready(waiters, future, state, in_flight, reserved)
    BY <1>2, InvIsReady
  <2>2. /\ waiters \in Seq(Callers) /\ future \in [Callers -> Futures]
        /\ Len(waiters) <= MaxPending /\ closed \in BOOLEAN /\ (closed => waiters = <<>>)
        /\ in_flight' \subseteq Callers
    BY <1>2, <2>1 DEF Ready
  <2> QED BY <1>4, <1>5, <1>6, <1>7, <2>2, Zenon DEF Ready
<1>9. Restored' /\ (closed => waiters' = <<>>)
  BY <1>2, <1>8, WakeRestores
<1>10. Rest'
  <2>1. Closing'
    BY <1>1, <1>2, <1>9 DEF Closing
  <2>2. Fresh'
    BY <1>1, <1>2, <1>3 DEF Fresh
  <2>3. ThreadsAreAccounted'
    BY <1>1, <1>2, <1>3 DEF SlotsAreConserved, ThreadsAreAccounted
  <2> QED BY <1>1, <1>2, <1>3, <2>1, <2>2, <2>3 DEF Rest, TypeOK
<1> QED BY <1>9, <1>10, Reassemble

(* aclose empties the queue and keeps the slots that are still held.       *)
LEMMA AcloseInv ==
  ASSUME Inv, Aclose
  PROVE  Inv'
<1>1. TypeOK /\ Queueing /\ Closing /\ Fresh /\ SlotsAreConserved
  BY DEF Inv
<1>2. /\ loop # "dead" /\ loop' = "alive" /\ closed' = TRUE /\ waiters' = <<>>
      /\ UNCHANGED <<on_saturation, state, signals, deadline, now, reserved,
                     in_flight, running, executor>>
  BY DEF Aclose
<1>3. /\ future' \in [Callers -> Futures]
      /\ \A x \in Callers : \/ future'[x] = future[x]
                            \/ future[x] = "pending" /\ future'[x] = "false"
  BY <1>1 DEF Aclose, TypeOK, Futures
<1>4. Holders' = Holders
  BY <1>2, <1>3 DEF Holders
<1>5. waiters' \in Seq(Callers) /\ Len(waiters') = 0 /\ DOMAIN waiters' = {}
  BY <1>2
<1>6. SlotsAreConserved'
  BY <1>1, <1>2, <1>4, <1>5, PendingAssumption
     DEF SlotsAreConserved, ReservationsAreHeld, CapacityIsBounded,
         ThreadsAreAccounted, QueuedOnlyWhenFull, used
<1>7. TypeOK'
  BY <1>1, <1>2, <1>3, <1>5 DEF TypeOK
<1>8. Queueing' /\ Closing' /\ Fresh'
  BY <1>1, <1>2, <1>5 DEF Queueing, Orderly, Closing, Fresh
<1> QED BY <1>6, <1>7, <1>8 DEF Inv

(* The pool is drained, the loop dies, close begins.                       *)
LEMMA ShutdownInv ==
  ASSUME Inv, Drain \/ LoopDies \/ CloseBegin
  PROVE  Inv'
<1>1. TypeOK /\ Queueing /\ Closing /\ Fresh /\ SlotsAreConserved
  BY DEF Inv
<1>2. /\ UNCHANGED <<on_saturation, state, future, signals, deadline, now,
                     waiters, reserved, in_flight, running>>
      /\ loop' \in {loop, "dead"} /\ closed' \in BOOLEAN
      /\ executor' \in {"open", "shutdown"}
      /\ Closing'
  BY <1>1 DEF Drain, LoopDies, CloseBegin, TypeOK, Closing
<1>3. Holders' = Holders
  BY <1>2 DEF Holders
<1>4. SlotsAreConserved'
  BY <1>1, <1>2, <1>3
     DEF SlotsAreConserved, ReservationsAreHeld, CapacityIsBounded,
         ThreadsAreAccounted, QueuedOnlyWhenFull, used
<1>5. TypeOK'
  BY <1>1, <1>2 DEF TypeOK
<1>6. Queueing' /\ Fresh'
  BY <1>1, <1>2 DEF Queueing, Orderly, Fresh
<1> QED BY <1>2, <1>4, <1>5, <1>6 DEF Inv

(* close discards the bookkeeping of a loop that is gone, once every       *)
(* thread has been joined.                                                 *)
LEMMA CloseEndInv ==
  ASSUME Inv, CloseEnd
  PROVE  Inv'
<1>1. TypeOK /\ Queueing /\ Closing /\ Fresh /\ SlotsAreConserved
  BY DEF Inv
<1>2. /\ loop # "alive" /\ closed /\ executor = "shutdown" /\ running = {}
      /\ in_flight' = {} /\ waiters' = <<>> /\ reserved' = 0
      /\ UNCHANGED <<on_saturation, state, future, signals, deadline, now,
                     running, closed, executor, loop>>
  BY DEF CloseEnd
<1>3. loop = "unbound" => Holders' = {}
  BY <1>1, <1>2 DEF Closing, Holders, TypeOK
<1>4. waiters' \in Seq(Callers) /\ Len(waiters') = 0 /\ DOMAIN waiters' = {}
  BY <1>2
<1>5. Cardinality(in_flight') = 0 /\ (loop = "unbound" => Cardinality(Holders') = 0)
  BY <1>2, <1>3, FS_EmptySet
<1>6. SlotsAreConserved'
  BY <1>1, <1>2, <1>4, <1>5, PendingAssumption, ConcurrencyAssumption
     DEF SlotsAreConserved, ReservationsAreHeld, CapacityIsBounded,
         ThreadsAreAccounted, QueuedOnlyWhenFull, used, TypeOK
<1>7. TypeOK'
  BY <1>1, <1>2, <1>4 DEF TypeOK
<1>8. Queueing' /\ Closing' /\ Fresh'
  BY <1>1, <1>2, <1>4 DEF Queueing, Orderly, Closing, Fresh
<1> QED BY <1>6, <1>7, <1>8 DEF Inv

(* Every step of the interceptor keeps the invariant.                      *)
LEMMA NextInv == Inv /\ [Next]_vars => Inv'
<1> SUFFICES ASSUME Inv, [Next]_vars PROVE Inv'
  OBVIOUS
<1>1. CASE UNCHANGED vars
  <2>1. TypeOK' /\ Queueing' /\ Closing' /\ Fresh'
    BY <1>1 DEF vars, Inv, TypeOK, Queueing, Orderly, Closing, Fresh
  <2>2. Holders' = Holders
    BY <1>1 DEF vars, Holders
  <2>3. SlotsAreConserved'
    BY <1>1, <2>2, NoSlotMoves DEF vars, Inv, SlotsAreConserved, ThreadsAreAccounted
  <2> QED BY <2>1, <2>3 DEF Inv
<1>2. CASE Next
  BY <1>2, InterceptInv, CancelInv, ResumeInv, BackgroundInv, CompletedInv, AcloseInv,
     ShutdownInv, CloseEndInv DEF Next
<1> QED BY <1>1, <1>2

(* The bookkeeping is consistent in every reachable state, whatever the    *)
(* callers, the timers, the threads and the closes do.                     *)
THEOREM Invariance == Spec => []Inv
BY InitInv, NextInv, PTL DEF Spec

(* Slots are conserved for any number of callers, any concurrency, queue   *)
(* length and admission timeout: every reserved slot has exactly one       *)
(* holder, the pool and the queue keep their bounds, no capacity is given  *)
(* back while its thread runs, and nobody waits while a slot is free.      *)
THEOREM SlotSafety == Spec => []SlotsAreConserved
<1>1. Inv => SlotsAreConserved
  BY DEF Inv
<1> QED BY <1>1, Invariance, PTL

-----------------------------------------------------------------------------
(* No live waiter is overtaken                                             *)

(* A wake over the queue, possibly with a newcomer at its end, grants no   *)
(* slot behind a waiter that stays live: what it pops is a prefix, and a   *)
(* live waiter in that prefix is granted itself.                           *)
LEMMA WakeKeepsTurn ==
  ASSUME Inv, NEW q, NEW f, NEW d, NEW k \in 0 .. Len(q), NEW G,
         q \in Seq(Callers), Serves(q, f, d, k, G),
         Len(waiters) <= Len(q),
         \A i \in 1 .. Len(waiters) : q[i] = waiters[i],
         \A i \in 1 .. Len(waiters) : /\ f[waiters[i]] = future[waiters[i]]
                                      /\ d[waiters[i]] = deadline[waiters[i]],
         NEW i \in DOMAIN waiters,
         future[waiters[i]] = "pending", future'[waiters[i]] = "pending",
         now < deadline[waiters[i]]
  PROVE  \A j \in (i + 1) .. Len(waiters) : future'[waiters[j]] # "true"
<1>1. waiters \in Seq(Callers) /\ Len(waiters) \in Nat /\ DOMAIN waiters = 1 .. Len(waiters)
  BY DEF Inv, TypeOK
<1>2. /\ \A x, y \in DOMAIN waiters : waiters[x] = waiters[y] => x = y
      /\ \A x \in DOMAIN waiters : future[waiters[x]] \in {"pending", "cancelled"}
  BY DEF Inv, Queueing, Orderly
<1>3. ~(i <= k)
  <2>1. SUFFICES ASSUME i <= k PROVE FALSE
    OBVIOUS
  <2>2. i \in 1 .. k /\ q[i] = waiters[i] /\ waiters[i] \in Callers
    BY <1>1, <2>1
  <2>3. Live(waiters[i], f, d)
    BY <1>1 DEF Live
  <2>4. waiters[i] \in G
    BY <2>2, <2>3, Zenon DEF Serves
  <2> QED BY <2>4 DEF Serves
<1>4. TAKE j \in (i + 1) .. Len(waiters)
<1>5. j \in 1 .. Len(waiters) /\ k < j /\ waiters[j] \in Callers
  BY <1>1, <1>3
<1>6. \A x \in 1 .. k : q[x] # waiters[j]
  <2>1. TAKE x \in 1 .. k
  <2>2. x \in 1 .. Len(waiters) /\ x # j
    BY <1>1, <1>5
  <2> QED BY <1>1, <1>2, <1>5, <2>2
<1>7. future'[waiters[j]] = f[waiters[j]]
  BY <1>5, <1>6, Zenon DEF Serves
<1> QED BY <1>1, <1>2, <1>5, <1>7

(* No step of the interceptor lets a waiter be overtaken.                  *)
LEMMA NextKeepsTurn == Inv /\ [Next]_vars => [TurnIsKept]_vars
<1> SUFFICES ASSUME Inv, Next PROVE TurnIsKept
  OBVIOUS
<1>1. TypeOK /\ Queueing /\ Closing /\ Fresh
  BY DEF Inv
<1>2. waiters \in Seq(Callers) /\ Len(waiters) \in Nat /\ DOMAIN waiters = 1 .. Len(waiters)
  BY <1>1 DEF TypeOK
<1>3. SUFFICES ASSUME NEW i \in DOMAIN waiters,
                      future[waiters[i]] = "pending", future'[waiters[i]] = "pending",
                      now < deadline[waiters[i]]
               PROVE  /\ \A c \in Callers : state[c] = "idle" => c \notin in_flight'
                      /\ \A j \in (i + 1) .. Len(waiters) : future'[waiters[j]] # "true"
  BY Zenon DEF TurnIsKept
<1> DEFINE Kept == /\ \A c \in Callers : state[c] = "idle" => c \notin in_flight'
                   /\ \A j \in (i + 1) .. Len(waiters) : future'[waiters[j]] # "true"
<1>4. waiters # <<>>
  BY <1>2, <1>3
\* Where no future is granted nothing behind i is.
<1>5. ASSUME \A x \in Callers : future'[x] = future[x] \/ future'[x] # "true"
      PROVE  \A j \in (i + 1) .. Len(waiters) : future'[waiters[j]] # "true"
  <2>1. TAKE j \in (i + 1) .. Len(waiters)
  <2>2. j \in DOMAIN waiters /\ waiters[j] \in Callers
    BY <1>2
  <2>3. future[waiters[j]] # "true"
    BY <1>1, <2>2 DEF Queueing, Orderly
  <2> QED BY <1>5, <2>2, <2>3
\* A wake over the queue itself.
<1>6. ASSUME NEW flying, NEW n, wake_waiters(waiters, future, deadline, flying, n)
      PROVE  \A j \in (i + 1) .. Len(waiters) : future'[waiters[j]] # "true"
  <2>1. future \in [Callers -> Futures] /\ closed \in BOOLEAN
    BY <1>1 DEF TypeOK
  <2>2. \E k \in 0 .. Len(waiters) : \E G : Serves(waiters, future, deadline, k, G)
    BY <1>2, <1>6, <2>1, PrefixServed
  <2> QED BY <1>2, <1>3, <2>2, WakeKeepsTurn
<1>7. ASSUME NEW c \in Callers, NEW bound \in BOOLEAN, NEW dumps \in BOOLEAN,
             Intercept(c, bound, dumps)
      PROVE  Kept
  <2>1. Saturated
    BY <1>4 DEF Saturated
  <2>2. in_flight' = in_flight
    BY <1>7, <2>1 DEF Intercept, finishes
  <2>3. CASE UNCHANGED future
    BY <1>1, <1>5, <2>2, <2>3 DEF Fresh
  <2>4. CASE ~UNCHANGED future
    <3> DEFINE q == Append(waiters, c)
               f == [future EXCEPT ![c] = "pending"]
    <3>1. /\ state[c] = "idle"
          /\ deadline' = [deadline EXCEPT ![c] = now + AdmissionTimeout]
          /\ wake_waiters(q, f, deadline', in_flight, reserved)
      BY <1>7, <2>1, <2>4 DEF Intercept
    <3>2. /\ q \in Seq(Callers) /\ Len(waiters) <= Len(q)
          /\ \A x \in 1 .. Len(waiters) : q[x] = waiters[x]
      BY <1>2
    <3>3. f \in [Callers -> Futures] /\ closed \in BOOLEAN
      BY <1>1 DEF TypeOK, Futures
    <3>4. \A x \in 1 .. Len(waiters) : waiters[x] \in Callers /\ waiters[x] # c
      BY <1>1, <1>2, <3>1 DEF Queueing, Orderly
    <3>5. \A x \in 1 .. Len(waiters) : /\ f[waiters[x]] = future[waiters[x]]
                                       /\ deadline'[waiters[x]] = deadline[waiters[x]]
      BY <1>1, <3>1, <3>4 DEF TypeOK
    <3> HIDE DEF q, f
    <3>6. \E k \in 0 .. Len(q) : \E G : Serves(q, f, deadline', k, G)
      BY <3>1, <3>2, <3>3, PrefixServed
    <3>7. \A j \in (i + 1) .. Len(waiters) : future'[waiters[j]] # "true"
      BY <1>3, <3>2, <3>5, <3>6, WakeKeepsTurn
    <3> QED BY <1>1, <2>2, <3>7 DEF Fresh
  <2> QED BY <2>3, <2>4
<1>8. ASSUME NEW c \in Callers, NEW dumps \in BOOLEAN, Resume(c, dumps)
      PROVE  Kept
  <2>1. state[c] = "queued"
    BY <1>8 DEF Resume
  <2>2. in_flight' \subseteq in_flight \cup {c}
    BY <1>8 DEF Resume, ResumeUnadmitted, ResumeGranted, finishes, submit
  <2>3. \A x \in Callers : state[x] = "idle" => x \notin in_flight'
    BY <1>1, <2>1, <2>2 DEF Fresh
  <2>4. CASE UNCHANGED future
    BY <1>5, <2>3, <2>4
  <2>5. CASE ~UNCHANGED future
    <3>1. future[c] = "true" /\ \E flying, n : wake_waiters(Unqueued(c), future, deadline, flying, n)
      BY <1>8, <2>5 DEF Resume, ResumeUnadmitted, ResumeGranted
    <3>2. \A x \in DOMAIN waiters : waiters[x] # c
      BY <1>1, <3>1 DEF Queueing, Orderly
    <3>3. Unqueued(c) = waiters
      BY <1>1, <3>2, UnqueuedIsOrderly
    <3> QED BY <1>6, <2>3, <3>1, <3>3
  <2> QED BY <2>4, <2>5
<1>9. ASSUME NEW c \in Callers, Completed(c)
      PROVE  Kept
  <2>1. /\ in_flight' \subseteq in_flight
        /\ wake_waiters(waiters, future, deadline, in_flight', reserved)
    BY <1>9 DEF Completed
  <2> QED BY <1>1, <1>6, <2>1 DEF Fresh
<1>10. ASSUME /\ in_flight' \subseteq in_flight
              /\ \A x \in Callers : future'[x] = future[x] \/ future'[x] # "true"
       PROVE  Kept
  BY <1>1, <1>5, <1>10 DEF Fresh
<1>11. ASSUME NEW c \in Callers, TimeoutFires(c) \/ CancelCaller(c)
       PROVE  Kept
  BY <1>1, <1>10, <1>11 DEF TimeoutFires, CancelCaller, cancel, TypeOK
<1>12. ASSUME Aclose
       PROVE  Kept
  BY <1>10, <1>12 DEF Aclose
<1>13. ASSUME Tick \/ (\E c \in Callers : WorkerDone(c)) \/ Drain \/ LoopDies
              \/ CloseBegin \/ CloseEnd
       PROVE  Kept
  BY <1>10, <1>13 DEF Tick, WorkerDone, Drain, LoopDies, CloseBegin, CloseEnd
<1> QED BY <1>7, <1>8, <1>9, <1>11, <1>12, <1>13 DEF Next

(* A live waiter is never overtaken, by a newcomer or by one behind it,    *)
(* for any number of callers and any order of events.                      *)
THEOREM TurnSafety == Spec => NoOvertaking
BY Invariance, NextKeepsTurn, PTL DEF Spec, NoOvertaking
=============================================================================

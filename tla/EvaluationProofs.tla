-------------------------- MODULE EvaluationProofs --------------------------
(***************************************************************************)
(* Proofs about one evaluation and its parts: the stages from the snapshot *)
(* to the verdict (EvaluationPipeline), the call of an annotator           *)
(* (AnnotatorDispatch), the cache of prepared Cedar policy sets            *)
(* (CedarCache) and the search that fits evidence under its cap            *)
(* (EvidenceCap).                                                          *)
(***************************************************************************)
EXTENDS EvaluationPipeline, AnnotatorDispatch, CedarCache, EvidenceCap, TLAPS,
        FiniteSetTheorems, SequenceTheorems, WellFoundedInduction

-----------------------------------------------------------------------------
(* The pipeline.  For any annotators, needs, limits and outputs of the     *)
(* policy, annotation_dispatch_order finds the least order that satisfies  *)
(* the needs or there is none, an annotator sees the results of what it    *)
(* needs and of nothing else, and whatever fails is a deny.                *)
(*                                                                         *)
(* The order is Kahn's algorithm, and its proof goes through what the      *)
(* counters stand for (Counting), the choice it makes at every turn        *)
(* (Greedy), and the least position at which two orders differ.            *)

-----------------------------------------------------------------------------
(* The inductive invariant                                                 *)

Phases == Evaluating \cup {"reading", "rejected", "ordering", "cyclic"}
Running == {"annotating", "deciding"}

TypeOK ==
  /\ chaining \in BOOLEAN
  /\ declared \in SUBSET Annotators
  /\ needs \in [Annotators -> Seq(Annotators)]
  /\ from \in [Annotators -> Froms]
  /\ phase \in Phases
  /\ unread \in SUBSET declared
  /\ order \in Seq(declared)
  /\ given \in Nat

\* validate_point_config has accepted the binding of a.
Accepted(a) ==
  /\ IsInjective(needs[a])
  /\ ToSet(needs[a]) \subseteq declared
  /\ from[a] \in Annotators => from[a] \in ToSet(needs[a])

Validated ==
  /\ phase # "rejected" => \A a \in declared \ unread : Accepted(a)
  /\ phase \notin {"reading", "rejected"} => unread = {}

\* a is not among the annotators in S, and all it needs are.
Enabled(a, S) == a \notin S /\ ToSet(needs[a]) \subseteq S

\* The counters and the queue say what is left to do.
Counting ==
  phase = "ordering" =>
    /\ remaining \in [Annotators -> Int]
    /\ \A b \in declared : remaining[b] = Cardinality(ToSet(needs[b]) \ ToSet(order))
    /\ ready = {b \in declared : Enabled(b, ToSet(order))}

\* At every turn the least of the annotators that could run was taken.
Greedy(p) ==
  \A i \in DOMAIN p : LET before == {p[j] : j \in 1 .. i - 1} IN
    \A b \in declared : Enabled(b, before) => Rank(p[i]) <= Rank(b)

Ordered ==
  /\ phase \in {"reading", "rejected"} => order = <<>>
  /\ IsInjective(order) /\ IsOrder(order) /\ Greedy(order)
  /\ phase \in Evaluating => ToSet(order) = declared
  /\ phase = "cyclic" => /\ ToSet(order) # declared
                         /\ \A b \in declared : ~Enabled(b, ToSet(order))

\* The first annotators of the order have given their results.
Collected ==
  /\ DOMAIN annotations = {order[i] : i \in 1 .. Cardinality(DOMAIN annotations)}
  /\ Cardinality(DOMAIN annotations) \in 0 .. Len(order)
  /\ \A a \in DOMAIN annotations : annotations[a] \in 0 .. MaxDepth
  /\ phase \notin Evaluating => annotations = empty /\ seen = empty

\* Who has been called was shown results that are still there.
Shown ==
  \A a \in DOMAIN seen :
    /\ a \in declared
    /\ ToSet(needs[a]) \subseteq DOMAIN annotations
    /\ seen[a] = [b \in ToSet(needs[a]) |-> annotations[b]]

\* What is handed out keeps to the limit, and nothing has failed yet.
Bounded ==
  /\ given <= MaxDepth
  /\ phase \in Running => base \in 2 .. MaxDepth
  /\ phase = "deciding" =>
       DOMAIN annotations = declared /\ depth_with(annotations) <= MaxDepth
  /\ phase # "done" => reports = {}

Inv ==
  /\ TypeOK /\ Validated /\ Counting /\ Ordered
  /\ Collected /\ Shown /\ Bounded /\ DecisionIsEarned /\ VerdictIsValid

-----------------------------------------------------------------------------
(* Numbers, sequences and names                                            *)

(* A set of natural numbers that is not empty has a least one: what an     *)
(* induction over the positions of an order rests on.                      *)
LEMMA LeastNumber ==
  ASSUME NEW T, T \subseteq Nat, T # {}
  PROVE  \E m \in T : \A n \in T : m <= n
<1> DEFINE R == {ss \in Nat \X Nat : ss[1] < ss[2]}
<1>1. IsWellFoundedOn(R, Nat)
  BY NatLessThanWellFounded, Zenon DEF OpToRel
<1>2. \A n, m \in Nat : n < m => <<n, m>> \in R
  BY SMT DEF R
<1> HIDE DEF R
<1>3. PICK m \in T : \A n \in T : ~(<<n, m>> \in R)
  BY <1>1, WFMin, Zenon
<1>4. \A n \in T : ~(n < m)
  BY <1>2, <1>3, Zenon
<1>5. \A n \in T : m <= n
  BY <1>4
<1> QED BY <1>5

(* The least and the greatest number of a set that is bounded.             *)
LEMMA MinIs ==
  ASSUME NEW T, T \subseteq Nat, T # {}
  PROVE  Min(T) \in T /\ \A n \in T : Min(T) <= n
BY LeastNumber DEF Min

LEMMA MaxIs ==
  ASSUME NEW T, T \subseteq Nat, T # {}, NEW B \in Nat, \A n \in T : n <= B
  PROVE  Max(T) \in T /\ \A n \in T : Max(T) >= n
<1> DEFINE U == {B - n : n \in T}
<1>1. U \subseteq Nat /\ U # {}
  <2>1. \A n \in T : B - n \in Nat
    OBVIOUS
  <2> QED BY <2>1
<1> HIDE DEF U
<1>2. PICK u \in U : \A v \in U : u <= v
  BY <1>1, LeastNumber
<1>3. PICK m \in T : u = B - m
  BY <1>2 DEF U
<1>4. \A n \in T : m >= n
  <2>1. SUFFICES ASSUME NEW n \in T PROVE m >= n
    OBVIOUS
  <2>2. B - n \in U
    BY DEF U
  <2>3. B - m <= B - n
    BY <1>2, <1>3, <2>2
  <2> QED BY <2>3
<1> QED BY <1>4 DEF Max

LEMMA MaxOfTwo ==
  ASSUME NEW m \in Nat, NEW n \in Nat
  PROVE  /\ Max({m, n}) \in Nat
         /\ Max({m, n}) \in {m, n}
         /\ Max({m, n}) >= m /\ Max({m, n}) >= n
<1>1. Max({m, n}) \in {m, n} /\ \A k \in {m, n} : Max({m, n}) >= k
  <2>1. \A k \in {m, n} : k <= m + n
    OBVIOUS
  <2> QED BY <2>1, MaxIs
<1> QED BY <1>1

(* A list of distinct annotators has as many elements as entries.          *)
LEMMA ListIsSet ==
  ASSUME NEW S, NEW s \in Seq(S)
  PROVE  /\ IsFiniteSet(ToSet(s))
         /\ ToSet(s) \subseteq S
         /\ IsInjective(s) => Cardinality(ToSet(s)) = Len(s)
<1>1. s \in Surjection(1 .. Len(s), ToSet(s))
  BY DEF Surjection, ToSet
<1>2. IsFiniteSet(1 .. Len(s)) /\ Cardinality(1 .. Len(s)) = Len(s)
  <2>1. Len(s) \in Nat
    OBVIOUS
  <2>2. /\ IsFiniteSet(1 .. Len(s))
        /\ Cardinality(1 .. Len(s)) = IF 1 > Len(s) THEN 0 ELSE Len(s) - 1 + 1
    BY <2>1, FS_Interval
  <2> QED BY <2>1, <2>2
<1>3. IsInjective(s) => s \in Injection(1 .. Len(s), ToSet(s))
  BY <1>1 DEF Injection, Surjection
<1>4. ToSet(s) \subseteq S
  BY DEF ToSet
<1> QED BY <1>1, <1>2, <1>3, <1>4, FS_Surjection, Zenon

LEMMA Appended ==
  ASSUME NEW S, NEW s \in Seq(S), NEW a \in S
  PROVE  /\ Append(s, a) \in Seq(S)
         /\ ToSet(Append(s, a)) = ToSet(s) \cup {a}
         /\ IsInjective(s) /\ a \notin ToSet(s) => IsInjective(Append(s, a))
         /\ \A i \in DOMAIN s : Append(s, a)[i] = s[i]
         /\ Append(s, a)[Len(s) + 1] = a
         /\ DOMAIN Append(s, a) = DOMAIN s \cup {Len(s) + 1}
         /\ DOMAIN s = 1 .. Len(s)
<1>1. /\ Append(s, a) \in Seq(S)
      /\ \A i \in DOMAIN s : Append(s, a)[i] = s[i]
      /\ Append(s, a)[Len(s) + 1] = a
      /\ DOMAIN Append(s, a) = DOMAIN s \cup {Len(s) + 1}
      /\ DOMAIN s = 1 .. Len(s) /\ Len(s) \in Nat
  OBVIOUS
<1>2. ToSet(Append(s, a)) = ToSet(s) \cup {a}
  BY <1>1 DEF ToSet
<1>3. IsInjective(s) /\ a \notin ToSet(s) => IsInjective(Append(s, a))
  BY <1>1 DEF IsInjective, ToSet
<1> QED BY <1>1, <1>2, <1>3

(* Every annotator has a place of its own among the names.                 *)
LEMMA RankIs ==
  /\ \A a \in Annotators : Rank(a) \in 1 .. Len(Names) /\ Names[Rank(a)] = a
  /\ \A i \in 1 .. Len(Names) : Names[i] \in Annotators /\ Rank(Names[i]) = i
<1>1. Names \in Seq(STRING) /\ DOMAIN Names = 1 .. Len(Names)
  BY NamesAssumption
<1>2. \A a \in Annotators : \E i \in 1 .. Len(Names) : Names[i] = a
  BY <1>1 DEF Annotators, ToSet
<1>3. \A a \in Annotators : Rank(a) \in 1 .. Len(Names) /\ Names[Rank(a)] = a
  BY <1>2 DEF Rank
<1>4. \A i \in 1 .. Len(Names) : Names[i] \in Annotators
  BY <1>1 DEF Annotators, ToSet
<1> QED BY <1>3, <1>4, NamesAssumption

(* The least name of a set, as a BTreeSet hands it out.                    *)
LEMMA FirstIsLeast ==
  ASSUME NEW S, S \subseteq Annotators, S # {}
  PROVE  first(S) \in S /\ \A b \in S : Rank(first(S)) <= Rank(b)
<1> DEFINE T == {i \in 1 .. Len(Names) : Names[i] \in S}
<1>1. T \subseteq Nat /\ T # {}
  <2>1. Len(Names) \in Nat
    BY NamesAssumption
  <2>2. PICK b \in S : TRUE
    OBVIOUS
  <2>3. Rank(b) \in T
    BY RankIs
  <2> QED BY <2>1, <2>3
<1>2. \A i \in 1 .. Len(Names) : i \in T <=> Names[i] \in S
  OBVIOUS
<1>3. T \subseteq 1 .. Len(Names) /\ first(S) = Names[Min(T)]
  BY DEF first
<1> HIDE DEF T
<1>4. Min(T) \in T /\ \A n \in T : Min(T) <= n
  BY <1>1, MinIs
<1>5. first(S) \in S /\ Rank(first(S)) = Min(T)
  BY <1>2, <1>3, <1>4, RankIs
<1>6. \A b \in S : Rank(b) \in T
  BY <1>2, RankIs
<1> QED BY <1>4, <1>5, <1>6

(* Two annotators of the same rank are the same.                           *)
LEMMA RankIsOwn ==
  ASSUME NEW a \in Annotators, NEW b \in Annotators, Rank(a) = Rank(b)
  PROVE  a = b
BY RankIs

-----------------------------------------------------------------------------
(* Validation and order                                                    *)

Planning == TypeOK /\ Validated /\ Counting /\ Ordered
Outcome == Collected /\ Shown /\ Bounded /\ DecisionIsEarned /\ VerdictIsValid

LEMMA InvParts == Inv <=> Planning /\ Outcome
BY DEF Inv, Planning, Outcome

(* An empty list has no entries.                                           *)
LEMMA EmptyList ==
  /\ ToSet(<<>>) = {} /\ IsInjective(<<>>) /\ Len(<<>>) = 0
  /\ IsOrder(<<>>) /\ Greedy(<<>>) /\ DOMAIN empty = {}
  /\ \A S : <<>> \in Seq(S)
BY DEF ToSet, IsInjective, IsOrder, Greedy, empty

(* A step of the planning leaves the evaluation as it was: not begun.      *)
LEMMA OutcomeIsKept ==
  ASSUME Inv, phase \notin Evaluating, UNCHANGED evaluation,
         phase' \in Phases \ (Running \cup {"done"}), Len(order') \in Nat
  PROVE  Outcome'
<1>1. annotations = empty /\ seen = empty
  BY DEF Inv, Collected
<1>2. DOMAIN annotations' = {} /\ DOMAIN seen' = {} /\ Cardinality(DOMAIN annotations') = 0
  BY <1>1, EmptyList, FS_EmptySet DEF evaluation
<1>3. Collected'
  <2>1. {order'[i] : i \in 1 .. 0} = {}
    OBVIOUS
  <2>2. annotations' = empty /\ seen' = empty
    BY <1>1 DEF evaluation
  <2>3. 0 \in 0 .. Len(order')
    OBVIOUS
  <2> QED BY <1>2, <2>1, <2>2, <2>3 DEF Collected, empty
<1>4. Shown'
  BY <1>2 DEF Shown
<1>5. phase # "done" /\ phase' # "done" /\ phase' \notin Running
  BY DEF Evaluating
<1>6. Bounded' /\ DecisionIsEarned' /\ VerdictIsValid'
  BY <1>5 DEF Inv, Bounded, DecisionIsEarned, VerdictIsValid, evaluation, Running
<1> QED BY <1>3, <1>4, <1>6 DEF Outcome

(* A step of the evaluation leaves the plan as it was.                     *)
LEMMA PlanIsKept ==
  ASSUME Planning, phase \in Evaluating, phase' \in Evaluating, UNCHANGED plan,
         given' \in Nat
  PROVE  Planning'
<1>1. /\ UNCHANGED <<chaining, declared, needs, from, unread, order>>
      /\ phase \notin {"reading", "rejected", "ordering", "cyclic"}
      /\ phase' \notin {"reading", "rejected", "ordering", "cyclic"}
  BY DEF plan, Evaluating
<1>2. TypeOK'
  BY <1>1 DEF Planning, TypeOK, Phases
<1>3. Validated'
  BY <1>1 DEF Planning, Validated, Accepted
<1>4. Counting'
  BY <1>1 DEF Counting
<1>5. Ordered'
  BY <1>1 DEF Planning, Ordered, IsOrder, Greedy, Enabled
<1> QED BY <1>2, <1>3, <1>4, <1>5 DEF Planning

LEMMA InitInv == PipelineInit => Inv
<1> SUFFICES ASSUME PipelineInit PROVE Inv
  OBVIOUS
<1>1. /\ TypeOK /\ Validated /\ Counting
      /\ order = <<>> /\ phase = "reading"
  BY EmptyList
  DEF PipelineInit, TypeOK, Validated, Counting, Phases, Evaluating, Froms, Accepted
<1>2. Ordered
  BY <1>1, EmptyList DEF Ordered, Evaluating
<1>3. /\ DOMAIN annotations = {} /\ DOMAIN seen = {}
      /\ Cardinality(DOMAIN annotations) = 0
      /\ annotations = empty /\ seen = empty
  BY EmptyList, FS_EmptySet DEF PipelineInit
<1>4. Collected /\ Shown
  <2>1. {order[i] : i \in 1 .. 0} = {} /\ 0 \in 0 .. Len(order)
    BY <1>1
  <2> QED BY <1>3, <2>1 DEF Collected, Shown
<1>5. Bounded /\ DecisionIsEarned /\ VerdictIsValid
  BY <1>1, BoundsAssumption
  DEF PipelineInit, Bounded, DecisionIsEarned, VerdictIsValid, Running
<1> QED BY <1>1, <1>2, <1>4, <1>5 DEF Inv

LEMMA ValidateBindingInv ==
  ASSUME Inv, NEW list \in NeedLists, NEW path \in Froms, NEW valid \in BOOLEAN,
         ValidateBinding(list, path, valid)
  PROVE  Inv'
<1>1. PICK a \in unread : a = first(unread)
  <2>1. unread \subseteq Annotators /\ unread # {}
    BY DEF Inv, TypeOK, ValidateBinding
  <2> QED BY <2>1, FirstIsLeast
<1> DEFINE ok == valid /\ (chaining => needs_valid(a, list)) /\ from_valid(list, path)
           kept == IF chaining THEN list ELSE <<>>
<1>2. /\ phase = "reading" /\ order = <<>>
      /\ phase' = IF ok THEN "reading" ELSE "rejected"
      /\ unread' = unread \ {a}
      /\ needs' = [needs EXCEPT ![a] = kept]
      /\ from' = [from EXCEPT ![a] = path]
      /\ UNCHANGED <<chaining, declared, order, evaluation>>
  BY <1>1 DEF ValidateBinding, Inv, Ordered
<1>3. a \in declared /\ a \in Annotators
  BY <1>1 DEF Inv, TypeOK
<1>4. list \in Seq(Annotators)
  BY DEF NeedLists
<1>5. kept \in Seq(Annotators)
  BY <1>4
<1>6. ok => /\ IsInjective(kept) /\ ToSet(kept) \subseteq declared
            /\ path \in Annotators => path \in ToSet(kept)
  <2>1. DOMAIN list = 1 .. Len(list)
    BY <1>4
  <2> QED BY <2>1, EmptyList DEF needs_valid, from_valid, IsInjective
<1> HIDE DEF ok, kept
<1>7. /\ needs'[a] = kept /\ from'[a] = path
      /\ \A b \in Annotators \ {a} : needs'[b] = needs[b] /\ from'[b] = from[b]
  BY <1>2, <1>3 DEF Inv, TypeOK
<1>8. TypeOK'
  <2>1. needs' \in [Annotators -> Seq(Annotators)]
    BY <1>2, <1>3, <1>5 DEF Inv, TypeOK
  <2>2. from' \in [Annotators -> Froms]
    BY <1>2, <1>3 DEF Inv, TypeOK
  <2> QED BY <1>2, <2>1, <2>2 DEF Inv, TypeOK, Phases, evaluation
<1>9. Validated'
  <2>1. SUFFICES ASSUME NEW b \in declared, b \notin unread', phase' # "rejected"
                 PROVE  Accepted(b)'
    BY <1>2 DEF Validated
  <2>2. ok
    BY <1>2, <2>1
  <2>3. CASE b = a
    BY <1>2, <1>6, <1>7, <2>2, <2>3 DEF Accepted
  <2>4. CASE b # a
    <3>1. b \in declared \ unread /\ b \in Annotators
      BY <1>2, <2>1, <2>4 DEF Inv, TypeOK
    <3>2. Accepted(b)
      BY <1>2, <3>1 DEF Inv, Validated
    <3> QED BY <1>2, <1>7, <2>4, <3>1, <3>2 DEF Accepted
  <2> QED BY <2>3, <2>4
<1>10. Counting' /\ Ordered'
  <2>1. phase' \in {"reading", "rejected"} /\ order' = <<>>
    BY <1>2
  <2>2. IsOrder(<<>>)' /\ Greedy(<<>>)'
    BY DEF IsOrder, Greedy
  <2>3. IsInjective(order') /\ IsOrder(order)' /\ Greedy(order)'
    BY <2>1, <2>2, EmptyList
  <2> QED BY <2>1, <2>3 DEF Counting, Ordered, Evaluating
<1>11. Outcome'
  <2>1. /\ phase \notin Evaluating /\ Len(order') \in Nat
        /\ phase' \in Phases \ (Running \cup {"done"})
    BY <1>2, EmptyList DEF Evaluating, Phases, Running
  <2> QED BY <1>2, <2>1, OutcomeIsKept
<1> QED BY <1>8, <1>9, <1>10, <1>11 DEF Inv, Outcome

LEMMA StartOrderInv ==
  ASSUME Inv, StartOrder
  PROVE  Inv'
<1>1. /\ phase = "reading" /\ phase' = "ordering" /\ unread = {} /\ order = <<>>
      /\ remaining' = [a \in Annotators |-> Len(needs[a])]
      /\ ready' = {a \in declared : needs[a] = <<>>}
      /\ UNCHANGED <<chaining, declared, needs, from, unread, order, evaluation>>
  BY DEF StartOrder, Inv, Ordered
<1>2. \A a \in declared : /\ needs[a] \in Seq(Annotators) /\ IsInjective(needs[a])
                          /\ a \in Annotators
  BY <1>1 DEF Inv, TypeOK, Validated, Accepted
<1>3. TypeOK' /\ Validated'
  BY <1>1 DEF Inv, TypeOK, Validated, Accepted, Phases, evaluation
<1>4. Counting'
  <2>1. ToSet(order') = {}
    BY <1>1, EmptyList
  <2>2. \A b \in declared : remaining'[b] = Cardinality(ToSet(needs[b]) \ {})
    <3>1. SUFFICES ASSUME NEW b \in declared
                   PROVE  remaining'[b] = Cardinality(ToSet(needs[b]) \ {})
      OBVIOUS
    <3>2. Cardinality(ToSet(needs[b])) = Len(needs[b])
      BY <1>2, ListIsSet
    <3>3. ToSet(needs[b]) \ {} = ToSet(needs[b])
      OBVIOUS
    <3> QED BY <1>1, <1>2, <3>2, <3>3
  <2>3. \A b \in declared : needs[b] = <<>> <=> ToSet(needs[b]) \subseteq {}
    <3>1. SUFFICES ASSUME NEW b \in declared
                   PROVE  needs[b] = <<>> <=> ToSet(needs[b]) = {}
      OBVIOUS
    <3>2. needs[b] \in Seq(Annotators)
      BY <1>2
    <3>3. needs[b] # <<>> => needs[b][1] \in ToSet(needs[b])
      BY <3>2 DEF ToSet
    <3> QED BY <3>3, EmptyList
  <2>4. ready' = {b \in declared : Enabled(b, {})'}
    BY <1>1, <2>3 DEF Enabled
  <2>5. remaining' \in [Annotators -> Int]
    BY <1>1 DEF Inv, TypeOK
  <2> QED BY <1>1, <2>1, <2>2, <2>4, <2>5 DEF Counting
<1>5. Ordered'
  <2>1. IsOrder(<<>>)' /\ Greedy(<<>>)'
    BY DEF IsOrder, Greedy
  <2> QED BY <1>1, <2>1, EmptyList DEF Ordered, Evaluating
<1>6. Outcome'
  <2>1. /\ phase \notin Evaluating /\ Len(order') \in Nat
        /\ phase' \in Phases \ (Running \cup {"done"})
    BY <1>1, EmptyList DEF Evaluating, Phases, Running
  <2> QED BY <1>1, <2>1, OutcomeIsKept
<1> QED BY <1>3, <1>4, <1>5, <1>6 DEF Inv, Outcome

(* One turn of the loop: the counters, the queue and the order move         *)
(* together, since the annotator taken is nowhere in the order yet.         *)
LEMMA PopReadyInv ==
  ASSUME Inv, PopReady
  PROVE  Inv'
<1> DEFINE placed == ToSet(order)
<1>1. PICK a \in ready : /\ a = first(ready)
                         /\ \A b \in ready : Rank(a) <= Rank(b)
  <2>1. ready \subseteq Annotators /\ ready # {}
    BY DEF Inv, TypeOK, Counting, PopReady
  <2> QED BY <2>1, FirstIsLeast
<1>2. /\ phase = "ordering" /\ phase' = "ordering"
      /\ order' = Append(order, a)
      /\ remaining' = [b \in Annotators |->
                         remaining[b] - (IF b \in dependents(a) THEN 1 ELSE 0)]
      /\ ready' = (ready \ {a}) \cup {b \in dependents(a) : remaining'[b] = 0}
      /\ UNCHANGED <<chaining, declared, needs, from, unread, evaluation>>
  BY <1>1 DEF PopReady
<1>3. /\ a \in declared /\ a \in Annotators /\ a \notin placed
      /\ ToSet(needs[a]) \subseteq placed
      /\ order \in Seq(declared)
  BY <1>1, <1>2 DEF Inv, TypeOK, Counting, Enabled
<1>4. /\ order' \in Seq(declared)
      /\ ToSet(order') = placed \cup {a}
      /\ IsInjective(order')
      /\ \A i \in DOMAIN order : order'[i] = order[i]
      /\ order'[Len(order) + 1] = a
      /\ DOMAIN order' = DOMAIN order \cup {Len(order) + 1}
      /\ DOMAIN order = 1 .. Len(order) /\ Len(order) \in Nat
  <2>1. IsInjective(order)
    BY DEF Inv, Ordered
  <2>2. Len(order) \in Nat
    BY <1>3
  <2> QED BY <1>2, <1>3, <2>1, <2>2, Appended
<1>5. \A b \in declared : needs[b] \in Seq(Annotators) /\ b \in Annotators
  BY DEF Inv, TypeOK
<1>6. \A b \in declared : b \in dependents(a) <=> a \in ToSet(needs[b])
  BY <1>5 DEF dependents, Contains, ToSet
<1>7. TypeOK' /\ Validated'
  BY <1>2, <1>4 DEF Inv, TypeOK, Validated, Accepted, Phases, evaluation
<1>8. \A b \in declared : /\ remaining'[b] = Cardinality(ToSet(needs[b]) \ ToSet(order'))
                          /\ remaining'[b] = 0 <=> ToSet(needs[b]) \subseteq ToSet(order')
                          /\ remaining[b] = 0 <=> ToSet(needs[b]) \subseteq placed
  <2>1. SUFFICES ASSUME NEW b \in declared
                 PROVE  /\ remaining'[b] = Cardinality(ToSet(needs[b]) \ ToSet(order'))
                        /\ remaining'[b] = 0 <=> ToSet(needs[b]) \subseteq ToSet(order')
                        /\ remaining[b] = 0 <=> ToSet(needs[b]) \subseteq placed
    OBVIOUS
  <2> DEFINE left == ToSet(needs[b]) \ placed
  <2>2. IsFiniteSet(ToSet(needs[b]))
    BY <1>5, ListIsSet
  <2>3. IsFiniteSet(left)
    BY <2>2, FS_Difference
  <2>4. ToSet(needs[b]) \ ToSet(order') = left \ {a}
    BY <1>4
  <2>5. remaining[b] = Cardinality(left)
    BY <1>2 DEF Inv, Counting
  <2>6. a \in left <=> b \in dependents(a)
    BY <1>3, <1>6
  <2>7. /\ left = {} <=> ToSet(needs[b]) \subseteq placed
        /\ left \ {a} = {} <=> ToSet(needs[b]) \subseteq ToSet(order')
    BY <2>4
  <2> HIDE DEF left
  <2>8. /\ IsFiniteSet(left \ {a})
        /\ Cardinality(left \ {a}) = IF a \in left THEN Cardinality(left) - 1
                                     ELSE Cardinality(left)
    BY <2>3, FS_RemoveElement
  <2>9. /\ Cardinality(left) \in Nat
        /\ Cardinality(left) = 0 <=> left = {}
        /\ Cardinality(left \ {a}) = 0 <=> left \ {a} = {}
    BY <2>3, <2>8, FS_CardinalityType, FS_EmptySet
  <2>10. remaining'[b] = remaining[b] - (IF b \in dependents(a) THEN 1 ELSE 0)
    BY <1>2, <1>5
  <2>11. remaining'[b] = Cardinality(left \ {a})
    BY <2>5, <2>6, <2>8, <2>9, <2>10
  <2> QED BY <2>4, <2>5, <2>7, <2>9, <2>11
<1>9. Counting'
  <2>1. \A b \in declared : b \in ready <=> b \notin placed /\ ToSet(needs[b]) \subseteq placed
    BY <1>2 DEF Inv, Counting, Enabled
  <2>2. ready' \subseteq declared
    BY <1>2 DEF Inv, Counting, dependents
  <2>3. ASSUME NEW b \in declared
        PROVE  b \in ready' <=> b \notin ToSet(order') /\ ToSet(needs[b]) \subseteq ToSet(order')
    <3>1. CASE b = a
      <4>1. a \notin dependents(a)
        BY <1>3, <1>6
      <4> QED BY <1>2, <1>4, <3>1, <4>1
    <3>2. CASE b # a /\ b \in dependents(a)
      <4>1. ~(ToSet(needs[b]) \subseteq placed) /\ b \notin ready
        BY <1>3, <1>6, <2>1, <3>2
      <4>2. b \in placed => ToSet(needs[b]) \subseteq placed
        <5>1. SUFFICES ASSUME b \in placed PROVE ToSet(needs[b]) \subseteq placed
          OBVIOUS
        <5>2. PICK i \in DOMAIN order : order[i] = b
          BY <5>1 DEF ToSet
        <5>3. \A c \in ToSet(needs[b]) : \E j \in 1 .. i - 1 : order[j] = c
          BY <5>2 DEF Inv, Ordered, IsOrder
        <5>4. \A j \in 1 .. i - 1 : j \in DOMAIN order
          BY <1>4
        <5> QED BY <5>3, <5>4 DEF ToSet
      <4>3. b \notin ToSet(order')
        BY <1>4, <3>2, <4>1, <4>2
      <4>4. b \in ready' <=> remaining'[b] = 0
        BY <1>2, <3>2, <4>1
      <4> QED BY <1>8, <4>3, <4>4
    <3>3. CASE b # a /\ b \notin dependents(a)
      <4>1. ToSet(needs[b]) \subseteq ToSet(order') <=> ToSet(needs[b]) \subseteq placed
        BY <1>4, <1>6, <3>3
      <4> QED BY <1>2, <1>4, <2>1, <3>3, <4>1
    <3> QED BY <3>1, <3>2, <3>3
  <2>4. ready' = {b \in declared : Enabled(b, ToSet(order))'}
    BY <1>2, <2>2, <2>3 DEF Enabled
  <2>5. remaining' \in [Annotators -> Int]
    BY <1>2 DEF Inv, Counting
  <2> QED BY <1>2, <1>8, <2>4, <2>5 DEF Counting
<1>10. Ordered'
  <2>1. IsOrder(order)'
    <3>1. SUFFICES ASSUME NEW i \in DOMAIN order', NEW c \in ToSet(needs[order'[i]])
                   PROVE  \E j \in 1 .. i - 1 : order'[j] = c
      BY <1>2 DEF IsOrder
    <3>2. CASE i \in DOMAIN order
      <4>1. PICK j \in 1 .. i - 1 : order[j] = c
        BY <1>4, <3>1, <3>2 DEF Inv, Ordered, IsOrder
      <4> QED BY <1>4, <3>2, <4>1
    <3>3. CASE i = Len(order) + 1
      <4>1. PICK j \in DOMAIN order : order[j] = c
        BY <1>3, <1>4, <3>1, <3>3 DEF ToSet
      <4> QED BY <1>4, <3>3, <4>1
    <3> QED BY <1>4, <3>2, <3>3
  <2>2. Greedy(order)'
    <3>1. SUFFICES ASSUME NEW i \in DOMAIN order', NEW b \in declared,
                          Enabled(b, {order'[j] : j \in 1 .. i - 1})
                   PROVE  Rank(order'[i]) <= Rank(b)
      BY <1>2 DEF Greedy, Enabled
    <3>2. CASE i \in DOMAIN order
      <4>1. {order'[j] : j \in 1 .. i - 1} = {order[j] : j \in 1 .. i - 1}
        BY <1>4, <3>2
      <4> QED BY <1>4, <3>1, <3>2, <4>1 DEF Inv, Ordered, Greedy
    <3>3. CASE i = Len(order) + 1
      <4>1. {order'[j] : j \in 1 .. i - 1} = placed
        <5>1. 1 .. i - 1 = DOMAIN order
          BY <1>4, <3>3
        <5> QED BY <1>4, <5>1 DEF ToSet
      <4>2. b \in ready
        BY <1>2, <3>1, <4>1 DEF Inv, Counting
      <4> QED BY <1>1, <1>4, <3>3, <4>2
    <3> QED BY <1>4, <3>2, <3>3
  <2> QED BY <1>2, <1>4, <2>1, <2>2 DEF Ordered, Evaluating
<1>11. Outcome'
  <2>1. /\ phase \notin Evaluating /\ Len(order') \in Nat
        /\ phase' \in Phases \ (Running \cup {"done"})
    BY <1>2, <1>4 DEF Evaluating, Phases, Running
  <2> QED BY <1>2, <2>1, OutcomeIsKept
<1> QED BY <1>7, <1>9, <1>10, <1>11 DEF Inv, Outcome

(* The loop ends with everybody placed, or with a rest of which nobody can  *)
(* go next.                                                                 *)
LEMMA EndOrderInv ==
  ASSUME Inv, EndOrder
  PROVE  Inv'
<1>1. /\ phase = "ordering" /\ ready = {}
      /\ phase' = IF Len(order) = Cardinality(declared) THEN "planned" ELSE "cyclic"
      /\ UNCHANGED <<plan, evaluation>>
      /\ UNCHANGED <<chaining, declared, needs, from, unread, order>>
  BY DEF EndOrder, plan
<1>2. order \in Seq(declared) /\ IsInjective(order) /\ Len(order) \in Nat
  BY DEF Inv, TypeOK, Ordered
<1>3. /\ ToSet(order) \subseteq declared
      /\ Cardinality(ToSet(order)) = Len(order)
  BY <1>2, ListIsSet
<1>4. IsFiniteSet(declared)
  <2>1. IsFiniteSet(Annotators)
    BY NamesAssumption, ListIsSet DEF Annotators
  <2> QED BY <2>1, FS_Subset DEF Inv, TypeOK
<1>5. Len(order) = Cardinality(declared) <=> ToSet(order) = declared
  BY <1>3, <1>4, FS_Subset
<1>6. \A b \in declared : ~Enabled(b, ToSet(order))
  BY <1>1 DEF Inv, Counting
<1>7. TypeOK' /\ Validated' /\ Counting'
  BY <1>1 DEF Inv, TypeOK, Validated, Accepted, Counting, Phases, Evaluating, evaluation
<1>8. Ordered'
  <2>1. IsOrder(order)' /\ Greedy(order)' /\ IsInjective(order')
    BY <1>1 DEF Inv, Ordered, IsOrder, Greedy, Enabled
  <2>2. phase' = "cyclic" => \A b \in declared : ~Enabled(b, ToSet(order))'
    BY <1>1, <1>6 DEF Enabled
  <2> QED BY <1>1, <1>5, <2>1, <2>2 DEF Ordered, Evaluating
<1>9. Outcome'
  <2>1. /\ phase \notin Evaluating /\ Len(order') \in Nat
        /\ phase' \in Phases \ (Running \cup {"done"})
    BY <1>1, <1>2 DEF Evaluating, Phases, Running
  <2> QED BY <1>1, <2>1, OutcomeIsKept
<1> QED BY <1>7, <1>8, <1>9 DEF Inv, Outcome

-----------------------------------------------------------------------------
(* Evaluation                                                              *)

Errors ==
  {"intervention_point_unknown", "resource_limit_exceeded", "path_missing", "tool_unknown",
   "manifest_invalid", "annotation_timeout", "annotation_failed", "policy_invocation_failed",
   "policy_output_invalid", "transform_invalid", "transform_target_forbidden"}

(* A deny for an error of the engine is well formed, whatever happened.     *)
LEMMA DenyIsSafe ==
  ASSUME NEW error \in Errors, NEW input, denies(error, input)
  PROVE  DecisionIsEarned' /\ VerdictIsValid'
<1>1. /\ verdict'.decision = "deny" /\ verdict'.reason = error /\ verdict'.approval = FALSE
      /\ verdict'.transform = FALSE /\ verdict'.evidence = "none" /\ verdict'.marked = FALSE
  BY DEF denies, runtime_error_verdict
<1> QED BY <1>1 DEF DecisionIsEarned, VerdictIsValid, Errors

(* What normalize_policy_output lets through makes a well-formed verdict.   *)
LEMMA AcceptedOutput ==
  ASSUME NEW o \in Outputs, refusal(o) = "none"
  PROVE  LET v == verdict_of(o) IN
           /\ v.decision \in {"allow", "deny", "transform"}
           /\ v.approval => v.decision = "deny"
           /\ v.transform <=> v.decision = "transform"
           /\ v.reason \notin {"reserved", "not_string"}
           /\ v.evidence \in {"none", "small", "cut"}
           /\ v.marked <=> v.evidence = "cut"
           /\ v.decision = "allow" => o.decision \in {"allow", "warn"}
           /\ v.decision = "transform" => o.decision = "transform" /\ o.transform = "target"
<1>1. /\ ~member_invalid(o) /\ decision_of(o) # "unsupported"
      /\ ~forges_marker(o) /\ ~shape_invalid(o) /\ transform_error(o) = "none"
  BY DEF refusal
<1>2. /\ o.reason \notin {"reserved", "not_string"}
      /\ o.evidence \in {"none", "small", "large"}
  BY <1>1 DEF Outputs, member_invalid
<1>3. o.transform \in {"none", "target"}
  BY <1>1 DEF Outputs, transform_error
<1>4. /\ decision_of(o) \in {"allow", "deny", "transform"}
      /\ decision_of(o) = "allow" => o.decision \in {"allow", "warn"}
      /\ decision_of(o) = "transform" <=> o.decision = "transform"
  BY <1>1 DEF Outputs, decision_of
<1>5. /\ approval_of(o) => decision_of(o) = "deny"
      /\ o.transform = "target" <=> o.decision = "transform"
  BY <1>1, <1>3 DEF shape_invalid
<1>6. "truncated" \notin warnings_of(o)
  BY <1>1 DEF forges_marker
<1> DEFINE v == verdict_of(o)
<1>7. /\ v.decision = decision_of(o) /\ v.reason = o.reason /\ v.approval = approval_of(o)
      /\ v.transform = (o.transform = "target")
      /\ v.evidence = IF o.evidence = "large" THEN "cut" ELSE o.evidence
      /\ v.marked = (o.evidence = "large" \/ "truncated" \in warnings_of(o))
  BY DEF verdict_of
<1> QED BY <1>2, <1>3, <1>4, <1>5, <1>6, <1>7

(* The depth of the results, and of an input that carries them.            *)
LEMMA DeepestIs ==
  ASSUME NEW m, \A a \in DOMAIN m : m[a] \in 0 .. MaxDepth
  PROVE  deepest(m) \in 0 .. MaxDepth
<1>1. MaxDepth \in Nat
  BY BoundsAssumption
<1> DEFINE T == {m[a] : a \in DOMAIN m}
<1>2. CASE DOMAIN m = {}
  BY <1>1, <1>2 DEF deepest
<1>3. CASE DOMAIN m # {}
  <2>1. T \subseteq 0 .. MaxDepth /\ T # {}
    BY <1>3
  <2>2. deepest(m) = Max(T)
    BY <1>3 DEF deepest
  <2> HIDE DEF T
  <2>3. Max(T) \in T
    <3>1. T \subseteq Nat /\ \A n \in T : n <= MaxDepth
      BY <1>1, <2>1
    <3> QED BY <1>1, <2>1, <3>1, MaxIs
  <2> QED BY <2>1, <2>2, <2>3
<1> QED BY <1>2, <1>3

LEMMA DepthWith ==
  ASSUME base \in 2 .. MaxDepth, NEW m, \A a \in DOMAIN m : m[a] \in 0 .. MaxDepth
  PROVE  /\ depth_with(m) \in Nat
         /\ 2 + deepest(m) <= MaxDepth => depth_with(m) <= MaxDepth
<1>1. MaxDepth \in Nat /\ base \in Nat
  BY BoundsAssumption
<1>2. 2 + deepest(m) \in Nat
  BY <1>1, DeepestIs
<1>3. /\ Max({base, 2 + deepest(m)}) \in Nat
      /\ Max({base, 2 + deepest(m)}) \in {base, 2 + deepest(m)}
  BY <1>1, <1>2, MaxOfTwo
<1> QED BY <1>1, <1>2, <1>3 DEF depth_with

LEMMA EvaluateInv ==
  ASSUME Inv,
         NEW failure \in {"none", "intervention_point_unknown", "path_missing", "tool_unknown"},
         NEW snapshot \in Depths, NEW target \in Depths, NEW tool \in Depths,
         Evaluate(failure, snapshot, target, tool)
  PROVE  Inv'
<1>1. MaxDepth \in Nat
  BY BoundsAssumption
<1>2. /\ phase = "planned"
      /\ base' = 1 + Max({snapshot, 1 + target, tool, 1})
      /\ UNCHANGED <<plan, annotations, staged, seen, given, output, reports>>
      /\ \/ denies(failure, "none") /\ failure # "none"
         \/ denies("resource_limit_exceeded", "none")
         \/ denies("resource_limit_exceeded", "preliminary")
         \/ phase' = "annotating" /\ ~(base' > MaxDepth)
  BY DEF Evaluate
<1>3. base' \in Nat /\ base' >= 2
  <2> DEFINE T == {snapshot, 1 + target, tool, 1}
             B == snapshot + (1 + target) + tool + 1
  <2>1. snapshot \in Nat /\ target \in Nat /\ tool \in Nat
    BY <1>1 DEF Depths
  <2>2. T \subseteq Nat /\ T # {} /\ B \in Nat /\ \A n \in T : n <= B
    BY <2>1
  <2>3. 1 \in T /\ base' = 1 + Max(T)
    BY <1>2
  <2> HIDE DEF T, B
  <2>4. Max(T) \in T /\ Max(T) >= 1
    BY <2>2, <2>3, MaxIs
  <2>5. Max(T) \in Nat
    BY <2>2, <2>4
  <2> QED BY <2>3, <2>4, <2>5
<1>4. phase' \in {"annotating", "done"} /\ (phase' = "annotating" => base' \in 2 .. MaxDepth)
  BY <1>1, <1>2, <1>3 DEF denies
<1>5. Planning'
  <2>1. phase \in Evaluating /\ phase' \in Evaluating /\ given' \in Nat /\ Planning
    BY <1>2, <1>4, InvParts DEF Evaluating, Planning, TypeOK
  <2> QED BY <1>2, <2>1, PlanIsKept
<1>6. Collected' /\ Shown'
  BY <1>2, <1>4 DEF Inv, Collected, Shown, Evaluating, plan
<1>7. Bounded'
  BY <1>2, <1>4 DEF Inv, Bounded, Running
<1>8. DecisionIsEarned' /\ VerdictIsValid'
  <2>1. CASE phase' = "annotating"
    BY <2>1 DEF DecisionIsEarned, VerdictIsValid
  <2>2. CASE \E error \in Errors, input \in {"none", "preliminary"} : denies(error, input)
    BY <2>2, DenyIsSafe
  <2> QED BY <1>2, <2>1, <2>2 DEF Errors
<1> QED BY <1>5, <1>6, <1>7, <1>8, InvParts DEF Outcome, Inv, Planning

(* What stage_error lets pass: the needs are all there, and shown as they   *)
(* are, within the limit.                                                   *)
LEMMA StagedIs ==
  ASSUME NEW a, stage_error(a) = "none", ToSet(<<>>) = {}, base \in 2 .. MaxDepth,
         \A b \in DOMAIN annotations : annotations[b] \in 0 .. MaxDepth
  PROVE  /\ ToSet(needs[a]) \subseteq DOMAIN annotations
         /\ dispatch_annotations(a) = [b \in ToSet(needs[a]) |-> annotations[b]]
         /\ depth_with(dispatch_annotations(a)) \in 0 .. MaxDepth
<1>1. MaxDepth \in Nat
  BY BoundsAssumption
<1>2. ToSet(needs[a]) \subseteq DOMAIN annotations
  BY DEF stage_error
<1>3. dispatch_annotations(a) = [b \in ToSet(needs[a]) |-> annotations[b]]
  BY DEF dispatch_annotations, visible_to, empty
<1>4. \A b \in DOMAIN dispatch_annotations(a) : dispatch_annotations(a)[b] \in 0 .. MaxDepth
  BY <1>2, <1>3
<1>5. deepest(dispatch_annotations(a)) \in 0 .. MaxDepth
  BY <1>4, DeepestIs
<1>6. 2 + deepest(dispatch_annotations(a)) <= MaxDepth
  <2>1. CASE needs[a] = <<>>
    <3>1. DOMAIN dispatch_annotations(a) = {}
      BY <1>3, <2>1
    <3> QED BY <1>1, <3>1 DEF deepest
  <2>2. CASE needs[a] # <<>>
    <3>1. dispatch_annotations(a) = visible_to(a)
      BY <2>2 DEF dispatch_annotations
    <3>2. ~(2 + deepest(visible_to(a)) > MaxDepth)
      BY <2>2 DEF stage_error
    <3> QED BY <1>1, <1>5, <3>1, <3>2
  <2> QED BY <2>1, <2>2
<1>7. depth_with(dispatch_annotations(a)) \in Nat /\ depth_with(dispatch_annotations(a)) <= MaxDepth
  BY <1>4, <1>6, DepthWith
<1> QED BY <1>1, <1>2, <1>3, <1>7

LEMMA RunAnnotatorInv ==
  ASSUME Inv, NEW resolves \in BOOLEAN, NEW accepted \in BOOLEAN, NEW depth \in Depths,
         NEW answer \in {"ok", "panic", "annotation_timeout", "policy_invocation_failed"},
         RunAnnotator(resolves, answer, depth, accepted)
  PROVE  Inv'
<1> DEFINE n == Cardinality(DOMAIN annotations)
           error == IF ~resolves THEN "path_missing"
                    ELSE IF answer # "ok" THEN normalize_annotator_error(answer)
                    ELSE IF depth > MaxDepth \/ ~accepted THEN "annotation_failed"
                    ELSE "none"
<1>1. MaxDepth \in Nat /\ depth \in Nat
  BY BoundsAssumption DEF Depths
<1>2. /\ phase = "annotating" /\ base \in 2 .. MaxDepth /\ reports = {}
      /\ given \in Nat /\ given <= MaxDepth
      /\ order \in Seq(declared) /\ IsInjective(order)
      /\ n \in Nat /\ n < Len(order)
      /\ DOMAIN annotations = {order[i] : i \in 1 .. n}
      /\ \A b \in DOMAIN annotations : annotations[b] \in 0 .. MaxDepth
  BY DEF Inv, TypeOK, Ordered, Collected, Bounded, Running, RunAnnotator
<1>3. PICK a : a = order[n + 1]
  OBVIOUS
<1>4. a \in declared /\ a \notin DOMAIN annotations
  BY <1>2, <1>3 DEF IsInjective
<1> DEFINE shown == dispatch_annotations(a)
<1>5. /\ UNCHANGED <<plan, base, output>>
      /\ IF stage_error(a) # "none"
         THEN /\ denies(stage_error(a), "preliminary")
              /\ UNCHANGED <<annotations, seen, given>>
         ELSE /\ IF resolves
                 THEN /\ seen' = [b \in DOMAIN seen \cup {a} |-> IF b = a THEN shown ELSE seen[b]]
                      /\ given' = Max({given, depth_with(shown)})
                 ELSE UNCHANGED <<seen, given>>
              /\ IF error # "none"
                 THEN denies(error, "preliminary") /\ UNCHANGED annotations
                 ELSE /\ annotations' = [b \in DOMAIN annotations \cup {a} |->
                                           IF b = a THEN depth ELSE annotations[b]]
                      /\ UNCHANGED <<phase, verdict, policy_input, reports>>
  BY <1>3 DEF RunAnnotator
<1>6. error \in Errors \cup {"none"} /\ (error = "none" => resolves /\ depth \in 0 .. MaxDepth)
  BY <1>1 DEF Errors, normalize_annotator_error
<1>7. stage_error(a) \in Errors \cup {"none"}
  BY DEF stage_error, Errors
<1>8. stage_error(a) = "none" =>
        /\ ToSet(needs[a]) \subseteq DOMAIN annotations
        /\ shown = [b \in ToSet(needs[a]) |-> annotations[b]]
        /\ depth_with(shown) \in 0 .. MaxDepth
  BY <1>2, EmptyList, StagedIs
<1> HIDE DEF error, shown
\* What may have changed, whichever way the turn went.
<1>9. \/ UNCHANGED annotations
      \/ /\ DOMAIN annotations' = DOMAIN annotations \cup {a}
         /\ annotations'[a] \in 0 .. MaxDepth
         /\ \A b \in DOMAIN annotations : annotations'[b] = annotations[b]
  BY <1>4, <1>5, <1>6
<1>10. \/ UNCHANGED seen
       \/ /\ stage_error(a) = "none"
          /\ DOMAIN seen' = DOMAIN seen \cup {a}
          /\ seen'[a] = shown
          /\ \A b \in DOMAIN seen \ {a} : seen'[b] = seen[b]
  BY <1>5
<1>11. given' \in Nat /\ given' <= MaxDepth
  <2>1. CASE UNCHANGED given
    BY <1>2, <2>1
  <2>2. CASE stage_error(a) = "none" /\ given' = Max({given, depth_with(shown)})
    <3>1. depth_with(shown) \in Nat /\ depth_with(shown) <= MaxDepth
      BY <1>1, <1>8, <2>2
    <3>2. given' \in {given, depth_with(shown)}
      BY <1>2, <2>2, <3>1, MaxOfTwo
    <3> QED BY <1>2, <3>1, <3>2
  <2> QED BY <1>5, <2>1, <2>2
<1>12. /\ phase' \in {"annotating", "done"}
       /\ phase' = "annotating" => reports' = {}
       /\ DecisionIsEarned' /\ VerdictIsValid'
  <2>1. CASE phase' = "annotating" /\ UNCHANGED reports
    BY <1>2, <2>1 DEF DecisionIsEarned, VerdictIsValid
  <2>2. CASE \E e \in Errors : denies(e, "preliminary")
    <3>1. phase' = "done"
      BY <2>2 DEF denies
    <3> QED BY <2>2, <3>1, DenyIsSafe
  <2> QED BY <1>2, <1>5, <1>6, <1>7, <2>1, <2>2
<1>13. Planning'
  <2>1. phase \in Evaluating /\ phase' \in Evaluating /\ Planning
    BY <1>2, <1>12, InvParts DEF Evaluating
  <2> QED BY <1>5, <1>11, <2>1, PlanIsKept
<1>14. Collected'
  <2>1. order' = order /\ phase' \in Evaluating
    BY <1>5, <1>12 DEF plan, Evaluating
  <2>2. CASE UNCHANGED annotations
    BY <2>1, <2>2 DEF Inv, Collected
  <2>3. CASE /\ DOMAIN annotations' = DOMAIN annotations \cup {a}
             /\ annotations'[a] \in 0 .. MaxDepth
             /\ \A b \in DOMAIN annotations : annotations'[b] = annotations[b]
    <3>1. IsFiniteSet(DOMAIN annotations)
      <4>1. IsFiniteSet(ToSet(order)) /\ DOMAIN annotations \subseteq ToSet(order)
        BY <1>2, ListIsSet DEF ToSet
      <4> QED BY <4>1, FS_Subset
    <3>2. Cardinality(DOMAIN annotations') = n + 1
      BY <1>4, <2>3, <3>1, FS_AddElement
    <3>3. DOMAIN annotations' = {order[i] : i \in 1 .. n + 1}
      <4>1. 1 .. n + 1 = (1 .. n) \cup {n + 1}
        BY <1>2
      <4> QED BY <1>2, <1>3, <2>3, <4>1
    <3>4. n + 1 \in 0 .. Len(order)
      BY <1>2
    <3>5. \A b \in DOMAIN annotations' : annotations'[b] \in 0 .. MaxDepth
      BY <1>2, <2>3
    <3> HIDE DEF n
    <3> QED BY <2>1, <3>2, <3>3, <3>4, <3>5 DEF Collected
  <2> QED BY <1>9, <2>2, <2>3
<1>15. Shown'
  <2>1. needs' = needs /\ declared' = declared
    BY <1>5 DEF plan
  <2>2. SUFFICES ASSUME NEW c \in DOMAIN seen'
                 PROVE  /\ c \in declared
                        /\ ToSet(needs[c]) \subseteq DOMAIN annotations'
                        /\ seen'[c] = [b \in ToSet(needs[c]) |-> annotations'[b]]
    BY <2>1 DEF Shown
  <2>3. /\ c \in declared
        /\ ToSet(needs[c]) \subseteq DOMAIN annotations
        /\ seen'[c] = [b \in ToSet(needs[c]) |-> annotations[b]]
    <3>1. CASE c \in DOMAIN seen /\ seen'[c] = seen[c]
      BY <3>1 DEF Inv, Shown
    <3>2. CASE c = a /\ stage_error(a) = "none" /\ seen'[a] = shown
      BY <1>4, <1>8, <3>2
    <3> QED BY <1>10, <3>1, <3>2
  <2>4. /\ DOMAIN annotations \subseteq DOMAIN annotations'
        /\ \A b \in DOMAIN annotations : annotations'[b] = annotations[b]
    BY <1>9
  <2> QED BY <2>3, <2>4
<1>16. Bounded'
  BY <1>2, <1>5, <1>11, <1>12 DEF Bounded, Running
<1> QED BY <1>12, <1>13, <1>14, <1>15, <1>16 DEF Inv, Planning

LEMMA BuildPolicyInputInv ==
  ASSUME Inv, BuildPolicyInput
  PROVE  Inv'
<1>1. /\ phase = "annotating" /\ base \in 2 .. MaxDepth
      /\ Len(order) = Cardinality(DOMAIN annotations)
      /\ UNCHANGED <<plan, base, annotations, staged, seen, given, output, reports>>
      /\ \/ denies("resource_limit_exceeded", "none")
         \/ phase' = "deciding" /\ ~(depth_with(annotations) > MaxDepth)
  BY DEF BuildPolicyInput, Inv, Bounded, Running
<1>2. DOMAIN annotations = declared
  <2>1. DOMAIN annotations = {order[i] : i \in 1 .. Len(order)}
    BY <1>1 DEF Inv, Collected
  <2>2. DOMAIN order = 1 .. Len(order) /\ ToSet(order) = declared
    BY <1>1 DEF Inv, TypeOK, Ordered, Evaluating
  <2> QED BY <2>1, <2>2 DEF ToSet
<1>3. depth_with(annotations) \in Nat /\ MaxDepth \in Nat
  BY <1>1, BoundsAssumption, DepthWith DEF Inv, Collected
<1>4. phase' \in {"deciding", "done"}
  BY <1>1 DEF denies
<1>5. Planning'
  <2>1. phase \in Evaluating /\ phase' \in Evaluating /\ given' \in Nat /\ Planning
    BY <1>1, <1>4, InvParts DEF Evaluating, Planning, TypeOK
  <2> QED BY <1>1, <2>1, PlanIsKept
<1>6. Collected' /\ Shown'
  BY <1>1, <1>4 DEF Inv, Collected, Shown, Evaluating, plan
<1>7. Bounded'
  <2>1. phase' = "deciding" => depth_with(annotations) <= MaxDepth
    BY <1>1, <1>3 DEF denies
  <2>2. depth_with(annotations)' = depth_with(annotations) /\ declared' = declared
    BY <1>1 DEF depth_with, plan
  <2> QED BY <1>1, <1>2, <1>4, <2>1, <2>2 DEF Inv, Bounded, Running
<1>8. DecisionIsEarned' /\ VerdictIsValid'
  <2>1. CASE phase' = "deciding"
    BY <2>1 DEF DecisionIsEarned, VerdictIsValid
  <2>2. CASE denies("resource_limit_exceeded", "none")
    BY <2>2, DenyIsSafe DEF Errors
  <2> QED BY <1>1, <2>1, <2>2
<1> QED BY <1>5, <1>6, <1>7, <1>8 DEF Inv, Planning

LEMMA RunPolicyInv ==
  ASSUME Inv, NEW prepare \in {"none", "policy_invocation_failed", "manifest_invalid"},
         NEW within \in BOOLEAN, NEW answer \in {"ok", "error", "panic"},
         NEW o \in PolicyOutputs, RunPolicy(prepare, answer, within, o)
  PROVE  Inv'
<1> DEFINE error == policy_error(prepare, answer, within, o)
<1>1. /\ phase = "deciding" /\ base \in 2 .. MaxDepth /\ reports = {}
      /\ DOMAIN annotations = declared /\ depth_with(annotations) <= MaxDepth
      /\ given \in Nat /\ given <= MaxDepth
  BY DEF RunPolicy, Inv, TypeOK, Bounded, Running
<1>2. /\ UNCHANGED <<plan, base, annotations, staged, seen>>
      /\ \/ given' = Max({given, depth_with(annotations)})
         \/ UNCHANGED given
      /\ prepare = "none" /\ answer = "ok" => output' = o
      /\ \/ error # "none" /\ denies(error, "final")
         \/ /\ error = "none" /\ phase' = "done" /\ verdict' = verdict_of(o)
            /\ policy_input' = "final" /\ UNCHANGED reports
  BY DEF RunPolicy
<1>3. o \in Outputs
  BY BoundsAssumption
<1>4. error \in Errors \cup {"none"}
  BY DEF policy_error, refusal, transform_error, Errors
<1>5. error = "none" => prepare = "none" /\ answer = "ok" /\ refusal(o) = "none"
  BY DEF policy_error
<1> HIDE DEF error
<1>6. phase' = "done"
  BY <1>2 DEF denies
<1>7. given' \in Nat /\ given' <= MaxDepth
  <2>1. depth_with(annotations) \in Nat
    BY <1>1, DepthWith DEF Inv, Collected
  <2>2. Max({given, depth_with(annotations)}) \in {given, depth_with(annotations)}
    BY <1>1, <2>1, MaxOfTwo
  <2> QED BY <1>1, <1>2, <2>1, <2>2
<1>8. Planning'
  <2>1. phase \in Evaluating /\ phase' \in Evaluating /\ Planning
    BY <1>1, <1>6, InvParts DEF Evaluating
  <2> QED BY <1>2, <1>7, <2>1, PlanIsKept
<1>9. Collected' /\ Shown' /\ Bounded'
  BY <1>2, <1>6, <1>7 DEF Inv, Collected, Shown, Bounded, Evaluating, Running, plan
<1>10. DecisionIsEarned' /\ VerdictIsValid'
  <2>1. CASE error # "none" /\ denies(error, "final")
    BY <1>4, <2>1, DenyIsSafe
  <2>2. CASE error = "none"
    <3>1. verdict' = verdict_of(o) /\ output' = o /\ reports' = {} /\ policy_input' = "final"
      BY <1>1, <1>2, <1>5, <2>2
    <3>2. DOMAIN annotations' = declared'
      BY <1>1, <1>2 DEF plan
    <3>3. VerdictIsValid'
      BY <1>3, <1>5, <2>2, <3>1, AcceptedOutput DEF VerdictIsValid
    <3>4. DecisionIsEarned'
      BY <1>3, <1>5, <2>2, <3>1, <3>2, AcceptedOutput DEF DecisionIsEarned
    <3> QED BY <3>3, <3>4
  <2> QED BY <1>2, <2>1, <2>2
<1> QED BY <1>8, <1>9, <1>10 DEF Inv, Planning

-----------------------------------------------------------------------------
(* Theorems                                                                *)

LEMMA StutterInv ==
  ASSUME Inv, UNCHANGED pipelineVars
  PROVE  Inv'
<1>1. /\ UNCHANGED <<chaining, declared, limit, needs, from, unread, remaining, ready, order>>
      /\ UNCHANGED <<phase, base, annotations, staged, seen, given, output, verdict>>
      /\ UNCHANGED <<policy_input, reports>>
  BY DEF pipelineVars, plan
<1>2. TypeOK' /\ Validated' /\ Counting'
  BY <1>1 DEF Inv, TypeOK, Validated, Accepted, Counting, Enabled
<1>3. Ordered'
  BY <1>1 DEF Inv, Ordered, IsOrder, Greedy, Enabled
<1>4. Collected' /\ Shown' /\ Bounded'
  BY <1>1 DEF Inv, Collected, Shown, Bounded, depth_with
<1>5. DecisionIsEarned' /\ VerdictIsValid'
  BY <1>1 DEF Inv, DecisionIsEarned, VerdictIsValid
<1> QED BY <1>2, <1>3, <1>4, <1>5 DEF Inv

(* The invariant holds along every evaluation of runtime.rs, for every      *)
(* manifest, limit and answer.                                              *)
THEOREM Invariance == PipelineSpec => []Inv
<1>1. ASSUME Inv, PipelineStep
      PROVE  Inv'
  <2>1. CASE \E list \in NeedLists, path \in Froms, valid \in BOOLEAN :
               ValidateBinding(list, path, valid)
    BY <1>1, <2>1, ValidateBindingInv
  <2>2. CASE StartOrder
    BY <1>1, <2>2, StartOrderInv
  <2>3. CASE PopReady
    BY <1>1, <2>3, PopReadyInv
  <2>4. CASE EndOrder
    BY <1>1, <2>4, EndOrderInv
  <2>5. CASE \E failure \in {"none", "intervention_point_unknown", "path_missing",
                             "tool_unknown"},
                snapshot, target, tool \in Depths :
               target <= snapshot /\ Evaluate(failure, snapshot, target, tool)
    BY <1>1, <2>5, EvaluateInv
  <2>6. CASE \E resolves, accepted \in BOOLEAN, depth \in Depths,
                answer \in {"ok", "panic", "annotation_timeout", "policy_invocation_failed"} :
               RunAnnotator(resolves, answer, depth, accepted)
    BY <1>1, <2>6, RunAnnotatorInv
  <2>7. CASE BuildPolicyInput
    BY <1>1, <2>7, BuildPolicyInputInv
  <2>8. CASE \E prepare \in {"none", "policy_invocation_failed", "manifest_invalid"},
                within \in BOOLEAN, answer \in {"ok", "error", "panic"}, o \in PolicyOutputs :
               RunPolicy(prepare, answer, within, o)
    BY <1>1, <2>8, RunPolicyInv
  <2> QED BY <1>1, <2>1, <2>2, <2>3, <2>4, <2>5, <2>6, <2>7, <2>8 DEF PipelineStep
<1> QED BY <1>1, InitInv, StutterInv, PTL DEF PipelineSpec

(* Where a greedy order and another order of the same annotators first      *)
(* differ, the greedy one has the lesser name: annotation_dispatch_order    *)
(* gives the least order.                                                   *)
LEMMA GreedyIsLeast ==
  ASSUME Inv, phase \in Evaluating, NEW p \in SetToSeqs(declared), IsOrder(p), order # p
  PROVE  Precedes(order, p)
<1> DEFINE D == 1 .. Cardinality(declared)
<1>1. /\ p \in [D -> declared]
      /\ \A i, j \in D : i # j => p[i] # p[j]
  BY DEF SetToSeqs
<1>2. /\ order \in Seq(declared) /\ ToSet(order) = declared
      /\ IsInjective(order) /\ Greedy(order) /\ declared \subseteq Annotators
  BY DEF Inv, TypeOK, Ordered
<1>3. order \in [D -> declared] /\ Cardinality(declared) \in Nat
  <2>1. Cardinality(ToSet(order)) = Len(order)
    BY <1>2, ListIsSet
  <2> QED BY <1>2, <2>1
<1> HIDE DEF D
<1>4. D \subseteq Nat /\ \A i \in D : \A j \in 1 .. i - 1 : j \in D
  BY <1>3 DEF D
<1>5. PICK m \in D : order[m] # p[m] /\ \A j \in 1 .. m - 1 : order[j] = p[j]
  <2> DEFINE T == {i \in D : order[i] # p[i]}
  <2>1. T \subseteq Nat /\ T # {}
    <3>1. (\A i \in D : order[i] = p[i]) => order = p
      BY <1>1, <1>3
    <3> QED BY <1>4, <3>1
  <2>2. PICK m \in T : \A i \in T : m <= i
    <3> HIDE DEF T
    <3> QED BY <2>1, LeastNumber
  <2>3. \A j \in 1 .. m - 1 : j \in D /\ ~(m <= j)
    <3>1. m \in D /\ m \in Nat
      BY <1>4, <2>2
    <3> HIDE DEF T
    <3> QED BY <1>4, <3>1
  <2> QED BY <2>2, <2>3
<1>6. Enabled(p[m], {order[j] : j \in 1 .. m - 1})
  <2>1. p[m] \notin {order[j] : j \in 1 .. m - 1}
    <3>1. \A j \in 1 .. m - 1 : j \in D /\ j # m
      BY <1>4
    <3> QED BY <1>1, <1>5, <3>1
  <2>2. ToSet(needs[p[m]]) \subseteq {order[j] : j \in 1 .. m - 1}
    BY <1>1, <1>5 DEF IsOrder
  <2> QED BY <2>1, <2>2 DEF Enabled
<1>7. order[m] \in Annotators /\ p[m] \in Annotators /\ p[m] \in declared
  BY <1>1, <1>2, <1>3
<1>8. Rank(order[m]) <= Rank(p[m])
  BY <1>2, <1>3, <1>6, <1>7 DEF Greedy
<1>9. Rank(order[m]) < Rank(p[m])
  BY <1>5, <1>7, <1>8, RankIs, RankIsOwn
<1> QED BY <1>3, <1>5, <1>9 DEF Precedes

(* A rest of which nobody can go next is in no order: the first of it in   *)
(* one could.                                                              *)
LEMMA NoOrderIsMissed ==
  ASSUME Inv, phase = "cyclic", NEW p \in SetToSeqs(declared), IsOrder(p)
  PROVE  FALSE
<1> DEFINE D == 1 .. Cardinality(declared)
<1>1. /\ p \in [D -> declared]
      /\ \A i, j \in D : i # j => p[i] # p[j]
  BY DEF SetToSeqs
<1>2. IsFiniteSet(declared) /\ Cardinality(declared) \in Nat
  <2>1. IsFiniteSet(Annotators)
    BY NamesAssumption, ListIsSet DEF Annotators
  <2> QED BY <2>1, FS_Subset, FS_CardinalityType DEF Inv, TypeOK
<1>3. /\ order \in Seq(declared) /\ ToSet(order) # declared
      /\ \A b \in declared : ~Enabled(b, ToSet(order))
  BY DEF Inv, TypeOK, Ordered
<1>4. PICK b \in declared : b \notin ToSet(order)
  BY <1>3, ListIsSet
<1>5. \E i \in D : p[i] = b
  <2>1. Cardinality(D) = Cardinality(declared)
    BY <1>2, FS_Interval
  <2>2. p \in Injection(D, declared)
    BY <1>1 DEF Injection, IsInjective
  <2> HIDE DEF D
  <2>3. p \in Surjection(D, declared)
    BY <1>2, <2>1, <2>2, FS_Injection
  <2> QED BY <2>3 DEF Surjection
<1>6. D \subseteq Nat /\ \A i \in D : \A j \in 1 .. i - 1 : j \in D
  BY <1>2
<1> HIDE DEF D
<1>7. PICK m \in D : /\ p[m] \notin ToSet(order)
                     /\ \A j \in 1 .. m - 1 : p[j] \in ToSet(order)
  <2> DEFINE T == {i \in D : p[i] \notin ToSet(order)}
  <2>1. T \subseteq Nat /\ T # {}
    BY <1>4, <1>5, <1>6
  <2>2. PICK m \in T : \A i \in T : m <= i
    <3> HIDE DEF T
    <3> QED BY <2>1, LeastNumber
  <2>3. \A j \in 1 .. m - 1 : j \in D /\ ~(m <= j)
    <3>1. m \in D /\ m \in Nat
      BY <1>6, <2>2
    <3> HIDE DEF T
    <3> QED BY <1>6, <3>1
  <2> QED BY <2>2, <2>3
<1>8. \A c \in ToSet(needs[p[m]]) : \E j \in 1 .. m - 1 : p[j] = c
  BY <1>1 DEF IsOrder
<1>9. Enabled(p[m], ToSet(order))
  BY <1>7, <1>8 DEF Enabled
<1> QED BY <1>1, <1>3, <1>9

(* annotation_dispatch_order (manifest.rs) finds the least order of the     *)
(* point's annotators in which each comes after what it needs, and refuses  *)
(* the point only when there is no such order, for any number of            *)
(* annotators and any needs.                                                *)
THEOREM PlanSafety == PipelineSpec => []PlanIsLeastOrder
<1>1. ASSUME Inv
      PROVE  PlanIsLeastOrder
  <2>1. phase \in Evaluating => ToSet(order) = declared /\ IsOrder(order)
    BY <1>1 DEF Inv, Ordered
  <2> QED BY <1>1, <2>1, GreedyIsLeast, NoOrderIsMissed DEF PlanIsLeastOrder
<1> QED BY <1>1, Invariance, PTL

(* Each annotator that collect_annotations (runtime.rs) called was shown    *)
(* the results it declared a need for, as they were given, and no others,   *)
(* and its path reads one of them or none.                                  *)
THEOREM SightSafety == PipelineSpec => []SeesOnlyDeclared
<1>1. ASSUME Inv
      PROVE  SeesOnlyDeclared
  <2>1. SUFFICES ASSUME NEW a \in DOMAIN seen
                 PROVE  /\ seen[a] = [b \in ToSet(needs[a]) |-> annotations[b]]
                        /\ from[a] \in Annotators => from[a] \in DOMAIN seen[a]
    BY DEF SeesOnlyDeclared
  <2>2. /\ a \in declared
        /\ seen[a] = [b \in ToSet(needs[a]) |-> annotations[b]]
    BY <1>1, <2>1 DEF Inv, Shown
  <2>3. phase \in Evaluating
    BY <1>1, <2>1, EmptyList DEF Inv, Collected
  <2>4. Accepted(a)
    BY <1>1, <2>2, <2>3 DEF Inv, Validated, Evaluating
  <2> QED BY <2>2, <2>4 DEF Accepted
<1> QED BY <1>1, Invariance, PTL

(* Whatever a manifest, a dispatcher or a policy does, an evaluation        *)
(* (runtime.rs) that fails is a deny, its verdict is well formed, and       *)
(* nothing is handed to a dispatcher that is nested beyond the limit.       *)
THEOREM FailClosedSafety == PipelineSpec => []FailClosed
<1>1. Inv => FailClosed
  BY DEF Inv, Bounded, FailClosed
<1> QED BY <1>1, Invariance, PTL

-----------------------------------------------------------------------------
(* Credentials of an annotator call.  A result is clean if it carries no   *)
(* value of the host for a fetched manifest, and settled if it is also no  *)
(* refusal for that reason.                                                *)

Credentials == {"inline", "host"}
Details == {"", "provenance", "unset", "config", "target", "shape", "http"}
Results == [ok : BOOLEAN, carries : SUBSET Credentials, detail : Details]
Operations == [op : {"GET", "POST"}, carries : SUBSET Credentials]

Clean(r) == r \in Results /\ (inv.url_sourced => "host" \notin r.carries)
Settled(r) == Clean(r) /\ r.detail # "provenance"

(* The fields of the two kinds of result.                                  *)
LEMMA OkFields ==
    ASSUME NEW c \in SUBSET Credentials
    PROVE  Ok(c) \in Results /\ Ok(c).ok /\ Ok(c).carries = c /\ Ok(c).detail = ""
<1>1. Ok(c).ok /\ Ok(c).carries = c /\ Ok(c).detail = ""
  BY DEF Ok
<1>2. Ok(c) \in Results
  BY DEF Ok, Results, Details
<1> QED BY <1>1, <1>2

LEMMA ErrFields ==
    ASSUME NEW d \in Details
    PROVE  Err(d) \in Results /\ ~Err(d).ok /\ Err(d).carries = {} /\ Err(d).detail = d
BY DEF Err, Results, Details, Credentials

LEMMA OkIsSettled ==
    ASSUME NEW c \in SUBSET Credentials, inv.url_sourced => "host" \notin c
    PROVE  Settled(Ok(c)) /\ Ok(c).ok
BY OkFields DEF Clean, Settled

LEMMA ErrIsClean ==
    ASSUME NEW d \in Details
    PROVE  Clean(Err(d)) /\ ~Err(d).ok /\ (d # "provenance" => Settled(Err(d)))
BY ErrFields DEF Clean, Settled

(* Steps of the call chain without adding anything of their own.           *)
LEMMA Chained ==
    ASSUME NEW r, NEW next, Clean(r), Clean(next)
    PROVE  /\ Clean(AndThen(r, next))
           /\ AndThen(r, next).ok => r.ok /\ next.ok
           /\ Settled(r) /\ Settled(next) => Settled(AndThen(r, next))
<1>1. CASE ~r.ok
  BY <1>1 DEF AndThen
<1>2. CASE r.ok /\ ~next.ok
  BY <1>2 DEF AndThen
<1>3. CASE r.ok /\ next.ok
  <2>1. PICK c \in SUBSET Credentials : c = r.carries \cup next.carries
    BY DEF Clean, Results
  <2>2. inv.url_sourced => "host" \notin c
    BY <2>1 DEF Clean
  <2>3. AndThen(r, next) = Ok(c)
    BY <1>3, <2>1 DEF AndThen
  <2> QED BY <1>3, <2>2, <2>3, OkIsSettled DEF Settled
<1> QED BY <1>1, <1>2, <1>3

LEMMA Requirements ==
    ASSUME NEW cond \in BOOLEAN, NEW d \in Details
    PROVE  /\ Clean(Require(cond, d)) /\ (Require(cond, d).ok => cond)
           /\ d # "provenance" => Settled(Require(cond, d))
<1>1. {} \in SUBSET Credentials
  OBVIOUS
<1> QED BY <1>1, OkIsSettled, ErrIsClean DEF Require, Settled

(* Reading the environment: nothing for a fetched manifest.                *)
LEMMA EnvironmentReads ==
    ASSUME NEW v
    PROVE  /\ Clean(read_with(v)) /\ Clean(Required(v)) /\ Settled(read_optional(v))
           /\ inv.url_sourced => ~read_with(v).ok /\ ~Required(v).ok
           /\ ~inv.url_sourced => Settled(read_with(v)) /\ Settled(Required(v))
<1>1. /\ {} \in SUBSET Credentials /\ {"host"} \in SUBSET Credentials
      /\ "provenance" \in Details /\ "unset" \in Details
  BY DEF Credentials, Details
<1>2. CASE inv.url_sourced
  <2>1. read_with(v) = Err("provenance")
    BY <1>2 DEF read_with
  <2>2. ~read_with(v).ok /\ read_with(v).carries = {}
    BY <1>1, <2>1, ErrFields
  <2>3. Required(v) = read_with(v)
    BY <2>2 DEF Required
  <2>4. read_optional(v) = Ok({})
    BY <2>2 DEF read_optional
  <2> QED BY <1>1, <1>2, <2>1, <2>3, <2>4, ErrIsClean, OkIsSettled
<1>3. CASE ~inv.url_sourced
  <2>1. read_with(v) \in {Ok({}), Ok({"host"})}
    BY <1>3 DEF read_with
  <2>2. Settled(read_with(v))
    BY <1>1, <1>3, <2>1, OkIsSettled
  <2>3. Required(v) \in {Err("unset"), read_with(v)}
    BY DEF Required
  <2>4. read_optional(v) \in {Ok({}), Ok({"host"})}
    BY <1>1, <2>1, OkFields DEF read_optional
  <2> QED BY <1>1, <1>3, <2>2, <2>3, <2>4, ErrIsClean, OkIsSettled DEF Settled
<1> QED BY <1>2, <1>3

(* Secrets that come from a field of the manifest or from the environment. *)
LEMMA SecretReads ==
    ASSUME NEW f, NEW v, NEW default \in BOOLEAN
    PROVE  /\ Clean(secret_field_or_env(f, v))
           /\ Clean(secret_from_field_or_env(default))
           /\ ~inv.url_sourced => /\ Settled(secret_field_or_env(f, v))
                                  /\ Settled(secret_from_field_or_env(default))
<1>1. Settled(Ok({})) /\ Settled(Ok({"inline"}))
  <2>1. {} \in SUBSET Credentials /\ {"inline"} \in SUBSET Credentials
    BY DEF Credentials
  <2> QED BY <2>1, OkIsSettled
<1>2. secret_field_or_env(f, v) \in {Ok({"inline"}), Required(v)}
  BY DEF secret_field_or_env
<1>3. secret_from_field_or_env(default) \in {Ok({}), Ok({"inline"}), Required("API_KEY")}
  BY DEF secret_from_field_or_env
<1> QED BY <1>1, <1>2, <1>3, EnvironmentReads DEF Settled

LEMMA ConfigIsDetail ==
    /\ "" \in Details /\ "provenance" \in Details /\ "unset" \in Details
    /\ "config" \in Details /\ "target" \in Details /\ "shape" \in Details
    /\ "http" \in Details
BY DEF Details

LEMMA Fixed ==
    /\ Settled(Ok({})) /\ Settled(Ok({"inline"})) /\ Ok({}).ok
    /\ ~inv.url_sourced => Settled(Ok({"host"}))
    /\ Settled(Err("config")) /\ Settled(Err("unset")) /\ ~Err("unset").ok
    /\ ~Err("config").ok
    /\ \A cond \in BOOLEAN : /\ Settled(Require(cond, "config"))
                             /\ Settled(Require(cond, "target"))
                             /\ Settled(Require(cond, "shape"))
<1>1. /\ {} \in SUBSET Credentials /\ {"inline"} \in SUBSET Credentials
      /\ {"host"} \in SUBSET Credentials
  BY DEF Credentials
<1> QED BY <1>1, OkIsSettled, ErrIsClean, Requirements, ConfigIsDetail

LEMMA SettledChain ==
    ASSUME NEW r, NEW next, Settled(r), Settled(next)
    PROVE  Settled(AndThen(r, next))
BY Chained DEF Settled

LEMMA CleanChain ==
    ASSUME NEW r, NEW next, Clean(r), Clean(next)
    PROVE  Clean(AndThen(r, next))
BY Chained

LEMMA ApiKeyIsClean == Clean(env_api_key)
BY Fixed, EnvironmentReads DEF env_api_key, Settled

(* Where Bedrock's region and session token come from.                     *)
Region ==
    IF Has("aws_region") THEN Ok({})
    ELSE IF ~inv.url_sourced /\ {"AWS_REGION", "AWS_DEFAULT_REGION"} \cap host # {}
    THEN Ok({"host"})
    ELSE AndThen(read_with("AWS_REGION"), Err("unset"))
SessionToken ==
    IF Has("aws_session_token") THEN Ok({"inline"}) ELSE read_optional("AWS_SESSION_TOKEN")

LEMMA BedrockParts ==
    /\ Clean(Region) /\ Settled(SessionToken)
    /\ ~inv.url_sourced \/ Has("aws_region") => Settled(Region)
<1>1. Clean(AndThen(read_with("AWS_REGION"), Err("unset")))
  BY EnvironmentReads, CleanChain, Fixed DEF Settled
<1>2. ~inv.url_sourced => Settled(AndThen(read_with("AWS_REGION"), Err("unset")))
  BY EnvironmentReads, SettledChain, Fixed
<1>3. Settled(SessionToken)
  BY EnvironmentReads, Fixed DEF SessionToken
<1>4. CASE Has("aws_region")
  BY <1>3, <1>4, Fixed DEF Region, Settled
<1>5. CASE ~Has("aws_region")
  BY <1>1, <1>2, <1>3, <1>5, Fixed DEF Region, Settled
<1> QED BY <1>4, <1>5

LEMMA BedrockIs ==
    bedrock_request =
      AndThen(Region,
      AndThen(secret_field_or_env("aws_access_key_id", "AWS_ACCESS_KEY_ID"),
      AndThen(secret_field_or_env("aws_secret_access_key", "AWS_SECRET_ACCESS_KEY"),
      AndThen(SessionToken, Require(~Has("endpoint_relative"), "config")))))
BY DEF bedrock_request, Region, SessionToken

(* The requests of the LLM providers are clean, and for a manifest of the  *)
(* host's own settled.                                                     *)
LEMMA RequestIsClean ==
    /\ Clean(request_for_provider)
    /\ ~inv.url_sourced => Settled(request_for_provider)
<1>1. Clean(bedrock_request) /\ (~inv.url_sourced => Settled(bedrock_request))
  <2> DEFINE k == secret_field_or_env("aws_access_key_id", "AWS_ACCESS_KEY_ID")
             s == secret_field_or_env("aws_secret_access_key", "AWS_SECRET_ACCESS_KEY")
             e == Require(~Has("endpoint_relative"), "config")
  <2>1. Clean(k) /\ Clean(s) /\ (~inv.url_sourced => Settled(k) /\ Settled(s))
    BY SecretReads
  <2>2. Settled(e) /\ Clean(e)
    BY Fixed DEF Settled
  <2> HIDE DEF k, s, e
  <2>3. Settled(AndThen(SessionToken, e)) /\ Clean(AndThen(SessionToken, e))
    BY <2>2, BedrockParts, SettledChain DEF Settled
  <2>4. /\ Clean(AndThen(s, AndThen(SessionToken, e)))
        /\ ~inv.url_sourced => Settled(AndThen(s, AndThen(SessionToken, e)))
    BY <2>1, <2>3, CleanChain, SettledChain
  <2>5. /\ Clean(AndThen(k, AndThen(s, AndThen(SessionToken, e))))
        /\ ~inv.url_sourced => Settled(AndThen(k, AndThen(s, AndThen(SessionToken, e))))
    BY <2>1, <2>4, CleanChain, SettledChain
  <2>6. bedrock_request = AndThen(Region, AndThen(k, AndThen(s, AndThen(SessionToken, e))))
    BY BedrockIs DEF k, s, e
  <2> QED BY <2>5, <2>6, BedrockParts, CleanChain, SettledChain
<1>2. /\ Clean(secret_from_field_or_env(TRUE))
      /\ ~inv.url_sourced => Settled(secret_from_field_or_env(TRUE))
  BY SecretReads
<1>3. Clean(azure_openai_request) /\ (~inv.url_sourced => Settled(azure_openai_request))
  <2> DEFINE cond == \/ Has("chat_url")
                     \/ Has("endpoint") /\ Has("deployment") /\ Has("api_version")
                     \/ ~Has("endpoint") /\ Has("base_url")
  <2>1. Settled(Require(cond, "config"))
    BY Fixed
  <2>2. azure_openai_request = AndThen(Require(cond, "config"), secret_from_field_or_env(TRUE))
    BY DEF azure_openai_request
  <2> HIDE DEF cond
  <2> QED BY <1>2, <2>1, <2>2, CleanChain, SettledChain DEF Settled
<1>4. Clean(openai_request) /\ (~inv.url_sourced => Settled(openai_request))
  <2>1. openai_request \in {Ok({}), Ok({"inline"}), Required("API_KEY")}
    BY DEF openai_request, secret_from_field_or_env
  <2> QED BY <2>1, Fixed, EnvironmentReads DEF Settled
<1>5. request_for_provider \in {openai_request, azure_openai_request, bedrock_request,
                                secret_from_field_or_env(TRUE), Ok({})}
  BY DEF request_for_provider, gemini_request, ollama_request
<1> QED BY <1>1, <1>2, <1>3, <1>4, <1>5, Fixed DEF Settled

(* What is asked before the prompt is fetched is clean, and so is          *)
(* everything a call of another type prepares.                             *)
LEMMA PreFetchIsClean == Clean(reject_pre_fetch_host_env_access)
<1> DEFINE region == IF Has("aws_region") THEN Ok({}) ELSE read_with("AWS_REGION")
           k == secret_field_or_env("aws_access_key_id", "AWS_ACCESS_KEY_ID")
           s == secret_field_or_env("aws_secret_access_key", "AWS_SECRET_ACCESS_KEY")
<1>1. Clean(region)
  BY Fixed, EnvironmentReads DEF Settled
<1>2. Clean(k) /\ Clean(s)
  BY SecretReads
<1>3. reject_pre_fetch_host_env_access \in
        {Ok({}), AndThen(region, AndThen(k, s)), read_with("API_KEY")}
  BY DEF reject_pre_fetch_host_env_access
<1> HIDE DEF region, k, s
<1>4. Clean(AndThen(region, AndThen(k, s)))
  BY <1>1, <1>2, CleanChain
<1> QED BY <1>3, <1>4, Fixed, EnvironmentReads DEF Settled

LEMMA PrepareIsClean == Clean(Prepare)
<1>1. \A cond \in BOOLEAN : Clean(Require(cond, "config")) /\ Clean(Require(cond, "target"))
  BY Fixed DEF Settled
<1>2. Clean(from_fields_head)
  <2> DEFINE a == Require(inv.provider \in LlmProviders, "config")
             b == Require(~(Has("system_prompt_url") /\ Has("system_prompt")), "config")
  <2>1. Clean(a) /\ Clean(b)
    BY Fixed DEF Require, Settled
  <2>2. from_fields_head = AndThen(a, AndThen(reject_pre_fetch_host_env_access, b))
    BY DEF from_fields_head
  <2> HIDE DEF a, b
  <2> QED BY <2>1, <2>2, PreFetchIsClean, CleanChain
<1>3. Clean(endpoint_request)
  <2> DEFINE a == Require(Has("endpoint") \/ Has("url"), "config")
             b == Require(~Has("timeout_bad"), "config")
             c == Require(inv.target = "text", "target")
  <2>1. Clean(a) /\ Clean(b) /\ Clean(c)
    BY Fixed DEF Require, Settled
  <2>2. endpoint_request = AndThen(a, AndThen(b, c))
    BY DEF endpoint_request
  <2> HIDE DEF a, b, c
  <2> QED BY <2>1, <2>2, CleanChain
<1>4. Clean(dispatch_generic)
  <2> DEFINE a == Require(inv.target = "text", "target")
             b == Require(Has("url"), "config")
             c == Require(~Has("timeout_bad"), "config")
  <2>1. Clean(a) /\ Clean(b) /\ Clean(c)
    BY Fixed DEF Require, Settled
  <2>2. dispatch_generic = AndThen(a, AndThen(b, AndThen(env_api_key, c)))
    BY DEF dispatch_generic
  <2> HIDE DEF a, b, c
  <2> QED BY <2>1, <2>2, ApiKeyIsClean, CleanChain
<1>5. Clean(AndThen(Require(inv.target = "text", "target"), classify))
  <2> DEFINE a == Require(inv.target = "text", "target")
             b == Require(~Has("thresholds_bad") /\ ~Has("headers_bad"), "config")
             e == Require(Has("endpoint"), "config")
             provider ==
               CASE resolve_target = "aacs" -> aacs_classify
                 [] resolve_target = "openai_moderation" -> openai_moderation_classify
                 [] resolve_target = "perspective" -> perspective_classify
                 [] resolve_target = "llama_guard" -> llama_guard_classify
                 [] resolve_target = "lakera_guard" -> lakera_guard_classify
                 [] OTHER -> Err("config")
  <2>1. Clean(a) /\ Clean(e)
    BY Fixed DEF Require, Settled
  <2>2. Clean(NeedsKey) /\ Clean(ListIsUsable)
    BY <1>1 DEF NeedsKey, ListIsUsable
  <2>3. Clean(from_fields_with_provenance)
    <3>1. from_fields_with_provenance = AndThen(env_api_key, b)
      BY DEF from_fields_with_provenance
    <3>2. Clean(b)
      BY Fixed DEF Require, Settled
    <3> HIDE DEF b
    <3> QED BY <3>1, <3>2, ApiKeyIsClean, CleanChain
  <2>4. /\ aacs_classify = AndThen(NeedsKey, AndThen(e, ListIsUsable))
        /\ openai_moderation_classify = NeedsKey /\ lakera_guard_classify = NeedsKey
        /\ perspective_classify = AndThen(NeedsKey, ListIsUsable)
        /\ llama_guard_classify = AndThen(NeedsKey, e)
    BY DEF aacs_classify, openai_moderation_classify, lakera_guard_classify,
           perspective_classify, llama_guard_classify
  <2>5. provider \in {aacs_classify, openai_moderation_classify, perspective_classify,
                      llama_guard_classify, lakera_guard_classify, Err("config")}
    OBVIOUS
  <2>6. classify = AndThen(from_fields_with_provenance, provider)
    BY DEF classify
  <2> HIDE DEF a, e, provider
  <2>7. Clean(provider)
    BY <2>1, <2>2, <2>4, <2>5, CleanChain, Fixed DEF Settled
  <2> QED BY <2>1, <2>3, <2>6, <2>7, CleanChain DEF a
<1>6. Prepare \in {from_fields_head, endpoint_request, dispatch_generic, Err("config"),
                   AndThen(Require(inv.target = "text", "target"), classify)}
  BY DEF Prepare
<1> QED BY <1>2, <1>3, <1>4, <1>5, <1>6, Fixed DEF Settled

(* What was asked before the prompt is all the request asks: once the      *)
(* prompt has been fetched, no read of the environment is refused.         *)
LEMMA PromptedIsSettled ==
    ASSUME inv.type = "llm", Prepare.ok
    PROVE  Settled(AndThen(from_fields_tail, request_for_provider))
<1>1. Settled(from_fields_tail)
  <2> DEFINE a == Require(~Has("timeout_bad"), "config")
             b == Require(~Has("headers_bad"), "config")
             c == Require(inv.target = "text", "target")
  <2>1. Settled(a) /\ Settled(b) /\ Settled(c)
    BY Fixed
  <2>2. from_fields_tail = AndThen(a, AndThen(b, c))
    BY DEF from_fields_tail
  <2> HIDE DEF a, b, c
  <2> QED BY <2>1, <2>2, SettledChain
<1>2. inv.provider \in LlmProviders /\ reject_pre_fetch_host_env_access.ok
  <2> DEFINE a == Require(inv.provider \in LlmProviders, "config")
             b == Require(~(Has("system_prompt_url") /\ Has("system_prompt")), "config")
  <2>1. Clean(a) /\ Clean(b) /\ (a.ok => inv.provider \in LlmProviders)
    BY Fixed DEF Require, Settled
  <2>2. Prepare = AndThen(a, AndThen(reject_pre_fetch_host_env_access, b))
    BY DEF from_fields_head, Prepare
  <2> HIDE DEF a, b
  <2> QED BY <2>1, <2>2, PreFetchIsClean, CleanChain, Chained
<1>3. ASSUME inv.url_sourced
      PROVE  Settled(request_for_provider)
  <2>1. CASE inv.provider = "ollama"
    BY <2>1, Fixed DEF request_for_provider, ollama_request
  <2>2. CASE inv.provider = "bedrock"
    <3> DEFINE region == IF Has("aws_region") THEN Ok({}) ELSE read_with("AWS_REGION")
               k == secret_field_or_env("aws_access_key_id", "AWS_ACCESS_KEY_ID")
               s == secret_field_or_env("aws_secret_access_key", "AWS_SECRET_ACCESS_KEY")
               e == Require(~Has("endpoint_relative"), "config")
    <3>1. reject_pre_fetch_host_env_access = AndThen(region, AndThen(k, s))
      BY <1>3, <2>2 DEF reject_pre_fetch_host_env_access
    <3>2. Clean(region) /\ Clean(k) /\ Clean(s)
      BY Fixed, EnvironmentReads, SecretReads DEF Settled
    <3>3. region.ok => Has("aws_region")
      BY <1>3, EnvironmentReads
    <3>4. (k.ok => Settled(k)) /\ (s.ok => Settled(s))
      BY <1>3, EnvironmentReads, Fixed DEF secret_field_or_env
    <3>5. Settled(e)
      BY Fixed
    <3>6. bedrock_request = AndThen(Region, AndThen(k, AndThen(s, AndThen(SessionToken, e))))
      BY BedrockIs
    <3> HIDE DEF region, k, s, e
    <3>7. region.ok /\ k.ok /\ s.ok
      BY <1>2, <3>1, <3>2, CleanChain, Chained
    <3>8. Settled(Region) /\ Settled(SessionToken)
      BY <3>3, <3>7, BedrockParts
    <3>9. Settled(bedrock_request)
      BY <3>4, <3>5, <3>6, <3>7, <3>8, SettledChain
    <3> QED BY <2>2, <3>9 DEF request_for_provider
  <2>3. CASE inv.provider \notin {"ollama", "bedrock"}
    <3>1. Has("api_key") \/ ~(Has("api_key_env") \/ DefaultKey)
      BY <1>2, <1>3, <2>3, EnvironmentReads DEF reject_pre_fetch_host_env_access
    <3>2. Settled(openai_request)
      BY <3>1, Fixed DEF openai_request, secret_from_field_or_env
    <3>3. DefaultKey => Settled(secret_from_field_or_env(TRUE))
      BY <3>1, Fixed DEF secret_from_field_or_env
    <3>4. DefaultKey => Settled(azure_openai_request)
      <4> DEFINE cond == \/ Has("chat_url")
                         \/ Has("endpoint") /\ Has("deployment") /\ Has("api_version")
                         \/ ~Has("endpoint") /\ Has("base_url")
      <4>1. Settled(Require(cond, "config"))
        BY Fixed
      <4>2. azure_openai_request
              = AndThen(Require(cond, "config"), secret_from_field_or_env(TRUE))
        BY DEF azure_openai_request
      <4> HIDE DEF cond
      <4> QED BY <3>3, <4>1, <4>2, SettledChain
    <3> QED
      BY <1>2, <2>3, <3>2, <3>3, <3>4
      DEF request_for_provider, gemini_request, LlmProviders, DefaultKey
  <2> QED BY <2>1, <2>2, <2>3
<1> QED BY <1>1, <1>3, RequestIsClean, SettledChain

DispatchInv ==
    /\ net \in Seq(Operations)
    /\ inv.url_sourced => \A i \in 1..Len(net) : "host" \notin net[i].carries
    /\ stage = "start" => net = <<>>
    /\ stage = "prompted" => inv.type = "llm" /\ Prepare.ok
    /\ out.detail = "provenance" => stage = "done" /\ net = <<>>

(* A network operation that carries no value of the host for a fetched     *)
(* manifest.                                                               *)
LEMMA SendsClean ==
    ASSUME DispatchInv, UNCHANGED inv, NEW x \in Operations, net' = Append(net, x),
           inv.url_sourced => "host" \notin x.carries
    PROVE  /\ net' \in Seq(Operations)
           /\ inv'.url_sourced => \A i \in 1..Len(net') : "host" \notin net'[i].carries
<1>1. PICK n \in Nat : n = Len(net)
  BY DEF DispatchInv
<1>2. /\ net' \in Seq(Operations) /\ Len(net') = n + 1 /\ net'[n + 1] = x
      /\ \A i \in 1..n : net'[i] = net[i]
  BY <1>1 DEF DispatchInv
<1> QED BY <1>1, <1>2 DEF DispatchInv

(* A POST carries what its result gathered.                                *)
LEMMA PostIsClean ==
    ASSUME DispatchInv, UNCHANGED inv, NEW r, Clean(r), Post(r), stage # "done"
    PROVE  DispatchInv'
<1>1. PICK x : x = [op |-> "POST", carries |-> r.carries]
  OBVIOUS
<1>2. x \in Operations /\ x.carries = r.carries
  BY <1>1 DEF Clean, Results, Operations
<1>3. net' = Append(net, x) /\ stage' = "sent" /\ out' = out
  BY <1>1 DEF Post
<1>4. inv.url_sourced => "host" \notin x.carries
  BY <1>2 DEF Clean
<1> QED BY <1>2, <1>3, <1>4, SendsClean DEF DispatchInv

LEMMA FailedDetail ==
    ASSUME NEW detail, NEW reason, Failed(detail, reason)
    PROVE  out'.detail = detail
BY DEF Failed

LEMMA DispatchInitInv == DispatchInit => DispatchInv
<1> SUFFICES ASSUME DispatchInit
             PROVE  DispatchInv
  OBVIOUS
<1>1. net \in Seq(Operations) /\ Len(net) = 0
  BY EmptySeq DEF DispatchInit
<1>2. stage = "start" /\ net = <<>> /\ out.detail = ""
  BY DEF DispatchInit, Pending
<1>3. inv.url_sourced => \A i \in 1..Len(net) : "host" \notin net[i].carries
  BY <1>1
<1> QED BY <1>1, <1>2, <1>3 DEF DispatchInv

(* The configuration does not change while a call is under way, so what    *)
(* was asked before the prompt still holds after it.                       *)
LEMMA PrepareStays ==
    ASSUME UNCHANGED <<inv, host>>, inv.type = "llm"
    PROVE  Prepare' = Prepare
<1>1. \A v : read_with(v)' = read_with(v)
  BY DEF read_with
<1>2. \A f : Has(f)' <=> Has(f)
  BY DEF Has
<1>3. \A f, v : secret_field_or_env(f, v)' = secret_field_or_env(f, v)
  BY <1>1, <1>2 DEF secret_field_or_env, Required
<1>4. reject_pre_fetch_host_env_access' = reject_pre_fetch_host_env_access
  BY <1>1, <1>2, <1>3 DEF reject_pre_fetch_host_env_access, DefaultKey
<1>5. from_fields_head' = from_fields_head
  BY <1>2, <1>4 DEF from_fields_head, LlmProviders
<1> QED BY <1>5 DEF Prepare

LEMMA DispatchStepInv ==
    ASSUME DispatchInv, DispatchStep
    PROVE  DispatchInv'
<1>1. UNCHANGED <<inv, host>>
  BY DEF DispatchStep, Refuse, FetchPrompt, SendLlm, SendOther, Receive
<1>2. CASE Refuse
  <2>1. net' = net /\ net = <<>> /\ stage' = "done"
    BY <1>2 DEF Refuse, DispatchInv
  <2> QED BY <1>1, <2>1 DEF DispatchInv
<1>3. CASE FetchPrompt
  <2>1. stage = "start" /\ inv.type = "llm" /\ Prepare.ok /\ out.detail # "provenance"
    BY <1>3 DEF FetchPrompt, DispatchInv
  <2>2. inv'.type = "llm" /\ Prepare'.ok
    BY <1>1, <2>1, PrepareStays
  <2>3. stage' \in {"prompted", "done"} /\ out'.detail # "provenance"
    <3>1. \/ stage' = "prompted" /\ out' = out
          \/ stage' = "done" /\ Failed("prompt", "annotation_failed")
      BY <1>3 DEF FetchPrompt
    <3> QED BY <2>1, <3>1, FailedDetail
  <2>4. /\ net' \in Seq(Operations)
        /\ inv'.url_sourced => \A i \in 1..Len(net') : "host" \notin net'[i].carries
    <3>1. CASE Has("system_prompt_url")
      <4>1. PICK x : x = [op |-> "GET", carries |-> {}]
        OBVIOUS
      <4>2. x \in Operations /\ x.carries = {}
        BY <4>1 DEF Operations
      <4>3. net' = Append(net, x)
        BY <1>3, <3>1, <4>1 DEF FetchPrompt
      <4> QED BY <1>1, <4>2, <4>3, SendsClean
    <3>2. CASE ~Has("system_prompt_url")
      BY <1>1, <1>3, <3>2 DEF FetchPrompt, DispatchInv
    <3> QED BY <3>1, <3>2
  <2> QED BY <2>2, <2>3, <2>4 DEF DispatchInv
<1>4. CASE SendLlm
  <2> DEFINE r == AndThen(from_fields_tail, request_for_provider)
  <2>1. stage = "prompted" /\ Settled(r)
    BY <1>4, PromptedIsSettled DEF SendLlm, DispatchInv
  <2>2. CASE r.ok /\ Post(r)
    <3> HIDE DEF r
    <3> QED BY <1>1, <2>1, <2>2, PostIsClean DEF Settled
  <2>3. CASE stage' = "done" /\ Failed(r.detail, "annotation_failed") /\ UNCHANGED net
    <3> HIDE DEF r
    <3>1. out'.detail # "provenance"
      BY <2>1, <2>3, FailedDetail DEF Settled
    <3> QED BY <1>1, <2>3, <3>1 DEF DispatchInv
  <2> QED BY <1>4, <2>2, <2>3 DEF SendLlm
<1>5. CASE SendOther
  BY <1>1, <1>5, PrepareIsClean, PostIsClean DEF SendOther
<1>6. CASE Receive
  <2>1. stage' = "done" /\ UNCHANGED net /\ stage = "sent"
    BY <1>6 DEF Receive
  <2>2. \A h : Interpret(h).detail # "provenance"
    <3>1. Err("http").detail = "http"
      BY ErrFields, ConfigIsDetail
    <3>2. \A cond \in BOOLEAN : Require(cond, "shape").detail # "provenance"
      BY Fixed DEF Settled
    <3>3. Ok({}).detail # "provenance" /\ Err("shape").detail # "provenance"
      BY Fixed, ErrFields, ConfigIsDetail DEF Settled
    <3> QED BY <3>1, <3>3 DEF Interpret, annotation_from_provider_response, Require
  <2>3. out'.detail # "provenance"
    <3>1. PICK h \in Answers :
            IF Interpret(h).ok
            THEN out' = [ok |-> TRUE, reason |-> "", detail |-> "",
                         flagged |-> IsBundled /\ parse_response(h).flagged]
            ELSE Failed(Interpret(h).detail, transport_error(h))
      BY <1>6 DEF Receive
    <3>2. CASE Interpret(h).ok
      <4> DEFINE b == IsBundled /\ parse_response(h).flagged
      <4>1. out' = [ok |-> TRUE, reason |-> "", detail |-> "", flagged |-> b]
        BY <3>1, <3>2
      <4> HIDE DEF b
      <4> QED BY <4>1
    <3>3. CASE ~Interpret(h).ok
      BY <2>2, <3>1, <3>3, FailedDetail
    <3> QED BY <3>2, <3>3
  <2> QED BY <1>1, <2>1, <2>3 DEF DispatchInv
<1> QED BY <1>2, <1>3, <1>4, <1>5, <1>6 DEF DispatchStep

(* No call of an annotator, for any declaration, binding, environment and  *)
(* answers, sends a value of the host's environment when the manifest      *)
(* folded in a fetched document; and a call that is refused for that       *)
(* reason has not used the network (host_env.rs, llm.rs).                  *)
THEOREM SecretSafety == DispatchSpec => []HostSecretsStayHome
<1>1. DispatchInv /\ [DispatchStep]_dispatchVars => DispatchInv'
  <2>1. ASSUME DispatchInv, UNCHANGED dispatchVars
        PROVE  DispatchInv'
    <3>1. UNCHANGED <<inv, host, stage, net, out>>
      BY <2>1 DEF dispatchVars
    <3>2. inv.type = "llm" => Prepare' = Prepare
      BY <3>1, PrepareStays
    <3> QED BY <2>1, <3>1, <3>2 DEF DispatchInv
  <2> QED BY <2>1, DispatchStepInv
<1>2. DispatchInv => HostSecretsStayHome
  BY DEF DispatchInv, HostSecretsStayHome
<1> QED BY <1>1, <1>2, DispatchInitInv, PTL DEF DispatchSpec

-----------------------------------------------------------------------------
(* The cache of prepared Cedar policy sets: nothing is in it, and no load  *)
(* is on the way to it, that is older than the last activation no other    *)
(* load overlapped.                                                        *)

Versions == [policy : Nat, entities : Nat]
CachePlaces == {"idle", "lookup", "read", "entities", "store", "decide"}
Jobs ==
    [op : {"none", "evals", "activations"}, todo : Seq(Keys), read : Versions,
     floor : Versions, claimed : Nat]

Older(v, w) == v.policy <= w.policy /\ v.entities <= w.entities

\* What the place of a call says of its job, against the floor f of its policy set
\* and the versions d and e of the files on disk.
CallFits(place, j, f, d, e) ==
    /\ j.op \in {"evals", "activations"}
    /\ j.op = "evals" => Older(j.floor, f)
    /\ place \in {"lookup", "decide"} => j.op = "evals"
    /\ place \in {"lookup", "read"} => j.read = Unread
    /\ place = "entities" => f.policy <= j.read.policy
    /\ place = "store" => Older(f, j.read)
    /\ place \in {"entities", "store"} =>
          j.read.policy # 0 /\ j.read.policy <= d /\ j.read.entities <= e
    /\ place = "decide" => Older(j.floor, j.read)

CacheTypes ==
    /\ disk \in [Files -> Nat \ {0}]
    /\ cache \in [Keys -> Versions] /\ floor \in [Keys -> Versions] /\ claimed \in [Keys -> Nat]
    /\ at \in [Callers -> CachePlaces] /\ job \in [Callers -> Jobs]

FloorIsKept ==
    \A k \in Keys : /\ floor[k].policy <= disk[k] /\ floor[k].entities <= disk["entities"]
                    /\ cache[k] # Unread => Older(floor[k], cache[k])

CallIsFit(c) ==
    at[c] # "idle" =>
      /\ Len(job[c].todo) >= 1
      /\ CallFits(at[c], job[c], floor[Key(c)], disk[Key(c)], disk["entities"])

CacheInv ==
    /\ CacheTypes /\ FloorIsKept
    /\ \A c \in Callers : CallIsFit(c)
    /\ ActivationIsSeen

LEMMA KeyOfCall ==
    ASSUME CacheInv, NEW c \in Callers, at[c] # "idle"
    PROVE  /\ Key(c) \in Keys /\ job[c] \in Jobs /\ Len(job[c].todo) \in Nat
           /\ Len(job[c].todo) >= 1
           /\ CallFits(at[c], job[c], floor[Key(c)], disk[Key(c)], disk["entities"])
<1>1. job[c] \in Jobs /\ CallIsFit(c)
  BY DEF CacheInv, CacheTypes
<1>2. job[c].todo \in Seq(Keys) /\ Len(job[c].todo) >= 1
  BY <1>1 DEF Jobs, CallIsFit
<1>3. job[c].todo[1] \in Keys /\ Len(job[c].todo) \in Nat
  BY <1>2
<1> QED BY <1>1, <1>2, <1>3 DEF Key, CallIsFit

LEMMA OnDisk ==
    ASSUME CacheInv, NEW k \in Keys
    PROVE  /\ disk[k] \in Nat \ {0} /\ disk["entities"] \in Nat \ {0}
           /\ floor[k] \in Versions /\ cache[k] \in Versions
           /\ floor[k].policy <= disk[k] /\ floor[k].entities <= disk["entities"]
BY DEF CacheInv, CacheTypes, FloorIsKept, Files

(* One call moves; cache and floors may change as long as the others fit   *)
(* the new floors.                                                         *)
LEMMA CallMoves ==
    ASSUME CacheInv, NEW c \in Callers, NEW p \in CachePlaces, NEW j \in Jobs,
           at' = [at EXCEPT ![c] = p], job' = [job EXCEPT ![c] = j], UNCHANGED disk,
           cache' \in [Keys -> Versions], floor' \in [Keys -> Versions],
           claimed' \in [Keys -> Nat], FloorIsKept',
           \A b \in Callers \ {c} : at[b] # "idle" =>
               CallFits(at[b], job[b], floor'[Key(b)], disk[Key(b)], disk["entities"]),
           p # "idle" => /\ Len(j.todo) >= 1
                         /\ CallFits(p, j, floor'[j.todo[1]], disk[j.todo[1]], disk["entities"]),
           ActivationIsSeen'
    PROVE  CacheInv'
<1>1. CacheTypes'
  BY DEF CacheInv, CacheTypes
<1>2. ASSUME NEW b \in Callers
      PROVE  CallIsFit(b)'
  <2>1. CASE b = c
    <3>1. at'[b] = p /\ job'[b] = j
      BY <2>1 DEF CacheInv, CacheTypes
    <3> QED BY <3>1 DEF CallIsFit, Key
  <2>2. CASE b # c
    <3>1. at'[b] = at[b] /\ job'[b] = job[b]
      BY <2>2 DEF CacheInv, CacheTypes
    <3>2. at[b] # "idle" => Len(job[b].todo) >= 1
      BY KeyOfCall
    <3> QED BY <2>2, <3>1, <3>2 DEF CallIsFit, Key
  <2> QED BY <2>1, <2>2
<1> QED BY <1>1, <1>2 DEF CacheInv

(* The same when cache, floors and claims stay.                            *)
LEMMA QuietCall ==
    ASSUME CacheInv, NEW c \in Callers, NEW p \in CachePlaces, NEW j \in Jobs,
           at' = [at EXCEPT ![c] = p], job' = [job EXCEPT ![c] = j],
           UNCHANGED <<disk, cache, floor, claimed>>,
           p # "idle" => /\ Len(j.todo) >= 1
                         /\ CallFits(p, j, floor[j.todo[1]], disk[j.todo[1]], disk["entities"]),
           ActivationIsSeen'
    PROVE  CacheInv'
<1>1. \A b \in Callers \ {c} : at[b] # "idle" =>
        CallFits(at[b], job[b], floor'[Key(b)], disk[Key(b)], disk["entities"])
  BY KeyOfCall
<1>2. FloorIsKept'
  BY DEF CacheInv, FloorIsKept
<1>3. cache' \in [Keys -> Versions] /\ floor' \in [Keys -> Versions] /\ claimed' \in [Keys -> Nat]
  BY DEF CacheInv, CacheTypes
<1>4. p # "idle" => /\ Len(j.todo) >= 1
                    /\ CallFits(p, j, floor'[j.todo[1]], disk[j.todo[1]], disk["entities"])
  OBVIOUS
<1> QED BY <1>1, <1>2, <1>3, <1>4, CallMoves

LEMMA NoJobIsJob == NoJob \in Jobs /\ Unread \in Versions
<1>1. Unread \in Versions
  BY DEF Unread, Versions
<1>2. <<>> \in Seq(Keys)
  BY EmptySeq
<1> QED BY <1>1, <1>2 DEF NoJob, Jobs

(* An answer that is no evaluation, or refused, or decided with files as   *)
(* new as the floor it began under.                                        *)
LEMMA AnswerIsSeen ==
    ASSUME CacheInv, NEW a, answers' = answers \cup {a},
           \/ a.op # "evals" \/ a.verdict = Refused("policy_invocation_failed")
           \/ a.read.policy >= a.floor.policy /\ a.read.entities >= a.floor.entities
    PROVE  ActivationIsSeen'
BY DEF CacheInv, ActivationIsSeen

LEMMA BeginInv ==
    ASSUME CacheInv, NEW c \in Callers, NEW op \in {"evals", "activations"},
           NEW todo \in Seq(Keys), Len(todo) >= 1, Begin(c, op, todo)
    PROVE  CacheInv'
<1>1. todo[1] \in Keys
  OBVIOUS
<1>2. PICK k \in Keys : k = todo[1]
  BY <1>1
<1>3. floor[k] \in Versions /\ claimed[k] \in Nat
  BY DEF CacheInv, CacheTypes
<1>4. PICK j : j = [op |-> op, todo |-> todo, read |-> Unread, floor |-> floor[k],
                    claimed |-> claimed[k]]
  OBVIOUS
<1>5. /\ j \in Jobs /\ j.op = op /\ j.todo = todo /\ j.read = Unread /\ j.floor = floor[k]
  BY <1>3, <1>4, NoJobIsJob DEF Jobs
<1>6. PICK p \in CachePlaces : p = IF op = "evals" THEN "lookup" ELSE "read"
  BY DEF CachePlaces
<1>7. /\ at' = [at EXCEPT ![c] = p] /\ job' = [job EXCEPT ![c] = j]
      /\ UNCHANGED <<disk, cache, floor, claimed, answers>>
  BY <1>2, <1>4, <1>6 DEF Begin
<1>8. CallFits(p, j, floor[k], disk[k], disk["entities"])
  BY <1>3, <1>5, <1>6 DEF CallFits, Older, Versions
<1>9. ActivationIsSeen'
  BY <1>7 DEF CacheInv, ActivationIsSeen
<1> QED BY <1>2, <1>5, <1>7, <1>8, <1>9, QuietCall

LEMMA PreparedInv ==
    ASSUME CacheInv, NEW c \in Callers, prepared(c)
    PROVE  CacheInv'
<1>1. PICK k \in Keys : k = Key(c)
  BY KeyOfCall DEF prepared
<1>2. /\ at[c] = "lookup" /\ job[c] \in Jobs /\ Len(job[c].todo) >= 1 /\ job[c].todo[1] = k
      /\ CallFits("lookup", job[c], floor[k], disk[k], disk["entities"])
      /\ UNCHANGED <<disk, cache, floor, claimed, answers>>
  BY <1>1, KeyOfCall DEF prepared, Key
<1>3. ActivationIsSeen'
  BY <1>2 DEF CacheInv, ActivationIsSeen
<1>4. CASE cache[k] # Unread
  <2>1. PICK j : j = [job[c] EXCEPT !.read = cache[k]]
    OBVIOUS
  <2>2. cache[k] \in Versions /\ floor[k] \in Versions /\ Older(floor[k], cache[k])
    BY <1>4 DEF CacheInv, CacheTypes, FloorIsKept
  <2>3. /\ j \in Jobs /\ j.op = job[c].op /\ j.todo = job[c].todo /\ j.read = cache[k]
        /\ j.floor = job[c].floor /\ j.floor \in Versions
    BY <1>2, <2>1, <2>2 DEF Jobs
  <2>4. at' = [at EXCEPT ![c] = "decide"] /\ job' = [job EXCEPT ![c] = j]
    BY <1>1, <1>4, <2>1 DEF prepared
  <2>5. CallFits("decide", j, floor[k], disk[k], disk["entities"])
    BY <1>2, <2>2, <2>3 DEF CallFits, Older, Versions
  <2> QED BY <1>2, <1>3, <2>3, <2>4, <2>5, QuietCall DEF CachePlaces
<1>5. CASE cache[k] = Unread
  <2>1. at' = [at EXCEPT ![c] = "read"] /\ job' = job
    BY <1>1, <1>5 DEF prepared
  <2>2. job' = [job EXCEPT ![c] = job[c]]
    BY <2>1 DEF CacheInv, CacheTypes
  <2>3. CallFits("read", job[c], floor[k], disk[k], disk["entities"])
    BY <1>2 DEF CallFits
  <2> QED BY <1>2, <1>3, <2>1, <2>2, <2>3, QuietCall DEF CachePlaces
<1> QED BY <1>4, <1>5

(* A call returns.                                                         *)
LEMMA ReturnInv ==
    ASSUME CacheInv, NEW c \in Callers, NEW a, Return(c, a), ActivationIsSeen',
           UNCHANGED <<disk, cache, floor, claimed>>
    PROVE  CacheInv'
<1>1. at' = [at EXCEPT ![c] = "idle"] /\ job' = [job EXCEPT ![c] = NoJob]
  BY DEF Return
<1> QED BY <1>1, NoJobIsJob, QuietCall DEF CachePlaces

LEMMA FailureIsSeen ==
    ASSUME CacheInv, NEW c \in Callers, Return(c, Failure(c))
    PROVE  ActivationIsSeen'
<1>1. PICK a : a = Failure(c)
  OBVIOUS
<1>2. a.verdict = Refused("policy_invocation_failed")
  BY <1>1 DEF Failure
<1> QED BY <1>1, <1>2, AnswerIsSeen DEF Return

LEMMA LoadPolicyInv ==
    ASSUME CacheInv, NEW c \in Callers, load_policy_text(c)
    PROVE  CacheInv'
<1>1. PICK k \in Keys : k = Key(c)
  BY KeyOfCall DEF load_policy_text
<1>2. /\ at[c] = "read" /\ job[c] \in Jobs /\ Len(job[c].todo) >= 1 /\ job[c].todo[1] = k
      /\ CallFits("read", job[c], floor[k], disk[k], disk["entities"])
      /\ UNCHANGED <<disk, cache, floor, claimed>>
  BY <1>1, KeyOfCall DEF load_policy_text, Key
<1>3. CASE Return(c, Failure(c))
  BY <1>2, <1>3, FailureIsSeen, ReturnInv
<1>4. CASE /\ job' = [job EXCEPT ![c].read.policy = disk[k]]
           /\ at' = [at EXCEPT ![c] = "entities"] /\ UNCHANGED answers
  <2>1. PICK v : v = [job[c].read EXCEPT !.policy = disk[k]]
    OBVIOUS
  <2>2. /\ disk[k] \in Nat /\ disk[k] # 0 /\ disk["entities"] \in Nat /\ floor[k] \in Versions
        /\ floor[k].policy <= disk[k]
    BY OnDisk
  <2>3. job[c].read \in Versions /\ job[c].read = Unread
    BY <1>2 DEF Jobs, CallFits
  <2>4. v \in Versions /\ v.policy = disk[k] /\ v.entities = 0
    BY <2>1, <2>2, <2>3 DEF Versions, Unread
  <2>5. PICK j : j = [job[c] EXCEPT !.read = v]
    OBVIOUS
  <2>6. /\ j \in Jobs /\ j.op = job[c].op /\ j.todo = job[c].todo /\ j.read = v
        /\ j.floor = job[c].floor
    BY <1>2, <2>4, <2>5 DEF Jobs
  <2>7. job' = [job EXCEPT ![c] = j]
    BY <1>4, <2>1, <2>5
  <2>8. CallFits("entities", j, floor[k], disk[k], disk["entities"])
    BY <1>2, <2>2, <2>4, <2>6 DEF CallFits
  <2>9. ActivationIsSeen'
    BY <1>4 DEF CacheInv, ActivationIsSeen
  <2> QED BY <1>2, <1>4, <2>6, <2>7, <2>8, <2>9, QuietCall DEF CachePlaces
<1> QED BY <1>1, <1>3, <1>4 DEF load_policy_text

LEMMA LoadEntitiesInv ==
    ASSUME CacheInv, NEW c \in Callers, load_entities(c)
    PROVE  CacheInv'
<1>1. PICK k \in Keys : k = Key(c)
  BY KeyOfCall DEF load_entities
<1>2. /\ at[c] = "entities" /\ job[c] \in Jobs /\ Len(job[c].todo) >= 1 /\ job[c].todo[1] = k
      /\ CallFits("entities", job[c], floor[k], disk[k], disk["entities"])
      /\ UNCHANGED <<disk, cache, floor, claimed>>
  BY <1>1, KeyOfCall DEF load_entities, Key
<1>3. CASE Return(c, Failure(c))
  BY <1>2, <1>3, FailureIsSeen, ReturnInv
<1>4. CASE /\ job' = [job EXCEPT ![c].read.entities = disk["entities"]]
           /\ at' = [at EXCEPT ![c] = "store"] /\ UNCHANGED answers
  <2>1. PICK v : v = [job[c].read EXCEPT !.entities = disk["entities"]]
    OBVIOUS
  <2>2. /\ disk[k] \in Nat /\ disk["entities"] \in Nat /\ floor[k] \in Versions
        /\ floor[k].entities <= disk["entities"]
    BY OnDisk
  <2>3. job[c].read \in Versions
    BY <1>2 DEF Jobs
  <2>4. v \in Versions /\ v.policy = job[c].read.policy /\ v.entities = disk["entities"]
    BY <2>1, <2>2, <2>3 DEF Versions
  <2>5. PICK j : j = [job[c] EXCEPT !.read = v]
    OBVIOUS
  <2>6. /\ j \in Jobs /\ j.op = job[c].op /\ j.todo = job[c].todo /\ j.read = v
        /\ j.floor = job[c].floor
    BY <1>2, <2>4, <2>5 DEF Jobs
  <2>7. job' = [job EXCEPT ![c] = j]
    BY <1>4, <2>1, <2>5
  <2>8. CallFits("store", j, floor[k], disk[k], disk["entities"])
    BY <1>2, <2>2, <2>4, <2>6 DEF CallFits, Older
  <2>9. ActivationIsSeen'
    BY <1>4 DEF CacheInv, ActivationIsSeen
  <2> QED BY <1>2, <1>4, <2>6, <2>7, <2>8, <2>9, QuietCall DEF CachePlaces
<1> QED BY <1>1, <1>3, <1>4 DEF load_entities

LEMMA DecideInv ==
    ASSUME CacheInv, NEW c \in Callers, NEW decided, Decide(c, decided)
    PROVE  CacheInv'
<1>1. /\ at[c] = "decide" /\ job[c] \in Jobs /\ Older(job[c].floor, job[c].read)
      /\ UNCHANGED <<disk, cache, floor, claimed>>
  BY KeyOfCall DEF Decide, CallFits
<1>2. PICK a : a = [Failure(c) EXCEPT !.verdict = decided]
  OBVIOUS
<1>3. a.read = job[c].read /\ a.floor = job[c].floor
  BY <1>2 DEF Failure
<1>4. job[c].read \in Versions /\ job[c].floor \in Versions
  BY <1>1 DEF Jobs
<1>5. a.read.policy >= a.floor.policy /\ a.read.entities >= a.floor.entities
  BY <1>1, <1>3, <1>4 DEF Older, Versions
<1>6. Return(c, a)
  BY <1>2 DEF Decide
<1>7. ActivationIsSeen'
  BY <1>5, <1>6, AnswerIsSeen DEF Return
<1> QED BY <1>1, <1>6, <1>7, ReturnInv

(* Storing what was loaded: the entry is as new as the floor.              *)
LEMMA StoredIsKept ==
    ASSUME CacheInv, NEW c \in Callers, at[c] = "store"
    PROVE  /\ Stored(c) \in [Keys -> Versions]
           /\ \A k \in Keys : Stored(c)[k] \in {cache[k], IF k = Key(c) THEN job[c].read ELSE cache[k]}
           /\ Stored(c)[Key(c)] # Unread => Stored(c)[Key(c)] = job[c].read
<1>1. Key(c) \in Keys /\ job[c].read \in Versions /\ cache \in [Keys -> Versions]
  BY KeyOfCall DEF Jobs, CacheInv, CacheTypes
<1>2. CASE Cardinality(Cached) < MaxCached \/ cache[Key(c)] # Unread
  <2>1. Stored(c) = [cache EXCEPT ![Key(c)] = job[c].read]
    BY <1>2 DEF Stored
  <2> QED BY <1>1, <2>1
<1>3. CASE ~(Cardinality(Cached) < MaxCached) /\ cache[Key(c)] = Unread
  <2>1. Stored(c) = cache
    BY <1>3 DEF Stored
  <2> QED BY <1>1, <1>3, <2>1
<1> QED BY <1>2, <1>3

LEMMA StoreLoadedInv ==
    ASSUME CacheInv, NEW c \in Callers, store_loaded(c)
    PROVE  CacheInv'
<1>1. PICK k \in Keys : k = Key(c)
  BY KeyOfCall DEF store_loaded
<1>2. /\ at[c] = "store" /\ job[c] \in Jobs /\ Len(job[c].todo) >= 1 /\ job[c].todo[1] = k
      /\ CallFits("store", job[c], floor[k], disk[k], disk["entities"])
      /\ UNCHANGED <<disk, job, floor, claimed, answers>> /\ cache' = Stored(c)
      /\ at' = [at EXCEPT ![c] = "decide"] /\ job[c].op = "evals"
  BY <1>1, KeyOfCall DEF store_loaded, Key
<1>3. /\ cache' \in [Keys -> Versions]
      /\ \A i \in Keys : cache'[i] \in {cache[i], IF i = k THEN job[c].read ELSE cache[i]}
  BY <1>1, <1>2, StoredIsKept
<1>4. FloorIsKept'
  BY <1>2, <1>3 DEF CacheInv, FloorIsKept, CallFits
<1>5. job[c].floor \in Versions /\ job[c].read \in Versions /\ floor[k] \in Versions
  BY <1>2 DEF Jobs, CacheInv, CacheTypes
<1>6. CallFits("decide", job[c], floor[k], disk[k], disk["entities"])
  BY <1>2, <1>5 DEF CallFits, Older, Versions
<1>7. /\ job' = [job EXCEPT ![c] = job[c]] /\ floor' \in [Keys -> Versions]
      /\ claimed' \in [Keys -> Nat]
  BY <1>2 DEF CacheInv, CacheTypes
<1>8. \A b \in Callers \ {c} : at[b] # "idle" =>
        CallFits(at[b], job[b], floor'[Key(b)], disk[Key(b)], disk["entities"])
  BY <1>2, KeyOfCall
<1>9. ActivationIsSeen'
  BY <1>2 DEF CacheInv, ActivationIsSeen
<1> QED BY <1>2, <1>3, <1>4, <1>6, <1>7, <1>8, <1>9, CallMoves DEF CachePlaces

LEMMA OlderIsTransitive ==
    ASSUME NEW u \in Versions, NEW v \in Versions, NEW w \in Versions, Older(u, v), Older(v, w)
    PROVE  Older(u, w)
BY DEF Older, Versions

(* No other load overlapped this activation: what it read is the floor of  *)
(* its policy set from now on, and no call of another thread is below it.  *)
LEMMA FloorMayRise ==
    ASSUME CacheInv, NEW c \in Callers, at[c] = "store", ~Overlapped(c),
           NEW b \in Callers \ {c}, at[b] # "idle", Key(b) = Key(c)
    PROVE  CallFits(at[b], job[b], job[c].read, disk[Key(b)], disk["entities"])
<1>1. PICK k \in Keys : k = Key(c)
  BY KeyOfCall
<1>2. /\ job[b] \in Jobs /\ CallFits(at[b], job[b], floor[k], disk[k], disk["entities"])
      /\ job[c] \in Jobs /\ CallFits("store", job[c], floor[k], disk[k], disk["entities"])
  BY <1>1, KeyOfCall
<1>3. /\ job[b].floor \in Versions /\ job[b].read \in Versions /\ job[c].read \in Versions
      /\ floor[k] \in Versions
  BY <1>2, OnDisk DEF Jobs
<1>4. Older(floor[k], job[c].read)
  BY <1>2 DEF CallFits
<1>5. job[b].op = "evals" => Older(job[b].floor, job[c].read)
  BY <1>2, <1>3, <1>4, OlderIsTransitive DEF CallFits
<1>6. at[b] \notin {"entities", "store"}
  <2>1. at[b] \in {"entities", "store"} => job[b].read # Unread
    BY <1>2 DEF CallFits, Unread
  <2> QED BY <2>1 DEF Overlapped
<1> QED BY <1>1, <1>2, <1>5, <1>6 DEF CallFits

LEMMA RefreshInv ==
    ASSUME CacheInv, NEW c \in Callers, refresh(c)
    PROVE  CacheInv'
<1>1. PICK k \in Keys : k = Key(c)
  BY KeyOfCall DEF refresh
<1>2. /\ at[c] = "store" /\ job[c] \in Jobs /\ Len(job[c].todo) >= 1 /\ job[c].todo[1] = k
      /\ CallFits("store", job[c], floor[k], disk[k], disk["entities"])
      /\ UNCHANGED disk /\ cache' = Stored(c) /\ job[c].op = "activations"
  BY <1>1, KeyOfCall DEF refresh, Key
<1>3. PICK v \in Versions : v = job[c].read
  BY <1>2 DEF Jobs
<1>4. /\ v.policy \in Nat /\ v.policy <= disk[k] /\ v.entities <= disk["entities"]
      /\ Older(floor[k], v)
  BY <1>2, <1>3 DEF CallFits, Versions
<1>5. /\ cache' \in [Keys -> Versions]
      /\ \A i \in Keys : cache'[i] \in {cache[i], IF i = k THEN v ELSE cache[i]}
      /\ cache'[k] # Unread => cache'[k] = v
  BY <1>1, <1>2, <1>3, StoredIsKept
<1>6. claimed' \in [Keys -> Nat]
  <2>1. claimed \in [Keys -> Nat]
    BY DEF CacheInv, CacheTypes
  <2>2. PICK n \in Nat : n = IF claimed[k] > v.policy THEN claimed[k] ELSE v.policy
    BY <1>4, <2>1
  <2>3. claimed' = [claimed EXCEPT ![k] = n]
    BY <1>1, <1>3, <2>2 DEF refresh
  <2> QED BY <2>1, <2>3
<1>7. /\ floor' \in [Keys -> Versions] /\ FloorIsKept'
      /\ \A b \in Callers \ {c} : at[b] # "idle" =>
             CallFits(at[b], job[b], floor'[Key(b)], disk[Key(b)], disk["entities"])
  <2>1. floor \in [Keys -> Versions]
    BY DEF CacheInv, CacheTypes
  <2>2. CASE Overlapped(c)
    <3>1. floor' = floor
      BY <2>2 DEF refresh
    <3>2. FloorIsKept'
      BY <1>2, <1>4, <1>5, <3>1 DEF CacheInv, FloorIsKept
    <3> QED BY <2>1, <3>1, <3>2, KeyOfCall
  <2>3. CASE ~Overlapped(c)
    <3>1. floor' = [floor EXCEPT ![k] = v]
      BY <1>1, <1>3, <2>3 DEF refresh
    <3>2. floor' \in [Keys -> Versions] /\ floor'[k] = v /\ \A i \in Keys \ {k} : floor'[i] = floor[i]
      BY <2>1, <3>1
    <3>3. v.policy <= v.policy /\ v.entities <= v.entities
      BY <1>3 DEF Versions
    <3>4. FloorIsKept'
      <4>1. ASSUME NEW i \in Keys
            PROVE  /\ floor'[i].policy <= disk'[i] /\ floor'[i].entities <= disk'["entities"]
                   /\ cache'[i] # Unread => Older(floor'[i], cache'[i])
        <5>1. CASE i = k
          BY <1>2, <1>4, <1>5, <3>2, <3>3, <5>1 DEF Older
        <5>2. CASE i # k
          BY <1>2, <1>5, <3>2, <5>2 DEF CacheInv, FloorIsKept
        <5> QED BY <5>1, <5>2
      <4> QED BY <4>1 DEF FloorIsKept
    <3>5. ASSUME NEW b \in Callers \ {c}, at[b] # "idle"
          PROVE  CallFits(at[b], job[b], floor'[Key(b)], disk[Key(b)], disk["entities"])
      <4>1. CASE Key(b) = k
        BY <1>1, <1>2, <1>3, <2>3, <3>2, <3>5, <4>1, FloorMayRise
      <4>2. CASE Key(b) # k
        BY <3>2, <3>5, <4>2, KeyOfCall
      <4> QED BY <4>1, <4>2
    <3> QED BY <3>2, <3>4, <3>5
  <2> QED BY <2>2, <2>3
<1>8. CASE Len(job[c].todo) > 1
  <2>1. job' = [job EXCEPT ![c].todo = Tail(@), ![c].read = Unread]
        /\ at' = [at EXCEPT ![c] = "read"] /\ UNCHANGED answers
    BY <1>8 DEF refresh
  <2>2. PICK s : s = Tail(job[c].todo)
    OBVIOUS
  <2>3. job[c].todo \in Seq(Keys)
    BY <1>2 DEF Jobs
  <2>4. s \in Seq(Keys) /\ Len(s) >= 1 /\ s[1] \in Keys
    BY <1>8, <2>2, <2>3
  <2>5. PICK j : j = [job[c] EXCEPT !.todo = s, !.read = Unread]
    OBVIOUS
  <2>6. j \in Jobs /\ j.op = "activations" /\ j.todo = s /\ j.read = Unread
    BY <1>2, <2>4, <2>5, NoJobIsJob DEF Jobs
  <2>7. job' = [job EXCEPT ![c] = j]
    BY <2>1, <2>2, <2>5
  <2>8. CallFits("read", j, floor'[s[1]], disk[s[1]], disk["entities"])
    BY <2>6 DEF CallFits
  <2>9. ActivationIsSeen'
    BY <2>1 DEF CacheInv, ActivationIsSeen
  <2> QED BY <1>2, <1>5, <1>6, <1>7, <2>1, <2>4, <2>6, <2>7, <2>8, <2>9, CallMoves DEF CachePlaces
<1>9. CASE ~(Len(job[c].todo) > 1)
  <2>1. PICK a : a = [Failure(c) EXCEPT !.verdict = Allow]
    OBVIOUS
  <2>2. a.op # "evals"
    BY <1>2, <2>1 DEF Failure
  <2>3. Return(c, a)
    BY <1>9, <2>1 DEF refresh
  <2>4. ActivationIsSeen'
    BY <2>2, <2>3, AnswerIsSeen DEF Return
  <2>5. at' = [at EXCEPT ![c] = "idle"] /\ job' = [job EXCEPT ![c] = NoJob]
    BY <2>3 DEF Return
  <2> QED BY <1>2, <1>5, <1>6, <1>7, <2>4, <2>5, NoJobIsJob, CallMoves DEF CachePlaces
<1> QED BY <1>8, <1>9

LEMMA EditInv ==
    ASSUME CacheInv, NEW f \in Files, Edit(f)
    PROVE  CacheInv'
<1>1. disk \in [Files -> Nat \ {0}] /\ UNCHANGED <<cache, at, job, answers, floor, claimed>>
  BY DEF CacheInv, CacheTypes, Edit
<1>2. disk' \in [Files -> Nat \ {0}] /\ \A g \in Files : disk[g] <= disk'[g]
  <2>1. PICK n \in Nat \ {0} : n = disk[f] + 1
    BY <1>1
  <2>2. disk' = [disk EXCEPT ![f] = n]
    BY <2>1 DEF Edit
  <2> QED BY <1>1, <2>1, <2>2
<1>3. CacheTypes' /\ ActivationIsSeen'
  BY <1>1, <1>2 DEF CacheInv, CacheTypes, ActivationIsSeen
<1>4. ASSUME NEW k \in Keys
      PROVE  /\ disk[k] \in Nat /\ disk'[k] \in Nat /\ disk[k] <= disk'[k]
             /\ disk["entities"] \in Nat /\ disk'["entities"] \in Nat
             /\ disk["entities"] <= disk'["entities"]
  BY <1>1, <1>2 DEF Files
<1>5. FloorIsKept'
  <2>1. ASSUME NEW k \in Keys
        PROVE  /\ floor'[k].policy <= disk'[k] /\ floor'[k].entities <= disk'["entities"]
               /\ cache'[k] # Unread => Older(floor'[k], cache'[k])
    <3>1. floor[k].policy \in Nat /\ floor[k].entities \in Nat
      BY OnDisk DEF Versions
    <3> QED BY <1>1, <1>4, <3>1 DEF CacheInv, FloorIsKept
  <2> QED BY <2>1 DEF FloorIsKept
<1>6. ASSUME NEW c \in Callers
      PROVE  CallIsFit(c)'
  <2>1. CASE at[c] = "idle"
    BY <1>1, <2>1 DEF CallIsFit
  <2>2. CASE at[c] # "idle"
    <3>1. PICK k \in Keys : k = Key(c)
      BY <2>2, KeyOfCall
    <3>2. /\ Len(job[c].todo) >= 1 /\ job[c] \in Jobs
          /\ CallFits(at[c], job[c], floor[k], disk[k], disk["entities"])
      BY <2>2, <3>1, KeyOfCall
    <3>3. job[c].read.policy \in Nat /\ job[c].read.entities \in Nat
      BY <3>2 DEF Jobs, Versions
    <3>4. CallFits(at[c], job[c], floor[k], disk'[k], disk'["entities"])
      BY <1>4, <3>2, <3>3 DEF CallFits
    <3>5. Key(c)' = k
      BY <1>1, <3>1 DEF Key
    <3> QED BY <1>1, <3>2, <3>4, <3>5 DEF CallIsFit
  <2> QED BY <2>1, <2>2
<1> QED BY <1>3, <1>5, <1>6 DEF CacheInv

LEMMA CedarInitInv ==
    ASSUME NEW w, CedarInit(w)
    PROVE  CacheInv
<1>1. CacheTypes
  BY NoJobIsJob DEF CedarInit, CacheTypes, CachePlaces
<1>2. FloorIsKept
  BY DEF CedarInit, FloorIsKept, Files, Unread
<1>3. \A c \in Callers : CallIsFit(c)
  BY DEF CedarInit, CallIsFit
<1>4. ActivationIsSeen
  BY DEF CedarInit, ActivationIsSeen
<1> QED BY <1>1, <1>2, <1>3, <1>4 DEF CacheInv

(* An activation readies at least one policy set.                          *)
LEMMA OrdersAreLists ==
    ASSUME NEW todo \in Orders
    PROVE  todo \in Seq(Keys) /\ Len(todo) >= 1
<1>1. PICK n \in 1..Cardinality(Keys) : todo \in [1..n -> Keys]
  BY DEF Orders
<1>2. n \in Nat /\ n >= 1
  BY <1>1
<1>3. todo \in Seq(Keys)
  BY <1>1, <1>2, SeqDef
<1> QED BY <1>1, <1>2, <1>3

LEMMA CedarStepInv ==
    ASSUME CacheInv, NEW c \in Callers, NEW decided, CedarStep(c, decided)
    PROVE  CacheInv'
<1>1. ASSUME NEW k \in Keys, Begin(c, "evals", <<k>>)
      PROVE  CacheInv'
  <2>1. PICK s : s = <<k>>
    OBVIOUS
  <2>2. s \in Seq(Keys) /\ Len(s) >= 1
    BY <2>1
  <2> QED BY <1>1, <2>1, <2>2, BeginInv
<1>2. ASSUME NEW todo \in Orders, Begin(c, "activations", todo)
      PROVE  CacheInv'
  BY <1>2, OrdersAreLists, BeginInv
<1> QED BY <1>1, <1>2, PreparedInv, LoadPolicyInv, LoadEntitiesInv, StoreLoadedInv, RefreshInv,
           DecideInv DEF CedarStep

(* Whatever the files say and the policies decide, and however many        *)
(* threads activate, evaluate and edit: an evaluation that starts after an *)
(* activation no other load of its policy set overlapped decides with the  *)
(* files that activation read or newer ones (cedar.rs,                     *)
(* PreparedCache::refresh and prepared).                                   *)
THEOREM ActivationSafety == CedarSpec => []ActivationIsSeen
<1>1. (\E w : CedarInit(w)) => CacheInv
  BY CedarInitInv
<1>2. ASSUME CacheInv, [CedarSteps]_cedarVars
      PROVE  CacheInv'
  <2>1. CASE UNCHANGED cedarVars
    BY <1>2, <2>1 DEF cedarVars, CacheInv, CacheTypes, FloorIsKept, CallIsFit, Key, ActivationIsSeen
  <2>2. CASE \E c \in Callers : \E decided : CedarStep(c, decided)
    BY <1>2, <2>2, CedarStepInv
  <2>3. CASE \E f \in Files : Edit(f)
    BY <1>2, <2>3, EditInv
  <2> QED BY <1>2, <2>1, <2>2, <2>3 DEF CedarSteps
<1>3. CacheInv => ActivationIsSeen
  BY DEF CacheInv
<1> QED BY <1>1, <1>2, <1>3, PTL DEF CedarSpec

-----------------------------------------------------------------------------
(* The binary search of degrade_evidence keeps the longest list of         *)
(* pointers that fits, for every cap and every evidence.                   *)

EvidenceInv == EvidenceTypeOK /\ SearchInv /\ LongestPrefix /\ MarkedIffLost

(* The sizes degrade_evidence measures are natural numbers that do not     *)
(* shrink when a pointer is added.                                         *)
LEMMA SizesGrow ==
  ASSUME EvidenceTypeOK, NEW a \in Nat, NEW j \in 0 .. total, NEW k \in 0 .. total, j <= k
  PROVE  canonical(a, j) \in Nat /\ canonical(a, j) <= canonical(a, k)
<1>1. bytes[j] \in Nat /\ bytes[k] \in Nat /\ bytes[j] <= bytes[k]
  BY SizesAssumption DEF EvidenceTypeOK, Growing
<1> QED
  BY <1>1, SizesAssumption DEF canonical

(* Without an artefact and without pointers, the evidence fits.            *)
LEMMA NothingFits ==
  ASSUME EvidenceTypeOK
  PROVE  evidence_within_cap(0, 0)
  BY SizesAssumption DEF EvidenceTypeOK, Growing, evidence_within_cap, canonical

(* The middle lies strictly between the bounds while they are apart.       *)
LEMMA MiddleIsBetween ==
  ASSUME fits \in Nat, too_many \in Nat, too_many - fits > 1
  PROVE  middle \in Nat /\ fits < middle /\ middle < too_many
  BY DEF middle

(* A call of degrade_evidence starts with nothing decided.                 *)
LEMMA EvidenceInitInv == EvidenceInit => EvidenceInv
<1> SUFFICES ASSUME EvidenceInit PROVE EvidenceInv
  OBVIOUS
<1>1. EvidenceTypeOK
  <2>1. marked \in BOOLEAN
    BY Zenon DEF EvidenceInit
  <2>2. 0 \in 0 .. total /\ 0 \in 0 .. total + 1
    BY SizesAssumption DEF EvidenceInit
  <2> QED
    BY <2>1, <2>2 DEF EvidenceInit, EvidenceTypeOK
<1>2. SearchInv /\ LongestPrefix /\ MarkedIffLost
  BY DEF EvidenceInit, SearchInv, LongestPrefix, MarkedIffLost
<1> QED
  BY <1>1, <1>2 DEF EvidenceInv

(* The first measurement either keeps everything or starts a search whose  *)
(* lower bound is known to fit.                                            *)
LEMMA MeasureInv == EvidenceInv /\ Measure => EvidenceInv'
<1> SUFFICES ASSUME EvidenceInv, Measure PROVE EvidenceInv'
  OBVIOUS
<1>1. EvidenceTypeOK /\ total \in Nat /\ UNCHANGED evidence /\ marked = FALSE
  BY DEF EvidenceInv, EvidenceTypeOK, SearchInv, Measure
<1>2. CASE evidence_within_cap(artefact, total)
  <2>1. pc' = "done" /\ kept_artefact' = artefact /\ fits' = total
        /\ UNCHANGED <<too_many, marked>>
    BY <1>2 DEF Measure, returns_whole
  <2>2. evidence_within_cap(kept_artefact, fits)'
    BY <1>1, <1>2, <2>1 DEF evidence, evidence_within_cap, canonical
  <2> QED
    BY <1>1, <2>1, <2>2 DEF EvidenceInv, EvidenceTypeOK, SearchInv, LongestPrefix, MarkedIffLost, evidence
<1>3. CASE ~evidence_within_cap(artefact, total)
  <2>1. /\ pc' = "searching" /\ fits' = 0 /\ too_many' = total + 1 /\ UNCHANGED marked
        /\ kept_artefact' = IF evidence_within_cap(artefact, 0) THEN artefact ELSE 0
    BY <1>3 DEF Measure, starts_search
  <2>2. evidence_within_cap(kept_artefact, fits)'
    BY <1>1, <2>1, NothingFits DEF evidence, evidence_within_cap, canonical
  <2>3. ~evidence_within_cap(artefact, total)'
    BY <1>1, <1>3 DEF evidence, evidence_within_cap, canonical
  <2>4. (kept_artefact = artefact \/ ~evidence_within_cap(artefact, 0))'
    BY <1>1, <2>1 DEF evidence, evidence_within_cap, canonical
  <2> QED
    BY <1>1, <2>1, <2>2, <2>3, <2>4
    DEF EvidenceInv, EvidenceTypeOK, SearchInv, LongestPrefix, MarkedIffLost, evidence
<1> QED
  BY <1>2, <1>3

(* A probe moves one bound to the middle and keeps what the bounds mean.   *)
LEMMA ProbeInv == EvidenceInv /\ Probe => EvidenceInv'
<1> SUFFICES ASSUME EvidenceInv, Probe PROVE EvidenceInv'
  OBVIOUS
<1>1. /\ EvidenceTypeOK /\ total \in Nat /\ pc = "searching"
      /\ UNCHANGED <<artefact, total, bytes, pc, kept_artefact, marked>>
  BY DEF EvidenceInv, EvidenceTypeOK, Probe, evidence
<1>2. middle \in Nat /\ fits < middle /\ middle < too_many /\ middle \in 0 .. total
  BY MiddleIsBetween DEF EvidenceInv, EvidenceTypeOK, Probe
<1>3. kept_artefact \in Nat
  BY <1>1, SizesAssumption DEF EvidenceTypeOK
<1>4. /\ marked = FALSE /\ ~evidence_within_cap(artefact, total)
      /\ kept_artefact = artefact \/ ~evidence_within_cap(artefact, 0)
      /\ evidence_within_cap(kept_artefact, fits)
      /\ \A k \in too_many .. total : ~evidence_within_cap(kept_artefact, k)
  BY <1>1 DEF EvidenceInv, SearchInv
<1>5. EvidenceTypeOK'
  BY <1>1, <1>2 DEF Probe, EvidenceTypeOK
<1>6. CASE evidence_within_cap(kept_artefact, middle)
  <2>1. fits' = middle /\ too_many' = too_many
    BY <1>6 DEF Probe
  <2>2. SearchInv'
    BY <1>1, <1>2, <1>4, <1>6, <2>1 DEF SearchInv, evidence_within_cap, canonical
  <2> QED
    BY <1>1, <1>5, <2>2 DEF EvidenceInv, LongestPrefix, MarkedIffLost
<1>7. CASE ~evidence_within_cap(kept_artefact, middle)
  <2>1. too_many' = middle /\ fits' = fits
    BY <1>7 DEF Probe
  <2>2. \A k \in middle .. total : ~evidence_within_cap(kept_artefact, k)
    <3>1. ASSUME NEW k \in middle .. total PROVE ~evidence_within_cap(kept_artefact, k)
      <4>1. k \in 0 .. total /\ middle <= k
        BY <1>1, <1>2
      <4>2. canonical(kept_artefact, middle) \in Nat /\ canonical(kept_artefact, k) \in Nat
            /\ canonical(kept_artefact, middle) <= canonical(kept_artefact, k)
        BY <1>1, <1>2, <1>3, <4>1, SizesGrow
      <4> QED
        BY <1>7, <4>2, SizesAssumption DEF evidence_within_cap
    <3> QED
      BY <3>1
  <2>3. SearchInv'
    BY <1>1, <1>2, <1>4, <2>1, <2>2 DEF SearchInv, evidence_within_cap, canonical
  <2> QED
    BY <1>1, <1>5, <2>3 DEF EvidenceInv, LongestPrefix, MarkedIffLost
<1> QED
  BY <1>6, <1>7

(* When the bounds meet, the lower one is the longest list that fits, and  *)
(* since everything together did not fit, something is lost.               *)
LEMMA FinishInv == EvidenceInv /\ Finish => EvidenceInv'
<1> SUFFICES ASSUME EvidenceInv, Finish PROVE EvidenceInv'
  OBVIOUS
<1>1. /\ EvidenceTypeOK /\ pc = "searching" /\ pc' = "done" /\ marked' = TRUE
      /\ UNCHANGED <<artefact, total, bytes, kept_artefact, fits, too_many>>
      /\ too_many = fits + 1
  BY DEF EvidenceInv, EvidenceTypeOK, SearchInv, Finish, evidence
<1>2. /\ ~evidence_within_cap(artefact, total)
      /\ kept_artefact = artefact \/ ~evidence_within_cap(artefact, 0)
      /\ evidence_within_cap(kept_artefact, fits)
      /\ \A k \in fits + 1 .. total : ~evidence_within_cap(kept_artefact, k)
  BY <1>1 DEF EvidenceInv, SearchInv
<1>3. EvidenceTypeOK'
  BY <1>1 DEF EvidenceTypeOK
<1>4. LongestPrefix'
  BY <1>1, <1>2 DEF LongestPrefix, evidence_within_cap, canonical
<1>5. kept_artefact # artefact \/ fits < total
  BY <1>1, <1>2 DEF EvidenceTypeOK
<1> QED
  BY <1>1, <1>3, <1>4, <1>5 DEF EvidenceInv, SearchInv, MarkedIffLost

(* Every step of degrade_evidence keeps the invariant.                     *)
LEMMA NextInv == EvidenceInv /\ [EvidenceStep]_evidenceVars => EvidenceInv'
<1> SUFFICES ASSUME EvidenceInv, [EvidenceStep]_evidenceVars PROVE EvidenceInv'
  OBVIOUS
<1>1. CASE UNCHANGED evidenceVars
  BY <1>1 DEF EvidenceInv, EvidenceTypeOK, SearchInv, LongestPrefix, MarkedIffLost, evidenceVars,
              evidence_within_cap, canonical
<1> QED
  BY <1>1, MeasureInv, ProbeInv, FinishInv DEF EvidenceStep

(* degrade_evidence leaves evidence within the cap, keeps an artefact that *)
(* fits alone, and keeps the longest list of pointers that fits.           *)
THEOREM KeepsLongestPrefix == EvidenceSpec => []LongestPrefix
<1>1. EvidenceInv => LongestPrefix
  BY DEF EvidenceInv
<1> QED
  BY EvidenceInitInv, NextInv, <1>1, PTL DEF EvidenceSpec

(* degrade_evidence warns of a loss exactly if there was one.              *)
THEOREM MarkerIsTrue == EvidenceSpec => []MarkedIffLost
<1>1. EvidenceInv => MarkedIffLost
  BY DEF EvidenceInv
<1> QED
  BY EvidenceInitInv, NextInv, <1>1, PTL DEF EvidenceSpec

(* The bounds of the search index the pointers, at every step.             *)
THEOREM TypeCorrect == EvidenceSpec => []EvidenceTypeOK
<1>1. EvidenceInv => EvidenceTypeOK
  BY DEF EvidenceInv
<1> QED
  BY EvidenceInitInv, NextInv, <1>1, PTL DEF EvidenceSpec
=============================================================================

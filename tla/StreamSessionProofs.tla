------------------------ MODULE StreamSessionProofs -------------------------
(***************************************************************************)
(* Theorems about StreamSession for every ceiling, task set, set of        *)
(* configurations and set of verdicts.                                     *)
(***************************************************************************)
EXTENDS StreamSession, TLAPS, WellFoundedInduction

-----------------------------------------------------------------------------
(* The least element of a set of naturals                                  *)

LessThan == {ss \in Nat \X Nat : ss[1] < ss[2]}

(* The order of the naturals, as a set of pairs, relates what it should.   *)
LEMMA LessThanHolds ==
  ASSUME NEW x \in Nat, NEW y \in Nat, y < x
  PROVE  <<y, x>> \in LessThan
<1>1. <<y, x>> \in Nat \X Nat
  OBVIOUS
<1>2. <<y, x>>[1] < <<y, x>>[2]
  OBVIOUS
<1> QED
  BY <1>1, <1>2 DEF LessThan

(* Every non-empty set of naturals has a least element, and Least is it:   *)
(* what Iterator::min returns over the task offsets.                       *)
LEMMA LeastIsLeast ==
  ASSUME NEW S \in SUBSET Nat, S # {}
  PROVE  /\ Least(S) \in S
         /\ \A y \in S : Least(S) <= y
<1>1. IsWellFoundedOn(LessThan, Nat)
  BY NatLessThanWellFounded DEF OpToRel, LessThan
<1>2. PICK x \in S : \A y \in S : ~(<<y, x>> \in LessThan)
  BY <1>1, WFMin
<1>3. \A y \in S : x <= y
  <2> SUFFICES ASSUME NEW y \in S, ~(x <= y)
               PROVE  FALSE
    OBVIOUS
  <2>1. x \in Nat /\ y \in Nat
    OBVIOUS
  <2>2. y < x
    BY <2>1
  <2> QED
    BY <1>2, <2>1, <2>2, LessThanHolds
<1> QED
  BY <1>3 DEF Least

-----------------------------------------------------------------------------
(* Helpers of the watermark                                                *)

(* What a configuration is made of.                                        *)
LEMMA ConfigTypes ==
  ASSUME TypeOK
  PROVE  /\ config.tasks \in [Tracks -> SUBSET Tasks]
         /\ config.start \in [Tracks -> Nat]
         /\ config.safety_level \in SafetyLevels
BY ConfigsAssumption DEF TypeOK, SessionConfigs

(* The offsets of a session are naturals.                                  *)
LEMMA OffsetsAreNat == Offsets \subseteq Nat
BY CeilingAssumption DEF Offsets

(* Each offset of a track, as the number it is.                            *)
LEMMA OffsetTypes ==
  ASSUME TypeOK, NEW t \in Tracks
  PROVE  /\ config.start[t] \in Nat
         /\ confirmed[t] \in Nat
         /\ received[t] \in Nat
         /\ emitted[t] \in Nat
         /\ \A k \in config.tasks[t] : k \in Tasks /\ frontier[t][k] \in Nat
BY ConfigTypes, OffsetsAreNat DEF TypeOK

(* Lowest, which uncleared and advance both rest on: for a mediated track  *)
(* an offset that some task has and no task is below.                      *)
LEMMA LowestBounds ==
  ASSUME TypeOK, NEW t \in Tracks
  PROVE  /\ Lowest(t) \in Offsets
         /\ \A k \in config.tasks[t] : Lowest(t) <= frontier[t][k]
         /\ config.tasks[t] # {} =>
              \E k \in config.tasks[t] : Lowest(t) = frontier[t][k]
         /\ config.tasks[t] = {} => Lowest(t) = confirmed[t]
<1> DEFINE S == {frontier[t][k] : k \in config.tasks[t]}
<1>1. config.tasks[t] \subseteq Tasks
  BY ConfigTypes
<1>2. CASE config.tasks[t] = {}
  BY <1>2 DEF Lowest, TypeOK
<1>3. CASE config.tasks[t] # {}
  <2>1. S \in SUBSET Nat /\ S # {}
    BY <1>1, <1>3, OffsetsAreNat DEF TypeOK
  <2>2. Least(S) \in S /\ \A y \in S : Least(S) <= y
    <3> HIDE DEF S
    <3> QED BY <2>1, LeastIsLeast
  <2>3. Lowest(t) = Least(S)
    BY <1>3 DEF Lowest
  <2>4. PICK m \in config.tasks[t] : Lowest(t) = frontier[t][m]
    BY <2>2, <2>3
  <2>5. Lowest(t) \in Offsets
    BY <1>1, <2>4 DEF TypeOK
  <2>6. \A k \in config.tasks[t] : Lowest(t) <= frontier[t][k]
    BY <2>2, <2>3
  <2> QED
    BY <1>3, <2>4, <2>5, <2>6
<1> QED
  BY <1>2, <1>3

(* Raised, the new value of a release point, never lowers it and stays     *)
(* at or below every task.                                                 *)
LEMMA RaisedBounds ==
  ASSUME TypeOK, WatermarkInv, NEW t \in Tracks
  PROVE  /\ Raised(t) \in Offsets
         /\ confirmed[t] <= Raised(t)
         /\ Raised(t) <= received[t]
         /\ \A k \in config.tasks[t] : Raised(t) <= frontier[t][k]
         /\ config.tasks[t] = {} => Raised(t) = confirmed[t]
<1>1. /\ confirmed[t] \in Nat
      /\ received[t] \in Nat
      /\ Lowest(t) \in Nat
      /\ \A k \in config.tasks[t] : frontier[t][k] \in Nat
  BY LowestBounds, ConfigTypes, OffsetsAreNat DEF TypeOK
<1>2. Lowest(t) <= received[t]
  BY <1>1, LowestBounds DEF WatermarkInv
<1> QED
  BY <1>1, <1>2, LowestBounds DEF Raised, WatermarkInv, TypeOK

-----------------------------------------------------------------------------
(* The invariant, one lemma per operation                                  *)

Inv == TypeOK /\ WatermarkInv /\ SettlementInv

Outcomes == {"cleared", "denied", "transformed"}

(* A session that new accepts satisfies the invariant.                     *)
LEMMA InitInv == Init => Inv
<1> SUFFICES ASSUME Init
             PROVE  Inv
  OBVIOUS
<1>1. /\ config \in Configs
      /\ config.tasks \in [Tracks -> SUBSET Tasks]
      /\ config.start \in [Tracks -> Nat]
  BY ConfigsAssumption DEF Init, SessionConfigs
<1>2. config.start \in [Tracks -> Offsets]
  BY <1>1, CeilingAssumption DEF Init, NewAccepts, Offsets
<1>3. TypeOK
  BY <1>1, <1>2 DEF Init, TypeOK, EndReasons
<1>4. WatermarkInv
  BY <1>1 DEF Init, WatermarkInv
<1>5. SettlementInv
  BY <1>1 DEF Init, SettlementInv, UnmediatedTrackIsSilent, Open, Complete
<1> QED
  BY <1>3, <1>4, <1>5 DEF Inv

(* observe keeps the invariant: runes that arrive only move the end of the *)
(* observed text, and never on a track without tasks.                      *)
LEMMA ObserveInv ==
  ASSUME Inv, NEW t \in Tracks, NEW n \in ArgOffsets, Observe(t, n)
  PROVE  Inv'
<1> USE DEF Inv
<1>1. n \in Nat
  BY CeilingAssumption DEF ArgOffsets
<1>2. UNCHANGED <<config, frontier, confirmed, payloads_closed, cleared>> /\ ended = Open
  BY DEF Observe
<1>3. CASE ObserveFault(t, n) # "none"
  <2>1. ended' = Failed(ObserveFault(t, n), t) /\ UNCHANGED <<received, emitted>>
    BY <1>3 DEF Observe, fail
  <2>2. ended' \in EndReasons
    BY <2>1, <1>3 DEF EndReasons, Failed, Errors, ObserveFault
  <2>3. TypeOK'
    BY <1>2, <2>1, <2>2 DEF TypeOK
  <2>4. WatermarkInv'
    BY <1>2, <2>1 DEF WatermarkInv
  <2>5. SettlementInv'
    BY <1>2, <2>1 DEF SettlementInv, UnmediatedTrackIsSilent, Failed, Complete
  <2> QED
    BY <2>3, <2>4, <2>5
<1>4. CASE ObserveFault(t, n) = "none"
  <2>1. /\ config.tasks[t] # {}
        /\ received[t] + n <= MAX_RUNE_OFFSET
    <3>1. ~(received[t] + n > MAX_RUNE_OFFSET) /\ config.tasks[t] # {}
      BY <1>4 DEF ObserveFault
    <3> QED
      BY <3>1, <1>1, OffsetTypes, CeilingAssumption
  <2>2. /\ received' = [received EXCEPT ![t] = @ + n]
        /\ emitted' = IF withholds(config.safety_level) THEN emitted
                      ELSE [emitted EXCEPT ![t] = received'[t]]
        /\ ended' = Open
    BY <1>2, <1>4 DEF Observe
  <2>3. received[t] + n \in Offsets
    BY <1>1, <2>1, OffsetsAreNat, CeilingAssumption DEF TypeOK, Offsets
  <2>4. received' \in [Tracks -> Offsets] /\ received'[t] \in Offsets
    BY <2>2, <2>3 DEF TypeOK
  <2>5. TypeOK'
    BY <1>2, <2>2, <2>4 DEF TypeOK
  <2>6. \A u \in Tracks : received[u] <= received'[u]
    <3> SUFFICES ASSUME NEW u \in Tracks PROVE received[u] <= received'[u]
      OBVIOUS
    <3> QED
      BY <1>1, <2>2, OffsetTypes DEF TypeOK
  <2>7. WatermarkInv'
    <3> SUFFICES ASSUME NEW u \in Tracks
                 PROVE  /\ confirmed[u] <= received'[u]
                        /\ \A k \in config.tasks[u] : frontier[u][k] <= received'[u]
      BY <1>2 DEF WatermarkInv
    <3>1. received'[u] \in Nat
      BY <2>4, OffsetsAreNat
    <3> QED
      BY <2>6, <3>1, OffsetTypes DEF WatermarkInv
  <2>8. SettlementInv'
    BY <1>2, <2>1, <2>2 DEF SettlementInv, UnmediatedTrackIsSilent, Open, Complete, TypeOK
  <2> QED
    BY <2>5, <2>7, <2>8
<1> QED
  BY <1>3, <1>4

(* A call that only ends the session with a reason other than a clean      *)
(* settlement or a rewrite keeps the invariant.                            *)
LEMMA RefusalInv ==
  ASSUME Inv,
         UNCHANGED <<config, frontier, confirmed, received, cleared, emitted>>,
         payloads_closed' \in BOOLEAN,
         ended' \in EndReasons, ended' # Complete,
         ended'.kind = "rewritten" =>
           withholds(config.safety_level) /\ confirmed[ended'.track] = 0
  PROVE  Inv'
<1>1. TypeOK'
  BY DEF Inv, TypeOK
<1>2. WatermarkInv'
  BY DEF Inv, WatermarkInv
<1>3. SettlementInv'
  BY DEF Inv, SettlementInv, UnmediatedTrackIsSilent, Complete
<1> QED
  BY <1>1, <1>2, <1>3 DEF Inv

(* A span a task cleared contiguously: its frontier moves to the end of    *)
(* the span and every rune below it has been allowed.                      *)
LEMMA ClearedInv ==
  ASSUME Inv, NEW k \in Tasks, NEW t \in Tracks, NEW s \in ArgSpans,
         ended = Open, OutcomeFault(k, t, s, "cleared") = "none",
         frontier' = Recorded(k, t, s),
         cleared' = [cleared EXCEPT ![t][k] = @ \cup Runes(t, s)],
         UNCHANGED <<config, confirmed, received, ended, payloads_closed, emitted>>
  PROVE  Inv'
<1> USE DEF Inv
<1>1. /\ k \in config.tasks[t]
      /\ ~(s.end <= s.start)
      /\ ~(s.end > received[t])
      /\ ~NonContiguous(t, k, s)
  BY DEF OutcomeFault
<1>2. /\ s.start \in Nat /\ s.end \in Nat
      /\ received[t] \in Nat /\ frontier[t][k] \in Nat /\ config.start[t] \in Nat
      /\ confirmed[t] \in Nat
  BY <1>1, OffsetTypes, CeilingAssumption DEF ArgSpans, ArgOffsets
<1>3. s.end <= received[t] /\ s.end \in Offsets
  BY <1>1, <1>2, CeilingAssumption DEF TypeOK, Offsets
<1> DEFINE new == IF s.end <= frontier[t][k] THEN frontier[t][k] ELSE s.end
<1>4. /\ frontier'[t][k] = new
      /\ \A u \in Tracks : \A j \in Tasks :
           (u # t \/ j # k) => /\ frontier'[u][j] = frontier[u][j]
                               /\ cleared'[u][j] = cleared[u][j]
      /\ cleared'[t][k] = cleared[t][k] \cup Runes(t, s)
  BY DEF Recorded, TypeOK
<1>5. new \in Offsets /\ frontier[t][k] <= new /\ new <= received[t]
  BY <1>1, <1>2, <1>3 DEF TypeOK, WatermarkInv
<1>6. Runes(t, s) \subseteq Offsets
  BY <1>2, <1>3, CeilingAssumption DEF Runes, Offsets
<1>7. TypeOK'
  <2>1. frontier' \in [Tracks -> [Tasks -> Offsets]]
    BY <1>5 DEF Recorded, TypeOK
  <2>2. cleared' \in [Tracks -> [Tasks -> SUBSET Offsets]]
    BY <1>6 DEF TypeOK
  <2> QED
    BY <2>1, <2>2 DEF TypeOK
<1>8. config.start[t] .. (new - 1) \subseteq cleared'[t][k]
  <2> SUFFICES ASSUME NEW r \in config.start[t] .. (new - 1)
               PROVE  r \in cleared'[t][k]
    OBVIOUS
  <2>1. r \in Int /\ config.start[t] <= r /\ r < new
    BY <1>2, <1>5, OffsetsAreNat
  <2>2. CASE r < frontier[t][k]
    <3>1. r \in config.start[t] .. (frontier[t][k] - 1)
      BY <1>2, <2>1, <2>2
    <3> QED
      BY <1>1, <1>4, <3>1 DEF WatermarkInv
  <2>3. CASE ~(r < frontier[t][k])
    <3>1. s.end > frontier[t][k] /\ s.start <= frontier[t][k]
      BY <1>1, <1>2, <2>1, <2>3 DEF NonContiguous
    <3>2. r \in s.start .. (s.end - 1)
      BY <1>2, <2>1, <2>3, <3>1
    <3>3. r \in Runes(t, s)
      BY <1>2, <2>1, <3>2 DEF Runes
    <3> QED
      BY <1>4, <3>3
  <2> QED
    BY <2>2, <2>3
<1>9. WatermarkInv'
  <2> HIDE DEF new
  <2> SUFFICES ASSUME NEW u \in Tracks, NEW j \in config.tasks[u]
               PROVE  /\ confirmed[u] <= frontier'[u][j]
                      /\ frontier'[u][j] <= received[u]
                      /\ config.start[u] .. (frontier'[u][j] - 1) \subseteq cleared'[u][j]
    BY DEF WatermarkInv
  <2>1. CASE u = t /\ j = k
    <3>1. confirmed[t] <= new
      BY <1>1, <1>2, <1>5, OffsetsAreNat DEF WatermarkInv
    <3> QED
      BY <1>4, <1>5, <1>8, <2>1, <3>1
  <2>2. CASE u # t \/ j # k
    <3>1. j \in Tasks
      BY ConfigTypes
    <3> QED
      BY <1>4, <2>2, <3>1 DEF WatermarkInv
  <2> QED
    BY <2>1, <2>2
<1>10. SettlementInv'
  BY DEF SettlementInv, UnmediatedTrackIsSilent, Complete, Open
<1> QED
  BY <1>7, <1>9, <1>10

(* record_outcome keeps the invariant, whatever the host hands it.         *)
LEMMA RecordOutcomeInv ==
  ASSUME Inv, NEW k \in Tasks, NEW t \in Tracks, NEW s \in ArgSpans,
         NEW o \in Outcomes, RecordOutcome(k, t, s, o)
  PROVE  Inv'
<1>1. /\ ended = Open
      /\ UNCHANGED <<config, confirmed, received, payloads_closed, emitted>>
  BY DEF RecordOutcome
<1>2. s \in Spans
  BY CeilingAssumption DEF ArgSpans, ArgOffsets, Spans
<1>3. payloads_closed' \in BOOLEAN
  BY <1>1 DEF Inv, TypeOK
<1>4. CASE OutcomeFault(k, t, s, o) # "none"
  <2>1. /\ ended' = Failed(OutcomeFault(k, t, s, o), t)
        /\ UNCHANGED <<frontier, cleared>>
    BY <1>1, <1>4 DEF RecordOutcome, fail
  <2>2. OutcomeFault(k, t, s, o) \in Errors
    BY <1>4 DEF OutcomeFault, Errors
  <2>3. /\ ended' \in EndReasons
        /\ ended' # Complete
        /\ ended'.kind # "rewritten"
    BY <2>1, <2>2 DEF EndReasons, Failed, Complete
  <2> QED
    BY <1>1, <1>3, <2>1, <2>3, RefusalInv
<1>5. CASE OutcomeFault(k, t, s, o) = "none" /\ o = "denied"
  <2>1. /\ ended' = Refused("denied", t, k, s)
        /\ UNCHANGED <<frontier, cleared>>
    BY <1>5 DEF RecordOutcome
  <2>2. /\ ended' \in EndReasons
        /\ ended' # Complete
        /\ ended'.kind # "rewritten"
    BY <1>2, <2>1 DEF EndReasons, Refused, Complete
  <2> QED
    BY <1>1, <1>3, <2>1, <2>2, RefusalInv
<1>6. CASE OutcomeFault(k, t, s, o) = "none" /\ o = "transformed"
  <2>1. /\ ended' = Refused("rewritten", t, k, s)
        /\ UNCHANGED <<frontier, cleared>>
    BY <1>6 DEF RecordOutcome
  <2>2. ~TransformTooLate(t)
    BY <1>6 DEF OutcomeFault
  <2>3. withholds(config.safety_level) /\ confirmed[t] = 0
    BY <2>2, OffsetTypes DEF TransformTooLate, Inv
  <2>4. /\ ended' \in EndReasons
        /\ ended' # Complete
        /\ ended'.track = t
    BY <1>2, <2>1 DEF EndReasons, Refused, Complete
  <2> QED
    BY <1>1, <1>3, <2>1, <2>3, <2>4, RefusalInv
<1>7. CASE OutcomeFault(k, t, s, o) = "none" /\ o = "cleared"
  <2>1. /\ frontier' = Recorded(k, t, s)
        /\ cleared' = [cleared EXCEPT ![t][k] = @ \cup Runes(t, s)]
        /\ UNCHANGED ended
    BY <1>7 DEF RecordOutcome
  <2> QED
    BY <1>1, <1>7, <2>1, ClearedInv
<1> QED
  BY <1>4, <1>5, <1>6, <1>7 DEF Outcomes

(* The decision of a verdict is one of the outcomes a task may have.       *)
LEMMA DecisionIsOutcome ==
  ASSUME NEW v \in HostVerdicts
  PROVE  OutcomeOf(v.decision) \in Outcomes
<1>1. v.decision \in {"allow", "deny", "transform"}
  BY VerdictsAssumption DEF Verdicts
<1> QED
  BY <1>1 DEF OutcomeOf, Outcomes

(* record_verdict keeps the invariant: a malformed verdict ends the        *)
(* session, a well formed one is an outcome.                               *)
LEMMA RecordVerdictInv ==
  ASSUME Inv, NEW k \in Tasks, NEW t \in Tracks, NEW s \in ArgSpans,
         NEW v \in HostVerdicts, RecordVerdict(k, t, s, v)
  PROVE  Inv'
<1>1. CASE verdict_shape_is_invalid(v)
  <2>1. /\ ended' = Failed("VerdictInvalid", t)
        /\ UNCHANGED <<config, frontier, confirmed, received, payloads_closed,
                       cleared, emitted>>
    BY <1>1 DEF RecordVerdict, fail
  <2>2. /\ ended' \in EndReasons
        /\ ended' # Complete
        /\ ended'.kind # "rewritten"
    BY <2>1 DEF EndReasons, Errors, Failed, Complete
  <2>3. payloads_closed' \in BOOLEAN
    BY <2>1 DEF Inv, TypeOK
  <2> QED
    BY <2>1, <2>2, <2>3, RefusalInv
<1>2. CASE ~verdict_shape_is_invalid(v)
  <2>1. RecordOutcome(k, t, s, OutcomeOf(v.decision))
    BY <1>2 DEF RecordVerdict
  <2>2. OutcomeOf(v.decision) \in Outcomes
    BY DecisionIsOutcome
  <2> QED
    BY <2>1, <2>2, RecordOutcomeInv
<1> QED
  BY <1>1, <1>2

(* advance keeps the invariant: the release point rises to what every task *)
(* has reached and no further.                                             *)
LEMMA AdvanceInv ==
  ASSUME Inv, NEW t \in Tracks, Advance(t)
  PROVE  Inv'
<1> USE DEF Inv
<1>1. /\ confirmed' = [confirmed EXCEPT ![t] = Raised(t)]
      /\ ended = Open
      /\ UNCHANGED <<config, frontier, received, ended, payloads_closed, cleared,
                     emitted>>
  BY DEF Advance
<1>2. TypeOK'
  BY <1>1, RaisedBounds DEF TypeOK
<1>3. \A u \in Tracks : confirmed'[u] \in {confirmed[u], Raised(u)}
  BY <1>1 DEF TypeOK
<1>4. WatermarkInv'
  <2> SUFFICES ASSUME NEW u \in Tracks
               PROVE  /\ config.start[u] <= confirmed'[u]
                      /\ confirmed'[u] <= received[u]
                      /\ \A k \in config.tasks[u] : confirmed'[u] <= frontier[u][k]
    BY <1>1 DEF WatermarkInv
  <2>1. Raised(u) \in Nat
    BY RaisedBounds, OffsetsAreNat
  <2> QED
    BY <1>3, <2>1, RaisedBounds, OffsetTypes DEF WatermarkInv
<1>5. SettlementInv'
  <2>1. \A u \in Tracks : emitted[u] <= confirmed[u] => emitted[u] <= confirmed'[u]
    <3> SUFFICES ASSUME NEW u \in Tracks, emitted[u] <= confirmed[u]
                 PROVE  emitted[u] <= confirmed'[u]
      OBVIOUS
    <3>1. Raised(u) \in Nat
      BY RaisedBounds, OffsetsAreNat
    <3> QED
      BY <1>3, <3>1, RaisedBounds, OffsetTypes
  <2>2. \A u \in Tracks : config.tasks[u] = {} => confirmed'[u] = confirmed[u]
    BY <1>3, RaisedBounds
  <2> QED
    BY <1>1, <2>1, <2>2 DEF SettlementInv, UnmediatedTrackIsSilent, Open, Complete
<1> QED
  BY <1>2, <1>4, <1>5

(* A host that emits through safe_offset stays within the release point.   *)
LEMMA EmitSafeInv ==
  ASSUME Inv, NEW t \in Tracks, EmitSafe(t)
  PROVE  Inv'
<1> USE DEF Inv
<1>1. /\ emitted' = [emitted EXCEPT ![t] = confirmed[t]]
      /\ UNCHANGED <<config, frontier, confirmed, received, ended,
                     payloads_closed, cleared>>
  BY DEF EmitSafe, session
<1>2. TypeOK'
  BY <1>1 DEF TypeOK
<1>3. WatermarkInv'
  BY <1>1 DEF WatermarkInv
<1>4. \A u \in Tracks : emitted'[u] \in {emitted[u], confirmed[u]}
  BY <1>1 DEF TypeOK
<1>5. SettlementInv'
  <2>1. \A u \in Tracks : emitted[u] <= confirmed[u] => emitted'[u] <= confirmed[u]
    BY <1>4, OffsetTypes
  <2>2. \A u \in Tracks : config.tasks[u] = {} => emitted'[u] = config.start[u]
    BY <1>4 DEF SettlementInv, UnmediatedTrackIsSilent
  <2> QED
    BY <1>1, <2>1, <2>2 DEF SettlementInv, UnmediatedTrackIsSilent, Complete
<1> QED
  BY <1>2, <1>3, <1>5

(* A track with no residue releases all of the observed text.              *)
LEMMA FinishReleasesAll ==
  ASSUME Inv, NEW t \in Tracks, uncleared(t) <= 0
  PROVE  Raised(t) = received[t]
<1> USE DEF Inv
<1>1. Lowest(t) \in Nat /\ Raised(t) \in Nat
  BY LowestBounds, RaisedBounds, OffsetsAreNat
<1>2. received[t] <= Lowest(t)
  BY <1>1, OffsetTypes DEF uncleared
<1> QED
  BY <1>1, <1>2, RaisedBounds, OffsetTypes DEF Raised

(* finish keeps the invariant: it either ends the session in place or      *)
(* commits release points that cover all of the observed text.             *)
LEMMA FinishInv ==
  ASSUME Inv, Finish
  PROVE  Inv'
<1> USE DEF Inv
<1>1. /\ ended = Open
      /\ payloads_closed' = TRUE
      /\ UNCHANGED <<config, frontier, received, cleared, emitted>>
  BY DEF Finish
<1>2. CASE \E t \in Tracks : ended' = Failed("UnclearedResidue", t) /\ UNCHANGED confirmed
  <2>1. /\ ended' \in EndReasons
        /\ ended' # Complete
        /\ ended'.kind # "rewritten"
    BY <1>2 DEF EndReasons, Errors, Failed, Complete
  <2> QED
    BY <1>1, <1>2, <2>1, RefusalInv
<1>3. CASE /\ \A t \in Tracks : uncleared(t) <= 0
           /\ ended' = Complete
           /\ confirmed' = [t \in Tracks |-> Raised(t)]
  <2>1. TypeOK'
    BY <1>1, <1>3, RaisedBounds DEF TypeOK, EndReasons
  <2>2. WatermarkInv'
    <3> SUFFICES ASSUME NEW u \in Tracks
                 PROVE  /\ config.start[u] <= Raised(u)
                        /\ Raised(u) <= received[u]
                        /\ \A k \in config.tasks[u] : Raised(u) <= frontier[u][k]
      BY <1>1, <1>3 DEF WatermarkInv
    <3>1. Raised(u) \in Nat
      BY RaisedBounds, OffsetsAreNat
    <3> QED
      BY <3>1, RaisedBounds, OffsetTypes DEF WatermarkInv
  <2>3. \A t \in Tracks : Raised(t) = received[t]
    BY <1>3, FinishReleasesAll
  <2>4. SettlementInv'
    <3>1. \A u \in Tracks : emitted[u] <= confirmed[u] => emitted[u] <= Raised(u)
      <4> SUFFICES ASSUME NEW u \in Tracks, emitted[u] <= confirmed[u]
                   PROVE  emitted[u] <= Raised(u)
        OBVIOUS
      <4>1. Raised(u) \in Nat
        BY RaisedBounds, OffsetsAreNat
      <4> QED
        BY <4>1, RaisedBounds, OffsetTypes
    <3>2. \A u \in Tracks : config.tasks[u] = {} => Raised(u) = confirmed[u]
      BY RaisedBounds
    <3> QED
      BY <1>1, <1>3, <2>3, <3>1, <3>2
      DEF SettlementInv, UnmediatedTrackIsSilent, Complete
  <2> QED
    BY <2>1, <2>2, <2>4
<1> QED
  BY <1>2, <1>3 DEF Finish, Tracks

(* Every call keeps the invariant.                                         *)
LEMMA NextInv == Inv /\ [Next]_vars => Inv'
<1> SUFFICES ASSUME Inv, [Next]_vars
             PROVE  Inv'
  OBVIOUS
<1>1. CASE \E t \in Tracks, n \in ArgOffsets : Observe(t, n)
  BY <1>1, ObserveInv
<1>2. CASE EndOfPayloads
  <2>1. TypeOK' /\ WatermarkInv' /\ SettlementInv'
    BY <1>2 DEF EndOfPayloads, Inv, TypeOK, WatermarkInv, SettlementInv,
                UnmediatedTrackIsSilent
  <2> QED
    BY <2>1 DEF Inv
<1>3. CASE \E k \in Tasks, t \in Tracks, s \in ArgSpans, o \in Outcomes :
             RecordOutcome(k, t, s, o)
  BY <1>3, RecordOutcomeInv
<1>4. CASE \E k \in Tasks, t \in Tracks, s \in ArgSpans, v \in HostVerdicts :
             RecordVerdict(k, t, s, v)
  BY <1>4, RecordVerdictInv
<1>5. CASE \E t \in Tracks : Advance(t)
  BY <1>5, AdvanceInv
<1>6. CASE \E t \in Tracks : EmitSafe(t)
  BY <1>6, EmitSafeInv
<1>7. CASE Finish
  BY <1>7, FinishInv
<1>8. CASE UNCHANGED vars
  <2>1. TypeOK' /\ WatermarkInv' /\ SettlementInv'
    BY <1>8 DEF vars, session, Inv, TypeOK, WatermarkInv, SettlementInv,
                UnmediatedTrackIsSilent
  <2> QED
    BY <2>1 DEF Inv
<1> QED
  BY <1>1, <1>2, <1>3, <1>4, <1>5, <1>6, <1>7, <1>8 DEF Next, Outcomes

(* The inductive invariant holds in every behaviour of a session.          *)
THEOREM Invariance == Spec => []Inv
BY InitInv, NextInv, PTL DEF Spec

-----------------------------------------------------------------------------
(* What the invariant gives                                                *)

(* Every variable of the session keeps its type; offsets never pass the    *)
(* ceiling of the external contract.                                       *)
THEOREM TypeCorrect == Spec => []TypeOK
BY Invariance, PTL DEF Inv

(* What is released is cleared because no frontier is below the release    *)
(* point.                                                                  *)
LEMMA InvReleases == Inv => ReleasedIsCleared
<1> SUFFICES ASSUME Inv, NEW t \in Tracks, NEW k \in config.tasks[t],
                    NEW r \in config.start[t] .. (confirmed[t] - 1)
             PROVE  r \in cleared[t][k]
  BY DEF ReleasedIsCleared
<1>1. r \in config.start[t] .. (frontier[t][k] - 1)
  BY OffsetTypes DEF Inv, WatermarkInv
<1> QED
  BY <1>1 DEF Inv, WatermarkInv

(* Released text is text every task allowed, for any number of tasks,      *)
(* tracks, spans and calls (record, advance).                              *)
THEOREM ReleaseSafety == Spec => []ReleasedIsCleared
BY InvReleases, Invariance, PTL

(* A clean settlement leaves no rune unevaluated (finish).                 *)
THEOREM CleanSettlement == Spec => []CleanMeansAllCleared
<1>1. Inv => CleanMeansAllCleared
  <2> SUFFICES ASSUME Inv, ended = Complete, NEW t \in Tracks
               PROVE  /\ confirmed[t] = received[t]
                      /\ \A k \in config.tasks[t] :
                           config.start[t] .. (received[t] - 1) \subseteq cleared[t][k]
    BY DEF CleanMeansAllCleared
  <2>1. confirmed[t] = received[t]
    BY DEF Inv, SettlementInv
  <2>2. \A k \in config.tasks[t] : frontier[t][k] = received[t]
    BY <2>1, OffsetTypes DEF Inv, WatermarkInv
  <2> QED
    BY <2>1, <2>2 DEF Inv, WatermarkInv
<1> QED
  BY <1>1, Invariance, PTL

(* A rewrite is honoured only over text no caller has seen                 *)
(* (record_outcome, Transformed).                                          *)
THEOREM RewriteSafety == Spec => []RewriteIsNotTooLate
<1>1. Inv => RewriteIsNotTooLate
  <2> SUFFICES ASSUME Inv, ended.kind = "rewritten"
               PROVE  emitted[ended.track] = 0
    BY DEF RewriteIsNotTooLate
  <2>1. ended.track \in Tracks
    BY DEF Inv, TypeOK, EndReasons, Open, Complete
  <2> QED
    BY <2>1, OffsetTypes DEF Inv, SettlementInv
<1> QED
  BY <1>1, Invariance, PTL

(* An ended session stays as it ended (advance, safe_offset, fail).        *)
THEOREM EndFinality == Spec => EndIsFinal
<1>1. [Next]_vars => [ended # Open => UNCHANGED <<ended, confirmed, received, emitted>>]_vars
  BY DEF Next, Observe, EndOfPayloads, RecordOutcome, RecordVerdict, Advance,
         EmitSafe, Finish, vars, session
<1> QED
  BY <1>1, PTL DEF Spec, EndIsFinal

(* Ending a session other than clean moves neither the release point nor   *)
(* what the host emits (finish with residue, every fail, every refusal).   *)
THEOREM FailureSafety == Spec => FailureReleasesNothing
<1> DEFINE A == ended' \notin {Open, Complete} => UNCHANGED <<confirmed, emitted>>
<1>1. ASSUME Inv, [Next]_vars
      PROVE  [A]_vars
  <2>1. CASE \E t \in Tracks, n \in ArgOffsets : Observe(t, n)
    BY <2>1 DEF Observe
  <2>2. CASE EndOfPayloads
    BY <2>2 DEF EndOfPayloads
  <2>3. CASE \E k \in Tasks, t \in Tracks, s \in ArgSpans, o \in Outcomes :
               RecordOutcome(k, t, s, o)
    BY <2>3 DEF RecordOutcome
  <2>4. CASE \E k \in Tasks, t \in Tracks, s \in ArgSpans, v \in HostVerdicts :
               RecordVerdict(k, t, s, v)
    BY <2>4 DEF RecordVerdict, RecordOutcome
  <2>5. CASE \E t \in Tracks : Advance(t)
    BY <2>5 DEF Advance
  <2>6. CASE \E t \in Tracks : EmitSafe(t)
    BY <2>6 DEF EmitSafe, session
  <2>7. CASE Finish
    BY <2>7 DEF Finish
  <2> QED
    BY <1>1, <2>1, <2>2, <2>3, <2>4, <2>5, <2>6, <2>7 DEF Next, Outcomes
<1> QED
  BY <1>1, Invariance, PTL DEF Spec, FailureReleasesNothing

-----------------------------------------------------------------------------
(* The session implements the release gate, track by track                 *)

\* The gate of one track, under the mapping RequestGate and ResponseGate use.
Gate(t) == INSTANCE ReleaseGate WITH
  checkers <- config.tasks[t],
  start <- config.start[t],
  arrived <- received[t],
  vouched <- cleared[t],
  released <- confirmed[t],
  gate <- GateState

\* No task has allowed a rune that has not arrived: what a gate asks of a
\* checker that vouches, and what OffsetPastEnd is for.
ClearedHasArrived ==
  \A t \in Tracks : \A k \in config.tasks[t] :
    \A r \in cleared[t][k] : r < received[t]

(* Clearing a span keeps every allowed rune below the observed text: the   *)
(* span was compared with the end of the text before it was recorded.      *)
LEMMA ClearedArrived ==
  ASSUME Inv, ClearedHasArrived,
         NEW k \in Tasks, NEW t \in Tracks, NEW s \in ArgSpans,
         OutcomeFault(k, t, s, "cleared") = "none",
         cleared' = [cleared EXCEPT ![t][k] = @ \cup Runes(t, s)],
         UNCHANGED <<config, received>>
  PROVE  ClearedHasArrived'
<1> SUFFICES ASSUME NEW u \in Tracks, NEW j \in config.tasks[u], NEW r \in cleared'[u][j]
             PROVE  r < received[u]
  BY DEF ClearedHasArrived
<1>1. j \in Tasks
  BY ConfigTypes DEF Inv
<1>2. CASE r \in cleared[u][j]
  BY <1>2 DEF ClearedHasArrived
<1>3. CASE r \notin cleared[u][j]
  <2>1. u = t /\ j = k /\ r \in Runes(t, s)
    BY <1>1, <1>3 DEF Inv, TypeOK
  <2>2. ~(s.end > received[t])
    BY DEF OutcomeFault
  <2>3. s.start \in Nat /\ s.end \in Nat /\ received[t] \in Nat
    BY OffsetTypes, CeilingAssumption DEF Inv, ArgSpans, ArgOffsets
  <2> QED
    BY <2>1, <2>2, <2>3 DEF Runes
<1> QED
  BY <1>2, <1>3

(* Every call keeps every allowed rune below the observed text.            *)
LEMMA NextArrived == Inv /\ ClearedHasArrived /\ [Next]_vars => ClearedHasArrived'
<1> SUFFICES ASSUME Inv, ClearedHasArrived, [Next]_vars
             PROVE  ClearedHasArrived'
  OBVIOUS
<1>1. CASE \E t \in Tracks, n \in ArgOffsets : Observe(t, n)
  <2>1. PICK t \in Tracks, n \in ArgOffsets : Observe(t, n)
    BY <1>1
  <2>2. UNCHANGED <<config, cleared>>
    BY <2>1 DEF Observe
  <2>3. \A u \in Tracks : received[u] <= received'[u] /\ received'[u] \in Int
    <3> SUFFICES ASSUME NEW u \in Tracks
                 PROVE  received[u] <= received'[u] /\ received'[u] \in Int
      OBVIOUS
    <3>1. n \in Nat /\ received[u] \in Nat
      BY CeilingAssumption, OffsetTypes DEF ArgOffsets, Inv
    <3>2. received'[u] \in {received[u], received[u] + n}
      BY <2>1 DEF Observe, Inv, TypeOK
    <3> QED
      BY <3>1, <3>2
  <2> SUFFICES ASSUME NEW u \in Tracks, NEW j \in config.tasks[u], NEW r \in cleared[u][j]
               PROVE  r < received'[u]
    BY <2>2 DEF ClearedHasArrived
  <2>4. r \in Nat /\ r < received[u] /\ received[u] \in Nat
    BY ConfigTypes, OffsetTypes, OffsetsAreNat DEF ClearedHasArrived, Inv, TypeOK
  <2> QED
    BY <2>3, <2>4
<1>2. CASE EndOfPayloads
  BY <1>2 DEF EndOfPayloads, ClearedHasArrived
<1>3. ASSUME NEW k \in Tasks, NEW t \in Tracks, NEW s \in ArgSpans,
             NEW o \in Outcomes, RecordOutcome(k, t, s, o)
      PROVE  ClearedHasArrived'
  <2>1. UNCHANGED <<config, received>>
    BY <1>3 DEF RecordOutcome
  <2>2. CASE OutcomeFault(k, t, s, o) = "none" /\ o = "cleared"
    <3>1. cleared' = [cleared EXCEPT ![t][k] = @ \cup Runes(t, s)]
      BY <1>3, <2>2 DEF RecordOutcome
    <3> QED
      BY <2>1, <2>2, <3>1, ClearedArrived
  <2>3. CASE ~(OutcomeFault(k, t, s, o) = "none" /\ o = "cleared")
    <3>1. UNCHANGED cleared
      BY <1>3, <2>3 DEF RecordOutcome
    <3> QED
      BY <2>1, <3>1 DEF ClearedHasArrived
  <2> QED
    BY <2>2, <2>3
<1>4. ASSUME NEW k \in Tasks, NEW t \in Tracks, NEW s \in ArgSpans,
             NEW v \in HostVerdicts, RecordVerdict(k, t, s, v)
      PROVE  ClearedHasArrived'
  <2>1. CASE verdict_shape_is_invalid(v)
    BY <1>4, <2>1 DEF RecordVerdict, ClearedHasArrived
  <2>2. CASE ~verdict_shape_is_invalid(v)
    BY <1>3, <1>4, <2>2, DecisionIsOutcome DEF RecordVerdict
  <2> QED
    BY <2>1, <2>2
<1>5. CASE \E t \in Tracks : Advance(t)
  BY <1>5 DEF Advance, ClearedHasArrived
<1>6. CASE \E t \in Tracks : EmitSafe(t)
  BY <1>6 DEF EmitSafe, session, ClearedHasArrived
<1>7. CASE Finish
  BY <1>7 DEF Finish, ClearedHasArrived
<1>8. CASE UNCHANGED vars
  BY <1>8 DEF vars, session, ClearedHasArrived
<1> QED
  BY <1>1, <1>2, <1>3, <1>4, <1>5, <1>6, <1>7, <1>8 DEF Next, Outcomes

(* No call takes back what a task allowed, or changes the configuration.   *)
LEMMA ClearedGrows ==
  ASSUME Inv, [Next]_vars
  PROVE  /\ config' = config
         /\ \A t \in Tracks, k \in Tasks : cleared[t][k] \subseteq cleared'[t][k]
<1>1. ASSUME NEW k \in Tasks, NEW t \in Tracks, NEW s, NEW o, RecordOutcome(k, t, s, o)
      PROVE  /\ config' = config
             /\ \A u \in Tracks, j \in Tasks : cleared[u][j] \subseteq cleared'[u][j]
  <2>1. \/ cleared' = cleared
        \/ cleared' = [cleared EXCEPT ![t][k] = @ \cup Runes(t, s)]
    BY <1>1 DEF RecordOutcome
  <2>2. cleared \in [Tracks -> [Tasks -> SUBSET Offsets]]
    BY DEF Inv, TypeOK
  <2>3. ASSUME NEW u \in Tracks, NEW j \in Tasks
        PROVE  cleared[u][j] \subseteq cleared'[u][j]
    <3>1. cleared'[u][j] \in {cleared[u][j], cleared[u][j] \cup Runes(t, s)}
      BY <2>1, <2>2, <2>3
    <3> QED
      BY <3>1
  <2> QED
    BY <1>1, <2>3 DEF RecordOutcome
<1>2. CASE \E k \in Tasks, t \in Tracks, s \in ArgSpans, v \in HostVerdicts :
             RecordVerdict(k, t, s, v)
  BY <1>1, <1>2 DEF RecordVerdict
<1> QED
  BY <1>1, <1>2
  DEF Next, vars, session, Observe, EndOfPayloads, Advance, EmitSafe, Finish

(* What a gate calls covered: every rune below the release point, and      *)
(* below any point no task is behind, has been vouched for by every task.  *)
LEMMA BelowFrontiersIsCovered ==
  ASSUME Inv, NEW t \in Tracks, NEW n \in Nat,
         \A k \in config.tasks[t] : n <= frontier[t][k]
  PROVE  Gate(t)!Covered(n)
<1> SUFFICES ASSUME NEW k \in config.tasks[t], NEW r \in config.start[t] .. (n - 1)
             PROVE  r \in cleared[t][k]
  BY DEF Gate!Covered
<1>1. r \in config.start[t] .. (frontier[t][k] - 1)
  BY OffsetTypes DEF Inv
<1> QED
  BY <1>1 DEF Inv, WatermarkInv

(* A refusal of an open session withholds on both tracks.                  *)
LEMMA RefusalWithholds ==
  ASSUME NEW t \in Tracks, ended = Open, ended' \notin {Open, Complete},
         UNCHANGED <<config, confirmed, received, cleared>>
  PROVE  Gate(t)!Withhold
BY DEF Gate!Withhold, GateState

(* record_outcome is, on either track, a vouching, a withholding or        *)
(* nothing at all.                                                         *)
LEMMA RecordOutcomeGate ==
  ASSUME Inv, ClearedHasArrived', NEW k \in Tasks, NEW t \in Tracks,
         NEW s \in ArgSpans, NEW o \in Outcomes, RecordOutcome(k, t, s, o),
         NEW u \in Tracks
  PROVE  Gate(u)!Next
<1>1. ended = Open /\ UNCHANGED <<config, confirmed, received>>
  BY DEF RecordOutcome
<1>2. CASE OutcomeFault(k, t, s, o) = "none" /\ o = "cleared"
  <2>1. /\ cleared' = [cleared EXCEPT ![t][k] = @ \cup Runes(t, s)]
        /\ UNCHANGED ended
    BY <1>2 DEF RecordOutcome
  <2>2. \A c \in config.tasks[u] : cleared[u][c] \subseteq cleared'[u][c]
    BY <2>1, ConfigTypes DEF Inv, TypeOK
  <2>3. \A c \in config.tasks[u] : \A r \in cleared'[u][c] : r < received[u]
    BY <1>1 DEF ClearedHasArrived
  <2> QED
    BY <1>1, <2>1, <2>2, <2>3 DEF Gate!Next, Gate!Vouch, GateState
<1>3. CASE ~(OutcomeFault(k, t, s, o) = "none" /\ o = "cleared")
  <2>1. UNCHANGED cleared
    BY <1>3 DEF RecordOutcome
  <2>2. ended' \notin {Open, Complete}
    BY <1>1, <1>3 DEF RecordOutcome, fail, Failed, Refused, Open, Complete, Outcomes
  <2> QED
    BY <1>1, <2>1, <2>2, RefusalWithholds DEF Gate!Next
<1> QED
  BY <1>2, <1>3

(* Every call is a step of the release gate of either track, or leaves it  *)
(* as it is: observe lets runes arrive, record_outcome vouches, advance    *)
(* releases, finish settles, and every refusal withholds.                  *)
LEMMA StepsOfTheGate ==
  ASSUME Inv, ClearedHasArrived', [Next]_vars, NEW u \in Tracks
  PROVE  [Gate(u)!Next]_(Gate(u)!vars)
<1> USE DEF Inv
<1>1. ASSUME NEW t \in Tracks, NEW n \in ArgOffsets, Observe(t, n)
      PROVE  Gate(u)!Next \/ UNCHANGED Gate(u)!vars
  <2>1. ended = Open /\ UNCHANGED <<config, confirmed, cleared>>
    BY <1>1 DEF Observe
  <2>2. CASE ObserveFault(t, n) # "none"
    <3>1. ended' \notin {Open, Complete} /\ UNCHANGED received
      BY <1>1, <2>1, <2>2 DEF Observe, fail, Failed, Open, Complete
    <3> QED
      BY <2>1, <3>1, RefusalWithholds DEF Gate!Next
  <2>3. CASE ObserveFault(t, n) = "none"
    <3>1. /\ received' = [received EXCEPT ![t] = @ + n]
          /\ UNCHANGED ended
          /\ config.tasks[t] # {}
      BY <1>1, <2>3 DEF Observe, ObserveFault
    <3>2. CASE u = t
      <4>1. received'[u] >= received[u]
        BY <3>1, <3>2, OffsetTypes, CeilingAssumption DEF TypeOK, ArgOffsets
      <4> QED
        BY <2>1, <3>1, <3>2, <4>1 DEF Gate!Next, Gate!Arrive, GateState
    <3>3. CASE u # t
      BY <2>1, <3>1, <3>3 DEF Gate!vars, GateState, TypeOK
    <3> QED
      BY <3>2, <3>3
  <2> QED
    BY <2>2, <2>3
<1>2. CASE EndOfPayloads
  BY <1>2 DEF EndOfPayloads, Gate!vars, GateState
<1>3. CASE \E k \in Tasks, t \in Tracks, s \in ArgSpans, o \in Outcomes :
             RecordOutcome(k, t, s, o)
  BY <1>3, RecordOutcomeGate
<1>4. ASSUME NEW k \in Tasks, NEW t \in Tracks, NEW s \in ArgSpans,
             NEW v \in HostVerdicts, RecordVerdict(k, t, s, v)
      PROVE  Gate(u)!Next
  <2>1. CASE verdict_shape_is_invalid(v)
    <3>1. /\ ended = Open
          /\ ended' \notin {Open, Complete}
          /\ UNCHANGED <<config, confirmed, received, cleared>>
      BY <1>4, <2>1 DEF RecordVerdict, fail, Failed, Open, Complete
    <3> QED
      BY <3>1, RefusalWithholds DEF Gate!Next
  <2>2. CASE ~verdict_shape_is_invalid(v)
    BY <1>4, <2>2, DecisionIsOutcome, RecordOutcomeGate DEF RecordVerdict
  <2> QED
    BY <2>1, <2>2
<1>5. ASSUME NEW t \in Tracks, Advance(t)
      PROVE  Gate(u)!Next \/ UNCHANGED Gate(u)!vars
  <2>1. /\ confirmed' = [confirmed EXCEPT ![t] = Raised(t)]
        /\ ended = Open
        /\ UNCHANGED <<config, received, ended, cleared>>
    BY <1>5 DEF Advance
  <2>2. Raised(t) \in Nat /\ Gate(t)!Covered(Raised(t))
    BY RaisedBounds, OffsetsAreNat, BelowFrontiersIsCovered
  <2>3. CASE u = t /\ Raised(t) # confirmed[t]
    <3>1. Raised(t) > confirmed[t] /\ Raised(t) <= received[t]
      BY <2>2, <2>3, RaisedBounds, OffsetTypes
    <3>2. confirmed'[u] = Raised(t)
      BY <2>1, <2>3 DEF TypeOK
    <3> QED
      BY <2>1, <2>2, <2>3, <3>1, <3>2 DEF Gate!Next, Gate!Release, GateState
  <2>4. CASE u # t \/ Raised(t) = confirmed[t]
    BY <2>1, <2>4 DEF Gate!vars, GateState, TypeOK
  <2> QED
    BY <2>3, <2>4
<1>6. CASE \E t \in Tracks : EmitSafe(t)
  BY <1>6 DEF EmitSafe, session, Gate!vars, GateState
<1>7. CASE Finish
  <2>1. ended = Open /\ UNCHANGED <<config, received, cleared>>
    BY <1>7 DEF Finish
  <2>2. CASE ended' = Complete
    <3>1. confirmed' = [t \in Tracks |-> Raised(t)] /\ \A t \in Tracks : uncleared(t) <= 0
      BY <1>7, <2>2 DEF Finish, Failed, Complete
    <3>2. Raised(u) = received[u]
      BY <3>1, FinishReleasesAll
    <3>3. Gate(u)!Covered(received[u])
      BY <3>2, RaisedBounds, OffsetsAreNat, BelowFrontiersIsCovered, ZenonT(30)
    <3> QED
      BY <2>1, <2>2, <3>1, <3>2, <3>3 DEF Gate!Next, Gate!Settle, GateState, Open, Complete
  <2>3. CASE ended' # Complete
    <3>1. ended' \notin {Open, Complete} /\ UNCHANGED confirmed
      BY <1>7, <2>3 DEF Finish, Failed, Open, Complete
    <3> QED
      BY <2>1, <3>1, RefusalWithholds DEF Gate!Next
  <2> QED
    BY <2>2, <2>3
<1>8. CASE UNCHANGED vars
  BY <1>8 DEF vars, session, Gate!vars, GateState
<1> QED
  BY <1>1, <1>2, <1>3, <1>4, <1>5, <1>6, <1>7, <1>8 DEF Next, Outcomes

(* The session implements the release gate on either track: whatever the   *)
(* calls and their order, each of them arrives, vouches, releases, settles *)
(* or withholds as the abstract gate allows, and nothing else.             *)
THEOREM Refinement == Spec => ImplementsReleaseGate
<1>1. Init => ClearedHasArrived /\ RequestGate!Init /\ ResponseGate!Init
  BY ConfigsAssumption DEF Init, SessionConfigs, ClearedHasArrived, RequestGate!Init, ResponseGate!Init,
     GateState, Tracks
<1>2. Inv /\ ClearedHasArrived' /\ [Next]_vars
        => /\ [RequestGate!Next]_(RequestGate!vars)
           /\ [ResponseGate!Next]_(ResponseGate!vars)
  <2> SUFFICES ASSUME Inv, ClearedHasArrived', [Next]_vars
               PROVE  /\ [RequestGate!Next]_(RequestGate!vars)
                      /\ [ResponseGate!Next]_(ResponseGate!vars)
    OBVIOUS
  <2>1. [Gate("request")!Next]_(Gate("request")!vars)
    BY StepsOfTheGate DEF Tracks
  <2>2. [Gate("response")!Next]_(Gate("response")!vars)
    BY StepsOfTheGate DEF Tracks
  <2> QED
    BY <2>1, <2>2
    DEF Gate!Next, Gate!Arrive, Gate!Vouch, Gate!Release, Gate!Settle, Gate!Withhold,
        Gate!Covered, Gate!vars,
        RequestGate!Next, RequestGate!Arrive, RequestGate!Vouch, RequestGate!Release,
        RequestGate!Settle, RequestGate!Withhold, RequestGate!Covered, RequestGate!vars,
        ResponseGate!Next, ResponseGate!Arrive, ResponseGate!Vouch, ResponseGate!Release,
        ResponseGate!Settle, ResponseGate!Withhold, ResponseGate!Covered, ResponseGate!vars
<1> QED
  BY <1>1, <1>2, Invariance, NextArrived, PTL
  DEF Spec, ImplementsReleaseGate, RequestGate!Spec, ResponseGate!Spec
=============================================================================

---------------------------- MODULE StreamSession ---------------------------
(***************************************************************************)
(* engine/src/stream_session.rs: the release accounting a host drives      *)
(* while it streams text that policy tasks evaluate span by span.  The     *)
(* host reports arriving runes (observe), records what each task decided   *)
(* for a span (record_outcome, record_verdict), recomputes the watermark   *)
(* (advance), emits what safe_offset allows, and settles (finish).  The    *)
(* calls may come in any order and with any arguments.                     *)
(*                                                                         *)
(* cleared and emitted are not fields of the session: cleared records the  *)
(* runes each task really allowed, emitted how far the host has emitted.   *)
(* A call on an ended session returns SessionClosed and changes nothing,   *)
(* so it is a stuttering step (end_of_payloads is the one exception).      *)
(***************************************************************************)
EXTENDS Integers

CONSTANTS
  Tasks,            \* task labels a host may configure or name
  MAX_RUNE_OFFSET,  \* the offset ceiling (i32::MAX in the code)
  Configs,          \* the StreamSessionConfigs a host may open a session with
  HostVerdicts      \* the verdicts a host may hand to record_verdict

Tracks == {"request", "response"}
SafetyLevels == {"blocking", "complete", "deferred"}

Offsets == 0 .. MAX_RUNE_OFFSET

\* StreamSessionConfig: level, per-track resume offset, per-track task set.
SessionConfigs ==
  [safety_level : SafetyLevels,
   start : [Tracks -> Nat],
   tasks : [Tracks -> SUBSET Tasks]]

(* Verdicts, by the features record_verdict looks at: who authored the     *)
(* top-level reason, whether a warning carries a reserved reason, whether  *)
(* an approval block or a transform body is there, and its path.           *)
Verdicts ==
  [decision : {"allow", "deny", "transform"},
   reason : {"policy", "host_error"},
   warning : {"plain", "reserved"},
   approval : BOOLEAN,
   transform : {"none", "in_target", "escaping"}]

ASSUME CeilingAssumption == MAX_RUNE_OFFSET \in Nat
ASSUME ConfigsAssumption == Configs \subseteq SessionConfigs
ASSUME VerdictsAssumption == HostVerdicts \subseteq Verdicts

VARIABLES
  config,           \* the parameters the session was opened with
  frontier,         \* StreamWatermark.tasks: how far each task has cleared
                    \* (read only for the tasks the track configures)
  confirmed,        \* StreamWatermark.confirmed: the release point
  received,         \* StreamWatermark.received: end of the observed text
  ended,            \* the terminal reason, Open while there is none
  payloads_closed,
  cleared,          \* history: runes from start on that each task allowed
  emitted           \* the host's position: end of what it has emitted

session == <<config, frontier, confirmed, received, ended, payloads_closed>>
vars == <<session, cleared, emitted>>

-----------------------------------------------------------------------------
(* Terminal reasons                                                        *)

Errors ==
  {"PayloadsClosed", "NoTasks", "OffsetOverflow", "UnknownTask", "EmptySpan",
   "OffsetPastEnd", "TransformTooLate", "VerdictInvalid",
   "NonContiguousOutcome", "UnclearedResidue"}

Open == [kind |-> "open"]
Complete == [kind |-> "complete"]
Failed(error, track) == [kind |-> "failed", error |-> error, track |-> track]
Refused(kind, track, task, span) ==
  [kind |-> kind, track |-> track, task |-> task, span |-> span]

Spans == [start : Nat, end : Nat]

EndReasons ==
  {Open, Complete}
    \cup [kind : {"failed"}, error : Errors, track : Tracks]
    \cup [kind : {"denied", "rewritten"}, track : Tracks, task : Tasks,
          span : Spans]

\* agent_hooks Verdict::validate, as far as record_verdict depends on it.
VerdictValidates(v, reason) ==
  /\ reason # "host_error"
  /\ v.approval => v.decision = "deny"
  /\ (v.transform # "none") <=> (v.decision = "transform")

verdict_shape_is_invalid(v) ==
  \/ ~VerdictValidates(v, IF v.decision = "deny" /\ v.reason = "host_error"
                          THEN "policy" ELSE v.reason)
  \/ v.warning = "reserved"
  \/ v.transform = "escaping"

OutcomeOf(decision) ==
  CASE decision = "allow" -> "cleared"
    [] decision = "deny" -> "denied"
    [] decision = "transform" -> "transformed"

withholds(level) == level \in {"blocking", "complete"}

-----------------------------------------------------------------------------
(* Opening a session                                                       *)

\* new and for_track: what makes a configuration acceptable.
NewAccepts(c) ==
  /\ \E t \in Tracks : c.tasks[t] # {}
  /\ \A t \in Tracks : c.start[t] <= MAX_RUNE_OFFSET

Init ==
  /\ config \in {c \in Configs : NewAccepts(c)}
  /\ frontier = [t \in Tracks |-> [k \in Tasks |-> config.start[t]]]
  /\ confirmed = config.start
  /\ received = config.start
  /\ ended = Open
  /\ payloads_closed = FALSE
  /\ cleared = [t \in Tracks |-> [k \in Tasks |-> {}]]
  /\ emitted = config.start

-----------------------------------------------------------------------------
(* Helpers of the watermark                                                *)

Least(S) == CHOOSE x \in S : \A y \in S : x <= y

\* The offset every task of the track has reached.
Lowest(track) ==
  IF config.tasks[track] = {}
  THEN confirmed[track]
  ELSE Least({frontier[track][k] : k \in config.tasks[track]})

\* Mutant: runes no task cleared, instead of runes some task has not cleared.
UnclearedByNoTask(track) ==
  LET offsets == {frontier[track][k] : k \in config.tasks[track]}
  IN  IF offsets = {} THEN 0
      ELSE received[track] - (CHOOSE x \in offsets : \A y \in offsets : x >= y)

uncleared(track) == received[track] - Lowest(track)

\* Mutant: the release point runs to the end of the observed text once every
\* task has made progress.
RaisedToReceived(track) ==
  IF Lowest(track) > confirmed[track] THEN received[track] ELSE confirmed[track]

\* StreamWatermark::advance on one track of the release points.
Raised(track) ==
  IF Lowest(track) > confirmed[track] THEN Lowest(track) ELSE confirmed[track]

\* StreamSession::fail: the first terminal reason stays.
fail(error, track) ==
  ended' = IF ended = Open THEN Failed(error, track) ELSE ended

\* The runes of a span the history keeps.
Runes(track, span) == {r \in span.start .. (span.end - 1) : r >= config.start[track]}

-----------------------------------------------------------------------------
(* Payloads                                                                *)

\* What observe refuses, in the order it looks.
ObserveFault(track, runes) ==
  IF payloads_closed THEN "PayloadsClosed"
  ELSE IF config.tasks[track] = {} THEN "NoTasks"
  ELSE IF received[track] + runes > MAX_RUNE_OFFSET THEN "OffsetOverflow"
  ELSE "none"

\* observe and observe_text.  A host on a level that does not withhold has
\* emitted the text by the time it reports it.
Observe(track, runes) ==
  /\ ended = Open
  /\ LET fault == ObserveFault(track, runes)
     IN  \/ /\ fault # "none"
            /\ fail(fault, track)
            /\ UNCHANGED <<received, emitted>>
         \/ /\ fault = "none"
            /\ received' = [received EXCEPT ![track] = @ + runes]
            /\ emitted' = IF withholds(config.safety_level) THEN emitted
                          ELSE [emitted EXCEPT ![track] = received'[track]]
            /\ UNCHANGED ended
  /\ UNCHANGED <<config, frontier, confirmed, payloads_closed, cleared>>

EndOfPayloads ==
  /\ payloads_closed' = TRUE
  /\ UNCHANGED <<config, frontier, confirmed, received, ended, cleared, emitted>>

-----------------------------------------------------------------------------
(* Outcomes                                                                *)

\* Mutant: the release point is compared with the resume offset.
TransformTooLateSinceStart(track) ==
  ~withholds(config.safety_level) \/ confirmed[track] > config.start[track]

\* A transform is honoured only while nothing of the track was released.
TransformTooLate(track) ==
  ~withholds(config.safety_level) \/ confirmed[track] > 0

\* Mutant: only a span starting past the observed text leaves a gap.
NonContiguousPastReceived(track, task, span) ==
  span.end > frontier[track][task] /\ span.start > received[track]

\* StreamWatermark::record refuses a span that would leave a gap.
NonContiguous(track, task, span) ==
  span.end > frontier[track][task] /\ span.start > frontier[track][task]

\* What record_outcome refuses, in the order it looks.
OutcomeFault(task, track, span, outcome) ==
  IF task \notin config.tasks[track] THEN "UnknownTask"
  ELSE IF span.end <= span.start THEN "EmptySpan"
  ELSE IF span.end > received[track] THEN "OffsetPastEnd"
  ELSE IF outcome = "transformed" /\ TransformTooLate(track) THEN "TransformTooLate"
  ELSE IF outcome = "cleared" /\ NonContiguous(track, task, span)
       THEN "NonContiguousOutcome"
  ELSE "none"

\* The frontier after a cleared span: a stale one moves nothing.
Recorded(task, track, span) ==
  [frontier EXCEPT ![track][task] = IF span.end <= @ THEN @ ELSE span.end]

RecordOutcome(task, track, span, outcome) ==
  /\ ended = Open
  /\ LET fault == OutcomeFault(task, track, span, outcome)
     IN  \/ /\ fault # "none"
            /\ fail(fault, track)
            /\ UNCHANGED <<frontier, cleared>>
         \/ /\ fault = "none" /\ outcome = "denied"
            /\ ended' = Refused("denied", track, task, span)
            /\ UNCHANGED <<frontier, cleared>>
         \/ /\ fault = "none" /\ outcome = "transformed"
            /\ ended' = Refused("rewritten", track, task, span)
            /\ UNCHANGED <<frontier, cleared>>
         \/ /\ fault = "none" /\ outcome = "cleared"
            /\ frontier' = Recorded(task, track, span)
            /\ cleared' = [cleared EXCEPT ![track][task] = @ \cup Runes(track, span)]
            /\ UNCHANGED ended
  /\ UNCHANGED <<config, confirmed, received, payloads_closed, emitted>>

RecordVerdict(task, track, span, v) ==
  \/ /\ verdict_shape_is_invalid(v)
     /\ ended = Open
     /\ fail("VerdictInvalid", track)
     /\ UNCHANGED <<config, frontier, confirmed, received, payloads_closed,
                    cleared, emitted>>
  \/ /\ ~verdict_shape_is_invalid(v)
     /\ RecordOutcome(task, track, span, OutcomeOf(v.decision))

-----------------------------------------------------------------------------
(* Release and settlement                                                  *)

Advance(track) ==
  /\ ended = Open
  /\ confirmed' = [confirmed EXCEPT ![track] = Raised(track)]
  /\ UNCHANGED <<config, frontier, received, ended, payloads_closed, cleared,
                 emitted>>

\* A host on a withholding level polls safe_offset and emits through it.
EmitSafe(track) ==
  /\ ended = Open
  /\ withholds(config.safety_level)
  /\ emitted' = [emitted EXCEPT ![track] = confirmed[track]]
  /\ UNCHANGED <<session, cleared>>

\* finish on an open session; on an ended one it only returns the reason.
Finish ==
  /\ ended = Open
  /\ payloads_closed' = TRUE
  /\ \/ /\ uncleared("request") > 0
        /\ ended' = Failed("UnclearedResidue", "request")
        /\ UNCHANGED confirmed
     \/ /\ uncleared("request") <= 0
        /\ uncleared("response") > 0
        /\ ended' = Failed("UnclearedResidue", "response")
        /\ UNCHANGED confirmed
     \/ /\ \A t \in Tracks : uncleared(t) <= 0
        /\ ended' = Complete
        /\ confirmed' = [t \in Tracks |-> Raised(t)]
  /\ UNCHANGED <<config, frontier, received, cleared, emitted>>

-----------------------------------------------------------------------------
(* Any call, with any arguments.  One rune past the ceiling is enough to   *)
(* meet every refusal of an offset.                                        *)

ArgOffsets == 0 .. (MAX_RUNE_OFFSET + 1)
ArgSpans == [start : ArgOffsets, end : ArgOffsets]

Next ==
  \/ \E t \in Tracks, n \in ArgOffsets : Observe(t, n)
  \/ EndOfPayloads
  \/ \E k \in Tasks, t \in Tracks, s \in ArgSpans,
        o \in {"cleared", "denied", "transformed"} : RecordOutcome(k, t, s, o)
  \/ \E k \in Tasks, t \in Tracks, s \in ArgSpans, v \in HostVerdicts :
        RecordVerdict(k, t, s, v)
  \/ \E t \in Tracks : Advance(t)
  \/ \E t \in Tracks : EmitSafe(t)
  \/ Finish

Spec == Init /\ [][Next]_vars

-----------------------------------------------------------------------------
(* Properties                                                              *)

TypeOK ==
  /\ config \in Configs
  /\ \A t \in Tracks : config.start[t] \in Offsets
  /\ frontier \in [Tracks -> [Tasks -> Offsets]]
  /\ confirmed \in [Tracks -> Offsets]
  /\ received \in [Tracks -> Offsets]
  /\ ended \in EndReasons
  /\ payloads_closed \in BOOLEAN
  /\ cleared \in [Tracks -> [Tasks -> SUBSET Offsets]]
  /\ emitted \in [Tracks -> Offsets]

(* How the three offsets of a track stay in order, and what a frontier     *)
(* stands for: resume offset, release point, frontier of every task and    *)
(* end of the observed text follow each other, and below its frontier a    *)
(* task has allowed every rune.  A watermark no record or extend may break.*)
WatermarkInv ==
  \A t \in Tracks :
    /\ config.start[t] <= confirmed[t]
    /\ confirmed[t] <= received[t]
    /\ \A k \in config.tasks[t] :
         /\ confirmed[t] <= frontier[t][k]
         /\ frontier[t][k] <= received[t]
         /\ config.start[t] .. (frontier[t][k] - 1) \subseteq cleared[t][k]

(* The prefix a track has released holds only runes that every one of its  *)
(* tasks really allowed: no gap, no rune a slower task is still to see.    *)
(* record and advance are the code that has to get this right.             *)
ReleasedIsCleared ==
  \A t \in Tracks : \A k \in config.tasks[t] :
    config.start[t] .. (confirmed[t] - 1) \subseteq cleared[t][k]

(* A stream that settles clean hides nothing: every rune observed on       *)
(* either track was allowed by every task of the track, and the release    *)
(* point covers all of it although the host may never have called advance. *)
CleanMeansAllCleared ==
  ended = Complete =>
    \A t \in Tracks :
      /\ confirmed[t] = received[t]
      /\ \A k \in config.tasks[t] :
           config.start[t] .. (received[t] - 1) \subseteq cleared[t][k]

(* A session ends rewritten only if no rune of the rewritten track ever    *)
(* reached the caller, in this attempt (released, or emitted on arrival    *)
(* under deferred) or in an earlier one that this session resumes.         *)
RewriteIsNotTooLate ==
  ended.kind = "rewritten" => emitted[ended.track] = 0

(* Text on a track without tasks fails closed: nothing is ever observed,   *)
(* released or emitted there, whatever the safety level.                   *)
UnmediatedTrackIsSilent ==
  \A t \in Tracks : config.tasks[t] = {} =>
    /\ received[t] = config.start[t]
    /\ confirmed[t] = config.start[t]
    /\ emitted[t] = config.start[t]

(* The strengthening the proofs need for CleanMeansAllCleared and          *)
(* RewriteIsNotTooLate.                                                    *)
SettlementInv ==
  /\ UnmediatedTrackIsSilent
  /\ withholds(config.safety_level) => \A t \in Tracks : emitted[t] <= confirmed[t]
  /\ ended.kind = "rewritten" =>
       withholds(config.safety_level) /\ confirmed[ended.track] = 0
  /\ ended = Complete => \A t \in Tracks : confirmed[t] = received[t]

(* The terminal reason is final and a terminal session releases nothing    *)
(* more: the calls still in flight when it ended cannot downgrade a denial *)
(* (fail) nor move the release point (advance, safe_offset).               *)
EndIsFinal ==
  [][ended # Open => UNCHANGED <<ended, confirmed, received, emitted>>]_vars

(* The step that ends a session short of a clean settlement releases       *)
(* nothing, finish with residue included.                                  *)
FailureReleasesNothing ==
  [][ended' \notin {Open, Complete} => UNCHANGED <<confirmed, emitted>>]_vars

(* Each track implements the release gate, with the session's history as   *)
(* what the checkers vouched for.                                          *)
GateState ==
  IF ended = Open THEN "open"
  ELSE IF ended = Complete THEN "settled" ELSE "withheld"

RequestGate == INSTANCE ReleaseGate WITH
  checkers <- config.tasks["request"],
  start <- config.start["request"],
  arrived <- received["request"],
  vouched <- cleared["request"],
  released <- confirmed["request"],
  gate <- GateState

ResponseGate == INSTANCE ReleaseGate WITH
  checkers <- config.tasks["response"],
  start <- config.start["response"],
  arrived <- received["response"],
  vouched <- cleared["response"],
  released <- confirmed["response"],
  gate <- GateState

ImplementsReleaseGate == RequestGate!Spec /\ ResponseGate!Spec

=============================================================================

-------------------------- MODULE MCStreamSession --------------------------
(* Bounds for StreamSession: a ceiling of 2 runes, two task labels, and    *)
(* configurations that mediate one track or both, with one or two tasks,   *)
(* that resume at 0 or 1, on a level that withholds and on deferred.       *)
EXTENDS StreamSession

CONSTANTS t1, t2

MCTasks == {t1, t2}

Config(level, rs, ps, rtasks, ptasks) ==
  [safety_level |-> level,
   start |-> [t \in Tracks |-> IF t = "request" THEN rs ELSE ps],
   tasks |-> [t \in Tracks |-> IF t = "request" THEN rtasks ELSE ptasks]]

MCConfigs ==
  \* only the model stream is guarded; a start past the ceiling is refused
  {Config(l, 0, n, {}, {t1, t2}) : l \in SafetyLevels, n \in 0 .. 3}
    \cup {Config(l, 0, n, {t1}, {t1, t2}) : l \in {"blocking", "deferred"}, n \in 0 .. 1}
    \cup {Config("complete", 1, 0, {t1}, {t2}), Config("complete", 0, 0, {}, {})}

Verdict(d, r, w, a, x) ==
  [decision |-> d, reason |-> r, warning |-> w, approval |-> a, transform |-> x]

\* Each rule of verdict_shape_is_invalid is met and broken.
MCVerdicts ==
  {Verdict("allow", "policy", "plain", FALSE, "none"),
   Verdict("allow", "host_error", "plain", FALSE, "none"),
   Verdict("allow", "policy", "reserved", FALSE, "none"),
   Verdict("deny", "host_error", "plain", TRUE, "none"),
   Verdict("transform", "policy", "plain", FALSE, "in_target"),
   Verdict("transform", "policy", "plain", FALSE, "escaping"),
   Verdict("transform", "policy", "plain", FALSE, "none")}
=============================================================================

---------------------------- MODULE ReleaseGate ----------------------------
(***************************************************************************)
(* What release accounting promises for one track of a stream, without     *)
(* saying how it is computed.  Runes arrive, checkers each vouch for sets  *)
(* of runes in any order, and a prefix is released only when every checker *)
(* has vouched for every rune of it.  The gate shuts once: settled, with   *)
(* everything that arrived released, or withheld, with nothing more        *)
(* released than before.  Nothing moves once the gate is shut.             *)
(***************************************************************************)
EXTENDS Integers

VARIABLES
  checkers,  \* who has to vouch, fixed when the gate opens
  start,     \* offset of the first rune, fixed when the gate opens
  arrived,   \* end offset of what arrived
  vouched,   \* vouched[c]: the runes checker c has vouched for
  released,  \* end offset of the released prefix
  gate       \* "open", "settled" or "withheld"

vars == <<checkers, start, arrived, vouched, released, gate>>

\* Every checker has vouched for every rune from start up to n.
Covered(n) == \A c \in checkers : start .. (n - 1) \subseteq vouched[c]

Init ==
  /\ arrived = start
  /\ released = start
  /\ \A c \in checkers : vouched[c] = {}
  /\ gate = "open"

Arrive ==
  /\ gate = "open"
  /\ checkers # {}
  /\ arrived' >= arrived
  /\ UNCHANGED <<checkers, start, vouched, released, gate>>

Vouch ==
  /\ gate = "open"
  /\ \A c \in checkers : vouched[c] \subseteq vouched'[c]
  /\ \A c \in checkers : \A r \in vouched'[c] : r < arrived
  /\ UNCHANGED <<checkers, start, arrived, released, gate>>

Release ==
  /\ gate = "open"
  /\ released' > released
  /\ released' <= arrived
  /\ Covered(released')
  /\ UNCHANGED <<checkers, start, arrived, vouched, gate>>

Settle ==
  /\ gate = "open"
  /\ gate' = "settled"
  /\ released' = arrived
  /\ Covered(arrived)
  /\ UNCHANGED <<checkers, start, arrived, vouched>>

Withhold ==
  /\ gate = "open"
  /\ gate' = "withheld"
  /\ UNCHANGED <<checkers, start, arrived, vouched, released>>

Next == Arrive \/ Vouch \/ Release \/ Settle \/ Withhold

Spec == Init /\ [][Next]_vars
=============================================================================

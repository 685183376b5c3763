----------------------------- MODULE EvidenceCap -----------------------------
(***************************************************************************)
(* degrade_evidence of engine/src/policy_output.rs: evidence that is too   *)
(* large for a verdict loses its artefact if that alone is too large, and  *)
(* then as few of its verification pointers as possible, which a binary    *)
(* search over measured sizes finds.                                       *)
(*                                                                         *)
(* Evidence is what its canonical form measures: the bytes of the artefact *)
(* with its key, 0 without one, and bytes[k], those of the member          *)
(* verification_pointers that holds the first k pointers in canonical      *)
(* order.  An empty member is left out, and each pointer adds some bytes.  *)
(***************************************************************************)
EXTENDS Integers

CONSTANTS
  Cap,           \* EVIDENCE_MAX_BYTES
  Frame,         \* bytes of the empty object
  Artefacts,     \* bytes an artefact may have, 0 for none
  MaxPointers,   \* bound: verification pointers
  MaxBytes       \* bound: bytes of all pointers

ASSUME SizesAssumption ==
  /\ Cap \in Nat /\ Frame \in Nat /\ Frame <= Cap
  /\ Artefacts \subseteq Nat /\ MaxPointers \in Nat /\ MaxBytes \in Nat

VARIABLES
  artefact, total, bytes,    \* the evidence
  pc,                        \* "measuring", "searching" or "done"
  kept_artefact,             \* the local artefact: 0 if none is kept
  fits, too_many,            \* bounds of the search
  marked                     \* DegradedEvidence::warning is there

evidenceVars == <<artefact, total, bytes, pc, kept_artefact, fits, too_many, marked>>
evidence == <<artefact, total, bytes>>

\* canonical_evidence(..).len(): both members are parted by a comma.
canonical(a, k) ==
  Frame + a + bytes[k] + (IF a > 0 /\ k > 0 THEN 1 ELSE 0)

evidence_within_cap(a, k) == canonical(a, k) <= Cap

Growing(n) ==
  {f \in [0 .. n -> 0 .. MaxBytes] :
     f[0] = 0 /\ \A i, j \in 0 .. n : i < j => f[i] < f[j]}

EvidenceInit ==
  /\ artefact \in Artefacts \cup {0}
  /\ total \in 0 .. MaxPointers
  /\ bytes \in Growing(total)
  /\ pc = "measuring" /\ marked = FALSE
  /\ kept_artefact = 0 /\ fits = 0 /\ too_many = 0

returns_whole ==
  /\ pc' = "done" /\ kept_artefact' = artefact /\ fits' = total
  /\ UNCHANGED <<too_many, marked>>

starts_search(bound) ==
  /\ pc' = "searching"
  /\ kept_artefact' = IF evidence_within_cap(artefact, 0) THEN artefact ELSE 0
  /\ fits' = 0 /\ too_many' = bound
  /\ UNCHANGED marked

\* Mutant: the whole list is taken for a length that does not fit.
MeasureShort ==
  /\ pc = "measuring"
  /\ IF evidence_within_cap(artefact, total) THEN returns_whole
     ELSE starts_search(IF total = 0 THEN 1 ELSE total)
  /\ UNCHANGED evidence

Measure ==
  /\ pc = "measuring"
  /\ IF evidence_within_cap(artefact, total) THEN returns_whole ELSE starts_search(total + 1)
  /\ UNCHANGED evidence

middle == fits + (too_many - fits) \div 2

Probe ==
  /\ pc = "searching" /\ too_many - fits > 1
  /\ IF evidence_within_cap(kept_artefact, middle)
     THEN fits' = middle /\ UNCHANGED too_many
     ELSE too_many' = middle /\ UNCHANGED fits
  /\ UNCHANGED <<evidence, pc, kept_artefact, marked>>

Finish ==
  /\ pc = "searching" /\ too_many - fits <= 1
  /\ pc' = "done" /\ marked' = TRUE
  /\ UNCHANGED <<evidence, kept_artefact, fits, too_many>>

EvidenceStep == Measure \/ Probe \/ Finish

\* The function is called and runs to its end.
EvidenceSpec == EvidenceInit /\ [][EvidenceStep]_evidenceVars /\ WF_evidenceVars(EvidenceStep)
-----------------------------------------------------------------------------
(* Properties                                                              *)

EvidenceTypeOK ==
  /\ artefact \in Artefacts \cup {0} /\ total \in 0 .. MaxPointers
  /\ bytes \in Growing(total)
  /\ pc \in {"measuring", "searching", "done"} /\ marked \in BOOLEAN
  /\ kept_artefact \in {artefact, 0}
  /\ fits \in 0 .. total /\ too_many \in 0 .. total + 1

(* degrade_evidence keeps "the artefact whole when it fits on its own" and *)
(* verification pointers "for as long as the result fits": what is left is *)
(* within the cap, and no longer list of pointers would be.                *)
LongestPrefix ==
  pc = "done" =>
    /\ evidence_within_cap(kept_artefact, fits)
    /\ kept_artefact = artefact \/ ~evidence_within_cap(artefact, 0)
    /\ \A k \in fits + 1 .. total : ~evidence_within_cap(kept_artefact, k)

(* The evidence_truncated warning "marks a loss when there was one", and   *)
(* only then.                                                              *)
MarkedIffLost ==
  pc = "done" => (marked <=> (kept_artefact # artefact \/ fits < total))

(* What the search rests on: a length that fits below, one that does not   *)
(* above.                                                                  *)
SearchInv ==
  /\ pc = "searching" =>
       /\ marked = FALSE
       /\ fits < too_many
       /\ ~evidence_within_cap(artefact, total)
       /\ kept_artefact = artefact \/ ~evidence_within_cap(artefact, 0)
       /\ evidence_within_cap(kept_artefact, fits)
       /\ \A k \in too_many .. total : ~evidence_within_cap(kept_artefact, k)
  /\ pc = "measuring" => marked = FALSE
=============================================================================

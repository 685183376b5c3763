--------------------------- MODULE BoundaryProofs ---------------------------
(***************************************************************************)
(* Proofs about the places where the engine meets code that is not its     *)
(* own: the opa child and its bundle (OpaProcess), the host functions of   *)
(* the Node binding (NodeBinding), the host threads that share a session   *)
(* handle (SessionHandles), the child a remote policy is evaluated in      *)
(* (WorkerSlot) and the answers of the bindings (BindingAnswers).          *)
(***************************************************************************)
EXTENDS OpaProcess, NodeBinding, SessionHandles, WorkerSlot, BindingAnswers, SequenceTheorems,
        TLAPS

-----------------------------------------------------------------------------
(* The opa child: what the caller's place says of the child and of the     *)
(* bundle's directory.                                                     *)

BeforeChild == {"unused", "start", "stage", "spawn"}
WithChild == {"feed", "reap", "poll", "deadline", "kill"}
AfterChild == {"cleanup", "parse", "done"}

Places == BeforeChild \cup WithChild \cup AfterChild
Results == {"none", "failed", "collected", "verdict"}

Decisions ==
    [at : Places, remote : BOOLEAN, large : BOOLEAN, waited : Nat, tries : 0..CleanupAttempts,
     result : Results]
Children ==
    [life : {"none", "running", "exited", "reaped"}, stdin : {"open", "read", "closed"},
     stdout : {"room", "full"}, status : {0, 1}, printed : Printed]

OpaType == opa \in Decisions /\ child \in Children /\ directory \in {"none", "partial", "staged"}

\* What the place, the kind of bundle and the removals tried so far say of the
\* child and of the directory.
Fits(at, remote, tries, life, dir) ==
    /\ at \in BeforeChild => life = "none"
    /\ at \in WithChild => life \in {"running", "exited"}
    /\ at \in AfterChild => life \in {"none", "reaped"}
    /\ at \in {"unused", "start", "stage"} => dir = "none"
    /\ at = "stage" => remote
    /\ at \in WithChild \cup {"spawn"} => dir = IF remote THEN "staged" ELSE "none"
    /\ at \in {"parse", "done"} => dir = "none" \/ tries = CleanupAttempts
    /\ at = "cleanup" => tries < CleanupAttempts
    /\ at \in BeforeChild \cup WithChild => tries = 0

OpaInv == OpaType /\ Fits(opa.at, opa.remote, opa.tries, child.life, directory)

LEMMA OpaInitInv == (\E large \in BOOLEAN : OpaInit(large)) => OpaInv
<1> SUFFICES ASSUME NEW large \in BOOLEAN, OpaInit(large)
             PROVE  OpaInv
  OBVIOUS
<1>1. OpaType
  BY OpaAssumption
  DEF OpaInit, OpaType, Decisions, Children, Places, Results, Printed, BeforeChild
<1>2. /\ opa.at = "unused" /\ opa.tries = 0 /\ child.life = "none" /\ directory = "none"
  BY DEF OpaInit
<1> QED BY <1>1, <1>2 DEF OpaInv, Fits, BeforeChild, WithChild, AfterChild

(* The fields a step of the caller or of the child leaves alone.           *)
LEMMA OpaGoes ==
    ASSUME OpaType, NEW to \in Places, NEW r \in Results,
           Goes(to, r) \/ Moves(to)
    PROVE  /\ opa' \in Decisions /\ opa'.at = to
           /\ opa'.remote = opa.remote /\ opa'.tries = opa.tries
BY DEF OpaType, Decisions, Goes, Moves

LEMMA ChildLives ==
    ASSUME OpaType, NEW life \in {"running", "exited", "reaped"},
           child' = [child EXCEPT !.life = life]
    PROVE  child' \in Children /\ child'.life = life
BY DEF OpaType, Children

(* The caller's steps up to the child, with it, and after it.              *)
LEMMA OpaCallerInv ==
    ASSUME OpaInv, CallerStep
    PROVE  OpaInv'
<1> USE DEF OpaInv, BeforeChild, WithChild, AfterChild, Places, Results
<1>1. CASE FetchBundle
  <2>1. \/ opa.remote /\ Moves("stage")
        \/ Goes("done", "failed")
        \/ ~opa.remote /\ Moves("spawn")
    BY <1>1 DEF FetchBundle
  <2> QED BY <1>1, <2>1, OpaGoes DEF FetchBundle, Fits, OpaType, Decisions
<1>2. CASE Stage
  <2>1. CASE directory' = "staged" /\ Moves("spawn")
    BY <1>2, <2>1, OpaGoes DEF Stage, Fits, OpaType
  <2>2. CASE directory' = "partial" /\ Goes("cleanup", "failed")
    BY <1>2, <2>2, OpaGoes, OpaAssumption DEF Stage, Fits, OpaType
  <2>3. CASE Goes("done", "failed") /\ UNCHANGED directory
    BY <1>2, <2>3, OpaGoes DEF Stage, Fits, OpaType
  <2> QED BY <1>2, <2>1, <2>2, <2>3 DEF Stage
<1>3. CASE Spawn
  <2>1. CASE child' = [child EXCEPT !.life = "running"] /\ Moves("feed")
    BY <1>3, <2>1, OpaGoes, ChildLives DEF Spawn, Fits, OpaType
  <2>2. CASE Goes("cleanup", "failed") /\ UNCHANGED child
    BY <1>3, <2>2, OpaGoes, OpaAssumption DEF Spawn, Fits, OpaType
  <2> QED BY <1>3, <2>1, <2>2 DEF Spawn
<1>4. CASE Feed
  <2>1. Moves("poll") \/ Goes("reap", "failed")
    BY <1>4 DEF Feed
  <2> QED BY <1>4, <2>1, OpaGoes DEF Feed, Fits, OpaType
<1>5. CASE Reap
  BY <1>5, OpaGoes, ChildLives, OpaAssumption DEF Reap, Fits, OpaType
<1>6. CASE Poll
  <2>1. CASE child' = [child EXCEPT !.life = "reaped"] /\ Goes("cleanup", "collected")
    BY <1>6, <2>1, OpaGoes, ChildLives, OpaAssumption DEF Poll, Fits, OpaType
  <2>2. CASE Moves("deadline") /\ UNCHANGED child
    BY <1>6, <2>2, OpaGoes DEF Poll, Fits, OpaType
  <2> QED BY <1>6, <2>1, <2>2 DEF Poll
<1>7. CASE OnDeadline
  <2>1. CASE Goes("kill", "failed")
    BY <1>7, <2>1, OpaGoes DEF OnDeadline, Fits, OpaType
  <2>2. CASE opa' = [opa EXCEPT !.at = "poll", !.waited = @ + 1]
    <3>1. PICK n \in Nat : n = opa.waited + 1
      BY DEF OpaType, Decisions
    <3>2. /\ opa' \in Decisions /\ opa'.at = "poll"
          /\ opa'.remote = opa.remote /\ opa'.tries = opa.tries
      <4>1. opa' = [opa EXCEPT !.at = "poll", !.waited = n]
        BY <2>2, <3>1
      <4> QED BY <4>1 DEF OpaType, Decisions
    <3> QED BY <1>7, <3>2 DEF OnDeadline, Fits, OpaType
  <2> QED BY <1>7, <2>1, <2>2 DEF OnDeadline
<1>8. CASE Kill
  BY <1>8, OpaGoes, ChildLives, OpaAssumption DEF Kill, Fits, OpaType
<1>9. CASE Cleanup
  <2>1. AfterCleanup \in {"parse", "done"}
    BY DEF AfterCleanup
  <2>2. CASE directory' = "none" /\ Moves(AfterCleanup)
    BY <1>9, <2>1, <2>2, OpaGoes DEF Cleanup, Fits, OpaType
  <2>3. CASE /\ UNCHANGED directory
             /\ opa' = [opa EXCEPT !.tries = @ + 1,
                          !.at = IF opa.tries + 1 = CleanupAttempts THEN AfterCleanup ELSE @]
    <3>1. opa.tries \in Nat /\ opa.tries < CleanupAttempts /\ opa.at = "cleanup"
      BY <1>9, OpaAssumption DEF Cleanup, Fits, OpaType, Decisions
    <3>2. /\ opa' \in Decisions /\ opa'.tries = opa.tries + 1
          /\ opa'.at = IF opa.tries + 1 = CleanupAttempts THEN AfterCleanup ELSE "cleanup"
      <4>1. PICK n \in 0..CleanupAttempts : n = opa.tries + 1
        BY <3>1, OpaAssumption
      <4>2. PICK to \in {"parse", "done", "cleanup"} :
              to = IF opa.tries + 1 = CleanupAttempts THEN AfterCleanup ELSE "cleanup"
        BY <2>1
      <4>3. opa' = [opa EXCEPT !.tries = n, !.at = to]
        BY <2>3, <3>1, <4>1, <4>2
      <4>4. opa' \in Decisions /\ opa'.tries = n /\ opa'.at = to
        BY <4>3 DEF OpaType, Decisions
      <4> QED BY <4>1, <4>2, <4>4
    <3> QED BY <1>9, <2>1, <2>3, <3>1, <3>2, OpaAssumption DEF Cleanup, Fits, OpaType
  <2> QED BY <1>9, <2>2, <2>3 DEF Cleanup
<1>10. CASE parse_opa_eval_output
  <2>1. PICK r \in {"verdict", "failed"} : Goes("done", r)
    BY <1>10 DEF parse_opa_eval_output
  <2> QED BY <1>10, <2>1, OpaGoes DEF parse_opa_eval_output, Fits, OpaType
<1> QED BY <1>1, <1>2, <1>3, <1>4, <1>5, <1>6, <1>7, <1>8, <1>9, <1>10 DEF CallerStep

(* Whatever the child does, it does while the caller holds it.             *)
LEMMA OpaChildInv ==
    ASSUME OpaInv, ChildStep
    PROVE  OpaInv'
<1>1. child.life = "running" /\ UNCHANGED <<opa, directory>>
  BY DEF ChildStep, ChildReads, ChildCloses, ChildFills, ChildExits
<1>2. child' \in Children /\ child'.life \in {"running", "exited"}
  BY <1>1
  DEF OpaInv, OpaType, Children, ChildStep, ChildReads, ChildCloses, ChildFills, ChildExits
<1>3. opa.at \in WithChild
  BY <1>1 DEF OpaInv, OpaType, Decisions, Fits, Places, BeforeChild, WithChild, AfterChild
<1> QED BY <1>1, <1>2, <1>3 DEF OpaInv, OpaType, Fits, BeforeChild, WithChild, AfterChild

(* The bundle a child of opa.rs was given outlives it, a call that returned *)
(* left no child behind, and it left a directory only when every attempt to *)
(* remove it failed, for any deadline and any number of attempts.           *)
THEOREM BundleSafety == OpaSpec => []BundleOutlivesChild
<1>1. ASSUME OpaInv, OpaStep
      PROVE  OpaInv'
  <2>1. ASSUME NEW remote \in BOOLEAN, opa.at = "unused", Invoked(remote),
               UNCHANGED <<child, directory>>
        PROVE  OpaInv'
    <3>1. /\ opa' \in Decisions /\ opa'.at = "start" /\ opa'.tries = opa.tries
      BY <1>1, <2>1 DEF OpaInv, OpaType, Decisions, Invoked, Places, BeforeChild
    <3> QED BY <1>1, <2>1, <3>1 DEF OpaInv, OpaType, Fits, BeforeChild, WithChild, AfterChild
  <2> QED BY <1>1, <2>1, OpaCallerInv, OpaChildInv DEF OpaStep
<1>2. ASSUME OpaInv, UNCHANGED opaVars
      PROVE  OpaInv'
  BY <1>2 DEF opaVars, OpaInv, OpaType
<1>3. OpaInv => BundleOutlivesChild
  BY DEF OpaInv, OpaType, Decisions, Fits, BundleOutlivesChild, Places, BeforeChild, WithChild,
         AfterChild
<1> QED BY <1>1, <1>2, <1>3, OpaInitInv, PTL DEF OpaSpec

-----------------------------------------------------------------------------
(* Host functions of the Node binding: the env is published exactly while  *)
(* a synchronous evaluation has a frame on the stack, because every frame  *)
(* remembers whether there was one below it.                               *)

NodeStages == {"annotate", "policy", "emit", "done"}
Evaluations ==
    [mode : {"none", "sync", "async"}, stage : NodeStages,
     at : {"engine", "host", "posted", "promised", "rejecting", "rejected", "returned"},
     previous : BOOLEAN, failed : {"none", "annotate", "policy"},
     policy : {"none"} \cup Good, blame : {"none", "annotate", "policy"}]

\* What holds of every evaluation by itself.
Honest(r) ==
    /\ r.blame = r.failed
    /\ r.at \in {"posted", "promised"} => r.mode = "async"
    /\ r.at \in {"posted", "promised", "host"} => r.stage # "done"

\* A synchronous evaluation is among the lowest n frames.
SyncBelow(n) == \E j \in 1..n : run[js[j]].mode = "sync"

NodeStack ==
    /\ js \in Seq(Evals)
    /\ env \in BOOLEAN /\ (env <=> SyncBelow(Len(js)))
    /\ \A i \in 1..Len(js) :
          /\ run[js[i]].mode # "none"
          /\ run[js[i]].mode = "sync" => (run[js[i]].previous <=> SyncBelow(i - 1))

NodeInv ==
    /\ run \in [Evals -> Evaluations]
    /\ \A e \in Evals : Honest(run[e])
    /\ NodeStack

(* Whatever a host function answers, the evaluation it answers blames the  *)
(* stage it fails at.                                                      *)
LEMMA AnswerIsHonest ==
    ASSUME NEW r \in Evaluations, Honest(r), r.stage # "done", NEW answer
    PROVE  LET s == Proceed(Blame(r, answer), answer) IN
             /\ s \in Evaluations /\ Honest(s)
             /\ s.mode = r.mode /\ s.previous = r.previous
<1>1. PICK b \in Evaluations : b = Blame(r, answer)
  BY DEF Blame, Evaluations, NodeStages
<1>2. /\ b.mode = r.mode /\ b.previous = r.previous /\ b.stage = r.stage /\ b.at = r.at
      /\ b.failed = r.failed
      /\ b.blame = IF answer \in Good \/ r.stage = "emit" THEN r.blame ELSE r.stage
  BY <1>1 DEF Blame, Evaluations
<1> SUFFICES LET s == Proceed(b, answer) IN
               /\ s \in Evaluations /\ Honest(s)
               /\ s.mode = r.mode /\ s.previous = r.previous
  BY <1>1
<1>3. CASE b.stage = "annotate" /\ answer \in Good
  <2>1. PICK s : s = [b EXCEPT !.at = "engine", !.stage = "policy"]
    OBVIOUS
  <2>2. s \in Evaluations
    BY <1>3, <2>1 DEF Evaluations, NodeStages
  <2>3. /\ s.mode = b.mode /\ s.previous = b.previous /\ s.blame = b.blame
        /\ s.at = "engine" /\ s.failed = b.failed
    BY <2>1 DEF Evaluations
  <2>4. Proceed(b, answer) = s
    BY <1>3, <2>1 DEF Proceed
  <2> QED BY <1>2, <1>3, <2>2, <2>3, <2>4 DEF Honest
<1>4. CASE b.stage = "policy" /\ answer \in Good
  <2>1. PICK s : s = [b EXCEPT !.at = "engine", !.stage = "emit", !.policy = answer]
    OBVIOUS
  <2>2. s \in Evaluations
    BY <1>4, <2>1 DEF Evaluations, NodeStages
  <2>3. /\ s.mode = b.mode /\ s.previous = b.previous /\ s.blame = b.blame
        /\ s.at = "engine" /\ s.failed = b.failed
    BY <2>1 DEF Evaluations
  <2>4. Proceed(b, answer) = s
    BY <1>4, <2>1 DEF Proceed
  <2> QED BY <1>2, <1>4, <2>2, <2>3, <2>4 DEF Honest
<1>5. CASE b.stage \in {"annotate", "policy"} /\ answer \notin Good
  <2>1. PICK s : s = [b EXCEPT !.at = "engine", !.stage = "emit", !.failed = b.stage]
    OBVIOUS
  <2>2. s \in Evaluations
    BY <1>5, <2>1 DEF Evaluations, NodeStages
  <2>3. /\ s.mode = b.mode /\ s.previous = b.previous /\ s.blame = b.blame
        /\ s.at = "engine" /\ s.failed = b.stage
    BY <2>1 DEF Evaluations
  <2>4. Proceed(b, answer) = s
    BY <1>5, <2>1 DEF Proceed
  <2> QED BY <1>2, <1>5, <2>2, <2>3, <2>4 DEF Honest
<1>6. CASE b.stage = "emit"
  <2>1. PICK s : s = [b EXCEPT !.at = "engine", !.stage = "done"]
    OBVIOUS
  <2>2. s \in Evaluations
    BY <1>6, <2>1 DEF Evaluations, NodeStages
  <2>3. /\ s.mode = b.mode /\ s.previous = b.previous /\ s.blame = b.blame
        /\ s.at = "engine" /\ s.failed = b.failed
    BY <2>1 DEF Evaluations
  <2>4. Proceed(b, answer) = s
    BY <1>6, <2>1 DEF Proceed
  <2> QED BY <1>2, <1>6, <2>2, <2>3, <2>4 DEF Honest
<1> QED BY <1>1, <1>2, <1>3, <1>4, <1>5, <1>6 DEF Evaluations, NodeStages

(* An evaluation that keeps its mode and its scope leaves the stack as it  *)
(* is.                                                                     *)
LEMMA FrameIsKept ==
    ASSUME NodeInv, NEW e \in Evals, NEW r \in Evaluations, Honest(r),
           r.mode = run[e].mode, r.previous = run[e].previous,
           run' = [run EXCEPT ![e] = r], UNCHANGED <<js, env>>
    PROVE  NodeInv'
<1>1. run' \in [Evals -> Evaluations] /\ \A f \in Evals : run'[f] = IF f = e THEN r ELSE run[f]
  BY DEF NodeInv
<1>2. \A f \in Evals : run'[f].mode = run[f].mode /\ run'[f].previous = run[f].previous
  BY <1>1
<1>3. \A i \in 1..Len(js) : js[i] \in Evals
  BY DEF NodeInv, NodeStack
<1>4. Len(js) \in Nat
  BY DEF NodeInv, NodeStack
<1>5. \A n \in 0..Len(js) : SyncBelow(n)' <=> SyncBelow(n)
  BY <1>2, <1>3, <1>4 DEF SyncBelow
<1>6. NodeStack'
  <2>1. env' \in BOOLEAN /\ (env' <=> SyncBelow(Len(js))')
    BY <1>4, <1>5 DEF NodeInv, NodeStack
  <2>2. \A i \in 1..Len(js) : i - 1 \in 0..Len(js)
    BY <1>4
  <2> QED BY <1>2, <1>3, <1>5, <2>1, <2>2 DEF NodeInv, NodeStack
<1> QED BY <1>1, <1>6 DEF NodeInv

(* The stack grows by a synchronous evaluation.                            *)
LEMMA InterceptInv ==
    ASSUME NodeInv, NEW e \in Evals, intercept(e)
    PROVE  NodeInv'
<1>1. run[e] \in Evaluations /\ run[e].mode = "none" /\ Honest(run[e]) /\ env \in BOOLEAN
  BY DEF NodeInv, NodeStack, intercept
<1>2. PICK r : r = [run[e] EXCEPT !.mode = "sync", !.previous = env]
  OBVIOUS
<1>3. r \in Evaluations /\ r.mode = "sync" /\ (r.previous <=> env)
  BY <1>1, <1>2 DEF Evaluations
<1>4. Honest(r)
  <2>1. r.blame = run[e].blame /\ r.failed = run[e].failed /\ r.at = run[e].at
          /\ r.stage = run[e].stage
    BY <1>1, <1>2 DEF Evaluations
  <2> QED BY <1>1, <2>1 DEF Honest
<1>5. PICK n \in Nat : n = Len(js)
  BY DEF NodeInv, NodeStack
<1>6. /\ run' = [run EXCEPT ![e] = r]
      /\ js' = Append(js, e) /\ env' = TRUE
  BY <1>2 DEF intercept, Publish, NodeInv
<1>7. run' \in [Evals -> Evaluations] /\ \A f \in Evals : run'[f] = IF f = e THEN r ELSE run[f]
  BY <1>3, <1>6 DEF NodeInv
<1>8. js \in Seq(Evals) /\ \A i \in 1..n : js[i] \in Evals /\ js[i] # e
  BY <1>1, <1>5 DEF NodeInv, NodeStack
<1>9. /\ js' \in Seq(Evals) /\ Len(js') = n + 1 /\ js'[n + 1] = e
      /\ \A i \in 1..n : js'[i] = js[i]
  BY <1>5, <1>6, <1>8
<1>10. \A i \in 1..n : run'[js'[i]] = run[js[i]]
  BY <1>7, <1>8, <1>9
<1>11. run'[js'[n + 1]] = r
  BY <1>7, <1>9
<1>12. \A k \in 0..n : SyncBelow(k)' <=> SyncBelow(k)
  BY <1>10 DEF SyncBelow
<1>13. SyncBelow(n)' <=> env
  BY <1>5, <1>12 DEF NodeInv, NodeStack
<1>14. SyncBelow(n + 1)'
  BY <1>3, <1>11 DEF SyncBelow
<1>15. NodeStack'
  <2>1. ASSUME NEW i \in 1..(n + 1)
        PROVE  /\ run'[js'[i]].mode # "none"
               /\ run'[js'[i]].mode = "sync" => (run'[js'[i]].previous <=> SyncBelow(i - 1)')
    <3>1. CASE i \in 1..n
      <4>1. i - 1 \in 0..n
        BY <3>1
      <4> QED BY <1>5, <1>10, <1>12, <3>1, <4>1 DEF NodeInv, NodeStack
    <3>2. CASE i = n + 1
      <4>1. i - 1 = n
        BY <3>2
      <4> QED BY <1>3, <1>11, <1>13, <3>2, <4>1
    <3> QED BY <2>1, <3>1, <3>2
  <2> QED BY <1>6, <1>9, <1>14, <2>1 DEF NodeStack
<1>16. \A f \in Evals : Honest(run[f])'
  BY <1>4, <1>7 DEF NodeInv, Honest
<1> QED BY <1>7, <1>15, <1>16 DEF NodeInv

(* The frame on top leaves: a synchronous one puts back what it found, an  *)
(* asynchronous one had published nothing.                                 *)
LEMMA PopInv ==
    ASSUME NodeInv, NEW e \in Evals, js # <<>>, Top = e, NEW r \in Evaluations, Honest(r),
           r.mode = run[e].mode, r.previous = run[e].previous,
           run' = [run EXCEPT ![e] = r], js' = Pop,
           env' = IF run[e].mode = "sync" THEN run[e].previous ELSE env
    PROVE  NodeInv'
<1>1. run' \in [Evals -> Evaluations] /\ \A f \in Evals : run'[f] = IF f = e THEN r ELSE run[f]
  BY DEF NodeInv
<1>2. \A f \in Evals : run'[f].mode = run[f].mode /\ run'[f].previous = run[f].previous
  BY <1>1
<1>3. PICK n \in Nat : n = Len(js) - 1
  BY DEF NodeInv, NodeStack
<1>4. /\ js \in Seq(Evals) /\ Len(js) = n + 1 /\ js[n + 1] = e
      /\ \A i \in 1..(n + 1) : js[i] \in Evals
  BY <1>3 DEF NodeInv, NodeStack, Top
<1>5. js' \in Seq(Evals) /\ Len(js') = n /\ \A i \in 1..n : js'[i] = js[i]
  BY <1>3, <1>4 DEF Pop
<1>6. \A k \in 0..n : SyncBelow(k)' <=> SyncBelow(k)
  BY <1>2, <1>4, <1>5 DEF SyncBelow
<1>7. env' \in BOOLEAN /\ (env' <=> SyncBelow(n))
  <2>1. CASE run[e].mode = "sync"
    <3>1. env' = run[e].previous /\ run[e].previous \in BOOLEAN
      BY <2>1 DEF NodeInv, Evaluations
    <3>2. run[js[n + 1]].previous <=> SyncBelow(n + 1 - 1)
      BY <1>4, <2>1 DEF NodeInv, NodeStack
    <3>3. n + 1 - 1 = n
      OBVIOUS
    <3> QED BY <1>4, <3>1, <3>2, <3>3
  <2>2. CASE run[e].mode # "sync"
    <3>1. SyncBelow(n + 1) <=> SyncBelow(n)
      BY <1>4, <2>2 DEF SyncBelow
    <3> QED BY <1>4, <2>2, <3>1 DEF NodeInv, NodeStack
  <2> QED BY <2>1, <2>2
<1>8. NodeStack'
  <2>1. ASSUME NEW i \in 1..n
        PROVE  /\ run'[js'[i]].mode # "none"
               /\ run'[js'[i]].mode = "sync" => (run'[js'[i]].previous <=> SyncBelow(i - 1)')
    <3>1. i \in 1..Len(js) /\ i - 1 \in 0..n
      BY <1>4, <2>1
    <3> QED BY <1>2, <1>4, <1>5, <1>6, <2>1, <3>1 DEF NodeInv, NodeStack
  <2>2. env' \in BOOLEAN /\ (env' <=> SyncBelow(Len(js))')
    BY <1>5, <1>6, <1>7
  <2> QED BY <1>5, <2>1, <2>2 DEF NodeStack
<1> QED BY <1>1, <1>8 DEF NodeInv

(* The event loop runs a posted call on an empty stack: nothing is         *)
(* published before it and nothing by it.                                  *)
LEMMA RunPostedInv ==
    ASSUME NodeInv, NEW e \in Evals, RunPosted(e)
    PROVE  NodeInv'
<1>1. /\ js = <<>> /\ js' = <<e>> /\ env' = env
      /\ run[e] \in Evaluations /\ run[e].at = "posted" /\ Honest(run[e])
  BY DEF NodeInv, RunPosted, Idle
<1>2. PICK r : r = [run[e] EXCEPT !.at = "host"]
  OBVIOUS
<1>3. r \in Evaluations /\ r.mode = "async" /\ Honest(r)
  <2>1. r.blame = run[e].blame /\ r.failed = run[e].failed /\ r.at = "host"
          /\ r.stage = run[e].stage /\ r.mode = run[e].mode
    BY <1>1, <1>2 DEF Evaluations
  <2>2. r \in Evaluations
    BY <1>1, <1>2 DEF Evaluations
  <2> QED BY <1>1, <2>1, <2>2 DEF Honest
<1>4. run' = [run EXCEPT ![e] = r]
  BY <1>2 DEF RunPosted
<1>5. run' \in [Evals -> Evaluations] /\ \A f \in Evals : run'[f] = IF f = e THEN r ELSE run[f]
  BY <1>3, <1>4 DEF NodeInv
<1>6. env \in BOOLEAN /\ ~env
  BY <1>1 DEF NodeInv, NodeStack, SyncBelow
<1>7. js' \in Seq(Evals) /\ Len(js') = 1 /\ js'[1] = e
  BY <1>1
<1>8. run'[js'[1]].mode = "async"
  BY <1>3, <1>5, <1>7
<1>9. ~SyncBelow(1)'
  BY <1>8 DEF SyncBelow
<1>10. NodeStack'
  BY <1>1, <1>6, <1>7, <1>8, <1>9 DEF NodeStack
<1>11. \A f \in Evals : Honest(run[f])'
  BY <1>3, <1>5 DEF NodeInv, Honest
<1> QED BY <1>5, <1>10, <1>11 DEF NodeInv

(* intercept_async adds no frame; the evaluation it starts has none.       *)
LEMMA InterceptAsyncInv ==
    ASSUME NodeInv, NEW e \in Evals, NEW spawned \in BOOLEAN, intercept_async(e, spawned)
    PROVE  NodeInv'
<1>1. /\ run[e] \in Evaluations /\ run[e].mode = "none" /\ Honest(run[e])
      /\ UNCHANGED <<js, env>>
  BY DEF NodeInv, intercept_async
<1>2. PICK r : r = [run[e] EXCEPT !.mode = "async", !.at = IF spawned THEN "engine" ELSE "rejecting"]
  OBVIOUS
<1>3. r \in Evaluations /\ Honest(r)
  <2>1. /\ r.blame = run[e].blame /\ r.failed = run[e].failed
        /\ r.at \in {"engine", "rejecting"}
    BY <1>1, <1>2 DEF Evaluations
  <2>2. r \in Evaluations
    BY <1>1, <1>2 DEF Evaluations
  <2> QED BY <1>1, <2>1, <2>2 DEF Honest
<1>4. run' = [run EXCEPT ![e] = r]
  BY <1>2 DEF intercept_async, NodeInv
<1>5. run' \in [Evals -> Evaluations] /\ \A f \in Evals : run'[f] = IF f = e THEN r ELSE run[f]
  BY <1>3, <1>4 DEF NodeInv
<1>6. PICK n \in Nat : n = Len(js)
  BY DEF NodeInv, NodeStack
<1>7. \A i \in 1..n : js[i] \in Evals /\ js[i] # e
  BY <1>1, <1>6 DEF NodeInv, NodeStack
<1>8. \A i \in 1..n : run'[js'[i]] = run[js[i]]
  BY <1>1, <1>5, <1>7
<1>9. \A k \in 0..n : SyncBelow(k)' <=> SyncBelow(k)
  BY <1>8 DEF SyncBelow
<1>10. NodeStack'
  <2>1. \A i \in 1..n : i - 1 \in 0..n
    OBVIOUS
  <2>2. n \in 0..n
    OBVIOUS
  <2> QED BY <1>1, <1>6, <1>8, <1>9, <2>1, <2>2 DEF NodeInv, NodeStack
<1>11. \A f \in Evals : Honest(run[f])'
  BY <1>3, <1>5 DEF NodeInv, Honest
<1> QED BY <1>5, <1>10, <1>11 DEF NodeInv

(* Only where an evaluation is changes.                                    *)
LEMMA MovedIsHonest ==
    ASSUME NEW r \in Evaluations, Honest(r),
           NEW to \in {"host", "posted", "promised", "rejecting", "rejected", "returned"},
           to \in {"posted", "promised"} => r.mode = "async",
           to \in {"posted", "promised", "host"} => r.stage # "done"
    PROVE  LET s == [r EXCEPT !.at = to] IN
             /\ s \in Evaluations /\ Honest(s)
             /\ s.mode = r.mode /\ s.previous = r.previous
<1>1. PICK s : s = [r EXCEPT !.at = to]
  OBVIOUS
<1>2. s \in Evaluations
  BY <1>1 DEF Evaluations
<1>3. /\ s.mode = r.mode /\ s.previous = r.previous /\ s.blame = r.blame
      /\ s.failed = r.failed /\ s.stage = r.stage /\ s.at = to
  BY <1>1 DEF Evaluations
<1> QED BY <1>1, <1>2, <1>3 DEF Honest

(* On the JS thread the engine always finds an env: the frame on top is    *)
(* synchronous.                                                            *)
LEMMA CallOnJsThreadInv ==
    ASSUME NodeInv, NEW e \in Evals, call_on_js_thread(e)
    PROVE  NodeInv'
<1>1. /\ js # <<>> /\ js[Len(js)] = e /\ run[e].mode = "sync" /\ run[e].stage # "done"
      /\ run[e] \in Evaluations /\ Honest(run[e]) /\ js \in Seq(Evals)
      /\ UNCHANGED <<js, env>>
  BY DEF call_on_js_thread, Top, NodeInv, NodeStack
<1>2. env
  <2>1. Len(js) \in 1..Len(js)
    BY <1>1
  <2> QED BY <1>1, <2>1 DEF NodeInv, NodeStack, SyncBelow
<1>3. PICK r : r = [run[e] EXCEPT !.at = "host"]
  OBVIOUS
<1>4. run' = [run EXCEPT ![e] = r]
  BY <1>2, <1>3 DEF call_on_js_thread
<1>5. r \in Evaluations /\ Honest(r) /\ r.mode = run[e].mode /\ r.previous = run[e].previous
  BY <1>1, <1>3, MovedIsHonest
<1> QED BY <1>1, <1>4, <1>5, FrameIsKept

(* The host function of a synchronous evaluation answers, and the entry    *)
(* point returns.                                                          *)
LEMMA SyncStepsInv ==
    ASSUME NodeInv, NEW e \in Evals, NEW answer,
           ReturnsToEngine(e, answer) \/ SyncReturns(e)
    PROVE  NodeInv'
<1>1. /\ js # <<>> /\ Top = e /\ run[e].mode = "sync"
      /\ run[e] \in Evaluations /\ Honest(run[e])
  BY DEF ReturnsToEngine, SyncReturns, NodeInv
<1>2. CASE ReturnsToEngine(e, answer)
  <2>1. run[e].stage # "done" /\ UNCHANGED <<js, env>>
    BY <1>1, <1>2 DEF ReturnsToEngine, Honest
  <2>2. PICK r : r = Proceed(Blame(run[e], answer), answer)
    OBVIOUS
  <2>3. r \in Evaluations /\ Honest(r) /\ r.mode = run[e].mode /\ r.previous = run[e].previous
    BY <1>1, <2>1, <2>2, AnswerIsHonest
  <2>4. run' = [run EXCEPT ![e] = r]
    BY <1>2, <2>2 DEF ReturnsToEngine
  <2> QED BY <2>1, <2>3, <2>4, FrameIsKept
<1>3. CASE SyncReturns(e)
  <2>1. PICK r : r = [run[e] EXCEPT !.at = "returned"]
    OBVIOUS
  <2>2. r \in Evaluations /\ Honest(r) /\ r.mode = run[e].mode /\ r.previous = run[e].previous
    BY <1>1, <2>1, MovedIsHonest
  <2>3. run' = [run EXCEPT ![e] = r] /\ js' = Pop
    BY <1>3, <2>1 DEF SyncReturns
  <2>4. env' = IF run[e].mode = "sync" THEN run[e].previous ELSE env
    BY <1>1, <1>3 DEF SyncReturns, restore
  <2> QED BY <1>1, <2>2, <2>3, <2>4, PopInv
<1> QED BY <1>2, <1>3

(* The worker of an asynchronous evaluation calls, is answered through the *)
(* event loop or by the end of the env, and the promise settles.           *)
LEMMA AsyncStepsInv ==
    ASSUME NodeInv, NEW e \in Evals, NEW answer,
           \/ call_from_worker(e) \/ SenderDropped(e) \/ Panics(e) \/ PromiseSettles(e)
           \/ Settles(e, answer)
    PROVE  NodeInv'
<1>1. /\ run[e] \in Evaluations /\ Honest(run[e]) /\ UNCHANGED <<js, env>>
  BY DEF call_from_worker, SenderDropped, Panics, PromiseSettles, Settles, NodeInv
<1>2. ASSUME NEW a, run[e].stage # "done",
             run' = [run EXCEPT ![e] = Proceed(Blame(@, a), a)]
      PROVE  NodeInv'
  <2>1. PICK r : r = Proceed(Blame(run[e], a), a)
    OBVIOUS
  <2>2. r \in Evaluations /\ Honest(r) /\ r.mode = run[e].mode /\ r.previous = run[e].previous
    BY <1>1, <1>2, <2>1, AnswerIsHonest
  <2>3. run' = [run EXCEPT ![e] = r]
    BY <1>2, <2>1
  <2> QED BY <1>1, <2>2, <2>3, FrameIsKept
<1>3. ASSUME NEW to \in {"posted", "rejecting", "rejected", "returned"},
             to = "posted" => run[e].mode = "async" /\ run[e].stage # "done",
             run' = [run EXCEPT ![e].at = to]
      PROVE  NodeInv'
  <2>1. PICK r : r = [run[e] EXCEPT !.at = to]
    OBVIOUS
  <2>2. r \in Evaluations /\ Honest(r) /\ r.mode = run[e].mode /\ r.previous = run[e].previous
    BY <1>1, <1>3, <2>1, MovedIsHonest, ZenonT(30)
  <2>3. run' = [run EXCEPT ![e] = r]
    BY <1>3, <2>1
  <2> QED BY <1>1, <2>2, <2>3, FrameIsKept
<1>4. CASE call_from_worker(e)
  <2>1. CASE closing
    BY <1>2, <1>4, <2>1 DEF call_from_worker
  <2>2. CASE ~closing
    BY <1>3, <1>4, <2>2 DEF call_from_worker
  <2> QED BY <2>1, <2>2
<1>5. CASE SenderDropped(e)
  BY <1>1, <1>2, <1>5 DEF SenderDropped, Honest
<1>6. CASE Panics(e)
  BY <1>3, <1>6 DEF Panics
<1>7. CASE PromiseSettles(e)
  BY <1>3, <1>7 DEF PromiseSettles
<1>8. CASE Settles(e, answer)
  BY <1>1, <1>2, <1>8 DEF Settles, Honest
<1> QED BY <1>4, <1>5, <1>6, <1>7, <1>8

(* A posted host function returns to the event loop.                       *)
LEMMA DeliverInv ==
    ASSUME NodeInv, NEW e \in Evals, NEW answer, deliver(e, answer)
    PROVE  NodeInv'
<1>1. /\ js # <<>> /\ Top = e /\ run[e].mode = "async" /\ run[e].at = "host" /\ js' = Pop
      /\ run[e] \in Evaluations /\ Honest(run[e]) /\ run[e].stage # "done"
  BY DEF deliver, NodeInv, Honest
<1>2. PICK r : r = IF answer = "promise" THEN [run[e] EXCEPT !.at = "promised"]
                   ELSE Proceed(Blame(run[e], answer), answer)
  OBVIOUS
<1>3. r \in Evaluations /\ Honest(r) /\ r.mode = run[e].mode /\ r.previous = run[e].previous
  <2>1. CASE answer = "promise"
    BY <1>1, <1>2, <2>1, MovedIsHonest
  <2>2. CASE answer # "promise"
    BY <1>1, <1>2, <2>2, AnswerIsHonest
  <2> QED BY <2>1, <2>2
<1>4. run' = [run EXCEPT ![e] = r]
  BY <1>2 DEF deliver
<1>5. env' = IF run[e].mode = "sync" THEN run[e].previous ELSE env
  BY <1>1 DEF deliver
<1> QED BY <1>1, <1>3, <1>4, <1>5, PopInv

LEMMA NodeInitInv == NodeInit => NodeInv
<1> SUFFICES ASSUME NodeInit
             PROVE  NodeInv
  OBVIOUS
<1>1. NotStarted \in Evaluations
  BY DEF NotStarted, Evaluations, NodeStages
<1>2. Honest(NotStarted)
  BY DEF NotStarted, Honest
<1>3. run \in [Evals -> Evaluations] /\ \A e \in Evals : Honest(run[e])
  BY <1>1, <1>2 DEF NodeInit
<1>4. env \in BOOLEAN /\ ~env
  BY DEF NodeInit
<1>5. js \in Seq(Evals) /\ Len(js) = 0
  BY EmptySeq DEF NodeInit
<1>6. ~SyncBelow(0)
  BY DEF SyncBelow
<1>7. NodeStack
  BY <1>4, <1>5, <1>6 DEF NodeStack
<1> QED BY <1>3, <1>7 DEF NodeInv

(* In the Node binding an evaluation is denied for a failed host function  *)
(* only when that function failed or no JS will run again, and a failure   *)
(* is never read as an answer: for any number of evaluations nested in     *)
(* each other's host functions, synchronous and asynchronous in any mix.   *)
THEOREM HostBlameSafety == NodeSpec => []FailureIsTheHosts
<1>1. ASSUME NodeInv, NodeStep
      PROVE  NodeInv'
  <2>1. ASSUME NEW e \in SyncEvals \cup AsyncEvals
        PROVE  e \in Evals
    BY <2>1 DEF Evals
  <2>2. CASE JsThread
    BY <1>1, <2>2, CallOnJsThreadInv, SyncStepsInv, RunPostedInv, AsyncStepsInv, DeliverInv
    DEF JsThread
  <2>3. CASE Settling
    BY <1>1, <2>3, AsyncStepsInv DEF Settling
  <2>4. CASE CloseEnv
    BY <1>1, <2>4 DEF CloseEnv, NodeInv, NodeStack, SyncBelow
  <2>5. CASE \E e \in SyncEvals : intercept(e)
    BY <1>1, <2>1, <2>5, InterceptInv
  <2>6. CASE \E e \in AsyncEvals : Worker(e) \/ Panics(e)
    BY <1>1, <2>1, <2>6, AsyncStepsInv DEF Worker
  <2>7. CASE \E e \in AsyncEvals, b \in BOOLEAN : intercept_async(e, b)
    BY <1>1, <2>1, <2>7, InterceptAsyncInv
  <2> QED BY <1>1, <2>2, <2>3, <2>4, <2>5, <2>6, <2>7 DEF NodeStep
<1>2. ASSUME NodeInv, UNCHANGED nodeVars
      PROVE  NodeInv'
  BY <1>2 DEF nodeVars, NodeInv, NodeStack, SyncBelow
<1>3. NodeInv => FailureIsTheHosts
  BY DEF NodeInv, Honest, FailureIsTheHosts, Verdict
<1> QED BY <1>1, <1>2, <1>3, NodeInitInv, PTL DEF NodeSpec

-----------------------------------------------------------------------------
(* Session handles: while nothing has panicked inside the lock, what the   *)
(* threads do to the session are steps of StreamSession, whose invariant   *)
(* is proved there.                                                        *)

P == INSTANCE StreamSessionProofs

LEMMA SessionFacts ==
    /\ MAX_RUNE_OFFSET \in Nat
    /\ Configs \subseteq P!SessionConfigs
    /\ HostVerdicts \subseteq P!Verdicts
BY SessionAssumption
DEF P!SessionConfigs, Session!SessionConfigs, P!Verdicts, Session!Verdicts,
    P!Tracks, Session!Tracks, P!SafetyLevels, Session!SafetyLevels

(* Each method is a step of the session or leaves it alone.                *)
LEMMA MethodIsStep ==
    ASSUME NEW call \in Calls, method(call)
    PROVE  [P!Next]_(P!vars)
<1>1. /\ call.op \in Operations /\ call.track \in P!Tracks /\ call.runes \in P!ArgOffsets
      /\ call.task \in Tasks /\ call.span \in P!ArgSpans
      /\ call.outcome \in {"cleared", "denied", "transformed"} /\ call.verdict \in HostVerdicts
  BY CallsAssumption
  DEF P!Tracks, Session!Tracks, P!ArgOffsets, Session!ArgOffsets, P!ArgSpans, Session!ArgSpans
<1>2. CASE UNCHANGED sessionVars
  BY <1>2 DEF sessionVars, P!vars, P!session
<1>3. CASE Session!Observe(call.track, call.runes)
  <2>1. P!Observe(call.track, call.runes)
    BY <1>3
    DEF Session!Observe, P!Observe, Session!ObserveFault, P!ObserveFault, Session!fail, P!fail,
        Session!Failed, P!Failed, Session!Open, P!Open, Session!withholds, P!withholds
  <2> QED BY <1>1, <2>1 DEF P!Next
<1>4. ASSUME NEW outcome,
             Session!RecordOutcome(call.task, call.track, call.span, outcome)
      PROVE  P!RecordOutcome(call.task, call.track, call.span, outcome)
  BY <1>4
  DEF Session!RecordOutcome, P!RecordOutcome, Session!OutcomeFault, P!OutcomeFault,
      Session!TransformTooLate, P!TransformTooLate, Session!NonContiguous, P!NonContiguous,
      Session!fail, P!fail, Session!Failed, P!Failed, Session!Open, P!Open,
      Session!Refused, P!Refused, Session!Recorded, P!Recorded, Session!Runes, P!Runes,
      Session!withholds, P!withholds
<1>5. CASE Session!RecordOutcome(call.task, call.track, call.span, call.outcome)
  BY <1>1, <1>4, <1>5 DEF P!Next
<1>6. CASE Session!RecordVerdict(call.task, call.track, call.span, call.verdict)
  <2>1. P!verdict_shape_is_invalid(call.verdict) <=> Session!verdict_shape_is_invalid(call.verdict)
    BY DEF P!verdict_shape_is_invalid, Session!verdict_shape_is_invalid, P!VerdictValidates,
           Session!VerdictValidates
  <2>2. P!OutcomeOf(call.verdict.decision) = Session!OutcomeOf(call.verdict.decision)
    BY DEF P!OutcomeOf, Session!OutcomeOf
  <2>3. P!RecordVerdict(call.task, call.track, call.span, call.verdict)
    BY <1>4, <1>6, <2>1, <2>2
    DEF Session!RecordVerdict, P!RecordVerdict, Session!fail, P!fail, Session!Failed, P!Failed,
        Session!Open, P!Open
  <2> QED BY <1>1, <2>3 DEF P!Next
<1>7. CASE Session!Advance(call.track)
  <2>1. P!Advance(call.track)
    BY <1>7
    DEF Session!Advance, P!Advance, Session!Open, P!Open, Session!Raised, P!Raised,
        Session!Lowest, P!Lowest, Session!Least, P!Least
  <2> QED BY <1>1, <2>1 DEF P!Next
<1>8. CASE Session!EndOfPayloads
  BY <1>8 DEF Session!EndOfPayloads, P!EndOfPayloads, P!Next
<1>9. CASE Session!Finish
  BY <1>9
  DEF Session!Finish, P!Finish, Session!Open, P!Open, Session!Complete, P!Complete,
      Session!Failed, P!Failed, Session!uncleared, P!uncleared, Session!Raised, P!Raised,
      Session!Lowest, P!Lowest, Session!Least, P!Least, Session!Tracks, P!Tracks, P!Next
<1> QED
  BY <1>1, <1>2, <1>3, <1>5, <1>6, <1>7, <1>8, <1>9 DEF method, Unless, Operations

LEMMA InvReleases == P!Inv => P!ReleasedIsCleared
BY SessionFacts, P!InvReleases

(* What a method leaves: the session's invariant, the configuration, and   *)
(* everything the tasks had allowed.                                       *)
LEMMA MethodKeeps ==
    ASSUME P!Inv, NEW call \in Calls, method(call)
    PROVE  /\ P!Inv' /\ P!ReleasedIsCleared'
           /\ config' = config
           /\ \A t \in P!Tracks, k \in Tasks : cleared[t][k] \subseteq cleared'[t][k]
<1>1. [P!Next]_(P!vars)
  BY MethodIsStep
<1>2. P!Inv'
  BY <1>1, SessionFacts, P!NextInv
<1>3. P!ReleasedIsCleared'
  BY <1>2, InvReleases, PTL
<1>4. /\ config' = config
      /\ \A t \in P!Tracks, k \in Tasks : cleared[t][k] \subseteq cleared'[t][k]
  BY <1>1, SessionFacts, P!ClearedGrows
<1> QED BY <1>2, <1>3, <1>4

NoCall == [op |-> "none"]
Answers == [kind : {"some", "absent", "done", "failure"}, n : Int]
ThreadStates ==
    [at : {"idle", "locking", "locked", "told", "detached", "callback"},
     call : Calls \cup {NoCall}, told : [value : Int, error : BOOLEAN], hooks : Nat]

\* What the place of a thread says of its call and of the lock.
Placed(t, s) ==
    /\ s.at \in {"locking", "locked"} => s.call \in Calls
    /\ s.at = "locked" => mutex = t /\ ~poisoned
    /\ s.at \in {"detached", "callback"} => s.call = NoCall

\* The runes of a track up to n were cleared by every task of it.
Covered(track, n) ==
    \A k \in config.tasks[track] : config.start[track]..(n - 1) \subseteq cleared[track][k]
Vouched(s) ==
    s.at = "told" /\ s.call.op \in {"advance", "safe_offset"} /\ s.told.value >= 0
      => Covered(s.call.track, s.told.value)

HandlesInv ==
    /\ thread \in [Threads -> ThreadStates]
    /\ config \in Configs
    /\ poisoned \in BOOLEAN /\ (~poisoned => P!Inv)
    /\ \A t \in Threads : Placed(t, thread[t]) /\ Vouched(thread[t])

(* A failure and an absent offset never look like one.                     *)
LEMMA Tellings ==
    ASSUME NEW answer, NEW r \in Answers
    PROVE  /\ tells(answer, r) \in [value : Int, error : BOOLEAN]
           /\ r.kind \in {"failure", "absent"} => ~(tells(answer, r).value >= 0)
           /\ r.kind = "some" => tells(answer, r).value = r.n
BY DEF tells, Answers

LEMMA FixedAnswers ==
    /\ Failure \in Answers /\ Failure.kind = "failure"
    /\ Absent \in Answers /\ Absent.kind = "absent"
    /\ Done \in Answers /\ Done.kind = "done"
    /\ \A n \in Int : Some(n) \in Answers /\ Some(n).kind = "some" /\ Some(n).n = n
BY DEF Failure, Absent, Done, Some, Answers

(* What a method answers, and that an offset it hands out for release is   *)
(* covered.                                                                *)
LEMMA AnswerIsVouched ==
    ASSUME P!Inv, NEW call \in Calls, method(call), NEW answer
    PROVE  /\ answered(call) \in Answers
           /\ call.op \in {"advance", "safe_offset"} =>
                \A n \in Int : n >= 0 /\ n = tells(answer, answered(call)).value
                                => Covered(call.track, n)'
<1>1. call.track \in P!Tracks /\ call.op \in Operations
  BY CallsAssumption DEF P!Tracks, Session!Tracks
<1>2. P!Inv' /\ P!ReleasedIsCleared'
  BY MethodKeeps
<1>3. /\ received[call.track] \in Int /\ received'[call.track] \in Int
      /\ confirmed[call.track] \in Int /\ confirmed'[call.track] \in Int
  BY <1>1, <1>2, SessionFacts DEF P!Inv, P!TypeOK, P!Offsets
<1>4. \A n \in Int : n = confirmed'[call.track] => Covered(call.track, n)'
  BY <1>1, <1>2 DEF P!ReleasedIsCleared, Covered
<1>5. CASE call.op = "advance"
  <2>1. answered(call) \in {Some(confirmed'[call.track]), Absent}
    BY <1>5 DEF answered
  <2> QED BY <1>3, <1>4, <2>1, Tellings, FixedAnswers
<1>6. CASE call.op = "safe_offset"
  <2>1. answered(call) \in {Some(confirmed[call.track]), Absent}
    BY <1>6 DEF answered
  <2>2. confirmed' = confirmed
    BY <1>6 DEF method, sessionVars
  <2> QED BY <1>3, <1>4, <2>1, <2>2, Tellings, FixedAnswers
<1>7. CASE call.op \notin {"advance", "safe_offset"}
  <2>1. CASE call.op \in {"observe", "observe_text"}
    BY <1>3, <2>1, FixedAnswers DEF answered, Kept
  <2>2. CASE call.op \in {"record_outcome", "record_verdict"}
    BY <2>2, FixedAnswers DEF answered, Kept
  <2>3. CASE call.op = "pending"
    BY <1>3, <2>3, FixedAnswers DEF answered
  <2>4. CASE call.op \in {"watermark", "state", "end_of_payloads", "finish"}
    BY <2>4, FixedAnswers DEF answered
  <2> QED BY <1>1, <1>7, <2>1, <2>2, <2>3, <2>4 DEF Operations
<1> QED BY <1>5, <1>6, <1>7

(* One thread moves; the others keep what they were told, since no rune a  *)
(* task allowed is taken back, and whoever holds the lock keeps it.        *)
LEMMA ThreadMoves ==
    ASSUME HandlesInv, NEW t \in Threads, NEW s \in ThreadStates,
           thread' = [thread EXCEPT ![t] = s],
           config' = config,
           \A u \in P!Tracks, k \in Tasks : cleared[u][k] \subseteq cleared'[u][k],
           mutex \notin {t, Free} => mutex' = mutex /\ poisoned' = poisoned,
           poisoned' \in BOOLEAN, ~poisoned' => P!Inv',
           Placed(t, s)', Vouched(s)'
    PROVE  HandlesInv'
<1>1. thread' \in [Threads -> ThreadStates] /\ config' \in Configs
  BY DEF HandlesInv
<1>2. ASSUME NEW u \in Threads
      PROVE  Placed(u, thread[u])' /\ Vouched(thread[u])'
  <2>1. CASE u = t
    <3>1. thread'[u] = s
      BY <2>1 DEF HandlesInv
    <3> QED BY <2>1, <3>1 DEF Placed, Vouched, Covered
  <2>2. CASE u # t
    <3>1. thread'[u] = thread[u] /\ thread[u] \in ThreadStates
      BY <2>2 DEF HandlesInv
    <3>2. Placed(u, thread[u])'
      BY <2>2, <3>1, FreeAssumption DEF HandlesInv, Placed
    <3>3. ASSUME thread[u].at = "told", thread[u].call.op \in {"advance", "safe_offset"},
                 thread[u].told.value >= 0
          PROVE  Covered(thread[u].call.track, thread[u].told.value)'
      <4>1. thread[u].call \in Calls
        BY <3>1, <3>3 DEF ThreadStates, NoCall
      <4>2. thread[u].call.track \in P!Tracks
        BY <4>1, CallsAssumption DEF P!Tracks, Session!Tracks
      <4>3. config.tasks[thread[u].call.track] \subseteq Tasks
        BY <4>2, SessionFacts DEF HandlesInv, P!SessionConfigs
      <4>4. Covered(thread[u].call.track, thread[u].told.value)
        BY <3>3 DEF HandlesInv, Vouched
      <4> QED BY <3>1, <4>2, <4>3, <4>4 DEF Covered
    <3> QED BY <3>1, <3>2, <3>3 DEF Vouched
  <2> QED BY <2>1, <2>2
<1> QED BY <1>1, <1>2 DEF HandlesInv

(* A step of one thread that leaves the session and the poison alone.      *)
LEMMA QuietMove ==
    ASSUME HandlesInv, NEW t \in Threads, NEW s \in ThreadStates,
           thread' = [thread EXCEPT ![t] = s],
           UNCHANGED <<sessionVars, poisoned>>,
           mutex \notin {t, Free} => mutex' = mutex,
           Placed(t, s)',
           \/ s.at # "told" \/ s.call.op \notin {"advance", "safe_offset"}
           \/ ~(s.told.value >= 0)
    PROVE  HandlesInv'
<1>1. config' = config /\ cleared' = cleared /\ poisoned' = poisoned
  BY DEF sessionVars
<1>2. poisoned' \in BOOLEAN /\ (~poisoned' => P!Inv')
  <2>1. UNCHANGED P!vars
    BY DEF sessionVars, P!vars, P!session
  <2>2. ~poisoned => P!Inv'
    BY <2>1, SessionFacts, P!NextInv DEF HandlesInv
  <2> QED BY <1>1, <2>2 DEF HandlesInv
<1>3. Vouched(s)'
  BY DEF Vouched
<1> QED BY <1>1, <1>2, <1>3, ThreadMoves

(* What a thread is when it has been told something, and when only its     *)
(* place changes.                                                          *)
LEMMA TellsThread ==
    ASSUME HandlesInv, NEW t \in Threads, NEW r \in Answers, Told(t, r)
    PROVE  \E s \in ThreadStates :
             /\ thread' = [thread EXCEPT ![t] = s]
             /\ s.at = "told" /\ s.call = thread[t].call
             /\ s.told = tells(entry(thread[t].call.op).answer, r)
<1>1. PICK told \in [value : Int, error : BOOLEAN] :
        told = tells(entry(thread[t].call.op).answer, r)
  BY Tellings
<1>2. PICK s : s = [thread[t] EXCEPT !.at = "told", !.told = told]
  OBVIOUS
<1>3. thread[t] \in ThreadStates
  BY DEF HandlesInv
<1>4. s \in ThreadStates /\ s.at = "told" /\ s.call = thread[t].call /\ s.told = told
  BY <1>2, <1>3 DEF ThreadStates
<1>5. thread' = [thread EXCEPT ![t] = s]
  BY <1>1, <1>2 DEF Told, HandlesInv
<1> QED BY <1>1, <1>4, <1>5

LEMMA PlacesThread ==
    ASSUME HandlesInv, NEW t \in Threads,
           NEW to \in {"locked", "detached"}, thread' = [thread EXCEPT ![t].at = to]
    PROVE  \E s \in ThreadStates :
             thread' = [thread EXCEPT ![t] = s] /\ s.at = to /\ s.call = thread[t].call
<1>1. PICK s : s = [thread[t] EXCEPT !.at = to]
  OBVIOUS
<1>2. thread[t] \in ThreadStates
  BY DEF HandlesInv
<1>3. s \in ThreadStates /\ s.at = to /\ s.call = thread[t].call
  BY <1>1, <1>2 DEF ThreadStates
<1> QED BY <1>1, <1>3

LEMMA RestingThread ==
    /\ Resting \in ThreadStates
    /\ Resting.at = "idle" /\ Resting.call = NoCall
<1>1. tells("value", Done) \in [value : Int, error : BOOLEAN]
  BY Tellings, FixedAnswers
<1> QED BY <1>1 DEF Resting, ThreadStates, NoCall

LEMMA EnterInv ==
    ASSUME HandlesInv, NEW t \in Threads, NEW call \in Calls, Enter(t, call)
    PROVE  HandlesInv'
<1>1. PICK told \in [value : Int, error : BOOLEAN] : told = tells(entry(call.op).answer, Failure)
  BY Tellings, FixedAnswers
<1>2. ~(told.value >= 0)
  BY <1>1, Tellings, FixedAnswers
<1>3. UNCHANGED <<sessionVars, poisoned, mutex>>
  BY DEF Enter
<1>4. CASE refused(call)
  <2>1. PICK s : s = [Resting EXCEPT !.at = "told", !.call = call, !.told = told]
    OBVIOUS
  <2>2. s \in ThreadStates /\ s.at = "told" /\ s.told = told
    BY <2>1, RestingThread DEF ThreadStates
  <2>3. thread' = [thread EXCEPT ![t] = s]
    BY <1>1, <1>4, <2>1 DEF Enter
  <2>4. Placed(t, s)'
    BY <2>2 DEF Placed
  <2> QED BY <1>2, <1>3, <2>2, <2>3, <2>4, QuietMove
<1>5. CASE ~refused(call)
  <2>1. PICK s : s = [Resting EXCEPT !.at = "locking", !.call = call]
    OBVIOUS
  <2>2. s \in ThreadStates /\ s.at = "locking" /\ s.call = call
    BY <2>1, RestingThread DEF ThreadStates
  <2>3. thread' = [thread EXCEPT ![t] = s]
    BY <1>5, <2>1 DEF Enter
  <2>4. Placed(t, s)'
    BY <2>2 DEF Placed
  <2> QED BY <1>3, <2>2, <2>3, <2>4, QuietMove
<1> QED BY <1>4, <1>5

LEMMA LockInv ==
    ASSUME HandlesInv, NEW t \in Threads, lock(t)
    PROVE  HandlesInv'
<1>1. /\ thread[t].at = "locking" /\ mutex = Free /\ thread[t].call \in Calls
      /\ UNCHANGED <<sessionVars, poisoned>>
  BY DEF lock, HandlesInv, Placed
<1>2. CASE poisoned /\ Told(t, Failure) /\ UNCHANGED mutex
  <2>1. PICK s \in ThreadStates :
          /\ thread' = [thread EXCEPT ![t] = s]
          /\ s.at = "told" /\ s.call = thread[t].call
          /\ s.told = tells(entry(thread[t].call.op).answer, Failure)
    BY <1>2, TellsThread, FixedAnswers
  <2>2. ~(s.told.value >= 0)
    BY <2>1, Tellings, FixedAnswers
  <2>3. Placed(t, s)'
    BY <2>1 DEF Placed
  <2> QED BY <1>1, <1>2, <2>1, <2>2, <2>3, QuietMove
<1>3. CASE ~poisoned /\ mutex' = t /\ thread' = [thread EXCEPT ![t].at = "locked"]
  <2>1. PICK s \in ThreadStates :
          thread' = [thread EXCEPT ![t] = s] /\ s.at = "locked" /\ s.call = thread[t].call
    BY <1>3, PlacesThread
  <2>2. Placed(t, s)'
    BY <1>1, <1>3, <2>1 DEF Placed
  <2> QED BY <1>1, <2>1, <2>2, QuietMove
<1> QED BY <1>2, <1>3 DEF lock

(* The method runs: on a lock that is not poisoned, so on a session whose  *)
(* invariant holds.                                                        *)
LEMMA RunsInv ==
    ASSUME HandlesInv, NEW t \in Threads, Runs(t)
    PROVE  HandlesInv'
<1>1. PICK call \in Calls : call = thread[t].call
  BY DEF Runs, HandlesInv, Placed
<1>2. ~poisoned /\ P!Inv /\ mutex = t /\ mutex' = Free /\ poisoned' = poisoned
  BY DEF Runs, HandlesInv, Placed
<1>3. method(call) /\ Told(t, answered(call))
  BY <1>1 DEF Runs
<1>4. answered(call) \in Answers
  BY <1>2, <1>3, AnswerIsVouched
<1>5. PICK r \in Answers : r = answered(call)
  BY <1>4
<1>6. PICK s \in ThreadStates :
        /\ thread' = [thread EXCEPT ![t] = s]
        /\ s.at = "told" /\ s.call = call
        /\ s.told = tells(entry(call.op).answer, r)
  BY <1>1, <1>3, <1>5, TellsThread
<1>7. Vouched(s)'
  <2>1. PICK n \in Int : n = s.told.value
    BY DEF ThreadStates
  <2>2. call.op \in {"advance", "safe_offset"} /\ n >= 0 => Covered(call.track, n)'
    BY <1>2, <1>3, <1>5, <1>6, <2>1, AnswerIsVouched
  <2> QED BY <1>6, <2>1, <2>2 DEF Vouched
<1>8. Placed(t, s)'
  BY <1>6 DEF Placed
<1>9. /\ P!Inv' /\ config' = config
      /\ \A u \in P!Tracks, k \in Tasks : cleared[u][k] \subseteq cleared'[u][k]
  BY <1>2, <1>3, MethodKeeps
<1> QED BY <1>2, <1>6, <1>7, <1>8, <1>9, ThreadMoves DEF HandlesInv

(* A panic poisons the lock, after which nothing is promised of the        *)
(* session but that its history stays.                                     *)
LEMMA PanicsLockedInv ==
    ASSUME HandlesInv, NEW t \in Threads, PanicsLocked(t)
    PROVE  HandlesInv'
<1>1. /\ mutex = t /\ poisoned' = TRUE /\ config' = config /\ cleared' = cleared
      /\ Told(t, Failure)
  BY DEF PanicsLocked, HandlesInv, Placed
<1>2. PICK s \in ThreadStates :
        /\ thread' = [thread EXCEPT ![t] = s]
        /\ s.at = "told" /\ s.call = thread[t].call
        /\ s.told = tells(entry(thread[t].call.op).answer, Failure)
  BY <1>1, TellsThread, FixedAnswers
<1>3. ~(s.told.value >= 0)
  BY <1>2, Tellings, FixedAnswers
<1>4. Placed(t, s)' /\ Vouched(s)'
  BY <1>2, <1>3 DEF Placed, Vouched
<1> QED BY <1>1, <1>2, <1>4, ThreadMoves

(* Returning to the host, and the evaluations that run without the         *)
(* interpreter.                                                            *)
LEMMA OtherStepsInv ==
    ASSUME HandlesInv, NEW t \in Threads, NEW hooks \in 0..2,
           Leave(t) \/ Evaluate(t, hooks) \/ CallbackReturns(t) \/ Attach(t)
    PROVE  HandlesInv'
<1>1. UNCHANGED <<sessionVars, poisoned, mutex>> /\ thread[t] \in ThreadStates
  BY DEF Leave, Evaluate, CallbackReturns, Attach, HandlesInv
<1>2. CASE Leave(t)
  <2>1. thread' = [thread EXCEPT ![t] = Resting]
    BY <1>2 DEF Leave
  <2>2. PICK s \in ThreadStates : s = Resting
    BY RestingThread
  <2>3. s.at = "idle"
    BY <2>2, RestingThread
  <2>4. Placed(t, s)'
    BY <2>3 DEF Placed
  <2> QED BY <1>1, <2>1, <2>2, <2>3, <2>4, QuietMove
<1>3. CASE Evaluate(t, hooks)
  <2>0. hooks \in Nat
    OBVIOUS
  <2>1. PICK s : s = [Resting EXCEPT !.at = "detached", !.hooks = hooks]
    OBVIOUS
  <2>2. s \in ThreadStates /\ s.at = "detached" /\ s.call = NoCall
    BY <2>0, <2>1, RestingThread DEF ThreadStates
  <2>3. thread' = [thread EXCEPT ![t] = s]
    BY <1>3, <2>1 DEF Evaluate
  <2>4. Placed(t, s)'
    BY <2>2 DEF Placed
  <2> QED BY <1>1, <2>2, <2>3, <2>4, QuietMove
<1>4. CASE CallbackReturns(t)
  <2>1. PICK s \in ThreadStates :
          thread' = [thread EXCEPT ![t] = s] /\ s.at = "detached" /\ s.call = thread[t].call
    BY <1>4, PlacesThread DEF CallbackReturns
  <2>2. s.call = NoCall
    BY <1>4, <2>1 DEF CallbackReturns, HandlesInv, Placed
  <2>3. Placed(t, s)'
    BY <2>1, <2>2 DEF Placed
  <2> QED BY <1>1, <2>1, <2>3, QuietMove
<1>5. CASE Attach(t)
  <2>1. PICK to : to = IF thread[t].at = "locked" THEN thread[t].at
                       ELSE IF thread[t].hooks = 0 THEN "told" ELSE "callback"
    OBVIOUS
  <2>2. PICK n \in Nat : n = IF thread[t].hooks = 0 THEN 0 ELSE thread[t].hooks - 1
    BY <1>1 DEF ThreadStates
  <2>3. \/ thread[t].at = "locked" /\ to = "locked"
        \/ thread[t].at = "detached" /\ to \in {"told", "callback"}
    BY <1>5, <2>1 DEF Attach
  <2>4. PICK s : s = [thread[t] EXCEPT !.at = to, !.hooks = n]
    OBVIOUS
  <2>5. s \in ThreadStates /\ s.at = to /\ s.call = thread[t].call
    BY <1>1, <2>3, <2>4 DEF ThreadStates
  <2>6. thread' = [thread EXCEPT ![t] = s]
    BY <1>5, <2>1, <2>2, <2>4 DEF Attach, HandlesInv
  <2>7. Placed(t, thread[t])
    BY DEF HandlesInv
  <2>8. Placed(t, s)'
    BY <1>1, <2>3, <2>5, <2>7 DEF Placed
  <2>9. s.at # "told" \/ s.call.op \notin {"advance", "safe_offset"}
    BY <2>3, <2>5, <2>7 DEF Placed, NoCall
  <2> QED BY <1>1, <2>5, <2>6, <2>8, <2>9, QuietMove
<1> QED BY <1>2, <1>3, <1>4, <1>5

LEMMA HandlesInitInv ==
    ASSUME NEW language, HandlesInit(language)
    PROVE  HandlesInv
<1>1. P!Init
  BY DEF HandlesInit, Session!Init, P!Init, Session!NewAccepts, P!NewAccepts, Session!Tracks,
         P!Tracks, Session!Open, P!Open
<1>2. P!Inv
  BY <1>1, SessionFacts, P!InitInv
<1>3. config \in Configs /\ poisoned = FALSE
  BY DEF HandlesInit, Session!Init
<1>4. thread = [t \in Threads |-> Resting]
  BY DEF HandlesInit
<1>5. \A t \in Threads : thread[t].at = "idle"
  BY <1>4, RestingThread
<1> QED BY <1>2, <1>3, <1>4, <1>5, RestingThread DEF HandlesInv, Placed, Vouched

(* In C, Python and JavaScript alike, an offset any thread is told it may  *)
(* release through is covered by runes every task of the track cleared,    *)
(* for any threads, calls and session, and whatever panicked before.       *)
THEOREM HandleSafety == HandlesSpec => []OffsetsAreVouched
<1>1. (\E language \in {"ffi", "python", "node"} : HandlesInit(language)) => HandlesInv
  BY HandlesInitInv
<1>2. ASSUME HandlesInv, HandlesStep
      PROVE  HandlesInv'
  <2>1. 0 \in 0..2
    OBVIOUS
  <2> QED
    BY <1>2, <2>1, EnterInv, LockInv, RunsInv, PanicsLockedInv, OtherStepsInv
    DEF HandlesStep, ThreadStep
<1>3. ASSUME HandlesInv, UNCHANGED <<sessionVars, handleVars>>
      PROVE  HandlesInv'
  <2>1. UNCHANGED P!vars
    BY <1>3 DEF sessionVars, P!vars, P!session
  <2>2. ~poisoned => P!Inv'
    BY <1>3, <2>1, SessionFacts, P!NextInv DEF HandlesInv
  <2> QED
    BY <1>3, <2>2 DEF sessionVars, handleVars, HandlesInv, Placed, Vouched, Covered
<1>4. HandlesInv => OffsetsAreVouched
  BY DEF HandlesInv, Vouched, Covered, OffsetsAreVouched
<1> QED BY <1>1, <1>2, <1>3, <1>4, PTL DEF HandlesSpec
-----------------------------------------------------------------------------
(* The evaluation worker: one child at a time, for any number of calls.    *)
(* The invariant says who may hold the slot (PermitInv), that a call with  *)
(* a child, or with one being created, holds it (HolderInv), and how far   *)
(* each task of the call can be (StageInv), which decides who is allowed   *)
(* to release.                                                             *)

PermitInv ==
  /\ \A c, d \in Requests : slot[c] = "held" /\ slot[d] = "held" => c = d
  /\ \A c \in Requests : slot[c] = "held" => permits = 0

HolderInv ==
  \A c \in Requests :
    worker[c] = "alive" \/ spawn[c] \in SpawnPending => slot[c] = "held"

StageInv ==
  \A c \in Requests :
    /\ pc[c] = "idle" => slot[c] = "none" /\ spawn[c] = "none"
    /\ spawn[c] = "none" => worker[c] = "none" /\ cleanup[c] = "none"
    /\ spawn[c] \in SpawnFailed => worker[c] # "alive"
    /\ spawn[c] # "none" => slot[c] # "none"
    /\ pc[c] \in {"working", "closing_worker"} => spawn[c] = "done"
    /\ pc[c] \in {"spawning", "closing_spawn"} => spawn[c] # "none"
    /\ drain[c] # "none" => spawn[c] = "done"
    /\ drain[c] = "ended" => worker[c] = "exited"
    /\ drain[c] = "done" => slot[c] = "released"
    /\ pc[c] = "closing_spawn" => deferred[c] /\ result[c] # "verdict"
    /\ cleanup[c] # "none" => pc[c] \in {"closing_spawn", "done"} /\ result[c] # "verdict"
    /\ pc[c] = "done" /\ result[c] = "verdict" =>
         slot[c] = "released" \/ drain[c] = "ended"

WorkerInv == WorkerTypeOK /\ PermitInv /\ HolderInv /\ StageInv

-----------------------------------------------------------------------------
(* Whoever releases a slot whose child is gone keeps the invariant on the  *)
(* permits and on the holders.                                             *)
LEMMA ReleaseKeeps ==
  ASSUME WorkerInv, NEW c \in Requests, releases(c),
         worker[c] # "alive", spawn[c] \notin SpawnPending, slot[c] # "none"
  PROVE  /\ permits' \in 0 .. 1
         /\ slot' \in [Requests -> {"none", "held", "released"}]
         /\ PermitInv'
         /\ slot'[c] = "released"
         /\ \A d \in Requests : d # c => slot'[d] = slot[d]
BY DEF WorkerInv, WorkerTypeOK, PermitInv, releases

(* No call has been made in the initial state.                             *)
LEMMA WorkerInitInv == WorkerInit => WorkerInv
BY DEF WorkerInit, WorkerInv, WorkerTypeOK, PermitInv, HolderInv, StageInv, SpawnPending, SpawnFailed

(* A call takes the only slot, or fails at once.                           *)
LEMMA EvaluateSnapshotInv ==
  ASSUME WorkerInv, NEW c \in Requests, NEW encodes \in BOOLEAN, EvaluateSnapshot(c, encodes)
  PROVE  WorkerInv'
<1> USE DEF WorkerInv
<1>1. CASE permits = 0 /\ ends(c, "busy") /\ UNCHANGED <<permits, slot, spawn>>
  BY <1>1 DEF EvaluateSnapshot, ends, WorkerTypeOK, PermitInv, HolderInv, StageInv, SpawnPending, SpawnFailed
<1>2. CASE /\ permits > 0
           /\ slot' = [slot EXCEPT ![c] = "released"]
           /\ ends(c, "invalid")
           /\ UNCHANGED <<permits, spawn>>
  BY <1>2 DEF EvaluateSnapshot, ends, WorkerTypeOK, PermitInv, HolderInv, StageInv, SpawnPending, SpawnFailed
<1>3. CASE /\ permits > 0
           /\ permits' = permits - 1
           /\ slot' = [slot EXCEPT ![c] = "held"]
           /\ spawn' = [spawn EXCEPT ![c] = "pending"]
           /\ pc' = [pc EXCEPT ![c] = "spawning"]
           /\ UNCHANGED result
  <2>1. permits = 1 /\ permits' = 0
    BY <1>3 DEF WorkerTypeOK
  <2>2. \A d \in Requests : slot[d] # "held"
    BY <2>1 DEF PermitInv
  <2>3. WorkerTypeOK'
    BY <1>3, <2>1 DEF EvaluateSnapshot, WorkerTypeOK, SpawnPending, SpawnFailed
  <2>4. PermitInv' /\ HolderInv'
    BY <1>3, <2>1, <2>2 DEF EvaluateSnapshot, WorkerTypeOK, PermitInv, HolderInv
  <2>5. StageInv'
    BY <1>3 DEF EvaluateSnapshot, WorkerTypeOK, StageInv, SpawnPending, SpawnFailed
  <2> QED
    BY <2>3, <2>4, <2>5
<1> QED
  BY <1>1, <1>2, <1>3 DEF EvaluateSnapshot

(* The creation of the child, and its end.                                 *)
LEMMA SpawnInv ==
  ASSUME WorkerInv, NEW c \in Requests,
         \/ SpawnForks(c)
         \/ \E how \in {"done"} \cup SpawnFailed : SpawnEnds(c, how)
         \/ WorkerExits(c)
         \/ Spawned(c)
  PROVE  WorkerInv'
<1> USE DEF WorkerInv
<1>1. CASE SpawnForks(c)
  BY <1>1 DEF SpawnForks, WorkerTypeOK, PermitInv, HolderInv, StageInv, SpawnPending, SpawnFailed
<1>2. ASSUME NEW how \in {"done"} \cup SpawnFailed, SpawnEnds(c, how)
      PROVE  WorkerInv'
  BY <1>2 DEF SpawnEnds, WorkerTypeOK, PermitInv, HolderInv, StageInv, SpawnPending, SpawnFailed
<1>3. CASE WorkerExits(c)
  BY <1>3 DEF WorkerExits, WorkerTypeOK, PermitInv, HolderInv, StageInv, SpawnPending, SpawnFailed
<1>4. CASE Spawned(c)
  BY <1>4 DEF Spawned, WorkerTypeOK, PermitInv, HolderInv, StageInv, SpawnPending, SpawnFailed
<1> QED
  BY <1>1, <1>2, <1>3, <1>4

(* Steps of the call and of its cleanup that leave the slot alone.         *)
LEMMA HandOverInv ==
  ASSUME WorkerInv, NEW c \in Requests,
         \/ \E why \in {"cancelled", "unavailable"} : AbandonSpawn(c, why)
         \/ \E why \in {"verdict", "cancelled", "unavailable"} : WorkEnds(c, why)
         \/ CleanupFindsChild(c)
         \/ CleanupEnds(c)
         \/ CloseWorkerEnds(c)
         \/ CancelledWhileClosing(c)
         \/ CloseSpawnEnds(c)
         \/ DrainEnds(c)
         \/ DrainLost(c)
  PROVE  WorkerInv'
<1> USE DEF WorkerInv, SpawnPending, SpawnFailed
<1>1. ASSUME NEW why \in {"cancelled", "unavailable"}, AbandonSpawn(c, why)
      PROVE  WorkerInv'
  BY <1>1 DEF AbandonSpawn, WorkerTypeOK, PermitInv, HolderInv, StageInv
<1>2. ASSUME NEW why \in {"verdict", "cancelled", "unavailable"}, WorkEnds(c, why)
      PROVE  WorkerInv'
  <2>1. CASE kill_succeeds(c) /\ pc' = [pc EXCEPT ![c] = "closing_worker"]
             /\ result' = [result EXCEPT ![c] = why]
    <3>1. WorkerTypeOK'
      BY <1>2, <2>1 DEF WorkEnds, begins_drain, kill_succeeds, WorkerTypeOK
    <3>2. PermitInv' /\ HolderInv'
      BY <1>2, <2>1 DEF WorkEnds, PermitInv, HolderInv
    <3>3. StageInv'
      BY <1>2, <2>1 DEF WorkEnds, begins_drain, WorkerTypeOK, StageInv
    <3> QED
      BY <3>1, <3>2, <3>3
  <2>2. CASE kill_fails(c) /\ ends(c, "close_failed")
    <3>1. WorkerTypeOK'
      BY <1>2, <2>2 DEF WorkEnds, begins_drain, kill_fails, ends, WorkerTypeOK
    <3>2. PermitInv' /\ HolderInv'
      BY <1>2, <2>2 DEF WorkEnds, PermitInv, HolderInv
    <3>3. StageInv'
      BY <1>2, <2>2 DEF WorkEnds, begins_drain, ends, WorkerTypeOK, StageInv
    <3> QED
      BY <3>1, <3>2, <3>3
  <2> QED
    BY <1>2, <2>1, <2>2 DEF WorkEnds
<1>3. CASE CleanupFindsChild(c)
  <2>1. WorkerTypeOK'
    BY <1>3, ZenonT(30) DEF CleanupFindsChild, begins_drain, kill_succeeds, kill_fails, WorkerTypeOK
  <2>2. PermitInv' /\ HolderInv'
    BY <1>3 DEF CleanupFindsChild, PermitInv, HolderInv
  <2>3. StageInv'
    BY <1>3 DEF CleanupFindsChild, begins_drain, WorkerTypeOK, StageInv
  <2> QED
    BY <2>1, <2>2, <2>3
<1>4. CASE CleanupEnds(c)
  BY <1>4 DEF CleanupEnds, WorkerTypeOK, PermitInv, HolderInv, StageInv
<1>5. CASE CloseWorkerEnds(c)
  BY <1>5 DEF CloseWorkerEnds, ends, DrainOver, WorkerTypeOK, PermitInv, HolderInv, StageInv
<1>6. CASE CancelledWhileClosing(c)
  BY <1>6 DEF CancelledWhileClosing, WorkerTypeOK, PermitInv, HolderInv, StageInv
<1>7. CASE CloseSpawnEnds(c)
  <2>1. deferred[c] /\ UNCHANGED <<slot, permits>>
    BY <1>7 DEF CloseSpawnEnds, ends_and_releases, StageInv
  <2> QED
    BY <1>7, <2>1 DEF CloseSpawnEnds, ends_and_releases, ends, WorkerTypeOK, PermitInv,
       HolderInv, StageInv
<1>8. CASE DrainEnds(c)
  BY <1>8 DEF DrainEnds, WorkerTypeOK, PermitInv, HolderInv, StageInv
<1>9. CASE DrainLost(c)
  BY <1>9 DEF DrainLost, WorkerTypeOK, PermitInv, HolderInv, StageInv
<1> QED
  BY <1>1, <1>2, <1>3, <1>4, <1>5, <1>6, <1>7, <1>8, <1>9

(* The three places that release the slot.                                 *)
LEMMA ReleasingInv ==
  ASSUME WorkerInv, NEW c \in Requests,
         SpawnCrashes(c) \/ CleanupFindsNone(c) \/ DrainCallback(c)
  PROVE  WorkerInv'
<1> USE DEF SpawnPending, SpawnFailed
<1>1. CASE SpawnCrashes(c)
  <2>1. worker[c] # "alive" /\ spawn[c] \notin SpawnPending /\ slot[c] # "none"
    BY <1>1 DEF SpawnCrashes, WorkerInv, StageInv
  <2>2. CASE releases(c)
    BY <1>1, <2>1, <2>2, ReleaseKeeps DEF SpawnCrashes, ends_and_releases, ends, WorkerInv,
       WorkerTypeOK, HolderInv, StageInv
  <2>3. CASE UNCHANGED <<slot, permits>>
    BY <1>1, <2>3 DEF SpawnCrashes, ends_and_releases, ends, WorkerInv, WorkerTypeOK, PermitInv,
       HolderInv, StageInv
  <2> QED
    BY <1>1, <2>2, <2>3 DEF SpawnCrashes, ends_and_releases
<1>2. CASE CleanupFindsNone(c)
  <2>1. worker[c] # "alive" /\ spawn[c] \notin SpawnPending /\ slot[c] # "none"
    BY <1>2 DEF CleanupFindsNone, WorkerInv, StageInv
  <2> QED
    BY <1>2, <2>1, ReleaseKeeps DEF CleanupFindsNone, WorkerInv, WorkerTypeOK, HolderInv, StageInv
<1>3. CASE DrainCallback(c)
  <2>1. spawn[c] \notin SpawnPending /\ slot[c] # "none"
    BY <1>3 DEF DrainCallback, WorkerInv, StageInv
  <2>2. CASE worker[c] = "exited"
    <3>1. releases(c)
      BY <1>3, <2>2 DEF DrainCallback, release_after
    <3> QED
      BY <1>3, <2>1, <2>2, <3>1, ReleaseKeeps DEF DrainCallback, WorkerInv, WorkerTypeOK, HolderInv,
         StageInv
  <2>3. CASE worker[c] # "exited"
    <3>1. drain[c] = "lost"
      BY <1>3, <2>3 DEF DrainCallback, WorkerInv, StageInv
    <3> QED
      BY <1>3, <2>3, <3>1 DEF DrainCallback, release_after, WorkerInv, WorkerTypeOK, PermitInv,
         HolderInv, StageInv
  <2> QED
    BY <2>2, <2>3
<1> QED
  BY <1>1, <1>2, <1>3

(* Every step of every call keeps the invariant.                           *)
LEMMA WorkerNextInv == WorkerInv /\ [WorkerStep]_workerVars => WorkerInv'
<1> SUFFICES ASSUME WorkerInv, [WorkerStep]_workerVars PROVE WorkerInv'
  OBVIOUS
<1>1. CASE WorkerStep
  BY <1>1, EvaluateSnapshotInv, SpawnInv, HandOverInv, ReleasingInv DEF WorkerStep
<1>2. CASE UNCHANGED workerVars
  BY <1>2 DEF workerVars, WorkerInv, WorkerTypeOK, PermitInv, HolderInv, StageInv
<1> QED
  BY <1>1, <1>2

(* The inductive invariant holds in every state.                           *)
THEOREM WorkerInvariance == WorkerSpec => []WorkerInv
<1> QED
  BY WorkerInitInv, WorkerNextInv, PTL DEF WorkerSpec

(* The semaphore never counts below zero nor above one.                    *)
THEOREM PermitCorrect == WorkerSpec => []WorkerTypeOK
<1>1. WorkerInv => WorkerTypeOK
  BY DEF WorkerInv
<1> QED
  BY <1>1, WorkerInvariance, PTL

(* evaluate_policy_snapshot, "One worker is admitted process-wide".        *)
THEOREM MutualExclusion == WorkerSpec => []OneWorker
<1>1. WorkerInv => OneWorker
  BY DEF WorkerInv, OneWorker, PermitInv, HolderInv
<1> QED
  BY <1>1, WorkerInvariance, PTL

(* evaluate_policy_snapshot, "kills and drains the worker before its slot  *)
(* is released".                                                           *)
THEOREM ReleaseAfterExit == WorkerSpec => []ReleasedMeansGone
<1>1. WorkerInv => ReleasedMeansGone
  BY DEF WorkerInv, ReleasedMeansGone, HolderInv
<1> QED
  BY <1>1, WorkerInvariance, PTL

(* A verdict is returned only after the child's drain, so that its slot is *)
(* free or about to be.                                                    *)
THEOREM VerdictAfterDrain == WorkerSpec => []VerdictFreesSlot
<1>1. WorkerInv => VerdictFreesSlot
  BY DEF WorkerInv, VerdictFreesSlot, StageInv
<1> QED
  BY <1>1, WorkerInvariance, PTL

-----------------------------------------------------------------------------
(* What the bindings answer (BindingAnswers).  All entry points read caps  *)
(* through limits_from_json, and what they do with a document is the same  *)
(* function of the engine; the proofs go by the operation asked for.       *)

\* Caps that were accepted are the ones asked for.
Named(v) == {f \in DOMAIN v.fields : v.fields[f].kind # "null"}
Honoured(v, limits) ==
    /\ Named(v) \subseteq LIMIT_FIELDS
    /\ \A f \in Named(v) : v.fields[f].kind = "number" /\ limits[f] = v.fields[f].n

(* A mapping of caps is read field by field or refused.                    *)
LEMMA CapsAreRead ==
    ASSUME NEW v, NEW names \in SUBSET STRING, v.fields \in [names -> FieldValues], v.form = "object",
           limits_from_json(v).ok
    PROVE  Honoured(v, limits_from_json(v).limits)
<1>1. /\ DOMAIN v.fields \subseteq LIMIT_FIELDS
      /\ \A f \in DOMAIN v.fields : v.fields[f].kind # "other"
      /\ limits_from_json(v).limits =
           [f \in LIMIT_FIELDS |-> IF f \in DOMAIN v.fields /\ v.fields[f].kind = "number"
                                   THEN v.fields[f].n ELSE DefaultLimit]
  BY DEF limits_from_json, Refused, Accepted
<1>2. \A f \in DOMAIN v.fields : v.fields[f].kind \in {"null", "other", "number"}
  <2>1. \A x \in FieldValues : x.kind \in {"null", "other", "number"}
    BY DEF FieldValues, NullField, OtherField, Number
  <2> QED BY <2>1
<1> QED BY <1>1, <1>2 DEF Honoured, Named

(* The three readers agree but on a blank text.                            *)
LEMMA ReadersAgree ==
    ASSUME NEW v, v.form # "blank"
    PROVE  parse_limits(v) = read_manifest_limits(v) /\ resolve_limits(v) = read_manifest_limits(v)
BY DEF parse_limits, read_manifest_limits, resolve_limits

(* A document the engine accepts fits the cap on its bytes.                *)
LEMMA ParsedFits ==
    ASSUME NEW doc, NEW limits
    PROVE  /\ parse_yaml_str_with_limits(doc, limits) = "ok" =>
                ~(doc.size > limits["max_merged_manifest_bytes"])
           /\ parse_yaml_str_with_limits(doc, limits) \in {"ok", "limit", "invalid"}
<1>1. CASE doc.size > limits["max_merged_manifest_bytes"]
  <2>1. parse_yaml_str_with_limits(doc, limits) \in {"limit", "invalid"}
    BY <1>1, Zenon DEF parse_yaml_str_with_limits
  <2> QED BY <2>1
<1>2. CASE ~(doc.size > limits["max_merged_manifest_bytes"])
  <2>1. parse_yaml_str_with_limits(doc, limits) \in {"ok", "limit", "invalid"}
    BY <1>2, Zenon DEF parse_yaml_str_with_limits
  <2> QED BY <1>2, <2>1
<1> QED BY <1>1, <1>2

LEMMA JudgedFits ==
    ASSUME NEW doc, NEW limits, from_yaml_str_with_limits(doc, limits) = "ok"
    PROVE  ~(doc.size > limits["max_merged_manifest_bytes"])
BY ParsedFits DEF from_yaml_str_with_limits

LEMMA LoadedFits ==
    ASSUME NEW doc, NEW limits, from_path_with_limits(doc, limits) = "ok"
    PROVE  /\ ~(doc.size > limits["max_merged_manifest_bytes"])
           /\ ~(doc.composed > limits["max_merged_manifest_bytes"])
           /\ doc.chain < limits["max_extends_depth"]
<1> DEFINE parsed == parse_yaml_str_with_limits(doc, limits)
<1>1. doc.exists
  <2> SUFFICES ASSUME ~doc.exists PROVE FALSE
    OBVIOUS
  <2>1. from_path_with_limits(doc, limits) = "unreadable"
    BY Zenon DEF from_path_with_limits
  <2> QED BY <2>1
<1>2. limits["max_extends_depth"] # 0
  <2> SUFFICES ASSUME limits["max_extends_depth"] = 0 PROVE FALSE
    OBVIOUS
  <2>1. from_path_with_limits(doc, limits) = "limit"
    BY <1>1, Zenon DEF from_path_with_limits
  <2> QED BY <2>1
<1>3. parsed = "ok"
  <2> SUFFICES ASSUME parsed # "ok" PROVE FALSE
    OBVIOUS
  <2>1. from_path_with_limits(doc, limits) = parsed
    BY <1>1, <1>2, Zenon DEF from_path_with_limits
  <2> QED BY <2>1
<1>4. ~(doc.composed > limits["max_merged_manifest_bytes"]) /\ doc.chain < limits["max_extends_depth"]
  <2> SUFFICES ASSUME \/ ~(doc.chain < limits["max_extends_depth"])
                      \/ doc.composed > limits["max_merged_manifest_bytes"]
               PROVE  FALSE
    OBVIOUS
  <2>1. from_path_with_limits(doc, limits) = "limit"
    BY <1>1, <1>2, <1>3, Zenon DEF from_path_with_limits
  <2> QED BY <2>1
<1> QED BY <1>3, <1>4, ParsedFits

LEMMA MergedFits ==
    ASSUME NEW docs \in Seq(Documents), NEW composition, NEW limits,
           from_yaml_chain_with_limits(docs, composition, limits) = "ok"
    PROVE  /\ \A i \in DOMAIN docs : ~(docs[i].size > limits["max_merged_manifest_bytes"])
           /\ ~(composition.bytes > limits["max_merged_manifest_bytes"])
<1> DEFINE parsed == [i \in DOMAIN docs |-> parse_yaml_str_with_limits(docs[i], limits)]
           bad == {i \in DOMAIN docs : parsed[i] # "ok"}
           first == CHOOSE i \in bad : \A j \in bad : i <= j
<1>1. docs # <<>>
  <2> SUFFICES ASSUME docs = <<>> PROVE FALSE
    OBVIOUS
  <2>1. from_yaml_chain_with_limits(docs, composition, limits) = "invalid"
    BY Zenon DEF from_yaml_chain_with_limits
  <2> QED BY <2>1
<1>2. bad = {}
  <2> SUFFICES ASSUME bad # {} PROVE FALSE
    OBVIOUS
  <2>1. from_yaml_chain_with_limits(docs, composition, limits) = parsed[first]
    BY <1>1, Zenon DEF from_yaml_chain_with_limits
  <2>2. first \in bad
    <3>1. bad \in SUBSET Nat
      OBVIOUS
    <3>2. first = P!Least(bad)
      BY Zenon DEF P!Least
    <3> HIDE DEF bad
    <3> QED BY <3>1, <3>2, SessionFacts, P!LeastIsLeast
  <2> QED BY <2>1, <2>2
<1>3. \A i \in DOMAIN docs : ~(docs[i].size > limits["max_merged_manifest_bytes"])
  <2> SUFFICES ASSUME NEW i \in DOMAIN docs PROVE parse_yaml_str_with_limits(docs[i], limits) = "ok"
    BY ParsedFits
  <2> QED BY <1>2
<1>4. ~(composition.bytes > limits["max_merged_manifest_bytes"])
  <2> SUFFICES ASSUME composition.bytes > limits["max_merged_manifest_bytes"] PROVE FALSE
    OBVIOUS
  <2>1. from_yaml_chain_with_limits(docs, composition, limits) \in {"invalid", "limit"}
    BY <1>1, <1>2, Zenon DEF from_yaml_chain_with_limits
  <2> QED BY <2>1
<1> QED BY <1>3, <1>4

(* A failed call is no answer: what an argument's reading lets through.    *)
LEMMA ReplyKinds ==
    /\ \A k : Reply(k).kind = k /\ Reply(k).session = NoSession
    /\ Failed.kind = "failed" /\ Failed.session = NoSession
    /\ \A m, d, r : /\ Built(m, d, r).kind = "built" /\ Built(m, d, r).session = NoSession
                    /\ Built(m, d, r).bounds = [manifest |-> m, dispatchers |-> d, runtime |-> r]
BY DEF Reply, Failed, Built

LEMMA JudgementKind ==
    ASSUME NEW outcome
    PROVE  /\ Judgement(outcome).kind =
                IF outcome = "ok" THEN "valid" ELSE IF outcome = "invalid" THEN "invalid" ELSE "failed"
           /\ Judgement(outcome).session = NoSession
<1>1. CASE outcome = "ok"
  <2>1. outcome # "invalid" BY <1>1
  <2>2. Judgement(outcome) = Reply("valid")
    BY <1>1, <2>1, Zenon DEF Judgement
  <2> QED BY <1>1, <2>2, ReplyKinds
<1>2. CASE outcome = "invalid"
  <2>1. outcome # "ok" BY <1>2
  <2>2. Judgement(outcome) = Reply("invalid")
    BY <1>2, <2>1, Zenon DEF Judgement
  <2> QED BY <1>2, <2>2, ReplyKinds
<1>3. CASE outcome # "ok" /\ outcome # "invalid"
  <2>2. Judgement(outcome) = Reply("failed")
    BY <1>3, Zenon DEF Judgement
  <2> QED BY <1>3, <2>2, ReplyKinds
<1> QED BY <1>1, <1>2, <1>3

LEMMA ValueKind ==
    ASSUME NEW outcome
    PROVE  /\ Value(outcome).kind = IF outcome = "ok" THEN "valid" ELSE "failed"
           /\ Value(outcome).session = NoSession
BY ReplyKinds DEF Value

(* A verdict on one document, whichever way the fragment is judged.        *)
TextVerdict(doc, limits, fragment) ==
    CASE parse_yaml_str_with_limits(doc, limits) # "ok" ->
           Judgement(parse_yaml_str_with_limits(doc, limits))
      [] parse_yaml_str_with_limits(doc, limits) = "ok" /\ doc.chain > 0 -> fragment
      [] parse_yaml_str_with_limits(doc, limits) = "ok" /\ doc.chain = 0 -> Judgement(validate(doc))
LEMMA VerdictFits ==
    ASSUME NEW doc, NEW limits, NEW fragment,
           TextVerdict(doc, limits, fragment).kind \in {"valid", "built"}
    PROVE  ~(doc.size > limits["max_merged_manifest_bytes"])
<1> SUFFICES ASSUME parse_yaml_str_with_limits(doc, limits) # "ok" PROVE FALSE
  BY ParsedFits
<1>1. TextVerdict(doc, limits, fragment) = Judgement(parse_yaml_str_with_limits(doc, limits))
  BY Zenon DEF TextVerdict
<1> QED BY <1>1, JudgementKind

\* The caps as every reader reads a mapping, and a question that is within them.
Read(q) == limits_from_json(q.limits)
InCap(q) ==
    /\ \A n \in Bytes(q) : ~(n > Read(q).limits["max_merged_manifest_bytes"])
    /\ q.op \in FromFiles => q.doc.chain < Read(q).limits["max_extends_depth"]

(* What the engine's readings bound is all that the caps speak of.         *)
LEMMA TextInCap ==
    ASSUME NEW q, q.op \in {"validate", "diagnostics", "parse"},
           ~(q.doc.size > Read(q).limits["max_merged_manifest_bytes"])
    PROVE  InCap(q)
BY DEF InCap, Bytes, FromFiles

LEMMA FileInCap ==
    ASSUME NEW q, q.op \in FromFiles, from_path_with_limits(q.doc, Read(q).limits) = "ok"
    PROVE  InCap(q)
<1>1. Bytes(q) = {q.doc.size, q.doc.composed}
  BY DEF Bytes, FromFiles
<1> QED BY <1>1, LoadedFits DEF InCap

LEMMA MergeInCap ==
    ASSUME NEW q, IsQuestion(q), q.op = "merge",
           from_yaml_chain_with_limits(q.docs, q.composition, Read(q).limits) = "ok"
    PROVE  InCap(q)
<1>1. Bytes(q) = {q.docs[i].size : i \in DOMAIN q.docs} \cup {q.composition.bytes}
  BY DEF Bytes
<1>2. /\ \A i \in DOMAIN q.docs : ~(q.docs[i].size > Read(q).limits["max_merged_manifest_bytes"])
      /\ ~(q.composition.bytes > Read(q).limits["max_merged_manifest_bytes"])
  BY MergedFits DEF IsQuestion
<1> QED BY <1>1, <1>2 DEF InCap, FromFiles

(* An answer that keeps the caps that were read.                           *)
Keeps(q, l, reply) ==
    reply.kind \in {"valid", "built"} =>
      /\ Read(q).ok
      /\ q.op # "activate_memory" => InCap(q)
      /\ \A s \in Stages : <<l, s>> \in Bounded(q.op) => reply.bounds[s] = Read(q).limits

LEMMA UnboundedOps ==
    ASSUME NEW op, op \notin {"new", "new_hooks", "activate", "activate_memory"}
    PROVE  Bounded(op) = {}
BY Zenon DEF Bounded

LEMMA MemoryBounds == Bounded("activate_memory") = {"python"} \X {"dispatchers", "runtime"}
BY Zenon DEF Bounded

(* Whatever passes both arguments was accepted by both.                    *)
LEMMA ThroughArguments ==
    ASSUME NEW read, NEW doc, NEW reply
    PROVE  /\ IfRead(read, reply).kind \in {"valid", "built"} =>
                read.ok /\ IfRead(read, reply) = reply
           /\ IfText(doc, reply).kind \in {"valid", "built"} => IfText(doc, reply) = reply
BY ReplyKinds DEF IfRead, IfText

LEMMA ReadersRead ==
    ASSUME NEW v, v.form = "object"
    PROVE  /\ read_manifest_limits(v) = limits_from_json(v)
           /\ parse_limits(v) = limits_from_json(v)
           /\ resolve_limits(v) = limits_from_json(v)
BY DEF read_manifest_limits, parse_limits, resolve_limits

(* An entry point keeps the caps if what it does with its arguments does.  *)
LEMMA ArgumentsKeep ==
    ASSUME NEW q, NEW l, NEW body, NEW reply,
           \/ reply = IfRead(Read(q), body)
           \/ reply = IfText(q.doc, IfRead(Read(q), body))
           \/ reply = IfRead(Read(q), IfText(q.doc, body)),
           body.kind \in {"valid", "built"} =>
             /\ q.op # "activate_memory" => InCap(q)
             /\ \A s \in Stages : <<l, s>> \in Bounded(q.op) => body.bounds[s] = Read(q).limits
    PROVE  Keeps(q, l, reply)
<1> SUFFICES ASSUME reply.kind \in {"valid", "built"}
             PROVE  Read(q).ok /\ reply = body
  BY DEF Keeps
<1>1. CASE reply = IfRead(Read(q), body)
  BY <1>1, ThroughArguments
<1>2. CASE reply = IfText(q.doc, IfRead(Read(q), body))
  BY <1>2, ThroughArguments
<1>3. CASE reply = IfRead(Read(q), IfText(q.doc, body))
  <2>1. Read(q).ok /\ reply = IfText(q.doc, body)
    BY <1>3, ThroughArguments
  <2> QED BY <2>1, ThroughArguments
<1> QED BY <1>1, <1>2, <1>3

(* The answers that say a document is valid.                               *)
LEMMA VerdictKeeps ==
    ASSUME NEW q, NEW l, NEW reply, NEW fragment, q.op \in {"validate", "diagnostics"},
           \/ reply = IfText(q.doc, IfRead(Read(q), TextVerdict(q.doc, Read(q).limits, fragment)))
           \/ reply = IfRead(Read(q), IfText(q.doc, TextVerdict(q.doc, Read(q).limits, fragment)))
    PROVE  Keeps(q, l, reply)
<1> DEFINE body == TextVerdict(q.doc, Read(q).limits, fragment)
<1>1. body.kind \in {"valid", "built"} => InCap(q)
  BY VerdictFits, TextInCap
<1>2. Bounded(q.op) = {}
  BY UnboundedOps
<1> HIDE DEF body
<1> QED BY <1>1, <1>2, ArgumentsKeep DEF body

LEMMA OutcomeKeeps ==
    ASSUME NEW q, NEW l, NEW reply, NEW body,
           q.op \in {"validate_file", "parse", "merge"},
           body.kind \in {"valid", "built"} => InCap(q),
           reply = IfText(q.doc, IfRead(Read(q), body)) \/ reply = IfRead(Read(q), body)
    PROVE  Keeps(q, l, reply)
<1>2. Bounded(q.op) = {}
  BY UnboundedOps
<1> QED BY <1>2, ArgumentsKeep

(* The constructors, which hand the caps to every stage.                   *)
LEMMA BuiltKeeps ==
    ASSUME NEW q, NEW l, NEW reply, NEW body, q.op \in {"new", "new_hooks", "activate"},
           \/ body = Failed
           \/ /\ from_path_with_limits(q.doc, Read(q).limits) = "ok"
              /\ body = Built(Read(q).limits, Read(q).limits, Read(q).limits),
           reply = IfText(q.doc, IfRead(Read(q), body))
    PROVE  Keeps(q, l, reply)
<1>1. ASSUME body.kind \in {"valid", "built"}
      PROVE  InCap(q) /\ \A s \in Stages : body.bounds[s] = Read(q).limits
  <2>1. /\ from_path_with_limits(q.doc, Read(q).limits) = "ok"
        /\ body = Built(Read(q).limits, Read(q).limits, Read(q).limits)
    BY <1>1, ReplyKinds
  <2>2. InCap(q)
    BY <2>1, FileInCap DEF FromFiles
  <2>3. body.bounds = [manifest |-> Read(q).limits, dispatchers |-> Read(q).limits,
                       runtime |-> Read(q).limits]
    BY <2>1, ReplyKinds
  <2>4. \A s \in Stages : body.bounds[s] = Read(q).limits
    BY <2>3 DEF Stages
  <2> QED BY <2>2, <2>4
<1> QED BY <1>1, ArgumentsKeep

(* The entry points that take caps, by language.                           *)
LEMMA FfiKeeps ==
    ASSUME NEW q, IsQuestion(q), q.limits.form = "object",
           q.op \in {"validate", "parse", "merge", "new_hooks"}
    PROVE  Keeps(q, "ffi", ffi_answer(q))
<1>0. read_manifest_limits(q.limits) = Read(q) /\ parse_limits(q.limits) = Read(q)
  BY ReadersRead DEF Read
<1>1. CASE q.op = "validate"
  <2>1. ffi_answer(q) = acs_validate_manifest_with_limits(q)
    BY <1>1, Zenon DEF ffi_answer
  <2>2. acs_validate_manifest_with_limits(q) =
          IfRead(Read(q), IfText(q.doc, TextVerdict(q.doc, Read(q).limits, Failed)))
    BY <1>0, Zenon DEF acs_validate_manifest_with_limits, TextVerdict
  <2> QED BY <1>1, <2>1, <2>2, VerdictKeeps
<1>2. CASE q.op = "parse"
  <2> DEFINE body == Value(from_yaml_str_with_limits(q.doc, Read(q).limits))
  <2>1. ffi_answer(q) = acs_manifest_parse_with_limits(q)
    BY <1>2, Zenon DEF ffi_answer
  <2>2. acs_manifest_parse_with_limits(q) = IfText(q.doc, IfRead(Read(q), body))
    BY <1>0, Zenon DEF acs_manifest_parse_with_limits
  <2>3. body.kind \in {"valid", "built"} => InCap(q)
    BY <1>2, ValueKind, JudgedFits, TextInCap
  <2> HIDE DEF body
  <2> QED BY <1>2, <2>1, <2>2, <2>3, OutcomeKeeps
<1>3. CASE q.op = "merge"
  <2> DEFINE body == Value(from_yaml_chain_with_limits(q.docs, q.composition, Read(q).limits))
  <2>1. ffi_answer(q) = acs_manifest_merge_with_limits(q)
    BY <1>3, Zenon DEF ffi_answer
  <2>2. CASE q.docs = <<>>
    BY <2>1, <2>2, ReplyKinds DEF acs_manifest_merge_with_limits, Keeps
  <2>3. CASE q.docs # <<>>
    <3>1. acs_manifest_merge_with_limits(q) = IfRead(Read(q), body)
      BY <1>0, <2>3, Zenon DEF acs_manifest_merge_with_limits
    <3>2. body.kind \in {"valid", "built"} => InCap(q)
      BY <1>3, ValueKind, MergeInCap
    <3> HIDE DEF body
    <3> QED BY <1>3, <2>1, <3>1, <3>2, OutcomeKeeps
  <2> QED BY <2>2, <2>3
<1>4. CASE q.op = "new_hooks"
  <2> DEFINE body == IF from_path_with_limits(q.doc, Read(q).limits) = "ok"
                     THEN Built(Read(q).limits, Read(q).limits, Read(q).limits) ELSE Failed
  <2>1. ffi_answer(q) = acs_interceptor_new_with_hooks(q)
    BY <1>4, Zenon DEF ffi_answer
  <2>2. acs_interceptor_new_with_hooks(q) = IfText(q.doc, IfRead(Read(q), body))
    BY <1>0, Zenon DEF acs_interceptor_new_with_hooks
  <2>3. \/ body = Failed
        \/ /\ from_path_with_limits(q.doc, Read(q).limits) = "ok"
           /\ body = Built(Read(q).limits, Read(q).limits, Read(q).limits)
    OBVIOUS
  <2> HIDE DEF body
  <2> QED BY <1>4, <2>1, <2>2, <2>3, BuiltKeeps
<1> QED BY <1>1, <1>2, <1>3, <1>4

LEMMA PythonKeeps ==
    ASSUME NEW q, IsQuestion(q), q.limits.form = "object",
           q.op \in {"validate", "validate_file", "parse", "merge", "diagnostics", "new", "new_hooks",
                    "activate", "activate_memory"}
    PROVE  Keeps(q, "python", python_answer(q))
<1>0. resolve_limits(q.limits) = Read(q)
  BY ReadersRead DEF Read
<1>1. CASE q.op = "validate"
  <2>1. python_answer(q) = python_validate_manifest(q)
    BY <1>1, Zenon DEF python_answer
  <2>2. python_validate_manifest(q) =
          IfText(q.doc, IfRead(Read(q), TextVerdict(q.doc, Read(q).limits, Failed)))
    BY <1>0, Zenon DEF python_validate_manifest, TextVerdict
  <2> QED BY <1>1, <2>1, <2>2, VerdictKeeps
<1>2. CASE q.op = "validate_file"
  <2> DEFINE body == Judgement(from_path_with_limits(q.doc, Read(q).limits))
  <2>1. python_answer(q) = python_validate_manifest_file(q)
    BY <1>2, Zenon DEF python_answer
  <2>2. python_validate_manifest_file(q) = IfText(q.doc, IfRead(Read(q), body))
    BY <1>0, Zenon DEF python_validate_manifest_file
  <2>3. body.kind \in {"valid", "built"} => InCap(q)
    BY <1>2, JudgementKind, FileInCap DEF FromFiles
  <2> HIDE DEF body
  <2> QED BY <1>2, <2>1, <2>2, <2>3, OutcomeKeeps
<1>3. CASE q.op = "parse"
  <2> DEFINE body == Judgement(parse_yaml_str_with_limits(q.doc, Read(q).limits))
  <2>1. python_answer(q) = python_parse_manifest(q)
    BY <1>3, Zenon DEF python_answer
  <2>2. python_parse_manifest(q) = IfText(q.doc, IfRead(Read(q), body))
    BY <1>0, Zenon DEF python_parse_manifest
  <2>3. body.kind \in {"valid", "built"} => InCap(q)
    BY <1>3, JudgementKind, ParsedFits, TextInCap
  <2> HIDE DEF body
  <2> QED BY <1>3, <2>1, <2>2, <2>3, OutcomeKeeps
<1>4. CASE q.op = "merge"
  <2> DEFINE body == Judgement(from_yaml_chain_with_limits(q.docs, q.composition, Read(q).limits))
  <2>1. python_answer(q) = python_merge_manifests(q)
    BY <1>4, Zenon DEF python_answer
  <2>2. python_merge_manifests(q) = IfRead(Read(q), body)
    BY <1>0, Zenon DEF python_merge_manifests
  <2>3. body.kind \in {"valid", "built"} => InCap(q)
    BY <1>4, JudgementKind, MergeInCap
  <2> HIDE DEF body
  <2> QED BY <1>4, <2>1, <2>2, <2>3, OutcomeKeeps
<1>5. CASE q.op = "diagnostics"
  <2>1. python_answer(q) = validate_manifest_diagnostics(q)
    BY <1>5, Zenon DEF python_answer
  <2>2. validate_manifest_diagnostics(q) =
          IfText(q.doc, IfRead(Read(q), TextVerdict(q.doc, Read(q).limits, Reply("invalid"))))
    BY <1>0, Zenon DEF validate_manifest_diagnostics, TextVerdict
  <2> QED BY <1>5, <2>1, <2>2, VerdictKeeps
<1>6. CASE q.op \in {"new", "new_hooks"}
  <2> DEFINE body == IF from_path_with_limits(q.doc, Read(q).limits) = "ok"
                     THEN Built(Read(q).limits, Read(q).limits, Read(q).limits) ELSE Failed
  <2>1. python_answer(q) = python_interceptor_new(q)
    BY <1>6, Zenon DEF python_answer
  <2>2. python_interceptor_new(q) = IfText(q.doc, IfRead(Read(q), body))
    BY <1>0, Zenon DEF python_interceptor_new
  <2>3. \/ body = Failed
        \/ /\ from_path_with_limits(q.doc, Read(q).limits) = "ok"
           /\ body = Built(Read(q).limits, Read(q).limits, Read(q).limits)
    OBVIOUS
  <2> HIDE DEF body
  <2> QED BY <1>6, <2>1, <2>2, <2>3, BuiltKeeps
<1>7. CASE q.op = "activate"
  <2> DEFINE body == IF from_path_with_limits(q.doc, Read(q).limits) = "ok" /\ q.doc.loads
                     THEN Built(Read(q).limits, Read(q).limits, Read(q).limits) ELSE Failed
  <2>1. python_answer(q) = python_policy_activate(q)
    BY <1>7, Zenon DEF python_answer
  <2>2. python_policy_activate(q) = IfText(q.doc, IfRead(Read(q), body))
    BY <1>0, Zenon DEF python_policy_activate
  <2>3. \/ body = Failed
        \/ /\ from_path_with_limits(q.doc, Read(q).limits) = "ok"
           /\ body = Built(Read(q).limits, Read(q).limits, Read(q).limits)
    OBVIOUS
  <2> HIDE DEF body
  <2> QED BY <1>7, <2>1, <2>2, <2>3, BuiltKeeps
<1>8. CASE q.op = "activate_memory"
  <2> DEFINE body == IF activate_from_memory(q.doc, "binding") = "ok"
                     THEN Built(Limits_default, Read(q).limits, Read(q).limits) ELSE Failed
  <2>1. python_answer(q) = python_policy_activate_from_memory(q)
    BY <1>8, Zenon DEF python_answer
  <2>2. python_policy_activate_from_memory(q) =
          IfText(q.doc, IF q.bundles # "object" THEN Failed ELSE IfRead(Read(q), body))
    BY <1>0, Zenon DEF python_policy_activate_from_memory
  <2>3. \/ body = Failed
        \/ body = Built(Limits_default, Read(q).limits, Read(q).limits)
    OBVIOUS
  <2> HIDE DEF body
  <2>4. body.kind \in {"valid", "built"} =>
          body.bounds["dispatchers"] = Read(q).limits /\ body.bounds["runtime"] = Read(q).limits
    <3>1. Failed.kind = "failed"
      BY ReplyKinds
    <3>2. Built(Limits_default, Read(q).limits, Read(q).limits).bounds =
            [manifest |-> Limits_default, dispatchers |-> Read(q).limits, runtime |-> Read(q).limits]
      BY ReplyKinds
    <3> QED BY <2>3, <3>1, <3>2
  <2>5. \A s \in Stages : <<"python", s>> \in Bounded(q.op) => s \in {"dispatchers", "runtime"}
    BY <1>8, MemoryBounds
  <2>6. CASE q.bundles # "object"
    BY <2>1, <2>2, <2>6, ReplyKinds DEF IfText, Keeps
  <2>7. CASE q.bundles = "object"
    <3>1. python_policy_activate_from_memory(q) = IfText(q.doc, IfRead(Read(q), body))
      BY <2>2, <2>7
    <3> QED BY <1>8, <2>1, <2>4, <2>5, <3>1, ArgumentsKeep
  <2> QED BY <2>6, <2>7
<1> QED BY <1>1, <1>2, <1>3, <1>4, <1>5, <1>6, <1>7, <1>8

LEMMA NodeKeeps ==
    ASSUME NEW q, IsQuestion(q), q.limits.form = "object",
           q.op \in {"validate", "validate_file", "parse", "merge", "diagnostics", "new_hooks"}
    PROVE  Keeps(q, "node", node_answer(q))
<1>0. parse_limits(q.limits) = Read(q)
  BY ReadersRead DEF Read
<1>1. CASE q.op = "validate"
  <2>1. node_answer(q) = node_validate_manifest(q)
    BY <1>1, Zenon DEF node_answer
  <2>2. node_validate_manifest(q) =
          IfText(q.doc, IfRead(Read(q), TextVerdict(q.doc, Read(q).limits, Failed)))
    BY <1>0, Zenon DEF node_validate_manifest, TextVerdict
  <2> QED BY <1>1, <2>1, <2>2, VerdictKeeps
<1>2. CASE q.op = "validate_file"
  <2> DEFINE body == Judgement(from_path_with_limits(q.doc, Read(q).limits))
  <2>1. node_answer(q) = node_validate_manifest_file(q)
    BY <1>2, Zenon DEF node_answer
  <2>2. node_validate_manifest_file(q) = IfText(q.doc, IfRead(Read(q), body))
    BY <1>0, Zenon DEF node_validate_manifest_file
  <2>3. body.kind \in {"valid", "built"} => InCap(q)
    BY <1>2, JudgementKind, FileInCap DEF FromFiles
  <2> HIDE DEF body
  <2> QED BY <1>2, <2>1, <2>2, <2>3, OutcomeKeeps
<1>3. CASE q.op = "parse"
  <2> DEFINE body == Value(parse_yaml_str_with_limits(q.doc, Read(q).limits))
  <2>1. node_answer(q) = node_parse_manifest(q)
    BY <1>3, Zenon DEF node_answer
  <2>2. node_parse_manifest(q) = IfText(q.doc, IfRead(Read(q), body))
    BY <1>0, Zenon DEF node_parse_manifest
  <2>3. body.kind \in {"valid", "built"} => InCap(q)
    BY <1>3, ValueKind, ParsedFits, TextInCap
  <2> HIDE DEF body
  <2> QED BY <1>3, <2>1, <2>2, <2>3, OutcomeKeeps
<1>4. CASE q.op = "merge"
  <2> DEFINE body == Value(from_yaml_chain_with_limits(q.docs, q.composition, Read(q).limits))
  <2>1. node_answer(q) = node_merge_manifests(q)
    BY <1>4, Zenon DEF node_answer
  <2>2. CASE q.docs = <<>>
    BY <2>1, <2>2, ReplyKinds DEF node_merge_manifests, Keeps
  <2>3. CASE q.docs # <<>>
    <3>1. node_merge_manifests(q) = IfRead(Read(q), body)
      BY <1>0, <2>3, Zenon DEF node_merge_manifests
    <3>2. body.kind \in {"valid", "built"} => InCap(q)
      BY <1>4, ValueKind, MergeInCap
    <3> HIDE DEF body
    <3> QED BY <1>4, <2>1, <3>1, <3>2, OutcomeKeeps
  <2> QED BY <2>2, <2>3
<1>5. CASE q.op = "diagnostics"
  <2>1. node_answer(q) = validate_manifest_detailed(q)
    BY <1>5, Zenon DEF node_answer
  <2>2. validate_manifest_detailed(q) =
          IfText(q.doc, IfRead(Read(q), TextVerdict(q.doc, Read(q).limits, Reply("invalid"))))
    BY <1>0, Zenon DEF validate_manifest_detailed, TextVerdict
  <2> QED BY <1>5, <2>1, <2>2, VerdictKeeps
<1>6. CASE q.op = "new_hooks"
  <2> DEFINE body == IF from_path_with_limits(q.doc, Read(q).limits) = "ok"
                     THEN Built(Read(q).limits, Read(q).limits, Read(q).limits) ELSE Failed
  <2>1. node_answer(q) = interceptor_new_with_hooks(q)
    BY <1>6, Zenon DEF node_answer
  <2>2. interceptor_new_with_hooks(q) = IfText(q.doc, IfRead(Read(q), body))
    BY <1>0, Zenon DEF interceptor_new_with_hooks
  <2>3. \/ body = Failed
        \/ /\ from_path_with_limits(q.doc, Read(q).limits) = "ok"
           /\ body = Built(Read(q).limits, Read(q).limits, Read(q).limits)
    OBVIOUS
  <2> HIDE DEF body
  <2> QED BY <1>6, <2>1, <2>2, <2>3, BuiltKeeps
<1> QED BY <1>1, <1>2, <1>3, <1>4, <1>5, <1>6

\* A question, and its answers once it has them.
Replies(q) == [ffi |-> ffi_answer(q), python |-> python_answer(q), node |-> node_answer(q)]
AnswersInv == IsQuestion(question) /\ (replies = <<>> \/ replies = Replies(question))

(* Answering keeps the question.                                           *)
LEMMA AnswersInvariance == AnswersSpec => []AnswersInv
<1>1. (\E q : IsQuestion(q) /\ AnswersInit(q)) => AnswersInv
  BY DEF AnswersInit, AnswersInv
<1>2. AnswersInv /\ [AnswersStep]_answerVars => AnswersInv'
  <2> SUFFICES ASSUME AnswersInv, [AnswersStep]_answerVars PROVE AnswersInv'
    OBVIOUS
  <2>1. CASE UNCHANGED answerVars
    <3>1. question' = question /\ replies' = replies
      BY <2>1 DEF answerVars
    <3> QED BY <3>1 DEF AnswersInv
  <2>2. CASE AnswersStep
    <3>1. question' = question /\ replies' = Replies(question)
      BY <2>2 DEF AnswersStep, Replies
    <3> QED BY <3>1 DEF AnswersInv
  <2> QED BY <2>1, <2>2
<1> QED BY <1>1, <1>2, PTL DEF AnswersSpec

(* Whatever caps a host asks for, under whatever names, and whatever it    *)
(* asks: an entry point that takes caps obeys all of them or refuses       *)
(* (AskedCapsHold).                                                        *)
THEOREM CapSafety == AnswersSpec => []AskedCapsHold
<1>1. AnswersInv => AskedCapsHold
  <2> SUFFICES ASSUME AnswersInv, Answered, question.limits.form = "object", NEW l \in Languages,
                      replies[l].kind \in {"valid", "built"},
                      question.op \notin {"intercept", "evaluate", "open", "callback", "artifacts"},
                      l = "ffi" => question.op \notin {"validate_file", "diagnostics"},
                      l # "python" => question.op \notin {"new", "activate", "activate_memory"}
               PROVE  LET asked == question.limits.fields
                      IN  /\ Named(question.limits) \subseteq LIMIT_FIELDS
                          /\ \A f \in Named(question.limits) :
                               /\ asked[f].kind = "number"
                               /\ \A s \in Stages :
                                    <<l, s>> \in Bounded(question.op) => replies[l].bounds[s][f] = asked[f].n
                          /\ question.op # "activate_memory"
                               /\ "max_merged_manifest_bytes" \in Named(question.limits) =>
                                 \A n \in Bytes(question) : ~(n > asked["max_merged_manifest_bytes"].n)
                          /\ question.op \in FromFiles
                               /\ "max_extends_depth" \in Named(question.limits) =>
                                 question.doc.chain < asked["max_extends_depth"].n
    BY Zenon DEF AskedCapsHold, Named
  <2>1. IsQuestion(question) /\ replies = Replies(question)
    BY DEF AnswersInv, Answered
  <2>2. Keeps(question, l, replies[l])
    <3>1. question.op \in EntryPoints
      BY <2>1 DEF IsQuestion
    <3>2. CASE l = "ffi"
      <4>1. replies[l] = ffi_answer(question)
        BY <2>1, <3>2 DEF Replies
      <4> QED BY <2>1, <3>1, <3>2, <4>1, FfiKeeps DEF EntryPoints
    <3>3. CASE l = "python"
      <4>1. replies[l] = python_answer(question)
        BY <2>1, <3>3 DEF Replies
      <4> QED BY <2>1, <3>1, <3>3, <4>1, PythonKeeps DEF EntryPoints
    <3>4. CASE l = "node"
      <4>1. replies[l] = node_answer(question)
        BY <2>1, <3>4 DEF Replies
      <4> QED BY <2>1, <3>1, <3>4, <4>1, NodeKeeps DEF EntryPoints
    <3> QED BY <3>2, <3>3, <3>4 DEF Languages
  <2>3. PICK names \in SUBSET STRING : question.limits.fields \in [names -> FieldValues]
    BY <2>1 DEF IsQuestion
  <2> DEFINE limits == Read(question).limits
             asked == question.limits.fields
  <2>4. Read(question).ok /\ (question.op # "activate_memory" => InCap(question))
    BY <2>2 DEF Keeps
  <2>5. \A s \in Stages : <<l, s>> \in Bounded(question.op) => replies[l].bounds[s] = limits
    BY <2>2 DEF Keeps
  <2>6. Honoured(question.limits, limits)
    BY <2>3, <2>4, CapsAreRead DEF Read
  <2>7. Named(question.limits) \subseteq LIMIT_FIELDS
    BY <2>6 DEF Honoured
  <2>8. \A f \in Named(question.limits) : asked[f].kind = "number" /\ limits[f] = asked[f].n
    BY <2>6 DEF Honoured
  <2>9. question.op \in FromFiles => question.op # "activate_memory"
    BY DEF FromFiles
  <2>10. question.op # "activate_memory" =>
           /\ \A n \in Bytes(question) : ~(n > limits["max_merged_manifest_bytes"])
           /\ question.op \in FromFiles => question.doc.chain < limits["max_extends_depth"]
    BY <2>4 DEF InCap
  <2> HIDE DEF limits
  <2>11. \A f \in Named(question.limits) : \A s \in Stages :
           <<l, s>> \in Bounded(question.op) => replies[l].bounds[s][f] = asked[f].n
    BY <2>5, <2>8
  <2> QED BY <2>7, <2>8, <2>9, <2>10, <2>11
<1> QED BY <1>1, AnswersInvariance, PTL

-----------------------------------------------------------------------------
\* The three answers are one.
AllEqual(q) == python_answer(q) = ffi_answer(q) /\ node_answer(q) = ffi_answer(q)

(* The order in which two arguments are read does not show.                *)
LEMMA ArgumentsCommute ==
    ASSUME NEW read, NEW doc, NEW reply
    PROVE  IfRead(read, IfText(doc, reply)) = IfText(doc, IfRead(read, reply))
BY Zenon DEF IfRead, IfText

(* No caps are the default ones.                                           *)
LEMMA DefaultsRead ==
    ASSUME NEW v, v.form = "absent", NEW reply
    PROVE  /\ resolve_limits(v) = Accepted(Limits_default)
           /\ parse_limits(v) = Accepted(Limits_default)
           /\ Accepted(Limits_default).limits = Limits_default
           /\ IfRead(Accepted(Limits_default), reply) = reply
BY DEF resolve_limits, read_manifest_limits, parse_limits, Accepted, IfRead

(* A document that extends nothing is judged alike in whole and by its     *)
(* text.                                                                   *)
LEMMA WholeIsJudged ==
    ASSUME NEW doc, NEW limits, NEW fragment, doc.chain = 0
    PROVE  TextVerdict(doc, limits, fragment) = Judgement(from_yaml_str_with_limits(doc, limits))
<1>1. ~(doc.chain > 0)
  BY SMT
<1>2. CASE parse_yaml_str_with_limits(doc, limits) = "ok"
  BY <1>1, <1>2, Zenon DEF TextVerdict, from_yaml_str_with_limits
<1>3. CASE parse_yaml_str_with_limits(doc, limits) # "ok"
  BY <1>1, <1>3, Zenon DEF TextVerdict, from_yaml_str_with_limits
<1> QED BY <1>2, <1>3

(* Documents are judged alike.                                             *)
LEMMA JudgedAlike ==
    ASSUME NEW q, IsQuestion(q), Comparable(q),
           q.op \in {"validate", "validate_file", "diagnostics", "artifacts"}
    PROVE  AllEqual(q)
<1>1. CASE q.op = "validate"
  <2> DEFINE body == TextVerdict(q.doc, read_manifest_limits(q.limits).limits, Failed)
  <2>1. /\ ffi_answer(q) = acs_validate_manifest_with_limits(q)
        /\ python_answer(q) = python_validate_manifest(q)
        /\ node_answer(q) = node_validate_manifest(q)
    BY <1>1, Zenon DEF ffi_answer, python_answer, node_answer
  <2>2. /\ parse_limits(q.limits) = read_manifest_limits(q.limits)
        /\ resolve_limits(q.limits) = read_manifest_limits(q.limits)
    <3>1. q.limits.form # "blank"
      BY <1>1 DEF Comparable
    <3> QED BY <3>1, ReadersAgree
  <2>3. /\ acs_validate_manifest_with_limits(q) =
             IfRead(read_manifest_limits(q.limits), IfText(q.doc, body))
        /\ python_validate_manifest(q) = IfText(q.doc, IfRead(read_manifest_limits(q.limits), body))
        /\ node_validate_manifest(q) = IfText(q.doc, IfRead(read_manifest_limits(q.limits), body))
    BY <2>2, Zenon
    DEF acs_validate_manifest_with_limits, python_validate_manifest, node_validate_manifest, TextVerdict
  <2> HIDE DEF body
  <2> QED BY <2>1, <2>3, ArgumentsCommute DEF AllEqual
<1>2. CASE q.op = "validate_file"
  <2>1. /\ ffi_answer(q) = acs_validate_manifest_file(q)
        /\ python_answer(q) = python_validate_manifest_file(q)
        /\ node_answer(q) = node_validate_manifest_file(q)
    BY <1>2, Zenon DEF ffi_answer, python_answer, node_answer
  <2>2. q.limits.form = "absent"
    BY <1>2 DEF Comparable
  <2> QED BY <2>1, <2>2, DefaultsRead
          DEF AllEqual, acs_validate_manifest_file, python_validate_manifest_file,
              node_validate_manifest_file
<1>3. CASE q.op = "diagnostics"
  <2> DEFINE body == TextVerdict(q.doc, Limits_default, Reply("invalid"))
  <2>1. /\ ffi_answer(q) = acs_manifest_diagnostics(q)
        /\ python_answer(q) = validate_manifest_diagnostics(q)
        /\ node_answer(q) = validate_manifest_detailed(q)
    BY <1>3, Zenon DEF ffi_answer, python_answer, node_answer
  <2>2. q.limits.form = "absent" /\ q.doc.chain = 0
    BY <1>3 DEF Comparable
  <2>3. /\ resolve_limits(q.limits) = Accepted(Limits_default)
        /\ parse_limits(q.limits) = Accepted(Limits_default)
        /\ Accepted(Limits_default).limits = Limits_default
        /\ \A reply : IfRead(Accepted(Limits_default), reply) = reply
    BY <2>2, DefaultsRead
  <2>4. /\ validate_manifest_diagnostics(q) = IfText(q.doc, IfRead(Accepted(Limits_default), body))
        /\ validate_manifest_detailed(q) = IfText(q.doc, IfRead(Accepted(Limits_default), body))
    BY <2>3, Zenon DEF validate_manifest_diagnostics, validate_manifest_detailed, TextVerdict
  <2>5. body = Judgement(from_yaml_str_with_limits(q.doc, Limits_default))
    BY <2>2, WholeIsJudged
  <2> HIDE DEF body
  <2> QED BY <2>1, <2>3, <2>4, <2>5, Zenon DEF AllEqual, acs_manifest_diagnostics
<1>4. CASE q.op = "artifacts"
  <2>1. /\ ffi_answer(q) = acs_artifact_diagnostics(q)
        /\ python_answer(q) = validate_artifacts_diagnostics(q)
        /\ node_answer(q) = validate_artifacts_detailed(q)
    BY <1>4, Zenon DEF ffi_answer, python_answer, node_answer
  <2>2. read_in_memory_bundles(q.bundles) <=> q.bundles \in {"object", "blank"}
    BY <1>4 DEF Comparable, read_in_memory_bundles
  <2>3. acs_artifact_diagnostics(q) = validate_artifacts_diagnostics(q)
    BY <2>2, Zenon DEF acs_artifact_diagnostics, validate_artifacts_diagnostics
  <2>4. validate_artifacts_detailed(q) = validate_artifacts_diagnostics(q)
    BY Zenon DEF validate_artifacts_detailed, validate_artifacts_diagnostics
  <2> QED BY <2>1, <2>3, <2>4 DEF AllEqual
<1> QED BY <1>1, <1>2, <1>3, <1>4

(* What is built is built alike, and evaluated alike.                      *)
LEMMA BuiltAlike ==
    ASSUME NEW q, IsQuestion(q), Comparable(q),
           q.op \in {"new", "new_hooks", "activate", "activate_memory", "intercept", "evaluate"}
    PROVE  AllEqual(q)
<1>0. q.op \in {"new", "activate", "activate_memory"} =>
        /\ resolve_limits(q.limits) = Accepted(Limits_default)
        /\ Accepted(Limits_default).limits = Limits_default
        /\ \A reply : IfRead(Accepted(Limits_default), reply) = reply
  <2> SUFFICES ASSUME q.op \in {"new", "activate", "activate_memory"}
               PROVE  q.limits.form = "absent"
    BY DefaultsRead
  <2> QED BY DEF Comparable
<1>1. CASE q.op = "new"
  <2>1. /\ ffi_answer(q) = build_interceptor(q)
        /\ python_answer(q) = python_interceptor_new(q)
        /\ node_answer(q) = node_interceptor_new(q)
    BY <1>1, Zenon DEF ffi_answer, python_answer, node_answer
  <2>2. node_interceptor_new(q) = build_interceptor(q)
    BY Zenon DEF node_interceptor_new, build_interceptor
  <2>3. python_interceptor_new(q) = build_interceptor(q)
    BY <1>0, <1>1 DEF python_interceptor_new, build_interceptor
  <2> QED BY <2>1, <2>2, <2>3 DEF AllEqual
<1>2. CASE q.op = "new_hooks"
  <2>1. /\ ffi_answer(q) = acs_interceptor_new_with_hooks(q)
        /\ python_answer(q) = python_interceptor_new(q)
        /\ node_answer(q) = interceptor_new_with_hooks(q)
    BY <1>2, Zenon DEF ffi_answer, python_answer, node_answer
  <2>2. q.limits.form # "blank"
    BY <1>2 DEF Comparable
  <2>3. resolve_limits(q.limits) = parse_limits(q.limits)
    BY <2>2, ReadersAgree
  <2> QED BY <2>1, <2>3, Zenon
          DEF AllEqual, acs_interceptor_new_with_hooks, python_interceptor_new,
              interceptor_new_with_hooks
<1>3. CASE q.op = "activate"
  <2>1. /\ ffi_answer(q) = acs_policy_activate(q)
        /\ python_answer(q) = python_policy_activate(q)
        /\ node_answer(q) = node_policy_activate(q)
    BY <1>3, Zenon DEF ffi_answer, python_answer, node_answer
  <2>2. node_policy_activate(q) = acs_policy_activate(q)
    BY Zenon DEF node_policy_activate, acs_policy_activate
  <2>3. python_policy_activate(q) = acs_policy_activate(q)
    BY <1>0, <1>3 DEF python_policy_activate, acs_policy_activate
  <2> QED BY <2>1, <2>2, <2>3 DEF AllEqual
<1>4. CASE q.op = "activate_memory"
  <2>1. /\ ffi_answer(q) = acs_policy_activate_from_memory(q)
        /\ python_answer(q) = python_policy_activate_from_memory(q)
        /\ node_answer(q) = node_policy_activate_from_memory(q)
    BY <1>4, Zenon DEF ffi_answer, python_answer, node_answer
  <2>2. read_in_memory_bundles(q.bundles) <=> q.bundles = "object"
    BY <1>4 DEF Comparable, read_in_memory_bundles
  <2>3. node_policy_activate_from_memory(q) = acs_policy_activate_from_memory(q)
    BY <2>2, Zenon DEF node_policy_activate_from_memory, acs_policy_activate_from_memory
  <2>4. python_policy_activate_from_memory(q) = node_policy_activate_from_memory(q)
    BY <1>0, <1>4 DEF python_policy_activate_from_memory, node_policy_activate_from_memory
  <2> QED BY <2>1, <2>3, <2>4 DEF AllEqual
<1>5. CASE q.op = "intercept"
  <2>1. /\ ffi_answer(q) = acs_intercept(q)
        /\ python_answer(q) = python_intercept(q)
        /\ node_answer(q) = node_intercept(q)
    BY <1>5, Zenon DEF ffi_answer, python_answer, node_answer
  <2> QED BY <2>1, Zenon DEF AllEqual, acs_intercept, python_intercept, node_intercept, context_snapshot
<1>6. CASE q.op = "evaluate"
  <2>1. /\ ffi_answer(q) = acs_policy_evaluate(q)
        /\ python_answer(q) = python_policy_evaluate(q)
        /\ node_answer(q) = node_policy_evaluate(q)
    BY <1>6, Zenon DEF ffi_answer, python_answer, node_answer
  <2> QED BY <2>1, Zenon
          DEF AllEqual, acs_policy_evaluate, python_policy_evaluate, node_policy_evaluate,
              context_snapshot
<1> QED BY <1>1, <1>2, <1>3, <1>4, <1>5, <1>6

(* A parsed or merged document is a value in each language or in none.     *)
LEMMA ValuesAlike ==
    ASSUME NEW q, IsQuestion(q), Comparable(q), q.op \in {"parse", "merge"}
    PROVE  /\ Coarse(python_answer(q)) = Coarse(ffi_answer(q)) /\ python_answer(q).kind # "built"
           /\ node_answer(q) = ffi_answer(q) /\ ffi_answer(q).kind # "built"
<1> DEFINE read == read_manifest_limits(q.limits)
<1>1. parse_limits(q.limits) = read /\ resolve_limits(q.limits) = read
  <2>1. q.limits.form # "blank"
    BY DEF Comparable
  <2> QED BY <2>1, ReadersAgree
<1>2. \A outcome : /\ Coarse(Judgement(outcome)) = Coarse(Value(outcome))
                   /\ Judgement(outcome).kind # "built" /\ Value(outcome).kind # "built"
  BY JudgementKind, ValueKind DEF Coarse
<1>3. Coarse(Failed) = "no" /\ Failed.kind # "built"
  BY ReplyKinds DEF Coarse
<1>4. CASE q.op = "parse"
  <2> DEFINE parsed == parse_yaml_str_with_limits(q.doc, read.limits)
  <2>1. /\ ffi_answer(q) = acs_manifest_parse_with_limits(q)
        /\ python_answer(q) = python_parse_manifest(q)
        /\ node_answer(q) = node_parse_manifest(q)
    BY <1>4, Zenon DEF ffi_answer, python_answer, node_answer
  <2>2. from_yaml_str_with_limits(q.doc, read.limits) = parsed
    BY <1>4 DEF Comparable, from_yaml_str_with_limits, validate
  <2>3. /\ ffi_answer(q) = IfText(q.doc, IfRead(read, Value(parsed)))
        /\ python_answer(q) = IfText(q.doc, IfRead(read, Judgement(parsed)))
        /\ node_answer(q) = IfText(q.doc, IfRead(read, Value(parsed)))
    BY <1>1, <2>1, <2>2, Zenon
    DEF acs_manifest_parse_with_limits, python_parse_manifest, node_parse_manifest
  <2> HIDE DEF parsed, read
  <2> QED BY <1>2, <1>3, <2>3 DEF IfText, IfRead
<1>5. CASE q.op = "merge"
  <2> DEFINE merged == from_yaml_chain_with_limits(q.docs, q.composition, read.limits)
  <2>1. /\ ffi_answer(q) = acs_manifest_merge_with_limits(q)
        /\ python_answer(q) = python_merge_manifests(q)
        /\ node_answer(q) = node_merge_manifests(q)
    BY <1>5, Zenon DEF ffi_answer, python_answer, node_answer
  <2>2. /\ ffi_answer(q) = IF q.docs = <<>> THEN Failed ELSE IfRead(read, Value(merged))
        /\ python_answer(q) = IfRead(read, Judgement(merged))
        /\ node_answer(q) = IF q.docs = <<>> THEN Failed ELSE IfRead(read, Value(merged))
    BY <1>1, <2>1, Zenon
    DEF acs_manifest_merge_with_limits, python_merge_manifests, node_merge_manifests
  <2>3. q.docs = <<>> => Coarse(Judgement(merged)) = "no"
    <3> SUFFICES ASSUME q.docs = <<>> PROVE merged = "invalid"
      BY JudgementKind DEF Coarse
    <3> QED BY Zenon DEF from_yaml_chain_with_limits
  <2> HIDE DEF merged, read
  <2> QED BY <1>2, <1>3, <2>2, <2>3 DEF IfRead
<1> QED BY <1>4, <1>5

(* C and Node open the same session, and Python no other.                  *)
LEMMA OpenedAlike ==
    ASSUME NEW q, IsQuestion(q), q.op = "open"
    PROVE  /\ node_answer(q) = ffi_answer(q)
           /\ python_answer(q).kind = "built" /\ ffi_answer(q).kind = "built" =>
                python_answer(q).session = ffi_answer(q).session
<1> DEFINE c == q.config
           s == stream_config_from_json(c)
<1>0. /\ c.level \in Levels \cup {"absent", "other", "unknown"}
      /\ \A t \in Sides : /\ c.start[t].kind \in {"null", "other", "number"}
                          /\ c.start[t].kind = "null" => c.start[t].n = 0
                          /\ c.tasks[t].kind \in {"null", "names", "other"}
  <2>1. \A x \in FieldValues : x.kind \in {"null", "other", "number"} /\ (x.kind = "null" => x.n = 0)
    BY DEF FieldValues, NullField, OtherField, Number
  <2> QED BY <2>1 DEF IsQuestion
<1>1. /\ ffi_answer(q) = acs_stream_session_new(q)
      /\ python_answer(q) = stream_session_new(q)
      /\ node_answer(q) = node_stream_session_new(q)
  BY Zenon DEF ffi_answer, python_answer, node_answer
<1>2. level_of(c) \notin Levels <=> c.level \notin Levels \cup {"absent", "other"}
  BY DEF level_of, Levels
<1>3. stream_config_refused(c) <=>
        \/ c.level \notin Levels \cup {"absent", "other"}
        \/ \E t \in Sides : c.start[t].kind = "other" \/ c.start[t].n > U32Max
        \/ \E t \in Sides : c.tasks[t].kind = "other"
  BY <1>2 DEF stream_config_refused
<1>4. ASSUME ~stream_config_refused(c)
      PROVE  s = [level |-> IF c.level \in Levels THEN c.level ELSE "blocking",
                  start |-> [t \in Sides |-> IF c.start[t].kind = "number" THEN c.start[t].n ELSE 0],
                  tasks |-> [t \in Sides |-> IF c.tasks[t].kind = "names" THEN c.tasks[t].names ELSE {}]]
  <2>1. level_of(c) = IF c.level \in Levels THEN c.level ELSE "blocking"
    BY <1>3, <1>4 DEF level_of, Levels
  <2>2. \A t \in Sides : offset_of(c.start[t]) = IF c.start[t].kind = "number" THEN c.start[t].n ELSE 0
    <3> SUFFICES ASSUME NEW t \in Sides
                 PROVE  offset_of(c.start[t]) = IF c.start[t].kind = "number" THEN c.start[t].n ELSE 0
      OBVIOUS
    <3>1. CASE c.start[t].kind = "null"
      <4>1. c.start[t].kind # "number"
        BY <3>1
      <4> QED BY <3>1, <4>1, Zenon DEF offset_of
    <3>2. CASE c.start[t].kind = "number"
      <4>1. c.start[t].kind # "null"
        BY <3>2
      <4> QED BY <3>2, <4>1, Zenon DEF offset_of
    <3>3. c.start[t].kind \in {"null", "number"}
      <4>1. c.start[t].kind # "other"
        BY <1>3, <1>4, Zenon
      <4>2. c.start[t].kind \in {"null", "other", "number"}
        BY <1>0, Zenon
      <4> HIDE DEF c
      <4> QED BY <4>1, <4>2
    <3> QED BY <3>1, <3>2, <3>3
  <2> QED BY <2>1, <2>2 DEF stream_config_from_json, tasks_of
<1>5. /\ node_answer(q) = IF c.form # "object" \/ stream_config_refused(c) THEN Failed ELSE Opens(s)
      /\ ffi_answer(q) = IF c.form # "object" \/ stream_config_refused(c) THEN Failed ELSE Opens(s)
  <2>1. node_answer(q) = IF c.form # "object" \/ stream_config_refused(c) THEN Failed ELSE Opens(s)
    BY <1>1, Zenon DEF node_stream_session_new
  <2>2. CASE c.form # "object" \/ stream_config_refused(c)
    BY <1>1, <1>3, <2>1, <2>2 DEF acs_stream_session_new
  <2>3. CASE ~(c.form # "object" \/ stream_config_refused(c))
    BY <1>1, <1>3, <1>4, <2>1, <2>3 DEF acs_stream_session_new
  <2> QED BY <2>1, <2>2, <2>3
<1>6. \A x : Opens(x).kind = "built" => Opens(x).session = x
  BY ReplyKinds DEF Opens, Reply
<1>7. ASSUME python_answer(q).kind = "built", ffi_answer(q).kind = "built"
      PROVE  python_answer(q).session = s /\ ffi_answer(q).session = s
  <2> DEFINE x == [level |-> c.level, start |-> [t \in Sides |-> c.start[t].n],
                   tasks |-> [t \in Sides |-> c.tasks[t].names]]
  <2>1. ~stream_config_refused(c) /\ ffi_answer(q) = Opens(s)
    BY <1>5, <1>7, ReplyKinds
  <2>2. /\ c.level \in Levels
        /\ \A t \in Sides : c.start[t].kind = "number" /\ c.tasks[t].kind = "names"
        /\ python_answer(q) = Opens(x)
    BY <1>1, <1>7, ReplyKinds DEF stream_session_new
  <2>3. s = x
    BY <1>4, <2>1, <2>2
  <2> HIDE DEF x, s
  <2> QED BY <1>6, <1>7, <2>1, <2>2, <2>3
<1> QED BY <1>5, <1>7

(* Whatever a host asks of the C, the Python and the Node binding, if all  *)
(* can express it, they answer alike (AnswersAgree).                       *)
THEOREM AgreementSafety == AnswersSpec => []AnswersAgree
<1>1. AnswersInv => AnswersAgree
  <2> SUFFICES ASSUME AnswersInv, Answered, Comparable(question), NEW l \in Languages, NEW m \in Languages
               PROVE  /\ \/ Coarse(replies[l]) = Coarse(replies[m])
                         \/ question.op = "open" /\ "python" \in {l, m}
                      /\ question.op \in {"validate", "validate_file", "diagnostics", "artifacts"} =>
                            replies[l].kind = replies[m].kind
                      /\ replies[l].kind = "built" /\ replies[m].kind = "built" =>
                            replies[l].session = replies[m].session
    BY DEF AnswersAgree
  <2>1. IsQuestion(question) /\ replies = Replies(question)
    BY DEF AnswersInv, Answered
  <2>2. /\ replies["ffi"] = ffi_answer(question) /\ replies["python"] = python_answer(question)
        /\ replies["node"] = node_answer(question)
    BY <2>1 DEF Replies
  <2>3. question.op \in EntryPoints
    BY <2>1 DEF IsQuestion
  <2>4. CASE question.op \in {"validate", "validate_file", "diagnostics", "artifacts", "new", "new_hooks",
                             "activate", "activate_memory", "intercept", "evaluate"}
    <3>1. AllEqual(question)
      BY <2>1, <2>4, JudgedAlike, BuiltAlike
    <3>2. replies[l] = replies[m]
      BY <2>2, <3>1 DEF AllEqual, Languages
    <3> QED BY <3>2
  <2>5. CASE question.op \in {"parse", "merge"}
    <3>1. \A k \in Languages : /\ Coarse(replies[k]) = Coarse(replies["ffi"])
                               /\ replies[k].kind # "built"
      BY <2>1, <2>2, <2>5, ValuesAlike DEF Languages
    <3> QED BY <2>5, <3>1
  <2>6. CASE question.op = "open"
    <3>1. /\ replies["node"] = replies["ffi"]
          /\ replies["python"].kind = "built" /\ replies["ffi"].kind = "built" =>
               replies["python"].session = replies["ffi"].session
      BY <2>1, <2>2, <2>6, OpenedAlike
    <3> QED BY <2>6, <3>1 DEF Languages
  <2> QED BY <2>3, <2>4, <2>5, <2>6 DEF EntryPoints
<1> QED BY <1>1, AnswersInvariance, PTL
=============================================================================

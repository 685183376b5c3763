----------------------------- MODULE CedarCache -----------------------------
(***************************************************************************
 CedarBuiltinDispatcher (engine/src/cedar.rs): threads activate and evaluate
 Cedar policies through one cache of prepared policy sets.  The files are
 read and parsed outside the cache's lock, so a load spans steps of other
 threads and of whoever edits the files.

 A policy set is a key (its policy text or path, entities and schema).  A
 file is known by its version; the content of a version is the instance's.
 ***************************************************************************)
EXTENDS FiniteSets, CedarVerdict

CONSTANTS
    Callers,        \* host threads that share the dispatcher
    Keys,           \* policy sets
    MaxCached       \* MAX_CACHED_POLICY_SETS

VARIABLES
    world,      \* the instance: contents by version, policy input, calls and edits left
    disk,       \* file -> version; a policy file is named by its key
    cache,      \* key -> what is prepared for it, or Unread
    at,         \* caller -> where its call is
    job,        \* caller -> operation, keys to ready, versions read so far
    answers,    \* what calls returned
    floor,      \* history: key -> versions an undisturbed activation readied
    claimed     \* history: key -> newest policy version an activation readied

cedarVars == <<world, disk, cache, at, job, answers, floor, claimed>>

Files == Keys \cup {"entities"}
Unread == [policy |-> 0, entities |-> 0]
NoJob == [op |-> "none", todo |-> <<>>, read |-> Unread, floor |-> Unread, claimed |-> 0]

CedarInit(w) ==
    /\ world = w
    /\ disk = [f \in Files |-> 1]
    /\ cache = [k \in Keys |-> Unread]
    /\ at = [c \in Callers |-> "idle"]
    /\ job = [c \in Callers |-> NoJob]
    /\ answers = {}
    /\ floor = [k \in Keys |-> Unread]
    /\ claimed = [k \in Keys |-> 0]

Key(c) == job[c].todo[1]
Cached == {k \in Keys : cache[k] # Unread}

\* evaluate_cedar, and ActivatedPolicy::activate for the policies points are bound to.
Begin(c, op, todo) ==
    /\ at[c] = "idle" /\ world[op] > 0
    /\ world' = [world EXCEPT ![op] = @ - 1]
    /\ at' = [at EXCEPT ![c] = IF op = "evals" THEN "lookup" ELSE "read"]
    /\ job' = [job EXCEPT ![c] = [op |-> op, todo |-> todo, read |-> Unread,
                                  floor |-> floor[todo[1]], claimed |-> claimed[todo[1]]]]
    /\ UNCHANGED <<disk, cache, answers, floor, claimed>>

Return(c, answer) ==
    /\ at' = [at EXCEPT ![c] = "idle"]
    /\ job' = [job EXCEPT ![c] = NoJob]
    /\ answers' = answers \cup {answer}

Failure(c) ==
    [op |-> job[c].op, key |-> Key(c), read |-> job[c].read, floor |-> job[c].floor,
     claimed |-> job[c].claimed, verdict |-> Refused("policy_invocation_failed")]

\* PreparedCache::prepared: the entry when there is one, else a load of its own.
prepared(c) ==
    /\ at[c] = "lookup"
    /\ IF cache[Key(c)] # Unread
       THEN /\ job' = [job EXCEPT ![c].read = cache[Key(c)]]
            /\ at' = [at EXCEPT ![c] = "decide"]
       ELSE at' = [at EXCEPT ![c] = "read"] /\ UNCHANGED job
    /\ UNCHANGED <<world, disk, cache, answers, floor, claimed>>

\* Prepared::load up to the validation: the policy text, then the schema it must fit.
load_policy_text(c) ==
    /\ at[c] = "read"
    /\ IF world.docs[disk[Key(c)]].loads
       THEN /\ job' = [job EXCEPT ![c].read.policy = disk[Key(c)]]
            /\ at' = [at EXCEPT ![c] = "entities"]
            /\ UNCHANGED answers
       ELSE Return(c, Failure(c))
    /\ UNCHANGED <<world, disk, cache, floor, claimed>>

load_entities(c) ==
    /\ at[c] = "entities"
    /\ IF world.entities[disk["entities"]] = "good"
       THEN /\ job' = [job EXCEPT ![c].read.entities = disk["entities"]]
            /\ at' = [at EXCEPT ![c] = "store"]
            /\ UNCHANGED answers
       ELSE Return(c, Failure(c))
    /\ UNCHANGED <<world, disk, cache, floor, claimed>>

\* Another thread has read files for the key and has yet to store what it read.
Overlapped(c) ==
    \E d \in Callers \ {c} :
        at[d] \in {"read", "entities", "store"} /\ job[d].read # Unread /\ Key(d) = Key(c)

\* The entry is replaced, or added while the cache is under its cap.
Stored(c) ==
    IF Cardinality(Cached) < MaxCached \/ cache[Key(c)] # Unread
    THEN [cache EXCEPT ![Key(c)] = job[c].read] ELSE cache

store_loaded(c) ==
    /\ at[c] = "store" /\ job[c].op = "evals"
    /\ cache' = Stored(c)
    /\ at' = [at EXCEPT ![c] = "decide"]
    /\ UNCHANGED <<world, disk, job, answers, floor, claimed>>

\* Mutant: readying a policy that has been readied keeps the entry.
refresh_once(c) ==
    /\ at[c] = "store" /\ job[c].op = "activations"
    /\ cache' = IF cache[Key(c)] # Unread THEN cache ELSE Stored(c)
    /\ floor' = IF Overlapped(c) THEN floor ELSE [floor EXCEPT ![Key(c)] = job[c].read]
    /\ claimed' = [claimed EXCEPT ![Key(c)] = IF @ > job[c].read.policy THEN @
                                              ELSE job[c].read.policy]
    /\ IF Len(job[c].todo) > 1
       THEN /\ job' = [job EXCEPT ![c].todo = Tail(@), ![c].read = Unread]
            /\ at' = [at EXCEPT ![c] = "read"]
            /\ UNCHANGED answers
       ELSE Return(c, [Failure(c) EXCEPT !.verdict = Allow])
    /\ UNCHANGED <<world, disk>>

\* PreparedCache::refresh, then the next point's policy: the first error ends it.
refresh(c) ==
    /\ at[c] = "store" /\ job[c].op = "activations"
    /\ cache' = Stored(c)
    /\ floor' = IF Overlapped(c) THEN floor ELSE [floor EXCEPT ![Key(c)] = job[c].read]
    /\ claimed' = [claimed EXCEPT ![Key(c)] = IF @ > job[c].read.policy THEN @
                                              ELSE job[c].read.policy]
    /\ IF Len(job[c].todo) > 1
       THEN /\ job' = [job EXCEPT ![c].todo = Tail(@), ![c].read = Unread]
            /\ at' = [at EXCEPT ![c] = "read"]
            /\ UNCHANGED answers
       ELSE Return(c, [Failure(c) EXCEPT !.verdict = Allow])
    /\ UNCHANGED <<world, disk>>

\* The policy set at hand decides: PolicyBackends says what.
Decide(c, verdict) ==
    /\ at[c] = "decide"
    /\ Return(c, [Failure(c) EXCEPT !.verdict = verdict])
    /\ UNCHANGED <<world, disk, cache, floor, claimed>>

\* Someone rewrites a file.
Edit(f) ==
    /\ world.edits > 0
    /\ disk[f] < IF f = "entities" THEN Len(world.entities) ELSE Len(world.docs)
    /\ world' = [world EXCEPT !.edits = @ - 1]
    /\ disk' = [disk EXCEPT ![f] = @ + 1]
    /\ UNCHANGED <<cache, at, job, answers, floor, claimed>>

Orders == {seq \in UNION {[1..n -> Keys] : n \in 1..Cardinality(Keys)} : IsInjective(seq)}

CedarStep(c, verdict) ==
    \/ \E k \in Keys : Begin(c, "evals", <<k>>)
    \/ \E todo \in Orders : Begin(c, "activations", todo)
    \/ prepared(c) \/ load_policy_text(c) \/ load_entities(c)
    \/ store_loaded(c) \/ refresh(c) \/ Decide(c, verdict)

\* The cache under any contents and decisions.
CedarSteps ==
    \/ \E c \in Callers : \E verdict : CedarStep(c, verdict)
    \/ \E f \in Files : Edit(f)
CedarSpec == (\E w : CedarInit(w)) /\ [][CedarSteps]_cedarVars

-----------------------------------------------------------------------------
\* Once an activation that no other load of the policy set overlapped has
\* returned, no evaluation that starts later decides with older files
\* (cedar.rs, PreparedCache::refresh and prepared).
ActivationIsSeen ==
    \A a \in answers :
        a.op = "evals" /\ a.verdict # Refused("policy_invocation_failed") =>
            a.read.policy >= a.floor.policy /\ a.read.entities >= a.floor.entities

\* An evaluation that starts after an activation decides with the policy file
\* that activation read or a newer one, whatever else was loading.
ActivationIsCurrent ==
    \A a \in answers :
        a.op = "evals" /\ a.verdict # Refused("policy_invocation_failed") =>
            a.read.policy >= a.claimed
=============================================================================

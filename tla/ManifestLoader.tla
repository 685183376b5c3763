---------------------------- MODULE ManifestLoader ----------------------------
(***************************************************************************)
(* engine/src/manifest.rs: a manifest is composed of documents.  The file  *)
(* loader follows extends depth first, from the host's root file to other  *)
(* files below its directory and to documents fetched over HTTPS; a host   *)
(* may also merge a chain of texts, of which it marks the fetched ones.    *)
(* Documents from either side may declare annotators and bind them, and    *)
(* what a fetched document wrote must stay known through every merge.      *)
(*                                                                         *)
(* A document is its extends list, what it says of each annotator, whether *)
(* it uses something only the host may (a host file, an approval section,  *)
(* a tool, a query that is code), whether it names a remote bundle or      *)
(* prompt, and a tag that stands for the hash of its bytes.  Tools,        *)
(* policies and metadata merge like the declarations.                      *)
(***************************************************************************)
EXTENDS Integers, FiniteSets, SequencesExt

CONSTANTS
  Root,              \* the file the host names
  Files, Outside,    \* other files; those not below the root's directory
  Urls,              \* HTTPS documents
  UrlOf,             \* UrlOf[f]: what a reference to file f means in a fetched document
  Names,             \* annotators
  Needs,             \* Needs[n]: the needs of a binding of n that has any
  Documents,         \* documents that may be found
  MaxExtendsDepth,   \* Limits::max_extends_depth
  MaxChain           \* bound: texts in a chain

Paths == Files \cup {Root}
Locations == Paths \cup Urls
Decls == {"absent", "one", "other", "env"}
Binds == {"absent", "from", "fields", "credential", "needs", "env"}

ASSUME LoaderAssumption ==
  /\ Outside \subseteq Files /\ Root \notin Outside /\ Paths \cap Urls = {}
  /\ {"marked", "text"} \cap Locations = {}
  /\ UrlOf \in [Paths -> Urls]
  /\ Needs \in [Names -> SUBSET Names]
  /\ MaxExtendsDepth \in Nat /\ MaxChain \in Nat
  /\ \A d \in Documents :
       /\ d.decl \in [Names -> Decls] /\ d.bind \in [Names -> Binds]
       /\ d.local \in BOOLEAN /\ d.remote \in BOOLEAN /\ d.hash \in Nat \ {0}
       /\ d.extends \in Seq([to : Locations, pin : Nat])

VARIABLES
  disk,          \* the files, as far as they were read
  url_bodies,    \* ManifestLoader::url_bodies
  frames,        \* the calls of load_location_with_body; their locations are the stack
  url_sources,   \* ManifestLoader::url_sources
  chain,         \* merge_chain: what is merged so far
  outcome,       \* "idle", "loading", "chaining", "loaded" or the error
  result,        \* the manifest returned
  read           \* history: the documents admitted

vars == <<disk, url_bodies, frames, url_sources, chain, outcome, result, read>>

Nothing == [nothing |-> TRUE]

Init ==
  /\ disk = [f \in Paths |-> Nothing] /\ url_bodies = [u \in Urls |-> Nothing]
  /\ frames = <<>> /\ url_sources = {} /\ chain = <<>>
  /\ outcome = "idle" /\ result = Nothing /\ read = {}

-----------------------------------------------------------------------------
(* Merging                                                                 *)

present(f) == {n \in DOMAIN f : f[n] # "absent"}

\* record_fetched_declarations, on a document that was fetched.
\* Mutant: the bindings of the document are not recorded.
manifest_without_bindings(d, fetched) ==
  [decl |-> d.decl, bind |-> d.bind,
   fetched_decl |-> IF fetched THEN present(d.decl) ELSE {}, fetched_bind |-> {}]

manifest(d, fetched) ==
  [decl |-> d.decl, bind |-> d.bind,
   fetched_decl |-> IF fetched THEN present(d.decl) ELSE {},
   fetched_bind |-> IF fetched THEN present(d.bind) ELSE {}]

\* merge_string_keyed_map: a repeated entry must be identical.
map_conflict(f, g) == \E n \in present(f) \cap present(g) : f[n] # g[n]

merge_conflict(x, y) == map_conflict(x.decl, y.decl) \/ map_conflict(x.bind, y.bind)

map_union(f, g) == [n \in DOMAIN f |-> IF g[n] = "absent" THEN f[n] ELSE g[n]]

\* What stays recorded as fetched: what neither side's host documents wrote.
\* Mutant: only the incoming side's host documents are asked.
still_fetched_incoming(f, ff, g, fg) == (ff \cup fg) \ (present(g) \ fg)

still_fetched(f, ff, g, fg) == (ff \cup fg) \ ((present(f) \ ff) \cup (present(g) \ fg))

merge_manifest(x, y) ==
  [decl |-> map_union(x.decl, y.decl),
   bind |-> map_union(x.bind, y.bind),
   fetched_decl |-> still_fetched(x.decl, x.fetched_decl, y.decl, y.fetched_decl),
   fetched_bind |-> still_fetched(x.bind, x.fetched_bind, y.bind, y.fetched_bind)]

\* merge_resolved_manifest; Nothing after a conflict.
merge_resolved(x, y) ==
  IF x = Nothing THEN y
  ELSE IF merge_conflict(x, y) THEN Nothing
  ELSE merge_manifest(x, y)

-----------------------------------------------------------------------------
(* The gates                                                               *)

uses_env(m) == \E n \in Names : m.decl[n] = "env" \/ m.bind[n] = "env"

\* reject_fetched_document_local_access.
fetched_document_refused(d, chain_pinned) ==
  uses_env(d) \/ d.local \/ (d.remote /\ ~chain_pinned)

needs_of(m, n) == IF m.bind[n] = "needs" THEN Needs[n] ELSE {}

\* reject_cross_document_overlay.
overlay_refused(m, n) ==
  LET declaration_fetched == n \in m.fetched_decl
      binding_fetched == n \in m.fetched_bind
  IN \/ binding_fetched /\ ~declaration_fetched /\ m.bind[n] # "from"
     \/ declaration_fetched /\ ~(needs_of(m, n) \subseteq m.fetched_decl)
     \/ declaration_fetched /\ ~binding_fetched /\ m.bind[n] = "credential"

\* The part of validate that looks at annotators.
manifest_invalid(m, url_sourced) ==
  \/ ~(present(m.bind) \subseteq present(m.decl))
  \/ \E n \in Names : ~(needs_of(m, n) \subseteq present(m.bind) \ {n})
  \/ url_sourced /\ (uses_env(m) \/ \E n \in present(m.bind) : overlay_refused(m, n))

\* An error ends the load, and the loader with what it holds is dropped.
fails(error) ==
  /\ outcome' = error
  /\ UNCHANGED <<disk, url_bodies, frames, url_sources, chain, result, read>>

returns(m, url_sourced) ==
  IF manifest_invalid(m, url_sourced)
  THEN outcome' = "manifest_invalid" /\ UNCHANGED result
  ELSE outcome' = "loaded" /\ result' = m

-----------------------------------------------------------------------------
(* The file loader                                                         *)

top == Last(frames)
stack == {frames[i].loc : i \in DOMAIN frames}
pending == Len(frames) > 0 /\ top.next <= Len(top.doc.extends)
entry == top.doc.extends[top.next]

\* resolve_extends_entry.
resolve(parent, to) == IF parent \in Urls /\ to \in Paths THEN UrlOf[to] ELSE to

depth_exceeded == Len(frames) + 1 > MaxExtendsDepth

in_cycle(loc) == loc \in stack

advanced == IF frames = <<>> THEN <<>>
            ELSE [frames EXCEPT ![Len(frames)].next = @ + 1]

enters(loc, d, chain_pinned) ==
  /\ frames' = Append(advanced, [loc |-> loc, doc |-> d, next |-> 1,
                                 pinned |-> chain_pinned, resolved |-> Nothing])
  /\ read' = read \cup {[loc |-> loc, doc |-> d]}
  /\ outcome' = "loading"
  /\ UNCHANGED <<chain, result>>

\* load_location_with_body on a file, up to its extends; readable: it is there
\* and is a manifest.  Files do not change during a load.
loads_file(f, d, readable) ==
  IF depth_exceeded THEN fails("resource_limit_exceeded")
  ELSE IF in_cycle(f) THEN fails("manifest_invalid")
  ELSE IF ~readable THEN fails("manifest_unreadable")
  ELSE /\ disk[f] \in {Nothing, d}
       /\ disk' = [disk EXCEPT ![f] = d]
       /\ enters(f, d, TRUE)
       /\ UNCHANGED <<url_bodies, url_sources>>

Load(d, readable) ==
  /\ outcome = "idle"
  /\ loads_file(Root, d, readable)

ExtendPath(d, readable) ==
  /\ outcome = "loading" /\ pending
  /\ LET f == resolve(top.loc, entry.to) IN
     /\ f \in Paths
     /\ IF f \in Outside \/ entry.pin # 0 THEN fails("manifest_invalid")
        ELSE loads_file(f, d, readable)

\* Mutant: a pin of the last hop is enough.
child_pinned_last == entry.pin # 0

child_pinned == top.pinned /\ entry.pin # 0

fetch_url_body(u, d) == url_bodies[u] \in {Nothing, d}

verify_extends_hash(d) == entry.pin \in {0, d.hash}

\* The document is fetched and compared with its pin before anything else is
\* looked at; reachable: the server answered with a manifest.
ExtendUrl(d, reachable) ==
  /\ outcome = "loading" /\ pending
  /\ LET u == resolve(top.loc, entry.to) IN
     /\ u \in Urls
     /\ IF url_bodies[u] = Nothing /\ ~reachable THEN fails("manifest_unreadable")
        ELSE /\ fetch_url_body(u, d)
             /\ IF ~verify_extends_hash(d) THEN fails("manifest_invalid")
                ELSE IF depth_exceeded THEN fails("resource_limit_exceeded")
                ELSE IF in_cycle(u) \/ fetched_document_refused(d, child_pinned)
                THEN fails("manifest_invalid")
                ELSE /\ url_bodies' = [url_bodies EXCEPT ![u] = d]
                     /\ url_sources' = url_sources \cup {u}
                     /\ enters(u, d, child_pinned)
                     /\ UNCHANGED disk

\* A document whose extends are all merged is merged over them, and the whole
\* into what its parent has so far; fits: within max_merged_manifest_bytes.
Return(fits) ==
  /\ outcome = "loading" /\ ~pending
  /\ LET m == merge_resolved(top.resolved, manifest(top.doc, top.loc \in Urls)) IN
     IF m = Nothing THEN fails("manifest_invalid")
     ELSE IF ~fits THEN fails("resource_limit_exceeded")
     ELSE IF Len(frames) = 1
     THEN /\ returns(m, url_sources # {})
          /\ frames' = <<>>
          /\ UNCHANGED <<disk, url_bodies, url_sources, chain, read>>
     ELSE LET parent == Len(frames) - 1
              merged == merge_resolved(frames[parent].resolved, m)
          IN IF merged = Nothing THEN fails("manifest_invalid")
             ELSE /\ frames' = [Front(frames) EXCEPT ![parent].resolved = merged]
                  /\ UNCHANGED <<disk, url_bodies, url_sources, chain, outcome, result, read>>

-----------------------------------------------------------------------------
(* Chains of texts                                                         *)

\* The host gives its next text, marked if it fetched it: mark_url_sourced, then
\* the turn of merge_chain.
ChainEntry(d, marked) ==
  /\ outcome \in {"idle", "chaining"} /\ Len(chain) < MaxChain
  /\ IF \/ marked /\ fetched_document_refused(d, FALSE)
        \/ d.extends # <<>>
     THEN fails("manifest_invalid")
     ELSE LET m == manifest(d, marked)
              merged == IF chain = <<>> THEN m ELSE merge_resolved(Last(chain), m)
          IN IF merged = Nothing THEN fails("manifest_invalid")
             ELSE /\ chain' = Append(chain, merged)
                  /\ outcome' = "chaining"
                  /\ url_sources' = url_sources \cup (IF marked THEN {"marked"} ELSE {})
                  /\ read' = read \cup {[loc |-> IF marked THEN "marked" ELSE "text", doc |-> d]}
                  /\ UNCHANGED <<disk, url_bodies, frames, result>>

EndChain ==
  /\ outcome = "chaining"
  /\ returns(Last(chain), url_sources # {})
  /\ UNCHANGED <<disk, url_bodies, frames, url_sources, chain, read>>

Next ==
  \/ \E d \in Documents, readable \in BOOLEAN : Load(d, readable)
  \/ \E d \in Documents, readable \in BOOLEAN : ExtendPath(d, readable)
  \/ \E d \in Documents, reachable \in BOOLEAN : ExtendUrl(d, reachable)
  \/ \E fits \in BOOLEAN : Return(fits)
  \/ \E d \in Documents, marked \in BOOLEAN : ChainEntry(d, marked)
  \/ EndChain

Spec == Init /\ [][Next]_vars
-----------------------------------------------------------------------------
(* Properties                                                              *)

Fetched(r) == r.loc \in Urls \cup {"marked"}

\* The pin with which document i of the stack was asked for.
PinOf(i) == frames[i - 1].doc.extends[frames[i - 1].next - 1].pin

(* A fetched document names a remote bundle or prompt "only when every URL *)
(* hop from the root manifest to it carried a pin", and the documents on   *)
(* the way are the ones pinned.                                            *)
RemoteNeedsPins ==
  \A i \in DOMAIN frames :
    frames[i].loc \in Urls /\ frames[i].doc.remote =>
      \A j \in 2 .. i : frames[j].loc \in Urls => PinOf(j) = frames[j].doc.hash

(* The documents being loaded are all different and no more than the limit *)
(* allows, so that loading ends; the host's files come first, a fetched    *)
(* document leads to no file of the host, whatever it refers to; and what  *)
(* names remote content is pinned all the way from the root.               *)
ChainIsSound ==
  /\ Len(frames) <= MaxExtendsDepth
  /\ \A i, j \in DOMAIN frames :
       i < j => /\ frames[i].loc # frames[j].loc
                /\ frames[j].loc \in Paths => frames[i].loc \in Paths
  /\ RemoteNeedsPins

HostDeclares(n) == \E r \in read : ~Fetched(r) /\ r.doc.decl[n] # "absent"
HostBinds(n) == \E r \in read : ~Fetched(r) /\ r.doc.bind[n] # "absent"

(* A manifest is the union of its documents, nothing any of them says is   *)
(* lost or replaced, and a declaration or a binding counts as fetched      *)
(* exactly if no document of the host wrote it, in whatever order and      *)
(* shape of tree the documents were merged.                                *)
MergeIsExact ==
  outcome = "loaded" =>
    /\ \A r \in read, n \in Names :
         /\ r.doc.decl[n] \in {"absent", result.decl[n]}
         /\ r.doc.bind[n] \in {"absent", result.bind[n]}
    /\ result.fetched_decl = {n \in present(result.decl) : ~HostDeclares(n)}
    /\ result.fetched_bind = {n \in present(result.bind) : ~HostBinds(n)}

(* In a manifest with a fetched document, no host secret meets an endpoint *)
(* that document chose: nothing reads the environment, a fetched binding   *)
(* sets nothing of a host annotator but its input, a host binding lends no *)
(* credential to a fetched annotator, and that sees no host result.        *)
OverlayIsSafe ==
  outcome = "loaded" /\ (\E r \in read : Fetched(r)) =>
    /\ ~uses_env(result)
    /\ \A n \in present(result.bind) :
         /\ HostDeclares(n) /\ ~HostBinds(n) => result.bind[n] = "from"
         /\ ~HostDeclares(n) =>
              /\ \A k \in needs_of(result, n) : ~HostDeclares(k)
              /\ HostBinds(n) => result.bind[n] # "credential"
=============================================================================

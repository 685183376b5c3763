------------------------ MODULE ManifestLoaderProofs ------------------------
(***************************************************************************)
(* Proofs about ManifestLoader: for any files, servers, documents and      *)
(* limits, the stack of documents being loaded is sound, a manifest is     *)
(* exactly what its documents say with the origin of every entry, and no   *)
(* host secret meets an endpoint that a fetched document chose.            *)
(*                                                                         *)
(* Merging happens piecewise along a tree of documents.  The invariant     *)
(* therefore follows each document admitted so far: it is still on the     *)
(* stack, or one of the partial results on the stack covers it; and what   *)
(* a partial result does not count as fetched is owed to a document of     *)
(* the host.                                                               *)
(***************************************************************************)
EXTENDS ManifestLoader, SequenceTheorems, TLAPS

-----------------------------------------------------------------------------
(* Manifests and what they account for                                     *)

Manifests ==
  [decl : [Names -> Decls], bind : [Names -> Binds],
   fetched_decl : SUBSET Names, fetched_bind : SUBSET Names]

\* The map f with the fetched entries ff has what a document says in s, whose origin
\* is fetched or the host.
Covers(f, ff, s, fetched) ==
  \A n \in Names : /\ s[n] \in {"absent", f[n]}
                   /\ s[n] # "absent" /\ ~fetched => n \notin ff

CoversDocument(m, r) ==
  /\ Covers(m.decl, m.fetched_decl, r.doc.decl, Fetched(r))
  /\ Covers(m.bind, m.fetched_bind, r.doc.bind, Fetched(r))

\* Entries count as fetched only if they are there, and the others are in hosts.
Owed(f, ff, hosts) ==
  \A n \in Names : /\ n \in ff => f[n] # "absent"
                   /\ f[n] # "absent" /\ n \notin ff => n \in hosts

\* What the host's documents among docs declare and bind.
Declaring(docs) == {n \in Names : \E r \in docs : ~Fetched(r) /\ r.doc.decl[n] # "absent"}
Binding(docs) == {n \in Names : \E r \in docs : ~Fetched(r) /\ r.doc.bind[n] # "absent"}

Accounted(m, docs) ==
  Owed(m.decl, m.fetched_decl, Declaring(docs)) /\ Owed(m.bind, m.fetched_bind, Binding(docs))

CoversAll(m, docs) ==
  m \in Manifests /\ Accounted(m, docs) /\ \A r \in docs : CoversDocument(m, r)

-----------------------------------------------------------------------------
(* Merging                                                                 *)

LEMMA ManifestIsSomething ==
  ASSUME NEW m \in Manifests
  PROVE  m # Nothing
<1>1. DOMAIN m = {"decl", "bind", "fetched_decl", "fetched_bind"}
  BY DEF Manifests
<1>2. DOMAIN Nothing = {"nothing"}
  BY DEF Nothing
<1> QED BY <1>1, <1>2

(* What merge_string_keyed_map and the records of fetched entries keep.    *)
LEMMA MapsMerge ==
  ASSUME NEW f, NEW g, DOMAIN f = Names, DOMAIN g = Names,
         NEW ff \in SUBSET Names, NEW fg \in SUBSET Names,
         NEW hosts, ~map_conflict(f, g), Owed(f, ff, hosts), Owed(g, fg, hosts)
  PROVE  /\ still_fetched(f, ff, g, fg) \in SUBSET Names
         /\ Owed(map_union(f, g), still_fetched(f, ff, g, fg), hosts)
         /\ \A s : \A fetched \in BOOLEAN :
              \/ Covers(f, ff, s, fetched) \/ Covers(g, fg, s, fetched)
              => Covers(map_union(f, g), still_fetched(f, ff, g, fg), s, fetched)
<1>1. present(f) = {n \in Names : f[n] # "absent"} /\ present(g) = {n \in Names : g[n] # "absent"}
  BY DEF present
<1>3. \A n \in Names : map_union(f, g)[n] = IF g[n] = "absent" THEN f[n] ELSE g[n]
  BY DEF map_union
<1>4. \A n \in Names : f[n] # "absent" /\ g[n] # "absent" => f[n] = g[n]
  BY <1>1 DEF map_conflict
<1>5. still_fetched(f, ff, g, fg) \in SUBSET Names
  BY DEF still_fetched
<1>6. \A n \in Names : n \in still_fetched(f, ff, g, fg) <=>
        /\ n \in ff \/ n \in fg
        /\ ~(f[n] # "absent" /\ n \notin ff) /\ ~(g[n] # "absent" /\ n \notin fg)
  BY <1>1 DEF still_fetched
<1>7. Owed(map_union(f, g), still_fetched(f, ff, g, fg), hosts)
  BY <1>3, <1>6 DEF Owed
<1>8. ASSUME NEW s, NEW fetched \in BOOLEAN,
             Covers(f, ff, s, fetched) \/ Covers(g, fg, s, fetched)
      PROVE  Covers(map_union(f, g), still_fetched(f, ff, g, fg), s, fetched)
  BY <1>3, <1>4, <1>6, <1>8 DEF Covers
<1> QED BY <1>5, <1>7, <1>8

(* merge_resolved_manifest keeps what either side covers.                  *)
LEMMA MergeKeeps ==
  ASSUME NEW docs, NEW x \in Manifests \cup {Nothing}, NEW y \in Manifests,
         x # Nothing => Accounted(x, docs), Accounted(y, docs),
         merge_resolved(x, y) # Nothing
  PROVE  /\ merge_resolved(x, y) \in Manifests /\ Accounted(merge_resolved(x, y), docs)
         /\ \A r : \/ x # Nothing /\ CoversDocument(x, r)
                   \/ CoversDocument(y, r)
                   => CoversDocument(merge_resolved(x, y), r)
<1>1. CASE x = Nothing
  BY <1>1 DEF merge_resolved
<1>2. CASE x # Nothing
  <2>1. /\ x \in Manifests /\ ~merge_conflict(x, y)
        /\ merge_resolved(x, y) = merge_manifest(x, y)
    BY <1>2 DEF merge_resolved
  <2>2. PICK m : m = merge_manifest(x, y)
    OBVIOUS
  <2>3. /\ m.decl = map_union(x.decl, y.decl)
        /\ m.bind = map_union(x.bind, y.bind)
        /\ m.fetched_decl = still_fetched(x.decl, x.fetched_decl, y.decl, y.fetched_decl)
        /\ m.fetched_bind = still_fetched(x.bind, x.fetched_bind, y.bind, y.fetched_bind)
    BY <2>2 DEF merge_manifest
  <2>4. /\ x.decl \in [Names -> Decls] /\ y.decl \in [Names -> Decls]
        /\ x.bind \in [Names -> Binds] /\ y.bind \in [Names -> Binds]
        /\ x.fetched_decl \in SUBSET Names /\ y.fetched_decl \in SUBSET Names
        /\ x.fetched_bind \in SUBSET Names /\ y.fetched_bind \in SUBSET Names
    BY <2>1 DEF Manifests
  <2>5. ~map_conflict(x.decl, y.decl) /\ ~map_conflict(x.bind, y.bind)
    BY <2>1 DEF merge_conflict
  <2>6. /\ m.decl \in [Names -> Decls] /\ m.fetched_decl \in SUBSET Names
        /\ Owed(m.decl, m.fetched_decl, Declaring(docs))
        /\ \A s : \A fetched \in BOOLEAN :
             \/ Covers(x.decl, x.fetched_decl, s, fetched)
             \/ Covers(y.decl, y.fetched_decl, s, fetched)
             => Covers(m.decl, m.fetched_decl, s, fetched)
    <3>1. Owed(x.decl, x.fetched_decl, Declaring(docs)) /\ Owed(y.decl, y.fetched_decl, Declaring(docs))
      BY <1>2 DEF Accounted
    <3>2. PICK f \in [Names -> Decls], g \in [Names -> Decls], ff \in SUBSET Names, fg \in SUBSET Names :
            f = x.decl /\ g = y.decl /\ ff = x.fetched_decl /\ fg = y.fetched_decl
      BY <2>4
    <3>3. /\ m.decl = map_union(f, g) /\ m.fetched_decl = still_fetched(f, ff, g, fg)
          /\ DOMAIN f = Names /\ DOMAIN g = Names
          /\ ~map_conflict(f, g) /\ Owed(f, ff, Declaring(docs)) /\ Owed(g, fg, Declaring(docs))
      BY <2>3, <2>5, <3>1, <3>2
    <3>4. /\ still_fetched(f, ff, g, fg) \in SUBSET Names
          /\ Owed(map_union(f, g), still_fetched(f, ff, g, fg), Declaring(docs))
          /\ \A s : \A fetched \in BOOLEAN :
               \/ Covers(f, ff, s, fetched) \/ Covers(g, fg, s, fetched)
               => Covers(map_union(f, g), still_fetched(f, ff, g, fg), s, fetched)
      BY <3>3, MapsMerge
    <3>5. map_union(f, g) \in [Names -> Decls]
      BY <3>2 DEF map_union
    <3> QED BY <3>2, <3>3, <3>4, <3>5
  <2>7. /\ m.bind \in [Names -> Binds] /\ m.fetched_bind \in SUBSET Names
        /\ Owed(m.bind, m.fetched_bind, Binding(docs))
        /\ \A s : \A fetched \in BOOLEAN :
             \/ Covers(x.bind, x.fetched_bind, s, fetched)
             \/ Covers(y.bind, y.fetched_bind, s, fetched)
             => Covers(m.bind, m.fetched_bind, s, fetched)
    <3>1. Owed(x.bind, x.fetched_bind, Binding(docs)) /\ Owed(y.bind, y.fetched_bind, Binding(docs))
      BY <1>2 DEF Accounted
    <3>2. PICK f \in [Names -> Binds], g \in [Names -> Binds], ff \in SUBSET Names, fg \in SUBSET Names :
            f = x.bind /\ g = y.bind /\ ff = x.fetched_bind /\ fg = y.fetched_bind
      BY <2>4
    <3>3. /\ m.bind = map_union(f, g) /\ m.fetched_bind = still_fetched(f, ff, g, fg)
          /\ DOMAIN f = Names /\ DOMAIN g = Names
          /\ ~map_conflict(f, g) /\ Owed(f, ff, Binding(docs)) /\ Owed(g, fg, Binding(docs))
      BY <2>3, <2>5, <3>1, <3>2
    <3>4. /\ still_fetched(f, ff, g, fg) \in SUBSET Names
          /\ Owed(map_union(f, g), still_fetched(f, ff, g, fg), Binding(docs))
          /\ \A s : \A fetched \in BOOLEAN :
               \/ Covers(f, ff, s, fetched) \/ Covers(g, fg, s, fetched)
               => Covers(map_union(f, g), still_fetched(f, ff, g, fg), s, fetched)
      BY <3>3, MapsMerge
    <3>5. map_union(f, g) \in [Names -> Binds]
      BY <3>2 DEF map_union
    <3> QED BY <3>2, <3>3, <3>4, <3>5
  <2>8. m \in Manifests
    BY <2>2, <2>3, <2>6, <2>7 DEF merge_manifest, Manifests
  <2>9. ASSUME NEW r, CoversDocument(x, r) \/ CoversDocument(y, r)
         PROVE  CoversDocument(m, r)
    <3>1. PICK fetched \in BOOLEAN : fetched <=> Fetched(r)
      OBVIOUS
    <3>2. \A f, ff, s : Covers(f, ff, s, fetched) <=> Covers(f, ff, s, Fetched(r))
      BY <3>1 DEF Covers
    <3> QED BY <2>6, <2>7, <2>9, <3>2 DEF CoversDocument
  <2> QED BY <1>2, <2>1, <2>2, <2>6, <2>7, <2>8, <2>9 DEF Accounted
<1> QED BY <1>1, <1>2

(* What a document says is a manifest that covers it.                      *)
LEMMA DocumentIsManifest ==
  ASSUME NEW d \in Documents, NEW fetched \in BOOLEAN
  PROVE  manifest(d, fetched) \in Manifests
<1>1. d.decl \in [Names -> Decls] /\ d.bind \in [Names -> Binds]
  BY LoaderAssumption
<1>2. present(d.decl) \in SUBSET Names /\ present(d.bind) \in SUBSET Names
  BY <1>1 DEF present
<1> QED BY <1>1, <1>2 DEF manifest, Manifests

LEMMA ManifestCovers ==
  ASSUME NEW docs, NEW r \in docs, NEW fetched \in BOOLEAN, r.doc \in Documents, fetched <=> Fetched(r)
  PROVE  CoversDocument(manifest(r.doc, fetched), r) /\ Accounted(manifest(r.doc, fetched), docs)
<1>1. r.doc.decl \in [Names -> Decls] /\ r.doc.bind \in [Names -> Binds]
  BY LoaderAssumption
<1>2. PICK m : m = manifest(r.doc, fetched)
  OBVIOUS
<1>3. /\ m.decl = r.doc.decl /\ m.bind = r.doc.bind
      /\ \A n \in Names : n \in m.fetched_decl <=> fetched /\ r.doc.decl[n] # "absent"
      /\ \A n \in Names : n \in m.fetched_bind <=> fetched /\ r.doc.bind[n] # "absent"
  BY <1>1, <1>2 DEF manifest, present
<1>4. CoversDocument(m, r)
  BY <1>3 DEF CoversDocument, Covers
<1>5. Owed(m.decl, m.fetched_decl, Declaring(docs))
  BY <1>3 DEF Owed, Declaring
<1>6. Owed(m.bind, m.fetched_bind, Binding(docs))
  BY <1>3 DEF Owed, Binding
<1> QED BY <1>2, <1>4, <1>5, <1>6 DEF Accounted

(* Reading more documents takes nothing back.                              *)
LEMMA AccountsStay ==
  ASSUME NEW docs, NEW more, docs \subseteq more, NEW m, Accounted(m, docs)
  PROVE  Accounted(m, more)
<1>1. Declaring(docs) \subseteq Declaring(more) /\ Binding(docs) \subseteq Binding(more)
  BY DEF Declaring, Binding
<1> QED BY <1>1 DEF Accounted, Owed

-----------------------------------------------------------------------------
(* The invariant                                                           *)

Frames ==
  [loc : Locations, doc : Documents, next : Nat \ {0}, pinned : BOOLEAN,
   resolved : Manifests \cup {Nothing}]

StackType == frames \in Seq(Frames) /\ Len(frames) <= MaxExtendsDepth

StackOrder ==
  \A i, j \in DOMAIN frames :
    i < j => /\ frames[i].loc # frames[j].loc
             /\ frames[j].loc \in Paths => frames[i].loc \in Paths

\* A frame counts as pinned only if every fetched document up to it is the one pinned.
Pinned ==
  \A i \in DOMAIN frames :
    /\ frames[i].loc \in Urls /\ frames[i].doc.remote => frames[i].pinned
    /\ frames[i].pinned =>
         \A j \in 2 .. i : frames[j].loc \in Urls => PinOf(j) = frames[j].doc.hash

OnStack(r) == \E i \in DOMAIN frames : r.loc = frames[i].loc /\ r.doc = frames[i].doc
Resolved(r) ==
  \E i \in DOMAIN frames : frames[i].resolved # Nothing /\ CoversDocument(frames[i].resolved, r)

Loading ==
  outcome = "loading" =>
    /\ Len(frames) >= 1
    /\ \A r \in read : OnStack(r) \/ Resolved(r)
    /\ \A i \in DOMAIN frames : frames[i].resolved # Nothing => Accounted(frames[i].resolved, read)
    /\ \A i \in DOMAIN frames : [loc |-> frames[i].loc, doc |-> frames[i].doc] \in read

Chaining ==
  /\ outcome = "idle" => read = {} /\ frames = <<>> /\ chain = <<>>
  /\ outcome = "chaining" => Len(chain) >= 1 /\ CoversAll(Last(chain), read)

Loaded ==
  outcome = "loaded" => CoversAll(result, read) /\ ~manifest_invalid(result, url_sources # {})

Origins ==
  /\ \A r \in read : r.doc \in Documents
  /\ (\E r \in read : Fetched(r)) => url_sources # {}

LoaderInv ==
  /\ chain \in Seq(Manifests)
  /\ StackType /\ StackOrder /\ Pinned
  /\ Loading /\ Chaining /\ Loaded /\ Origins

LEMMA LoaderInitInv == Init => LoaderInv
<1> SUFFICES ASSUME Init PROVE LoaderInv
  OBVIOUS
<1>1. frames = <<>> /\ chain = <<>> /\ outcome = "idle" /\ read = {}
  BY DEF Init
<1>2. <<>> \in Seq(Frames) /\ <<>> \in Seq(Manifests) /\ Len(<<>>) = 0 /\ DOMAIN <<>> = {}
  BY EmptySeq
<1>3. StackType /\ StackOrder /\ Pinned
  BY <1>1, <1>2, LoaderAssumption DEF StackType, StackOrder, Pinned
<1>4. Loading /\ Chaining /\ Loaded /\ Origins
  BY <1>1 DEF Loading, Chaining, Loaded, Origins
<1> QED BY <1>1, <1>2, <1>3, <1>4 DEF LoaderInv

(* An error ends the load and changes nothing else.                        *)
LEMMA FailsInv ==
  ASSUME LoaderInv, NEW error, fails(error),
         error \in {"manifest_invalid", "resource_limit_exceeded", "manifest_unreadable"}
  PROVE  LoaderInv'
<1>1. /\ frames' = frames /\ read' = read /\ chain' = chain /\ url_sources' = url_sources
      /\ outcome' \notin {"idle", "loading", "chaining", "loaded"}
  BY DEF fails
<1>2. StackType' /\ StackOrder' /\ Pinned'
  BY <1>1 DEF LoaderInv, StackType, StackOrder, Pinned, PinOf
<1>3. Loading' /\ Chaining' /\ Loaded' /\ Origins'
  BY <1>1 DEF LoaderInv, Loading, Chaining, Loaded, Origins, Fetched
<1> QED BY <1>1, <1>2, <1>3 DEF LoaderInv

-----------------------------------------------------------------------------
(* The stack grows                                                         *)

LEMMA Entered ==
  ASSUME frames \in Seq(Frames), NEW loc \in Locations, NEW d \in Documents, NEW p \in BOOLEAN,
         enters(loc, d, p)
  PROVE  /\ frames' \in Seq(Frames) /\ Len(frames') = Len(frames) + 1
         /\ \A i \in 1 .. Len(frames) :
              /\ frames'[i].loc = frames[i].loc /\ frames'[i].doc = frames[i].doc
              /\ frames'[i].pinned = frames[i].pinned /\ frames'[i].resolved = frames[i].resolved
              /\ i < Len(frames) => frames'[i].next = frames[i].next
              /\ i = Len(frames) => frames'[i].next = frames[i].next + 1
         /\ frames'[Len(frames) + 1].loc = loc /\ frames'[Len(frames) + 1].doc = d
         /\ frames'[Len(frames) + 1].resolved = Nothing
         /\ frames'[Len(frames) + 1].pinned <=> p
<1>1. PICK e : e = [loc |-> loc, doc |-> d, next |-> 1, pinned |-> p, resolved |-> Nothing]
  OBVIOUS
<1>2. e \in Frames /\ e.loc = loc /\ e.doc = d /\ e.resolved = Nothing /\ (e.pinned <=> p)
  BY <1>1 DEF Frames
<1>3. frames' = Append(advanced, e)
  BY <1>1 DEF enters
<1>4. CASE frames = <<>>
  <2>1. advanced = <<>>
    BY <1>4 DEF advanced
  <2> QED BY <1>2, <1>3, <1>4, <2>1
<1>5. CASE frames # <<>>
  <2>1. PICK k \in 1 .. Len(frames) : k = Len(frames)
    BY <1>5
  <2>2. frames[k] \in Frames
    BY <2>1
  <2>3. PICK n \in Nat \ {0} : n = frames[k].next + 1
    BY <2>2 DEF Frames
  <2>4. PICK t : t = [frames[k] EXCEPT !.next = n]
    OBVIOUS
  <2>5. /\ t \in Frames /\ t.next = n /\ t.loc = frames[k].loc /\ t.doc = frames[k].doc
        /\ t.pinned = frames[k].pinned /\ t.resolved = frames[k].resolved
    BY <2>2, <2>3, <2>4 DEF Frames
  <2>6. advanced = [frames EXCEPT ![k] = t]
    BY <1>5, <2>1, <2>3, <2>4 DEF advanced
  <2>7. PICK s : s = advanced
    OBVIOUS
  <2>8. /\ s \in Seq(Frames) /\ Len(s) = Len(frames) /\ s[k] = t
        /\ \A i \in 1 .. Len(frames) : i # k => s[i] = frames[i]
    BY <2>1, <2>5, <2>6, <2>7
  <2>9. frames' = Append(s, e)
    BY <1>3, <2>7
  <2>10. /\ frames' \in Seq(Frames) /\ Len(frames') = Len(frames) + 1
         /\ \A i \in 1 .. Len(frames) : frames'[i] = s[i]
         /\ frames'[Len(frames) + 1] = e
    BY <1>2, <2>8, <2>9
  <2> QED BY <1>2, <2>1, <2>3, <2>5, <2>8, <2>10
<1> QED BY <1>4, <1>5

(* A document is entered: its place is new, a file is below files only, a  *)
(* fetched one that names remote content is pinned from the root, and a    *)
(* chain that counts as pinned has the document its last pin names.        *)
LEMMA EntersInv ==
  ASSUME LoaderInv, NEW loc \in Locations, NEW d \in Documents, NEW p \in BOOLEAN,
         enters(loc, d, p), ~depth_exceeded, ~in_cycle(loc),
         outcome = "loading" \/ outcome = "idle",
         loc \in Paths => \A i \in DOMAIN frames : frames[i].loc \in Paths,
         loc \in Urls /\ d.remote => p,
         loc \in Urls /\ p /\ Len(frames) > 0 =>
            top.pinned /\ frames[Len(frames)].doc.extends[frames[Len(frames)].next].pin = d.hash,
         url_sources \subseteq url_sources', loc \in Urls => url_sources' # {}
  PROVE  LoaderInv'
<1>1. frames \in Seq(Frames)
  BY DEF LoaderInv, StackType
<1>2. PICK k \in Nat : k = Len(frames)
  BY <1>1
<1>3. /\ frames' \in Seq(Frames) /\ Len(frames') = k + 1
      /\ DOMAIN frames = 1 .. k /\ DOMAIN frames' = 1 .. (k + 1)
      /\ \A i \in 1 .. k :
           /\ frames'[i].loc = frames[i].loc /\ frames'[i].doc = frames[i].doc
           /\ frames'[i].pinned = frames[i].pinned /\ frames'[i].resolved = frames[i].resolved
           /\ i < k => frames'[i].next = frames[i].next
           /\ i = k => frames'[i].next = frames[i].next + 1
      /\ frames'[k + 1].loc = loc /\ frames'[k + 1].doc = d /\ (frames'[k + 1].pinned <=> p)
      /\ frames'[k + 1].resolved = Nothing
  BY <1>1, <1>2, Entered
<1>4. /\ read' = read \cup {[loc |-> loc, doc |-> d]} /\ outcome' = "loading"
      /\ chain' = chain /\ result' = result
  BY DEF enters
<1>5. StackType'
  BY <1>2, <1>3, LoaderAssumption DEF depth_exceeded, StackType
<1>6. StackOrder'
  <2>1. \A i \in 1 .. k : frames[i].loc # loc
    BY <1>3 DEF in_cycle, stack
  <2> QED BY <1>3, <2>1 DEF LoaderInv, StackOrder
<1>7. Pinned'
  <2>1. ASSUME NEW j \in 2 .. k
        PROVE  PinOf(j)' = PinOf(j)
    <3>1. j - 1 \in 1 .. k /\ j - 1 < k
      BY <1>2
    <3> QED BY <1>3, <3>1 DEF PinOf
  <2>2. ASSUME NEW i \in 1 .. k, frames'[i].pinned
        PROVE  \A j \in 2 .. i : frames'[j].loc \in Urls => PinOf(j)' = frames'[j].doc.hash
    <3>1. \A j \in 2 .. i : frames[j].loc \in Urls => PinOf(j) = frames[j].doc.hash
      BY <1>3, <2>2 DEF LoaderInv, Pinned
    <3>2. \A j \in 2 .. i : j \in 2 .. k /\ j \in 1 .. k
      BY <1>2
    <3> QED BY <1>3, <2>1, <3>1, <3>2
  <2>3. ASSUME p, NEW j \in 2 .. (k + 1), frames'[j].loc \in Urls
        PROVE  PinOf(j)' = frames'[j].doc.hash
    <3>1. CASE j = k + 1
      <4>1. k \in 1 .. k /\ j - 1 = k /\ k > 0
        BY <1>2, <3>1
      <4>2. frames[k] \in Frames
        BY <1>1, <1>2, <4>1
      <4>3. frames[k].next \in Nat
        BY <4>2 DEF Frames
      <4>4. PinOf(j)' = frames[k].doc.extends[frames[k].next].pin
        BY <1>3, <4>1, <4>3 DEF PinOf
      <4> QED BY <1>2, <1>3, <2>3, <3>1, <4>1, <4>4
    <3>2. CASE j # k + 1
      <4>1. j \in 1 .. k /\ k \in 1 .. k /\ k > 0
        BY <1>2, <3>2
      <4>2. frames[j].loc \in Urls
        BY <1>3, <2>3, <4>1
      <4>3. loc \in Urls
        <5>1. frames[j].loc \notin Paths
          BY <4>2, LoaderAssumption
        <5> QED BY <1>3, <4>1, <5>1 DEF Locations
      <4>4. frames'[k].pinned
        BY <1>2, <1>3, <2>3, <4>1, <4>3 DEF top, Last
      <4> QED BY <2>2, <2>3, <3>2, <4>1, <4>4
    <3> QED BY <3>1, <3>2
  <2>4. ASSUME NEW i \in 1 .. (k + 1)
        PROVE  /\ frames'[i].loc \in Urls /\ frames'[i].doc.remote => frames'[i].pinned
               /\ frames'[i].pinned =>
                    \A j \in 2 .. i : frames'[j].loc \in Urls => PinOf(j)' = frames'[j].doc.hash
    <3>1. CASE i = k + 1
      BY <1>3, <2>3, <3>1
    <3>2. CASE i # k + 1
      <4>1. i \in 1 .. k
        BY <1>2, <3>2
      <4>2. frames[i].loc \in Urls /\ frames[i].doc.remote => frames[i].pinned
        BY <1>3, <4>1 DEF LoaderInv, Pinned
      <4> QED BY <1>3, <2>2, <4>1, <4>2
    <3> QED BY <3>1, <3>2
  <2> QED BY <1>3, <2>4 DEF Pinned
<1>8. Loading'
  <2>1. \A r \in read : OnStack(r) \/ Resolved(r)
    BY DEF LoaderInv, Loading, Chaining
  <2>2. ASSUME NEW r \in read, OnStack(r) \/ Resolved(r)
        PROVE  OnStack(r)' \/ Resolved(r)'
    BY <1>2, <1>3, <2>2 DEF OnStack, Resolved, CoversDocument, Fetched
  <2>3. OnStack([loc |-> loc, doc |-> d])'
    BY <1>2, <1>3 DEF OnStack
  <2>4. \A r \in read' : OnStack(r)' \/ Resolved(r)'
    BY <1>4, <2>1, <2>2, <2>3
  <2>5. /\ \A i \in 1 .. k : frames[i].resolved # Nothing => Accounted(frames[i].resolved, read)
        /\ \A i \in 1 .. k : [loc |-> frames[i].loc, doc |-> frames[i].doc] \in read
    <3>1. CASE outcome = "idle"
      BY <1>2, <3>1 DEF LoaderInv, Chaining
    <3>2. CASE outcome = "loading"
      BY <1>3, <3>2 DEF LoaderInv, Loading
    <3> QED BY <3>1, <3>2
  <2>6. \A i \in 1 .. (k + 1) : frames'[i].resolved # Nothing => Accounted(frames'[i].resolved, read')
    <3>1. read \subseteq read'
      BY <1>4
    <3>2. ASSUME NEW i \in 1 .. (k + 1), frames'[i].resolved # Nothing
          PROVE  Accounted(frames'[i].resolved, read')
      <4>1. i \in 1 .. k
        BY <1>2, <1>3, <3>2
      <4>2. PICK m : m = frames'[i].resolved
        OBVIOUS
      <4>3. Accounted(m, read)
        BY <1>3, <2>5, <3>2, <4>1, <4>2
      <4> QED BY <3>1, <4>2, <4>3, AccountsStay
    <3> QED BY <3>2
  <2>7. \A i \in 1 .. (k + 1) : [loc |-> frames'[i].loc, doc |-> frames'[i].doc] \in read'
    BY <1>2, <1>3, <1>4, <2>5
  <2>8. Len(frames') >= 1 /\ DOMAIN frames' = 1 .. (k + 1)
    BY <1>2, <1>3
  <2>9. (\A r \in read : OnStack(r) \/ Resolved(r))'
    BY <2>4
  <2>10. (\A i \in DOMAIN frames : frames[i].resolved # Nothing => Accounted(frames[i].resolved, read))'
    BY <2>6, <2>8
  <2>11. (\A i \in DOMAIN frames : [loc |-> frames[i].loc, doc |-> frames[i].doc] \in read)'
    BY <2>7, <2>8
  <2> QED BY <2>8, <2>9, <2>10, <2>11 DEF Loading
<1>9. Chaining' /\ Loaded'
  BY <1>4 DEF Chaining, Loaded
<1>10. Origins'
  BY <1>4, LoaderAssumption DEF LoaderInv, Origins, Fetched, Locations
<1> QED BY <1>4, <1>5, <1>6, <1>7, <1>8, <1>9, <1>10 DEF LoaderInv
LEMMA LoadsFileInv ==
  ASSUME LoaderInv, NEW f \in Paths, NEW d \in Documents, NEW readable \in BOOLEAN,
         outcome = "loading" \/ outcome = "idle",
         \A i \in DOMAIN frames : frames[i].loc \in Paths, loads_file(f, d, readable)
  PROVE  LoaderInv'
<1>1. CASE fails("resource_limit_exceeded") \/ fails("manifest_invalid") \/ fails("manifest_unreadable")
  BY <1>1, FailsInv
<1>2. CASE enters(f, d, TRUE) /\ ~depth_exceeded /\ ~in_cycle(f) /\ url_sources' = url_sources
  <2>1. PICK p \in BOOLEAN : p
    OBVIOUS
  <2>2. p = TRUE
    BY <2>1
  <2>3. enters(f, d, p)
    BY <1>2, <2>2
  <2>4. f \in Locations /\ f \notin Urls
    BY LoaderAssumption DEF Locations
  <2> QED BY <1>2, <2>3, <2>4, EntersInv
<1> QED BY <1>1, <1>2 DEF loads_file

(* The document on top, and what it asks for next.                         *)
LEMMA TopIsFrame ==
  ASSUME LoaderInv, outcome = "loading"
  PROVE  /\ Len(frames) \in Nat /\ Len(frames) >= 1 /\ Len(frames) \in DOMAIN frames
         /\ top = frames[Len(frames)] /\ top \in Frames /\ top.doc \in Documents
         /\ top.doc.extends \in Seq([to : Locations, pin : Nat])
         /\ pending => entry \in [to : Locations, pin : Nat]
<1>1. frames \in Seq(Frames) /\ Len(frames) >= 1
  BY DEF LoaderInv, StackType, Loading
<1>2. /\ Len(frames) \in Nat /\ Len(frames) \in DOMAIN frames /\ top = frames[Len(frames)]
      /\ top \in Frames
  BY <1>1 DEF top, Last
<1>3. top.doc \in Documents /\ top.next \in Nat \ {0}
  BY <1>2 DEF Frames
<1>4. top.doc.extends \in Seq([to : Locations, pin : Nat])
  BY <1>3, LoaderAssumption
<1>5. pending => entry \in [to : Locations, pin : Nat]
  <2>1. PICK S : S = [to : Locations, pin : Nat]
    OBVIOUS
  <2>2. \A s \in Seq(S) : \A i \in Nat \ {0} : i <= Len(s) => s[i] \in S
    OBVIOUS
  <2>3. pending => top.doc.extends[top.next] \in S
    BY <1>3, <1>4, <2>1, <2>2 DEF pending
  <2> QED BY <2>1, <2>3 DEF entry
<1> QED BY <1>1, <1>2, <1>3, <1>4, <1>5

LEMMA LoadInv ==
  ASSUME LoaderInv, NEW d \in Documents, NEW readable \in BOOLEAN, Load(d, readable)
  PROVE  LoaderInv'
<1>1. outcome = "idle" /\ loads_file(Root, d, readable) /\ Root \in Paths
  BY DEF Load, Paths
<1>2. \A i \in DOMAIN frames : frames[i].loc \in Paths
  BY <1>1 DEF LoaderInv, Chaining
<1> QED BY <1>1, <1>2, LoadsFileInv

LEMMA ExtendPathInv ==
  ASSUME LoaderInv, NEW d \in Documents, NEW readable \in BOOLEAN, ExtendPath(d, readable)
  PROVE  LoaderInv'
<1>1. PICK f : f = resolve(top.loc, entry.to)
  OBVIOUS
<1>2. /\ outcome = "loading" /\ pending /\ f \in Paths
      /\ fails("manifest_invalid") \/ loads_file(f, d, readable)
  BY <1>1 DEF ExtendPath
<1>3. CASE fails("manifest_invalid")
  BY <1>3, FailsInv
<1>4. CASE loads_file(f, d, readable)
  <2>1. entry.to \in Locations /\ top.loc \in Locations
    BY <1>2, TopIsFrame DEF Frames
  <2>2. top.loc \in Paths
    BY <1>1, <1>2, <2>1, LoaderAssumption DEF resolve, Locations
  <2>3. frames[Len(frames)].loc \in Paths
    BY <1>2, <2>2, TopIsFrame
  <2>4. \A i \in DOMAIN frames : frames[i].loc \in Paths
    <3>1. frames \in Seq(Frames) /\ StackOrder
      BY DEF LoaderInv, StackType
    <3>2. \A i \in DOMAIN frames : i = Len(frames) \/ i < Len(frames)
      BY <3>1
    <3>3. Len(frames) \in DOMAIN frames
      BY <1>2, TopIsFrame
    <3> QED BY <2>3, <3>1, <3>2, <3>3 DEF StackOrder
  <2> QED BY <1>2, <1>4, <2>4, LoadsFileInv
<1> QED BY <1>2, <1>3, <1>4

LEMMA ExtendUrlInv ==
  ASSUME LoaderInv, NEW d \in Documents, NEW reachable \in BOOLEAN, ExtendUrl(d, reachable)
  PROVE  LoaderInv'
<1>1. PICK u : u = resolve(top.loc, entry.to)
  OBVIOUS
<1>2. outcome = "loading" /\ pending /\ u \in Urls
  BY <1>1 DEF ExtendUrl
<1>3. \/ fails("manifest_unreadable") \/ fails("manifest_invalid") \/ fails("resource_limit_exceeded")
      \/ /\ verify_extends_hash(d) /\ ~depth_exceeded /\ ~in_cycle(u)
         /\ ~fetched_document_refused(d, child_pinned)
         /\ url_sources' = url_sources \cup {u} /\ enters(u, d, child_pinned)
  BY <1>1 DEF ExtendUrl
<1>4. CASE fails("manifest_unreadable") \/ fails("manifest_invalid") \/ fails("resource_limit_exceeded")
  BY <1>4, FailsInv
<1>5. CASE /\ verify_extends_hash(d) /\ ~depth_exceeded /\ ~in_cycle(u)
           /\ ~fetched_document_refused(d, child_pinned)
           /\ url_sources' = url_sources \cup {u} /\ enters(u, d, child_pinned)
  <2>1. PICK p \in BOOLEAN : p = child_pinned
    BY Zenon DEF child_pinned
  <2>2. p <=> top.pinned /\ entry.pin # 0
    BY <2>1 DEF child_pinned
  <2>3. enters(u, d, p) /\ ~fetched_document_refused(d, p)
    BY <1>5, <2>1
  <2>4. d.remote => p
    BY <2>3 DEF fetched_document_refused
  <2>5. p => entry.pin = d.hash /\ top.pinned
    BY <1>5, <2>2 DEF verify_extends_hash
  <2>6. entry = frames[Len(frames)].doc.extends[frames[Len(frames)].next]
    BY <1>2, TopIsFrame DEF entry
  <2>7. u \in Locations /\ u \notin Paths
    BY <1>2, LoaderAssumption DEF Locations
  <2> QED BY <1>2, <1>5, <2>3, <2>4, <2>5, <2>6, <2>7, EntersInv
<1> QED BY <1>3, <1>4, <1>5

-----------------------------------------------------------------------------
(* The stack shrinks                                                       *)

(* The manifest of the document on top covers it and what it extends.      *)
LEMMA TopIsMerged ==
  ASSUME LoaderInv, outcome = "loading",
         NEW m, m = merge_resolved(top.resolved, manifest(top.doc, top.loc \in Urls)), m # Nothing
  PROVE  /\ m \in Manifests /\ Accounted(m, read)
         /\ \A r : \/ top.resolved # Nothing /\ CoversDocument(top.resolved, r)
                   \/ r.loc = top.loc /\ r.doc = top.doc
                   => CoversDocument(m, r)
<1>1. PICK fetched \in BOOLEAN : fetched <=> top.loc \in Urls
  OBVIOUS
<1>2. PICK y : y = manifest(top.doc, fetched)
  OBVIOUS
<1>3. m = merge_resolved(top.resolved, y)
  <2>1. manifest(top.doc, top.loc \in Urls) = y
    BY <1>1, <1>2 DEF manifest
  <2> QED BY <2>1
<1>4. /\ top \in Frames /\ top.doc \in Documents /\ Len(frames) \in DOMAIN frames
      /\ top = frames[Len(frames)]
  BY TopIsFrame
<1>5. y \in Manifests /\ top.resolved \in Manifests \cup {Nothing}
  BY <1>2, <1>4, DocumentIsManifest DEF Frames
<1>6. PICK r \in read : r = [loc |-> top.loc, doc |-> top.doc]
  BY <1>4 DEF LoaderInv, Loading
<1>7. r.loc = top.loc /\ r.doc = top.doc /\ r.doc \in Documents /\ (fetched <=> Fetched(r))
  <2>1. top.loc \in Locations
    BY <1>4 DEF Frames
  <2>2. top.loc # "marked"
    BY <2>1, LoaderAssumption
  <2> QED BY <1>1, <1>4, <1>6, <2>2 DEF Fetched
<1>8. CoversDocument(y, r) /\ Accounted(y, read)
  BY <1>2, <1>7, ManifestCovers
<1>9. top.resolved # Nothing => Accounted(top.resolved, read)
  BY <1>4 DEF LoaderInv, Loading
<1>10. /\ m \in Manifests /\ Accounted(m, read)
       /\ \A s : \/ top.resolved # Nothing /\ CoversDocument(top.resolved, s)
                 \/ CoversDocument(y, s)
                 => CoversDocument(m, s)
  BY <1>3, <1>5, <1>8, <1>9, MergeKeeps
<1>11. \A s : s.loc = top.loc /\ s.doc = top.doc => CoversDocument(y, s)
  BY <1>7, <1>8 DEF CoversDocument, Fetched
<1> QED BY <1>10, <1>11
(* What is returned covers every document and passed the gates.            *)
LEMMA ReturnsInv ==
  ASSUME LoaderInv, NEW m, returns(m, url_sources # {}), CoversAll(m, read),
         UNCHANGED <<url_sources, chain, read>>,
         frames' \in Seq(Frames), Len(frames') = 0
  PROVE  LoaderInv'
<1>1. \/ outcome' = "manifest_invalid"
      \/ outcome' = "loaded" /\ result' = m /\ ~manifest_invalid(m, url_sources # {})
  BY DEF returns
<1>2. DOMAIN frames' = {}
  OBVIOUS
<1>3. StackType' /\ StackOrder' /\ Pinned'
  BY <1>2, LoaderAssumption DEF StackType, StackOrder, Pinned
<1>4. Loaded'
  BY <1>1 DEF Loaded, manifest_invalid
<1>5. Loading' /\ Chaining' /\ Origins'
  BY <1>1 DEF LoaderInv, Loading, Chaining, Origins, Fetched
<1> QED BY <1>3, <1>4, <1>5 DEF LoaderInv

\* The top frame is gone and the one below has m.
Shrunk(p, m) == [Front(frames) EXCEPT ![p].resolved = m]

LEMMA Returned ==
  ASSUME frames \in Seq(Frames), NEW p \in Nat \ {0}, p = Len(frames) - 1, NEW m \in Manifests,
         frames' = Shrunk(p, m)
  PROVE  /\ frames' \in Seq(Frames) /\ Len(frames') = p
         /\ \A i \in 1 .. p :
              /\ frames'[i].loc = frames[i].loc /\ frames'[i].doc = frames[i].doc
              /\ frames'[i].next = frames[i].next /\ frames'[i].pinned = frames[i].pinned
              /\ i # p => frames'[i].resolved = frames[i].resolved
         /\ frames'[p].resolved = m
<1>1. p \in 1 .. Len(frames) /\ frames[p] \in Frames
  OBVIOUS
<1>2. PICK s : s = Front(frames)
  OBVIOUS
<1>3. s \in Seq(Frames) /\ Len(s) = p /\ \A i \in 1 .. p : s[i] = frames[i]
  BY <1>2 DEF Front
<1>4. PICK t : t = [frames[p] EXCEPT !.resolved = m]
  OBVIOUS
<1>5. /\ t \in Frames /\ t.loc = frames[p].loc /\ t.doc = frames[p].doc
      /\ t.next = frames[p].next /\ t.pinned = frames[p].pinned /\ t.resolved = m
  BY <1>1, <1>4 DEF Frames
<1>6. p \in 1 .. p
  OBVIOUS
<1>7. frames' = [s EXCEPT ![p] = t]
  BY <1>2, <1>3, <1>4, <1>6 DEF Shrunk
<1>8. /\ frames' \in Seq(Frames) /\ Len(frames') = p /\ frames'[p] = t
      /\ \A i \in 1 .. p : i # p => frames'[i] = frames[i]
  <2>1. s \in [1 .. p -> Frames]
    BY <1>3
  <2>2. frames' \in [1 .. p -> Frames] /\ frames'[p] = t /\ \A i \in 1 .. p : i # p => frames'[i] = s[i]
    BY <1>5, <1>6, <1>7, <2>1
  <2>3. frames' \in Seq(Frames) /\ Len(frames') = p
    BY <2>2, SeqDef
  <2> QED BY <1>3, <2>2, <2>3
<1> QED BY <1>5, <1>8

LEMMA ReturnInv ==
  ASSUME LoaderInv, NEW fits \in BOOLEAN, Return(fits)
  PROVE  LoaderInv'
<1>1. outcome = "loading"
  BY DEF Return
<1>2. PICK m : m = merge_resolved(top.resolved, manifest(top.doc, top.loc \in Urls))
  OBVIOUS
<1>3. PICK k \in Nat \ {0} : k = Len(frames)
  BY <1>1, TopIsFrame
<1>4. /\ frames \in Seq(Frames) /\ k \in DOMAIN frames /\ top = frames[k] /\ DOMAIN frames = 1 .. k
  BY <1>1, <1>3, TopIsFrame DEF LoaderInv, StackType
<1>5. CASE fails("manifest_invalid") \/ fails("resource_limit_exceeded")
  BY <1>5, FailsInv
<1>6. CASE ~(fails("manifest_invalid") \/ fails("resource_limit_exceeded"))
  <2>1. m # Nothing
    BY <1>2, <1>6 DEF Return
  <2>2. /\ m \in Manifests /\ Accounted(m, read)
        /\ \A r : \/ top.resolved # Nothing /\ CoversDocument(top.resolved, r)
                  \/ r.loc = top.loc /\ r.doc = top.doc
                  => CoversDocument(m, r)
    BY <1>1, <1>2, <2>1, TopIsMerged
  <2>3. \A r \in read : OnStack(r) \/ Resolved(r)
    BY <1>1 DEF LoaderInv, Loading
  <2>4. CASE k = 1
    <3>1. /\ returns(m, url_sources # {}) /\ frames' = <<>>
          /\ UNCHANGED <<url_sources, chain, read>>
      BY <1>2, <1>3, <1>6, <2>4 DEF Return
    <3>2. \A r \in read : CoversDocument(m, r)
      BY <1>4, <2>2, <2>3, <2>4 DEF OnStack, Resolved
    <3>3. frames' \in Seq(Frames) /\ Len(frames') = 0
      BY <3>1, EmptySeq
    <3> QED BY <2>2, <3>1, <3>2, <3>3, ReturnsInv DEF CoversAll
  <2>5. CASE k # 1
    <3>1. PICK p \in Nat \ {0} : p = k - 1
      BY <2>5
    <3>2. PICK x : x = frames[p].resolved
      OBVIOUS
    <3>3. PICK y : y = merge_resolved(x, m)
      OBVIOUS
    <3>4. /\ y # Nothing /\ frames' = Shrunk(p, y)
          /\ UNCHANGED <<url_sources, chain, outcome, result, read>>
      BY <1>2, <1>3, <1>6, <2>5, <3>1, <3>2, <3>3 DEF Return, Shrunk
    <3>5. p \in 1 .. k /\ frames[p] \in Frames
      BY <1>4, <3>1
    <3>6. x \in Manifests \cup {Nothing} /\ (x # Nothing => Accounted(x, read))
      BY <1>1, <1>4, <3>2, <3>5 DEF Frames, LoaderInv, Loading
    <3>7. /\ y \in Manifests /\ Accounted(y, read)
          /\ \A r : \/ x # Nothing /\ CoversDocument(x, r)
                    \/ CoversDocument(m, r)
                    => CoversDocument(y, r)
      BY <2>2, <3>3, <3>4, <3>6, MergeKeeps
    <3>8. /\ frames' \in Seq(Frames) /\ Len(frames') = p /\ DOMAIN frames' = 1 .. p
          /\ \A i \in 1 .. p :
               /\ frames'[i].loc = frames[i].loc /\ frames'[i].doc = frames[i].doc
               /\ frames'[i].next = frames[i].next /\ frames'[i].pinned = frames[i].pinned
               /\ i # p => frames'[i].resolved = frames[i].resolved
          /\ frames'[p].resolved = y /\ p \in 1 .. p /\ 1 .. p \subseteq 1 .. k
      BY <1>3, <1>4, <3>1, <3>4, <3>7, Returned
    <3>9. StackType' /\ StackOrder'
      <4>1. k <= MaxExtendsDepth /\ MaxExtendsDepth \in Nat
        BY <1>3, LoaderAssumption DEF LoaderInv, StackType
      <4>2. StackType'
        BY <3>1, <3>8, <4>1 DEF StackType
      <4>3. \A i, j \in 1 .. k :
              i < j => /\ frames[i].loc # frames[j].loc
                       /\ frames[j].loc \in Paths => frames[i].loc \in Paths
        BY <1>4 DEF LoaderInv, StackOrder
      <4>4. StackOrder'
        BY <3>8, <4>3 DEF StackOrder
      <4> QED BY <4>2, <4>4
    <3>10. Pinned'
      <4>1. ASSUME NEW j \in 2 .. p
            PROVE  PinOf(j)' = PinOf(j)
        <5>1. j - 1 \in 1 .. p
          BY <3>1
        <5> QED BY <3>8, <5>1 DEF PinOf
      <4>2. ASSUME NEW i \in 1 .. p
            PROVE  /\ frames'[i].loc \in Urls /\ frames'[i].doc.remote => frames'[i].pinned
                   /\ frames'[i].pinned =>
                        \A j \in 2 .. i : frames'[j].loc \in Urls => PinOf(j)' = frames'[j].doc.hash
        <5>1. /\ frames[i].loc \in Urls /\ frames[i].doc.remote => frames[i].pinned
              /\ frames[i].pinned =>
                   \A j \in 2 .. i : frames[j].loc \in Urls => PinOf(j) = frames[j].doc.hash
          BY <1>4, <3>8 DEF LoaderInv, Pinned
        <5>2. \A j \in 2 .. i : j \in 2 .. p /\ j \in 1 .. p
          BY <3>1
        <5> QED BY <3>8, <4>1, <5>1, <5>2
      <4> QED BY <3>8, <4>2 DEF Pinned
    <3>11. Loading'
      <4>1. ASSUME NEW r \in read, OnStack(r) \/ Resolved(r)
            PROVE  OnStack(r)' \/ Resolved(r)'
        <5>1. y # Nothing
          BY <3>4
        <5>2. CASE CoversDocument(y, r)
          BY <3>8, <5>1, <5>2 DEF Resolved
        <5>3. CASE ~CoversDocument(y, r)
          <6>1. ~CoversDocument(m, r) /\ ~(x # Nothing /\ CoversDocument(x, r))
            BY <3>7, <5>3
          <6>2. /\ ~(top.resolved # Nothing /\ CoversDocument(top.resolved, r))
                /\ ~(r.loc = top.loc /\ r.doc = top.doc)
            BY <2>2, <6>1
          <6>3. CASE OnStack(r)
            <7>1. PICK i \in 1 .. k : r.loc = frames[i].loc /\ r.doc = frames[i].doc
              BY <1>4, <6>3 DEF OnStack
            <7>2. i \in 1 .. p
              BY <1>4, <3>1, <6>2, <7>1
            <7> QED BY <3>8, <7>1, <7>2 DEF OnStack
          <6>4. CASE Resolved(r)
            <7>1. PICK i \in 1 .. k : frames[i].resolved # Nothing /\ CoversDocument(frames[i].resolved, r)
              BY <1>4, <6>4 DEF Resolved
            <7>2. i \in 1 .. p /\ i # p
              BY <1>4, <3>1, <3>2, <6>1, <6>2, <7>1
            <7>3. frames'[i].resolved = frames[i].resolved
              BY <3>8, <7>2
            <7> QED BY <3>8, <7>1, <7>2, <7>3 DEF Resolved
          <6> QED BY <4>1, <6>3, <6>4
        <5> QED BY <5>2, <5>3
      <4>2. (\A r \in read : OnStack(r) \/ Resolved(r))'
        BY <2>3, <3>4, <4>1
      <4>3. (\A i \in DOMAIN frames : frames[i].resolved # Nothing => Accounted(frames[i].resolved, read))'
        <5>1. \A i \in 1 .. k : frames[i].resolved # Nothing => Accounted(frames[i].resolved, read)
          BY <1>1, <1>4 DEF LoaderInv, Loading
        <5> QED BY <3>4, <3>7, <3>8, <5>1
      <4>4. (\A i \in DOMAIN frames : [loc |-> frames[i].loc, doc |-> frames[i].doc] \in read)'
        <5>1. \A i \in 1 .. k : [loc |-> frames[i].loc, doc |-> frames[i].doc] \in read
          BY <1>1, <1>4 DEF LoaderInv, Loading
        <5> QED BY <3>4, <3>8, <5>1
      <4>5. Len(frames') >= 1
        BY <3>1, <3>8
      <4> QED BY <4>2, <4>3, <4>4, <4>5 DEF Loading
    <3>12. Chaining' /\ Loaded' /\ Origins'
      BY <1>1, <3>4 DEF LoaderInv, Chaining, Loaded, Origins, Fetched
    <3> QED BY <3>4, <3>9, <3>10, <3>11, <3>12 DEF LoaderInv
  <2> QED BY <2>4, <2>5
<1> QED BY <1>5, <1>6

-----------------------------------------------------------------------------
(* Chains of texts                                                         *)

LEMMA ChainEntryInv ==
  ASSUME LoaderInv, NEW d \in Documents, NEW marked \in BOOLEAN, ChainEntry(d, marked)
  PROVE  LoaderInv'
<1>1. PICK m : m = manifest(d, marked)
  OBVIOUS
<1>2. PICK y : y = IF chain = <<>> THEN m ELSE merge_resolved(Last(chain), m)
  OBVIOUS
<1>3. PICK r : r = [loc |-> IF marked THEN "marked" ELSE "text", doc |-> d]
  OBVIOUS
<1>4. outcome = "idle" \/ outcome = "chaining"
  BY DEF ChainEntry
<1>5. CASE fails("manifest_invalid")
  BY <1>5, FailsInv
<1>6. CASE ~fails("manifest_invalid")
  <2>1. /\ y # Nothing /\ chain' = Append(chain, y) /\ outcome' = "chaining"
        /\ url_sources' = url_sources \cup (IF marked THEN {"marked"} ELSE {})
        /\ read' = read \cup {r} /\ UNCHANGED <<frames, result>>
    BY <1>1, <1>2, <1>3, <1>6 DEF ChainEntry
  <2>2. r.doc = d /\ (Fetched(r) <=> marked)
    <3>1. r.doc = d /\ r.loc = IF marked THEN "marked" ELSE "text"
      BY <1>3
    <3> QED BY <3>1, LoaderAssumption DEF Fetched, Locations
  <2>3. PICK docs : docs = read'
    OBVIOUS
  <2>4. r \in docs /\ read \subseteq docs
    BY <2>1, <2>3
  <2>5. m \in Manifests /\ Accounted(m, docs) /\ CoversDocument(m, r)
    BY <1>1, <2>2, <2>4, DocumentIsManifest, ManifestCovers
  <2>6. chain \in Seq(Manifests)
    BY DEF LoaderInv
  <2>7. CoversAll(y, docs)
    <3>1. CASE chain = <<>>
      <4>1. read = {} /\ y = m
        BY <1>2, <1>4, <3>1 DEF LoaderInv, Chaining
      <4> QED BY <2>1, <2>3, <2>5, <4>1 DEF CoversAll
    <3>2. CASE chain # <<>>
      <4>1. PICK x : x = Last(chain)
        OBVIOUS
      <4>2. CoversAll(x, read)
        BY <1>4, <3>2, <4>1 DEF LoaderInv, Chaining
      <4>3. x \in Manifests /\ Accounted(x, docs)
        BY <2>4, <4>2, AccountsStay DEF CoversAll
      <4>4. x # Nothing /\ y = merge_resolved(x, m)
        BY <1>2, <3>2, <4>1, <4>3, ManifestIsSomething
      <4>5. /\ y \in Manifests /\ Accounted(y, docs)
            /\ \A s : \/ x # Nothing /\ CoversDocument(x, s)
                      \/ CoversDocument(m, s)
                      => CoversDocument(y, s)
        BY <2>1, <2>5, <4>3, <4>4, MergeKeeps
      <4> QED BY <2>1, <2>3, <2>5, <4>2, <4>4, <4>5 DEF CoversAll
    <3> QED BY <3>1, <3>2
  <2>8. /\ chain' \in Seq(Manifests) /\ Len(chain') >= 1 /\ Last(chain') = y
    BY <2>1, <2>6, <2>7 DEF Last, CoversAll
  <2>9. Chaining'
    BY <2>1, <2>3, <2>7, <2>8 DEF Chaining
  <2>10. StackType' /\ StackOrder' /\ Pinned'
    BY <2>1 DEF LoaderInv, StackType, StackOrder, Pinned, PinOf
  <2>11. Loading' /\ Loaded'
    BY <2>1 DEF Loading, Loaded
  <2>12. Origins'
    BY <2>1, <2>2 DEF LoaderInv, Origins, Fetched
  <2> QED BY <2>8, <2>9, <2>10, <2>11, <2>12 DEF LoaderInv
<1> QED BY <1>5, <1>6

LEMMA EndChainInv ==
  ASSUME LoaderInv, EndChain
  PROVE  LoaderInv'
<1>1. PICK m : m = Last(chain)
  OBVIOUS
<1>2. /\ outcome = "chaining" /\ returns(m, url_sources # {})
      /\ UNCHANGED <<frames, url_sources, chain, read>>
  BY <1>1 DEF EndChain
<1>3. CoversAll(m, read)
  BY <1>1, <1>2 DEF LoaderInv, Chaining
<1>4. \/ outcome' = "manifest_invalid"
      \/ outcome' = "loaded" /\ result' = m /\ ~manifest_invalid(m, url_sources # {})
  BY <1>2 DEF returns
<1>5. StackType' /\ StackOrder' /\ Pinned'
  BY <1>2 DEF LoaderInv, StackType, StackOrder, Pinned, PinOf
<1>6. Loaded'
  BY <1>2, <1>3, <1>4 DEF Loaded, manifest_invalid
<1>7. Loading' /\ Chaining' /\ Origins'
  BY <1>2, <1>4 DEF LoaderInv, Loading, Chaining, Origins, Fetched
<1> QED BY <1>2, <1>5, <1>6, <1>7 DEF LoaderInv

LEMMA LoaderNextInv == LoaderInv /\ [Next]_vars => LoaderInv'
<1> SUFFICES ASSUME LoaderInv, [Next]_vars PROVE LoaderInv'
  OBVIOUS
<1>1. CASE UNCHANGED vars
  <2>1. UNCHANGED <<frames, url_sources, chain, outcome, result, read>>
    BY <1>1 DEF vars
  <2>2. StackType' /\ StackOrder' /\ Pinned'
    BY <2>1 DEF LoaderInv, StackType, StackOrder, Pinned, PinOf
  <2>3. Loading' /\ Chaining' /\ Loaded' /\ Origins'
    BY <2>1 DEF LoaderInv, Loading, Chaining, Loaded, Origins, OnStack, Resolved
  <2> QED BY <2>1, <2>2, <2>3 DEF LoaderInv
<1> QED BY <1>1, LoadInv, ExtendPathInv, ExtendUrlInv, ReturnInv, ChainEntryInv, EndChainInv DEF Next

(* What the loader, the merges and the gates keep, at every step.          *)
THEOREM Invariance == Spec => []LoaderInv
BY LoaderInitInv, LoaderNextInv, PTL DEF Spec

(* Whatever files and servers answer, the documents being loaded are all   *)
(* different and within max_extends_depth, no fetched document leads to a  *)
(* file of the host, and one that names remote content is pinned all the   *)
(* way from the root (load_location_with_body, verify_extends_hash,        *)
(* reject_fetched_document_local_access).                                  *)
THEOREM ChainSafety == Spec => []ChainIsSound
<1>1. LoaderInv => ChainIsSound
  <2> SUFFICES ASSUME LoaderInv PROVE ChainIsSound
    OBVIOUS
  <2>1. RemoteNeedsPins
    BY DEF LoaderInv, Pinned, RemoteNeedsPins
  <2> QED BY <2>1 DEF LoaderInv, StackType, StackOrder, ChainIsSound
<1> QED BY <1>1, Invariance, PTL

LEMMA LoadedIsExact == LoaderInv => MergeIsExact
<1> SUFFICES ASSUME LoaderInv, outcome = "loaded"
             PROVE  /\ \A r \in read, n \in Names :
                         /\ r.doc.decl[n] \in {"absent", result.decl[n]}
                         /\ r.doc.bind[n] \in {"absent", result.bind[n]}
                    /\ result.fetched_decl = {n \in present(result.decl) : ~HostDeclares(n)}
                    /\ result.fetched_bind = {n \in present(result.bind) : ~HostBinds(n)}
  BY DEF MergeIsExact
<1>1. PICK m \in Manifests : m = result
  BY DEF LoaderInv, Loaded, CoversAll
<1>2. Accounted(m, read) /\ \A r \in read : CoversDocument(m, r)
  BY <1>1 DEF LoaderInv, Loaded, CoversAll
<1>3. /\ m.decl \in [Names -> Decls] /\ m.bind \in [Names -> Binds]
      /\ m.fetched_decl \in SUBSET Names /\ m.fetched_bind \in SUBSET Names
  BY DEF Manifests
<1>4. m.fetched_decl = {n \in present(m.decl) : ~HostDeclares(n)}
  BY <1>2, <1>3 DEF Accounted, Owed, Declaring, HostDeclares, CoversDocument, Covers, present
<1>5. m.fetched_bind = {n \in present(m.bind) : ~HostBinds(n)}
  BY <1>2, <1>3 DEF Accounted, Owed, Binding, HostBinds, CoversDocument, Covers, present
<1>6. \A r \in read, n \in Names :
        /\ r.doc.decl[n] \in {"absent", m.decl[n]}
        /\ r.doc.bind[n] \in {"absent", m.bind[n]}
  BY <1>2 DEF CoversDocument, Covers
<1> QED BY <1>1, <1>4, <1>5, <1>6

(* In whatever order and tree the documents are merged, a manifest says    *)
(* what all of them say, and counts an entry as fetched exactly if no      *)
(* document of the host wrote it (merge_manifest,                          *)
(* record_fetched_declarations).                                           *)
THEOREM MergeSafety == Spec => []MergeIsExact
BY LoadedIsExact, Invariance, PTL

(* In a manifest with a fetched document, no host secret meets an endpoint *)
(* that document chose (reject_cross_document_overlay, validate).          *)
THEOREM OverlaySafety == Spec => []OverlayIsSafe
<1>1. LoaderInv => OverlayIsSafe
  <2> SUFFICES ASSUME LoaderInv, outcome = "loaded", \E r \in read : Fetched(r)
               PROVE  /\ ~uses_env(result)
                      /\ \A n \in present(result.bind) :
                           /\ HostDeclares(n) /\ ~HostBinds(n) => result.bind[n] = "from"
                           /\ ~HostDeclares(n) =>
                                /\ \A k \in needs_of(result, n) : ~HostDeclares(k)
                                /\ HostBinds(n) => result.bind[n] # "credential"
    BY DEF OverlayIsSafe
  <2>1. MergeIsExact /\ url_sources # {} /\ ~manifest_invalid(result, url_sources # {})
    BY LoadedIsExact DEF LoaderInv, Loaded, Origins
  <2>2. /\ ~uses_env(result) /\ present(result.bind) \subseteq present(result.decl)
        /\ \A n \in present(result.bind) : ~overlay_refused(result, n)
    BY <2>1 DEF manifest_invalid
  <2>3. /\ result.fetched_decl = {n \in present(result.decl) : ~HostDeclares(n)}
        /\ result.fetched_bind = {n \in present(result.bind) : ~HostBinds(n)}
    BY <2>1 DEF MergeIsExact
  <2> QED BY <2>2, <2>3 DEF overlay_refused
<1> QED BY <1>1, Invariance, PTL
=============================================================================

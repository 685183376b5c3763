--------------------------- MODULE MCManifestLoader ---------------------------
(* Documents whose extends take every interesting shape, and documents     *)
(* that say everything of interest about an annotator.                     *)
EXTENDS ManifestLoader

NoBind == [n \in Names |-> "absent"]
Bare == [extends |-> <<>>, decl |-> NoBind, bind |-> NoBind, local |-> FALSE,
         remote |-> FALSE, hash |-> 1]

e(to, pin) == [to |-> to, pin |-> pin]

\* References from files and from fetched documents.
RelativeTo == ("main" :> "v" @@ "f" :> "v" @@ "out" :> "v")

Shapes ==
  {<<>>, <<e("main", 0)>>, <<e("f", 0)>>, <<e("out", 0)>>, <<e("f", 1)>>, <<e("u", 0)>>,
   <<e("u", 1)>>, <<e("v", 1)>>, <<e("v", 2)>>, <<e("u", 1), e("v", 1)>>,
   <<e("f", 0), e("u", 0)>>, <<e("u", 1), e("u", 2)>>}

ShapedDocuments ==
  {[Bare EXCEPT !.extends = x] : x \in Shapes}
  \cup {[Bare EXCEPT !.extends = x, !.hash = 2] : x \in {<<>>, <<e("v", 1)>>}}
  \cup {[Bare EXCEPT !.extends = x, !.remote = TRUE] : x \in {<<>>, <<e("v", 1)>>}}
  \cup {[Bare EXCEPT !.local = TRUE]}

\* The annotator a may need b.
ANeedsB == ("a" :> {"b"} @@ "b" :> {})

Said(da, ba, withB) ==
  [Bare EXCEPT !.decl = ("a" :> da @@ "b" :> IF withB THEN "one" ELSE "absent"),
               !.bind = ("a" :> ba @@ "b" :> IF withB THEN "from" ELSE "absent")]

Plain ==
  {Said(da, ba, FALSE) : da \in {"absent", "one"}, ba \in {"absent", "from", "credential"}}
  \cup {Said("one", "needs", FALSE), Said("absent", "absent", TRUE)}

Leaves ==
  Plain \cup {Said("one", "needs", TRUE), Said("absent", "needs", FALSE),
             Said("other", "absent", FALSE), Said("env", "absent", FALSE),
             Said("one", "fields", FALSE), Said("absent", "fields", FALSE),
             Said("absent", "env", FALSE)}

AnnotatorDocuments ==
  Leaves \cup {[d EXCEPT !.extends = x] :
    d \in Plain, x \in {<<e("u", 0)>>, <<e("v", 0)>>, <<e("u", 0), e("f", 0)>>}}

AllDocuments == ShapedDocuments \cup AnnotatorDocuments
=============================================================================

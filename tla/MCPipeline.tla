----------------------------- MODULE MCPipeline -----------------------------
(***************************************************************************)
(* Small instances of Pipeline: two requests, of one user or of an owner   *)
(* and a guest, for the same media or for media that is not cached.        *)
(***************************************************************************)
EXTENDS Pipeline

CONSTANTS u1, u2, r1, r2, k1

MCUserOf == [r \in Requests |-> u1]
MCOwnerAndGuest == [r \in Requests |-> IF r = r1 THEN u1 ELSE u2]
MCSameKey == [r \in Requests |-> k1]
MCNoKey == [r \in Requests |-> NoKey]

File(sizes) == [solo |-> FALSE, sizes |-> sizes]
Document(sizes) == [solo |-> TRUE, sizes |-> sizes]
Result(groups, subs, trimmed) == [groups |-> groups, subs |-> subs, trimmed |-> trimmed]

\* Sizes are megabytes against two per credit: below, at and above the rounding
\* boundary, and an empty file.
Nothing == Result(<< >>, 0, FALSE)
OneFile == Result(<<File(<<1>>)>>, 0, FALSE)
OneFileSubtitled == Result(<<File(<<3>>)>>, 1, FALSE)
SplitFile == Result(<<File(<<2, 1>>)>>, 0, FALSE)
Trimmed == Result(<<File(<<1>>), File(<<1>>)>>, 0, TRUE)
\* An album of two, a document that flushes it, and a last album of one.
Carousel == Result(<<File(<<1>>), File(<<0>>), Document(<<2>>), File(<<1>>)>>, 0, FALSE)
\* More files than one album holds.
LongAlbum == Result(<<File(<<1>>), File(<<2>>), File(<<1>>)>>, 0, FALSE)

MCSingles == {Nothing, OneFile, OneFileSubtitled, SplitFile}
MCAlbums == {Trimmed, Carousel, LongAlbum}
MCPlans == MCSingles \cup MCAlbums
MCFew == {OneFileSubtitled, SplitFile, Carousel}
=============================================================================

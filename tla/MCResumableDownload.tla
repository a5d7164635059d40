------------------------- MODULE MCResumableDownload -------------------------
(* ResumableDownload on two remote files.  The file at p may be replaced by *)
(* a longer one; the file at q has the length p had first, so that only its *)
(* path tells its sidecar from p's.                                         *)
EXTENDS ResumableDownload, TLC

CONSTANTS p, q, p1, p2, p3, q1

PathOfVersion == (p1 :> p) @@ (p2 :> p) @@ (p3 :> p) @@ (q1 :> q)
SizeOfVersion == (p1 :> 2) @@ (p2 :> 3) @@ (p3 :> 2) @@ (q1 :> 2)

\* Two attempts run side by side while they are the first, and in one version
\* of each path.
Explored ==
  Cardinality(Active) > 1 =>
    /\ \A d \in Downloads : dl[d].pc # "over"
    /\ \A d \in Active : dl[d].version \in {p1, q1}

Symmetry == Permutations(Downloads)
==============================================================================

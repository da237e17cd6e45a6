----------------------------- MODULE MCDownloads -----------------------------
(* An instance of Downloads: a route that names one provider twice, around   *)
(* one that does not know the URL.                                           *)
EXTENDS Downloads, TLC

CONSTANTS p1, p2

MCCandidates == <<p1, p2, p1>>
MCSymmetry == Permutations(Requests)
=============================================================================

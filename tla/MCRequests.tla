----------------------------- MODULE MCRequests -----------------------------
(***************************************************************************)
(* Small instances of Requests: handlers and messages are interchangeable. *)
(***************************************************************************)
EXTENDS Requests, TLC

CONSTANTS j1, j2, j3, j4, m1, m2, m3

MCSymmetry == Permutations(Handlers) \cup Permutations(Messages)
=============================================================================

----------------------------- MODULE MCLimiter -----------------------------
(***************************************************************************)
(* Small instances of Limiter: jobs of one greedy user and of another one. *)
(***************************************************************************)
EXTENDS Limiter

CONSTANTS u1, u2, j1, j2, j3, j4

\* All but the last job are the greedy user's.
MCOwner == [j \in Jobs |-> IF j = j4 THEN u2 ELSE u1]
=============================================================================

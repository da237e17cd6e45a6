------------------------------- MODULE Slots -------------------------------
(***************************************************************************)
(* What ConcurrencyLimiter promises (the header of queue/limiter.py),      *)
(* without its semaphores: jobs are inside the async with only as long as  *)
(* both caps have room.                                                    *)
(***************************************************************************)
EXTENDS Naturals, FiniteSets

CONSTANTS Jobs, Users, Owner, GlobalLimit, PerUserLimit

VARIABLES
  inside,  \* jobs inside the async with
  left     \* jobs that are through, or gave up waiting

SameUser(j) == {i \in inside : Owner[i] = Owner[j]}

Init == inside = {} /\ left = {}

Start(j) ==
  /\ j \notin inside \cup left
  /\ Cardinality(inside) < GlobalLimit
  /\ Cardinality(SameUser(j)) < PerUserLimit
  /\ inside' = inside \cup {j}
  /\ UNCHANGED left

Leave(j) ==
  /\ j \notin left
  /\ inside' = inside \ {j}
  /\ left' = left \cup {j}

Next == \E j \in Jobs : Start(j) \/ Leave(j)

Spec == Init /\ [][Next]_<<inside, left>>
=============================================================================

--------------------------- MODULE LimiterProofs ---------------------------
(***************************************************************************)
(* Proofs about Limiter, for any finite set of jobs, any number of users   *)
(* and any limits.                                                         *)
(***************************************************************************)
EXTENDS Limiter, FiniteSetTheorems, WellFoundedInduction, SequenceTheorems, TLAPS

\* q lists the members of W, each once.
Lists(q, W) ==
  /\ q \in Seq(Jobs)
  /\ \A i \in DOMAIN q : q[i] \in W
  /\ \A i, k \in DOMAIN q : q[i] = q[k] => i = k
  /\ \A j \in W : \E i \in DOMAIN q : q[i] = j

Waiters(s) == {j \in Jobs : Waits(j, s)}

\* Each queue holds exactly the jobs that wait for the semaphore, once each.
QueueInv == \A s \in Semaphores : Lists(queue[s], Waiters(s))

\* A waiting job has a future, and only a granted one leaves a job to doom.
FutureInv ==
  \A j \in Jobs :
    /\ pc[j] \in {"user", "global"} => future[j] # "none"
    /\ doomed[j] /\ pc[j] # "done" =>
         pc[j] \in {"user", "global"} /\ future[j] = "granted"

\* A job was told before it queues.
ToldInv == \A j \in Jobs : pc[j] \in {"told", "user", "global"} => told[j]

\* The inductive invariant.
IInv ==
  /\ TypeOK
  /\ QueueInv
  /\ FutureInv
  /\ SlotsAccounted
  /\ NoLostWakeUp
  /\ ToldInv

-----------------------------------------------------------------------------
(***************************************************************************)
(* Queues.                                                                 *)
(***************************************************************************)

\* Removing a job from a queue that holds it leaves the others, in order.
LEMMA WithoutMembers ==
  ASSUME NEW S, NEW q \in Seq(S), NEW j, \E i \in DOMAIN q : q[i] = j
  PROVE  \E k \in 1 .. Len(q) :
           /\ q[k] = j
           /\ Without(q, j) \in Seq(S)
           /\ Len(Without(q, j)) = Len(q) - 1
           /\ \A i \in 1 .. Len(q) - 1 :
                Without(q, j)[i] = IF i < k THEN q[i] ELSE q[i + 1]
<1> DEFINE k == CHOOSE i \in DOMAIN q : q[i] = j
<1>1. k \in 1 .. Len(q) /\ q[k] = j
  OBVIOUS
<1> DEFINE a == SubSeq(q, 1, k - 1)
           b == SubSeq(q, k + 1, Len(q))
<1>2. Without(q, j) = a \o b
  BY DEF Without, RemoveAt
<1> HIDE DEF k
<1>3. a \in Seq(S) /\ Len(a) = k - 1 /\ \A i \in 1 .. k - 1 : a[i] = q[i]
  BY <1>1
<1>4. b \in Seq(S) /\ Len(b) = Len(q) - k /\ \A i \in 1 .. Len(q) - k : b[i] = q[k + i]
  BY <1>1
<1> HIDE DEF a, b
<1> DEFINE c == a \o b
<1>5. /\ c \in Seq(S)
      /\ Len(c) = Len(a) + Len(b)
      /\ \A i \in 1 .. Len(a) + Len(b) :
           c[i] = IF i <= Len(a) THEN a[i] ELSE b[i - Len(a)]
  BY <1>3, <1>4, ConcatProperties, Zenon
<1> HIDE DEF c
<1>6. Len(q) \in Nat
  OBVIOUS
<1>7. Len(c) = Len(q) - 1
  BY <1>1, <1>3, <1>4, <1>5, <1>6
<1>8. ASSUME NEW i \in 1 .. Len(q) - 1
      PROVE  c[i] = IF i < k THEN q[i] ELSE q[i + 1]
  <2>1. c[i] = IF i <= k - 1 THEN a[i] ELSE b[i - (k - 1)]
    BY <1>1, <1>3, <1>4, <1>5, <1>6
  <2>2. CASE i < k
    BY <1>1, <1>3, <1>6, <2>1, <2>2
  <2>3. CASE ~(i < k)
    <3>1. i - (k - 1) \in 1 .. Len(q) - k /\ k + (i - (k - 1)) = i + 1
      BY <1>1, <1>6, <2>3
    <3> QED
      BY <1>1, <1>4, <1>6, <2>1, <2>3, <3>1
  <2> QED
    BY <2>2, <2>3
<1>9. Without(q, j) = c
  BY <1>2 DEF c
<1> QED
  BY <1>1, <1>5, <1>7, <1>8, <1>9

\* A job that queues is listed after it ...
LEMMA ListsAppend ==
  ASSUME NEW q, NEW W \in SUBSET Jobs, Lists(q, W), NEW j \in Jobs \ W
  PROVE  Lists(Append(q, j), W \cup {j})
<1> DEFINE n == Len(q)
           p == Append(q, j)
<1>1. /\ q \in Seq(Jobs) /\ n \in Nat /\ DOMAIN q = 1 .. n
      /\ \A i \in 1 .. n : q[i] \in W
      /\ \A i, k \in 1 .. n : q[i] = q[k] => i = k
      /\ \A w \in W : \E i \in 1 .. n : q[i] = w
  BY DEF Lists
<1>2. /\ p \in Seq(Jobs) /\ Len(p) = n + 1 /\ DOMAIN p = 1 .. n + 1
      /\ \A i \in 1 .. n : p[i] = q[i]
      /\ p[n + 1] = j
  BY <1>1
<1> HIDE DEF n, p
<1>3. ASSUME NEW i \in 1 .. n + 1
      PROVE  p[i] \in W \cup {j}
  BY <1>1, <1>2
<1>4. ASSUME NEW i \in 1 .. n + 1, NEW k \in 1 .. n + 1, p[i] = p[k]
      PROVE  i = k
  BY <1>1, <1>2, <1>4
<1>5. ASSUME NEW w \in W \cup {j}
      PROVE  \E i \in 1 .. n + 1 : p[i] = w
  <2>1. CASE w = j
    <3>1. n + 1 \in 1 .. n + 1
      BY <1>1
    <3> QED
      BY <1>2, <2>1, <3>1
  <2>2. CASE w \in W
    <3>1. PICK i \in 1 .. n : q[i] = w
      BY <1>1, <2>2
    <3>2. i \in 1 .. n + 1
      BY <1>1
    <3> QED
      BY <1>2, <3>1, <3>2
  <2> QED
    BY <2>1, <2>2
<1> QED
  <2>1. Lists(p, W \cup {j})
    BY <1>2, <1>3, <1>4, <1>5 DEF Lists
  <2> QED
    BY <2>1 DEF p

\* ... and no longer once it is removed.
LEMMA ListsWithout ==
  ASSUME NEW q, NEW W \in SUBSET Jobs, Lists(q, W), NEW j \in W
  PROVE  Lists(Without(q, j), W \ {j})
<1> DEFINE n == Len(q)
           p == Without(q, j)
<1>1. /\ q \in Seq(Jobs) /\ n \in Nat /\ DOMAIN q = 1 .. n
      /\ \A i \in 1 .. n : q[i] \in W
      /\ \A i, k \in 1 .. n : q[i] = q[k] => i = k
      /\ \A w \in W : \E i \in 1 .. n : q[i] = w
  BY DEF Lists
<1>2. PICK m \in 1 .. n :
        /\ q[m] = j
        /\ p \in Seq(Jobs)
        /\ Len(p) = n - 1
        /\ \A i \in 1 .. n - 1 : p[i] = IF i < m THEN q[i] ELSE q[i + 1]
  <2>1. q \in Seq(Jobs)
    BY DEF Lists
  <2>2. \E i \in DOMAIN q : q[i] = j
    BY DEF Lists
  <2>3. \E k \in 1 .. Len(q) :
          /\ q[k] = j
          /\ Without(q, j) \in Seq(Jobs)
          /\ Len(Without(q, j)) = Len(q) - 1
          /\ \A i \in 1 .. Len(q) - 1 :
               Without(q, j)[i] = IF i < k THEN q[i] ELSE q[i + 1]
    BY <2>1, <2>2, WithoutMembers, SMT
  <2> QED
    BY <2>3
<1> HIDE DEF n, p
<1>3. DOMAIN p = 1 .. n - 1
  BY <1>1, <1>2
<1>4. ASSUME NEW i \in 1 .. n - 1
      PROVE  \/ i < m /\ p[i] = q[i] /\ i \in 1 .. n
             \/ i >= m /\ p[i] = q[i + 1] /\ i + 1 \in 1 .. n
  BY <1>1, <1>2
<1>5. ASSUME NEW i \in 1 .. n - 1
      PROVE  p[i] \in W \ {j}
  BY <1>1, <1>2, <1>4
<1>6. ASSUME NEW i \in 1 .. n - 1, NEW k \in 1 .. n - 1, p[i] = p[k]
      PROVE  i = k
  BY <1>1, <1>2, <1>4, <1>6
<1>7. ASSUME NEW w \in W \ {j}
      PROVE  \E i \in 1 .. n - 1 : p[i] = w
  <2>1. PICK k \in 1 .. n : q[k] = w /\ k # m
    BY <1>1, <1>2
  <2>2. CASE k < m
    <3>1. k \in 1 .. n - 1
      BY <1>1, <2>2
    <3> QED
      BY <1>2, <2>1, <2>2, <3>1
  <2>3. CASE k > m
    <3>1. k - 1 \in 1 .. n - 1 /\ ~(k - 1 < m) /\ (k - 1) + 1 = k
      BY <1>1, <2>3
    <3> QED
      BY <1>2, <2>1, <3>1
  <2> QED
    BY <2>1, <2>2, <2>3
<1> QED
  <2>1. Lists(p, W \ {j})
    BY <1>2, <1>3, <1>5, <1>6, <1>7 DEF Lists
  <2> QED
    BY <2>1 DEF p

\* _wake_up_next picks nobody or one waiter whose future is pending, and nobody
\* only if no future is.
LEMMA Picked ==
  ASSUME TypeOK, QueueInv, NEW s \in Semaphores
  PROVE  \/ /\ FirstPending(s) = {}
            /\ \A j \in Waiters(s) : future[j] # "pending"
         \/ \E y \in Waiters(s) : FirstPending(s) = {y} /\ future[y] = "pending"
<1> DEFINE q == queue[s]
           n == Len(q)
           P == {i \in 1 .. n : future[q[i]] = "pending"}
           D == {i \in DOMAIN q : /\ future[q[i]] = "pending"
                                  /\ \A k \in 1 .. i - 1 : future[q[k]] # "pending"}
<1>1. /\ q \in Seq(Jobs) /\ n \in Nat /\ DOMAIN q = 1 .. n
      /\ \A i \in 1 .. n : q[i] \in Waiters(s)
      /\ \A w \in Waiters(s) : \E i \in 1 .. n : q[i] = w
  BY DEF QueueInv, Lists
<1>2. FirstPending(s) = {q[i] : i \in D}
  BY DEF FirstPending
<1> HIDE DEF q, n
<1>3. CASE P = {}
  BY <1>1, <1>2, <1>3
<1>4. CASE P # {}
  <2> DEFINE R == {p \in Nat \X Nat : p[1] < p[2]}
  <2>1. IsWellFoundedOn(R, Nat)
    BY NatLessThanWellFounded DEF OpToRel
  <2> HIDE DEF R
  <2>2. P \subseteq Nat
    BY <1>1
  <2> HIDE DEF P
  <2>3. PICK a \in P : \A b \in P : <<b, a>> \notin R
    BY <1>4, <2>1, <2>2, WFMin, Zenon
  <2>4. ASSUME NEW b \in P
        PROVE  a <= b
    <3>1. a \in Nat /\ b \in Nat /\ <<b, a>> \notin R
      BY <2>2, <2>3
    <3>2. ~(b < a)
      BY <3>1 DEF R
    <3> QED
      BY <3>1, <3>2
  <2>5. a \in 1 .. n /\ future[q[a]] = "pending"
    BY <2>3 DEF P
  <2>6. \A k \in 1 .. a - 1 : future[q[k]] # "pending"
    BY <1>1, <2>4, <2>5 DEF P
  <2>7. a \in D
    BY <1>1, <2>5, <2>6
  <2>8. ASSUME NEW b \in D
        PROVE  b = a
    <3>1. b \in 1 .. n /\ future[q[b]] = "pending"
          /\ \A k \in 1 .. b - 1 : future[q[k]] # "pending"
      BY <1>1
    <3>2. b \in P
      BY <3>1 DEF P
    <3> QED
      BY <1>1, <2>4, <2>5, <3>1, <3>2
  <2>9. D = {a}
    BY <2>7, <2>8
  <2>10. FirstPending(s) = {q[a]}
    BY <1>2, <2>9
  <2> QED
    BY <1>1, <2>5, <2>10
<1> QED
  BY <1>3, <1>4

-----------------------------------------------------------------------------
(***************************************************************************)
(* One semaphore at a time.                                                *)
(***************************************************************************)

\* NoLostWakeUp and SlotsAccounted of one semaphore.
NoLostAt(s) ==
  value[s] > 0 /\ (\E j \in Jobs : Waits(j, s) /\ future[j] = "pending") =>
    \E j \in Jobs : Waits(j, s) /\ future[j] = "granted"

AccountedAt(s) == value[s] + Cardinality(Holders(s)) = Limit(s)

\* What a step may do to a queue: leave it alone, or let a job join or leave.
QueueKept(s) == queue'[s] = queue[s] /\ Waiters(s)' = Waiters(s)

Joins(j, s) ==
  /\ queue'[s] = Append(queue[s], j)
  /\ ~Waits(j, s)
  /\ Waiters(s)' = Waiters(s) \cup {j}

Leaves(j, s) ==
  /\ queue'[s] = Without(queue[s], j)
  /\ Waits(j, s)
  /\ Waiters(s)' = Waiters(s) \ {j}

QueueStep(s) == QueueKept(s) \/ \E j \in Jobs : Joins(j, s) \/ Leaves(j, s)

\* What a step may do to the slots of one semaphore: nothing, or take one, free
\* one, or hand one over.
Kept(s) == value'[s] = value[s] /\ Holders(s)' = Holders(s)

Taken(s) ==
  \E x \in Jobs \ Holders(s) :
    /\ value[s] > 0 /\ value'[s] = value[s] - 1
    /\ Holders(s)' = Holders(s) \cup {x}

Freed(s) ==
  \E x \in Holders(s) :
    /\ value'[s] = value[s] + 1
    /\ Holders(s)' = Holders(s) \ {x}

HandedOver(s) ==
  \E x \in Holders(s), y \in Jobs \ Holders(s) :
    /\ value'[s] = value[s]
    /\ Holders(s)' = (Holders(s) \ {x}) \cup {y}

SlotStep(s) == Kept(s) \/ Taken(s) \/ Freed(s) \/ HandedOver(s)

SemaphoreStep(s) == QueueStep(s) /\ SlotStep(s) /\ NoLostAt(s)'

\* Such a queue still lists its waiters.
LEMMA QueueStepLists ==
  ASSUME NEW s, Lists(queue[s], Waiters(s)), QueueStep(s)
  PROVE  Lists(queue'[s], Waiters(s)')
<1>1. Waiters(s) \in SUBSET Jobs
  BY DEF Waiters
<1>2. CASE QueueKept(s)
  BY <1>2 DEF QueueKept
<1>3. ASSUME NEW j \in Jobs, Joins(j, s)
      PROVE  Lists(queue'[s], Waiters(s)')
  <2>1. j \in Jobs \ Waiters(s)
    BY <1>3 DEF Joins, Waiters
  <2>2. Lists(Append(queue[s], j), Waiters(s) \cup {j})
    BY <1>1, <2>1, ListsAppend
  <2> QED
    BY <1>3, <2>2 DEF Joins
<1>4. ASSUME NEW j \in Jobs, Leaves(j, s)
      PROVE  Lists(queue'[s], Waiters(s)')
  <2>1. j \in Waiters(s)
    BY <1>4 DEF Leaves, Waiters
  <2>2. Lists(Without(queue[s], j), Waiters(s) \ {j})
    BY <1>1, <2>1, ListsWithout
  <2> QED
    BY <1>4, <2>2 DEF Leaves
<1> QED
  BY <1>2, <1>3, <1>4 DEF QueueStep

\* Such a step keeps the sum of free and owned slots.
LEMMA SlotStepKeepsSum ==
  ASSUME NEW s, value[s] \in Nat, Limit(s) \in Nat, AccountedAt(s), SlotStep(s)
  PROVE  AccountedAt(s)' /\ value'[s] \in Nat
<1> DEFINE H == Holders(s)
           H1 == Holders(s)'
<1>0. AccountedAt(s)' <=> value'[s] + Cardinality(H1) = Limit(s)
  BY DEF AccountedAt, Limit
<1>1. /\ H \in SUBSET Jobs /\ IsFiniteSet(H) /\ Cardinality(H) \in Nat
      /\ value[s] + Cardinality(H) = Limit(s)
  <2>1. IsFiniteSet(Jobs) /\ H \in SUBSET Jobs
    BY LimiterAssumption DEF Holders
  <2> QED
    BY <2>1, FS_Subset, FS_CardinalityType DEF AccountedAt
<1>2. \/ value'[s] = value[s] /\ H1 = H
      \/ \E x \in Jobs \ H : value[s] > 0 /\ value'[s] = value[s] - 1 /\ H1 = H \cup {x}
      \/ \E x \in H : value'[s] = value[s] + 1 /\ H1 = H \ {x}
      \/ \E x \in H, y \in Jobs \ H : value'[s] = value[s] /\ H1 = (H \ {x}) \cup {y}
  BY DEF SlotStep, Kept, Taken, Freed, HandedOver
<1> HIDE DEF H, H1
<1> SUFFICES value'[s] + Cardinality(H1) = Limit(s) /\ value'[s] \in Nat
  BY <1>0
<1>3. CASE value'[s] = value[s] /\ H1 = H
  BY <1>1, <1>3
<1>4. ASSUME NEW x \in Jobs \ H,
             value[s] > 0, value'[s] = value[s] - 1, H1 = H \cup {x}
      PROVE  value'[s] + Cardinality(H1) = Limit(s) /\ value'[s] \in Nat
  <2>1. Cardinality(H \cup {x}) = Cardinality(H) + 1
    BY <1>1, FS_AddElement
  <2> QED
    BY <1>1, <1>4, <2>1
<1>5. ASSUME NEW x \in H, value'[s] = value[s] + 1, H1 = H \ {x}
      PROVE  value'[s] + Cardinality(H1) = Limit(s) /\ value'[s] \in Nat
  <2>1. Cardinality(H \ {x}) = Cardinality(H) - 1
    BY <1>1, FS_RemoveElement
  <2> QED
    BY <1>1, <1>5, <2>1
<1>6. ASSUME NEW x \in H, NEW y \in Jobs \ H,
             value'[s] = value[s], H1 = (H \ {x}) \cup {y}
      PROVE  value'[s] + Cardinality(H1) = Limit(s) /\ value'[s] \in Nat
  <2>1. IsFiniteSet(H \ {x}) /\ Cardinality(H \ {x}) = Cardinality(H) - 1
    BY <1>1, FS_RemoveElement
  <2>2. Cardinality((H \ {x}) \cup {y}) = Cardinality(H \ {x}) + 1
    BY <2>1, FS_AddElement
  <2> QED
    BY <1>1, <1>6, <2>1, <2>2
<1> QED
  BY <1>2, <1>3, <1>4, <1>5, <1>6

\* Everything but value keeps its type.
OthersTyped ==
  /\ pc \in [Jobs -> {"idle", "told", "user", "global", "running", "done"}]
  /\ told \in [Jobs -> BOOLEAN]
  /\ future \in [Jobs -> {"none", "pending", "granted", "cancelled"}]
  /\ doomed \in [Jobs -> BOOLEAN]
  /\ DOMAIN queue = Semaphores /\ queue = [s \in Semaphores |-> queue[s]]
  /\ DOMAIN value = Semaphores /\ value = [s \in Semaphores |-> value[s]]

\* A step that treats every semaphore like that keeps the invariant.
LEMMA StepBySemaphore ==
  ASSUME IInv, OthersTyped', FutureInv', ToldInv',
         \A s \in Semaphores : SemaphoreStep(s)
  PROVE  IInv'
<1>1. ASSUME NEW s \in Semaphores
      PROVE  /\ Lists(queue'[s], Waiters(s)')
             /\ AccountedAt(s)' /\ value'[s] \in Nat
             /\ NoLostAt(s)'
  <2>1. /\ Lists(queue[s], Waiters(s)) /\ value[s] \in Nat /\ AccountedAt(s)
        /\ QueueStep(s) /\ SlotStep(s) /\ NoLostAt(s)'
    BY DEF IInv, TypeOK, QueueInv, SlotsAccounted, AccountedAt, SemaphoreStep
  <2>2. Limit(s) \in Nat
    BY LimiterAssumption DEF Limit
  <2> QED
    BY <2>1, <2>2, QueueStepLists, SlotStepKeepsSum
<1>2. QueueInv'
  BY <1>1 DEF QueueInv
<1>3. SlotsAccounted'
  BY <1>1 DEF SlotsAccounted, AccountedAt
<1>4. NoLostWakeUp'
  BY <1>1 DEF NoLostWakeUp, NoLostAt
<1>5. TypeOK'
  <2>1. \A s \in Semaphores : queue'[s] \in Seq(Jobs) /\ value'[s] \in Nat
    BY <1>1 DEF Lists
  <2>2. queue' \in [Semaphores -> Seq(Jobs)] /\ value' \in [Semaphores -> Nat]
    BY <2>1 DEF OthersTyped
  <2> QED
    BY <2>2 DEF OthersTyped, TypeOK
<1> QED
  BY <1>2, <1>3, <1>4, <1>5 DEF IInv

-----------------------------------------------------------------------------
(***************************************************************************)
(* The actions.                                                            *)
(***************************************************************************)

\* A user's semaphore is not the global one, and a job waits for one at most.
LEMMA Apart ==
  ASSUME NEW j \in Jobs
  PROVE  /\ Owner[j] \in Semaphores /\ Global \in Semaphores /\ Owner[j] # Global
         /\ \A s, t \in Semaphores : Waits(j, s) /\ Waits(j, t) => s = t
BY LimiterAssumption DEF Semaphores, Waits

\* What waking up does to the futures of the jobs that wait for s.
Unwoken(s, woken) == \A i \in Waiters(s) : FutureAfter(woken)[i] = future[i]

Wakes(y, s, woken) ==
  /\ y \in Waiters(s)
  /\ future[y] = "pending" /\ FutureAfter(woken)[y] = "granted"
  /\ \A i \in Waiters(s) \ {y} : FutureAfter(woken)[i] = future[i]

LEMMA Woken ==
  ASSUME TypeOK, QueueInv, NEW woken \in SUBSET Semaphores
  PROVE  /\ FutureAfter(woken) \in [Jobs -> {"none", "pending", "granted", "cancelled"}]
         /\ \A i \in Jobs :
              \/ FutureAfter(woken)[i] = future[i]
              \/ /\ pc[i] \in {"user", "global"}
                 /\ future[i] = "pending" /\ FutureAfter(woken)[i] = "granted"
         /\ \A s \in Semaphores :
              \/ s \notin woken /\ ~Given(s, woken) /\ Unwoken(s, woken)
              \/ /\ s \in woken /\ ~Given(s, woken) /\ Unwoken(s, woken)
                 /\ \A i \in Waiters(s) : future[i] # "pending"
              \/ /\ s \in woken /\ Given(s, woken)
                 /\ \E y \in Jobs : Wakes(y, s, woken)
<1> DEFINE f == FutureAfter(woken)
           F == {"none", "pending", "granted", "cancelled"}
<1>1. \A i \in Jobs : f[i] = IF \E s \in woken : i \in FirstPending(s)
                             THEN "granted" ELSE future[i]
  BY DEF FutureAfter
<1>2. ASSUME NEW s \in Semaphores, NEW i \in FirstPending(s)
      PROVE  i \in Waiters(s) /\ future[i] = "pending" /\ FirstPending(s) = {i}
  BY Picked
<1>3. future \in [Jobs -> F]
  BY DEF TypeOK
<1>4. f = [i \in Jobs |-> f[i]]
  BY DEF FutureAfter
<1> HIDE DEF f
<1>5. f \in [Jobs -> F]
  <2>1. \A i \in Jobs : f[i] \in F
    BY <1>1, <1>3
  <2> QED
    BY <1>4, <2>1
<1>6. ASSUME NEW i \in Jobs
      PROVE  \/ f[i] = future[i]
             \/ /\ pc[i] \in {"user", "global"}
                /\ future[i] = "pending" /\ f[i] = "granted"
  BY <1>1, <1>2 DEF Waiters, Waits
<1>7. ASSUME NEW s \in Semaphores, NEW i \in Waiters(s), i \notin FirstPending(s) \/ s \notin woken
      PROVE  f[i] = future[i]
  <2>1. ASSUME NEW t \in woken, i \in FirstPending(t)
        PROVE  FALSE
    <3>1. Waits(i, t) /\ Waits(i, s) /\ i \in Jobs
      BY <1>2, <2>1 DEF Waiters
    <3>2. t = s
      BY <3>1, Apart
    <3> QED
      BY <1>7, <2>1, <3>2
  <2> QED
    BY <1>1, <2>1 DEF Waiters
<1>8. ASSUME NEW s \in Semaphores
      PROVE  \/ /\ s \notin woken /\ ~Given(s, woken)
                /\ \A i \in Waiters(s) : f[i] = future[i]
             \/ /\ s \in woken /\ ~Given(s, woken)
                /\ \A i \in Waiters(s) : f[i] = future[i]
                /\ \A i \in Waiters(s) : future[i] # "pending"
             \/ /\ s \in woken /\ Given(s, woken)
                /\ \E y \in Jobs :
                     /\ y \in Waiters(s)
                     /\ future[y] = "pending" /\ f[y] = "granted"
                     /\ \A i \in Waiters(s) \ {y} : f[i] = future[i]
  <2>1. CASE s \notin woken
    BY <1>7, <2>1 DEF Given
  <2>2. CASE s \in woken /\ FirstPending(s) = {}
    <3>1. \A i \in Waiters(s) : future[i] # "pending"
      BY <2>2, Picked
    <3>2. \A i \in Waiters(s) : f[i] = future[i]
      BY <1>7, <2>2
    <3> QED
      BY <2>2, <3>1, <3>2 DEF Given
  <2>3. CASE s \in woken /\ FirstPending(s) # {}
    <3>1. PICK y \in FirstPending(s) : TRUE
      BY <2>3
    <3>2. y \in Waiters(s) /\ y \in Jobs /\ future[y] = "pending" /\ FirstPending(s) = {y}
      BY <1>2 DEF Waiters
    <3>3. f[y] = "granted"
      BY <1>1, <2>3, <3>1, <3>2
    <3>4. \A i \in Waiters(s) \ {y} : f[i] = future[i]
      BY <1>7, <3>2
    <3> QED
      BY <2>3, <3>2, <3>3, <3>4 DEF Given
  <2> QED
    BY <2>1, <2>2, <2>3
<1>9. \A s \in Semaphores :
        \/ s \notin woken /\ ~Given(s, woken) /\ Unwoken(s, woken)
        \/ /\ s \in woken /\ ~Given(s, woken) /\ Unwoken(s, woken)
           /\ \A i \in Waiters(s) : future[i] # "pending"
        \/ /\ s \in woken /\ Given(s, woken)
           /\ \E y \in Jobs : Wakes(y, s, woken)
  BY <1>8 DEF f, Unwoken, Wakes
<1> QED
  BY <1>5, <1>6, <1>9 DEF f

\* What locked() excludes.
LEMMA NotLocked ==
  ASSUME TypeOK, QueueInv, NEW s \in Semaphores, ~Locked(s)
  PROVE  value[s] > 0 /\ \A i \in Waiters(s) : future[i] = "cancelled"
<1>1. value[s] \in Nat /\ value[s] # 0
  BY DEF TypeOK, Locked
<1>2. ASSUME NEW i \in Waiters(s)
      PROVE  future[i] = "cancelled"
  <2>1. PICK n \in DOMAIN queue[s] : queue[s][n] = i
    BY DEF QueueInv, Lists
  <2> QED
    BY <2>1 DEF Locked
<1> QED
  BY <1>1, <1>2

\* A job that queues behind a locked semaphore misses no wake-up.
LEMMA LockedIsSafe ==
  ASSUME TypeOK, QueueInv, FutureInv, NoLostWakeUp,
         NEW s \in Semaphores, Locked(s), value[s] > 0
  PROVE  \E i \in Waiters(s) : future[i] = "granted"
<1>1. PICK n \in DOMAIN queue[s] : future[queue[s][n]] # "cancelled"
  BY DEF Locked
<1>2. queue[s][n] \in Waiters(s)
  BY DEF QueueInv, Lists
<1> DEFINE i == queue[s][n]
<1>3. i \in Jobs /\ Waits(i, s) /\ pc[i] \in {"user", "global"}
  BY <1>2 DEF Waiters, Waits
<1>4. CASE future[i] = "pending"
  BY <1>3, <1>4 DEF NoLostWakeUp, Waiters
<1>5. CASE future[i] = "granted"
  BY <1>2, <1>5
<1> QED
  BY <1>1, <1>3, <1>4, <1>5 DEF TypeOK, FutureInv

\* A step that does not touch a semaphore.
Untouched(s) ==
  /\ queue'[s] = queue[s] /\ value'[s] = value[s]
  /\ \A i \in Jobs :
       /\ Waits(i, s)' <=> Waits(i, s)
       /\ Holds(i, s)' <=> Holds(i, s)
       /\ Waits(i, s) => future'[i] = future[i]

LEMMA UntouchedStep ==
  ASSUME IInv, NEW s \in Semaphores, Untouched(s)
  PROVE  SemaphoreStep(s)
<1>1. QueueStep(s)
  BY DEF QueueStep, QueueKept, Untouched, Waiters
<1>2. SlotStep(s)
  BY DEF SlotStep, Kept, Untouched, Holders
<1>3. NoLostAt(s)'
  BY DEF IInv, NoLostWakeUp, NoLostAt, Untouched
<1> QED
  BY <1>1, <1>2, <1>3 DEF SemaphoreStep

\* The job's user is told that it will queue.
LEMMA TellUserStep ==
  ASSUME IInv, NEW j \in Jobs, TellUser(j)
  PROVE  IInv'
<1> USE DEF TellUser
<1>1. TypeOK
  BY DEF IInv
<1>2. OthersTyped'
  BY <1>1 DEF TypeOK, OthersTyped
<1>3. FutureInv' /\ ToldInv'
  BY <1>1 DEF IInv, TypeOK, FutureInv, ToldInv
<1>4. ASSUME NEW s \in Semaphores
      PROVE  Untouched(s)
  BY <1>1 DEF TypeOK, Untouched, Waits, Holds
<1> QED
  BY <1>2, <1>3, <1>4, UntouchedStep, StepBySemaphore

\* A job is cancelled while its user is told.
LEMMA CancelToldStep ==
  ASSUME IInv, NEW j \in Jobs, CancelTold(j)
  PROVE  IInv'
<1> USE DEF CancelTold
<1>1. TypeOK
  BY DEF IInv
<1>2. OthersTyped'
  BY <1>1 DEF TypeOK, OthersTyped
<1>3. FutureInv' /\ ToldInv'
  BY <1>1 DEF IInv, TypeOK, FutureInv, ToldInv
<1>4. ASSUME NEW s \in Semaphores
      PROVE  Untouched(s)
  BY <1>1 DEF TypeOK, Untouched, Waits, Holds
<1> QED
  BY <1>2, <1>3, <1>4, UntouchedStep, StepBySemaphore

\* A waiting job is cancelled: nothing moves until it is resumed.
LEMMA CancelWaitingStep ==
  ASSUME IInv, NEW j \in Jobs, CancelWaiting(j)
  PROVE  IInv'
<1> USE DEF CancelWaiting
<1>1. TypeOK
  BY DEF IInv
<1>2. OthersTyped'
  BY <1>1 DEF TypeOK, OthersTyped
<1>3. FutureInv' /\ ToldInv'
  BY <1>1 DEF IInv, TypeOK, FutureInv, ToldInv
<1>4. ASSUME NEW s \in Semaphores
      PROVE  SemaphoreStep(s)
  <2>1. \A i \in Jobs : /\ Waits(i, s)' <=> Waits(i, s)
                        /\ future[i] = "granted" <=> future'[i] = "granted"
                        /\ future'[i] = "pending" => future[i] = "pending"
    BY <1>1 DEF TypeOK, Waits
  <2>2. QueueStep(s)
    BY <2>1 DEF QueueStep, QueueKept, Waiters
  <2>3. SlotStep(s)
    BY <2>1 DEF SlotStep, Kept, Holders, Holds
  <2>4. NoLostAt(s)'
    BY <2>1 DEF IInv, NoLostWakeUp, NoLostAt
  <2> QED
    BY <2>2, <2>3, <2>4 DEF SemaphoreStep
<1> QED
  BY <1>2, <1>3, <1>4, StepBySemaphore

\* A job that must wait was told to.
LEMMA LockedWasTold ==
  ASSUME NEW j \in Jobs, AtAcquire(j), Locked(Owner[j]) \/ Locked(Global)
  PROVE  pc[j] = "told"
BY DEF AtAcquire, MustWait

\* A job queues for its user's slot.
LEMMA QueueForUserStep ==
  ASSUME IInv, NEW j \in Jobs, QueueForUser(j)
  PROVE  IInv'
<1> DEFINE o == Owner[j]
<1>1. /\ TypeOK /\ QueueInv /\ FutureInv /\ NoLostWakeUp
      /\ o \in Semaphores /\ Global \in Semaphores /\ o # Global
      /\ pc[j] = "told" /\ Locked(o)
      /\ pc' = [pc EXCEPT ![j] = "user"]
      /\ queue' = [queue EXCEPT ![o] = Append(@, j)]
      /\ future' = [future EXCEPT ![j] = "pending"]
      /\ UNCHANGED <<told, value, doomed>>
  BY Apart, LockedWasTold DEF IInv, QueueForUser
<1> HIDE DEF o
<1>2. OthersTyped'
  BY <1>1 DEF TypeOK, OthersTyped
<1>3. FutureInv' /\ ToldInv'
  BY <1>1 DEF IInv, TypeOK, FutureInv, ToldInv
<1>4. ASSUME NEW s \in Semaphores
      PROVE  \A i \in Jobs :
               /\ Waits(i, s)' <=> Waits(i, s) \/ (i = j /\ s = o)
               /\ Holds(i, s)' <=> Holds(i, s)
               /\ i # j => future'[i] = future[i]
  BY <1>1 DEF TypeOK, Waits, Holds, o
<1>5. ~Waits(j, o) /\ ~Waits(j, Global)
  BY <1>1 DEF Waits
<1>6. ASSUME NEW s \in Semaphores, s = o
      PROVE  SemaphoreStep(s)
  <2>1. QueueStep(s)
    <3>1. queue'[s] = Append(queue[s], j)
      BY <1>1, <1>6 DEF TypeOK
    <3>2. ~Waits(j, s) /\ Waiters(s)' = Waiters(s) \cup {j}
      BY <1>4, <1>5, <1>6 DEF Waiters
    <3> QED
      BY <3>1, <3>2 DEF QueueStep, Joins
  <2>2. SlotStep(s)
    BY <1>1, <1>4, <1>6 DEF SlotStep, Kept, Holders
  <2>3. CASE value[s] > 0
    <3>1. PICK i \in Waiters(s) : future[i] = "granted"
      BY <1>1, <1>6, <2>3, LockedIsSafe
    <3>2. i \in Jobs /\ i # j /\ Waits(i, s)' /\ future'[i] = "granted"
      BY <1>4, <1>5, <1>6, <3>1 DEF Waiters
    <3> QED
      BY <2>1, <2>2, <3>2 DEF SemaphoreStep, NoLostAt
  <2>4. CASE ~(value[s] > 0)
    BY <1>1, <1>6, <2>1, <2>2, <2>4 DEF SemaphoreStep, NoLostAt
  <2> QED
    BY <2>3, <2>4
<1>7. ASSUME NEW s \in Semaphores \ {o}
      PROVE  Untouched(s)
  <2>1. s # o /\ queue'[s] = queue[s] /\ value'[s] = value[s]
    BY <1>1 DEF TypeOK
  <2>2. ~Waits(j, s)
    BY <1>1 DEF Waits
  <2> QED
    BY <1>4, <2>1, <2>2 DEF Untouched
<1> QED
  BY <1>2, <1>3, <1>6, <1>7, UntouchedStep, StepBySemaphore

\* A job takes its user's slot and queues for the global one.
LEMMA QueueForGlobalStep ==
  ASSUME IInv, NEW j \in Jobs, QueueForGlobal(j)
  PROVE  IInv'
<1> DEFINE o == Owner[j]
<1>1. /\ TypeOK /\ QueueInv /\ FutureInv /\ NoLostWakeUp
      /\ o \in Semaphores /\ Global \in Semaphores /\ o # Global
      /\ pc[j] = "told" /\ ~Locked(o) /\ Locked(Global)
      /\ pc' = [pc EXCEPT ![j] = "global"]
      /\ value' = [value EXCEPT ![o] = @ - 1]
      /\ queue' = [queue EXCEPT ![Global] = Append(@, j)]
      /\ future' = [future EXCEPT ![j] = "pending"]
      /\ UNCHANGED <<told, doomed>>
  BY Apart, LockedWasTold DEF IInv, QueueForGlobal
<1> HIDE DEF o
<1>2. OthersTyped'
  BY <1>1 DEF TypeOK, OthersTyped
<1>3. FutureInv' /\ ToldInv'
  BY <1>1 DEF IInv, TypeOK, FutureInv, ToldInv
<1>4. ASSUME NEW s \in Semaphores
      PROVE  \A i \in Jobs :
               /\ Waits(i, s)' <=> Waits(i, s) \/ (i = j /\ s = Global)
               /\ Holds(i, s)' <=> Holds(i, s) \/ (i = j /\ s = o)
               /\ i # j => future'[i] = future[i]
  BY <1>1 DEF TypeOK, Waits, Holds, o
<1>5. ASSUME NEW s \in Semaphores
      PROVE  ~Waits(j, s) /\ ~Holds(j, s)
  BY <1>1 DEF Waits, Holds
<1>6. SemaphoreStep(o)
  <2>1. value[o] > 0 /\ \A i \in Waiters(o) : future[i] = "cancelled"
    BY <1>1, NotLocked
  <2>2. QueueStep(o)
    BY <1>1, <1>4 DEF TypeOK, QueueStep, QueueKept, Waiters
  <2>3. SlotStep(o)
    <3>1. j \in Jobs \ Holders(o) /\ Holders(o)' = Holders(o) \cup {j}
      BY <1>1, <1>4, <1>5 DEF Holders
    <3>2. value'[o] = value[o] - 1
      BY <1>1 DEF TypeOK
    <3> QED
      BY <2>1, <3>1, <3>2 DEF SlotStep, Taken
  <2>4. \A i \in Jobs : Waits(i, o)' => future'[i] = "cancelled"
    BY <1>1, <1>4, <1>5, <2>1 DEF Waiters
  <2> QED
    BY <2>2, <2>3, <2>4 DEF SemaphoreStep, NoLostAt
<1>7. SemaphoreStep(Global)
  <2>1. QueueStep(Global)
    <3>1. queue'[Global] = Append(queue[Global], j)
      BY <1>1 DEF TypeOK
    <3>2. ~Waits(j, Global) /\ Waiters(Global)' = Waiters(Global) \cup {j}
      BY <1>1, <1>4, <1>5 DEF Waiters
    <3> QED
      BY <3>1, <3>2 DEF QueueStep, Joins
  <2>2. value'[Global] = value[Global]
    BY <1>1 DEF TypeOK
  <2>3. SlotStep(Global)
    BY <1>1, <1>4, <2>2 DEF SlotStep, Kept, Holders
  <2>4. CASE value[Global] > 0
    <3>1. PICK i \in Waiters(Global) : future[i] = "granted"
      BY <1>1, <2>4, LockedIsSafe
    <3>2. i \in Jobs /\ i # j /\ Waits(i, Global)' /\ future'[i] = "granted"
      BY <1>1, <1>4, <1>5, <3>1 DEF Waiters
    <3> QED
      BY <2>1, <2>3, <3>2 DEF SemaphoreStep, NoLostAt
  <2>5. CASE ~(value[Global] > 0)
    BY <2>1, <2>2, <2>3, <2>5 DEF SemaphoreStep, NoLostAt
  <2> QED
    BY <2>4, <2>5
<1>8. ASSUME NEW s \in Semaphores \ {o, Global}
      PROVE  Untouched(s)
  <2>1. s # o /\ s # Global /\ queue'[s] = queue[s] /\ value'[s] = value[s]
    BY <1>1 DEF TypeOK
  <2> QED
    BY <1>4, <1>5, <2>1 DEF Untouched
<1> QED
  BY <1>2, <1>3, <1>6, <1>7, <1>8, UntouchedStep, StepBySemaphore

\* A job takes both slots at once.
LEMMA ProceedStep ==
  ASSUME IInv, NEW j \in Jobs, Proceed(j)
  PROVE  IInv'
<1> DEFINE o == Owner[j]
<1>1. /\ TypeOK /\ QueueInv /\ FutureInv /\ NoLostWakeUp
      /\ o \in Semaphores /\ Global \in Semaphores /\ o # Global
      /\ pc[j] \in {"idle", "told"} /\ ~Locked(o) /\ ~Locked(Global)
      /\ pc' = [pc EXCEPT ![j] = "running"]
      /\ value' = [value EXCEPT ![o] = @ - 1, ![Global] = @ - 1]
      /\ UNCHANGED <<told, queue, future, doomed>>
  BY Apart DEF IInv, Proceed, AtAcquire
<1> HIDE DEF o
<1>2. OthersTyped'
  BY <1>1 DEF TypeOK, OthersTyped
<1>3. FutureInv' /\ ToldInv'
  BY <1>1 DEF IInv, TypeOK, FutureInv, ToldInv
<1>4. ASSUME NEW s \in Semaphores
      PROVE  \A i \in Jobs :
               /\ Waits(i, s)' <=> Waits(i, s)
               /\ Holds(i, s)' <=> Holds(i, s) \/ (i = j /\ s \in {o, Global})
  BY <1>1 DEF TypeOK, Waits, Holds, o
<1>5. ASSUME NEW s \in Semaphores
      PROVE  ~Waits(j, s) /\ ~Holds(j, s)
  BY <1>1 DEF Waits, Holds
<1>6. ASSUME NEW s \in {o, Global}
      PROVE  SemaphoreStep(s)
  <2>1. s \in Semaphores /\ value[s] > 0 /\ \A i \in Waiters(s) : future[i] = "cancelled"
    BY <1>1, NotLocked
  <2>2. QueueStep(s)
    BY <1>1, <1>4, <2>1 DEF TypeOK, QueueStep, QueueKept, Waiters
  <2>3. SlotStep(s)
    <3>1. j \in Jobs \ Holders(s) /\ Holders(s)' = Holders(s) \cup {j}
      BY <1>4, <1>5, <2>1 DEF Holders
    <3>2. value'[s] = value[s] - 1
      BY <1>1, <2>1 DEF TypeOK
    <3> QED
      BY <2>1, <3>1, <3>2 DEF SlotStep, Taken
  <2>4. \A i \in Jobs : Waits(i, s)' => future'[i] = "cancelled"
    BY <1>1, <1>4, <2>1 DEF Waiters
  <2> QED
    BY <2>2, <2>3, <2>4 DEF SemaphoreStep, NoLostAt
<1>7. ASSUME NEW s \in Semaphores \ {o, Global}
      PROVE  Untouched(s)
  <2>1. s # o /\ s # Global /\ queue'[s] = queue[s] /\ value'[s] = value[s]
    BY <1>1 DEF TypeOK
  <2> QED
    BY <1>1, <1>4, <1>5, <2>1 DEF Untouched
<1> QED
  BY <1>2, <1>3, <1>6, <1>7, UntouchedStep, StepBySemaphore

\* What holds of every job but the one that moves.
OthersStay(j, s) ==
  \A i \in Jobs \ {j} :
    /\ Waits(i, s)' <=> Waits(i, s)
    /\ Waits(i, s) => /\ Holds(i, s) <=> future[i] = "granted"
                      /\ Holds(i, s)' <=> future'[i] = "granted"
    /\ ~Waits(i, s) => (Holds(i, s)' <=> Holds(i, s))

LEMMA OthersDoStay ==
  ASSUME TypeOK, NEW j \in Jobs, NEW a, pc' = [pc EXCEPT ![j] = a],
         NEW s \in Semaphores
  PROVE  OthersStay(j, s)
<1>1. ASSUME NEW i \in Jobs \ {j}
      PROVE  pc'[i] = pc[i] /\ Owner[i] # Global
  BY Apart DEF TypeOK
<1>2. ASSUME NEW i \in Jobs \ {j}
      PROVE  /\ Waits(i, s)' <=> Waits(i, s)
             /\ Waits(i, s) => /\ Holds(i, s) <=> future[i] = "granted"
                               /\ Holds(i, s)' <=> future'[i] = "granted"
             /\ ~Waits(i, s) => (Holds(i, s)' <=> Holds(i, s))
  BY <1>1 DEF Waits, Holds
<1> QED
  BY <1>2 DEF OthersStay

\* Semaphores that are neither waited for by the job that moves nor woken.
LEMMA ElsewhereStep ==
  ASSUME IInv, NEW j \in Jobs, NEW a, pc' = [pc EXCEPT ![j] = a],
         NEW woken \in SUBSET Semaphores, NEW s \in Semaphores \ woken,
         \A i \in Jobs \ {j} : future'[i] = FutureAfter(woken)[i],
         ~Waits(j, s), ~Waits(j, s)', Holds(j, s)' <=> Holds(j, s),
         queue'[s] = queue[s], value'[s] = value[s]
  PROVE  SemaphoreStep(s)
<1>1. TypeOK /\ QueueInv
  BY DEF IInv
<1>2. OthersStay(j, s) /\ Unwoken(s, woken)
  BY <1>1, OthersDoStay, Woken
<1>3. \A i \in Jobs : Waits(i, s) => i # j /\ future'[i] = future[i]
  BY <1>2 DEF Unwoken, Waiters
<1>4. Untouched(s)
  BY <1>2, <1>3 DEF Untouched, OthersStay
<1> QED
  BY <1>4, UntouchedStep

\* A resumed job leaves the queue with its slot and passes on what is left.
LEMMA ResumedStep ==
  ASSUME IInv, NEW j \in Jobs, NEW a, pc' = [pc EXCEPT ![j] = a],
         NEW s \in Semaphores, Waits(j, s), future[j] = "granted",
         \A i \in Jobs \ {j} : future'[i] = FutureAfter(LeftOver(s))[i],
         ~Waits(j, s)', Holds(j, s)',
         queue'[s] = Without(queue[s], j),
         value'[s] = ValueAfter({}, LeftOver(s))[s]
  PROVE  SemaphoreStep(s)
<1> DEFINE woken == LeftOver(s)
<1>1. TypeOK /\ QueueInv
  BY DEF IInv
<1>2. OthersStay(j, s)
  BY <1>1, OthersDoStay
<1>3. woken \in SUBSET Semaphores /\ value[s] \in Nat
      /\ woken = IF value[s] > 0 THEN {s} ELSE {}
  BY <1>1 DEF LeftOver, TypeOK
<1>4. value'[s] = IF Given(s, woken) THEN value[s] - 1 ELSE value[s]
  BY <1>3 DEF ValueAfter
<1> HIDE DEF woken
<1>5. QueueStep(s)
  BY <1>2 DEF QueueStep, Leaves, Waiters, OthersStay
<1>6. Holds(j, s)
  BY DEF Holds
<1>7. CASE /\ s \in woken /\ Given(s, woken)
           /\ \E y \in Jobs : Wakes(y, s, woken)
  <2>1. PICK y \in Jobs : Wakes(y, s, woken)
    BY <1>7
  <2>2. /\ y # j /\ Waits(y, s) /\ future[y] = "pending" /\ future'[y] = "granted"
        /\ \A i \in Jobs \ {j, y} : Waits(i, s) => future'[i] = future[i]
    BY <2>1 DEF Wakes, Waiters, woken
  <2>3. y \in Jobs \ Holders(s) /\ Holders(s)' = Holders(s) \cup {y}
    BY <1>2, <1>6, <2>2 DEF Holders, OthersStay
  <2>4. value[s] > 0 /\ value'[s] = value[s] - 1
    BY <1>3, <1>4, <1>7
  <2>5. SlotStep(s)
    BY <2>3, <2>4 DEF SlotStep, Taken
  <2>6. Waits(y, s)'
    BY <1>2, <2>2 DEF OthersStay
  <2>7. NoLostAt(s)'
    BY <2>2, <2>6 DEF NoLostAt
  <2> QED
    BY <1>5, <2>5, <2>7 DEF SemaphoreStep
<1>8. CASE /\ ~Given(s, woken) /\ Unwoken(s, woken)
           /\ s \notin woken \/ \A i \in Waiters(s) : future[i] # "pending"
  <2>1. \A i \in Jobs \ {j} : Waits(i, s) => future'[i] = future[i]
    BY <1>8 DEF Unwoken, Waiters, woken
  <2>2. Holders(s)' = Holders(s)
    BY <1>2, <1>6, <2>1 DEF Holders, OthersStay
  <2>3. SlotStep(s)
    BY <1>4, <1>8, <2>2 DEF SlotStep, Kept
  <2>4. value'[s] = value[s]
    BY <1>4, <1>8
  <2>5. CASE s \notin woken
    <3>1. ~(value'[s] > 0)
      BY <1>3, <2>4, <2>5
    <3> QED
      BY <1>5, <2>3, <3>1 DEF SemaphoreStep, NoLostAt
  <2>6. CASE \A i \in Waiters(s) : future[i] # "pending"
    <3>1. \A i \in Jobs : Waits(i, s)' => future'[i] # "pending"
      BY <1>2, <2>1, <2>6 DEF OthersStay, Waiters
    <3> QED
      BY <1>5, <2>3, <3>1 DEF SemaphoreStep, NoLostAt
  <2> QED
    BY <1>8, <2>5, <2>6
<1> QED
  BY <1>1, <1>3, <1>7, <1>8, Woken

\* A job gives a slot back, which is handed over or becomes free.
LEMMA ReleasedStep ==
  ASSUME IInv, NEW j \in Jobs, NEW a, pc' = [pc EXCEPT ![j] = a],
         NEW freed \in SUBSET Semaphores, NEW s \in freed, Release(freed),
         Holds(j, s), Waits(j, s) => future[j] = "granted",
         ~Waits(j, s)', ~Holds(j, s)', QueueStep(s)
  PROVE  SemaphoreStep(s)
<1>1. TypeOK /\ QueueInv
  BY DEF IInv
<1>2. OthersStay(j, s) /\ s \in Semaphores
  BY <1>1, OthersDoStay
<1>3. value'[s] = IF Given(s, freed) THEN value[s] ELSE value[s] + 1
  BY <1>2 DEF Release, ValueAfter
<1>4. future' = FutureAfter(freed)
  BY DEF Release
<1>5. CASE Given(s, freed) /\ \E y \in Jobs : Wakes(y, s, freed)
  <2>1. PICK y \in Jobs : Wakes(y, s, freed)
    BY <1>5
  <2>2. /\ y # j /\ Waits(y, s) /\ future[y] = "pending" /\ future'[y] = "granted"
        /\ \A i \in Jobs \ {j, y} : Waits(i, s) => future'[i] = future[i]
    BY <1>4, <2>1 DEF Wakes, Waiters
  <2>3. /\ j \in Holders(s) /\ y \in Jobs \ Holders(s)
        /\ Holders(s)' = (Holders(s) \ {j}) \cup {y}
    BY <1>2, <2>2 DEF Holders, OthersStay
  <2>4. SlotStep(s)
    BY <1>3, <1>5, <2>3 DEF SlotStep, HandedOver
  <2>5. Waits(y, s)'
    BY <1>2, <2>2 DEF OthersStay
  <2>6. NoLostAt(s)'
    BY <2>2, <2>5 DEF NoLostAt
  <2> QED
    BY <2>4, <2>6 DEF SemaphoreStep
<1>6. CASE /\ ~Given(s, freed) /\ Unwoken(s, freed)
           /\ \A i \in Waiters(s) : future[i] # "pending"
  <2>1. \A i \in Jobs \ {j} : Waits(i, s) => future'[i] = future[i]
    BY <1>4, <1>6 DEF Unwoken, Waiters
  <2>2. j \in Holders(s) /\ Holders(s)' = Holders(s) \ {j}
    BY <1>2, <2>1 DEF Holders, OthersStay
  <2>3. SlotStep(s)
    BY <1>3, <1>6, <2>2 DEF SlotStep, Freed
  <2>4. \A i \in Jobs : Waits(i, s)' => future'[i] # "pending"
    BY <1>2, <1>6, <2>1 DEF OthersStay, Waiters
  <2> QED
    BY <2>3, <2>4 DEF SemaphoreStep, NoLostAt
<1> QED
  BY <1>1, <1>2, <1>5, <1>6, Woken

\* The types and the futures after a step that wakes waiters.
LEMMA WakingKeepsFutures ==
  ASSUME IInv, NEW j \in Jobs,
         NEW a \in {"global", "running", "done"}, pc' = [pc EXCEPT ![j] = a],
         NEW f \in {"none", "pending", "granted", "cancelled"},
         NEW woken \in SUBSET Semaphores,
         future' = [FutureAfter(woken) EXCEPT ![j] = f],
         a = "global" => f # "none" /\ told[j], doomed[j] => a = "done",
         UNCHANGED <<told, doomed>>,
         DOMAIN queue' = Semaphores, queue' = [s \in Semaphores |-> queue'[s]],
         DOMAIN value' = Semaphores, value' = [s \in Semaphores |-> value'[s]]
  PROVE  /\ OthersTyped' /\ FutureInv' /\ ToldInv'
         /\ future'[j] = f
         /\ \A i \in Jobs \ {j} : future'[i] = FutureAfter(woken)[i]
<1> DEFINE g == FutureAfter(woken)
<1>1. /\ g \in [Jobs -> {"none", "pending", "granted", "cancelled"}]
      /\ \A i \in Jobs :
           \/ g[i] = future[i]
           \/ pc[i] \in {"user", "global"} /\ future[i] = "pending" /\ g[i] = "granted"
  BY Woken DEF IInv
<1> HIDE DEF g
<1>2. future' = [g EXCEPT ![j] = f]
  BY DEF g
<1>3. future'[j] = f /\ \A i \in Jobs \ {j} : future'[i] = g[i]
  BY <1>1, <1>2
<1>4. /\ pc' \in [Jobs -> {"idle", "told", "user", "global", "running", "done"}]
      /\ pc'[j] = a /\ \A i \in Jobs \ {j} : pc'[i] = pc[i]
  BY DEF IInv, TypeOK
<1>5. OthersTyped'
  <2>1. future' \in [Jobs -> {"none", "pending", "granted", "cancelled"}]
    BY <1>1, <1>2
  <2>2. told' \in [Jobs -> BOOLEAN] /\ doomed' \in [Jobs -> BOOLEAN]
    BY DEF IInv, TypeOK
  <2> QED
    BY <1>4, <2>1, <2>2, Zenon DEF OthersTyped
<1>6. ASSUME NEW i \in Jobs
      PROVE  /\ pc'[i] \in {"user", "global"} => future'[i] # "none"
             /\ doomed'[i] /\ pc'[i] # "done" =>
                  pc'[i] \in {"user", "global"} /\ future'[i] = "granted"
             /\ pc'[i] \in {"told", "user", "global"} => told'[i]
  <2>1. CASE i = j
    BY <1>3, <1>4, <2>1
  <2>2. CASE i # j
    BY <1>1, <1>3, <1>4, <2>2 DEF IInv, FutureInv, ToldInv
  <2> QED
    BY <2>1, <2>2
<1> QED
  BY <1>3, <1>5, <1>6 DEF FutureInv, ToldInv, g

\* ... which LeftOver and release always do.
LEMMA ValuesAreTyped ==
  ASSUME NEW freed, NEW woken
  PROVE  /\ DOMAIN ValueAfter(freed, woken) = Semaphores
         /\ ValueAfter(freed, woken) = [s \in Semaphores |-> ValueAfter(freed, woken)[s]]
BY DEF ValueAfter

\* A job resumes with its user's slot and queues for the global one.
LEMMA ResumeToGlobalStep ==
  ASSUME IInv, NEW j \in Jobs, ResumeToGlobal(j)
  PROVE  IInv'
<1> DEFINE woken == LeftOver(Owner[j])
<1>1. /\ TypeOK /\ QueueInv /\ FutureInv /\ NoLostWakeUp
      /\ Owner[j] \in Semaphores /\ Global \in Semaphores /\ Owner[j] # Global
      /\ pc[j] = "user" /\ future[j] = "granted" /\ ~doomed[j] /\ told[j]
      /\ Locked(Global)
      /\ pc' = [pc EXCEPT ![j] = "global"]
      /\ queue' = [queue EXCEPT ![Owner[j]] = Without(@, j), ![Global] = Append(@, j)]
      /\ value' = ValueAfter({}, woken)
      /\ future' = [FutureAfter(woken) EXCEPT ![j] = "pending"]
      /\ UNCHANGED <<told, doomed>>
  BY Apart DEF IInv, ResumeToGlobal, ToldInv
<1>2. woken \in SUBSET {Owner[j]} /\ woken \in SUBSET Semaphores
  BY <1>1 DEF LeftOver
<1> HIDE DEF woken
<1>3. /\ OthersTyped' /\ FutureInv' /\ ToldInv'
      /\ future'[j] = "pending"
      /\ \A i \in Jobs \ {j} : future'[i] = FutureAfter(woken)[i]
  <2>1. /\ DOMAIN queue' = Semaphores /\ queue' = [s \in Semaphores |-> queue'[s]]
        /\ DOMAIN value' = Semaphores /\ value' = [s \in Semaphores |-> value'[s]]
    BY <1>1, ValuesAreTyped DEF TypeOK
  <2> QED
    BY <1>1, <1>2, <2>1, WakingKeepsFutures
<1>4. pc'[j] = "global"
  BY <1>1 DEF TypeOK
<1>5. ASSUME NEW s \in Semaphores, s = Owner[j]
      PROVE  SemaphoreStep(s)
  <2>1. Waits(j, s) /\ ~Waits(j, s)' /\ Holds(j, s)'
    BY <1>1, <1>4, <1>5 DEF Waits, Holds
  <2>2. queue'[s] = Without(queue[s], j)
    BY <1>1, <1>5 DEF TypeOK
  <2>3. value'[s] = ValueAfter({}, LeftOver(s))[s]
    BY <1>1, <1>5 DEF woken
  <2>4. \A i \in Jobs \ {j} : future'[i] = FutureAfter(LeftOver(s))[i]
    BY <1>3, <1>5 DEF woken
  <2> QED
    BY <1>1, <2>1, <2>2, <2>3, <2>4, ResumedStep
<1>6. SemaphoreStep(Global)
  <2>1. OthersStay(j, Global) /\ Unwoken(Global, woken) /\ ~Given(Global, woken)
    BY <1>1, <1>2, OthersDoStay, Woken
  <2>2. /\ ~Waits(j, Global) /\ Waits(j, Global)'
        /\ ~Holds(j, Global) /\ ~Holds(j, Global)'
    BY <1>1, <1>3, <1>4 DEF Waits, Holds
  <2>3. \A i \in Jobs \ {j} : Waits(i, Global) => future'[i] = future[i]
    BY <1>3, <2>1 DEF Unwoken, Waiters
  <2>4. QueueStep(Global)
    <3>1. queue'[Global] = Append(queue[Global], j)
      BY <1>1 DEF TypeOK
    <3>2. Waiters(Global)' = Waiters(Global) \cup {j}
      BY <2>1, <2>2 DEF Waiters, OthersStay
    <3> QED
      BY <2>2, <3>1, <3>2 DEF QueueStep, Joins
  <2>5. value'[Global] = value[Global]
    BY <1>1, <1>2, <2>1 DEF ValueAfter
  <2>6. SlotStep(Global)
    <3>1. Holders(Global)' = Holders(Global)
      BY <2>1, <2>2, <2>3 DEF Holders, OthersStay
    <3> QED
      BY <2>5, <3>1 DEF SlotStep, Kept
  <2>7. CASE value[Global] > 0
    <3>1. PICK i \in Waiters(Global) : future[i] = "granted"
      BY <1>1, <2>7, LockedIsSafe
    <3>2. i \in Jobs /\ Waits(i, Global)' /\ future'[i] = "granted"
      BY <2>1, <2>2, <2>3, <3>1 DEF Waiters, OthersStay
    <3> QED
      BY <2>4, <2>6, <3>2 DEF SemaphoreStep, NoLostAt
  <2>8. CASE ~(value[Global] > 0)
    BY <2>4, <2>5, <2>6, <2>8 DEF SemaphoreStep, NoLostAt
  <2> QED
    BY <2>7, <2>8
<1>7. ASSUME NEW s \in Semaphores \ {Owner[j], Global}
      PROVE  SemaphoreStep(s)
  <2>1. ~Waits(j, s) /\ ~Waits(j, s)' /\ ~Holds(j, s) /\ ~Holds(j, s)'
    BY <1>1, <1>4 DEF Waits, Holds
  <2>2. s \in Semaphores \ woken
    BY <1>2
  <2>3. queue'[s] = queue[s]
    BY <1>1 DEF TypeOK
  <2>4. value'[s] = value[s]
    BY <1>1, <1>2, <2>2 DEF ValueAfter, Given
  <2> QED
    BY <1>1, <1>2, <1>3, <2>1, <2>2, <2>3, <2>4, ElsewhereStep
<1> QED
  BY <1>3, <1>5, <1>6, <1>7, StepBySemaphore

\* A job resumes with its user's slot and takes the global one at once.
LEMMA ResumeAndProceedStep ==
  ASSUME IInv, NEW j \in Jobs, ResumeAndProceed(j)
  PROVE  IInv'
<1> DEFINE woken == LeftOver(Owner[j])
<1>1. /\ TypeOK /\ QueueInv /\ FutureInv /\ NoLostWakeUp
      /\ Owner[j] \in Semaphores /\ Global \in Semaphores /\ Owner[j] # Global
      /\ pc[j] = "user" /\ future[j] = "granted" /\ ~doomed[j]
      /\ ~Locked(Global)
      /\ pc' = [pc EXCEPT ![j] = "running"]
      /\ queue' = [queue EXCEPT ![Owner[j]] = Without(@, j)]
      /\ value' = [ValueAfter({}, woken) EXCEPT ![Global] = @ - 1]
      /\ future' = [FutureAfter(woken) EXCEPT ![j] = "none"]
      /\ UNCHANGED <<told, doomed>>
  BY Apart DEF IInv, ResumeAndProceed
<1>2. woken \in SUBSET {Owner[j]} /\ woken \in SUBSET Semaphores
  BY <1>1 DEF LeftOver
<1> HIDE DEF woken
<1>3. /\ OthersTyped' /\ FutureInv' /\ ToldInv'
      /\ future'[j] = "none"
      /\ \A i \in Jobs \ {j} : future'[i] = FutureAfter(woken)[i]
  <2>1. /\ DOMAIN queue' = Semaphores /\ queue' = [s \in Semaphores |-> queue'[s]]
        /\ DOMAIN value' = Semaphores /\ value' = [s \in Semaphores |-> value'[s]]
    BY <1>1, ValuesAreTyped DEF TypeOK
  <2> QED
    BY <1>1, <1>2, <2>1, WakingKeepsFutures
<1>4. pc'[j] = "running"
  BY <1>1 DEF TypeOK
<1>v. \A s \in Semaphores :
        value'[s] = IF s = Global THEN ValueAfter({}, woken)[s] - 1
                                  ELSE ValueAfter({}, woken)[s]
  BY <1>1, ValuesAreTyped
<1>5. ASSUME NEW s \in Semaphores, s = Owner[j]
      PROVE  SemaphoreStep(s)
  <2>1. Waits(j, s) /\ ~Waits(j, s)' /\ Holds(j, s)'
    BY <1>1, <1>4, <1>5 DEF Waits, Holds
  <2>2. queue'[s] = Without(queue[s], j)
    BY <1>1, <1>5 DEF TypeOK
  <2>3. value'[s] = ValueAfter({}, LeftOver(s))[s]
    BY <1>1, <1>5, <1>v DEF woken
  <2>4. \A i \in Jobs \ {j} : future'[i] = FutureAfter(LeftOver(s))[i]
    BY <1>3, <1>5 DEF woken
  <2> QED
    BY <1>1, <2>1, <2>2, <2>3, <2>4, ResumedStep
<1>6. SemaphoreStep(Global)
  <2>1. OthersStay(j, Global) /\ Unwoken(Global, woken) /\ ~Given(Global, woken)
    BY <1>1, <1>2, OthersDoStay, Woken
  <2>2. /\ ~Waits(j, Global) /\ ~Waits(j, Global)'
        /\ ~Holds(j, Global) /\ Holds(j, Global)'
    BY <1>1, <1>3, <1>4 DEF Waits, Holds
  <2>3. \A i \in Jobs \ {j} : Waits(i, Global) => future'[i] = future[i]
    BY <1>3, <2>1 DEF Unwoken, Waiters
  <2>4. value[Global] > 0 /\ \A i \in Waiters(Global) : future[i] = "cancelled"
    BY <1>1, NotLocked
  <2>5. QueueStep(Global)
    <3>1. queue'[Global] = queue[Global]
      BY <1>1 DEF TypeOK
    <3>2. Waiters(Global)' = Waiters(Global)
      BY <2>1, <2>2 DEF Waiters, OthersStay
    <3> QED
      BY <3>1, <3>2 DEF QueueStep, QueueKept
  <2>6. value'[Global] = value[Global] - 1
    BY <1>1, <1>2, <1>v, <2>1 DEF ValueAfter
  <2>7. SlotStep(Global)
    <3>1. j \in Jobs \ Holders(Global) /\ Holders(Global)' = Holders(Global) \cup {j}
      BY <2>1, <2>2, <2>3 DEF Holders, OthersStay
    <3> QED
      BY <2>4, <2>6, <3>1 DEF SlotStep, Taken
  <2>8. \A i \in Jobs : Waits(i, Global)' => future'[i] = "cancelled"
    BY <2>1, <2>2, <2>3, <2>4 DEF Waiters, OthersStay
  <2> QED
    BY <2>5, <2>7, <2>8 DEF SemaphoreStep, NoLostAt
<1>7. ASSUME NEW s \in Semaphores \ {Owner[j], Global}
      PROVE  SemaphoreStep(s)
  <2>1. ~Waits(j, s) /\ ~Waits(j, s)' /\ ~Holds(j, s) /\ ~Holds(j, s)'
    BY <1>1, <1>4 DEF Waits, Holds
  <2>2. s \in Semaphores \ woken
    BY <1>2
  <2>3. queue'[s] = queue[s]
    BY <1>1 DEF TypeOK
  <2>4. value'[s] = value[s]
    BY <1>v, <1>2, <2>2 DEF ValueAfter, Given
  <2> QED
    BY <1>1, <1>2, <1>3, <2>1, <2>2, <2>3, <2>4, ElsewhereStep
<1> QED
  BY <1>3, <1>5, <1>6, <1>7, StepBySemaphore

\* A job resumes with the global slot.
LEMMA ResumeInGlobalStep ==
  ASSUME IInv, NEW j \in Jobs, ResumeInGlobal(j)
  PROVE  IInv'
<1> DEFINE woken == LeftOver(Global)
<1>1. /\ TypeOK /\ QueueInv /\ FutureInv /\ NoLostWakeUp
      /\ Owner[j] \in Semaphores /\ Global \in Semaphores /\ Owner[j] # Global
      /\ pc[j] = "global" /\ future[j] = "granted" /\ ~doomed[j]
      /\ pc' = [pc EXCEPT ![j] = "running"]
      /\ queue' = [queue EXCEPT ![Global] = Without(@, j)]
      /\ value' = ValueAfter({}, woken)
      /\ future' = [FutureAfter(woken) EXCEPT ![j] = "none"]
      /\ UNCHANGED <<told, doomed>>
  BY Apart DEF IInv, ResumeInGlobal
<1>2. woken \in SUBSET {Global} /\ woken \in SUBSET Semaphores
  BY <1>1 DEF LeftOver
<1> HIDE DEF woken
<1>3. /\ OthersTyped' /\ FutureInv' /\ ToldInv'
      /\ future'[j] = "none"
      /\ \A i \in Jobs \ {j} : future'[i] = FutureAfter(woken)[i]
  <2>1. /\ DOMAIN queue' = Semaphores /\ queue' = [s \in Semaphores |-> queue'[s]]
        /\ DOMAIN value' = Semaphores /\ value' = [s \in Semaphores |-> value'[s]]
    BY <1>1, ValuesAreTyped DEF TypeOK
  <2> QED
    BY <1>1, <1>2, <2>1, WakingKeepsFutures
<1>4. pc'[j] = "running"
  BY <1>1 DEF TypeOK
<1>5. SemaphoreStep(Global)
  <2>1. Waits(j, Global) /\ ~Waits(j, Global)' /\ Holds(j, Global)'
    BY <1>1, <1>4 DEF Waits, Holds
  <2>2. queue'[Global] = Without(queue[Global], j)
    BY <1>1 DEF TypeOK
  <2>3. value'[Global] = ValueAfter({}, LeftOver(Global))[Global]
    BY <1>1 DEF woken
  <2>4. \A i \in Jobs \ {j} : future'[i] = FutureAfter(LeftOver(Global))[i]
    BY <1>3 DEF woken
  <2> QED
    BY <1>1, <2>1, <2>2, <2>3, <2>4, ResumedStep
<1>6. ASSUME NEW s \in Semaphores \ {Global}
      PROVE  SemaphoreStep(s)
  <2>1. ~Waits(j, s) /\ ~Waits(j, s)' /\ (Holds(j, s)' <=> Holds(j, s))
    BY <1>1, <1>4 DEF Waits, Holds
  <2>2. s \in Semaphores \ woken
    BY <1>2
  <2>3. queue'[s] = queue[s]
    BY <1>1 DEF TypeOK
  <2>4. value'[s] = value[s]
    BY <1>1, <1>2, <2>2 DEF ValueAfter, Given
  <2> QED
    BY <1>1, <1>2, <1>3, <2>1, <2>2, <2>3, <2>4, ElsewhereStep
<1> QED
  BY <1>3, <1>5, <1>6, StepBySemaphore

\* A download ends: both slots are given back.
LEMMA FinishStep ==
  ASSUME IInv, NEW j \in Jobs, Finish(j)
  PROVE  IInv'
<1> DEFINE freed == {Owner[j], Global}
<1>1. /\ TypeOK /\ QueueInv /\ FutureInv
      /\ Owner[j] \in Semaphores /\ Global \in Semaphores
      /\ pc[j] = "running"
      /\ pc' = [pc EXCEPT ![j] = "done"]
      /\ Release(freed)
      /\ UNCHANGED <<told, queue, doomed>>
  BY Apart DEF IInv, Finish
<1>2. freed \in SUBSET Semaphores
  BY <1>1
<1> HIDE DEF freed
<1>3. /\ future' = FutureAfter(freed) /\ value' = ValueAfter(freed, freed)
  BY <1>1 DEF Release
<1>4. pc'[j] = "done"
  BY <1>1 DEF TypeOK
<1>5. OthersTyped' /\ FutureInv' /\ ToldInv'
  <2>1. /\ DOMAIN queue' = Semaphores /\ queue' = [s \in Semaphores |-> queue'[s]]
        /\ DOMAIN value' = Semaphores /\ value' = [s \in Semaphores |-> value'[s]]
    BY <1>1, <1>3, ValuesAreTyped DEF TypeOK
  <2>2. FutureAfter(freed)[j] \in {"none", "pending", "granted", "cancelled"}
        /\ future' = [FutureAfter(freed) EXCEPT ![j] = FutureAfter(freed)[j]]
    BY <1>1, <1>2, <1>3, Woken
  <2> QED
    BY <1>1, <1>2, <2>1, <2>2, WakingKeepsFutures
<1>6. ASSUME NEW s \in Semaphores, s \in freed
      PROVE  SemaphoreStep(s)
  <2>1. ~Waits(j, s) /\ ~Waits(j, s)' /\ Holds(j, s) /\ ~Holds(j, s)'
    BY <1>1, <1>4, <1>6 DEF Waits, Holds, freed
  <2>2. QueueStep(s)
    <3>1. OthersStay(j, s)
      BY <1>1, OthersDoStay
    <3>2. Waiters(s)' = Waiters(s) /\ queue'[s] = queue[s]
      BY <1>1, <2>1, <3>1 DEF Waiters, OthersStay
    <3> QED
      BY <3>2 DEF QueueStep, QueueKept
  <2> QED
    BY <1>1, <1>2, <1>6, <2>1, <2>2, ReleasedStep
<1>7. ASSUME NEW s \in Semaphores \ freed
      PROVE  SemaphoreStep(s)
  <2>1. ~Waits(j, s) /\ ~Waits(j, s)' /\ ~Holds(j, s) /\ ~Holds(j, s)'
    BY <1>1, <1>4 DEF Waits, Holds, freed
  <2>2. value'[s] = value[s] /\ queue'[s] = queue[s]
    BY <1>1, <1>3 DEF ValueAfter, Given
  <2> QED
    BY <1>1, <1>2, <1>3, <2>1, <2>2, ElsewhereStep
<1> QED
  BY <1>5, <1>6, <1>7, StepBySemaphore

\* A cancelled job leaves its user's queue, giving back what it was granted.
LEMMA UnwindFromUserStep ==
  ASSUME IInv, NEW j \in Jobs, UnwindFromUser(j)
  PROVE  IInv'
<1> DEFINE freed == IF doomed[j] THEN {Owner[j]} ELSE {}
<1>1. /\ TypeOK /\ QueueInv /\ FutureInv
      /\ Owner[j] \in Semaphores /\ Global \in Semaphores /\ Owner[j] # Global
      /\ pc[j] = "user"
      /\ pc' = [pc EXCEPT ![j] = "done"]
      /\ queue' = [queue EXCEPT ![Owner[j]] = Without(@, j)]
      /\ Release(freed)
      /\ UNCHANGED <<told, doomed>>
  BY Apart DEF IInv, UnwindFromUser
<1>d. \/ future[j] = "granted" /\ freed = {Owner[j]}
      \/ future[j] = "cancelled" /\ freed = {}
  <2>1. CASE doomed[j]
    <3>1. future[j] = "granted"
      BY <1>1, <2>1 DEF FutureInv
    <3> QED
      BY <2>1, <3>1
  <2>2. CASE ~doomed[j]
    <3>1. future[j] = "cancelled"
      BY <2>2 DEF UnwindFromUser
    <3> QED
      BY <2>2, <3>1
  <2> QED
    BY <2>1, <2>2
<1>2. freed \in SUBSET Semaphores
  <2>1. Owner[j] \in Semaphores /\ Global \in Semaphores
    BY <1>1
  <2> QED
    BY <1>d, <2>1
<1> HIDE DEF freed
<1>3. future' = FutureAfter(freed) /\ value' = ValueAfter(freed, freed)
  BY <1>1 DEF Release
<1>4. pc'[j] = "done"
  BY <1>1 DEF TypeOK
<1>5. OthersTyped' /\ FutureInv' /\ ToldInv'
  <2>1. /\ DOMAIN queue' = Semaphores /\ queue' = [s \in Semaphores |-> queue'[s]]
        /\ DOMAIN value' = Semaphores /\ value' = [s \in Semaphores |-> value'[s]]
    BY <1>1, <1>3, ValuesAreTyped DEF TypeOK
  <2>2. FutureAfter(freed)[j] \in {"none", "pending", "granted", "cancelled"}
        /\ future' = [FutureAfter(freed) EXCEPT ![j] = FutureAfter(freed)[j]]
    BY <1>1, <1>2, <1>3, Woken
  <2> QED
    BY <1>1, <1>2, <2>1, <2>2, WakingKeepsFutures
<1>6. ASSUME NEW s \in Semaphores, s = Owner[j]
      PROVE  SemaphoreStep(s)
  <2>1. Waits(j, s) /\ ~Waits(j, s)' /\ ~Holds(j, s)'
    BY <1>1, <1>4, <1>6 DEF Waits, Holds
  <2>2. OthersStay(j, s)
    BY <1>1, OthersDoStay
  <2>3. QueueStep(s)
    <3>1. queue'[s] = Without(queue[s], j)
      BY <1>1, <1>6 DEF TypeOK
    <3>2. Waiters(s)' = Waiters(s) \ {j}
      BY <2>1, <2>2 DEF Waiters, OthersStay
    <3> QED
      BY <2>1, <3>1, <3>2 DEF QueueStep, Leaves
  <2>4. CASE future[j] = "granted" /\ freed = {Owner[j]}
    <3>1. Holds(j, s)
      BY <2>1, <2>4 DEF Holds
    <3> QED
      BY <1>1, <1>2, <1>6, <2>1, <2>3, <2>4, <3>1, ReleasedStep
  <2>5. CASE future[j] = "cancelled" /\ freed = {}
    <3>1. Unwoken(s, freed)
      BY <1>1, <1>2, <2>5, Woken
    <3>2. \A i \in Jobs \ {j} : Waits(i, s) => future'[i] = future[i]
      BY <1>3, <3>1 DEF Unwoken, Waiters
    <3>3. ~Holds(j, s)
      BY <1>1, <2>5 DEF Holds
    <3>4. value'[s] = value[s]
      BY <1>3, <2>5 DEF ValueAfter, Given
    <3>5. SlotStep(s)
      <4>1. Holders(s)' = Holders(s)
        BY <2>1, <2>2, <3>2, <3>3 DEF Holders, OthersStay
      <4> QED
        BY <3>4, <4>1 DEF SlotStep, Kept
    <3>6. NoLostAt(s)'
      <4>1. \A i \in Jobs : Waits(i, s)' => Waits(i, s) /\ future'[i] = future[i]
        BY <2>1, <2>2, <3>2 DEF OthersStay
      <4>2. \A i \in Jobs : Waits(i, s) /\ future[i] = "granted" =>
              Waits(i, s)' /\ future'[i] = "granted"
        BY <2>2, <2>5, <3>2 DEF OthersStay
      <4> QED
        BY <3>4, <4>1, <4>2 DEF IInv, NoLostWakeUp, NoLostAt
    <3> QED
      BY <2>3, <3>5, <3>6 DEF SemaphoreStep
  <2> QED
    BY <1>d, <2>4, <2>5, Zenon
<1>7. ASSUME NEW s \in Semaphores \ {Owner[j]}
      PROVE  SemaphoreStep(s)
  <2>1. ~Waits(j, s) /\ ~Waits(j, s)' /\ ~Holds(j, s) /\ ~Holds(j, s)'
    BY <1>1, <1>4 DEF Waits, Holds
  <2>2. s \in Semaphores \ freed
    BY <1>d, <1>7
  <2>3. queue'[s] = queue[s]
    BY <1>1 DEF TypeOK
  <2>4. value'[s] = value[s]
    BY <1>3, <2>2 DEF ValueAfter, Given
  <2> QED
    BY <1>1, <1>2, <1>3, <2>1, <2>2, <2>3, <2>4, ElsewhereStep
<1> QED
  BY <1>5, <1>6, <1>7, StepBySemaphore

\* A cancelled job leaves the global queue, giving back its user's slot and
\* what it was granted.
LEMMA UnwindFromGlobalStep ==
  ASSUME IInv, NEW j \in Jobs, UnwindFromGlobal(j)
  PROVE  IInv'
<1> DEFINE freed == IF doomed[j] THEN {Owner[j], Global} ELSE {Owner[j]}
<1>1. /\ TypeOK /\ QueueInv /\ FutureInv
      /\ Owner[j] \in Semaphores /\ Global \in Semaphores /\ Owner[j] # Global
      /\ pc[j] = "global"
      /\ pc' = [pc EXCEPT ![j] = "done"]
      /\ queue' = [queue EXCEPT ![Global] = Without(@, j)]
      /\ Release(freed)
      /\ UNCHANGED <<told, doomed>>
  BY Apart DEF IInv, UnwindFromGlobal
<1>d. \/ future[j] = "granted" /\ freed = {Owner[j], Global}
      \/ future[j] = "cancelled" /\ freed = {Owner[j]}
  <2>1. CASE doomed[j]
    <3>1. future[j] = "granted"
      BY <1>1, <2>1 DEF FutureInv
    <3> QED
      BY <2>1, <3>1
  <2>2. CASE ~doomed[j]
    <3>1. future[j] = "cancelled"
      BY <2>2 DEF UnwindFromGlobal
    <3> QED
      BY <2>2, <3>1
  <2> QED
    BY <2>1, <2>2
<1>2. freed \in SUBSET Semaphores
  <2>1. Owner[j] \in Semaphores /\ Global \in Semaphores
    BY <1>1
  <2> QED
    BY <1>d, <2>1
<1> HIDE DEF freed
<1>3. future' = FutureAfter(freed) /\ value' = ValueAfter(freed, freed)
  BY <1>1 DEF Release
<1>4. pc'[j] = "done"
  BY <1>1 DEF TypeOK
<1>5. OthersTyped' /\ FutureInv' /\ ToldInv'
  <2>1. /\ DOMAIN queue' = Semaphores /\ queue' = [s \in Semaphores |-> queue'[s]]
        /\ DOMAIN value' = Semaphores /\ value' = [s \in Semaphores |-> value'[s]]
    BY <1>1, <1>3, ValuesAreTyped DEF TypeOK
  <2>2. FutureAfter(freed)[j] \in {"none", "pending", "granted", "cancelled"}
        /\ future' = [FutureAfter(freed) EXCEPT ![j] = FutureAfter(freed)[j]]
    BY <1>1, <1>2, <1>3, Woken
  <2> QED
    BY <1>1, <1>2, <2>1, <2>2, WakingKeepsFutures
<1>6. SemaphoreStep(Global)
  <2>1. Waits(j, Global) /\ ~Waits(j, Global)' /\ ~Holds(j, Global)'
    BY <1>1, <1>4 DEF Waits, Holds
  <2>2. OthersStay(j, Global)
    BY <1>1, OthersDoStay
  <2>3. QueueStep(Global)
    <3>1. queue'[Global] = Without(queue[Global], j)
      BY <1>1 DEF TypeOK
    <3>2. Waiters(Global)' = Waiters(Global) \ {j}
      BY <2>1, <2>2 DEF Waiters, OthersStay
    <3> QED
      BY <2>1, <3>1, <3>2 DEF QueueStep, Leaves
  <2>4. CASE future[j] = "granted" /\ freed = {Owner[j], Global}
    <3>1. Holds(j, Global)
      BY <2>1, <2>4 DEF Holds
    <3> QED
      BY <1>1, <1>2, <2>1, <2>3, <2>4, <3>1, ReleasedStep
  <2>5. CASE future[j] = "cancelled" /\ freed = {Owner[j]}
    <3>1. Unwoken(Global, freed)
      BY <1>1, <1>2, <2>5, Woken
    <3>2. \A i \in Jobs \ {j} : Waits(i, Global) => future'[i] = future[i]
      BY <1>3, <3>1 DEF Unwoken, Waiters
    <3>3. ~Holds(j, Global)
      BY <1>1, <2>5 DEF Holds
    <3>4. value'[Global] = value[Global]
      BY <1>1, <1>3, <2>5 DEF ValueAfter, Given
    <3>5. SlotStep(Global)
      <4>1. Holders(Global)' = Holders(Global)
        BY <2>1, <2>2, <3>2, <3>3 DEF Holders, OthersStay
      <4> QED
        BY <3>4, <4>1 DEF SlotStep, Kept
    <3>6. NoLostAt(Global)'
      <4>1. \A i \in Jobs : Waits(i, Global)' => Waits(i, Global) /\ future'[i] = future[i]
        BY <2>1, <2>2, <3>2 DEF OthersStay
      <4>2. \A i \in Jobs : Waits(i, Global) /\ future[i] = "granted" =>
              Waits(i, Global)' /\ future'[i] = "granted"
        BY <2>2, <2>5, <3>2 DEF OthersStay
      <4> QED
        BY <1>1, <3>4, <4>1, <4>2 DEF IInv, NoLostWakeUp, NoLostAt
    <3> QED
      BY <2>3, <3>5, <3>6 DEF SemaphoreStep
  <2> QED
    BY <1>d, <2>4, <2>5, Zenon
<1>7. ASSUME NEW s \in Semaphores, s = Owner[j]
      PROVE  SemaphoreStep(s)
  <2>1. ~Waits(j, s) /\ ~Waits(j, s)' /\ Holds(j, s) /\ ~Holds(j, s)'
    BY <1>1, <1>4, <1>7 DEF Waits, Holds
  <2>2. QueueStep(s)
    <3>1. OthersStay(j, s)
      BY <1>1, OthersDoStay
    <3>2. Waiters(s)' = Waiters(s) /\ queue'[s] = queue[s]
      BY <1>1, <1>7, <2>1, <3>1 DEF Waiters, OthersStay, TypeOK
    <3> QED
      BY <3>2 DEF QueueStep, QueueKept
  <2>3. s \in freed
    BY <1>d, <1>7
  <2> QED
    BY <1>1, <1>2, <2>1, <2>2, <2>3, ReleasedStep
<1>8. ASSUME NEW s \in Semaphores \ {Owner[j], Global}
      PROVE  SemaphoreStep(s)
  <2>1. ~Waits(j, s) /\ ~Waits(j, s)' /\ ~Holds(j, s) /\ ~Holds(j, s)'
    BY <1>1, <1>4 DEF Waits, Holds
  <2>2. s \in Semaphores \ freed
    BY <1>d, <1>8
  <2>3. queue'[s] = queue[s]
    BY <1>1 DEF TypeOK
  <2>4. value'[s] = value[s]
    BY <1>3, <2>2 DEF ValueAfter, Given
  <2> QED
    BY <1>1, <1>2, <1>3, <2>1, <2>2, <2>3, <2>4, ElsewhereStep
<1> QED
  BY <1>5, <1>6, <1>7, <1>8, StepBySemaphore

-----------------------------------------------------------------------------
(***************************************************************************)
(* The invariant and what follows from it.                                 *)
(***************************************************************************)

LEMMA InitInv ==
  ASSUME Init
  PROVE  IInv
<1> USE DEF Init
<1>1. \A s \in Semaphores : Limit(s) \in Nat
  BY LimiterAssumption DEF Limit
<1>2. TypeOK
  BY <1>1 DEF TypeOK
<1>3. ASSUME NEW s \in Semaphores
      PROVE  Waiters(s) = {} /\ Holders(s) = {} /\ Lists(queue[s], Waiters(s))
  BY DEF Waiters, Holders, Waits, Holds, Lists
<1>4. QueueInv /\ FutureInv /\ ToldInv
  BY <1>3 DEF QueueInv, FutureInv, ToldInv
<1>5. SlotsAccounted
  <2>1. Cardinality({}) = 0
    BY FS_EmptySet
  <2>2. ASSUME NEW s \in Semaphores
        PROVE  value[s] + Cardinality(Holders(s)) = Limit(s)
    <3>1. value[s] = Limit(s) /\ Cardinality(Holders(s)) = 0
      BY <1>3, <2>1
    <3> QED
      BY <1>1, <3>1
  <2> QED
    BY <2>2 DEF SlotsAccounted
<1>6. NoLostWakeUp
  BY <1>3 DEF NoLostWakeUp, Waiters
<1> QED
  BY <1>2, <1>4, <1>5, <1>6 DEF IInv

LEMMA NextInv ==
  ASSUME IInv, [Next]_vars
  PROVE  IInv'
<1>1. CASE UNCHANGED vars
  BY <1>1 DEF vars, IInv, TypeOK, QueueInv, FutureInv, ToldInv, SlotsAccounted,
              NoLostWakeUp, Lists, Waiters, Holders, Waits, Holds
<1>2. ASSUME NEW j \in Jobs, Slot(j)
      PROVE  IInv'
  BY <1>2, TellUserStep, CancelToldStep, CancelWaitingStep, QueueForUserStep,
     QueueForGlobalStep, ProceedStep, ResumeToGlobalStep, ResumeAndProceedStep,
     ResumeInGlobalStep, FinishStep, UnwindFromUserStep, UnwindFromGlobalStep
     DEF Slot, Advance
<1> QED
  BY <1>1, <1>2 DEF Next, AllLeft

\* The inductive invariant holds of every reachable state.
THEOREM Invariant == Spec => []IInv
<1>1. Init => IInv
  BY InitInv
<1>2. IInv /\ [Next]_vars => IInv'
  BY NextInv
<1> QED
  BY <1>1, <1>2, PTL DEF Spec

\* Every variable keeps its type; in particular no semaphore goes negative.
THEOREM TypeCorrect == Spec => []TypeOK
<1>1. IInv => TypeOK
  BY DEF IInv
<1> QED
  BY <1>1, Invariant, PTL

\* No slot is lost or made up, for any limits and whatever is cancelled when.
THEOREM SlotsAreAccounted == Spec => []SlotsAccounted
<1>1. IInv => SlotsAccounted
  BY DEF IInv
<1> QED
  BY <1>1, Invariant, PTL

\* No wake-up is lost: a free slot and a pending waiter never meet unless a
\* waiter that was granted a slot is on its way.
THEOREM NoWakeUpIsLost == Spec => []NoLostWakeUp
<1>1. IInv => NoLostWakeUp
  BY DEF IInv
<1> QED
  BY <1>1, Invariant, PTL

\* No job sits in a queue whose user was not told.
THEOREM QueuersWereTold == Spec => []NeverBlocksUntold
<1>1. IInv => NeverBlocksUntold
  BY DEF IInv, ToldInv, NeverBlocksUntold
<1> QED
  BY <1>1, Invariant, PTL

-----------------------------------------------------------------------------
(***************************************************************************)
(* The limiter implements Slots.                                           *)
(***************************************************************************)

Inside == {j \in Jobs : pc[j] = "running"}
Left == {j \in Jobs : pc[j] = "done"}

\* Of the jobs inside, those of the user of s, or all of them for Global.
InsideOf(s) == {i \in Inside : s \in {Owner[i], Global}}

\* As many jobs are inside as a semaphore's limit allows, and a job that enters
\* finds room: it holds both slots already, or takes them from free ones.
LEMMA RoomToStart ==
  ASSUME IInv, IInv', NEW j \in Jobs, pc[j] # "running", pc'[j] = "running",
         \A i \in Jobs \ {j} : pc'[i] = pc[i],
         NEW s \in {Owner[j], Global}
  PROVE  Cardinality(InsideOf(s)) < Limit(s)
<1>1. s \in Semaphores
  BY Apart
<1>2. IsFiniteSet(Jobs) /\ Limit(s) \in Nat
  BY LimiterAssumption DEF Limit
<1>3. InsideOf(s) \cup {j} \subseteq Holders(s)'
  BY DEF InsideOf, Inside, Holders, Holds
<1>4. j \notin InsideOf(s) /\ InsideOf(s) \subseteq Jobs
  BY DEF InsideOf, Inside
<1>5. IsFiniteSet(InsideOf(s)) /\ Cardinality(InsideOf(s)) \in Nat
  BY <1>2, <1>4, FS_Subset, FS_CardinalityType
<1>6. Holders(s)' \in SUBSET Jobs /\ IsFiniteSet(Holders(s)')
  <2>1. Holders(s)' \in SUBSET Jobs
    BY DEF Holders
  <2> QED
    BY <1>2, <2>1, FS_Subset
<1>7. Cardinality(InsideOf(s) \cup {j}) = Cardinality(InsideOf(s)) + 1
  BY <1>4, <1>5, FS_AddElement
<1>8. Cardinality(InsideOf(s) \cup {j}) <= Cardinality(Holders(s)')
  BY <1>3, <1>6, FS_Subset
<1>9. Cardinality(Holders(s)') \in Nat
  BY <1>6, FS_CardinalityType
<1>10. value'[s] \in Nat /\ value'[s] + Cardinality(Holders(s)') = Limit(s)
  BY <1>1 DEF IInv, TypeOK, SlotsAccounted, Limit
<1> QED
  BY <1>2, <1>5, <1>7, <1>8, <1>9, <1>10

\* A job that was not inside gets in: a Start of Slots.
LEMMA EnteringIsStart ==
  ASSUME IInv, IInv', NEW j \in Jobs,
         pc[j] \notin {"running", "done"},
         pc' = [pc EXCEPT ![j] = "running"]
  PROVE  Slots!Start(j)
<1>1. pc \in [Jobs -> {"idle", "told", "user", "global", "running", "done"}]
  BY DEF IInv, TypeOK
<1>2. pc'[j] = "running" /\ \A i \in Jobs \ {j} : pc'[i] = pc[i]
  BY <1>1
<1>3. j \notin Inside \cup Left
  BY DEF Inside, Left
<1>4. Inside' = Inside \cup {j} /\ Left' = Left
  BY <1>2 DEF Inside, Left
<1>5. Cardinality(Inside) < GlobalLimit
  <2>1. Cardinality(InsideOf(Global)) < Limit(Global)
    BY <1>2, RoomToStart
  <2>2. InsideOf(Global) = Inside /\ Limit(Global) = GlobalLimit
    BY DEF InsideOf, Limit
  <2> QED
    BY <2>1, <2>2
<1>6. Cardinality(Slots!SameUser(j)) < PerUserLimit
  <2>1. Cardinality(InsideOf(Owner[j])) < Limit(Owner[j])
    BY <1>2, RoomToStart
  <2>2. Owner[j] # Global
    BY Apart
  <2>3. InsideOf(Owner[j]) = Slots!SameUser(j)
    BY <2>2 DEF InsideOf, Inside, Slots!SameUser
  <2> QED
    BY <2>1, <2>2, <2>3 DEF Limit
<1> QED
  <2>1. \A S : Slots!Cardinality(S) = Cardinality(S)
    BY DEF Slots!Cardinality, Cardinality
  <2> QED
    BY <1>3, <1>4, <1>5, <1>6, <2>1 DEF Slots!Start, Inside, Left

\* A job that goes is done: a Leave of Slots.
LEMMA LeavingIsLeave ==
  ASSUME IInv, NEW j \in Jobs, pc[j] # "done",
         pc' = [pc EXCEPT ![j] = "done"]
  PROVE  Slots!Leave(j)
<1>1. pc \in [Jobs -> {"idle", "told", "user", "global", "running", "done"}]
  BY DEF IInv, TypeOK
<1>2. pc'[j] = "done" /\ \A i \in Jobs \ {j} : pc'[i] = pc[i]
  BY <1>1
<1>3. Inside' = Inside \ {j} /\ Left' = Left \cup {j} /\ j \notin Left
  BY <1>2 DEF Inside, Left
<1> QED
  BY <1>3 DEF Slots!Leave, Inside, Left

\* Any other step of a job changes neither set.
LEMMA QueuingIsStutter ==
  ASSUME IInv, NEW j \in Jobs, NEW at \in {"told", "user", "global"},
         pc[j] \notin {"running", "done"},
         pc' = pc \/ pc' = [pc EXCEPT ![j] = at]
  PROVE  UNCHANGED <<Inside, Left>>
<1>1. pc \in [Jobs -> {"idle", "told", "user", "global", "running", "done"}]
  BY DEF IInv, TypeOK
<1>2. ASSUME NEW i \in Jobs
      PROVE  /\ (pc'[i] = "running") <=> (pc[i] = "running")
             /\ (pc'[i] = "done") <=> (pc[i] = "done")
  BY <1>1
<1> QED
  BY <1>2 DEF Inside, Left

\* Whatever a job does is a step of Slots or invisible there.
LEMMA SlotStepRefines ==
  ASSUME IInv, IInv', NEW j \in Jobs, Slot(j)
  PROVE  Slots!Start(j) \/ Slots!Leave(j) \/ UNCHANGED <<Inside, Left>>
<1>1. CASE TellUser(j)
  BY <1>1, QueuingIsStutter DEF TellUser
<1>2. CASE CancelWaiting(j)
  BY <1>2, QueuingIsStutter DEF CancelWaiting
<1>3. CASE QueueForUser(j)
  BY <1>3, QueuingIsStutter DEF QueueForUser, AtAcquire
<1>4. CASE QueueForGlobal(j)
  BY <1>4, QueuingIsStutter DEF QueueForGlobal, AtAcquire
<1>5. CASE ResumeToGlobal(j)
  BY <1>5, QueuingIsStutter DEF ResumeToGlobal
<1>6. CASE Proceed(j)
  BY <1>6, EnteringIsStart DEF Proceed, AtAcquire
<1>7. CASE ResumeAndProceed(j)
  BY <1>7, EnteringIsStart DEF ResumeAndProceed
<1>8. CASE ResumeInGlobal(j)
  BY <1>8, EnteringIsStart DEF ResumeInGlobal
<1>9. CASE Finish(j)
  BY <1>9, LeavingIsLeave DEF Finish
<1>10. CASE CancelTold(j)
  BY <1>10, LeavingIsLeave DEF CancelTold
<1>11. CASE UnwindFromUser(j)
  BY <1>11, LeavingIsLeave DEF UnwindFromUser
<1>12. CASE UnwindFromGlobal(j)
  BY <1>12, LeavingIsLeave DEF UnwindFromGlobal
<1> QED
  BY <1>1, <1>2, <1>3, <1>4, <1>5, <1>6, <1>7, <1>8, <1>9, <1>10, <1>11, <1>12
     DEF Slot, Advance

\* The limiter implements what its header promises: nobody is inside the async
\* with beyond either cap, and who left does not come back.
THEOREM KeepsTheCaps == Spec => SlotsSpec
<1>1. Init => Slots!Init
  BY DEF Init, Slots!Init
<1>2. ASSUME IInv, IInv', [Next]_vars
      PROVE  [Slots!Next]_<<Inside, Left>>
  <2>1. CASE UNCHANGED vars
    BY <2>1 DEF vars, Inside, Left
  <2>2. CASE AllLeft
    BY <2>2 DEF AllLeft, vars, Inside, Left
  <2>3. ASSUME NEW j \in Jobs, Slot(j)
        PROVE  [Slots!Next]_<<Inside, Left>>
    BY <1>2, <2>3, SlotStepRefines DEF Slots!Next
  <2> QED
    BY <1>2, <2>1, <2>2, <2>3 DEF Next
<1> QED
  BY <1>1, <1>2, Invariant, PTL DEF Spec, SlotsSpec, Slots!Spec, Inside, Left

=============================================================================

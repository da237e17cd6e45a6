------------------------------ MODULE Credits ------------------------------
(***************************************************************************)
(* The credit ledger of credits/service.py: what CreditsService reads and  *)
(* writes in the users table.  Sizes are megabytes.  Every method runs to  *)
(* its commit without an await, so on the bot's single event loop each is  *)
(* one atomic step; modules that use the ledger call the operators below   *)
(* inside their own actions.                                               *)
(***************************************************************************)
EXTENDS Integers

CONSTANTS
  Users,          \* telegram users
  Owners,         \* config.owner_ids
  Blocked,        \* users whose is_blocked flag is set
  EnableVip,      \* config.enable_vip: FALSE turns every check and charge off
  FreeBandwidth,  \* megabytes a user without paid credits may receive
  MbPerCredit,    \* config.mb_per_credit
  InitFree,       \* free credits a user starts with
  InitPaid        \* paid credits a user starts with

ASSUME CreditsAssumption ==
  /\ Owners \subseteq Users
  /\ Blocked \subseteq Users
  /\ EnableVip \in BOOLEAN
  /\ FreeBandwidth \in Nat
  /\ MbPerCredit \in Nat \ {0}
  /\ InitFree \in Nat
  /\ InitPaid \in Nat

VARIABLES
  free,       \* users.free
  paid,       \* users.paid
  bandwidth   \* users.bandwidth_used

ledger == <<free, paid, bandwidth>>

LedgerTypeOK ==
  /\ free \in [Users -> Nat]
  /\ paid \in [Users -> Nat]
  /\ bandwidth \in [Users -> Nat]

LedgerInit ==
  /\ free = [u \in Users |-> InitFree]
  /\ paid = [u \in Users |-> InitPaid]
  /\ bandwidth = [u \in Users |-> 0]

-----------------------------------------------------------------------------

Smaller(a, b) == IF a <= b THEN a ELSE b

\* credits_for_sizes: the list of delivered sizes counts here only through
\* being non-empty (`any`) and through its sum (`mb`).
CreditsForSizes(any, mb) ==
  LET ceiling == (mb + MbPerCredit - 1) \div MbPerCredit
  IN  IF ~any THEN 0 ELSE IF ceiling > 1 THEN ceiling ELSE 1

\* check_quota: the exception it raises, or "ok".
CheckQuota(u) ==
  IF ~EnableVip \/ u \in Owners THEN "ok"
  ELSE IF u \in Blocked THEN "blocked"
  ELSE IF free[u] + paid[u] <= 0 THEN "credits"
  ELSE IF paid[u] <= 0 /\ bandwidth[u] >= FreeBandwidth THEN "bandwidth"
  ELSE "ok"

\* Mutant: paid credits first.
MutDeductPaidFirst(u, credits) ==
  LET fromPaid == Smaller(credits, paid[u])
      fromFree == Smaller(credits - fromPaid, free[u])
  IN  /\ free' = [free EXCEPT ![u] = @ - fromFree]
      /\ paid' = [paid EXCEPT ![u] = @ - fromPaid]

\* The deduction loop of use_quota_dynamic: one credit at a time, free before
\* paid, and nothing more once both are used up.
Deduct(u, credits) ==
  LET fromFree == Smaller(credits, free[u])
      fromPaid == Smaller(credits - fromFree, paid[u])
  IN  /\ free' = [free EXCEPT ![u] = @ - fromFree]
      /\ paid' = [paid EXCEPT ![u] = @ - fromPaid]

\* use_quota_dynamic, when it commits.
UseQuotaDynamic(u, any, mb) ==
  /\ IF EnableVip THEN Deduct(u, CreditsForSizes(any, mb))
                  ELSE UNCHANGED <<free, paid>>
  /\ UNCHANGED bandwidth

\* add_bandwidth_used, when it commits.
AddBandwidthUsed(u, mb) ==
  /\ bandwidth' = IF EnableVip /\ mb > 0 THEN [bandwidth EXCEPT ![u] = @ + mb]
                                         ELSE bandwidth
  /\ UNCHANGED <<free, paid>>
=============================================================================

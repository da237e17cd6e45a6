-------------------------------- MODULE Health --------------------------------
(***************************************************************************)
(* The provider registry and the health of its providers on one platform   *)
(* (providers/registry.py, providers/health.py).  A record has             *)
(*   failures   consecutive_failures                                       *)
(*   cooling    is disabled_until in the future?                           *)
(* Each operation is one transaction.  The success rates and the response  *)
(* times only rank the providers, and may rank them in any way.            *)
(***************************************************************************)
EXTENDS Naturals, FiniteSets, Sequences

CONSTANTS
  Providers,   \* names
  Candidates,  \* the configured order of the platform, a sequence
  Usable,      \* providers that are registered, configured and not disabled
  Threshold,   \* failure_threshold
  Earlier      \* failures that each provider has had in a row, below the threshold

ASSUME HealthAssumption ==
  /\ Candidates \in Seq(Providers)
  /\ Usable \subseteq Providers
  /\ Threshold \in Nat \ {0}
  /\ Earlier \in Nat /\ Earlier < Threshold

VARIABLE health

HealthTypeOK ==
  health \in [Providers -> [failures : Nat, cooling : BOOLEAN]]

\* What earlier requests have left.
HealthInit == health = [p \in Providers |-> [failures |-> Earlier, cooling |-> FALSE]]

\* Mutant: the failures are not reset.
MutRecordSuccess(p) ==
  health' = [health EXCEPT ![p].cooling = FALSE]

RecordSuccess(p) ==
  health' = [health EXCEPT ![p].failures = 0, ![p].cooling = FALSE]

\* A failure from the threshold on starts the cool-down, or starts it again.
RecordFailure(p) ==
  health' = [health EXCEPT ![p] = [failures |-> @.failures + 1,
                                   cooling |-> @.cooling \/ @.failures + 1 >= Threshold]]

CoolDownEnds(p) ==
  /\ health[p].cooling
  /\ health' = [health EXCEPT ![p].cooling = FALSE]

\* get_providers_for_platform, without those that order_for suppresses.
Active == {p \in Usable : ~health[p].cooling}

\* How often a sequence names a provider.
Times(s, p) == Cardinality({i \in DOMAIN s : s[i] = p})

\* The orders that order_for may return.
Orders ==
  {s \in UNION {[1 .. n -> Providers] : n \in 0 .. Len(Candidates)} :
     \A p \in Providers : Times(s, p) = IF p \in Active THEN Times(Candidates, p) ELSE 0}
=============================================================================

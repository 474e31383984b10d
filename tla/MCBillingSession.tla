--------------------------- MODULE MCBillingSession ---------------------------
(* Small instances of BillingSession for TLC. *)
EXTENDS BillingSession, TLC

CONSTANTS r1, r2

P(pref, quota, playground, unlimited, force) ==
  [pref |-> pref, quota |-> quota, playground |-> playground,
   unlimited |-> unlimited, force |-> force]

\* One request of each kind the preference, the trust bypass, the playground
\* and the two boundary quotas (0, and all that is there) tell apart.
MCProfiles ==
  { P("subscription_first", 2, FALSE, FALSE, FALSE),
    P("subscription_first", 0, FALSE, FALSE, FALSE),
    P("wallet_first", 2, FALSE, TRUE, TRUE),
    P("wallet_only", 1, FALSE, TRUE, FALSE),
    P("wallet_only", 0, FALSE, FALSE, TRUE),
    P("subscription_only", 1, TRUE, FALSE, FALSE),
    P("wallet_first", 1, TRUE, FALSE, TRUE) }

MCRequests == {r1, r2}
Symmetry == Permutations(MCRequests)
=============================================================================

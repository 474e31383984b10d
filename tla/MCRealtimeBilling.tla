-------------------------- MODULE MCRealtimeBilling --------------------------
(* Small instances of RealtimeBilling for TLC. *)
EXTENDS RealtimeBilling

P(pref, quota, playground, unlimited, force) ==
  [pref |-> pref, quota |-> quota, playground |-> playground,
   unlimited |-> unlimited, force |-> force]

\* A wallet request with and without the trust bypass, one that may use either
\* source, and a playground request of a subscription.
MCProfiles ==
  { P("wallet_only", 2, FALSE, TRUE, FALSE),
    P("wallet_only", 1, FALSE, FALSE, TRUE),
    P("subscription_first", 1, FALSE, TRUE, FALSE),
    P("subscription_only", 1, TRUE, FALSE, FALSE) }

\* A plain wallet request.
OneProfile == {P("wallet_only", 1, FALSE, FALSE, TRUE)}
=============================================================================

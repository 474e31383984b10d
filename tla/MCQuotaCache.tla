---------------------------- MODULE MCQuotaCache ----------------------------
(* QuotaCache for TLC. *)
EXTENDS QuotaCache
=============================================================================

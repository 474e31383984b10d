SPECIFICATION RealtimeSpec
CONSTANTS
  Requests = {"r1"}
  Profiles <- MCProfiles
  Quotas = {}
  Wallet0 = 6
  Token0 = 6
  SubTotal = 4
  TrustQuota = 3
  MaxAttempts = 2
  Faults = {"wallet", "token", "sub", "read"}
  Turns = {1, 2}
  MaxTurns = 2
INVARIANTS RealtimeTypeOK TurnsUseSessionSource CountedAtMostTwice

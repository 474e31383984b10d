SPECIFICATION FairSpec
CONSTANTS
  r1 = r1
  r2 = r2
  Requests <- MCRequests
  Profiles <- MCProfiles
  Quotas = {0, 1, 3}
  Wallet0 = 3
  Token0 = 3
  SubTotal = 2
  TrustQuota = 2
  MaxAttempts = 3
  Faults = {}
INVARIANT NothingLeaks
PROPERTY Resolves

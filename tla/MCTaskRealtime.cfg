SPECIFICATION Spec
CONSTANTS
  p1 = p1
  p2 = p2
  c1 = c1
  Tasks = {1}
  Pollers <- MCPollers
  Fetchers = {"f1", "f2"}
  Attributes <- GeminiAttributes
  Channels = {c1}
  Quotas = {2}
  Actuals = {0, 1, 3}
  TaskTimeout = TRUE
  SweepLimit = 1
  TaskQueryLimit = 1
  MaxReopens = 1
  Faults = {"crash", "upstream", "channel", "funding", "persist"}
SYMMETRY PollerSymmetry
INVARIANTS NoOverRefund QuotaIsCharge

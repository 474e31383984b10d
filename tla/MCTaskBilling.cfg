SPECIFICATION Spec
CONSTANTS
  p1 = p1
  p2 = p2
  c1 = c1
  Tasks = {1}
  Pollers <- MCPollers
  Fetchers = {}
  Attributes <- VideoAttributes
  Channels = {c1}
  Quotas = {0, 2}
  Actuals = {0, 1, 3}
  TaskTimeout = TRUE
  SweepLimit = 1
  TaskQueryLimit = 1
  MaxReopens = 0
  Faults = {"insert", "cas", "persist", "funding", "token", "upstream", "lookup", "crash"}
SYMMETRY PollerSymmetry
INVARIANTS TypeOK NoOverRefund QuotaIsCharge OneBiller
PROPERTY TerminalIsFinal

SPECIFICATION FairSpec
CONSTANTS
  p1 = p1
  p2 = p2
  c1 = c1
  Tasks = {1, 2}
  Pollers = {p1}
  Fetchers = {}
  Attributes <- MixedAttributes
  Channels = {c1}
  Quotas = {2}
  Actuals = {0, 1}
  TaskTimeout = TRUE
  SweepLimit = 1
  TaskQueryLimit = 1
  MaxReopens = 0
  Faults = {"upstream"}
PROPERTIES EveryTaskFinishes FailureRefunded

\* Two operators in each curated module, a deposited key and nine validators, of which
\* one is asked to exit, one on exit and one consolidates: every group, weight, exit
\* target, demand and limit of the sets.
\* A report ends: no deadlock check.
SPECIFICATION FairSpec
CONSTANTS
  a1 = a1  a2 = a2  b1 = b1  b2 = b2  cm1 = cm1  cm2 = cm2  key = key
  Operator = {a1, a2, b1, b2}
  Module = {cm1, cm2}
  ModuleOf <- Modules
  CMv1 = cm1
  CMv2 = cm2
  Threshold <- Thresholds
  TOTAL_BASIS_POINTS = 10
  Validator = {1, 2, 3, 4, 5, 6, 7, 8, 9}
  Pending = {key}
  OperatorOf <- Operators
  Balance <- Balances
  MaxBalance <- MaxBalances
  OnExit = {8}
  Requested = {7}
  Consolidating = {9}
  GroupSets <- MCGroupSets
  Weights <- MCWeights
  TargetSets <- MCTargets
  ExitLimits = {2, 5, 20}
  Scale = 48
  Demands = {0, 14, 17, 60}
  RefEpoch = 3
  EarliestExit = 4
  ChurnLeft = 1
  Churn = 2
  WithdrawalDelay = 2
  SeedLookahead = 1
  SweepEpochs = 1
  Rewards = 1
  ElBalance = 4
  Maturing <- Exiting
  Reserve = 5
  FrameEpochs = 6
INVARIANTS ReportFitsLimit CountersMatch ReportIsComplete TargetsComeFirst ExitEpochIsFirst
PROPERTIES ReportIsMade
CHECK_DEADLOCK FALSE

\* Three members, one of them without a daemon, two extra data transactions, one fault:
\* every report is delivered.
\* The exploration ends at MaxSlot, where every daemon may be idle: no deadlock check.
SPECIFICATION FairSpec
CONSTANTS
  d1 = d1  d2 = d2  d3 = d3  x1 = x1  v1 = v1  v2 = v2  v3 = v3
  SLOTS_PER_EPOCH = 1
  INITIAL_EPOCH = 1
  EPOCHS_PER_FRAME = 3
  Address = {d1, d2, d3}
  Committee <- ThreeMembers
  Removable = {}
  SubmitRole = {}
  Quorum = 2
  FastLaneLen = 1
  Variant = {v1}
  ExtraList <- TwoTxs
  UpgradeSlot <- Never
  MaxSlot = 4
  NoReport = NoReport
  Daemon = {d1, d2}
  Account <- MCAccounts
  Sender <- MCAccounts
  Builds <- AllBuild1
  Withheld = {}
  Override = {}
  Software <- Current
  DelayInSlots = 1
  Running = {d1, d2}
  MaxFaults = 1
INVARIANTS TurnsAreDistinct
PROPERTIES ReportIsDelivered
CHECK_DEADLOCK FALSE

\* d1 sends through the delegation contract x1, which is the committee member.
\* The exploration ends at MaxSlot, where every daemon may be idle: no deadlock check.
SPECIFICATION Spec
CONSTANTS
  d1 = d1  d2 = d2  d3 = d3  x1 = x1  v1 = v1  v2 = v2  v3 = v3
  SLOTS_PER_EPOCH = 1
  INITIAL_EPOCH = 1
  EPOCHS_PER_FRAME = 3
  Address = {d1, d2, x1}
  Committee <- DelegatedMembers
  Removable = {}
  SubmitRole = {}
  Quorum = 2
  FastLaneLen = 1
  Variant = {v1}
  ExtraList <- NoExtra
  UpgradeSlot <- Never
  MaxSlot = 4
  NoReport = NoReport
  Daemon = {d1, d2}
  Account <- MCAccounts
  Sender <- Delegated
  Builds <- AllBuild1
  Withheld = {}
  Override = {}
  Software <- Current
  DelayInSlots = 1
  Running = {d1, d2}
  MaxFaults = 0
INVARIANTS AuthorisedDaemonSurvives
CHECK_DEADLOCK FALSE

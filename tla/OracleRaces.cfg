\* Two members, both needed for the quorum and one removable, one of which may come to
\* another report after a restart or to one withheld (v3); the upgrade comes at slot 0 or
\* in the first frame; one crash, failed request or dropped transaction.
\* The exploration ends at MaxSlot, where every daemon may be idle: no deadlock check.
SPECIFICATION Spec
CONSTANTS
  d1 = d1  d2 = d2  d3 = d3  x1 = x1  v1 = v1  v2 = v2  v3 = v3
  SLOTS_PER_EPOCH = 1
  INITIAL_EPOCH = 1
  EPOCHS_PER_FRAME = 3
  Address = {d1, d2}
  Committee <- TwoMembers
  Removable = {d2}
  SubmitRole = {}
  Quorum = 2
  FastLaneLen = 1
  Variant = {v1, v2, v3}
  ExtraList <- NoExtra
  UpgradeSlot = {0, 4}
  MaxSlot = 4
  NoReport = NoReport
  Daemon = {d1, d2}
  Account <- MCAccounts
  Sender <- MCAccounts
  Builds <- Unstable
  Withheld = {v3}
  Override = {}
  Software <- Upgraded
  DelayInSlots = 1
  Running = {d1, d2}
  MaxFaults = 1
INVARIANTS TypeOK DataOnlyAfterConsensus SkipIsHarmless NoDuplicateVote
PROPERTIES VoteIsStable NoReportAcrossUpgrade ImplementsCommittee
CHECK_DEADLOCK FALSE

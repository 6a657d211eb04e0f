\* Two Lido validators and the rest of the network over three frames of two epochs, with
\* the exit queue empty or longer than the slashings vector.
\* Two keys, a frame of three blocks and five operations on the deposit queue and the vault.
\* Two vaults over three frames, with three events; two vaults, two keys, four deposits.
\* Four operators of two modules over three frames.
\* A validator that waits for its withdrawal inside the window of the reserve, or longer.
\* Two instances of the Keys API with one fault, three blocks, two keys.
SPECIFICATION MCSpec
CONSTANTS
  l1 = l1 l2 = l2 o1 = o1 key1 = key1
  SLOTS_PER_EPOCH = 1 INITIAL_EPOCH = 2 EPOCHS_PER_FRAME = 2
  Lido = {l1, l2} Others = {o1} Leaving = {l1}
  Activation <- MCActivation Increments <- MCIncrements Unit = 10
  Vector = 4 Withdrawability = 1 Queues = {0, 4} Shift = 1 MaxNegativeRebase = 4
  Rebases <- MCRebases MaxEpoch = 8

  Key = {k1, k2} Amount = 2 NormalRebase = 2 FrameBlocks = 3
  MaxBlock = 3 MaxQueue = 2 MaxOps = 5

  Vault = {v1, v2} Rates = {1, 2} FrameSlots = 2
  MaxShares = 1 MaxSlot = 6 MaxEvents = 3

  Owner = {w1, w2} Pubkey = {p1, p2} Stranger = Stranger
  Predeposit = 1 Full = 2 MaxDeposits = 4

  Operators <- MCOperators MaxNodeOps = 2 MaxItems = 1 MaxExited = 2 MaxFrames = 3

  EpochSlots = 2 LeftShift = 2 RightShift = 1 RatioBP = 1 TotalBP = 2
  SlashingsVector = 2 ExitQueues = {1, 3} Stake = 5 MaxReserveSlot = 13

  KapiHost = {api1, api2} LidoKey = {key1, key2} KeyOperator <- MCKeyOperator Born <- MCBorn
  RetryCount = 2 MaxHead = 3 MaxFaults = 1
INVARIANTS
  PenaltiesAreForeseen
  ReportedBalanceIsComplete RebaseIsOfRewards
  NoVaultBlocksTheReport
  ExtraDataIsComplete
  ValidatorsAreLidos
PROPERTIES SlashingsAreSocialized FeesFollowLiabilities ValueFollowsTheEther ReserveHolds
CHECK_DEADLOCK FALSE

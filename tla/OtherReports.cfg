\* Chains of five slots behind two nodes; checkpoints of two epochs of two slots, up to
\* slot 10, so that the ring of six roots wraps; three frames of two epochs with a validator
\* that comes late and leaves early; two oracles and four providers.
\* Chains of up to eight slots with a report every two slots; sweeps over five validators,
\* three withdrawals to a block, of which one may be a partial withdrawal from the queue.
SPECIFICATION MCSpec
CONSTANTS
  Host = {h1, h2} MaxSlot = 4

  SlotsPerEpoch = 2 Step = 2 Committees <- MCCommittees
  Rotation <- MCRotation SyncPeriod = 2 CacheSize = 2
  MaxStateSlot = 10 MaxDeviations = 1

  NodeOperator = {"a", "b"} Stone = "stone" Validators <- MCValidators
  OperatorOf <- MCOperatorOf Active <- MCActive Balance <- MCBalance MinActivation = 2
  Leeway <- MCLeeway RewardShare <- MCRewardShare Lifetime = 2 EpochsPerFrame = 2
  Misses <- MCMisses Slashable = {2} Received = {0, 100} MaxFrame = 3

  Oracle = {o1, o2} Readers = {o1} Providers <- MCProviders Cids = {"Qm", "bafy"}
  RightCid = "Qm" Shuffled <- MCShuffled Completions <- MCCompletions
  MaxFetchFrame = 1 MaxFetches = 2

  SearchStep = 1 BatchLimit = 1 MaxElSlot = 8 MaxLag = 2
  Duration = 5 ReportPeriod = 2 Gains <- MCGains SlotsOfEpoch = 2

  Profiles <- MCProfiles Populations = {1, 5} Partials <- MCPartials MinActivationBalance = 2
  MaxEffectiveBalance = 4 PerPayload = 3 PartialsPerPayload = 1
INVARIANTS
  ResolvedIsTheLastBlock CheckpointMatchesTheChain
  RewardsReachTheOperators StrikesAreOfTheLastFrames
  FetchAsksEveryProvider OraclesAgreeOnCid
  ReadsMatchTheChain PredictedSpeedIsTheAverage
  SweepTakesAsLongAsPredicted
CHECK_DEADLOCK FALSE

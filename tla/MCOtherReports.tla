---------------------------- MODULE MCOtherReports ----------------------------
\* What the report of a staking module is made of, from the blocks of the consensus layer to
\* the trees on IPFS, and what the ejector predicts for its own.  The parts share no state:
\* one run checks each of them, the one that "part" names, while the others rest in one
\* initial state.
EXTENDS BlockResolution, CheckpointDuties, Distribution, Ipfs, Prediction, Sweep

VARIABLE part

\* A slot with committees of one and two validators, and one with a single committee.
MCCommittees == (0 :> <<<<"a">>, <<"b", "c">>>>) @@ (1 :> <<<<"d">>>>)

\* Three periods of sync committees; in the last one a validator sits twice.
MCRotation == (0 :> <<"a", "b">>) @@ (1 :> <<"b", "c">>) @@ (2 :> <<"d", "d">>)

\* Two operators, one of them with two validators, and one validator of somebody else.
MCValidators == 1 .. 4
MCOperatorOf == (1 :> "a") @@ (2 :> "b") @@ (3 :> "b")
MCActive == [v \in MCValidators |-> IF v = 2 THEN <<1, 4>> ELSE <<0, 99>>]
MCBalance == [v \in MCValidators |-> IF v = 3 THEN 5 ELSE 1]
MCLeeway == <<<<1, 1000>>, <<2, 6000>>>>
MCRewardShare == <<<<1, 8500>>, <<2, 5000>>>>
MCMisses == {{}, {1}, {2, 3}}

MCProviders == <<"lido", "pinata", "filebase", "kubo">>
MCShuffled == {MCProviders, <<"filebase", "lido", "kubo", "pinata">>}

\* Any of the uploads, in the order of priority or the other way round.
MCCompletions ==
  {SelectSeq(order, LAMBDA p : p \in succeeded) :
     order \in {MCProviders, Reverse(MCProviders)}, succeeded \in SUBSET Provider}

\* Who gives another CID than the rest: nobody, the first, the last, half of them.
MCDissenters == {{}, {"lido"}, {"kubo"}, {"lido", "kubo"}}

\* One oracle keeps the order of priority, the other one's ring may be shuffled.
MCIpfsInit ==
  /\ \A o \in Oracle \ Readers : ring[o] = Providers
  /\ {p \in Provider : cidOf[p] # RightCid} \in MCDissenters

\* One with excess, compounding ones that are full or not, one that has left, one of others.
Compounding(effective, held, exiting) ==
  [executable |-> TRUE, compounding |-> TRUE, effective |-> effective, balance |-> held,
   exit |-> exiting]
MCProfiles ==
  {[Compounding(2, 3, "none") EXCEPT !.compounding = FALSE], Compounding(4, 6, "none"),
   Compounding(3, 4, "none"), Compounding(4, 4, "done"),
   [Compounding(4, 5, "none") EXCEPT !.executable = FALSE]}
MCPartials == UNION {[1 .. n -> [validator : 1 .. 2, amount : 1 .. 2]] : n \in 0 .. 2}

\* A loss in one frame outweighs the gain of another.
MCGains == {-3, 2}

MCInit ==
  /\ part \in {"blocks", "duties", "rewards", "ipfs", "prediction", "sweep"}
  /\ part # "blocks" => blocks = [s \in Slot |-> TRUE] /\ slot = 0 /\ last = 0
  /\ part # "ipfs" => /\ validate = TRUE /\ cidOf = [p \in Provider |-> RightCid]
                      /\ ring = [o \in Oracle |-> Providers]
  /\ part # "sweep" => set = [i \in {1} |-> Compounding(3, 4, "none")] /\ partials = <<>>
  /\ ResolutionInit /\ CheckpointInit /\ DistInit /\ IpfsInit /\ PredictionInit /\ SweepInit
  /\ part = "ipfs" => MCIpfsInit

MCNext ==
  \/ /\ part = "blocks" /\ ResolutionNext
     /\ UNCHANGED <<checkpointVars, distVars, ipfsVars, predictionVars, sweepVars, part>>
  \/ /\ part = "duties" /\ CheckpointNext
     /\ UNCHANGED <<resolutionVars, distVars, ipfsVars, predictionVars, sweepVars, part>>
  \/ /\ part = "rewards" /\ DistNext
     /\ UNCHANGED <<resolutionVars, checkpointVars, ipfsVars, predictionVars, sweepVars, part>>
  \/ /\ part = "ipfs" /\ IpfsNext
     /\ UNCHANGED <<resolutionVars, checkpointVars, distVars, predictionVars, sweepVars, part>>
  \/ /\ part = "prediction" /\ PredictionNext
     /\ UNCHANGED <<resolutionVars, checkpointVars, distVars, ipfsVars, sweepVars, part>>
  \/ /\ part = "sweep" /\ SweepNext
     /\ UNCHANGED <<resolutionVars, checkpointVars, distVars, ipfsVars, predictionVars, part>>

MCSpec ==
  MCInit /\ [][MCNext]_<<resolutionVars, checkpointVars, distVars, ipfsVars, predictionVars,
                         sweepVars, part>>
=============================================================================

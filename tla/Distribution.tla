----------------------------- MODULE Distribution -----------------------------
(***************************************************************************)
(* Rewards and strikes of a staking module (staking_modules/base.py and    *)
(* common/: distribution.py, state.py, tree.py, types.py).  A report       *)
(* covers every frame since the last processed one: it takes the duties of *)
(* the validators from the performance database, shares out what the fee   *)
(* distributor received in each of the frames, and carries on the trees of *)
(* the last report.                                                        *)
(*                                                                         *)
(* The chain and the contracts are the environment.  What is measured is   *)
(* attestations; performances are compared as fractions.                   *)
(***************************************************************************)
EXTENDS Integers, FiniteSetsExt, SequencesExt, Functions

CONSTANTS
  NodeOperator,
  Stone,          \* MAX_OPERATORS_COUNT, no node operator
  Validators,     \* of the network
  OperatorOf,     \* the node operator of a validator of the module
  Active,         \* the epochs a validator attests in: first and last
  Balance,        \* effective balance, in increments
  MinActivation,  \* MIN_ACTIVATION_BALANCE, in increments
  Leeway, RewardShare,  \* intervals <<first key number, basis points>>
  Lifetime,       \* of strikes, in frames
  EpochsPerFrame,
  Misses,         \* sets of validators that may miss the attestations of an epoch
  Slashable,      \* validators that may be slashed
  Received,       \* shares the distributor may receive in a frame
  MaxFrame        \* bound of the exploration

BP == 10000

ASSUME DistributionAssumption ==
  /\ IsFiniteSet(NodeOperator) /\ Stone \notin NodeOperator
  /\ IsFiniteSet(Validators) /\ DOMAIN OperatorOf \subseteq Validators
  /\ Range(OperatorOf) \subseteq NodeOperator
  /\ Balance \in [Validators -> Nat] /\ MinActivation \in Nat
  /\ EpochsPerFrame \in Nat \ {0} /\ Lifetime \in Nat \ {0} /\ Received \subseteq Nat
  /\ \A list \in {Leeway, RewardShare} :
       list \in Seq(Nat \X (0 .. BP)) /\ list # <<>> /\ list[1][1] = 1

VARIABLES
  now,        \* the epoch that ends next
  rows,       \* the performance database: who missed what in the epochs of this frame
  slashedNow, \* validators that were slashed
  ends,       \* of the frames so far: what a report reads at their last block
  received,   \* shares the distributor received
  contract    \* the distributor and the strikes contract

distVars == <<now, rows, slashedNow, ends, received, contract>>

Total(f) == SumFunctionOnSet(f, DOMAIN f)
Of(f, x) == IF x \in DOMAIN f THEN f[x] ELSE 0
Add(f, g) == [x \in DOMAIN f \cup DOMAIN g |-> Of(f, x) + Of(g, x)]

-----------------------------------------------------------------------------
(* Duties of a frame *)

FirstEpoch(f) == f * EpochsPerFrame
LastEpoch(f) == FirstEpoch(f) + EpochsPerFrame - 1

\* _count_active_epochs.
ActiveEpochs(v, f) ==
  Cardinality({e \in FirstEpoch(f) .. LastEpoch(f) : Active[v][1] <= e /\ e <= Active[v][2]})

\* _get_frame_duties, of validators with attestations to make.
Duties(f, missed) ==
  [v \in {v \in Validators : ActiveEpochs(v, f) > 0} |->
     [assigned |-> ActiveEpochs(v, f),
      included |-> ActiveEpochs(v, f) - Cardinality({i \in DOMAIN missed : v \in missed[i]})]]

-----------------------------------------------------------------------------
(* The distribution in a frame *)

ValidatorsOfOperator(o) == {v \in DOMAIN OperatorOf : OperatorOf[v] = o}

\* The order of an operator's keys: the largest balance first, then the oldest.
KeyNumber(v, duties) ==
  1 + Cardinality({u \in ValidatorsOfOperator(OperatorOf[v]) \cap DOMAIN duties :
                     Balance[u] > Balance[v] \/ (Balance[u] = Balance[v] /\ u < v)})

\* KeyNumberValueIntervalList.get_for.
GetFor(intervals, n) ==
  LET i == Max({j \in DOMAIN intervals : intervals[j][1] <= n}) IN intervals[i][2]

\* get_att_network_aggr.
NetworkDuties(duties) ==
  [assigned |-> Total([v \in DOMAIN duties |-> duties[v].assigned]),
   included |-> Total([v \in DOMAIN duties |-> duties[v].included])]

\* The network's performance less the leeway of the key, as a fraction, at least 0.
Threshold(v, duties) ==
  LET network == NetworkDuties(duties)
  IN <<Max({network.included * BP - GetFor(Leeway, KeyNumber(v, duties)) * network.assigned, 0}),
       network.assigned * BP>>

CeilDiv(a, b) == (a + b - 1) \div b

\* get_validator_duties_outcome.
Outcome(v, duties, slashed) ==
  LET d == duties[v]
      threshold == Threshold(v, duties)
      good == d.included * threshold[2] >= threshold[1] * d.assigned
      attestations == d.assigned * Max({MinActivation, Balance[v]})
      share == CeilDiv(attestations * GetFor(RewardShare, KeyNumber(v, duties)), BP)
  IN IF v \in slashed
     THEN [share |-> 0, rebate |-> 0, strikes |-> IF threshold[1] > 0 THEN 1 ELSE 0]
     ELSE IF good THEN [share |-> share, rebate |-> attestations - share, strikes |-> 0]
     ELSE [share |-> 0, rebate |-> 0, strikes |-> 1]

\* _calculate_distribution_in_frame: what each validator of the module makes of it.
OutcomesIn(duties, slashed) ==
  [v \in DOMAIN OperatorOf \cap DOMAIN duties |-> Outcome(v, duties, slashed)]

StrikesIn(outcomes) == {v \in DOMAIN outcomes : outcomes[v].strikes > 0}

\* calc_rewards_distribution_in_frame.
RewardsIn(outcomes, rewards) ==
  LET shares == [o \in NodeOperator |-> Total([v \in ValidatorsOfOperator(o) \cap DOMAIN outcomes |->
                                                outcomes[v].share])]
      total == Total([v \in DOMAIN outcomes |-> outcomes[v].share + outcomes[v].rebate])
  IN [o \in {o \in NodeOperator : shares[o] > 0} |-> (rewards * shares[o]) \div total]

-----------------------------------------------------------------------------
(* The report *)

\* StrikesList.resize and push.
Resize(list, n) == [i \in 1 .. n |-> IF i <= Len(list) THEN list[i] ELSE 0]
Push(list, x) == <<x>> \o list

\* Mutant: a frame without a strike does not shift the list.
ProcessStrikes_NoShift(strikes, frame) ==
  LET list(v) == IF v \in DOMAIN strikes THEN strikes[v] ELSE <<>>
      next == [v \in DOMAIN strikes \cup frame |->
                 Resize(IF v \in frame THEN Push(list(v), 1) ELSE list(v), Lifetime)]
  IN [v \in {v \in DOMAIN next : \E i \in DOMAIN next[v] : next[v][i] # 0} |-> next[v]]

\* _process_strikes.
ProcessStrikes(strikes, frame) ==
  LET list(v) == IF v \in DOMAIN strikes THEN strikes[v] ELSE <<>>
      next == [v \in DOMAIN strikes \cup frame |->
                 Resize(Push(list(v), IF v \in frame THEN 1 ELSE 0), Lifetime)]
  IN [v \in {v \in DOMAIN next : \E i \in DOMAIN next[v] : next[v][i] # 0} |-> next[v]]

\* Mutant: what earlier frames of the report gave away is distributed again.
FrameRewards_Pending(f, r) == ends[f + 1].pending

\* rewards_to_distribute_in_frame: what is pending at its end, less the frames before.
FrameRewards(f, r) == ends[f + 1].pending - (r.rewards + r.rebate)

\* One frame in the loop of Distribution.calculate.
AddFrame(r, f) ==
  LET outcomes == ends[f + 1].outcomes
      map == RewardsIn(outcomes, FrameRewards(f, r))
  IN [rewards |-> r.rewards + Total(map),
      rebate |-> r.rebate + (FrameRewards(f, r) - Total(map)),
      map |-> Add(r.map, map),
      strikes |-> ProcessStrikes(r.strikes, StrikesIn(outcomes))]

\* calculate, over the frames of the report (State._calculate_frames).
Calculate(first, newest) ==
  LET start == [rewards |-> 0, rebate |-> 0, map |-> <<>>, strikes |-> contract.strikes]
      after[f \in first - 1 .. newest] == IF f < first THEN start ELSE AddFrame(after[f - 1], f)
  IN after[newest]

\* _make_rewards_tree: never a single leaf, and no stone among several operators.
WithStone(map) ==
  IF Cardinality(DOMAIN map) = 1 THEN Add(map, [o \in {Stone} |-> 0])
  ELSE IF Cardinality(DOMAIN map) > 2 THEN Restrict(map, DOMAIN map \ {Stone})
  ELSE map

-----------------------------------------------------------------------------
(* The chain *)

DistInit ==
  /\ now = 0 /\ rows = <<>> /\ slashedNow = {} /\ ends = <<>> /\ received = 0
  /\ contract = [tree |-> <<>>, strikes |-> <<>>, given |-> 0, last |-> -1]

\* An epoch passes and the collector stores its row.
MidFrame(misses) ==
  /\ (now + 1) % EpochsPerFrame # 0 /\ now < FirstEpoch(MaxFrame)
  /\ now' = now + 1 /\ rows' = Append(rows, misses)
  /\ UNCHANGED <<slashedNow, ends, received, contract>>

\* The last epoch of a frame. Nothing changes the rows and the last block of the frame any
\* more, so what a report will make of them is worked out here.
EndFrame(misses, shares) ==
  LET duties == Duties(Len(ends), Append(rows, misses))
  IN /\ (now + 1) % EpochsPerFrame = 0 /\ now < FirstEpoch(MaxFrame)
     /\ now' = now + 1 /\ rows' = <<>>
     /\ received' = received + shares
     /\ ends' = Append(ends, [pending |-> received' - contract.given, fresh |-> shares,
                              outcomes |-> OutcomesIn(duties, slashedNow)])
     /\ UNCHANGED <<slashedNow, contract>>

GetSlashed(v) ==
  /\ v \notin slashedNow /\ Active[v][1] <= now /\ now <= Active[v][2]
  /\ slashedNow' = slashedNow \cup {v}
  /\ UNCHANGED <<now, rows, ends, received, contract>>

\* A report for the frame that ended last: _get_report_range, build_report, its processing.
ReportFrames ==
  LET newest == Len(ends) - 1
      first == (contract.last + 1) \div EpochsPerFrame
      r == Calculate(first, newest)
  IN /\ ends # <<>> /\ contract.last < LastEpoch(newest)
     /\ contract' = [tree |-> IF r.rewards > 0 THEN WithStone(Add(r.map, contract.tree))
                              ELSE contract.tree,
                     strikes |-> r.strikes,
                     given |-> contract.given + r.rewards + r.rebate,
                     last |-> LastEpoch(newest)]
     /\ UNCHANGED <<now, rows, slashedNow, ends, received>>

DistNext ==
  \/ \E misses \in {{v \in m : Active[v][1] <= now /\ now <= Active[v][2]} : m \in Misses} :
       MidFrame(misses) \/ \E shares \in Received : EndFrame(misses, shares)
  \/ \E v \in Slashable : GetSlashed(v)
  \/ ReportFrames

DistSpec == DistInit /\ [][DistNext]_distVars

-----------------------------------------------------------------------------
(* Properties *)

Reported == {f \in 0 .. Len(ends) - 1 : LastEpoch(f) <= contract.last}

\* distribution.py:60-111: an operator can claim what the frames would have given it had each
\* been reported by itself, from the shares received in it, and all else was rebated: reports
\* that were missed neither lose rewards nor pay any twice.
RewardsDoNotDependOnReports ==
  LET of(f) == RewardsIn(ends[f + 1].outcomes, ends[f + 1].fresh)
  IN /\ \A o \in NodeOperator :
          Of(contract.tree, o) = Total([f \in Reported |-> Of(of(f), o)])
     /\ contract.given = Total([f \in Reported |-> ends[f + 1].fresh])

\* distribution.py:367-387: the strikes of a validator are those of the last frames, newest
\* first, one place for each frame whether it was reported alone, late or brought no strike;
\* a validator without any of them is not in the tree.
StrikesAreOfTheLastFrames ==
  LET newest == IF Reported = {} THEN -1 ELSE Max(Reported)
      strike(v, f) == IF f >= 0 /\ v \in StrikesIn(ends[f + 1].outcomes) THEN 1 ELSE 0
      list(v) == [i \in 1 .. Lifetime |-> strike(v, newest - i + 1)]
  IN \A v \in DOMAIN OperatorOf :
       IF v \in DOMAIN contract.strikes THEN contract.strikes[v] = list(v)
       ELSE \A i \in 1 .. Lifetime : list(v)[i] = 0

\* base.py:396-417 ("it's still possible to claim rewards"): the rewards tree never has a
\* single leaf, whose proof would be empty, from whatever tree a report carries on.
RewardsStayClaimable == Cardinality(DOMAIN contract.tree) # 1

\* distribution.py, base.py: whatever reports were missed, the rewards tree gives every operator
\* its due, in a form that it can claim.
RewardsReachTheOperators == RewardsDoNotDependOnReports /\ RewardsStayClaimable

=============================================================================

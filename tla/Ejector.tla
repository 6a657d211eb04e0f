------------------------------ MODULE Ejector ------------------------------
(***************************************************************************)
(* One report of the ejector (src/src/modules/oracles/ejector/ejector.py): *)
(* validators are taken from the exit order until what is predicted to be  *)
(* on the execution layer when the last of them is withdrawn covers the    *)
(* withdrawal requests, then the remaining forced exits are added.  How    *)
(* the report gets on chain is the matter of OracleReport.                 *)
(***************************************************************************)
EXTENDS ExitOrder, Sequences

CONSTANTS
  Demands,          \* unfinalized_steth: what withdrawal requests may ask for
  RefEpoch,         \* epoch of the reference slot
  EarliestExit,     \* earliest_exit_epoch of the beacon state
  ChurnLeft,        \* exit_balance_to_consume of the beacon state
  Churn,            \* get_activation_exit_churn_limit
  WithdrawalDelay,  \* MIN_VALIDATOR_WITHDRAWABILITY_DELAY
  SeedLookahead,    \* 1 + MAX_SEED_LOOKAHEAD
  SweepEpochs,      \* get_sweep_delay_in_epochs
  Rewards,          \* get_rewards_per_epoch
  ElBalance,        \* _get_total_el_balance
  Maturing,         \* validators on exit: epoch, full balance, excess to sweep
  Reserve,          \* of a frame of the accounting oracle, for deposits
  FrameEpochs       \* length of that frame

ASSUME EjectorAssumption ==
  /\ Demands \subseteq Nat
  /\ RefEpoch \in Nat /\ EarliestExit \in Nat /\ ChurnLeft \in Nat
  /\ Churn \in Nat \ {0} /\ FrameEpochs \in Nat \ {0}
  /\ WithdrawalDelay \in Nat /\ SeedLookahead \in Nat /\ SweepEpochs \in Nat
  /\ Rewards \in Nat /\ ElBalance \in Nat /\ Reserve \in Nat
  /\ IsFiniteSet(Maturing) /\ Maturing \subseteq [epoch : Nat, full : Nat, excess : Nat]

VARIABLES
  pc,
  demand,     \* to_withdraw_amount
  toEject,    \* total_balance_to_eject
  predicted,  \* predictable_el_balance
  report      \* validators_to_eject

vars == <<groups, weight, target, exitLimit, left, op, mod, total, spent,
          pc, demand, toEject, predicted, report>>

-----------------------------------------------------------------------------
(* _get_predicted_el_balance *)

\* Mutant: the balance that just fills an epoch is moved to the next one.
ExitEpoch_Early(x) ==
  LET earliest == Max({EarliestExit, RefEpoch + SeedLookahead})
      now == IF EarliestExit < earliest THEN Churn ELSE ChurnLeft
  IN IF x > now THEN earliest + (x - now) \div Churn ELSE earliest

\* compute_exit_epoch_and_update_churn.
ExitEpoch(x) ==
  LET earliest == Max({EarliestExit, RefEpoch + SeedLookahead})
      now == IF EarliestExit < earliest THEN Churn ELSE ChurnLeft
  IN IF x > now THEN earliest + (x - now - 1) \div Churn + 1 ELSE earliest

\* get_recently_requested_but_not_exiting_validators.
GoingToExit == BalanceOf(Requested \ (OnExit \cup Consolidating))

\* _get_withdrawable_lido_validators_balance.
Withdrawable(epoch) ==
  SumFunction([v \in Maturing |-> IF v.epoch <= epoch THEN v.full ELSE v.excess])

\* _get_deposit_lock_amount.
DepositLock(epochs) == (epochs \div FrameEpochs) * Reserve

PredictedBalance(x) ==
  LET withdrawal == ExitEpoch(GoingToExit + x) + WithdrawalDelay
      time == withdrawal + SweepEpochs - RefEpoch
  IN time * Rewards + Withdrawable(withdrawal) + ElBalance + GoingToExit
       - DepositLock(time)

-----------------------------------------------------------------------------
(* get_validators_to_eject *)

Init ==
  /\ groups \in GroupSets /\ weight \in Weights
  /\ target \in TargetSets /\ exitLimit \in ExitLimits
  /\ demand \in Demands
  /\ pc = "start"
  /\ left = {} /\ total = 0 /\ spent = 0
  /\ op = [o \in Operator |-> [validators |-> 0, balance |-> 0, stake |-> 0, weight |-> 0]]
  /\ mod = [m \in Module |-> [balance |-> 0, stake |-> 0, weight |-> 0]]
  /\ toEject = 0 /\ predicted = 0 /\ report = <<>>

\* The iterator is made, and made again by the loop over it.
Start ==
  /\ pc = "start"
  /\ predicted' = PredictedBalance(0)
  /\ IF Misconfigured
       THEN pc' = "failed" /\ UNCHANGED counterVars
       ELSE /\ Iterate
            /\ pc' = IF demand # 0 /\ demand > predicted' THEN "loop" ELSE "forced"
  /\ UNCHANGED <<inputVars, demand, toEject, report>>

\* The key of an operator cannot be computed.
CannotSort ==
  /\ pc = "loop" /\ Unsortable
  /\ pc' = "failed"
  /\ UNCHANGED <<inputVars, counterVars, demand, toEject, predicted, report>>

NoneLeft ==
  /\ pc = "loop" /\ ~Unsortable /\ HasLeft = {}
  /\ pc' = "forced"
  /\ UNCHANGED <<inputVars, counterVars, demand, toEject, predicted, report>>

\* Mutant: the balance is predicted once, before the loop.
NextValidator_StalePrediction ==
  /\ pc = "loop" /\ ~Unsortable
  /\ \E v \in FirstOf([o \in HasLeft |-> Priority(o)]) :
       /\ Eject(v)
       /\ IF spent' > exitLimit
            THEN pc' = "forced" /\ UNCHANGED <<toEject, report>>
            ELSE /\ report' = Append(report, v)
                 /\ toEject' = toEject + Balance[v]
                 /\ pc' = IF predicted + toEject' >= demand THEN "forced" ELSE "loop"
  /\ UNCHANGED <<inputVars, demand, predicted>>

\* The validator that exceeds the limit is taken from the iterator all the same.
NextValidator ==
  /\ pc = "loop" /\ ~Unsortable
  /\ \E v \in FirstOf([o \in HasLeft |-> Priority(o)]) :
       /\ Eject(v)
       /\ IF spent' > exitLimit
            THEN pc' = "forced" /\ UNCHANGED <<toEject, predicted, report>>
            ELSE /\ report' = Append(report, v)
                 /\ toEject' = toEject + Balance[v]
                 /\ predicted' = PredictedBalance(toEject')
                 /\ pc' = IF predicted' + toEject' >= demand THEN "forced" ELSE "loop"
  /\ UNCHANGED <<inputVars, demand>>

\* Mutant: forced exits are not held against the limit.
RemainingForced_NoLimit ==
  /\ pc = "forced"
  /\ \E v \in FirstOf([o \in HasForced |-> ForcedPriority(o)]) :
       Eject(v) /\ report' = Append(report, v)
  /\ UNCHANGED <<inputVars, pc, demand, toEject, predicted>>

\* get_remaining_forced_validators, which goes on from the iterator's counters.
RemainingForced ==
  /\ pc = "forced"
  /\ \E v \in FirstOf([o \in HasForced |-> ForcedPriority(o)]) :
       /\ Eject(v)
       /\ IF spent' > exitLimit
            THEN pc' = "done" /\ UNCHANGED report
            ELSE report' = Append(report, v) /\ UNCHANGED pc
  /\ UNCHANGED <<inputVars, demand, toEject, predicted>>

\* Mutant: an operator above its target with nothing to exit is looked at for ever.
NoForcedLeft_NoElse ==
  /\ pc = "forced" /\ \A o \in Operator : Above(o, "force") = 0
  /\ pc' = "done"
  /\ UNCHANGED <<inputVars, counterVars, demand, toEject, predicted, report>>

\* Nobody is above a forced target, or those who are have nothing to exit.
NoForcedLeft ==
  /\ pc = "forced" /\ HasForced = {}
  /\ pc' = "done"
  /\ UNCHANGED <<inputVars, counterVars, demand, toEject, predicted, report>>

Next ==
  Start \/ CannotSort \/ NoneLeft \/ NextValidator \/ RemainingForced \/ NoForcedLeft

Spec == Init /\ [][Next]_vars

\* The report is computed without waiting for anybody.
FairSpec == Spec /\ WF_vars(Next)

-----------------------------------------------------------------------------
(* Properties *)

Asked == {report[i] : i \in DOMAIN report}

\* What is asked to exit passes the sanity checker, whatever mix of exits for the
\* demand and forced exits it is: at their greatest balances the validators stay
\* within the limit, none is there twice and none was excluded.
ReportFitsLimit ==
  /\ SumFunctionOnSet(MaxBalance, Asked) <= exitLimit
  /\ Cardinality(Asked) = Len(report)
  /\ Asked \subseteq Exitable

\* After any number of exits, across the groups and modules, the counters are those
\* the iterator would compute from the validators left (_calculate_lido_stats
\* against _eject_validator and _decrease_affected_stake).
CountersMatch ==
  pc \notin {"start", "failed"} =>
    /\ op = OperatorStats(left)
    /\ mod = ModuleStats(left)
    /\ total = BalanceOf(left \cup Pending)

LimitReached == spent > exitLimit

\* A report that leaves withdrawal requests uncovered asks for all it can: nothing
\* is left, or the next validator does not fit.  The prediction is the one for all
\* the exits, which may be lower than the one for fewer.
DemandIsCovered ==
  pc \in {"forced", "done"} =>
    \/ demand = 0
    \/ demand <= PredictedBalance(toEject) + toEject
    \/ LimitReached
    \/ HasLeft = {}

\* Forced exits are complete, also when there is no demand, unless the limit is
\* reached.
ForcedExitsAreAsked == pc = "done" => HasForced = {} \/ LimitReached

\* As long as an operator above its target can exit, nobody else is asked: if one is
\* left at the end, every exit was one of an operator with a target, and none went
\* below it.  Module shares and stakes do not outrank a target (_no_predicate).
TargetsComeFirst ==
  (\E o \in HasLeft : Above(o, "force") + Above(o, "soft") > 0) =>
    \A v \in Asked :
      /\ target[OperatorOf[v]].mode # "none"
      /\ op[OperatorOf[v]].validators >= target[OperatorOf[v]].to

\* The exit epoch predicted for the validators asked so far is the first one by which
\* the churn limit lets them all exit (compute_exit_epoch_and_update_churn).
ExitEpochIsFirst ==
  LET x == GoingToExit + toEject
      earliest == Max({EarliestExit, RefEpoch + SeedLookahead})
      first == IF earliest = EarliestExit THEN ChurnLeft ELSE Churn
      Capacity(e) == first + (e - earliest) * Churn
      e == ExitEpoch(x)
  IN /\ e >= earliest /\ Capacity(e) >= x
     /\ e > earliest => Capacity(e - 1) < x

\* Every report comes to an end.
ReportIsMade == <>(pc \in {"done", "failed"})

\* ejector.py:168-216: nothing that a report must ask for is left out of it.
ReportIsComplete == DemandIsCovered /\ ForcedExitsAreAsked

=============================================================================

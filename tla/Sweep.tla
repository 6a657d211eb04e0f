-------------------------------- MODULE Sweep --------------------------------
(***************************************************************************)
(* How long a validator waits for its withdrawal once it may be withdrawn  *)
(* (ejector/sweep.py): the ejector counts the withdrawals of a full cycle  *)
(* of the sweep in the state of the reference slot, and takes half of the  *)
(* time they need.                                                         *)
(*                                                                         *)
(* The beacon chain is the environment: every block carries some pending   *)
(* partial withdrawals and the validators the sweep comes to next.  As in  *)
(* the prediction, all partial withdrawals are mature, nothing else        *)
(* changes a balance and the sweep passes any number of validators.        *)
(***************************************************************************)
EXTENDS Integers, Sequences, FiniteSetsExt, Functions

CONSTANTS
  Profiles,     \* what a validator may be: credentials, effective balance, balance, exit
  Populations,  \* numbers of validators
  Partials,     \* sequences of pending partial withdrawals: validator and amount
  MinActivationBalance, MaxEffectiveBalance,
  PerPayload,   \* MAX_WITHDRAWALS_PER_PAYLOAD
  PartialsPerPayload \* MAX_PENDING_PARTIALS_PER_WITHDRAWALS_SWEEP

ASSUME SweepAssumption ==
  /\ Profiles \subseteq [executable : BOOLEAN, compounding : BOOLEAN, effective : Nat,
                         balance : Nat, exit : {"none", "leaving", "done"}]
  /\ Populations \subseteq Nat \ {0}
  /\ Partials \subseteq Seq([validator : Nat, amount : Nat \ {0}])
  /\ PerPayload \in Nat /\ PartialsPerPayload \in Nat \ {0} /\ PartialsPerPayload < PerPayload
  /\ MinActivationBalance \in Nat /\ MaxEffectiveBalance \in Nat
  /\ MinActivationBalance < MaxEffectiveBalance

VARIABLES
  set,        \* the validators, in the order of their indices
  balances,   \* state.balances
  partials,   \* state.pending_partial_withdrawals of the reference slot
  processed,  \* how many of them blocks have taken off the queue since
  cursor,     \* the validator the sweep comes to next
  remaining,  \* history: validators the sweep has to withdraw in this cycle
  payloads,   \* history: blocks since the report
  report      \* what the ejector predicted, and whether its assumptions hold

sweepVars == <<set, balances, partials, processed, cursor, remaining, payloads, report>>

DivUp(a, b) == (a + b - 1) \div b

-----------------------------------------------------------------------------
(* Validators *)

MaxEffective(v) == IF v.compounding THEN MaxEffectiveBalance ELSE MinActivationBalance

\* is_fully_withdrawable_validator; "done" is: its withdrawable epoch has come.
FullyWithdrawable(v, held) == v.executable /\ v.exit = "done" /\ held > 0

PartiallyWithdrawable(v, held) ==
  v.executable /\ v.effective = MaxEffective(v) /\ held > MaxEffective(v)

Sweepable(v, held) == FullyWithdrawable(v, held) \/ PartiallyWithdrawable(v, held)

\* What a pending partial withdrawal takes from a balance.
PartialAmount(p, held) ==
  IF set[p.validator].exit = "none" /\ set[p.validator].effective >= MinActivationBalance
     /\ held > MinActivationBalance
  THEN Min({held - MinActivationBalance, p.amount}) ELSE 0

-----------------------------------------------------------------------------
(* The prediction *)

Amounts == [j \in DOMAIN partials |-> PartialAmount(partials[j], balances[partials[j].validator])]

\* get_pending_partial_withdrawals: the places in the queue of those that have an effect.
PendingPartialWithdrawals == {j \in processed + 1 .. Len(partials) : Amounts[j] > 0}

PartiallyWithdrawn(i) ==
  SumFunctionOnSet(Amounts, {j \in PendingPartialWithdrawals : partials[j].validator = i})

\* Mutant: validators are looked at without their partial withdrawals.
ValidatorsWithdrawals_Whole == {i \in DOMAIN set : Sweepable(set[i], balances[i])}

\* get_validators_withdrawals.
ValidatorsWithdrawals ==
  {i \in DOMAIN set : Sweepable(set[i], balances[i] - PartiallyWithdrawn(i))}

\* Mutant: all pending partial withdrawals are taken for those of one cycle.
WithdrawalsInSweepCycle_AllPartials ==
  Cardinality(ValidatorsWithdrawals) + Cardinality(PendingPartialWithdrawals)

\* predict_withdrawals_number_in_sweep_cycle.
WithdrawalsInSweepCycle ==
  LET swept == Cardinality(ValidatorsWithdrawals)
      most == DivUp(swept * PartialsPerPayload, PerPayload - PartialsPerPayload)
  IN swept + Min({Cardinality(PendingPartialWithdrawals), most})

\* get_sweep_delay_in_epochs, in payloads instead of epochs.
SweepDelay == DivUp(WithdrawalsInSweepCycle, PerPayload) \div 2

\* predict_withdrawals_number_in_sweep_cycle: "All pending_partial_withdrawals are executed
\* before full and partial withdrawals, and the result is immediately reflected".  Where that
\* makes no difference: no validator is asked for more than it has, and one that the sweep
\* comes to before has enough both above and below what the sweep leaves it.
Uncontested ==
  \A i \in DOMAIN set : PartiallyWithdrawn(i) > 0 =>
    /\ PartiallyWithdrawn(i) <= balances[i] - MinActivationBalance
    /\ Sweepable(set[i], balances[i]) =>
         /\ i \in ValidatorsWithdrawals
         /\ PartiallyWithdrawn(i) <= MaxEffective(set[i]) - MinActivationBalance

-----------------------------------------------------------------------------
(* The chain *)

\* Only a compounding validator can be asked for a part of its balance, and for more than zero.
SweepInit ==
  /\ set \in UNION {[1 .. n -> Profiles] : n \in Populations}
  /\ balances = [i \in DOMAIN set |-> set[i].balance]
  /\ partials \in {ps \in Partials : \A j \in DOMAIN ps :
                     ps[j].validator \in DOMAIN set /\ set[ps[j].validator].compounding}
  /\ processed = 0 /\ cursor = 1 /\ remaining = {} /\ payloads = -1
  /\ report = [payloads |-> 0, delay |-> 0, uncontested |-> FALSE]

Predict ==
  /\ payloads = -1 /\ payloads' = 0
  /\ report' = [payloads |-> DivUp(WithdrawalsInSweepCycle, PerPayload), delay |-> SweepDelay,
                uncontested |-> Uncontested]
  /\ remaining' = {i \in DOMAIN set : Sweepable(set[i], balances[i])}
  /\ UNCHANGED <<set, balances, partials, processed, cursor>>

\* The partial withdrawals of a payload, those without effect included, one by one.
TakePartials ==
  LET taken[j \in 0 .. Len(partials)] ==
        IF j <= processed THEN [balances |-> balances, count |-> 0, processed |-> processed]
        ELSE LET s == taken[j - 1]
                 i == partials[j].validator
                 amount == PartialAmount(partials[j], s.balances[i])
             IN IF s.count = PartialsPerPayload THEN s
                ELSE [balances |-> [s.balances EXCEPT ![i] = @ - amount],
                      count |-> s.count + (IF amount > 0 THEN 1 ELSE 0), processed |-> j]
  IN taken[Len(partials)]

\* process_withdrawals of the consensus specification: the sweep takes as many as the payload
\* has room for, those it comes to first.
Payload ==
  LET taken == TakePartials
      all == {i \in DOMAIN set : Sweepable(set[i], taken.balances[i])}
      place(i) == (i - cursor) % Len(set)
  IN /\ payloads >= 0 /\ remaining # {}
     /\ \E swept \in SUBSET all :
          /\ Cardinality(swept) = Min({Cardinality(all), PerPayload - taken.count})
          /\ \A i \in swept : \A j \in all \ swept : place(i) < place(j)
          /\ balances' = [i \in DOMAIN set |->
               IF i \notin swept THEN taken.balances[i]
               ELSE IF set[i].exit = "done" THEN 0 ELSE MaxEffective(set[i])]
          /\ cursor' = IF taken.count + Cardinality(swept) < PerPayload THEN cursor
               ELSE ((CHOOSE i \in swept : \A j \in swept : place(j) <= place(i)) % Len(set)) + 1
          /\ remaining' = {i \in remaining \ swept : Sweepable(set[i], taken.balances[i])}
     /\ processed' = taken.processed /\ payloads' = payloads + 1
     /\ UNCHANGED <<set, partials, report>>

SweepNext == Predict \/ Payload

SweepSpec == SweepInit /\ [][SweepNext]_sweepVars

-----------------------------------------------------------------------------
(* Properties *)

\* sweep.py:28-99: the cycle takes as many blocks as predicted, however partial withdrawals
\* and the sweep share a block and compete for one validator's balance, as long as it has
\* enough for both.
SweepTakesAsLongAsPredicted ==
  payloads >= 0 /\ remaining = {} /\ report.uncontested =>
    payloads = report.payloads /\ report.delay = payloads \div 2
=============================================================================

------------------------------ MODULE VaultValue ------------------------------
(***************************************************************************)
(* The total value of staking vaults (services/staking_vaults.py): ether   *)
(* in the vault, of its validators and on its way to them.  A key passes   *)
(* the predeposit guarantee (PDG): a vault predeposits a little, proves    *)
(* that the validator got its withdrawal credentials and only then         *)
(* deposits the rest; a guarantor makes good for credentials that          *)
(* somebody else put on the key first.                                     *)
(*                                                                         *)
(* The deposit queue, the PDG and the vaults are the environment.          *)
(***************************************************************************)
EXTENDS Integers, FiniteSetsExt, Functions, SequencesExt

CONSTANTS
  Owner,       \* vaults, which own withdrawal credentials
  Pubkey,
  Stranger,    \* foreign withdrawal credentials, or no vault at all
  Predeposit,  \* MIN_DEPOSIT_AMOUNT
  Full,        \* what makes a validator eligible for activation
  MaxDeposits  \* bound of the exploration

ASSUME VaultValueAssumption ==
  /\ IsFiniteSet(Pubkey) /\ Stranger \notin Owner
  /\ {Predeposit, Full} \subseteq Nat /\ 0 < Predeposit /\ Predeposit < Full

VARIABLES
  pending,    \* pending deposits: key, credentials, amount, validity of the signature
  validator,  \* validators there are: credentials, balance, eligible for activation
  pdg,        \* ValidatorStatus of a key: stage and vault
  aggregated, \* aggregated_balance of a vault, relative to its first one
  made        \* bound: deposits so far

valueVars == <<pending, validator, pdg, aggregated, made>>

-----------------------------------------------------------------------------
(* get_vaults_total_values *)

\* _get_total_pending_amount_by_pubkey.
PendingAmount(k) ==
  SumFunctionOnSet([i \in DOMAIN pending |-> pending[i].amount],
                   {i \in DOMAIN pending : pending[i].key = k})

WholeBalance(k) == validator[k].balance + PendingAmount(k)

\* _get_validators_by_vault.
ValidatorsOf(v) == {k \in DOMAIN validator : validator[k].wc = v}

ValidatorValue(v, k) ==
  IF validator[k].eligible THEN WholeBalance(k)
  ELSE CASE pdg[k] = [stage |-> "PREDEPOSITED", vault |-> v] -> Predeposit
         [] pdg[k] = [stage |-> "ACTIVATED", vault |-> v] -> WholeBalance(k)
         [] OTHER -> 0

\* Mutant: keys that have a validator already are counted with the unmatched ones.
UnmatchedKeys_All(v) == {d.key : d \in {d \in ToSet(pending) : d.wc \in Owner}}

\* _get_unmatched_deposits_pubkeys.
UnmatchedKeys(v) ==
  {d.key : d \in {d \in ToSet(pending) : d.wc \in Owner /\ d.key \notin DOMAIN validator}}

UnmatchedValue(v, k) ==
  IF pdg[k] = [stage |-> "PREDEPOSITED", vault |-> v] THEN Predeposit ELSE 0

\* _calculate_vault_total_value.
TotalValue(v) ==
  aggregated[v]
    + SumFunctionOnSet([k \in ValidatorsOf(v) |-> ValidatorValue(v, k)], ValidatorsOf(v))
    + SumFunctionOnSet([k \in UnmatchedKeys(v) |-> UnmatchedValue(v, k)], UnmatchedKeys(v))

-----------------------------------------------------------------------------
(* The chain *)

NoStatus == [stage |-> "NONE", vault |-> Stranger]

ValueInit ==
  /\ pending = <<>> /\ validator = <<>> /\ made = 0
  /\ pdg = [k \in Pubkey |-> NoStatus]
  /\ aggregated = [v \in Owner |-> 0]

Send(k, wc, amount, valid) ==
  /\ made < MaxDeposits /\ made' = made + 1
  /\ pending' = Append(pending, [key |-> k, wc |-> wc, amount |-> amount, valid |-> valid])

MakePredeposit(v, k) ==
  /\ pdg[k] = NoStatus /\ Send(k, v, Predeposit, TRUE)
  /\ pdg' = [pdg EXCEPT ![k] = [stage |-> "PREDEPOSITED", vault |-> v]]
  /\ aggregated' = [aggregated EXCEPT ![v] = @ - Predeposit]
  /\ UNCHANGED validator

Prove(k) ==
  /\ pdg[k].stage = "PREDEPOSITED" /\ k \in ValidatorsOf(pdg[k].vault)
  /\ pdg' = [pdg EXCEPT ![k].stage = "PROVEN"]
  /\ UNCHANGED <<pending, validator, aggregated, made>>

\* The proof may be given in the transaction that activates.
Activate(k) ==
  /\ pdg[k].stage \in {"PREDEPOSITED", "PROVEN"} /\ k \in ValidatorsOf(pdg[k].vault)
  /\ Send(k, pdg[k].vault, Full - Predeposit, TRUE)
  /\ pdg' = [pdg EXCEPT ![k].stage = "ACTIVATED"]
  /\ aggregated' = [aggregated EXCEPT ![pdg[k].vault] = @ - (Full - Predeposit)]
  /\ UNCHANGED validator

\* Somebody else's credentials were on the key first.
Astray(k) ==
  pdg[k].stage = "PREDEPOSITED" /\ k \in DOMAIN validator \ ValidatorsOf(pdg[k].vault)

Compensate(k) ==
  LET v == pdg[k].vault
  IN /\ Astray(k)
     /\ pdg' = [pdg EXCEPT ![k].stage = "COMPENSATED"]
     /\ aggregated' = [aggregated EXCEPT ![v] = @ + Predeposit]
     /\ UNCHANGED <<pending, validator, made>>

\* Somebody deposits to a key, past the PDG.
SideDeposit(k, wc, valid) ==
  Send(k, wc, Predeposit, valid) /\ UNCHANGED <<validator, pdg, aggregated>>

Process ==
  LET d == Head(pending)
  IN /\ pending # <<>> /\ pending' = Tail(pending)
     /\ validator' =
          IF d.key \in DOMAIN validator
          THEN [validator EXCEPT ![d.key].balance = @ + d.amount]
          ELSE IF ~d.valid THEN validator
          ELSE [k \in DOMAIN validator \cup {d.key} |->
                  IF k \in DOMAIN validator THEN validator[k]
                  ELSE [wc |-> d.wc, balance |-> d.amount, eligible |-> FALSE]]
     /\ UNCHANGED <<pdg, aggregated, made>>

BecomeEligible(k) ==
  /\ validator[k].balance >= Full /\ ~validator[k].eligible
  /\ validator' = [validator EXCEPT ![k].eligible = TRUE]
  /\ UNCHANGED <<pending, pdg, aggregated, made>>

\* An eligible validator leaves: its balance is swept to the vault.
SweepOut(k) ==
  /\ validator[k].eligible /\ validator[k].balance > 0 /\ validator[k].wc \in Owner
  /\ aggregated' = [aggregated EXCEPT ![validator[k].wc] = @ + validator[k].balance]
  /\ validator' = [validator EXCEPT ![k].balance = 0]
  /\ UNCHANGED <<pending, pdg, made>>

ValueNext ==
  \/ \E k \in Pubkey :
       \/ \E v \in Owner : MakePredeposit(v, k)
       \/ Prove(k) \/ Activate(k) \/ Compensate(k)
       \/ \E wc \in Owner \cup {Stranger}, valid \in BOOLEAN : SideDeposit(k, wc, valid)
  \/ \E k \in DOMAIN validator : BecomeEligible(k) \/ SweepOut(k)
  \/ Process

ValueSpec == ValueInit /\ [][ValueNext]_valueVars

-----------------------------------------------------------------------------
(* Properties *)

\* The deposits that may make a validator of a key.
ValidDeposits(k) == {i \in DOMAIN pending : pending[i].key = k /\ pending[i].valid}

\* The credentials a key has, or will get from the first valid deposit.
FinalCredentials(k) ==
  IF k \in DOMAIN validator THEN validator[k].wc
  ELSE IF ValidDeposits(k) = {} THEN Stranger ELSE pending[Min(ValidDeposits(k))].wc

\* What a key is worth when every pending deposit is processed.
FinalBalance(k) ==
  IF k \in DOMAIN validator THEN WholeBalance(k)
  ELSE SumFunctionOnSet([i \in DOMAIN pending |-> pending[i].amount],
         {i \in DOMAIN pending : pending[i].key = k /\ i >= Min(ValidDeposits(k))})

\* staking_vaults.py:74-154, 215-312: the value a report gives a vault is backed: by its own
\* ether, by what its keys will own once the queue is empty, or by the guarantee of a
\* predeposit that went astray. Whoever deposits to its keys, nothing counts twice.
TotalValueIsBacked ==
  \A v \in Owner :
    LET own == {k \in Pubkey : FinalCredentials(k) = v}
    IN TotalValue(v) <= aggregated[v]
         + SumFunctionOnSet([k \in own |-> FinalBalance(k)], own)
         + SumFunctionOnSet([k \in Pubkey |-> UnmatchedValue(v, k)], Pubkey \ own)

\* staking_vaults.py:106-112: on its way through the PDG, the queue and the activation a
\* vault's value never drops, unless a key is proven but not activated yet (which counts
\* nothing) or turns out to have somebody else's credentials.
ValueDoesNotDrop ==
  [][\A v \in Owner : TotalValue(v)' < TotalValue(v) =>
       \E k \in Pubkey :
         \/ pdg'[k].stage = "PROVEN" /\ pdg[k].stage # "PROVEN"
         \/ Astray(k)' /\ ~Astray(k)]_valueVars

\* staking_vaults.py:74-154: a vault's value is backed in every state and lost by no step.
ValueFollowsTheEther == []TotalValueIsBacked /\ ValueDoesNotDrop

=============================================================================

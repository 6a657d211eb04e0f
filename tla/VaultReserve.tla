---------------------------- MODULE VaultReserve ----------------------------
(***************************************************************************)
(* The slashing reserve of a staking vault (services/staking_vaults.py):   *)
(* the share of a slashed validator's balance that the vault may not       *)
(* spend, long after the validator has been emptied.  Nobody stores when   *)
(* the slashing happened: every report works out anew, from the epoch the  *)
(* validator is withdrawable at, which of its balances to take.            *)
(*                                                                         *)
(* The beacon chain is the environment: one validator of a vault, which    *)
(* may exit, is slashed and loses more of its balance until it is          *)
(* withdrawable, and is swept then.                                        *)
(***************************************************************************)
EXTENDS Integers, FiniteSetsExt

CONSTANTS
  EpochSlots,            \* slots_per_epoch
  LeftShift, RightShift, \* slashing_reserve_we_left_shift and ..._right_shift
  RatioBP, TotalBP,      \* reserve_ratio_bp of the vault, TOTAL_BASIS_POINTS
  SlashingsVector,       \* EPOCHS_PER_SLASHINGS_VECTOR
  ExitQueues,            \* epochs between an exit and its withdrawable epoch
  Stake,                 \* the validator's balance before it is slashed
  MaxReserveSlot         \* bound: slots of the exploration

ASSUME ReserveAssumption ==
  /\ EpochSlots \in Nat \ {0, 1} /\ TotalBP \in Nat \ {0}
  /\ {LeftShift, RightShift, SlashingsVector, Stake, MaxReserveSlot} \subseteq Nat
  /\ RatioBP \in 0 .. TotalBP /\ ExitQueues \subseteq Nat \ {0}
  /\ LeftShift <= SlashingsVector

VARIABLES
  now,          \* slot
  slashedAt,    \* slot of the slashing, -1: none
  free,         \* withdrawable_epoch, -1: FAR_FUTURE_EPOCH
  stake,        \* the validator's balance
  past,         \* its balance in the state of the first slot of every epoch
  reserve,      \* the last report: its slot, -1: none, the reserve in it, and lost then
  losses,       \* history: what the validator has lost so far
  lossesBy      \* history: what it had lost when its balance was remembered in past

reserveVars == <<now, slashedAt, free, stake, past, reserve, losses, lossesBy>>

EpochOf(s) == s \div EpochSlots

-----------------------------------------------------------------------------
(* get_vaults_slashing_reserve *)

\* calc_reserve, rounded up.
CalcReserve(balance) == (balance * RatioBP + TotalBP - 1) \div TotalBP

InWindow(epoch) == free - LeftShift <= epoch /\ epoch <= free + RightShift

\* Mutant: the balance is the one of the reference slot, in the window too.
SlashingReserve_Current ==
  IF slashedAt = -1 \/ EpochOf(now) > free + RightShift THEN 0 ELSE CalcReserve(stake)

SlashingReserve ==
  CASE slashedAt = -1 -> 0
    [] slashedAt # -1 /\ InWindow(EpochOf(now)) -> CalcReserve(past[free - LeftShift])
    [] slashedAt # -1 /\ EpochOf(now) < free - LeftShift -> CalcReserve(stake)
    [] OTHER -> 0

-----------------------------------------------------------------------------
(* The beacon chain *)

ReserveInit ==
  /\ now = 0 /\ slashedAt = -1 /\ free = -1 /\ stake = Stake /\ past = <<>>
  /\ reserve = [slot |-> -1, amount |-> 0, losses |-> 0] /\ losses = 0 /\ lossesBy = <<>>

ExitVault(queue) ==
  /\ free = -1 /\ free' = EpochOf(now) + queue
  /\ UNCHANGED <<now, slashedAt, stake, past, reserve, losses, lossesBy>>

Lose(amount) ==
  /\ stake >= amount /\ stake' = stake - amount
  /\ losses' = losses + amount

\* slash_validator.
SlashVault(queue) ==
  /\ slashedAt = -1 /\ (free # -1 => EpochOf(now) < free)
  /\ slashedAt' = now
  /\ free' = Max({IF free = -1 THEN EpochOf(now) + queue ELSE free,
                  EpochOf(now) + SlashingsVector})
  /\ Lose(1)
  /\ UNCHANGED <<now, past, reserve, lossesBy>>

\* Missed duties every epoch, and the penalty halfway.
LosePenalty ==
  /\ slashedAt # -1 /\ EpochOf(now) < free
  /\ \E amount \in {1, 2} : Lose(amount)
  /\ UNCHANGED <<now, slashedAt, free, past, reserve, lossesBy>>

SweepVault ==
  /\ free # -1 /\ EpochOf(now) >= free /\ stake > 0
  /\ stake' = 0
  /\ UNCHANGED <<now, slashedAt, free, past, reserve, losses, lossesBy>>

\* The state of the first slot of an epoch is kept.
Kept(history, value) ==
  IF now % EpochSlots # 0 THEN history
  ELSE [e \in 0 .. EpochOf(now) |-> IF e = EpochOf(now) THEN value ELSE history[e]]

\* The end of a slot; the last one of an epoch may be a reference slot.
NextReserveSlot(reported) ==
  /\ now < MaxReserveSlot /\ now' = now + 1
  /\ reported => (now + 1) % EpochSlots = 0
  /\ past' = Kept(past, stake) /\ lossesBy' = Kept(lossesBy, losses)
  /\ reserve' = IF reported THEN [slot |-> now, amount |-> SlashingReserve, losses |-> losses]
                ELSE reserve
  /\ UNCHANGED <<slashedAt, free, stake, losses>>

ReserveNext ==
  \/ \E queue \in ExitQueues : ExitVault(queue) \/ SlashVault(queue)
  \/ LosePenalty \/ SweepVault
  \/ \E reported \in BOOLEAN : NextReserveSlot(reported)

ReserveSpec == ReserveInit /\ [][ReserveNext]_reserveVars

-----------------------------------------------------------------------------
(* Properties *)

\* staking_vaults.py:314-365: once a report has seen the slashing, and until it is past the
\* window, the reserve covers the vault's share of all the validator still has to lose and has
\* lost since that report; within the window also of all it has lost since the window began,
\* however low its balance is when the report is made.
ReserveCoversPenalties ==
  slashedAt # -1 /\ slashedAt <= reserve.slot /\ EpochOf(reserve.slot) <= free + RightShift =>
    /\ reserve.amount * TotalBP >= (stake + losses - reserve.losses) * RatioBP
    /\ InWindow(EpochOf(reserve.slot)) =>
         reserve.amount * TotalBP >= (stake + losses - lossesBy[free - LeftShift]) * RatioBP

\* In the window around the withdrawable epoch every report holds the same, though the
\* validator loses balance and is emptied meanwhile (staking_vaults.py:346-358).
ReserveStays ==
  slashedAt # -1 /\ slashedAt <= reserve.slot
    /\ InWindow(EpochOf(reserve.slot)) /\ InWindow(EpochOf(reserve'.slot))
  => reserve'.amount = reserve.amount

\* staking_vaults.py:314-365: the reserve is enough after every step and constant in the window.
ReserveHolds == [][ReserveCoversPenalties' /\ ReserveStays]_reserveVars

=============================================================================

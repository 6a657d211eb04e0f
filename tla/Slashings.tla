----------------------------- MODULE Slashings -----------------------------
(***************************************************************************)
(* What the accounting oracle makes of slashings: the midterm penalties    *)
(* that switch bunker mode on (services/bunker.py,                         *)
(* bunker_cases/midterm_slashing_penalty.py), and the border up to which   *)
(* withdrawal requests may be finalized (services/safe_border.py,          *)
(* services/withdrawal.py).                                                *)
(*                                                                         *)
(* The beacon chain is the environment: validators exit and are slashed in *)
(* some epoch, which sets their withdrawable epoch and a bucket of a ring  *)
(* of slashed balances.  A report, made at the last epoch of a frame or    *)
(* missed, reads one state of the chain and does not know when a validator *)
(* was slashed.                                                            *)
(***************************************************************************)
EXTENDS Web3Converter, FiniteSets, FiniteSetsExt, Functions

CONSTANTS
  Lido, Others,   \* validators
  Leaving,        \* validators that may exit of themselves
  Activation,     \* activation epoch of a validator
  Increments,     \* its effective balance, in units of
  Unit,           \* EFFECTIVE_BALANCE_INCREMENT, in Gwei
  Vector,         \* EPOCHS_PER_SLASHINGS_VECTOR
  Withdrawability, \* MIN_VALIDATOR_WITHDRAWABILITY_DELAY
  Queues,         \* lengths of the exit queue, in epochs
  Shift,          \* finalization_default_shift
  MaxNegativeRebase, \* finalization_max_negative_rebase_epoch_shift
  Rebases,        \* values of the CL rebase of a report, in Gwei
  MaxEpoch        \* bound of the exploration

Validator == Lido \cup Others

ASSUME SlashingsAssumption ==
  /\ IsFiniteSet(Validator) /\ Leaving \subseteq Validator /\ Unit \in Nat
  /\ Vector \in Nat \ {0} /\ Vector % 2 = 0
  /\ Withdrawability \in Nat \ {0} /\ Withdrawability < Vector
  /\ Queues \subseteq Nat /\ Rebases \subseteq Int
  /\ Shift \in Nat /\ MaxNegativeRebase \in Nat
  /\ Activation \in [Validator -> Nat] /\ Increments \in [Validator -> Nat \ {0}]

FarFuture == MaxEpoch + 10 * Vector

\* No exit queue reaches the far future.
ASSUME HorizonAssumption ==
  /\ MaxEpoch \in Nat /\ INITIAL_EPOCH <= MaxEpoch
  /\ \A queue \in Queues : queue + 1 < 10 * Vector

VARIABLES
  epoch,
  exit, withdrawable, slashed,   \* fields of the validators
  slashings,      \* BeaconState.slashings
  slashedIn,      \* history: the epoch a validator was slashed in
  lastReport,     \* reference epoch of the last processed report, 0: none
  bunkerSince,    \* bunker_mode_since_timestamp, FarFuture when it is off
  finalized,      \* epoch of the last finalized withdrawal request, 0: none
  bunker,         \* is_bunker of the last report
  foreseen,       \* history: penalties the last report predicted, by validator, as long as
  quiet,          \* history: nobody was slashed and no balance moved since,
  cover,          \* history: and what it expects Lido to earn in a frame, or all it has
  taken           \* history: penalties taken from Lido in this frame since then

beacon == <<epoch, exit, withdrawable, slashed, slashings, slashedIn>>
slashVars == <<beacon, lastReport, bunkerSince, finalized, bunker,
          foreseen, quiet, cover, taken>>

SumOf(f, S) == SumFunctionOnSet(f, S)

ActiveAt(e) == {v \in Validator : Activation[v] <= e /\ e < exit[v]}

\* calculate_total_active_effective_balance, in increments.
TotalBalance(e) == Max({1, SumOf(Increments, ActiveAt(e))})

-----------------------------------------------------------------------------
(* Midterm penalties *)

MidtermEpoch(v) == withdrawable[v] - Vector \div 2

Penalty(v, slashingsSum, balance) ==
  ((Min({3 * slashingsSum, balance}) * Unit) \div balance) * Increments[v]

\* Mutant: the bucket of the reference epoch is taken for overwritten.
CutSlashings_NotReference(midterm, ref) ==
  IF midterm - ref > Vector THEN 0
  ELSE SumOf(slashings, DOMAIN slashings \ {i % Vector : i \in ref .. midterm})

\* _cut_slashings: the sum of the buckets that will not be overwritten.
CutSlashings(midterm, ref) ==
  IF midterm - ref > Vector THEN 0
  ELSE SumOf(slashings, DOMAIN slashings \ {i % Vector : i \in (ref + 1) .. (midterm - 1)})

ForeseenPenalty(v) == Penalty(v, CutSlashings(MidtermEpoch(v), epoch), TotalBalance(epoch))

\* get_lido_validators_with_future_midterm_epoch.
Awaited == {v \in Lido : slashed[v] /\ MidtermEpoch(v) > epoch}

\* get_future_midterm_penalty_sum_in_frames.
PenaltyInFrame(f) ==
  SumOf([v \in Lido |-> ForeseenPenalty(v)],
        {v \in Awaited : get_frame_by_epoch(MidtermEpoch(v)) = f})

\* get_frame_cl_rebase_from_report_cl_rebase, of a rebase that is not negative.
FrameRebase(rebase) == (rebase * EPOCHS_PER_FRAME) \div (epoch - lastReport)

IsHighMidtermPenalty(rebase) ==
  \E v \in Awaited : PenaltyInFrame(get_frame_by_epoch(MidtermEpoch(v))) > FrameRebase(rebase)

\* is_bunker_mode; "abnormal" is the answer of AbnormalClRebase.
IsBunkerMode(rebase, abnormal) ==
  /\ lastReport # 0
  /\ rebase < 0 \/ IsHighMidtermPenalty(rebase) \/ abnormal

-----------------------------------------------------------------------------
(* The safe border *)

DefaultBorder == epoch - Shift

\* _get_bunker_start_or_last_successful_report_epoch.
BunkerStart ==
  IF bunkerSince <= epoch THEN bunkerSince
  ELSE IF lastReport # 0 THEN lastReport ELSE INITIAL_EPOCH

NegativeRebaseBorder == Max({epoch - MaxNegativeRebase, BunkerStart - Shift})

\* filter_slashed_validators and filter_non_withdrawable_validators.
Incomplete == {v \in Lido : slashed[v] /\ withdrawable[v] > epoch}

\* _predict_earliest_slashed_epoch: unknown when the exit queue moved both epochs.
Undetectable(v) == withdrawable[v] - exit[v] = Withdrawability
PredictedSlashing(v) == withdrawable[v] - Vector

\* _slashings_in_frame: looks at the chain as it was in the last slot of the frame.
SlashingsInFrame(frame) ==
  \E v \in Incomplete : slashedIn[v] <= get_epoch_by_slot(get_frame_last_slot(frame))

\* The binary search of _find_earliest_slashed_epoch_rounded_to_frame.
FirstFrame(start, end) ==
  LET Ranges == (start .. end) \X (start .. end)
      found[p \in Ranges] ==
        LET mid == (p[1] + p[2]) \div 2
        IN IF p[1] >= p[2] THEN p[1]
           ELSE IF SlashingsInFrame(mid) THEN found[<<p[1], mid>>]
           ELSE found[<<mid + 1, p[2]>>]
  IN IF start >= end THEN start ELSE found[<<start, end>>]

SearchedSlashing ==
  LET start == Max({finalized, Min({Activation[v] : v \in Incomplete})})
      end == Min({epoch, Min({PredictedSlashing(v) : v \in Incomplete})})
      frame == FirstFrame(get_frame_by_epoch(start), get_frame_by_epoch(end))
  IN get_epoch_by_slot(get_frame_first_slot(frame))

\* Mutant: only the validators whose slashing can be told are looked at.
EarliestSlashing_Detectable ==
  LET known == {v \in Incomplete : ~Undetectable(v)}
  IN IF known = {} THEN 0 ELSE Min({PredictedSlashing(v) : v \in known})

\* _get_earliest_slashed_epoch_among_incomplete_slashings, 0 for None and epoch 0.
EarliestSlashing ==
  IF Incomplete = {} THEN 0
  ELSE IF \E v \in Incomplete : Undetectable(v) \/ PredictedSlashing(v) = 0 THEN SearchedSlashing
  ELSE Min({PredictedSlashing(v) : v \in Incomplete})

round_epoch_by_frame(e) == get_frame_by_epoch(e) * EPOCHS_PER_FRAME + INITIAL_EPOCH

AssociatedSlashingsBorder ==
  IF EarliestSlashing # 0 THEN round_epoch_by_frame(EarliestSlashing) - Shift
  ELSE DefaultBorder

\* get_safe_border_epoch.
SafeBorder(isBunker) ==
  IF isBunker THEN Min({NegativeRebaseBorder, AssociatedSlashingsBorder})
  ELSE DefaultBorder

-----------------------------------------------------------------------------
(* The chain *)

SlashingsInit ==
  /\ epoch = INITIAL_EPOCH
  /\ exit = [v \in Validator |-> FarFuture]
  /\ withdrawable = [v \in Validator |-> FarFuture]
  /\ slashed = [v \in Validator |-> FALSE]
  /\ slashings = [i \in 0 .. Vector - 1 |-> 0]
  /\ slashedIn = [v \in Validator |-> FarFuture]
  /\ lastReport = 0 /\ finalized = 0
  /\ bunkerSince = FarFuture /\ bunker = FALSE
  /\ foreseen = [v \in {} |-> 0] /\ quiet = FALSE /\ cover = 0 /\ taken = 0

ExitEpoch(v, queue) == IF exit[v] = FarFuture THEN epoch + 1 + queue ELSE exit[v]

\* initiate_validator_exit of the consensus specification.
Exit(v, queue) ==
  /\ Activation[v] <= epoch /\ exit[v] = FarFuture
  /\ exit' = [exit EXCEPT ![v] = ExitEpoch(v, queue)]
  /\ withdrawable' = [withdrawable EXCEPT ![v] = ExitEpoch(v, queue) + Withdrawability]
  /\ UNCHANGED <<epoch, slashed, slashings, slashedIn, lastReport, bunkerSince, finalized,
                 bunker, foreseen, quiet, cover, taken>>

\* slash_validator.
Slash(v, queue) ==
  /\ ~slashed[v] /\ Activation[v] <= epoch /\ epoch < withdrawable[v]
  /\ exit' = [exit EXCEPT ![v] = ExitEpoch(v, queue)]
  /\ withdrawable' = [withdrawable EXCEPT ![v] =
       Max({epoch + Vector, IF exit[v] = FarFuture THEN exit'[v] + Withdrawability ELSE @})]
  /\ slashed' = [slashed EXCEPT ![v] = TRUE]
  /\ slashings' = [slashings EXCEPT ![epoch % Vector] = @ + Increments[v]]
  /\ slashedIn' = [slashedIn EXCEPT ![v] = epoch]
  /\ quiet' = FALSE
  /\ UNCHANGED <<epoch, lastReport, bunkerSince, finalized, bunker, foreseen, cover, taken>>

\* process_slashings reads the ring before process_slashings_reset frees a bucket of it.
ChainPenalty(v) == Penalty(v, SumOf(slashings, DOMAIN slashings), TotalBalance(epoch))

Due == SumOf([v \in Lido |-> ChainPenalty(v)], {v \in Lido : slashed[v] /\ MidtermEpoch(v) = epoch})

NextEpoch ==
  /\ epoch < MaxEpoch
  /\ epoch' = epoch + 1
  /\ slashings' = [slashings EXCEPT ![(epoch + 1) % Vector] = 0]
  /\ quiet' = (quiet /\ TotalBalance(epoch + 1) = TotalBalance(epoch))
  /\ taken' = IF get_frame_by_epoch(epoch + 1) # get_frame_by_epoch(epoch) THEN 0
              ELSE taken + Due
  /\ UNCHANGED <<exit, withdrawable, slashed, slashedIn, lastReport, bunkerSince, finalized,
                 bunker, foreseen, cover>>

\* get_finalization_batches: nothing while the queue is on pause or without requests or
\* ether ("funded"), else the batches the contract finds up to the border.
Finalizable(isBunker, funded) ==
  IF funded THEN Max({finalized, SafeBorder(isBunker)}) ELSE finalized

\* More than any penalties take.
LidoBalance == Unit * SumOf(Increments, Lido)

\* A report of the committee: Accounting._calculate_report, then its processing.
Report(rebase, abnormal, funded) ==
  LET isBunker == IsBunkerMode(rebase, abnormal)
  IN /\ epoch = get_epoch_by_slot(get_frame_last_slot(get_frame_by_epoch(epoch)))
     /\ lastReport < epoch
     /\ finalized' = Finalizable(isBunker, funded)
     /\ bunker' = isBunker
     /\ bunkerSince' = IF ~isBunker THEN FarFuture
                       ELSE IF bunkerSince = FarFuture THEN lastReport ELSE bunkerSince
     /\ lastReport' = epoch
     /\ foreseen' = [v \in Awaited |-> ForeseenPenalty(v)]
     /\ quiet' = TRUE /\ taken' = 0
     /\ cover' = IF isBunker \/ lastReport = 0 THEN LidoBalance
                 ELSE FrameRebase(rebase)
     /\ UNCHANGED beacon

SlashingsNext ==
  \/ \E v \in Leaving, queue \in Queues : Exit(v, queue)
  \/ \E v \in Validator, queue \in Queues : Slash(v, queue)
  \/ \E rebase \in Rebases, abnormal, funded \in BOOLEAN : Report(rebase, abnormal, funded)
  \/ NextEpoch

SlashingsSpec == SlashingsInit /\ [][SlashingsNext]_slashVars

-----------------------------------------------------------------------------
(* Properties *)

\* services/safe_border.py:110-124: in bunker mode no request is finalized that was made
\* in the frame of a Lido slashing whose penalty is still open, or after it, however the
\* exit queue hid the epoch of that slashing.
SlashingsAreSocialized ==
  [][finalized' > finalized /\ bunker' =>
       \A v \in Incomplete : finalized' + Shift <= round_epoch_by_frame(slashedIn[v])]_slashVars

\* midterm_slashing_penalty.py:221-252: what a report predicts for a slashed validator is
\* never less than what the chain takes from it at its midterm epoch, as long as nobody
\* else is slashed and the active balance stays the same.
PenaltiesAreNotUnderestimated ==
  \A v \in DOMAIN foreseen :
    quiet /\ epoch = MidtermEpoch(v) => foreseen[v] >= ChainPenalty(v)

\* midterm_slashing_penalty.py:34-79, bunker.py:46-101: as long as nobody else is slashed,
\* a report without bunker mode, the first one excepted, is followed by no frame whose
\* midterm penalties exceed the rebase that report expects of a frame.
PenaltiesAreAnnounced ==
  quiet /\ epoch > lastReport => taken + Due <= cover

\* midterm_slashing_penalty.py: no midterm penalty is larger than predicted, and none comes as
\* a surprise after a report that saw no reason for bunker mode.
PenaltiesAreForeseen == PenaltiesAreNotUnderestimated /\ PenaltiesAreAnnounced

=============================================================================

------------------------------ MODULE ClRebase ------------------------------
(***************************************************************************)
(* How the accounting oracle follows Lido's ether through the consensus    *)
(* layer: the balances a report carries (accounting.py,                    *)
(* web3py/extensions/lido_validators.py) and the rebase between two blocks *)
(* of a frame, which must not take a deposit for a reward nor a withdrawal *)
(* for a loss (services/bunker_cases/abnormal_cl_rebase.py).               *)
(*                                                                         *)
(* The chain is the environment.  Its deposit queue holds deposits of the  *)
(* protocol and of strangers, which may have a bad signature or foreign    *)
(* withdrawal credentials; the protocol's vault is emptied by the report   *)
(* of the frame before.                                                    *)
(***************************************************************************)
EXTENDS Integers, FiniteSetsExt, Functions, SequencesExt

CONSTANTS
  Key,          \* keys of Lido's node operators
  Amount,       \* of a deposit of the protocol, in Gwei; a stranger's is 1
  NormalRebase, \* calculate_normal_cl_rebase of the report
  FrameBlocks,  \* blocks of a frame
  MaxBlock, MaxQueue, MaxOps   \* bounds of the exploration

ASSUME RebaseAssumption ==
  /\ IsFiniteSet(Key)
  /\ Amount \in Nat \ {0} /\ NormalRebase \in Nat
  /\ FrameBlocks \in Nat \ {0} /\ MaxBlock \in Nat /\ MaxQueue \in Nat /\ MaxOps \in Nat

VARIABLES
  block,
  used,        \* keys the protocol has deposited to
  balance,     \* of the validators there are: a function of their keys
  queue,       \* pending deposits
  vault,       \* balance of the withdrawal vault
  inFrame,     \* deposited_since_last_report - deposited_for_current_report
  settled,     \* ETHDistributed: block and withdrawalsWithdrawn
  samples,     \* history: earlier blocks of this frame that are looked at
  deposited, paid, \* history: what the protocol deposited, and took from the vault
  lost, foreign,   \* history: penalties since the first sample; foreign credentials
  ops          \* bound: operations so far

ether == <<used, balance, queue, vault, inFrame, settled, deposited, paid, lost, foreign>>
rebaseVars == <<block, ether, samples, ops>>

\* The blockstamp of a state of the chain, with what the oracle reads at it.
Now == [block |-> block, balance |-> balance, queue |-> queue, vault |-> vault,
        inFrame |-> inFrame, deposited |-> deposited, paid |-> paid]

-----------------------------------------------------------------------------
(* Lido's validators and pending deposits *)

\* compute_lido_validators.
LidoValidators(at, keys) == keys \cap DOMAIN at.balance

\* deposits_by_pubkey: the places of a key's deposits in the queue.
DepositsTo(deposits, k) == {i \in DOMAIN deposits : deposits[i].key = k}

\* The deposits of a key that may make a validator of it.
ValidTo(deposits, k) == {i \in DepositsTo(deposits, k) : deposits[i].valid}

\* The first of them has Lido's credentials.
MakesLidoValidator(deposits, k) ==
  ValidTo(deposits, k) # {} /\ deposits[Min(ValidTo(deposits, k))].lido

\* Mutant: deposits before the first valid one count, too.
ValidPendingOf_All(deposits, k) ==
  IF MakesLidoValidator(deposits, k) THEN DepositsTo(deposits, k) ELSE {}

\* _collect_valid_pending_deposits, for one key that is no validator yet: everything from
\* its first valid deposit on, nothing when that one has foreign credentials.
ValidPendingOf(deposits, k) ==
  IF MakesLidoValidator(deposits, k)
  THEN {i \in DepositsTo(deposits, k) : i >= Min(ValidTo(deposits, k))} ELSE {}

Amounts(deposits, places) ==
  SumFunctionOnSet([i \in DOMAIN deposits |-> deposits[i].amount], places)

\* pending_topups of get_active_lido_validators.
Topups(at, keys) ==
  [k \in LidoValidators(at, keys) |-> Amounts(at.queue, DepositsTo(at.queue, k))]

\* get_pending_lido_validators: the deposits that will make validators.
PendingValidators(at, keys) ==
  [k \in keys \ DOMAIN at.balance |-> Amounts(at.queue, ValidPendingOf(at.queue, k))]

\* _sum_valid_lido_pending and _get_cl_pending_validators_balance.
Pending(at, keys) ==
  SumFunctionOnSet(Topups(at, keys), LidoValidators(at, keys))
    + SumFunctionOnSet(PendingValidators(at, keys), keys \ DOMAIN at.balance)

\* _get_cl_validators_balance.
ClBalance(at, keys) == SumFunctionOnSet(at.balance, LidoValidators(at, keys))

-----------------------------------------------------------------------------
(* The rebase since an earlier block of the frame *)

\* Mutant: the withdrawal of the earlier block itself is added, too.
Withdrawn_Inclusive(prev) ==
  SumFunctionOnSet([e \in settled |-> e.withdrawn], {e \in settled : e.block >= prev.block})

\* _get_withdrawn_from_vault_between_blocks.
Withdrawn(prev) ==
  SumFunctionOnSet([e \in settled |-> e.withdrawn], {e \in settled : e.block > prev.block})

\* _calculate_injected_capital, with the keys of the reference block at both blocks.
InjectedCapital(prev) ==
  (inFrame - prev.inFrame) + Pending(prev, used) - Pending(Now, used)

\* _calculate_cl_rebase_between_blocks.
RebaseSince(prev) ==
  (ClBalance(Now, used) + vault) - (ClBalance(prev, used) + prev.vault)
    - InjectedCapital(prev) + Withdrawn(prev)

\* _is_negative_specific_cl_rebase, since the nearest or the distant block.
IsNegativeSpecificClRebase == \E prev \in samples : RebaseSince(prev) < 0

\* is_abnormal_cl_rebase; no block is looked at when both distances are 0.
IsAbnormalClRebase(rebase) ==
  /\ NormalRebase # 0
  /\ rebase < NormalRebase
  /\ samples = {} \/ IsNegativeSpecificClRebase

-----------------------------------------------------------------------------
(* The chain *)

RebaseInit ==
  /\ block = 0 /\ used = {} /\ balance = <<>> /\ queue = <<>>
  /\ vault = 0 /\ inFrame = 0 /\ settled = {} /\ samples = {}
  /\ deposited = 0 /\ paid = 0 /\ lost = 0 /\ foreign = FALSE /\ ops = 0

Operation == ops < MaxOps /\ ops' = ops + 1 /\ UNCHANGED <<block, samples>>

Enqueue(k, amount, valid, lido) ==
  /\ Len(queue) < MaxQueue
  /\ queue' = Append(queue, [key |-> k, amount |-> amount, valid |-> valid, lido |-> lido])

\* The protocol deposits to a fresh key, or tops a validator up.
Deposit(k) ==
  /\ Operation /\ Enqueue(k, Amount, TRUE, TRUE)
  /\ used' = used \cup {k}
  /\ inFrame' = inFrame + Amount /\ deposited' = deposited + Amount
  /\ UNCHANGED <<balance, vault, settled, paid, lost, foreign>>

StrangerDeposits(k, valid, lido) ==
  /\ Operation /\ Enqueue(k, 1, valid, lido)
  /\ foreign' = (foreign \/ ~lido)
  /\ UNCHANGED <<used, balance, vault, inFrame, settled, deposited, paid, lost>>

\* apply_pending_deposit of the consensus specification.
ProcessDeposit ==
  LET d == Head(queue)
  IN /\ queue # <<>> /\ Operation /\ queue' = Tail(queue)
     /\ balance' = IF d.key \in DOMAIN balance THEN [balance EXCEPT ![d.key] = @ + d.amount]
                   ELSE IF ~d.valid THEN balance
                   ELSE [k \in DOMAIN balance \cup {d.key} |->
                           IF k \in DOMAIN balance THEN balance[k] ELSE d.amount]
     /\ UNCHANGED <<used, vault, inFrame, settled, deposited, paid, lost, foreign>>

Earn(k) ==
  /\ Operation /\ balance' = [balance EXCEPT ![k] = @ + 1]
  /\ UNCHANGED <<used, queue, vault, inFrame, settled, deposited, paid, lost, foreign>>

Penalise(k) ==
  /\ balance[k] > 0 /\ Operation /\ balance' = [balance EXCEPT ![k] = @ - 1]
  /\ lost' = lost + 1
  /\ UNCHANGED <<used, queue, vault, inFrame, settled, deposited, paid, foreign>>

\* A full or partial withdrawal of a validator whose credentials are Lido's vault.
Withdraw(k, amount) ==
  /\ amount <= balance[k] /\ Operation
  /\ balance' = [balance EXCEPT ![k] = @ - amount] /\ vault' = vault + amount
  /\ UNCHANGED <<used, queue, inFrame, settled, deposited, paid, lost, foreign>>

\* The report of the frame before is processed: at most once in a frame.
Settle(amount) ==
  /\ amount <= vault /\ Operation
  /\ \A e \in settled : e.block \div FrameBlocks < block \div FrameBlocks
  /\ vault' = vault - amount
  /\ settled' = settled \cup {[block |-> block, withdrawn |-> amount]}
  /\ paid' = paid + amount
  /\ UNCHANGED <<used, balance, queue, inFrame, deposited, lost, foreign>>

\* The block may be one that a later report of this frame looks at.
NextBlock(sampled) ==
  LET rollover == (block + 1) % FrameBlocks = 0
  IN /\ block < MaxBlock /\ block' = block + 1
     /\ samples' = IF rollover THEN {} ELSE IF sampled THEN samples \cup {Now} ELSE samples
     /\ Cardinality(samples') <= 2
     /\ inFrame' = IF rollover THEN 0 ELSE inFrame
     /\ lost' = IF samples' = {} THEN 0 ELSE lost
     /\ UNCHANGED <<used, balance, queue, vault, settled, deposited, paid, foreign, ops>>

RebaseNext ==
  \/ \E k \in Key : Deposit(k) \/ \E valid, lido \in BOOLEAN : StrangerDeposits(k, valid, lido)
  \/ ProcessDeposit
  \/ \E k \in DOMAIN balance : Earn(k) \/ Penalise(k) \/ \E a \in 1 .. Amount : Withdraw(k, a)
  \/ \E a \in 0 .. Amount : Settle(a)
  \/ \E sampled \in BOOLEAN : NextBlock(sampled)

RebaseSpec == RebaseInit /\ [][RebaseNext]_rebaseVars

-----------------------------------------------------------------------------
(* Properties *)

\* One deposit is played: it tops a validator up, makes one, or bars a key by its credentials.
Play(s, d, keys) ==
  IF d.key \in s.there THEN [s EXCEPT !.sum = @ + d.amount]
  ELSE IF d.key \in s.foreign \/ d.key \notin keys \/ ~d.valid THEN s
  ELSE IF d.lido THEN [s EXCEPT !.there = @ \cup {d.key}, !.sum = @ + d.amount]
  ELSE [s EXCEPT !.foreign = @ \cup {d.key}]

\* What the queue of a block will add to the validators of some keys that have Lido's
\* credentials, by playing the deposits one after another.
Landing(at, keys) ==
  LET played[n \in 0 .. Len(at.queue)] ==
        IF n = 0 THEN [there |-> keys \cap DOMAIN at.balance, foreign |-> {}, sum |-> 0]
        ELSE Play(played[n - 1], at.queue[n], keys)
  IN played[Len(at.queue)].sum

\* accounting.py:244-268: balance and pending balance of a report are together what Lido's
\* validators will have once every deposit is processed, whoever made it and in whatever
\* order: no ether is invisible, none is counted twice.
ReportedBalanceIsComplete ==
  Pending(Now, used) = Landing(Now, used)

\* abnormal_cl_rebase.py:180-229: the rebase since an earlier block is what Lido's
\* validators and vault gained, apart from deposits of the protocol and the report's
\* withdrawals, however deposits, top-ups, withdrawals and that report fell in between.
RebaseIsExact ==
  \A prev \in samples :
    LET worth(at) == ClBalance(at, used) + Landing(at, used) + at.vault + at.paid - at.deposited
    IN RebaseSince(prev) = worth(Now) - worth(prev)

\* abnormal_cl_rebase.py:71-90: a frame without penalties is not abnormal when blocks of it
\* are looked at, unless a stranger's credentials are on one of the keys.
NoFalseAlarm ==
  samples # {} /\ lost = 0 /\ ~foreign => ~IsAbnormalClRebase(0)

\* abnormal_cl_rebase.py: the rebase is what was earned and lost, which alone raises the alarm.
RebaseIsOfRewards == RebaseIsExact /\ NoFalseAlarm

=============================================================================

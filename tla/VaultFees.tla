----------------------------- MODULE VaultFees -----------------------------
(***************************************************************************)
(* The liquidity fees of staking vaults (services/staking_vaults.py): a    *)
(* report charges a vault for the stETH it owed at every moment since the  *)
(* report before.  It knows what the vault owes at the reference block and *)
(* the events since then, and walks back through them; the report before   *)
(* is read from IPFS.  Fees add up until the vault is disconnected.        *)
(*                                                                         *)
(* The hub of the vaults is the environment.  Fees are counted in units of *)
(* share, basis point and slot, so that nothing is rounded.                *)
(***************************************************************************)
EXTENDS Integers, FiniteSets, SequencesExt

CONSTANTS
  Vault,
  Rates,       \* values of liquidity_fee_bp
  FrameSlots,  \* slots of a frame
  MaxShares, MaxSlot, MaxEvents   \* bounds of the exploration

ASSUME VaultFeesAssumption ==
  /\ Rates \subseteq Nat /\ FrameSlots \in Nat \ {0}
  /\ MaxShares \in Nat /\ MaxSlot \in Nat /\ MaxEvents \in Nat

VARIABLES
  slot,
  vaults,   \* connected vaults: liability shares and fee rate
  hubEvents,   \* of the hub, in the order of block and log index
  last,     \* the last processed report: reference slot, fees and liability shares
  due       \* history: what a vault has owed since it was connected

feesVars == <<slot, vaults, hubEvents, last, due>>

-----------------------------------------------------------------------------
(* get_vaults_fees *)

Touches(e, v) == v = e.vault \/ (e.kind = "socialized" /\ v = e.acceptor)

\* _get_vault_events_for_fees: the vault's events, not those of the last block of the last frame.
IsFetched(e, v, ref) == Touches(e, v) /\ e.slot > ref

\* Mutant: a vault that takes over bad debt is treated as the one that gives it up.
SharesBefore_Donor(e, v, shares) ==
  IF e.kind = "minted" THEN shares - e.amount
  ELSE IF e.kind \in {"fees", "connected"} THEN shares
  ELSE shares + e.amount

\* _apply_event, backwards in time.
SharesBefore(e, v, shares) ==
  CASE e.kind = "minted" -> shares - e.amount
    [] e.kind = "socialized" /\ v # e.vault -> shares - e.amount
    [] e.kind \in {"fees", "connected"} -> shares
    [] OTHER -> shares + e.amount

RateBefore(e, rate) == IF e.kind = "fees" THEN e.amount ELSE rate

\* Mutant: the rate of an interval is the one that held before it.
StepBack_RateBefore(v, s, e) ==
  IF s.done THEN s
  ELSE [s EXCEPT !.fee = @ + s.shares * RateBefore(e, s.rate) * (s.until - e.slot),
                 !.until = e.slot,
                 !.done = e.kind = "connected",
                 !.failed = @ \/ s.until < e.slot \/ (e.kind = "connected" /\ s.shares # 0),
                 !.rate = RateBefore(e, s.rate),
                 !.shares = SharesBefore(e, v, @)]

\* One event in the loop of _calculate_liquidity_fee_by_events.
StepBack(v, s, e) ==
  IF s.done THEN s
  ELSE [s EXCEPT !.fee = @ + s.shares * s.rate * (s.until - e.slot),
                 !.until = e.slot,
                 !.done = e.kind = "connected",
                 !.failed = @ \/ s.until < e.slot \/ (e.kind = "connected" /\ s.shares # 0),
                 !.rate = RateBefore(e, s.rate),
                 !.shares = SharesBefore(e, v, @)]

\* The loop, from the last event to the first.
Walk(v, events, ref, start) ==
  FoldRight(LAMBDA e, s : IF IsFetched(e, v, ref) THEN StepBack(v, s, e) ELSE s, events, start)

\* The interval between the report before and the first event.
FirstInterval(s, ref) ==
  IF s.done THEN s
  ELSE [s EXCEPT !.fee = @ + s.shares * s.rate * (s.until - ref),
                 !.failed = @ \/ s.until < ref]

\* What a vault is known to owe at the reference slot.
AtReference(vault, ref) ==
  [fee |-> 0, shares |-> vault.shares, rate |-> vault.rate, until |-> ref,
   done |-> FALSE, failed |-> FALSE]

\* _calculate_liquidity_fee_by_events.
WalkBack(v) ==
  FirstInterval(Walk(v, hubEvents, last.slot, AtReference(vaults[v], slot)), last.slot)

Reconnected(v) == \E i \in DOMAIN hubEvents :
  hubEvents[i].kind = "connected" /\ hubEvents[i].vault = v /\ hubEvents[i].slot > last.slot

\* _get_prev_vault_ipfs_report, with the IPFS providers of module Ipfs: none before the first.
PreviousTree == last.tree

\* _build_prev_report_maps: nothing of a vault that is new or was connected again since.
Previous(v) ==
  IF v \in DOMAIN PreviousTree /\ ~Reconnected(v) THEN PreviousTree[v] ELSE [fee |-> 0, shares |-> 0]

\* The ValueErrors of get_vaults_fees.
Fails(v) == WalkBack(v).failed \/ WalkBack(v).shares # Previous(v).shares

\* Mutant: fees of a vault that was connected again go on from the last report.
ReportedFee_KeepsOld(v) ==
  WalkBack(v).fee + (IF v \in DOMAIN last.tree THEN last.tree[v].fee ELSE 0)

ReportedFee(v) == WalkBack(v).fee + Previous(v).fee

\* build_tree_data and get_dumped_tree: a leaf for every connected vault.
Tree == [v \in DOMAIN vaults |-> [fee |-> ReportedFee(v), shares |-> vaults[v].shares]]

\* _handle_vaults_report, once it is processed; without vaults there is no tree.
VaultsReport == [slot |-> slot, tree |-> Tree]

-----------------------------------------------------------------------------
(* The hub *)

FeesInit ==
  /\ slot = 1 /\ vaults = <<>> /\ hubEvents = <<>> /\ due = <<>>
  /\ last = [slot |-> 0, tree |-> <<>>]

Emit(kind, v, amount, acceptor) ==
  /\ Len(hubEvents) < MaxEvents
  /\ hubEvents' = Append(hubEvents, [kind |-> kind, vault |-> v, amount |-> amount,
                               acceptor |-> acceptor, slot |-> slot])

Owe(v, amount) ==
  /\ vaults[v].shares + amount \in 0 .. MaxShares
  /\ vaults' = [vaults EXCEPT ![v].shares = @ + amount]

Connect(v, rate) ==
  /\ v \notin DOMAIN vaults /\ Emit("connected", v, 0, v)
  /\ vaults' = [u \in DOMAIN vaults \cup {v} |->
                  IF u = v THEN [shares |-> 0, rate |-> rate] ELSE vaults[u]]
  /\ due' = [u \in DOMAIN due \cup {v} |-> IF u = v THEN 0 ELSE due[u]]
  /\ UNCHANGED <<slot, last>>

\* A vault that owes nothing leaves the hub and settles its fees.
Disconnect(v) ==
  /\ vaults[v].shares = 0
  /\ vaults' = [u \in DOMAIN vaults \ {v} |-> vaults[u]]
  /\ due' = [u \in DOMAIN due \ {v} |-> due[u]]
  /\ UNCHANGED <<slot, hubEvents, last>>

Mint(v, amount) ==
  Owe(v, amount) /\ Emit("minted", v, amount, v) /\ UNCHANGED <<slot, last, due>>

\* Shares that are burned, rebalanced away or written off: three events, one effect.
Repay(v, amount) ==
  Owe(v, -amount) /\ Emit("repaid", v, amount, v) /\ UNCHANGED <<slot, last, due>>

SocializeBadDebt(v, u, amount) ==
  /\ u # v /\ vaults[v].shares >= amount /\ vaults[u].shares + amount <= MaxShares
  /\ vaults' = [vaults EXCEPT ![v].shares = @ - amount, ![u].shares = @ + amount]
  /\ Emit("socialized", v, amount, u)
  /\ UNCHANGED <<slot, last, due>>

UpdateFees(v, rate) ==
  /\ rate # vaults[v].rate /\ Emit("fees", v, vaults[v].rate, v)
  /\ vaults' = [vaults EXCEPT ![v].rate = rate]
  /\ UNCHANGED <<slot, last, due>>

\* The end of a slot: at the end of a frame there may be a report.  Events of earlier blocks
\* are forgotten then; those of the block it was made at stay, for the next one to skip.
NextSlot(reported) ==
  /\ slot < MaxSlot /\ slot' = slot + 1
  /\ reported => (slot + 1) % FrameSlots = 0 /\ slot > last.slot
  /\ last' = IF reported THEN VaultsReport ELSE last
  /\ due' = [v \in DOMAIN due |-> due[v] + vaults[v].shares * vaults[v].rate]
  /\ \E k \in 0 .. Len(hubEvents) :
       /\ IF reported THEN \A i \in DOMAIN hubEvents : i > k <=> hubEvents[i].slot = slot
                      ELSE k = 0
       /\ hubEvents' = SubSeq(hubEvents, k + 1, Len(hubEvents))
  /\ UNCHANGED vaults

FeesNext ==
  \/ \E v \in Vault, rate \in Rates : Connect(v, rate)
  \/ \E v \in DOMAIN vaults :
       \/ Disconnect(v)
       \/ \E a \in 1 .. MaxShares :
            \/ Mint(v, a)
            \/ Repay(v, a)
            \/ \E u \in DOMAIN vaults : SocializeBadDebt(v, u, a)
       \/ \E rate \in Rates : UpdateFees(v, rate)
  \/ \E reported \in BOOLEAN : NextSlot(reported)

FeesSpec == FeesInit /\ [][FeesNext]_feesVars

-----------------------------------------------------------------------------
(* Properties *)

\* staking_vaults.py:552-658, 852-902: what a report charges a vault in all is what it owed
\* from the moment it was connected, whatever it minted, repaid or took over, however often
\* its rate changed, it left and came back, or a report was missed.
FeesFollowLiabilities ==
  [][last' # last => \A v \in DOMAIN vaults : last'.tree[v].fee = due[v]]_feesVars

\* staking_vaults.py:627-632, 891-895: the shares found by walking back are those of the
\* last report, so that no legal history of the hub keeps the oracle from reporting.
NoVaultBlocksTheReport == \A v \in DOMAIN vaults : ~Fails(v)
=============================================================================

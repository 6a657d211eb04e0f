--------------------------- MODULE HashConsensus ---------------------------
(***************************************************************************)
(* The chain as the oracle daemons see it: the head and finalized slots,   *)
(* the HashConsensus contract (one vote per committee address and frame,   *)
(* quorum) and the report contract behind it (main data, then extra data). *)
(*                                                                         *)
(* The contracts are not part of this repository.  They are modelled from  *)
(* what src/src/providers/execution/contracts/{base_oracle,hash_consensus, *)
(* accounting_oracle}.py say of them and from the error names in their     *)
(* ABIs (assets/HashConsensus.json, assets/AccountingOracle.json):         *)
(* InvalidSlot, DuplicateReport, ConsensusReportAlreadyProcessing,         *)
(* NonFastLaneMemberCannotReportWithinFastLaneInterval,                    *)
(* UnexpectedConsensusVersion, UnexpectedExtraDataHash...                  *)
(***************************************************************************)
EXTENDS Web3Converter, Sequences, FiniteSets

CONSTANTS
  Address,        \* accounts and delegation contracts
  Committee,      \* HashConsensus.getMembers() at first: a sequence of addresses
  Removable,      \* addresses the DAO may remove from the committee
  SubmitRole,     \* addresses granted SUBMIT_DATA_ROLE
  Quorum,         \* HashConsensus.getQuorum()
  FastLaneLen,    \* FrameConfig.fast_lane_length_slots
  Variant,        \* the distinct reports a reference slot can be given
  ExtraList,      \* ExtraList[v]: the extra data transactions of variant v
  UpgradeSlot,    \* slots at which the DAO may enact the upgrade
  MaxSlot,        \* bound: the last head slot explored
  NoReport        \* ZERO_HASH

ASSUME ConsensusAssumption ==
  /\ Committee \in Seq(Address)
  /\ \A i, j \in 1..Len(Committee) : Committee[i] = Committee[j] => i = j
  /\ Removable \subseteq Address
  /\ SubmitRole \subseteq Address
  /\ Quorum \in Nat \ {0}
  /\ 2 * Quorum > Len(Committee)
  /\ FastLaneLen \in Nat
  /\ UpgradeSlot \subseteq Nat
  /\ MaxSlot \in Nat
  /\ DOMAIN ExtraList = Variant
  /\ \A v \in Variant : Len(ExtraList[v]) \in Nat
  /\ NoReport \notin [ref : Int, v : Variant]

VARIABLES
  slot,       \* slot of the head block
  finalized,  \* slot of the last finalized block
  upgrade,    \* the slot of the upgrade (chosen once, never changes)
  members,    \* HashConsensus.getMembers() now
  votes,      \* votes[a]: the report address a voted for in the current frame
  main,       \* the report whose main data the current frame has processed
  extra,      \* number of extra data transactions processed for main
  agreed      \* history: every report that has ever had a quorum

chainVars == <<slot, finalized, upgrade>>
contractVars == <<members, votes, main, extra, agreed>>

-----------------------------------------------------------------------------
(* Frames *)

\* Before the initial epoch the contract reverts with InitialEpochIsYetToArrive
\* and ConsensusModule.get_initial_or_current_frame falls back to frame 0.
FrameAt(s) == IF s < get_frame_first_slot(0) THEN 0 ELSE get_frame_by_slot(s)

RefSlotAt(s) == get_frame_last_slot(FrameAt(s) - 1)

DeadlineAt(s) == get_frame_last_slot(FrameAt(s))

RefSlot == RefSlotAt(slot)

Started == slot >= get_frame_first_slot(0)

\* Contract and consensus versions move together: 1 before the upgrade, 2 from it.
VersionAt(s) == IF s < upgrade THEN 1 ELSE 2

-----------------------------------------------------------------------------
(* HashConsensus *)

Report == [ref : Int, v : Variant]

Member == {members[i] : i \in 1..Len(members)}

\* Zero-based position of a member in getMembers().
IndexOf(a) == (CHOOSE i \in 1..Len(members) : members[i] = a) - 1

\* Quorum consecutive members, starting one further in every frame.
IsFastLane(a) ==
  (IndexOf(a) - FrameAt(slot)) % Len(members) < Quorum

HasQuorumIn(vs, r) == Cardinality({a \in Member : vs[a] = r}) >= Quorum

HasQuorum(r) == HasQuorumIn(votes, r)

CanVote(a, version, r) ==
  /\ Started
  /\ a \in Member
  /\ version = VersionAt(slot)
  /\ r.ref = RefSlot
  /\ IsFastLane(a) \/ slot >= RefSlot + FastLaneLen
  /\ main = NoReport
  /\ votes[a] # r

Vote(a, r) ==
  /\ votes' = [votes EXCEPT ![a] = r]
  /\ agreed' = IF HasQuorumIn(votes', r) THEN agreed \union {r} ELSE agreed
  /\ UNCHANGED <<members, main, extra>>

\* The DAO removes a member: the last one takes its place, its vote goes with it,
\* the quorum stays.
RemoveMember ==
  \E a \in Removable \intersect Member :
    /\ members' = [i \in 1..(Len(members) - 1) |->
                     IF i = IndexOf(a) + 1 THEN members[Len(members)] ELSE members[i]]
    /\ votes' = [votes EXCEPT ![a] = NoReport]
    /\ UNCHANGED <<chainVars, main, extra, agreed>>

-----------------------------------------------------------------------------
(* The report contract *)

MainDataSubmitted == main # NoReport

ExtraDataSubmitted == MainDataSubmitted /\ extra = Len(ExtraList[main.v])

MaySubmitData(a) == a \in Member \union SubmitRole

CanDeliver(a, version, r) ==
  /\ MaySubmitData(a)
  /\ version = VersionAt(slot)
  /\ r.ref = RefSlot
  /\ main = NoReport
  /\ HasQuorum(r)

Deliver(r) ==
  /\ main' = r
  /\ extra' = 0
  /\ UNCHANGED <<members, votes, agreed>>

\* Each extra data transaction carries the hash of the next one: the contract
\* takes only the payload it expects next.
CanDeliverExtra(a, payload) ==
  /\ MaySubmitData(a)
  /\ main # NoReport
  /\ extra < Len(ExtraList[main.v])
  /\ payload = ExtraList[main.v][extra + 1]

DeliverExtra ==
  /\ extra' = extra + 1
  /\ UNCHANGED <<members, votes, main, agreed>>

-----------------------------------------------------------------------------
(* The chain *)

ChainInit ==
  /\ slot = 0
  /\ finalized = 0
  /\ upgrade \in UpgradeSlot
  /\ members = Committee
  /\ votes = [a \in Address |-> NoReport]
  /\ main = NoReport
  /\ extra = 0
  /\ agreed = {}

\* A new head block.  Votes and processing state of a past frame are void.
NewSlot ==
  /\ slot < MaxSlot
  /\ slot' = slot + 1
  /\ IF RefSlotAt(slot + 1) = RefSlot
       THEN UNCHANGED <<votes, main, extra>>
       ELSE /\ votes' = [a \in Address |-> NoReport]
            /\ main' = NoReport
            /\ extra' = 0
  /\ UNCHANGED <<finalized, upgrade, members, agreed>>

\* Finality may stall for any number of epochs; it never reaches the head's epoch.
Finalize ==
  \E e \in 0..get_epoch_by_slot(MaxSlot) :
    /\ e < get_epoch_by_slot(slot)
    /\ get_epoch_first_slot(e) > finalized
    /\ finalized' = get_epoch_first_slot(e)
    /\ UNCHANGED <<slot, upgrade, contractVars>>

ChainTypeOK ==
  /\ slot \in Nat
  /\ finalized \in Nat
  /\ upgrade \in UpgradeSlot
  /\ members \in Seq(Address)
  /\ votes \in [Address -> Report \union {NoReport}]
  /\ main \in Report \union {NoReport}
  /\ extra \in Nat
  /\ agreed \subseteq Report

=============================================================================

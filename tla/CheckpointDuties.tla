-------------------------- MODULE CheckpointDuties --------------------------
(***************************************************************************)
(* What the performance collector reads from the chain at a checkpoint     *)
(* (performance/collector/checkpoint.py): the ring of block roots in the   *)
(* state of the checkpoint's slot, the blocks of the slots of an epoch,    *)
(* and the proposals, attestations and sync duties that they show.         *)
(*                                                                         *)
(* The beacon chain is the environment.  The root of a block is its slot.  *)
(***************************************************************************)
EXTENDS Integers, FiniteSetsExt, SequencesExt

CONSTANTS
  SlotsPerEpoch,
  Step,          \* MAX_CHECKPOINT_STEP
  Committees,    \* committees of a slot of an epoch, sequences of validators
  Rotation,      \* the sync committee of a period: a sequence of validators
  SyncPeriod,    \* EPOCHS_PER_SYNC_COMMITTEE_PERIOD
  CacheSize,     \* SyncCommitteesCache.max_size
  MaxStateSlot, MaxDeviations   \* bounds of the exploration

Delay == 2       \* CHECKPOINT_SLOT_DELAY_EPOCHS
RingSize == (Step + 1) * SlotsPerEpoch   \* SLOTS_PER_HISTORICAL_ROOT

Attesters == UNION {UNION {ToSet(c) : c \in ToSet(Committees[i])} : i \in DOMAIN Committees}

ASSUME CheckpointAssumption ==
  /\ SlotsPerEpoch \in Nat \ {0} /\ Step \in Nat \ {0} /\ MaxStateSlot \in Nat
  /\ DOMAIN Committees = 0 .. SlotsPerEpoch - 1 /\ MaxDeviations \in Nat
  /\ \A i \in DOMAIN Committees : Committees[i] \in Seq(Seq(Attesters))
  /\ SyncPeriod \in Nat \ {0} /\ CacheSize \in Nat \ {0, 1}

Zero == -1
None == -2

VARIABLES
  stateSlot,   \* the state is of this slot: its own block is not in the ring yet
  chain,       \* whether a slot has a block, the attestations in it, and the positions
               \* of the sync committee that did not sign
  roots        \* BeaconState.block_roots

checkpointVars == <<stateSlot, chain, roots>>

FirstSlot(e) == e * SlotsPerEpoch
LastSlot(e) == FirstSlot(e + 1) - 1
Epoch(s) == s \div SlotsPerEpoch
CommitteesOf(s) == Committees[s % SlotsPerEpoch]

HasBlock(s) == chain[s + 1].there
IsLastBlock(b, s) == b <= s /\ HasBlock(b) /\ \A q \in b + 1 .. s : ~HasBlock(q)
LastBlock(s) == CHOOSE b \in 0 .. s : IsLastBlock(b, s)

-----------------------------------------------------------------------------
(* The roots of a checkpoint *)

Marked(i) ==
  IF roots[i] # Zero /\ (i = stateSlot % RingSize \/ roots[i] # roots[(i - 1) % RingSize])
  THEN roots[i] ELSE None

\* Mutant: the oldest root is taken for that of its own slot.
BlockRoots_TrustOldest == [i \in DOMAIN roots |-> Marked(i)]

\* _get_block_roots: the root of a missed slot repeats that of the one before it; whether
\* the oldest one does is told by the header.
BlockRoots ==
  [i \in DOMAIN roots |->
     IF i = stateSlot % RingSize /\ Marked(i) # Max({stateSlot - RingSize, 0}) THEN None ELSE Marked(i)]

InRange(s) == s < stateSlot /\ stateSlot <= s + RingSize

\* _select_block_root_by_slot, of a slot in the range.
SelectBlockRoot(s) == BlockRoots[s % RingSize]

DependentSlot(e) == LastSlot(e - 1)

\* _get_dependent_root_for_proposer_duties: down the ring, and beyond it by slot.
DependentRoot(e) ==
  LET inRing == {s \in stateSlot - RingSize .. DependentSlot(e) : InRange(s) /\ SelectBlockRoot(s) # None}
  IN IF inRing # {} THEN SelectBlockRoot(Max(inRing))
     ELSE LastBlock(Min({DependentSlot(e), stateSlot - RingSize - 1}))

-----------------------------------------------------------------------------
(* The duties of an epoch *)

BitsOf(a, c) == [i \in DOMAIN CommitteesOf(a.slot)[c] |-> CommitteesOf(a.slot)[c][i] \in a.voters]

\* The bits of an attestation: those of its committees one after the other.
AggregationBits(a) ==
  LET bits[n \in 0 .. Len(CommitteesOf(a.slot))] ==
        IF n = 0 THEN <<>>
        ELSE IF n \in a.committees THEN bits[n - 1] \o BitsOf(a, n) ELSE bits[n - 1]
  IN bits[Len(CommitteesOf(a.slot))]

NextOffset(offset, committee) == offset + Len(committee)

\* process_attestations, for one of them: whom it shows to have attested.
Attested(a) ==
  LET committees == CommitteesOf(a.slot)
      bits == AggregationBits(a)
      seen[n \in 0 .. Len(committees)] ==
        IF n = 0 THEN [offset |-> 0, found |-> {}]
        ELSE IF n \notin a.committees THEN seen[n - 1]
        ELSE [offset |-> NextOffset(seen[n - 1].offset, committees[n]),
              found |-> seen[n - 1].found
                \cup {committees[n][i] : i \in {i \in DOMAIN committees[n] : bits[seen[n - 1].offset + i]}}]
  IN seen[Len(committees)].found

Members(s) == UNION {ToSet(committee) : committee \in ToSet(CommitteesOf(s))}
EpochSlots(e) == FirstSlot(e) .. LastSlot(e)

\* The blocks that _check_duties looks into.
BlocksToCheck(e) == {SelectBlockRoot(s) : s \in FirstSlot(e) .. LastSlot(e + 1)} \ {None}

\* att_misses; attestations of other epochs have no committee here.
AttMisses(e) ==
  (UNION {Members(s) : s \in EpochSlots(e)})
    \ UNION {UNION {Attested(a) : a \in {a \in chain[b + 1].attestations : Epoch(a.slot) = e}}
             : b \in BlocksToCheck(e)}

Proposed(e) == {s \in EpochSlots(e) : SelectBlockRoot(s) # None}

Period(e) == e \div SyncPeriod

\* get_sync_committee at the last block up to the first slot of the epoch: a node knows the
\* committees of the period of a state and of the next one.
SyncCommitteeIsKnown(e) == Period(e) - Period(Epoch(LastBlock(FirstSlot(e)))) \in {0, 1}

\* SyncCommitteesCache.__setitem__: the earliest period makes room.
Evicted(cache) ==
  IF Cardinality(DOMAIN cache) < CacheSize THEN cache
  ELSE [p \in DOMAIN cache \ {Min(DOMAIN cache)} |-> cache[p]]

\* _get_sync_committee: the cache after it was asked for that of an epoch; a request that
\* fails leaves it as it was.
GetSyncCommittee(cache, e) ==
  IF Period(e) \in DOMAIN cache \/ ~SyncCommitteeIsKnown(e) THEN cache
  ELSE LET kept == Evicted(cache)
       IN [p \in {Period(e)} \cup DOMAIN kept |-> IF p = Period(e) THEN Rotation[p] ELSE kept[p]]

\* The blocks whose sync aggregates _check_duties looks at.
SyncBlocks(e) == {SelectBlockRoot(s) : s \in Proposed(e)}

\* process_sync: by position, the validator and what it missed.
SyncDuties(cache, e) ==
  LET committee == GetSyncCommittee(cache, e)[Period(e)]
  IN [i \in DOMAIN committee |->
        [validator |-> committee[i],
         missed |-> Cardinality({b \in SyncBlocks(e) : i \in chain[b + 1].unsigned})]]

-----------------------------------------------------------------------------
(* The chain *)

\* Attestations that a block may include: EIP-7045.
Includable ==
  LET voters(s, cs) == UNION {ToSet(CommitteesOf(s)[c]) : c \in cs}
      of(s) == UNION {{[slot |-> s, committees |-> cs, voters |-> vs]
                       : vs \in (SUBSET voters(s, cs)) \ {{}}} : cs \in SUBSET DOMAIN CommitteesOf(s)}
  IN UNION {of(s) : s \in Max({FirstSlot(Epoch(stateSlot) - 1), 0}) .. stateSlot - 1}

CheckpointInit ==
  /\ stateSlot = 0 /\ chain = <<>>
  /\ roots = [i \in 0 .. RingSize - 1 |-> Zero]

\* Attestations and missing signatures so far.
Deviations ==
  FoldSeq(LAMBDA b, n : n + Cardinality(b.attestations) + Cardinality(b.unsigned), 0, chain)

\* The slot passes: process_slot keeps the root of its block, or of the last one before.
NextSlot(there, attestations, unsigned) ==
  /\ stateSlot < MaxStateSlot /\ stateSlot' = stateSlot + 1
  /\ chain' = Append(chain, [there |-> there, attestations |-> attestations,
                            unsigned |-> unsigned])
  /\ roots' = [roots EXCEPT ![stateSlot % RingSize] =
                 IF there THEN stateSlot ELSE roots[(stateSlot - 1) % RingSize]]

CheckpointNext ==
  \/ NextSlot(TRUE, {}, {})
  \/ stateSlot > 0 /\ NextSlot(FALSE, {}, {})
  \/ Deviations < MaxDeviations /\ \E a \in Includable : NextSlot(TRUE, {a}, {})
  \/ /\ Deviations < MaxDeviations
     /\ \E i \in DOMAIN Rotation[Period(Epoch(stateSlot))] : NextSlot(TRUE, {}, {i})

CheckpointSpec == CheckpointInit /\ [][CheckpointNext]_checkpointVars

-----------------------------------------------------------------------------
(* Properties *)

\* The duty epochs of a checkpoint at this slot; epoch 0 has no epoch before.
DutyEpochs ==
  IF stateSlot % SlotsPerEpoch # 0 THEN {}
  ELSE {e \in 1 .. Epoch(stateSlot) - Delay : e > Epoch(stateSlot) - Delay - Step}

\* checkpoint.py:175-243, 270-303: in every epoch of a checkpoint exactly the slots with a
\* block are proposed, and those attested who are in an attestation of a block of this epoch
\* or the next, wherever slots were missed, the ring wraps and committees were aggregated.
DutiesMatchTheChain ==
  \A e \in DutyEpochs :
    /\ Proposed(e) = {s \in EpochSlots(e) : HasBlock(s)}
    /\ AttMisses(e) =
         {v \in UNION {Members(s) : s \in EpochSlots(e)} :
            \A b \in FirstSlot(e) .. LastSlot(e + 1) :
              HasBlock(b) => \A a \in chain[b + 1].attestations : Epoch(a.slot) = e => v \notin a.voters}

\* checkpoint.py:399-426: the proposer duties of an epoch are those of the chain up to its
\* first slot: the root they depend on is that of the last block before, in the ring or not.
DependentRootIsLastBlock ==
  \A e \in DutyEpochs : IsLastBlock(DependentRoot(e), FirstSlot(e) - 1)

\* checkpoint.py:336-388, 428-436: whatever epochs the cache has served before, each
\* position of the sync committee of the period has missed the blocks of the epoch that it
\* did not sign; unless no block came for so long that no node can tell the committee.
SyncDutiesMatchTheChain ==
  \A e \in DutyEpochs, d, f \in 1 .. Epoch(stateSlot) - 1 :
    SyncCommitteeIsKnown(e) =>
      SyncDuties(GetSyncCommittee(GetSyncCommittee(<<>>, d), f), e) =
        [i \in DOMAIN Rotation[Period(e)] |->
           [validator |-> Rotation[Period(e)][i],
            missed |-> Cardinality({s \in EpochSlots(e) : HasBlock(s) /\ i \in chain[s + 1].unsigned})]]

\* checkpoint.py: what a checkpoint reads of an epoch, through the ring of roots, is what the
\* chain has.
CheckpointMatchesTheChain ==
  DutiesMatchTheChain /\ SyncDutiesMatchTheChain /\ DependentRootIsLastBlock

=============================================================================

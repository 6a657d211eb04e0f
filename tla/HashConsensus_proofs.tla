------------------------ MODULE HashConsensus_proofs ------------------------
(***************************************************************************)
(* Facts about frames and about quorums, for every frame configuration and *)
(* every committee.                                                        *)
(***************************************************************************)
EXTENDS HashConsensus, FiniteSetTheorems, TLAPS

-----------------------------------------------------------------------------
(* Frames *)

\* Slots of a frame, from the arithmetic of Web3Converter.
LEMMA DivBounds ==
  ASSUME NEW a \in Int, NEW b \in Nat \ {0}
  PROVE  /\ a \div b \in Int
         /\ b * (a \div b) <= a
         /\ a < b * (a \div b) + b
  OBVIOUS

\* Multiplication by a natural number keeps the order.
LEMMA MulMono ==
  ASSUME NEW a \in Int, NEW b \in Int, NEW k \in Nat, a <= b
  PROVE  a * k <= b * k
  OBVIOUS

\* A frame starts at its first slot and ends at its last one.
LEMMA FrameBounds ==
  ASSUME NEW s \in Int
  PROVE  /\ get_frame_by_slot(s) \in Int
         /\ get_frame_first_slot(get_frame_by_slot(s)) <= s
         /\ s <= get_frame_last_slot(get_frame_by_slot(s))
<1> DEFINE e == get_epoch_by_slot(s)
           f == get_frame_by_slot(s)
<1>1. /\ e \in Int
      /\ SLOTS_PER_EPOCH * e <= s
      /\ s < SLOTS_PER_EPOCH * e + SLOTS_PER_EPOCH
  BY DivBounds, ConverterAssumption DEF get_epoch_by_slot
<1> HIDE DEF e
<1>2. /\ get_frame_by_epoch(e) \in Int
      /\ EPOCHS_PER_FRAME * get_frame_by_epoch(e) <= e - INITIAL_EPOCH
      /\ e - INITIAL_EPOCH
           < EPOCHS_PER_FRAME * get_frame_by_epoch(e) + EPOCHS_PER_FRAME
  BY <1>1, DivBounds, ConverterAssumption DEF get_frame_by_epoch
<1>3. f = get_frame_by_epoch(e)
  BY DEF e, get_frame_by_slot
<1> HIDE DEF f
<1>4. (INITIAL_EPOCH + f * EPOCHS_PER_FRAME) * SLOTS_PER_EPOCH <= e * SLOTS_PER_EPOCH
  BY <1>1, <1>2, <1>3, MulMono, ConverterAssumption
<1>5. (e + 1) * SLOTS_PER_EPOCH
        <= (INITIAL_EPOCH + (f + 1) * EPOCHS_PER_FRAME) * SLOTS_PER_EPOCH
  BY <1>1, <1>2, <1>3, MulMono, ConverterAssumption
<1> QED
  BY <1>1, <1>2, <1>3, <1>4, <1>5, ConverterAssumption
  DEF f, get_frame_first_slot, get_frame_last_slot

\* Frames do not overlap: an earlier frame ends before a later one starts.
LEMMA FrameOrder ==
  ASSUME NEW f \in Int, NEW g \in Int, f < g
  PROVE  get_frame_last_slot(f) < get_frame_first_slot(g)
<1>1. f + 1 <= g
  OBVIOUS
<1>2. (INITIAL_EPOCH + (f + 1) * EPOCHS_PER_FRAME) * SLOTS_PER_EPOCH
        <= (INITIAL_EPOCH + g * EPOCHS_PER_FRAME) * SLOTS_PER_EPOCH
  BY <1>1, MulMono, ConverterAssumption
<1>3. (INITIAL_EPOCH + (f + 1) * EPOCHS_PER_FRAME) * SLOTS_PER_EPOCH \in Int
  BY ConverterAssumption
<1> QED
  BY <1>2, <1>3, ConverterAssumption DEF get_frame_first_slot, get_frame_last_slot

\* A frame has at least one slot.
LEMMA FrameType ==
  ASSUME NEW f \in Int
  PROVE  /\ get_frame_first_slot(f) \in Int
         /\ get_frame_last_slot(f) \in Int
         /\ get_frame_first_slot(f + 1) = get_frame_last_slot(f) + 1
         /\ get_frame_first_slot(f) <= get_frame_last_slot(f)
<1>1. /\ get_frame_first_slot(f) \in Int
      /\ get_frame_first_slot(f + 1) \in Int
      /\ get_frame_first_slot(f - 1 + 1) = get_frame_first_slot(f)
  BY ConverterAssumption DEF get_frame_first_slot
<1>2. get_frame_last_slot(f) \in Int
  BY <1>1 DEF get_frame_last_slot
<1>3. get_frame_last_slot(f - 1) < get_frame_first_slot(f)
  BY FrameOrder
<1>4. get_frame_first_slot(f) < get_frame_first_slot(f + 1)
<2>1. (INITIAL_EPOCH + f * EPOCHS_PER_FRAME) + 1 <= INITIAL_EPOCH + (f + 1) * EPOCHS_PER_FRAME
  BY ConverterAssumption
<2>2. (INITIAL_EPOCH + f * EPOCHS_PER_FRAME + 1) * SLOTS_PER_EPOCH
        <= (INITIAL_EPOCH + (f + 1) * EPOCHS_PER_FRAME) * SLOTS_PER_EPOCH
  BY <2>1, MulMono, ConverterAssumption
<2> QED
  BY <2>2, ConverterAssumption DEF get_frame_first_slot
<1> QED
  BY <1>1, <1>2, <1>4 DEF get_frame_last_slot

\* The frame of the report contract at a slot, the initial frame before it starts.
LEMMA FrameAtFacts ==
  ASSUME NEW s \in Nat
  PROVE  /\ FrameAt(s) \in Int
         /\ RefSlotAt(s) \in Int
         /\ DeadlineAt(s) \in Int
         /\ RefSlotAt(s) < DeadlineAt(s)
         /\ s <= DeadlineAt(s)
         /\ s >= get_frame_first_slot(0) => RefSlotAt(s) < s
         /\ s < get_frame_first_slot(0) => RefSlotAt(s) >= s
<1>1. /\ get_frame_by_slot(s) \in Int
      /\ get_frame_first_slot(get_frame_by_slot(s)) <= s
      /\ s <= get_frame_last_slot(get_frame_by_slot(s))
  BY FrameBounds
<1>2. FrameAt(s) \in Int
  BY <1>1 DEF FrameAt
<1>3. /\ get_frame_first_slot(FrameAt(s)) = RefSlotAt(s) + 1
      /\ RefSlotAt(s) \in Int
      /\ DeadlineAt(s) \in Int
      /\ get_frame_first_slot(FrameAt(s)) <= DeadlineAt(s)
<2>1. FrameAt(s) - 1 \in Int /\ FrameAt(s) - 1 + 1 = FrameAt(s)
  BY <1>2
<2> QED
  BY <1>2, <2>1, FrameType DEF RefSlotAt, DeadlineAt
<1>4. CASE s < get_frame_first_slot(0)
  BY <1>1, <1>2, <1>3, <1>4, FrameType DEF FrameAt, DeadlineAt
<1>5. CASE s >= get_frame_first_slot(0)
  BY <1>1, <1>2, <1>3, <1>5, FrameType DEF FrameAt, DeadlineAt
<1> QED
  BY <1>4, <1>5, FrameType

\* The next slot is in the same frame, or it is the first of the next one.
LEMMA NextFrame ==
  ASSUME NEW s \in Nat
  PROVE  /\ RefSlotAt(s + 1) = RefSlotAt(s) => DeadlineAt(s + 1) = DeadlineAt(s)
         /\ RefSlotAt(s + 1) # RefSlotAt(s) =>
              /\ RefSlotAt(s + 1) = s
              /\ s = DeadlineAt(s)
              /\ s + 1 >= get_frame_first_slot(0)
<1> DEFINE F == FrameAt(s)
           G == FrameAt(s + 1)
<1>1. F \in Int /\ G \in Int
  BY FrameAtFacts
<1>2. G = F \/ (G = F + 1 /\ s = get_frame_last_slot(F) /\ s + 1 >= get_frame_first_slot(0))
<2>1. CASE s + 1 < get_frame_first_slot(0)
  BY <2>1, FrameType DEF FrameAt
<2>2. CASE s < get_frame_first_slot(0) /\ s + 1 >= get_frame_first_slot(0)
<3>1. /\ G = get_frame_by_slot(s + 1)
      /\ get_frame_first_slot(G) <= s + 1
      /\ s + 1 <= get_frame_last_slot(G)
  BY <2>2, FrameBounds, FrameType DEF FrameAt
<3>2. F = 0 /\ s + 1 = get_frame_first_slot(0)
  BY <2>2, FrameType DEF FrameAt
<3> HIDE DEF G, F
<3>3. ~(G < 0)
  BY <1>1, <3>1, <3>2, FrameOrder, FrameType
<3>4. ~(0 < G)
<4>1. get_frame_first_slot(0) <= get_frame_last_slot(0)
  BY FrameType
<4>2. SUFFICES ASSUME 0 < G PROVE FALSE
  OBVIOUS
<4>3. get_frame_last_slot(0) < get_frame_first_slot(G)
  BY <1>1, <4>2, FrameOrder
<4> QED
  BY <1>1, <3>1, <3>2, <4>1, <4>3, FrameType
<3> QED
  BY <1>1, <3>2, <3>3, <3>4
<2>3. CASE s >= get_frame_first_slot(0)
<3>1. /\ G = get_frame_by_slot(s + 1)
      /\ get_frame_first_slot(G) <= s + 1
      /\ s + 1 <= get_frame_last_slot(G)
      /\ F = get_frame_by_slot(s)
      /\ get_frame_first_slot(F) <= s
      /\ s <= get_frame_last_slot(F)
      /\ s + 1 >= get_frame_first_slot(0)
  BY <2>3, FrameBounds, FrameType DEF FrameAt
<3> HIDE DEF G, F
<3>2. ~(G < F)
  BY <1>1, <3>1, FrameOrder, FrameType
<3>3. CASE F < G
<4>1. get_frame_last_slot(F) < get_frame_first_slot(G)
  BY <1>1, <3>3, FrameOrder
<4>2. s = get_frame_last_slot(F)
<5>1. get_frame_last_slot(F) \in Int /\ get_frame_first_slot(G) \in Int
  BY <1>1, FrameType
<5> QED
  BY <3>1, <4>1, <5>1
<4>3. /\ get_frame_first_slot(F + 1) = s + 1
      /\ get_frame_first_slot(F + 1) <= get_frame_last_slot(F + 1)
      /\ get_frame_last_slot(F + 1) \in Int
      /\ get_frame_first_slot(G) \in Int
  BY <1>1, <4>2, FrameType
<4>4. ~(F + 1 < G)
  BY <1>1, <3>1, <4>3, FrameOrder
<4> QED
  BY <1>1, <3>1, <3>3, <4>2, <4>4
<3> QED
  BY <1>1, <3>2, <3>3
<2> QED
  BY <2>1, <2>2, <2>3, FrameType
<1>3. CASE G = F
  BY <1>3 DEF RefSlotAt, DeadlineAt
<1>4. CASE G = F + 1 /\ s = get_frame_last_slot(F) /\ s + 1 >= get_frame_first_slot(0)
<2>1. RefSlotAt(s + 1) = s /\ s = DeadlineAt(s)
  BY <1>1, <1>4 DEF RefSlotAt, DeadlineAt
<2> QED
  BY <2>1, <1>4, FrameAtFacts
<1> QED
  BY <1>2, <1>3, <1>4

-----------------------------------------------------------------------------
(* Quorums *)

\* The committee is finite.
LEMMA MemberFinite ==
  ASSUME members \in Seq(Address)
  PROVE  IsFiniteSet(Member)
<1> DEFINE I == 1..Len(members)
           at == [i \in I |-> members[i]]
<1>1. Len(members) \in Nat
  OBVIOUS
<1>2. IsFiniteSet(I)
  BY <1>1, FS_Interval
<1>3. at \in Surjection(I, Member)
  BY DEF Surjection, Member
<1> QED
  BY <1>2, <1>3, FS_Surjection

\* Fewer voters never make a quorum.
LEMMA QuorumMono ==
  ASSUME NEW S, NEW T, IsFiniteSet(T), S \subseteq T, Cardinality(S) >= Quorum
  PROVE  Cardinality(T) >= Quorum
<1>1. IsFiniteSet(S) /\ Cardinality(S) <= Cardinality(T)
  BY FS_Subset
<1>2. Cardinality(S) \in Nat /\ Cardinality(T) \in Nat
  BY <1>1, FS_CardinalityType
<1> QED
  BY <1>1, <1>2, ConsensusAssumption

\* A quorum has a voter.
LEMMA QuorumNonEmpty ==
  ASSUME NEW S, IsFiniteSet(S), Cardinality(S) >= Quorum
  PROVE  S # {}
  BY FS_EmptySet, ConsensusAssumption

=============================================================================

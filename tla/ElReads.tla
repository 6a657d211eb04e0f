------------------------------ MODULE ElReads ------------------------------
(***************************************************************************)
(* Reading the execution layer by slots: the events of the last slots      *)
(* before a reference slot, fetched by block numbers (utils/events.py),    *)
(* and the timestamps of blocks, most of which are worked out instead of   *)
(* fetched (utils/block.py).  Both must cope with missed slots, which have *)
(* no block number.                                                        *)
(*                                                                         *)
(* The chain is the environment.  Time is counted in slots.                *)
(***************************************************************************)
EXTENDS Integers, FiniteSetsExt, SequencesExt

CONSTANTS
  SearchStep,    \* EVENTS_SEARCH_STEP
  BatchLimit,    \* BLOCK_BATCH_SIZE_LIMIT
  MaxElSlot, MaxLag   \* bounds: slots, and how far an event's timestamp lags behind

ASSUME ElAssumption ==
  SearchStep \in Nat /\ BatchLimit \in Nat /\ MaxElSlot \in Nat /\ MaxLag \in Nat

VARIABLES
  lastSlot,  \* the last slot
  elBlocks    \* slots with a block: the block number is the place in the sequence
elVars == <<lastSlot, elBlocks>>

Number == Len(elBlocks)
Numbers == DOMAIN elBlocks

-----------------------------------------------------------------------------
(* Lists *)

\* The members of a list that are in S, in their order.
Those(list, S) ==
  LET kept[k \in 0 .. Len(list)] ==
        IF k = 0 THEN <<>>
        ELSE IF list[k] \in S THEN Append(kept[k - 1], list[k]) ELSE kept[k - 1]
  IN kept[Len(list)]

-----------------------------------------------------------------------------
(* get_events_in_past *)

\* The events of a block, one of every timestamp it may have: a report's lags behind.
Logs(n) ==
  IF n \notin Numbers THEN <<>>
  ELSE [k \in 1 .. Min({MaxLag, elBlocks[n]}) + 1 |-> [block |-> n, timestamp |-> elBlocks[n] - (k - 1)]]

\* What a node answers to get_logs.
GetLogs(l, r) ==
  LET logs[n \in l - 1 .. r] == IF n < l THEN <<>> ELSE logs[n - 1] \o Logs(n)
  IN logs[r]

\* Mutant: the next range begins where the last one ended.
NextRange_Overlapping(r) == r

NextRange(r) == r + 1

\* get_events_in_range: range after range.
EventsInRange(l, r) ==
  LET found[from \in l .. r] ==
        LET to == Min({r, from + SearchStep})
        IN GetLogs(from, to) \o (IF to = r THEN <<>> ELSE found[NextRange(to)])
  IN found[l]

\* for_slots_without_missed_blocks, with the last slot as the reference slot.
SlotsWithoutMissed(forSlots) == forSlots - (lastSlot - elBlocks[Number])

EventsInPast(forSlots) ==
  LET back == SlotsWithoutMissed(forSlots)
      events == EventsInRange(Max({0, Number - back}), Number)
  IN IF back <= 0 THEN <<>>
     ELSE Those(events, {e \in ToSet(events) : e.timestamp > elBlocks[Number] - back})

-----------------------------------------------------------------------------
(* get_block_timestamps *)

\* Of the i-th to the j-th of a sorted list of blocks.
NoMissedSlot(blocks, i, j) ==
  elBlocks[blocks[i]] + (blocks[j] - blocks[i]) = elBlocks[blocks[j]]

Calculated(blocks, i, j) ==
  [k \in 1 .. j - i + 1 |-> elBlocks[blocks[i]] + (blocks[i + k - 1] - blocks[i])]

Fetched(blocks, i, j) == [k \in 1 .. j - i + 1 |-> elBlocks[blocks[i + k - 1]]]

\* _calculate_timestamps: the ends of a segment are known, having been fetched.
Timestamps(blocks) ==
  LET Segments == {p \in (1 .. Len(blocks)) \X (1 .. Len(blocks)) : p[1] <= p[2]}
      times[p \in Segments] ==
        LET length == p[2] - p[1] + 1
            mid == p[1] + length \div 2
        IN IF length > 2 /\ NoMissedSlot(blocks, p[1], p[2]) THEN Calculated(blocks, p[1], p[2])
           ELSE IF length - 2 <= BatchLimit THEN Fetched(blocks, p[1], p[2])
           ELSE times[<<p[1], mid>>] \o Tail(times[<<mid, p[2]>>])
  IN times[<<1, Len(blocks)>>]

InOrder(wanted) == Those([n \in Numbers |-> n], wanted)

BlockTimestamps(wanted) ==
  LET blocks == InOrder(wanted)
      times == Timestamps(blocks)
  IN [n \in wanted |-> times[CHOOSE i \in DOMAIN blocks : blocks[i] = n]]

-----------------------------------------------------------------------------
(* The chain *)

ElInit == lastSlot = 0 /\ elBlocks = <<0>>

AddBlock == lastSlot < MaxElSlot /\ lastSlot' = lastSlot + 1 /\ elBlocks' = Append(elBlocks, lastSlot + 1)

MissSlot == lastSlot < MaxElSlot /\ lastSlot' = lastSlot + 1 /\ UNCHANGED elBlocks

ElNext == AddBlock \/ MissSlot

ElSpec == ElInit /\ [][ElNext]_elVars

-----------------------------------------------------------------------------
(* Properties *)

\* events.py:16-87 ("This is protection against missed slots"): the events of the last slots
\* before the reference slot are found, each of them once and no other, and block by block,
\* wherever slots were missed and however the blocks are split into ranges.
EventsOfTheLastSlots ==
  \A forSlots \in 1 .. lastSlot + 1 :
    LET found == EventsInPast(forSlots)
    IN /\ IsInjective(found)
       /\ ToSet(found) = {e \in UNION {ToSet(Logs(n)) : n \in Numbers} : e.timestamp > lastSlot - forSlots}
       /\ \A i, j \in DOMAIN found : i < j => found[i].block <= found[j].block

\* block.py:23-130: the timestamps of any set of blocks are those of the chain, though only
\* those at the ends of a segment without a missed slot are fetched.
TimestampsAreExact ==
  \A wanted \in (SUBSET Numbers) \ {{}} : BlockTimestamps(wanted) = [n \in wanted |-> elBlocks[n]]

\* events.py, block.py: events and timestamps are those of the chain whatever slots were missed.
ReadsMatchTheChain == EventsOfTheLastSlots /\ TimestampsAreExact

=============================================================================

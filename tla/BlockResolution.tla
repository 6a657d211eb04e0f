--------------------------- MODULE BlockResolution ---------------------------
(***************************************************************************)
(* Finding the block of a slot (utils/slot.py): the block itself, or the   *)
(* last one before it when the slot was missed, which is known by the      *)
(* parent of the next block.  Headers come from several consensus nodes,   *)
(* asked in turn until one answers (providers/http_provider.py,            *)
(* providers/consensus/client.py); the last header stays in a cache.       *)
(*                                                                         *)
(* The nodes are the environment.  As long as they are not healthy they    *)
(* may err, deny a block they have, not have finalized it yet or follow a  *)
(* fork; what a node calls finalized is right.                             *)
(***************************************************************************)
EXTENDS Integers

CONSTANTS
  Host,        \* consensus nodes
  MaxSlot      \* last_finalized_slot_number

ASSUME ResolutionAssumption == MaxSlot \in Nat

Slot == 0 .. MaxSlot

VARIABLES
  blocks,      \* whether a slot has a block
  healthy,
  cache,       \* lru_cache(maxsize=1) of get_block_header: its key and the header
  pc,
  slot, last,  \* arguments of get_prev_non_missed_slot
  next,        \* the slot whose header is asked for
  missed,      \* slot_is_missing
  header,      \* existing_header
  resolved     \* the block that was found

resolutionVars == <<blocks, healthy, cache, pc, slot, last, next, missed, header, resolved>>

\* "final" is: finalized is not False, and canonical.
Header == [slot : Slot, parent : Slot \cup {-1}, orphan : BOOLEAN, final : BOOLEAN]

NoHeader == [slot |-> 0, parent |-> -1, orphan |-> TRUE, final |-> FALSE]

LastBefore(p, s) ==
  /\ p < s /\ \A q \in Slot : p < q /\ q < s => ~blocks[q]
  /\ IF p = -1 THEN s = 0 ELSE blocks[p]

IsBlock(h) == ~h.orphan /\ blocks[h.slot] /\ LastBefore(h.parent, h.slot)

\* Headers that the nodes may give for a slot, and for the root of its block.
BySlot(s) ==
  {h \in Header : h.slot = s /\ \/ IsBlock(h) /\ (healthy => h.final)
                                \/ h.orphan /\ ~h.final /\ ~healthy}
ByRoot(s) == {h \in BySlot(s) : ~h.orphan}

-----------------------------------------------------------------------------
(* The client *)

Answers(s) ==
  {a \in [Host -> {"ok", "404", "error"}] :
     healthy => \A h \in Host : a[h] = IF s \in Slot /\ blocks[s] THEN "ok" ELSE "404"}

\* _get, with __raise_last_missed_slot_error: the slot is missed when every node failed and
\* one of them denied it.
Answered(a) ==
  CASE \E h \in Host : a[h] = "ok" -> "ok"
    [] ~(\E h \in Host : a[h] = "ok") /\ \E h \in Host : a[h] = "404" -> "404"
    [] OTHER -> "error"

Cached(by, s) == cache.by = by /\ cache.slot = s
Keep(by, s, h) == cache' = [by |-> by, slot |-> s, header |-> h]

-----------------------------------------------------------------------------
(* get_prev_non_missed_slot *)

ResolutionInit ==
  /\ blocks \in [Slot -> BOOLEAN] /\ blocks[0] /\ blocks[MaxSlot]
  /\ healthy = FALSE
  /\ cache = [by |-> "none", slot |-> 0, header |-> NoHeader]
  /\ pc = "idle"
  /\ slot \in Slot /\ last \in slot .. MaxSlot
  /\ next = 0 /\ missed = FALSE /\ header = NoHeader /\ resolved = NoHeader

Call(s, l) ==
  /\ pc \in {"idle", "failed", "done"}
  /\ pc' = "scan" /\ slot' = s /\ last' = l
  /\ next' = s /\ missed' = FALSE /\ header' = NoHeader /\ resolved' = NoHeader
  /\ UNCHANGED <<blocks, healthy, cache>>

\* The next cycle resolves the same slot again; or another block is looked for.
Cycle == Call(slot, last)
NextCall == \E s \in Slot : \E l \in s .. MaxSlot : Call(s, l)

\* Mutant: what the node has not finalized is taken for final.
Checked_Never(h, then) == then

\* _check_block_header.
Checked(h, then) == IF h.final THEN then ELSE "failed"

\* A header was found in get_non_missed_slot_header.
Found(h) ==
  /\ header' = h
  /\ pc' = Checked(h, IF missed THEN "parent" ELSE "details")
  /\ resolved' = IF missed THEN NoHeader ELSE h
  /\ UNCHANGED <<next, missed>>

Fail == pc' = "failed" /\ UNCHANGED <<next, missed, header, resolved>>

\* One round of the loop in get_non_missed_slot_header.
Scan ==
  /\ pc = "scan"
  /\ UNCHANGED <<blocks, healthy, slot, last>>
  /\ IF next > last THEN Fail /\ UNCHANGED cache
     ELSE IF Cached("slot", next) THEN Found(cache.header) /\ UNCHANGED cache
     ELSE \E a \in Answers(next) :
            CASE Answered(a) = "ok" ->
                   \E h \in BySlot(next) : Found(h) /\ Keep("slot", next, h)
              [] Answered(a) = "404" ->
                   /\ next' = next + 1 /\ missed' = TRUE
                   /\ UNCHANGED <<pc, cache, header, resolved>>
              [] OTHER -> Fail /\ UNCHANGED cache

\* Mutant: the parent is taken for the block before the slot.
Consistent_Always(parent) == TRUE

Consistent(parent) == parent.slot < slot /\ header.slot - parent.slot >= 1

FoundParent(h) ==
  /\ pc' = IF Consistent(h) THEN Checked(h, "details") ELSE "failed"
  /\ resolved' = h
  /\ UNCHANGED <<next, missed, header>>

\* The header of the parent, by its root.
GetParent ==
  /\ pc = "parent"
  /\ UNCHANGED <<blocks, healthy, slot, last>>
  /\ IF Cached("root", header.parent) THEN FoundParent(cache.header) /\ UNCHANGED cache
     ELSE \E a \in Answers(header.parent) :
            IF Answered(a) = "ok"
            THEN \E h \in ByRoot(header.parent) : FoundParent(h) /\ Keep("root", header.parent, h)
            ELSE Fail /\ UNCHANGED cache

\* get_block_details of the root of the header.
GetDetails ==
  /\ pc = "details"
  /\ \E a \in Answers(resolved.slot) : pc' = IF Answered(a) = "ok" THEN "done" ELSE "failed"
  /\ UNCHANGED <<blocks, healthy, cache, slot, last, next, missed, header, resolved>>

Recover ==
  /\ ~healthy /\ healthy' = TRUE
  /\ UNCHANGED <<blocks, cache, pc, slot, last, next, missed, header, resolved>>

ResolutionNext == Cycle \/ NextCall \/ Scan \/ GetParent \/ GetDetails \/ Recover

ResolutionSpec == ResolutionInit /\ [][ResolutionNext]_resolutionVars

\* The cycles of a daemon in one frame, whose nodes recover in the end.
CycleNext == (pc # "done" /\ Cycle) \/ Scan \/ GetParent \/ GetDetails \/ Recover

CycleSpec ==
  /\ ResolutionInit /\ [][CycleNext]_resolutionVars
  /\ WF_resolutionVars(CycleNext) /\ WF_resolutionVars(Recover)

-----------------------------------------------------------------------------
(* Properties *)

\* utils/slot.py:23-115: whatever the nodes deny, lag behind or take from a fork, and
\* whatever header is left in the cache, the block found is the last one of the chain at or
\* before the slot, or there is none.
ResolvedIsTheLastBlock ==
  pc = "done" =>
    /\ ~resolved.orphan /\ blocks[resolved.slot] /\ resolved.slot <= slot
    /\ \A s \in Slot : resolved.slot < s /\ s <= slot => ~blocks[s]

\* oracle_module.py:41-42 ("Catch errors and log them", "Raise exceptions that could not be
\* proceeded automatically"): SlotNotFinalized is caught and logged, so that the cycles that
\* follow find the block once the nodes have recovered.
ResolvesAfterRecovery == last = MaxSlot => <>(pc = "done")
=============================================================================

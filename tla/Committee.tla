------------------------------ MODULE Committee ------------------------------
(***************************************************************************)
(* What a committee of oracles promises to whoever reads the report        *)
(* contract, without its daemons, votes and transactions: for a reference  *)
(* slot that is final, a quorum of members who each came to the same       *)
(* report makes it the agreed one; an agreed report of the current frame   *)
(* is processed, at most one in a frame; its extra data follows item by    *)
(* item until it is complete or the frame is over.                         *)
(***************************************************************************)
EXTENDS Integers, Sequences

CONSTANTS
  Quorums,    \* the sets of addresses that can make a report the agreed one
  Opinion,    \* Opinion[a]: the reports that a's own computation may come to
  ExtraList,  \* the extra data of a report
  NoReport

VARIABLES
  refSlot,    \* reference slot of the current frame
  finalized,  \* last finalized slot
  agreed,     \* the reports that have had a quorum
  main,       \* the report processed in the current frame
  extra       \* items of its extra data processed

committeeVars == <<refSlot, finalized, agreed, main, extra>>

Init ==
  /\ refSlot \in Int
  /\ finalized = 0 /\ agreed = {} /\ main = NoReport /\ extra = 0

\* A quorum whose members could each have come to this report.
Agree(v) ==
  /\ refSlot <= finalized /\ main = NoReport
  /\ \E Q \in Quorums : \A a \in Q : v \in Opinion[a]
  /\ agreed' = agreed \union {[ref |-> refSlot, v |-> v]}
  /\ UNCHANGED <<refSlot, finalized, main, extra>>

Process(r) ==
  /\ r.ref = refSlot /\ main = NoReport
  /\ main' = r /\ extra' = 0
  /\ UNCHANGED <<refSlot, finalized, agreed>>

ProcessExtra ==
  /\ main # NoReport /\ extra < Len(ExtraList[main.v])
  /\ extra' = extra + 1
  /\ UNCHANGED <<refSlot, finalized, agreed, main>>

NextFrame ==
  /\ refSlot' > refSlot
  /\ main' = NoReport /\ extra' = 0
  /\ UNCHANGED <<finalized, agreed>>

Finalize ==
  /\ finalized' > finalized
  /\ UNCHANGED <<refSlot, agreed, main, extra>>

Next ==
  \/ \E v \in DOMAIN ExtraList : Agree(v)
  \/ \E r \in agreed : Process(r)
  \/ ProcessExtra \/ NextFrame \/ Finalize

Spec == Init /\ [][Next]_committeeVars
=============================================================================

------------------------ MODULE MCPerformanceSidecar ------------------------
(* Instances of PerformanceSidecar for TLC. *)
EXTENDS PerformanceSidecar

CONSTANTS csm, cm   \* model values

Three == [c \in Consumer |-> 3]
FromFour == [c \in Consumer |-> 4]
\* The two modules' frames differ in length and phase.
Lengths == [c \in Consumer |-> IF c = csm THEN 3 ELSE 2]
Firsts == [c \in Consumer |-> IF c = csm THEN 4 ELSE 5]
=============================================================================

--------------------------- MODULE MCOracleReport ---------------------------
(* Instances of OracleReport for TLC. *)
EXTENDS OracleReport

CONSTANTS d1, d2, d3, x1, v1, v2, v3   \* model values

ThreeMembers == <<d1, d3, d2>>
TwoMembers == <<d1, d2>>
DelegatedMembers == <<x1, d2>>

MCAccounts == [d \in Daemon |-> d]
Delegated == [d \in Daemon |-> IF d = d1 THEN x1 ELSE d]

AllBuild1 == [d \in Daemon |-> {v1}]
Unstable == [d \in Daemon |-> IF d = d1 THEN Variant ELSE {v1}]

Current == [d \in Daemon |-> 1]
Upgraded == [d \in Daemon |-> 2]

NoExtra == [v \in Variant |-> <<>>]
TwoTxs == [v \in Variant |-> <<v, "rest">>]

Never == {MaxSlot + 1}
=============================================================================

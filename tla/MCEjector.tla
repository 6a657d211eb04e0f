----------------------------- MODULE MCEjector -----------------------------
(* Instances of Ejector for TLC. *)
EXTENDS Ejector

CONSTANTS a1, a2, b1, b2, cm1, cm2, key   \* model values

Modules == [o \in Operator |-> IF o \in {a1, a2} THEN cm1 ELSE cm2]
Thresholds == [m \in Module |-> IF m = cm1 THEN 5 ELSE 10]

\* Validators 1..9 and one pending key.
Operators == [k \in Key |-> CASE k \in {1, 4, 7, 8} -> a1 [] k \in {2, 9} -> a2
                              [] k \in {3, 5} -> b1 [] OTHER -> b2]
Balances == [k \in Key |-> IF k \in {3, 6} THEN 2 ELSE 1]
MaxBalances == [v \in Validator |-> IF v \in {3, 6} THEN 3 ELSE 1]

Apart == {}
Pair == {[external |-> {a1}, internal |-> {b1, b2}]}
Wide == {[external |-> {a1, a2}, internal |-> {b1}], [external |-> {}, internal |-> {b2}]}
Twice == {[external |-> {a1}, internal |-> {b1}], [external |-> {a2}, internal |-> {b1}]}
Foreign == {[external |-> {b1}, internal |-> {b2}]}
MCGroupSets == {Apart, Pair, Wide, Twice, Foreign}

Weighing(x, y) == [o \in Operator |-> IF o = b1 THEN x ELSE IF o = b2 THEN y ELSE 2]
MCWeights == {Weighing(1, 1), Weighing(1, 3), Weighing(0, 2), Weighing(0, 0)}

Free == [mode |-> "none", to |-> 0]
MCTargets ==
  {t \in [Operator -> {Free, [mode |-> "soft", to |-> 1], [mode |-> "force", to |-> 0],
                       [mode |-> "force", to |-> 1]}] :
     Cardinality({o \in Operator : t[o] # Free}) <= 2}

Exiting == {[epoch |-> 8, full |-> 2, excess |-> 0], [epoch |-> 40, full |-> 3, excess |-> 1]}
=============================================================================

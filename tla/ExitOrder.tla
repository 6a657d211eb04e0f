----------------------------- MODULE ExitOrder -----------------------------
(***************************************************************************)
(* ValidatorExitIterator (src/src/services/exit_order_iterator.py): which  *)
(* validator the ejector asks to exit next.  The iterator counts, for      *)
(* every node operator and staking module, validators, balance and stake   *)
(* once, and then updates the counters validator by validator.             *)
(*                                                                         *)
(* Balances are integers in any unit.  A stake is a balance times Scale:   *)
(* the code divides floats, the model divides multiples of Scale, chosen   *)
(* so that every division is exact.                                        *)
(***************************************************************************)
EXTENDS Integers, FiniteSets, FiniteSetsExt, Functions

CONSTANTS
  Operator,          \* node operators, of all modules
  Module,            \* staking modules
  ModuleOf,          \* ModuleOf[o]
  CMv1, CMv2,        \* the two curated modules
  Threshold,         \* Threshold[m]: priority_exit_share_threshold
  TOTAL_BASIS_POINTS,
  Validator,         \* indices of the validators on the consensus layer
  Pending,           \* deposited keys that are no validators yet
  OperatorOf,        \* OperatorOf[v], of validators and pending keys
  Balance,           \* get_predictable_inbound_balance, or what is deposited
  MaxBalance,        \* MaxBalance[v]: get_max_effective_balance
  OnExit, Requested, \* validators on exit; asked to exit recently
  Consolidating,     \* validators that are the source of a consolidation
  GroupSets,         \* the operator groups the meta registry may hold
  Weights,           \* the weights operators may have, one for all outside CMv2
  TargetSets,        \* the exit targets node operators may be given
  ExitLimits,        \* limits the sanity checker may set
  Scale

Key == Validator \cup Pending

Group == [external : SUBSET Operator, internal : SUBSET Operator]

Target == [mode : {"none", "soft", "force"}, to : Nat]

ASSUME ExitOrderAssumption ==
  /\ ModuleOf \in [Operator -> Module]
  /\ CMv1 \in Module /\ CMv2 \in Module /\ CMv1 # CMv2
  /\ Threshold \in [Module -> Nat] /\ TOTAL_BASIS_POINTS \in Nat \ {0}
  /\ Validator \subseteq Nat /\ Validator \cap Pending = {}
  /\ IsFiniteSet(Key) /\ IsFiniteSet(Operator)
  /\ OperatorOf \in [Key -> Operator]
  /\ Balance \in [Key -> Nat] /\ MaxBalance \in [Validator -> Nat \ {0}]
  /\ OnExit \subseteq Validator /\ Requested \subseteq Validator
  /\ Consolidating \subseteq Validator
  /\ \A v \in Validator : Balance[v] <= MaxBalance[v]
  /\ \A gs \in GroupSets : \A g \in gs :
       g \in Group /\ \A o \in g.internal : ModuleOf[o] = CMv2
  /\ Weights \subseteq [Operator -> Nat]
  /\ \A w \in Weights : \A o, p \in Operator :
       ModuleOf[o] # CMv2 /\ ModuleOf[p] # CMv2 => w[o] = w[p]
  /\ TargetSets \subseteq [Operator -> Target]
  /\ ExitLimits \subseteq Nat
  /\ Scale \in Nat \ {0}

\* Every division of a group's stake is exact.
ASSUME ScaleAssumption ==
  \A gs \in GroupSets, w \in Weights : \A g \in gs :
    /\ g.external # {} => Scale % Cardinality(g.external) = 0
    /\ SumFunctionOnSet(w, g.internal) # 0 => Scale % SumFunctionOnSet(w, g.internal) = 0

VARIABLES
  groups, weight, target, exitLimit,  \* what the contracts say at the reference slot
  left,     \* exitable_validators
  op,       \* node_operators_stats: validators, balance, stake, weight of an operator
  mod,      \* module_stats: balance, stake and weight of a module
  total,    \* total_lido_predictable_balance
  spent     \* max_current_exit_balance

inputVars == <<groups, weight, target, exitLimit>>
counterVars == <<left, op, mod, total, spent>>

-----------------------------------------------------------------------------
(* __iter__ *)

Exitable == Validator \ (OnExit \cup Requested \cup Consolidating)

InModule(m) == {o \in Operator : ModuleOf[o] = m}

\* The validators an operator has for the iterator when L are left.
Predictable(L, o) == {k \in L \cup Pending : OperatorOf[k] = o}

BalanceOf(S) == SumFunctionOnSet(Balance, S)

Connected == {g \in groups : g.external # {} /\ g.internal # {}}

InternalWeight(g) == SumFunctionOnSet(weight, g.internal)

\* Balance of operators O when L are left.
BalanceIn(L, O) == SumFunction([o \in O |-> BalanceOf(Predictable(L, o))])

\* What the group lets an operator answer for beyond its own balance.
Shared(L, o) ==
  SumFunction([g \in {h \in Connected : o \in h.internal} |->
                 (Scale * BalanceIn(L, g.external) * weight[o]) \div InternalWeight(g)])
  + SumFunction([g \in {h \in Connected : o \in h.external} |->
                   (Scale * BalanceIn(L, g.internal)) \div Cardinality(g.external)])

\* An external operator weighs as much as its part of the group; in units of 1/Scale.
WeightOf(o) ==
  IF \E g \in Connected : o \in g.external
    THEN LET g == CHOOSE h \in Connected : o \in h.external
         IN (Scale * InternalWeight(g)) \div Cardinality(g.external)
    ELSE Scale * weight[o]

\* What a module answers for: the other side of the groups comes on top.
SharedInModule(L, m) ==
  IF m = CMv1 THEN SumFunction([g \in Connected |-> BalanceIn(L, g.internal)])
  ELSE IF m = CMv2 THEN SumFunction([g \in Connected |-> BalanceIn(L, g.external)])
  ELSE 0

\* The counters as they are computed from the validators L.
OperatorStats(L) ==
  [o \in Operator |->
     [validators |-> Cardinality(Predictable(L, o)),
      balance    |-> BalanceOf(Predictable(L, o)),
      stake      |-> Scale * BalanceOf(Predictable(L, o)) + Shared(L, o),
      weight     |-> WeightOf(o)]]

ModuleStats(L) ==
  [m \in Module |->
     [balance |-> BalanceIn(L, InModule(m)),
      stake   |-> Scale * (BalanceIn(L, InModule(m)) + SharedInModule(L, m)),
      weight  |-> SumFunction([o \in InModule(m) |-> WeightOf(o)])]]

\* An operator of two groups, an external one of another module than CMv1 or a
\* group of weight zero ends the report with an exception.
Misconfigured ==
  \/ \E o \in Operator : \E g, h \in groups :
       /\ o \in g.external \cup g.internal /\ o \in h.external \cup h.internal
       /\ g # h \/ o \in g.external \cap g.internal
  \/ \E g \in groups : \E o \in g.external : ModuleOf[o] # CMv1
  \/ \E g \in Connected : InternalWeight(g) = 0

\* Everything is reset and counted anew.
Iterate ==
  /\ left' = Exitable
  /\ op' = OperatorStats(Exitable)
  /\ mod' = ModuleStats(Exitable)
  /\ total' = BalanceOf(Exitable \cup Pending)
  /\ spent' = 0

-----------------------------------------------------------------------------
(* __next__ *)

LeftOf(o) == {v \in left : OperatorOf[v] = o}

\* _get_expected_validators_diff.
Above(o, mode) ==
  IF target[o].mode = mode /\ op[o].validators > target[o].to
    THEN op[o].validators - target[o].to ELSE 0

\* A module above its share comes first, by its excess; then the larger module;
\* an empty one last.
ShareRate(m) ==
  LET excess == mod[m].balance - (Threshold[m] * total) \div TOTAL_BASIS_POINTS
  IN IF mod[m].balance = 0 THEN <<0, 0>>
     ELSE IF excess > 0 THEN <<2, excess>>
     ELSE <<1, mod[m].balance>>

\* The sorting key divides by the weight of every operator's module.
Unsortable == \E o \in Operator : mod[ModuleOf[o]].weight = 0

\* Stake above the operator's part of its module by weight.
Deviation(o) ==
  op[o].stake - (mod[ModuleOf[o]].stake * op[o].weight) \div mod[ModuleOf[o]].weight

\* Mutant: the shares of the modules go before the targets of the operators.
Priority_ShareFirst(o) ==
  <<ShareRate(ModuleOf[o])[1], ShareRate(ModuleOf[o])[2],
    Above(o, "force"), Above(o, "soft"),
    Deviation(o), -Min(LeftOf(o))>>

\* _no_predicate, the first exit having the greatest key.
Priority(o) ==
  <<Above(o, "force"), Above(o, "soft"),
    ShareRate(ModuleOf[o])[1], ShareRate(ModuleOf[o])[2],
    Deviation(o), -Min(LeftOf(o))>>

Precedes(p, q) ==
  \E i \in DOMAIN p : p[i] > q[i] /\ \A j \in 1..(i - 1) : p[j] = q[j]

HasLeft == {o \in Operator : LeftOf(o) # {}}

\* The lowest validator of the operator with the greatest key: a set of one, as the
\* lowest index is part of the key.
FirstOf(key) ==
  {Min(LeftOf(o)) : o \in {p \in DOMAIN key :
                             \A q \in DOMAIN key \ {p} : Precedes(key[p], key[q])}}

\* Mutant: the other side of the group keeps its stake.
Affected_OwnSideOnly(o, b) == [p \in Operator |-> IF p = o THEN Scale * b ELSE 0]

\* _decrease_affected_stake: the stake operators lose when o loses balance b.
Affected(o, b) ==
  [p \in Operator |->
     (IF p = o THEN Scale * b ELSE 0)
     + SumFunction([g \in {h \in Connected : o \in h.internal /\ p \in h.external} |->
                      (Scale * b) \div Cardinality(g.external)])
     + SumFunction([g \in {h \in Connected : o \in h.external /\ p \in h.internal} |->
                      (Scale * b * weight[p]) \div InternalWeight(g)])]

AffectedModule(o, b) ==
  [m \in Module |->
     (IF m = ModuleOf[o] THEN Scale * b ELSE 0)
     + (IF m = CMv1 /\ \E g \in Connected : o \in g.internal THEN Scale * b ELSE 0)
     + (IF m = CMv2 /\ \E g \in Connected : o \in g.external THEN Scale * b ELSE 0)]

\* _eject_validator.
Eject(v) ==
  LET o == OperatorOf[v]
      b == Balance[v]
  IN /\ left' = left \ {v}
     /\ op' = [p \in Operator |->
                 [validators |-> op[p].validators - (IF p = o THEN 1 ELSE 0),
                  balance    |-> op[p].balance - (IF p = o THEN b ELSE 0),
                  stake      |-> op[p].stake - Affected(o, b)[p],
                  weight     |-> op[p].weight]]
     /\ mod' = [m \in Module |->
                  [balance |-> mod[m].balance - (IF m = ModuleOf[o] THEN b ELSE 0),
                   stake   |-> mod[m].stake - AffectedModule(o, b)[m],
                   weight  |-> mod[m].weight]]
     /\ total' = total - b
     /\ spent' = spent + MaxBalance[v]

-----------------------------------------------------------------------------
(* get_remaining_forced_validators *)

ForcedPriority(o) == <<Above(o, "force"), -Min(LeftOf(o))>>

HasForced == {o \in HasLeft : Above(o, "force") > 0}

=============================================================================

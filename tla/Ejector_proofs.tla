--------------------------- MODULE Ejector_proofs ---------------------------
(***************************************************************************)
(* The report of the ejector for any operators, modules, validators,       *)
(* groups, weights, targets and limits; the rewards it expects, with what  *)
(* it reads of the execution layer for them, for every chain, search step  *)
(* and batch limit; and the exits it caused, as the extra data of the      *)
(* accounting report tells them, for any operators, frames and sizes of    *)
(* transactions.                                                           *)
(***************************************************************************)
EXTENDS Ejector, Prediction, ExtraData, Sums, SequenceTheorems

-----------------------------------------------------------------------------
(* Least elements and sums *)

\* The validator of the lowest index.
LEMMA MinFacts ==
  ASSUME NEW S \in SUBSET Nat, S # {}
  PROVE  Min(S) \in S
  BY LeastNat DEF Min

\* Balances are sums.
LEMMA BalanceFacts ==
  ASSUME NEW S \in SUBSET Key
  PROVE  /\ BalanceOf(S) \in Nat
         /\ \A k \in S : BalanceOf(S) = Balance[k] + BalanceOf(S \ {k})
<1>1. IsFiniteSet(S) /\ \A k \in S : Balance[k] \in Nat
  BY ExitOrderAssumption, FS_Subset
<1> QED
  BY <1>1, SumFacts DEF BalanceOf

-----------------------------------------------------------------------------
(* The prediction *)

\* The keys of every set the counters are made of are known.
LEMMA KeysKnown ==
  /\ Exitable \subseteq Validator /\ Validator \subseteq Nat /\ Validator \subseteq Key
  /\ Requested \ (OnExit \cup Consolidating) \in SUBSET Key
  /\ IsFiniteSet(Exitable)
<1>1. Exitable \in SUBSET Key
  BY DEF Exitable, Key
<1> QED
  BY <1>1, ExitOrderAssumption, FS_Subset DEF Exitable, Key

LEMMA GoingToExitType == GoingToExit \in Nat
  BY KeysKnown, BalanceFacts DEF GoingToExit

\* ExitEpoch is the first epoch whose capacity suffices.
LEMMA ExitEpochFacts ==
  ASSUME NEW x \in Nat
  PROVE  LET earliest == Max({EarliestExit, RefEpoch + SeedLookahead})
             first == IF earliest = EarliestExit THEN ChurnLeft ELSE Churn
             Capacity(e) == first + (e - earliest) * Churn
             e == ExitEpoch(x)
         IN /\ e \in Nat /\ e >= earliest /\ earliest \in Nat
            /\ Capacity(e) >= x
            /\ e > earliest => Capacity(e - 1) < x
<1> DEFINE earliest == Max({EarliestExit, RefEpoch + SeedLookahead})
           now == IF EarliestExit < earliest THEN Churn ELSE ChurnLeft
           first == IF earliest = EarliestExit THEN ChurnLeft ELSE Churn
           q == (x - now - 1) \div Churn
           e == ExitEpoch(x)
<1>1. /\ EarliestExit \in Nat /\ RefEpoch + SeedLookahead \in Nat
      /\ Churn \in Nat \ {0} /\ ChurnLeft \in Nat
  BY EjectorAssumption
<1>2. earliest \in Nat /\ earliest >= EarliestExit
<2> DEFINE b == RefEpoch + SeedLookahead
<2>1. EarliestExit \in Int /\ b \in Int
  BY <1>1
<2> HIDE DEF b
<2>2. /\ Max({EarliestExit, b}) >= EarliestExit
      /\ Max({EarliestExit, b}) = EarliestExit \/ Max({EarliestExit, b}) = b
  BY <2>1, MaxOfTwo
<2> QED
  BY <1>1, <2>2 DEF b
<1>3. e = IF x > now THEN earliest + q + 1 ELSE earliest
  BY DEF ExitEpoch
<1> HIDE DEF earliest, e
<1>4. now = first /\ now \in Nat
  BY <1>1, <1>2
<1> HIDE DEF now, first, q
<1>5. CASE x > now
<2> DEFINE y == x - now - 1
<2>1. y \in Nat
  BY <1>4, <1>5
<2>2. q = y \div Churn
  BY DEF q
<2> HIDE DEF y
<2>3. q \in Nat /\ q * Churn <= y /\ y < (q + 1) * Churn
  BY <1>1, <2>1, <2>2
<2>4. e = earliest + q + 1 /\ e \in Nat /\ e - earliest = q + 1 /\ e - 1 - earliest = q
  BY <1>2, <1>3, <1>5, <2>3
<2>5. first + (q + 1) * Churn >= x
  BY <1>1, <1>4, <2>1, <2>3 DEF y
<2>6. first + q * Churn < x
  BY <1>1, <1>4, <2>1, <2>3 DEF y
<2>7. /\ e >= earliest
      /\ first + (e - earliest) * Churn >= x
      /\ first + (e - 1 - earliest) * Churn < x
  BY <1>2, <2>3, <2>4, <2>5, <2>6
<2> QED
  BY <1>2, <2>4, <2>7 DEF earliest, e, first
<1>6. CASE ~(x > now)
<2>1. e = earliest /\ e - earliest = 0
  BY <1>2, <1>3, <1>6
<2>2. first + (e - earliest) * Churn >= x
  BY <1>1, <1>4, <1>6, <2>1
<2> QED
  BY <1>2, <2>1, <2>2 DEF earliest, e, first
<1> QED
  BY <1>5, <1>6

\* The validators on exit are worth an integer at any epoch.
LEMMA WithdrawableType ==
  ASSUME NEW epoch \in Nat
  PROVE  Withdrawable(epoch) \in Nat
<1> DEFINE f == [v \in Maturing |-> IF v.epoch <= epoch THEN v.full ELSE v.excess]
<1>1. IsFiniteSet(Maturing) /\ \A v \in Maturing : f[v] \in Nat
  BY EjectorAssumption
<1>2. DOMAIN f = Maturing /\ Withdrawable(epoch) = SumFunctionOnSet(f, DOMAIN f)
  BY DEF Withdrawable, SumFunction
<1> HIDE DEF f
<1> QED
  BY <1>1, <1>2, SumFacts

\* A balance is predicted for any exits.
LEMMA PredictionType ==
  ASSUME NEW x \in Nat
  PROVE  PredictedBalance(x) \in Int
<1> DEFINE withdrawal == ExitEpoch(GoingToExit + x) + WithdrawalDelay
           time == withdrawal + SweepEpochs - RefEpoch
<1>1. GoingToExit + x \in Nat /\ GoingToExit \in Nat
  BY GoingToExitType
<1>2. ExitEpoch(GoingToExit + x) \in Nat
  BY <1>1, ExitEpochFacts
<1>3. withdrawal \in Nat /\ time \in Int
  BY <1>2, EjectorAssumption
<1>4. PredictedBalance(x)
        = time * Rewards + Withdrawable(withdrawal) + ElBalance + GoingToExit - DepositLock(time)
  BY DEF PredictedBalance
<1> HIDE DEF withdrawal, time
<1>5. Withdrawable(withdrawal) \in Nat
  BY <1>3, WithdrawableType
<1>6. DepositLock(time) \in Int
  BY <1>3, EjectorAssumption DEF DepositLock
<1>7. time * Rewards \in Int
  BY <1>3, EjectorAssumption
<1> QED
  BY <1>1, <1>4, <1>5, <1>6, <1>7, EjectorAssumption

-----------------------------------------------------------------------------
(* What a report holds *)

\* The iterator's validators are not in the report; its balance is that of the report as
\* long as the limit was not exceeded.
ReportInv ==
  /\ target \in [Operator -> Target] /\ exitLimit \in Nat
  /\ left \in SUBSET Exitable
  /\ \A o \in Operator : op[o].validators \in Int
  /\ spent \in Nat
  /\ report \in Seq(Exitable) /\ Asked \cap left = {}
  /\ Cardinality(Asked) = Len(report)
  /\ SumFunctionOnSet(MaxBalance, Asked) <= exitLimit
  /\ spent <= exitLimit => SumFunctionOnSet(MaxBalance, Asked) = spent

\* Where the computation is.
ControlInv ==
  /\ pc \in {"start", "loop", "forced", "done", "failed"}
  /\ demand \in Nat /\ toEject \in Nat
  /\ pc = "start" => report = <<>> /\ toEject = 0 /\ left = {}

TypeInv == ReportInv /\ ControlInv

\* What is asked is exitable, and counted.
LEMMA AskedFacts ==
  ASSUME report \in Seq(Exitable)
  PROVE  /\ Asked \in SUBSET Exitable /\ IsFiniteSet(Asked)
         /\ SumFunctionOnSet(MaxBalance, Asked) \in Nat
<1>1. Asked \in SUBSET Exitable
  BY LenProperties DEF Asked
<1>2. IsFiniteSet(Asked)
  BY <1>1, KeysKnown, FS_Subset
<1>3. \A v \in Asked : MaxBalance[v] \in Nat
  BY <1>1, KeysKnown, ExitOrderAssumption
<1> QED
  BY <1>1, <1>2, <1>3, SumFacts

\* The validator that comes first is the lowest of an operator that precedes all others.
LEMMA FirstFacts ==
  ASSUME left \in SUBSET Exitable, NEW key, DOMAIN key \subseteq HasLeft,
         NEW v \in FirstOf(key)
  PROVE  /\ v \in left /\ v \in Exitable /\ OperatorOf[v] \in DOMAIN key
         /\ \A q \in DOMAIN key \ {OperatorOf[v]} : Precedes(key[OperatorOf[v]], key[q])
<1>1. PICK o \in DOMAIN key : /\ v = Min(LeftOf(o))
                              /\ \A q \in DOMAIN key \ {o} : Precedes(key[o], key[q])
  BY DEF FirstOf
<1>2. LeftOf(o) \in SUBSET Nat /\ LeftOf(o) # {}
  BY KeysKnown DEF HasLeft, LeftOf
<1>3. v \in LeftOf(o)
  BY <1>1, <1>2, MinFacts
<1> QED
  BY <1>1, <1>3 DEF LeftOf

\* The next state's sum is that of the validators asked by then.
LEMMA SumOfAskedNext == SumFunctionOnSet(MaxBalance, Asked)' = SumFunctionOnSet(MaxBalance, Asked')
  BY DEF SumFunctionOnSet, FoldFunctionOnSet, MapThenFoldSet

\* Taking a validator from the iterator, into the report or as the one that does not fit.
LEMMA EjectKeepsReport ==
  ASSUME ReportInv, NEW v \in left, Eject(v), UNCHANGED inputVars,
         \/ spent' > exitLimit /\ UNCHANGED report
         \/ ~(spent' > exitLimit) /\ report' = Append(report, v)
  PROVE  ReportInv'
<1>1. v \in Exitable /\ MaxBalance[v] \in Nat /\ spent' = spent + MaxBalance[v]
  BY KeysKnown, ExitOrderAssumption DEF ReportInv, Eject
<1>2. /\ target' \in [Operator -> Target] /\ exitLimit' = exitLimit /\ exitLimit \in Nat
      /\ left' = left \ {v} /\ left' \in SUBSET Exitable
      /\ spent' \in Nat /\ spent \in Nat /\ spent <= spent'
  BY <1>1 DEF ReportInv, Eject, inputVars
<1>3. \A o \in Operator : op'[o].validators \in Int
<2>1. ASSUME NEW o \in Operator PROVE op'[o].validators \in Int
<3>1. op'[o].validators = op[o].validators - IF o = OperatorOf[v] THEN 1 ELSE 0
  BY DEF Eject
<3>2. op[o].validators \in Int
  BY DEF ReportInv
<3> QED
  BY <3>1, <3>2
<2> QED
  BY <2>1
<1>4. /\ Asked \in SUBSET Exitable /\ IsFiniteSet(Asked) /\ SumFunctionOnSet(MaxBalance, Asked) \in Nat
      /\ v \notin Asked
  BY AskedFacts DEF ReportInv
<1>5. CASE spent' > exitLimit /\ UNCHANGED report
<2>1. Asked' = Asked
  BY <1>5 DEF Asked
<2>2. SumFunctionOnSet(MaxBalance, Asked)' = SumFunctionOnSet(MaxBalance, Asked)
  BY <2>1, SumOfAskedNext
<2>3. ~(spent' <= exitLimit')
  BY <1>2, <1>5
<2> QED
  BY <1>2, <1>3, <1>5, <2>1, <2>2, <2>3 DEF ReportInv
<1>6. CASE ~(spent' > exitLimit) /\ report' = Append(report, v)
<2>1. /\ report' \in Seq(Exitable) /\ Len(report') = Len(report) + 1
      /\ Asked' = Asked \cup {v}
<3>1. report \in Seq(Exitable)
  BY DEF ReportInv
<3>2. /\ report' \in Seq(Exitable) /\ Len(report') = Len(report) + 1 /\ Len(report) \in Nat
      /\ \A i \in 1 .. Len(report) : report'[i] = report[i]
      /\ report'[Len(report) + 1] = v
  BY <1>1, <1>6, <3>1, AppendProperties, LenProperties
<3>3. DOMAIN report = 1 .. Len(report) /\ DOMAIN report' = 1 .. Len(report) + 1
  BY <3>1, <3>2, LenProperties
<3>4. ASSUME NEW w PROVE w \in Asked' <=> w \in Asked \cup {v}
  BY <3>2, <3>3 DEF Asked
<3> QED
  BY <3>2, <3>4
<2>2. Cardinality(Asked') = Len(report')
  BY <1>4, <2>1, FS_AddElement DEF ReportInv
<2>3. SumFunctionOnSet(MaxBalance, Asked') = MaxBalance[v] + SumFunctionOnSet(MaxBalance, Asked)
<3> DEFINE S == Asked \cup {v}
<3>1. IsFiniteSet(S) /\ v \in S /\ S \ {v} = Asked
  BY <1>4, FS_AddElement
<3>2. \A x \in S : MaxBalance[x] \in Nat
  BY <1>1, <1>4, KeysKnown, ExitOrderAssumption
<3> HIDE DEF S
<3>3. SumFunctionOnSet(MaxBalance, S) = MaxBalance[v] + SumFunctionOnSet(MaxBalance, S \ {v})
  BY <3>1, <3>2, SumFacts
<3> QED
  BY <2>1, <3>1, <3>3 DEF S
<2>4. SumFunctionOnSet(MaxBalance, Asked') = spent' /\ spent' <= exitLimit'
  BY <1>1, <1>2, <1>6, <2>3 DEF ReportInv
<2>5. SumFunctionOnSet(MaxBalance, Asked)' = SumFunctionOnSet(MaxBalance, Asked')
  BY SumOfAskedNext
<2>6. Asked' \cap left' = {}
  BY <1>2, <2>1 DEF ReportInv
<2> QED
  BY <1>2, <1>3, <2>1, <2>2, <2>4, <2>5, <2>6 DEF ReportInv
<1> QED
  BY <1>5, <1>6

\* An operator's validators can be counted.
LEMMA PredictableCounted ==
  ASSUME NEW L \in SUBSET Exitable, NEW o
  PROVE  /\ IsFiniteSet(Predictable(L, o)) /\ Cardinality(Predictable(L, o)) \in Nat
         /\ Predictable(L, o) \in SUBSET Key
<1>1. Predictable(L, o) \in SUBSET Key
  BY KeysKnown DEF Predictable, Key
<1> QED
  BY <1>1, ExitOrderAssumption, FS_Subset, FS_CardinalityType

\* Nothing is asked before the start.
LEMMA NothingAsked ==
  ASSUME report = <<>>
  PROVE  Asked = {} /\ Cardinality(Asked) = 0 /\ SumFunctionOnSet(MaxBalance, Asked) = 0
<1>1. Asked = {}
  BY DEF Asked
<1>2. IsFiniteSet({}) /\ Cardinality({}) = 0 /\ \A x \in {} : MaxBalance[x] \in Nat
  BY FS_EmptySet
<1>3. SumFunctionOnSet(MaxBalance, {}) = 0
  BY <1>2, SumFacts
<1> QED
  BY <1>1, <1>2, <1>3

LEMMA EjectorInit == Init => TypeInv
<1> SUFFICES ASSUME Init PROVE TypeInv
  OBVIOUS
<1>1. report = <<>> /\ left = {} /\ spent = 0 /\ toEject = 0 /\ pc = "start"
  BY DEF Init
<1>2. Asked = {} /\ Cardinality(Asked) = 0 /\ SumFunctionOnSet(MaxBalance, Asked) = 0
  BY <1>1, NothingAsked
<1>3. report \in Seq(Exitable) /\ Len(report) = 0
  BY <1>1, EmptySeq
<1>4. /\ target \in [Operator -> Target] /\ exitLimit \in Nat /\ demand \in Nat
      /\ \A o \in Operator : op[o].validators = 0
  BY ExitOrderAssumption, EjectorAssumption DEF Init
<1> QED
  BY <1>1, <1>2, <1>3, <1>4 DEF TypeInv, ReportInv, ControlInv

\* The iterator starts on all that can exit, before anything is asked.
LEMMA IterateKeepsReport ==
  ASSUME ReportInv, report = <<>>, Iterate, UNCHANGED <<inputVars, report>>
  PROVE  ReportInv'
<1>1. /\ target' \in [Operator -> Target] /\ exitLimit' \in Nat /\ report' = <<>>
      /\ left' = Exitable /\ spent' = 0
  BY DEF ReportInv, Iterate, inputVars
<1>2. ASSUME NEW o \in Operator PROVE op'[o].validators \in Int
<2>1. op'[o].validators = Cardinality(Predictable(Exitable, o))
  BY DEF Iterate, OperatorStats
<2>2. Exitable \in SUBSET Exitable
  OBVIOUS
<2>3. Cardinality(Predictable(Exitable, o)) \in Nat
  BY <2>2, PredictableCounted, Zenon
<2> QED
  BY <2>1, <2>3
<1>3. Asked = {} /\ Cardinality(Asked) = 0 /\ SumFunctionOnSet(MaxBalance, Asked) = 0
  BY NothingAsked
<1>4. Asked' = Asked /\ SumFunctionOnSet(MaxBalance, Asked)' = SumFunctionOnSet(MaxBalance, Asked)
<2>1. Asked' = Asked
  BY DEF Asked
<2> QED
  BY <2>1, SumOfAskedNext
<1>5. report' \in Seq(Exitable) /\ Len(report') = 0
  BY <1>1, EmptySeq
<1> QED
  BY <1>1, <1>2, <1>3, <1>4, <1>5 DEF ReportInv

\* Only the iterator and the report matter to what the report holds.
LEMMA ReportUntouched ==
  ASSUME ReportInv, UNCHANGED <<inputVars, counterVars, report>>
  PROVE  ReportInv'
<1>1. Asked' = Asked
  BY DEF Asked
<1>2. SumFunctionOnSet(MaxBalance, Asked)' = SumFunctionOnSet(MaxBalance, Asked)
  BY <1>1, SumOfAskedNext
<1> QED
  BY <1>1, <1>2 DEF ReportInv, inputVars, counterVars

\* Which validator the demand or a forced exit takes.
LEMMA NextFacts ==
  ASSUME TypeInv, NextValidator
  PROVE  \E v \in left :
           /\ v \in FirstOf([o \in HasLeft |-> Priority(o)])
           /\ Eject(v) /\ UNCHANGED <<inputVars, demand>>
           /\ \/ /\ spent' > exitLimit /\ UNCHANGED <<report, toEject>> /\ pc' = "forced"
              \/ /\ ~(spent' > exitLimit) /\ report' = Append(report, v)
                 /\ toEject' = toEject + Balance[v]
                 /\ predicted' = PredictedBalance(toEject')
                 /\ pc' = IF predicted' + toEject' >= demand THEN "forced" ELSE "loop"
<1>1. PICK v \in FirstOf([o \in HasLeft |-> Priority(o)]) :
        /\ Eject(v) /\ UNCHANGED <<inputVars, demand>>
        /\ \/ /\ spent' > exitLimit /\ UNCHANGED <<report, toEject>> /\ pc' = "forced"
           \/ /\ ~(spent' > exitLimit) /\ report' = Append(report, v)
              /\ toEject' = toEject + Balance[v]
              /\ predicted' = PredictedBalance(toEject')
              /\ pc' = IF predicted' + toEject' >= demand THEN "forced" ELSE "loop"
  BY Zenon DEF NextValidator
<1>2. DOMAIN [o \in HasLeft |-> Priority(o)] \subseteq HasLeft
  OBVIOUS
<1>3. left \in SUBSET Exitable
  BY DEF TypeInv, ReportInv
<1>4. v \in left
  BY <1>1, <1>2, <1>3, FirstFacts, Zenon
<1> QED
  BY <1>1, <1>4, Zenon

LEMMA ForcedFacts ==
  ASSUME TypeInv, RemainingForced
  PROVE  \E v \in left :
           /\ v \in FirstOf([o \in HasForced |-> ForcedPriority(o)])
           /\ Eject(v) /\ UNCHANGED <<inputVars, demand, toEject, predicted>>
           /\ pc = "forced"
           /\ \/ spent' > exitLimit /\ UNCHANGED report /\ pc' = "done"
              \/ ~(spent' > exitLimit) /\ report' = Append(report, v) /\ pc' = pc
<1>1. PICK v \in FirstOf([o \in HasForced |-> ForcedPriority(o)]) :
        /\ Eject(v) /\ UNCHANGED <<inputVars, demand, toEject, predicted>>
        /\ pc = "forced"
        /\ \/ spent' > exitLimit /\ UNCHANGED report /\ pc' = "done"
           \/ ~(spent' > exitLimit) /\ report' = Append(report, v) /\ pc' = pc
  BY Zenon DEF RemainingForced
<1>2. DOMAIN [o \in HasForced |-> ForcedPriority(o)] \subseteq HasLeft
  BY DEF HasForced
<1>3. left \in SUBSET Exitable
  BY DEF TypeInv, ReportInv
<1>4. v \in left
  BY <1>1, <1>2, <1>3, FirstFacts, Zenon
<1> QED
  BY <1>1, <1>4, Zenon

LEMMA EjectorStep == TypeInv /\ [Next]_vars => TypeInv'
<1> SUFFICES ASSUME TypeInv, [Next]_vars PROVE TypeInv'
  OBVIOUS
<1> USE DEF TypeInv
<1>1. CASE Start
<2>1. /\ pc = "start" /\ UNCHANGED <<inputVars, demand, toEject, report>>
      /\ pc' \in {"failed", "loop", "forced"}
      /\ UNCHANGED counterVars \/ Iterate
  BY <1>1 DEF Start
<2>2. report = <<>>
  BY <2>1 DEF ControlInv
<2>3. ReportInv'
  BY <2>1, <2>2, IterateKeepsReport, ReportUntouched
<2>4. ControlInv'
  BY <2>1 DEF ControlInv
<2> QED
  BY <2>3, <2>4
<1>2. ASSUME UNCHANGED <<inputVars, counterVars, demand, toEject, report>>,
             pc' \in {"loop", "forced", "done", "failed"}
      PROVE  TypeInv'
<2>1. ReportInv'
  BY <1>2, ReportUntouched
<2> QED
  BY <1>2, <2>1 DEF ControlInv
<1>3. CASE NextValidator
<2>1. PICK v \in left :
           /\ Eject(v) /\ UNCHANGED <<inputVars, demand>>
           /\ pc' \in {"loop", "forced"}
           /\ \/ spent' > exitLimit /\ UNCHANGED <<report, toEject>>
              \/ /\ ~(spent' > exitLimit) /\ report' = Append(report, v)
                 /\ toEject' = toEject + Balance[v]
  BY <1>3, NextFacts
<2>2. ReportInv'
  BY <2>1, EjectKeepsReport
<2>3. Balance[v] \in Nat
  BY KeysKnown, ExitOrderAssumption DEF ReportInv
<2>4. toEject' \in Nat
  BY <2>1, <2>3 DEF ControlInv
<2> QED
  BY <2>1, <2>2, <2>4 DEF ControlInv
<1>4. CASE RemainingForced
<2>1. PICK v \in left :
           /\ Eject(v) /\ UNCHANGED <<inputVars, demand, toEject>>
           /\ pc' \in {"done", "forced"}
           /\ \/ spent' > exitLimit /\ UNCHANGED report
              \/ ~(spent' > exitLimit) /\ report' = Append(report, v)
  BY <1>4, ForcedFacts
<2>2. ReportInv'
  BY <2>1, EjectKeepsReport
<2> QED
  BY <2>1, <2>2 DEF ControlInv
<1>5. CASE CannotSort
  BY <1>2, <1>5 DEF CannotSort
<1>6. CASE NoneLeft
  BY <1>2, <1>6 DEF NoneLeft
<1>7. CASE NoForcedLeft
  BY <1>2, <1>7 DEF NoForcedLeft
<1>8. CASE UNCHANGED vars
<2>1. UNCHANGED <<inputVars, counterVars, demand, toEject, report, pc>>
  BY <1>8 DEF vars, inputVars, counterVars
<2>2. ReportInv'
  BY <2>1, ReportUntouched
<2> QED
  BY <2>1, <2>2 DEF ControlInv, counterVars
<1> QED
  BY <1>1, <1>3, <1>4, <1>5, <1>6, <1>7, <1>8 DEF Next

\* Whatever is asked to exit passes the sanity checker, for every limit, demand and mix of
\* exits (get_validators_to_eject, get_remaining_forced_validators).
THEOREM ReportPassesTheLimit == Spec => []ReportFitsLimit
<1>1. ASSUME ReportInv PROVE ReportFitsLimit
<2>1. Asked \in SUBSET Exitable
  BY <1>1, AskedFacts DEF ReportInv
<2> QED
  BY <1>1, <2>1, Zenon DEF ReportFitsLimit, ReportInv
<1>2. TypeInv => ReportFitsLimit
  BY <1>1 DEF TypeInv
<1> QED
  BY <1>2, EjectorInit, EjectorStep, PTL DEF Spec

\* Whatever the churn limit and the queue are, the epoch predicted for the exits is the
\* first by which they fit (compute_exit_epoch_and_update_churn).
THEOREM FirstEpochIsPredicted == Spec => []ExitEpochIsFirst
<1>1. ASSUME ControlInv PROVE ExitEpochIsFirst
<2>1. GoingToExit + toEject \in Nat
  BY <1>1, GoingToExitType DEF ControlInv
<2> QED
  BY <2>1, ExitEpochFacts DEF ExitEpochIsFirst
<1>2. TypeInv => ExitEpochIsFirst
  BY <1>1 DEF TypeInv
<1> QED
  BY <1>2, EjectorInit, EjectorStep, PTL DEF Spec

-----------------------------------------------------------------------------
(* Nothing is left out *)

\* The prediction is of the reference slot: it does not change but with what is asked.
LEMMA PredictedBalanceStep ==
  /\ PredictedBalance(toEject)' = PredictedBalance(toEject')
  /\ PredictedBalance(0)' = PredictedBalance(0)
  BY DEF PredictedBalance, ExitEpoch, GoingToExit, Withdrawable, DepositLock, BalanceOf,
         SumFunction, SumFunctionOnSet, FoldFunctionOnSet, MapThenFoldSet

\* What holds of a complete report, where the computation is.
CompleteInv == TypeInv /\ ReportIsComplete

\* Taking a validator, nothing comes back.
LEMMA EjectLeavesLess ==
  ASSUME ReportInv, NEW v \in left, Eject(v), UNCHANGED inputVars
  PROVE  /\ LimitReached => LimitReached'
         /\ HasLeft = {} => HasLeft' = {}
<1>1. MaxBalance[v] \in Nat /\ spent \in Nat /\ exitLimit \in Nat
  BY KeysKnown, ExitOrderAssumption DEF ReportInv
<1>2. /\ spent' = spent + MaxBalance[v] /\ exitLimit' = exitLimit
      /\ left' \subseteq left
  BY DEF Eject, inputVars
<1>3. LimitReached => LimitReached'
  BY <1>1, <1>2 DEF LimitReached
<1>4. HasLeft = {} => HasLeft' = {}
  BY <1>2 DEF HasLeft, LeftOf
<1> QED
  BY <1>3, <1>4

LEMMA CompleteStep == CompleteInv /\ [Next]_vars => CompleteInv'
<1> SUFFICES ASSUME CompleteInv, [Next]_vars PROVE CompleteInv'
  OBVIOUS
<1>0. TypeInv'
  BY EjectorStep DEF CompleteInv
<1>1. ASSUME pc' \notin {"forced", "done"} PROVE CompleteInv'
  BY <1>0, <1>1 DEF CompleteInv, ReportIsComplete, DemandIsCovered, ForcedExitsAreAsked
<1>2. CASE Start
<2>1. CASE pc' = "forced"
<3>1. /\ demand = 0 \/ ~(demand > predicted')
      /\ predicted' = PredictedBalance(0) /\ toEject' = 0 /\ demand' = demand
      /\ demand \in Nat
  BY <1>2, <2>1, Zenon DEF Start, CompleteInv, TypeInv, ControlInv
<3>2. predicted' \in Int
  BY <3>1, PredictionType
<3>3. demand' = 0 \/ demand' <= PredictedBalance(toEject') + toEject'
  BY <3>1, <3>2
<3> QED
  BY <1>0, <2>1, <3>3, PredictedBalanceStep
     DEF CompleteInv, ReportIsComplete, DemandIsCovered, ForcedExitsAreAsked
<2>2. CASE pc' # "forced"
  BY <1>1, <1>2, <2>2 DEF Start
<2> QED
  BY <2>1, <2>2
<1>3. CASE CannotSort
  BY <1>1, <1>3 DEF CannotSort
<1>4. CASE NoneLeft
<2>1. HasLeft' = {} /\ pc' = "forced"
  BY <1>4 DEF NoneLeft, HasLeft, LeftOf, counterVars
<2> QED
  BY <1>0, <2>1 DEF CompleteInv, ReportIsComplete, DemandIsCovered, ForcedExitsAreAsked
<1>5. CASE NextValidator
<2>1. PICK v \in left :
           /\ UNCHANGED <<inputVars, demand>>
           /\ \/ spent' > exitLimit /\ pc' = "forced"
              \/ /\ toEject' = toEject + Balance[v]
                 /\ predicted' = PredictedBalance(toEject')
                 /\ pc' = IF predicted' + toEject' >= demand THEN "forced" ELSE "loop"
  BY <1>5, NextFacts DEF CompleteInv
<2>2. CASE spent' > exitLimit /\ pc' = "forced"
  BY <1>0, <2>1, <2>2 DEF CompleteInv, ReportIsComplete, DemandIsCovered,
                          ForcedExitsAreAsked, LimitReached, inputVars
<2>3. CASE /\ predicted' = PredictedBalance(toEject')
           /\ pc' = IF predicted' + toEject' >= demand THEN "forced" ELSE "loop"
<3>1. CASE pc' = "forced"
<4>1. toEject' \in Nat /\ demand \in Nat /\ demand' = demand
  BY <1>0, <2>1 DEF CompleteInv, TypeInv, ControlInv
<4>2. PredictedBalance(toEject') \in Int
  BY <4>1, PredictionType
<4>3. demand' <= PredictedBalance(toEject') + toEject'
  BY <2>3, <3>1, <4>1, <4>2
<4> QED
  BY <1>0, <3>1, <4>3, PredictedBalanceStep
     DEF CompleteInv, ReportIsComplete, DemandIsCovered, ForcedExitsAreAsked
<3>2. CASE pc' # "forced"
  BY <1>1, <2>3, <3>2
<3> QED
  BY <3>1, <3>2
<2> QED
  BY <2>1, <2>2, <2>3
<1>6. CASE RemainingForced
<2>1. PICK v \in left :
           /\ Eject(v) /\ UNCHANGED <<inputVars, demand, toEject>>
           /\ pc = "forced"
           /\ spent' > exitLimit \/ pc' = pc
  BY <1>6, ForcedFacts DEF CompleteInv
<2>2. (LimitReached => LimitReached') /\ (HasLeft = {} => HasLeft' = {})
  BY <2>1, EjectLeavesLess DEF CompleteInv, TypeInv
<2>3. DemandIsCovered'
  BY <2>1, <2>2, PredictedBalanceStep DEF CompleteInv, ReportIsComplete, DemandIsCovered
<2>4. ForcedExitsAreAsked'
  BY <2>1 DEF ForcedExitsAreAsked, LimitReached, inputVars
<2> QED
  BY <1>0, <2>3, <2>4 DEF CompleteInv, ReportIsComplete
<1>7. CASE NoForcedLeft
<2>1. HasForced' = {} /\ HasLeft' = HasLeft /\ LimitReached' = LimitReached /\ pc = "forced"
  BY <1>7 DEF NoForcedLeft, HasForced, HasLeft, LeftOf, Above, LimitReached,
              counterVars, inputVars
<2>2. DemandIsCovered'
  BY <1>7, <2>1, PredictedBalanceStep
     DEF CompleteInv, ReportIsComplete, DemandIsCovered, NoForcedLeft
<2> QED
  BY <1>0, <2>1, <2>2 DEF CompleteInv, ReportIsComplete, ForcedExitsAreAsked
<1>8. CASE UNCHANGED vars
<2>1. HasForced' = HasForced /\ HasLeft' = HasLeft /\ LimitReached' = LimitReached
  BY <1>8 DEF HasForced, HasLeft, LeftOf, Above, LimitReached, vars
<2>2. pc' = pc /\ demand' = demand /\ toEject' = toEject
  BY <1>8 DEF vars
<2> QED
  BY <1>0, <2>1, <2>2, PredictedBalanceStep
     DEF CompleteInv, ReportIsComplete, DemandIsCovered, ForcedExitsAreAsked
<1> QED
  BY <1>2, <1>3, <1>4, <1>5, <1>6, <1>7, <1>8 DEF Next

\* No report is short: for every demand and every prediction of what comes in, a report that
\* leaves withdrawal requests uncovered has reached the limit or asks for all there
\* is, and no forced exit is left out but for the limit (get_validators_to_eject).
THEOREM NothingIsLeftOut == Spec => []ReportIsComplete
<1>1. Init => CompleteInv
  BY EjectorInit DEF Init, CompleteInv, ReportIsComplete, DemandIsCovered, ForcedExitsAreAsked
<1>2. CompleteInv => ReportIsComplete
  BY DEF CompleteInv
<1> QED
  BY <1>1, <1>2, CompleteStep, PTL DEF Spec

-----------------------------------------------------------------------------
(* Targets come first *)

\* How far an operator is above its target, of either kind.
Excess(o) == Above(o, "force") + Above(o, "soft")

LEMMA ExcessFacts ==
  ASSUME ReportInv, NEW o \in Operator
  PROVE  /\ Above(o, "force") \in Nat /\ Above(o, "soft") \in Nat
         /\ Excess(o) > 0 <=> Above(o, "force") > 0 \/ Above(o, "soft") > 0
         /\ Excess(o) > 0 => /\ target[o].mode # "none" /\ op[o].validators \in Int
                             /\ target[o].to \in Nat
                             /\ op[o].validators - 1 >= target[o].to
<1>1. op[o].validators \in Int /\ target[o].to \in Nat
  BY DEF ReportInv, Target
<1>2. \A mode : /\ Above(o, mode) \in Nat
                /\ Above(o, mode) > 0 => /\ target[o].mode = mode
                                         /\ op[o].validators > target[o].to
  BY <1>1 DEF Above
<1>3. Above(o, "force") \in Nat /\ Above(o, "soft") \in Nat
  BY <1>2
<1>4. Excess(o) > 0 <=> Above(o, "force") > 0 \/ Above(o, "soft") > 0
  BY <1>3 DEF Excess
<1>5. ASSUME Excess(o) > 0
      PROVE  target[o].mode # "none" /\ op[o].validators - 1 >= target[o].to
  BY <1>1, <1>2, <1>4, <1>5
<1> QED
  BY <1>1, <1>3, <1>4, <1>5

\* An operator above its target precedes none but operators above theirs.
LEMMA TargetsPrecede ==
  ASSUME ReportInv, NEW o \in Operator, NEW p \in Operator,
         Precedes(Priority(o), Priority(p)), Excess(p) > 0
  PROVE  Excess(o) > 0
<1>1. PICK i \in 1 .. 6 : /\ Priority(o)[i] > Priority(p)[i]
                          /\ \A j \in 1 .. i - 1 : Priority(o)[j] = Priority(p)[j]
  BY DEF Precedes, Priority
<1>2. /\ Priority(o)[1] = Above(o, "force") /\ Priority(o)[2] = Above(o, "soft")
      /\ Priority(p)[1] = Above(p, "force") /\ Priority(p)[2] = Above(p, "soft")
  BY DEF Priority
<1>3. /\ Above(o, "force") \in Nat /\ Above(o, "soft") \in Nat
      /\ Above(p, "force") \in Nat /\ Above(p, "soft") \in Nat
  BY ExcessFacts
<1>4. \/ Above(o, "force") > Above(p, "force")
      \/ Above(o, "soft") > Above(p, "soft")
      \/ Above(o, "force") = Above(p, "force") /\ Above(o, "soft") = Above(p, "soft")
<2>1. CASE i = 1
  BY <1>1, <1>2, <2>1
<2>2. CASE i = 2
  BY <1>1, <1>2, <2>2
<2>3. CASE i > 2
  BY <1>1, <1>2, <2>3
<2> QED
  BY <2>1, <2>2, <2>3
<1> QED
  BY <1>3, <1>4, ExcessFacts

\* Exits that went to operators with a target alone, and not below it.
TargetsKept ==
  \A v \in Asked :
    /\ target[OperatorOf[v]].mode # "none"
    /\ op[OperatorOf[v]].validators >= target[OperatorOf[v]].to

TargetsInv == TypeInv /\ TargetsComeFirst

\* An operator above its target when v is taken was above it before, and so was v's.
LEMMA EjectKeepsTargets ==
  ASSUME TypeInv, TargetsComeFirst, NEW v \in left, Eject(v), UNCHANGED inputVars,
         UNCHANGED report \/ report' = Append(report, v),
         OperatorOf[v] \in Operator,
         \A p \in HasLeft : Excess(p) > 0 => Excess(OperatorOf[v]) > 0,
         TypeInv'
  PROVE  TargetsComeFirst'
<1> DEFINE o == OperatorOf[v]
<1>1. SUFFICES ASSUME NEW p \in Operator, p \in HasLeft', Excess(p)' > 0,
                      NEW w \in Asked'
               PROVE  /\ target'[OperatorOf[w]].mode # "none"
                      /\ op'[OperatorOf[w]].validators >= target'[OperatorOf[w]].to
  BY DEF TargetsComeFirst, HasLeft, Excess
<1>2. /\ \A x \in Operator : op'[x].validators = op[x].validators - IF x = o THEN 1 ELSE 0
      /\ target' = target /\ left' \subseteq left
  BY DEF Eject, inputVars
<1>3. \A x \in Operator : op[x].validators \in Int /\ target[x].to \in Nat
  BY DEF TypeInv, ReportInv, Target
<1>4. p \in HasLeft
  BY <1>1, <1>2 DEF HasLeft, LeftOf
<1>5. Excess(p) > 0
<2>1. ReportInv /\ ReportInv'
  BY DEF TypeInv
<2>2. PICK m \in {"force", "soft"} : target[p].mode = m /\ op'[p].validators > target[p].to
  BY <1>1, <1>2, <1>3 DEF Excess, Above
<2>3. op[p].validators > target[p].to
  BY <1>2, <1>3, <2>2
<2>4. Above(p, m) > 0
  BY <1>3, <2>2, <2>3 DEF Above
<2> QED
  BY <2>1, <2>4, ExcessFacts
<1>6. /\ target[o].mode # "none" /\ op[o].validators - 1 >= target[o].to
  BY <1>4, <1>5, ExcessFacts DEF TypeInv
<1>7. TargetsKept
  BY <1>4, <1>5 DEF TargetsComeFirst, TargetsKept, Excess
<1>8. Asked' \subseteq Asked \cup {v}
<2>1. CASE UNCHANGED report
  BY <2>1 DEF Asked
<2>2. CASE report' = Append(report, v)
<3>1. report \in Seq(Exitable) /\ v \in Exitable
  BY DEF TypeInv, ReportInv
<3>2. /\ Len(report') = Len(report) + 1 /\ Len(report) \in Nat
      /\ \A i \in 1 .. Len(report) : report'[i] = report[i]
      /\ report'[Len(report) + 1] = v
  BY <2>2, <3>1, AppendProperties, LenProperties
<3>3. DOMAIN report = 1 .. Len(report) /\ DOMAIN report' = 1 .. Len(report) + 1
  BY <2>2, <3>1, <3>2, AppendProperties, LenProperties
<3> QED
  BY <3>2, <3>3 DEF Asked
<2> QED
  BY <2>1, <2>2
<1>9. OperatorOf[w] \in Operator
<2>1. w \in Key
  BY KeysKnown, AskedFacts, <1>8 DEF TypeInv, ReportInv
<2> QED
  BY <2>1, ExitOrderAssumption
<1>10. CASE OperatorOf[w] = o
  BY <1>2, <1>3, <1>6, <1>9, <1>10
<1>11. CASE OperatorOf[w] # o
<2>1. w \in Asked
  BY <1>8, <1>11
<2> QED
  BY <1>2, <1>3, <1>7, <1>9, <1>11, <2>1 DEF TargetsKept
<1> QED
  BY <1>10, <1>11

\* The operator that comes first is above its target if any is.
LEMMA FirstIsAbove ==
  ASSUME ReportInv, NEW v \in FirstOf([o \in HasLeft |-> Priority(o)]),
         NEW p \in HasLeft, Excess(p) > 0
  PROVE  Excess(OperatorOf[v]) > 0
<1> DEFINE key == [o \in HasLeft |-> Priority(o)]
           o == OperatorOf[v]
<1>1. /\ o \in HasLeft
      /\ \A q \in HasLeft \ {o} : Precedes(key[o], key[q])
<2>1. DOMAIN key = HasLeft /\ left \in SUBSET Exitable
  BY DEF ReportInv
<2> QED
  BY <2>1, FirstFacts, Zenon
<1>2. CASE p = o
  BY <1>2
<1>3. CASE p # o
<2>1. Precedes(Priority(o), Priority(p))
  BY <1>1, <1>3
<2>2. o \in Operator /\ p \in Operator
  BY <1>1 DEF HasLeft
<2> QED
  BY <2>1, <2>2, TargetsPrecede
<1> QED
  BY <1>2, <1>3

LEMMA TargetsStep == TargetsInv /\ [Next]_vars => TargetsInv'
<1> SUFFICES ASSUME TargetsInv, [Next]_vars PROVE TargetsInv'
  OBVIOUS
<1>0. TypeInv /\ TypeInv' /\ ReportInv
  BY EjectorStep DEF TargetsInv, TypeInv
<1>1. ASSUME UNCHANGED <<inputVars, counterVars, report>> PROVE TargetsInv'
<2>1. UNCHANGED <<target, op, left, report>>
  BY <1>1 DEF inputVars, counterVars
<2> QED
  BY <1>0, <2>1 DEF TargetsInv, TargetsComeFirst, HasLeft, LeftOf, Asked, Above
<1>2. ASSUME NEW v \in left PROVE OperatorOf[v] \in Operator
  BY <1>0, KeysKnown, ExitOrderAssumption DEF ReportInv
<1>3. CASE Start
<2>1. report' = <<>>
  BY <1>0, <1>3 DEF Start, TypeInv, ControlInv
<2>2. Asked' = {}
  BY <2>1 DEF Asked
<2> QED
  BY <1>0, <2>2 DEF TargetsInv, TargetsComeFirst
<1>4. CASE NextValidator
<2>1. PICK v \in left :
        /\ v \in FirstOf([o \in HasLeft |-> Priority(o)])
        /\ Eject(v) /\ UNCHANGED inputVars
        /\ UNCHANGED report \/ report' = Append(report, v)
  BY <1>0, <1>4, NextFacts
<2>2. \A p \in HasLeft : Excess(p) > 0 => Excess(OperatorOf[v]) > 0
  BY <1>0, <2>1, FirstIsAbove
<2>3. TargetsComeFirst'
  BY <1>0, <1>2, <2>1, <2>2, EjectKeepsTargets DEF TargetsInv
<2> QED
  BY <1>0, <2>3 DEF TargetsInv
<1>5. CASE RemainingForced
<2>1. PICK v \in left :
        /\ v \in FirstOf([o \in HasForced |-> ForcedPriority(o)])
        /\ Eject(v) /\ UNCHANGED inputVars
        /\ UNCHANGED report \/ report' = Append(report, v)
  BY <1>0, <1>5, ForcedFacts
<2>2. OperatorOf[v] \in HasForced
<3> DEFINE key == [o \in HasForced |-> ForcedPriority(o)]
<3>1. DOMAIN key = HasForced /\ HasForced \subseteq HasLeft /\ left \in SUBSET Exitable
  BY <1>0 DEF HasForced, ReportInv
<3> QED
  BY <2>1, <3>1, FirstFacts, Zenon
<2>3. Excess(OperatorOf[v]) > 0
  BY <1>0, <1>2, <2>2, ExcessFacts DEF HasForced
<2>4. TargetsComeFirst'
  BY <1>0, <1>2, <2>1, <2>3, EjectKeepsTargets DEF TargetsInv
<2> QED
  BY <1>0, <2>4 DEF TargetsInv
<1>6. CASE CannotSort
  BY <1>1, <1>6 DEF CannotSort
<1>7. CASE NoneLeft
  BY <1>1, <1>7 DEF NoneLeft
<1>8. CASE NoForcedLeft
  BY <1>1, <1>8 DEF NoForcedLeft
<1>9. CASE UNCHANGED vars
  BY <1>1, <1>9 DEF vars, inputVars, counterVars
<1> QED
  BY <1>3, <1>4, <1>5, <1>6, <1>7, <1>8, <1>9 DEF Next

\* As long as an operator above its target has a validator left, none but operators with a
\* target are asked, and none below it, however the shares and stakes lie (_no_predicate).
THEOREM TargetsOutrankShares == Spec => []TargetsComeFirst
<1>1. Init => TargetsInv
<2>1. Init => HasLeft = {}
  BY DEF Init, HasLeft, LeftOf
<2> QED
  BY <2>1, EjectorInit DEF TargetsInv, TargetsComeFirst
<1>2. TargetsInv => TargetsComeFirst
  BY DEF TargetsInv
<1> QED
  BY <1>1, <1>2, TargetsStep, PTL DEF Spec

-----------------------------------------------------------------------------
(* The counters *)

\* The operators of ExitOrder that depend on groups and weights, by these: an action does
\* not change them, but a primed operator is not the operator of primed variables to a prover.
ConnectedOf(gs) == {g \in gs : g.external # {} /\ g.internal # {}}

SharedOf(gs, w, L, o) ==
  SumFunction([g \in {h \in ConnectedOf(gs) : o \in h.internal} |->
                 (Scale * BalanceIn(L, g.external) * w[o]) \div SumFunctionOnSet(w, g.internal)])
  + SumFunction([g \in {h \in ConnectedOf(gs) : o \in h.external} |->
                   (Scale * BalanceIn(L, g.internal)) \div Cardinality(g.external)])

WeightBy(gs, w, o) ==
  IF \E g \in ConnectedOf(gs) : o \in g.external
    THEN LET g == CHOOSE h \in ConnectedOf(gs) : o \in h.external
         IN (Scale * SumFunctionOnSet(w, g.internal)) \div Cardinality(g.external)
    ELSE Scale * w[o]

SharedInModuleOf(gs, L, m) ==
  IF m = CMv1 THEN SumFunction([g \in ConnectedOf(gs) |-> BalanceIn(L, g.internal)])
  ELSE IF m = CMv2 THEN SumFunction([g \in ConnectedOf(gs) |-> BalanceIn(L, g.external)])
  ELSE 0

OperatorStatsOf(gs, w, L) ==
  [o \in Operator |->
     [validators |-> Cardinality(Predictable(L, o)),
      balance    |-> BalanceOf(Predictable(L, o)),
      stake      |-> Scale * BalanceOf(Predictable(L, o)) + SharedOf(gs, w, L, o),
      weight     |-> WeightBy(gs, w, o)]]

ModuleStatsOf(gs, w, L) ==
  [m \in Module |->
     [balance |-> BalanceIn(L, InModule(m)),
      stake   |-> Scale * (BalanceIn(L, InModule(m)) + SharedInModuleOf(gs, L, m)),
      weight  |-> SumFunction([o \in InModule(m) |-> WeightBy(gs, w, o)])]]

LEMMA StatsNow ==
  ASSUME NEW L
  PROVE  /\ OperatorStats(L) = OperatorStatsOf(groups, weight, L)
         /\ ModuleStats(L) = ModuleStatsOf(groups, weight, L)
  BY Zenon DEF OperatorStats, OperatorStatsOf, ModuleStats, ModuleStatsOf, Shared, SharedOf, WeightOf,
         WeightBy, SharedInModule, SharedInModuleOf, Connected, ConnectedOf, InternalWeight

LEMMA StatsNext ==
  /\ OperatorStats(left)' = OperatorStatsOf(groups', weight', left')
  /\ ModuleStats(left)' = ModuleStatsOf(groups', weight', left')
  /\ BalanceOf(left \cup Pending)' = BalanceOf(left' \cup Pending)
  BY Zenon DEF OperatorStats, OperatorStatsOf, ModuleStats, ModuleStatsOf, Shared, SharedOf, WeightOf,
         WeightBy, SharedInModule, SharedInModuleOf, Connected, ConnectedOf, InternalWeight,
         BalanceIn, BalanceOf, Predictable, InModule,
         SumFunction, SumFunctionOnSet, FoldFunctionOnSet, MapThenFoldSet

\* What a report has checked of the groups before it asks anybody.
WellGrouped(gs, w) ==
  /\ \A g \in ConnectedOf(gs) : SumFunctionOnSet(w, g.internal) # 0
  /\ \A o \in Operator : \A g, h \in gs :
       /\ o \in g.internal /\ o \in h.internal => g = h
       /\ o \in g.external /\ o \in h.external => g = h

LEMMA GroupedNow == ~Misconfigured => WellGrouped(groups, weight)
  BY DEF Misconfigured, WellGrouped, Connected, ConnectedOf, InternalWeight

\* Exact divisions.
LEMMA ScaledDivision ==
  ASSUME NEW d \in Nat \ {0}, Scale % d = 0, NEW m \in Int
  PROVE  (Scale * m) \div d = (Scale \div d) * m
<1> DEFINE k == Scale \div d
<1>1. Scale \in Nat /\ k \in Nat /\ Scale = d * k
  BY ExitOrderAssumption
<1> HIDE DEF k
<1> DEFINE n == k * m
<1>2. n \in Int
  BY <1>1
<1>3. Scale * m = d * n
  BY <1>1
<1> HIDE DEF n
<1>4. (d * n) \div d = n
  BY <1>2
<1> QED
  BY <1>3, <1>4 DEF k, n

\* The operators of a group can be counted and weighed, and divide the scale.
LEMMA GroupFacts ==
  ASSUME NEW gs \in GroupSets, NEW w \in Weights
  PROVE  /\ IsFiniteSet(ConnectedOf(gs)) /\ w \in [Operator -> Nat]
         /\ \A g \in ConnectedOf(gs) :
              /\ g \in gs /\ g.external \in SUBSET Operator /\ g.internal \in SUBSET Operator
              /\ Cardinality(g.external) \in Nat \ {0} /\ Scale % Cardinality(g.external) = 0
              /\ SumFunctionOnSet(w, g.internal) \in Nat
              /\ SumFunctionOnSet(w, g.internal) # 0
                   => Scale % SumFunctionOnSet(w, g.internal) = 0
<1>1. IsFiniteSet(ConnectedOf(gs))
<2> DEFINE P == (SUBSET Operator) \X (SUBSET Operator)
           f == [p \in P |-> [external |-> p[1], internal |-> p[2]]]
<2>1. IsFiniteSet(P)
  BY ExitOrderAssumption, FS_SUBSET, FS_Product
<2>2. f \in Surjection(P, Group)
<3>1. f \in [P -> Group]
  BY DEF Group
<3>2. ASSUME NEW g \in Group PROVE \E p \in P : f[p] = g
<4>1. <<g.external, g.internal>> \in P
  BY DEF Group
<4>2. f[<<g.external, g.internal>>] = g
  BY <4>1 DEF Group
<4> QED
  BY <4>1, <4>2
<3> HIDE DEF P, f
<3> QED
  BY <3>1, <3>2 DEF Surjection
<2>3. IsFiniteSet(Group)
  BY <2>1, <2>2, FS_Surjection, Zenon
<2>4. ConnectedOf(gs) \in SUBSET Group
  BY ExitOrderAssumption DEF ConnectedOf
<2> QED
  BY <2>3, <2>4, FS_Subset
<1>2. w \in [Operator -> Nat]
  BY ExitOrderAssumption
<1>3. ASSUME NEW g \in ConnectedOf(gs)
      PROVE  /\ g \in gs /\ g.external \in SUBSET Operator /\ g.internal \in SUBSET Operator
             /\ Cardinality(g.external) \in Nat \ {0} /\ Scale % Cardinality(g.external) = 0
             /\ SumFunctionOnSet(w, g.internal) \in Nat
             /\ SumFunctionOnSet(w, g.internal) # 0
                  => Scale % SumFunctionOnSet(w, g.internal) = 0
<2>1. g \in gs /\ g.external # {} /\ g \in Group
  BY ExitOrderAssumption DEF ConnectedOf
<2>2. g.external \in SUBSET Operator /\ g.internal \in SUBSET Operator
  BY <2>1 DEF Group
<2>3. IsFiniteSet(g.external) /\ IsFiniteSet(g.internal)
  BY <2>2, ExitOrderAssumption, FS_Subset
<2>4. Cardinality(g.external) \in Nat \ {0}
  BY <2>1, <2>3, FS_CardinalityType, FS_EmptySet
<2>5. SumFunctionOnSet(w, g.internal) \in Nat
  BY <1>2, <2>2, <2>3, SumFacts
<2> QED
  BY <2>1, <2>2, <2>4, <2>5, ScaleAssumption
<1> QED
  BY <1>1, <1>2, <1>3

\* One validator less of its operator.
LEMMA PredictableLess ==
  ASSUME NEW L \in SUBSET Exitable, NEW v \in L, NEW p \in Operator
  PROVE  /\ Cardinality(Predictable(L \ {v}, p))
              = Cardinality(Predictable(L, p)) - IF p = OperatorOf[v] THEN 1 ELSE 0
         /\ BalanceOf(Predictable(L \ {v}, p))
              = BalanceOf(Predictable(L, p)) - IF p = OperatorOf[v] THEN Balance[v] ELSE 0
         /\ BalanceOf(Predictable(L, p)) \in Nat /\ Balance[v] \in Nat
         /\ OperatorOf[v] \in Operator
<1>1. v \in Key /\ v \notin Pending /\ L \ {v} \in SUBSET Exitable
  BY KeysKnown, ExitOrderAssumption
<1>2. Balance[v] \in Nat /\ OperatorOf[v] \in Operator
  BY <1>1, ExitOrderAssumption
<1>3. /\ IsFiniteSet(Predictable(L, p)) /\ Cardinality(Predictable(L, p)) \in Nat
      /\ Predictable(L, p) \in SUBSET Key
  BY PredictableCounted
<1>4. BalanceOf(Predictable(L, p)) \in Nat
  BY <1>3, BalanceFacts
<1>5. CASE p = OperatorOf[v]
<2>1. Predictable(L \ {v}, p) = Predictable(L, p) \ {v} /\ v \in Predictable(L, p)
  BY <1>1, <1>5 DEF Predictable
<2>2. Cardinality(Predictable(L, p) \ {v}) = Cardinality(Predictable(L, p)) - 1
  BY <1>3, <2>1, FS_RemoveElement
<2>3. BalanceOf(Predictable(L, p)) = Balance[v] + BalanceOf(Predictable(L, p) \ {v})
  BY <1>3, <2>1, BalanceFacts
<2>4. BalanceOf(Predictable(L, p) \ {v}) \in Nat
<3>1. Predictable(L, p) \ {v} \in SUBSET Key
  BY <1>3
<3> QED
  BY <3>1, BalanceFacts
<2>5. BalanceOf(Predictable(L, p) \ {v}) = BalanceOf(Predictable(L, p)) - Balance[v]
  BY <1>2, <1>4, <2>3, <2>4
<2> QED
  BY <1>2, <1>4, <1>5, <2>1, <2>2, <2>5, Zenon
<1>6. CASE p # OperatorOf[v]
<2>1. Predictable(L \ {v}, p) = Predictable(L, p)
  BY <1>6 DEF Predictable
<2> QED
  BY <1>2, <1>3, <1>4, <1>6, <2>1
<1> QED
  BY <1>5, <1>6

\* One validator less of the operators O.
LEMMA BalanceInLess ==
  ASSUME NEW L \in SUBSET Exitable, NEW v \in L, NEW O \in SUBSET Operator
  PROVE  /\ BalanceIn(L, O) \in Nat
         /\ BalanceIn(L \ {v}, O)
              = BalanceIn(L, O) - IF OperatorOf[v] \in O THEN Balance[v] ELSE 0
<1> DEFINE f == [o \in O |-> BalanceOf(Predictable(L, o))]
           g == [o \in O |-> BalanceOf(Predictable(L \ {v}, o))]
           T == {o \in O : o = OperatorOf[v]}
<1>1. IsFiniteSet(O) /\ T \in SUBSET O /\ \A o, p \in T : o = p
  BY ExitOrderAssumption, FS_Subset
<1>2. ASSUME NEW o \in O
      PROVE  f[o] \in Nat /\ g[o] = f[o] - IF o \in T THEN Balance[v] ELSE 0
<2>1. o \in Operator
  OBVIOUS
<2>2. /\ BalanceOf(Predictable(L \ {v}, o))
           = BalanceOf(Predictable(L, o)) - IF o = OperatorOf[v] THEN Balance[v] ELSE 0
      /\ BalanceOf(Predictable(L, o)) \in Nat
  BY <2>1, PredictableLess
<2> QED
  BY <2>2
<1>3. /\ BalanceIn(L, O) = SumFunctionOnSet(f, O)
      /\ BalanceIn(L \ {v}, O) = SumFunctionOnSet(g, O)
  BY DEF BalanceIn, SumFunction
<1>4. T # {} <=> OperatorOf[v] \in O
  OBVIOUS
<1>5. Balance[v] \in Int
  BY KeysKnown, ExitOrderAssumption
<1> HIDE DEF f, g, T
<1>6. SumFunctionOnSet(f, O) \in Nat
  BY <1>1, <1>2, SumFacts
<1>7. SumFunctionOnSet(g, O) = SumFunctionOnSet(f, O) - IF T # {} THEN Balance[v] ELSE 0
<2>1. \A o \in O : f[o] \in Int /\ g[o] = f[o] - IF o \in T THEN Balance[v] ELSE 0
  BY <1>2
<2> QED
  BY <1>1, <1>5, <2>1, SumLessOne
<1> QED
  BY <1>3, <1>4, <1>6, <1>7

\* A part of a group's stake, as exact as its balance.
LEMMA PartLess ==
  ASSUME NEW c \in Nat \ {0}, Scale % c = 0, NEW y \in Int, NEW b \in Int
  PROVE  /\ (Scale * (y - b)) \div c = (Scale * y) \div c - (Scale * b) \div c
         /\ (Scale * y) \div c \in Int /\ (Scale * b) \div c \in Int
<1> DEFINE k == Scale \div c
<1>1. k \in Int
  BY ExitOrderAssumption
<1>2. /\ (Scale * (y - b)) \div c = k * (y - b)
      /\ (Scale * y) \div c = k * y /\ (Scale * b) \div c = k * b
<2>1. y - b \in Int
  OBVIOUS
<2> HIDE DEF k
<2> QED
  BY <2>1, ScaledDivision DEF k
<1> HIDE DEF k
<1>3. k * (y - b) = k * y - k * b /\ k * y \in Int /\ k * b \in Int
  BY <1>1
<1> QED
  BY <1>2, <1>3

\* The same of a part by weight.
WeightedPart(y, u, c) == (Scale * y * u) \div c

LEMMA WeightedPartLess ==
  ASSUME NEW c \in Nat \ {0}, Scale % c = 0, NEW y \in Int, NEW b \in Int, NEW u \in Int
  PROVE  /\ WeightedPart(y - b, u, c) = WeightedPart(y, u, c) - WeightedPart(b, u, c)
         /\ WeightedPart(y, u, c) \in Int /\ WeightedPart(b, u, c) \in Int
<1>1. y * u \in Int /\ b * u \in Int /\ (y - b) * u = y * u - b * u
  OBVIOUS
<1>2. Scale \in Int
  BY ExitOrderAssumption
<1>3. ASSUME NEW z \in Int PROVE Scale * z * u = Scale * (z * u)
  BY <1>2
<1>4. /\ Scale * (y - b) * u = Scale * (y * u - b * u)
      /\ Scale * y * u = Scale * (y * u) /\ Scale * b * u = Scale * (b * u)
<2>1. y - b \in Int
  OBVIOUS
<2>2. Scale * (y - b) * u = Scale * ((y - b) * u)
  BY <1>3, <2>1, Zenon
<2> QED
  BY <1>1, <1>3, <2>2, Zenon
<1>5. /\ (Scale * (y * u - b * u)) \div c = (Scale * (y * u)) \div c - (Scale * (b * u)) \div c
      /\ (Scale * (y * u)) \div c \in Int /\ (Scale * (b * u)) \div c \in Int
  BY <1>1, PartLess, Zenon
<1> QED
  BY <1>4, <1>5, Zenon DEF WeightedPart

LEMMA PartType ==
  ASSUME NEW c \in Nat \ {0}, NEW y \in Int, NEW u \in Int
  PROVE  (Scale * y * u) \div c \in Int /\ (Scale * y) \div c \in Int
  BY ExitOrderAssumption

\* What an operator answers for decreases by what its groups' other side loses.
LEMMA SharedLess ==
  ASSUME NEW gs \in GroupSets, NEW w \in Weights, WellGrouped(gs, w),
         NEW L \in SUBSET Exitable, NEW v \in L, NEW p \in Operator
  PROVE  LET o == OperatorOf[v]
             b == Balance[v]
             A == SumFunction([g \in {h \in ConnectedOf(gs) : o \in h.internal /\ p \in h.external} |->
                                 (Scale * b) \div Cardinality(g.external)])
             B == SumFunction([g \in {h \in ConnectedOf(gs) : o \in h.external /\ p \in h.internal} |->
                                 (Scale * b * w[p]) \div SumFunctionOnSet(w, g.internal)])
         IN /\ A \in Int /\ B \in Int /\ SharedOf(gs, w, L, p) \in Int
            /\ SharedOf(gs, w, L \ {v}, p) = SharedOf(gs, w, L, p) - A - B
<1> DEFINE o == OperatorOf[v]
           b == Balance[v]
           K == L \ {v}
           C == ConnectedOf(gs)
           X == {h \in C : p \in h.internal}
           Y == {h \in C : o \in h.external /\ p \in h.internal}
           U == {h \in C : p \in h.external}
           V == {h \in C : o \in h.internal /\ p \in h.external}
           W(g) == SumFunctionOnSet(w, g.internal)
           f == [g \in X |-> (Scale * BalanceIn(L, g.external) * w[p]) \div W(g)]
           f2 == [g \in X |-> (Scale * BalanceIn(K, g.external) * w[p]) \div W(g)]
           d == [g \in Y |-> (Scale * b * w[p]) \div W(g)]
           e == [g \in U |-> (Scale * BalanceIn(L, g.internal)) \div Cardinality(g.external)]
           e2 == [g \in U |-> (Scale * BalanceIn(K, g.internal)) \div Cardinality(g.external)]
           c == [g \in V |-> (Scale * b) \div Cardinality(g.external)]
<1>1. /\ IsFiniteSet(C) /\ w[p] \in Int
      /\ \A g \in C : /\ g.external \in SUBSET Operator /\ g.internal \in SUBSET Operator
                      /\ Cardinality(g.external) \in Nat \ {0}
                      /\ Scale % Cardinality(g.external) = 0
                      /\ W(g) \in Nat \ {0} /\ Scale % W(g) = 0
  BY GroupFacts DEF WellGrouped
<1>2. b \in Int
<2>1. Balance[v] \in Nat
  BY PredictableLess, Zenon
<2> QED
  BY <2>1
<1>3. /\ SumFunction(d) = SumFunctionOnSet(d, Y) /\ SumFunction(c) = SumFunctionOnSet(c, V)
      /\ SharedOf(gs, w, L, p) = SumFunctionOnSet(f, X) + SumFunctionOnSet(e, U)
      /\ SharedOf(gs, w, K, p) = SumFunctionOnSet(f2, X) + SumFunctionOnSet(e2, U)
  BY DEF SharedOf, SumFunction
<1>4. IsFiniteSet(X) /\ IsFiniteSet(U) /\ Y \in SUBSET X /\ V \in SUBSET U
<2>1. X \in SUBSET C /\ U \in SUBSET C /\ Y \in SUBSET X /\ V \in SUBSET U
  OBVIOUS
<2> HIDE DEF C, X, Y, U, V
<2> QED
  BY <1>1, <2>1, FS_Subset
<1>5. ASSUME NEW g \in X
      PROVE  /\ f[g] \in Int /\ f2[g] \in Int
             /\ g \in Y => d[g] \in Int /\ f2[g] = f[g] - d[g]
             /\ g \notin Y => f2[g] = f[g]
<2> DEFINE y == BalanceIn(L, g.external)
           x == BalanceIn(K, g.external)
           n == W(g)
<2>1. g \in C /\ n \in Nat \ {0} /\ Scale % n = 0 /\ g.external \in SUBSET Operator
  BY <1>1
<2>2. y \in Nat /\ x = y - IF o \in g.external THEN b ELSE 0
  BY <2>1, BalanceInLess, Zenon
<2>3. (g \in Y) = (o \in g.external)
  BY <2>1
<2>4. f[g] = (Scale * y * w[p]) \div n /\ f2[g] = (Scale * x * w[p]) \div n
  OBVIOUS
<2>5. g \in Y => d[g] = (Scale * b * w[p]) \div n
  OBVIOUS
<2> HIDE DEF f, f2, d, X, Y, x, y, n, b, o
<2>6. CASE g \in Y
<3>1. x = y - b /\ x \in Int /\ y \in Int
  BY <1>2, <2>2, <2>3, <2>6
<3>2. /\ (Scale * (y - b) * w[p]) \div n
           = (Scale * y * w[p]) \div n - (Scale * b * w[p]) \div n
      /\ (Scale * y * w[p]) \div n \in Int /\ (Scale * b * w[p]) \div n \in Int
<4>1. /\ WeightedPart(y - b, w[p], n) = WeightedPart(y, w[p], n) - WeightedPart(b, w[p], n)
      /\ WeightedPart(y, w[p], n) \in Int /\ WeightedPart(b, w[p], n) \in Int
  BY <1>1, <1>2, <2>1, <3>1, WeightedPartLess
<4> QED
  BY <4>1, Zenon DEF WeightedPart
<3> QED
  BY <2>4, <2>5, <2>6, <3>1, <3>2
<2>7. CASE g \notin Y
<3>1. x = y /\ y \in Int
  BY <2>2, <2>3, <2>7
<3>2. (Scale * y * w[p]) \div n \in Int
  BY <1>1, <1>2, <2>1, <2>2, <3>1, PartType, Zenon
<3> QED
  BY <2>4, <2>7, <3>1, <3>2
<2> QED
  BY <2>6, <2>7
<1>6. ASSUME NEW g \in U
      PROVE  /\ e[g] \in Int /\ e2[g] \in Int
             /\ g \in V => c[g] \in Int /\ e2[g] = e[g] - c[g]
             /\ g \notin V => e2[g] = e[g]
<2> DEFINE y == BalanceIn(L, g.internal)
           x == BalanceIn(K, g.internal)
           n == Cardinality(g.external)
<2>1. g \in C /\ n \in Nat \ {0} /\ Scale % n = 0 /\ g.internal \in SUBSET Operator
  BY <1>1
<2>2. y \in Nat /\ x = y - IF o \in g.internal THEN b ELSE 0
  BY <2>1, BalanceInLess, Zenon
<2>3. (g \in V) = (o \in g.internal)
  BY <2>1
<2>4. e[g] = (Scale * y) \div n /\ e2[g] = (Scale * x) \div n
  OBVIOUS
<2>5. g \in V => c[g] = (Scale * b) \div n
  OBVIOUS
<2> HIDE DEF e, e2, c, U, V, x, y, n, b, o
<2>6. CASE g \in V
<3>1. x = y - b /\ x \in Int /\ y \in Int
  BY <1>2, <2>2, <2>3, <2>6
<3>2. /\ (Scale * (y - b)) \div n = (Scale * y) \div n - (Scale * b) \div n
      /\ (Scale * y) \div n \in Int /\ (Scale * b) \div n \in Int
  BY <1>1, <1>2, <2>1, <3>1, PartLess, Zenon
<3> QED
  BY <2>4, <2>5, <2>6, <3>1, <3>2
<2>7. CASE g \notin V
<3>1. x = y /\ y \in Int
  BY <2>2, <2>3, <2>7
<3>2. (Scale * y) \div n \in Int
  BY <1>1, <1>2, <2>1, <2>2, <3>1, PartType, Zenon
<3> QED
  BY <2>4, <2>7, <3>1, <3>2
<2> QED
  BY <2>6, <2>7
<1> HIDE DEF f, f2, d, e, e2, c, X, Y, U, V
<1>7. /\ SumFunctionOnSet(f2, X) = SumFunctionOnSet(f, X) - SumFunctionOnSet(d, Y)
      /\ SumFunctionOnSet(f, X) \in Int /\ SumFunctionOnSet(d, Y) \in Int
<2>1. IsFiniteSet(Y)
  BY <1>4, FS_Subset
<2>2. /\ \A g \in X : f[g] \in Int /\ f2[g] \in Int
      /\ \A g \in Y : d[g] \in Int /\ f2[g] = f[g] - d[g]
      /\ \A g \in X \ Y : f2[g] = f[g]
  BY <1>4, <1>5
<2> QED
  BY <1>4, <2>1, <2>2, SumLess, SumFacts
<1>8. /\ SumFunctionOnSet(e2, U) = SumFunctionOnSet(e, U) - SumFunctionOnSet(c, V)
      /\ SumFunctionOnSet(e, U) \in Int /\ SumFunctionOnSet(c, V) \in Int
<2>1. IsFiniteSet(V)
  BY <1>4, FS_Subset
<2>2. /\ \A g \in U : e[g] \in Int /\ e2[g] \in Int
      /\ \A g \in V : c[g] \in Int /\ e2[g] = e[g] - c[g]
      /\ \A g \in U \ V : e2[g] = e[g]
  BY <1>4, <1>6
<2> QED
  BY <1>4, <2>1, <2>2, SumLess, SumFacts
<1>9. /\ SumFunction(c) \in Int /\ SumFunction(d) \in Int /\ SharedOf(gs, w, L, p) \in Int
      /\ SharedOf(gs, w, K, p) = SharedOf(gs, w, L, p) - SumFunction(c) - SumFunction(d)
  BY <1>3, <1>7, <1>8
<1> QED
  BY <1>9 DEF c, d, V, Y

\* What a module answers for on one side of the groups C.
Sides(M, C, side) == SumFunction([g \in C |-> BalanceIn(M, side[g])])

OnSide(o, C, side) == \E g \in C : o \in side[g]

LEMMA SideLess ==
  ASSUME NEW L \in SUBSET Exitable, NEW v \in L, NEW C, IsFiniteSet(C),
         NEW side \in [C -> SUBSET Operator],
         \A g, h \in C : OperatorOf[v] \in side[g] /\ OperatorOf[v] \in side[h] => g = h
  PROVE  /\ Sides(L, C, side) \in Int
         /\ Sides(L \ {v}, C, side)
              = Sides(L, C, side)
                  - IF OnSide(OperatorOf[v], C, side) THEN Balance[v] ELSE 0
<1> DEFINE f == [g \in C |-> BalanceIn(L, side[g])]
           f2 == [g \in C |-> BalanceIn(L \ {v}, side[g])]
           T == {g \in C : OperatorOf[v] \in side[g]}
<1>1. T \in SUBSET C /\ \A g, h \in T : g = h
  OBVIOUS
<1>2. ASSUME NEW g \in C
      PROVE  f[g] \in Int /\ f2[g] = f[g] - IF g \in T THEN Balance[v] ELSE 0
<2>1. side[g] \in SUBSET Operator
  OBVIOUS
<2>2. /\ BalanceIn(L, side[g]) \in Nat
      /\ BalanceIn(L \ {v}, side[g])
           = BalanceIn(L, side[g]) - IF OperatorOf[v] \in side[g] THEN Balance[v] ELSE 0
  BY <2>1, BalanceInLess, Zenon
<2> QED
  BY <2>2
<1>3. SumFunction(f) = SumFunctionOnSet(f, C) /\ SumFunction(f2) = SumFunctionOnSet(f2, C)
  BY DEF SumFunction
<1>4. (T # {}) = OnSide(OperatorOf[v], C, side)
  BY DEF OnSide
<1>5. Balance[v] \in Int
  BY KeysKnown, ExitOrderAssumption
<1> HIDE DEF f, f2, T
<1>6. /\ SumFunctionOnSet(f, C) \in Int
      /\ SumFunctionOnSet(f2, C) = SumFunctionOnSet(f, C) - IF T # {} THEN Balance[v] ELSE 0
<2>1. \A g \in C : f[g] \in Int /\ f2[g] = f[g] - IF g \in T THEN Balance[v] ELSE 0
  BY <1>2
<2>2. SumFunctionOnSet(f2, C) = SumFunctionOnSet(f, C) - IF T # {} THEN Balance[v] ELSE 0
  BY <1>1, <1>5, <2>1, SumLessOne
<2>3. SumFunctionOnSet(f, C) \in Int
  BY <2>1, SumFacts
<2> QED
  BY <2>2, <2>3
<1>7. /\ SumFunction(f) \in Int
      /\ SumFunction(f2)
           = SumFunction(f) - IF OnSide(OperatorOf[v], C, side) THEN Balance[v] ELSE 0
  BY <1>3, <1>4, <1>6, Zenon
<1> QED
  BY <1>7 DEF f, f2, Sides

LEMMA SharedInModuleLess ==
  ASSUME NEW gs \in GroupSets, NEW w \in Weights, WellGrouped(gs, w),
         NEW L \in SUBSET Exitable, NEW v \in L, NEW m \in Module
  PROVE  LET o == OperatorOf[v]
             b == Balance[v]
         IN /\ SharedInModuleOf(gs, L, m) \in Int
            /\ SharedInModuleOf(gs, L \ {v}, m)
                 = SharedInModuleOf(gs, L, m)
                     - (IF m = CMv1 /\ \E g \in ConnectedOf(gs) : o \in g.internal THEN b ELSE 0)
                     - (IF m = CMv2 /\ \E g \in ConnectedOf(gs) : o \in g.external THEN b ELSE 0)
<1> DEFINE C == ConnectedOf(gs)
           o == OperatorOf[v]
           b == Balance[v]
           K == L \ {v}
           int == [g \in C |-> g.internal]
           ext == [g \in C |-> g.external]
<1>1. /\ IsFiniteSet(C) /\ int \in [C -> SUBSET Operator] /\ ext \in [C -> SUBSET Operator]
      /\ C \subseteq gs
  BY GroupFacts DEF ConnectedOf
<1>2. o \in Operator /\ b \in Int
<2>1. v \in Key
  BY KeysKnown
<2>2. OperatorOf \in [Key -> Operator] /\ Balance \in [Key -> Nat]
  BY ExitOrderAssumption
<2> QED
  BY <2>1, <2>2
<1>3. /\ \A g, h \in C : o \in int[g] /\ o \in int[h] => g = h
      /\ \A g, h \in C : o \in ext[g] /\ o \in ext[h] => g = h
<2>1. \A g, h \in gs : /\ o \in g.internal /\ o \in h.internal => g = h
                       /\ o \in g.external /\ o \in h.external => g = h
  BY <1>2 DEF WellGrouped
<2>2. \A g \in C : int[g] = g.internal /\ ext[g] = g.external
  OBVIOUS
<2> HIDE DEF C, int, ext
<2> QED
  BY <1>1, <2>1, <2>2
<1>4. /\ Sides(L, C, int) \in Int
      /\ Sides(K, C, int) = Sides(L, C, int) - IF OnSide(o, C, int) THEN b ELSE 0
<2> HIDE DEF C, int
<2>1. IsFiniteSet(C) /\ int \in [C -> SUBSET Operator]
  BY <1>1
<2>2. \A g, h \in C : OperatorOf[v] \in int[g] /\ OperatorOf[v] \in int[h] => g = h
  BY <1>3
<2>3. Sides(L, C, int) \in Int
  BY <2>1, <2>2, SideLess
<2>4. Sides(L \ {v}, C, int)
        = Sides(L, C, int) - IF OnSide(OperatorOf[v], C, int) THEN Balance[v] ELSE 0
  BY <2>1, <2>2, SideLess, Zenon
<2> QED
  BY <2>3, <2>4
<1>5. /\ Sides(L, C, ext) \in Int
      /\ Sides(K, C, ext) = Sides(L, C, ext) - IF OnSide(o, C, ext) THEN b ELSE 0
<2> HIDE DEF C, ext
<2>1. IsFiniteSet(C) /\ ext \in [C -> SUBSET Operator]
  BY <1>1
<2>2. \A g, h \in C : OperatorOf[v] \in ext[g] /\ OperatorOf[v] \in ext[h] => g = h
  BY <1>3
<2>3. Sides(L, C, ext) \in Int
  BY <2>1, <2>2, SideLess
<2>4. Sides(L \ {v}, C, ext)
        = Sides(L, C, ext) - IF OnSide(OperatorOf[v], C, ext) THEN Balance[v] ELSE 0
  BY <2>1, <2>2, SideLess, Zenon
<2> QED
  BY <2>3, <2>4
<1>6. /\ OnSide(o, C, int) <=> \E g \in C : o \in g.internal
      /\ OnSide(o, C, ext) <=> \E g \in C : o \in g.external
  BY DEF OnSide
<1>7. ASSUME NEW M
      PROVE  SharedInModuleOf(gs, M, m) = IF m = CMv1 THEN Sides(M, C, int)
                                          ELSE IF m = CMv2 THEN Sides(M, C, ext) ELSE 0
<2>1. /\ [g \in C |-> BalanceIn(M, int[g])] = [g \in C |-> BalanceIn(M, g.internal)]
      /\ [g \in C |-> BalanceIn(M, ext[g])] = [g \in C |-> BalanceIn(M, g.external)]
  OBVIOUS
<2> QED
  BY <2>1, Zenon DEF SharedInModuleOf, Sides
<1> HIDE DEF C, int, ext, b, o, K
<1>8. CMv1 # CMv2
  BY ExitOrderAssumption
<1>9. CASE m = CMv1
  BY <1>2, <1>4, <1>6, <1>7, <1>8, <1>9 DEF C, o, b, K
<1>10. CASE m = CMv2
  BY <1>2, <1>5, <1>6, <1>7, <1>8, <1>10 DEF C, o, b, K
<1>11. CASE m # CMv1 /\ m # CMv2
  BY <1>7, <1>11 DEF C, o, b, K
<1> QED
  BY <1>9, <1>10, <1>11

\* Counting on after a validator is counting anew (_eject_validator,
\* _decrease_affected_stake against _calculate_lido_stats).
LEMMA EjectCounts ==
  ASSUME groups \in GroupSets, weight \in Weights, WellGrouped(groups, weight),
         left \in SUBSET Exitable, NEW v \in left, Eject(v),
         op = OperatorStatsOf(groups, weight, left),
         mod = ModuleStatsOf(groups, weight, left),
         total = BalanceOf(left \cup Pending)
  PROVE  /\ op' = OperatorStatsOf(groups, weight, left \ {v})
         /\ mod' = ModuleStatsOf(groups, weight, left \ {v})
         /\ total' = BalanceOf((left \ {v}) \cup Pending)
<1> DEFINE o == OperatorOf[v]
           b == Balance[v]
           K == left \ {v}
<1>1. /\ o \in Operator /\ ModuleOf[o] \in Module /\ b \in Nat /\ Scale \in Nat
      /\ v \notin Pending /\ v \in Key
  BY KeysKnown, ExitOrderAssumption
<1>2. op' = OperatorStatsOf(groups, weight, K)
<2>1. ASSUME NEW p \in Operator
      PROVE  /\ op[p].validators - (IF p = o THEN 1 ELSE 0) = Cardinality(Predictable(K, p))
             /\ op[p].balance - (IF p = o THEN b ELSE 0) = BalanceOf(Predictable(K, p))
             /\ op[p].stake - Affected(o, b)[p]
                  = Scale * BalanceOf(Predictable(K, p)) + SharedOf(groups, weight, K, p)
             /\ op[p].weight = WeightBy(groups, weight, p)
<3> DEFINE A == SumFunction([g \in {h \in Connected : o \in h.internal /\ p \in h.external} |->
                               (Scale * b) \div Cardinality(g.external)])
           B == SumFunction([g \in {h \in Connected : o \in h.external /\ p \in h.internal} |->
                               (Scale * b * weight[p]) \div InternalWeight(g)])
           now == BalanceOf(Predictable(left, p))
           then == BalanceOf(Predictable(K, p))
           shared == SharedOf(groups, weight, left, p)
           loss == IF p = o THEN b ELSE 0
<3>1. /\ op[p].validators = Cardinality(Predictable(left, p)) /\ op[p].balance = now
      /\ op[p].stake = Scale * now + shared
      /\ op[p].weight = WeightBy(groups, weight, p)
  BY DEF OperatorStatsOf
<3>2. /\ Cardinality(Predictable(K, p))
           = Cardinality(Predictable(left, p)) - IF p = o THEN 1 ELSE 0
      /\ then = now - loss /\ now \in Nat
  BY PredictableLess
<3>3. /\ A \in Int /\ B \in Int /\ shared \in Int
      /\ SharedOf(groups, weight, K, p) = shared - A - B
  BY SharedLess, Zenon DEF Connected, ConnectedOf, InternalWeight
<3>4. Affected(o, b)[p] = (IF p = o THEN Scale * b ELSE 0) + A + B
  BY Zenon DEF Affected
<3> HIDE DEF A, B, now, then, shared
<3>5. (IF p = o THEN Scale * b ELSE 0) = Scale * loss /\ loss \in Nat
  BY <1>1
<3> HIDE DEF b, o, K, loss
<3>6. Scale * then = Scale * now - Scale * loss
  BY <1>1, <3>2, <3>5
<3>7. Scale * now \in Int /\ Scale * loss \in Int
  BY <1>1, <3>2, <3>5
<3>8. op[p].stake - Affected(o, b)[p] = Scale * then + SharedOf(groups, weight, K, p)
  BY <3>1, <3>3, <3>4, <3>5, <3>6, <3>7
<3> QED
  BY <3>1, <3>2, <3>8 DEF now, then, loss
<2> QED
  BY <2>1 DEF Eject, OperatorStatsOf
<1>3. mod' = ModuleStatsOf(groups, weight, K)
<2>1. ASSUME NEW m \in Module
      PROVE  /\ mod[m].balance - (IF m = ModuleOf[o] THEN b ELSE 0) = BalanceIn(K, InModule(m))
             /\ mod[m].stake - AffectedModule(o, b)[m]
                  = Scale * (BalanceIn(K, InModule(m)) + SharedInModuleOf(groups, K, m))
             /\ mod[m].weight = SumFunction([p \in InModule(m) |-> WeightBy(groups, weight, p)])
<3> DEFINE now == BalanceIn(left, InModule(m))
           then == BalanceIn(K, InModule(m))
           shared == SharedInModuleOf(groups, left, m)
           loss == IF m = ModuleOf[o] THEN b ELSE 0
           internal == IF m = CMv1 /\ \E g \in Connected : o \in g.internal THEN b ELSE 0
           external == IF m = CMv2 /\ \E g \in Connected : o \in g.external THEN b ELSE 0
<3>1. /\ mod[m].balance = now /\ mod[m].stake = Scale * (now + shared)
      /\ mod[m].weight = SumFunction([p \in InModule(m) |-> WeightBy(groups, weight, p)])
  BY DEF ModuleStatsOf
<3>2. then = now - loss /\ now \in Nat
<4>1. InModule(m) \in SUBSET Operator /\ (o \in InModule(m) <=> m = ModuleOf[o])
  BY <1>1 DEF InModule
<4>2. /\ BalanceIn(left, InModule(m)) \in Nat
      /\ BalanceIn(K, InModule(m))
           = BalanceIn(left, InModule(m)) - IF o \in InModule(m) THEN b ELSE 0
  BY <4>1, BalanceInLess, Zenon
<4> QED
  BY <4>1, <4>2
<3>3. /\ shared \in Int
      /\ SharedInModuleOf(groups, K, m) = shared - internal - external
  BY SharedInModuleLess, Zenon DEF Connected, ConnectedOf
<3>4. AffectedModule(o, b)[m] = Scale * loss + Scale * internal + Scale * external
<4>1. AffectedModule(o, b)[m]
        = (IF m = ModuleOf[o] THEN Scale * b ELSE 0)
          + (IF m = CMv1 /\ \E g \in Connected : o \in g.internal THEN Scale * b ELSE 0)
          + (IF m = CMv2 /\ \E g \in Connected : o \in g.external THEN Scale * b ELSE 0)
  BY Zenon DEF AffectedModule
<4>2. Scale * 0 = 0
  BY <1>1
<4> QED
  BY <4>1, <4>2
<3>5. loss \in Nat /\ internal \in Nat /\ external \in Nat
  BY <1>1
<3> HIDE DEF now, then, shared, loss, internal, external, b, o, K
<3>6. /\ Scale * (now + shared) = Scale * now + Scale * shared
      /\ Scale * (then + (shared - internal - external))
           = Scale * now - Scale * loss + Scale * shared - Scale * internal - Scale * external
  BY <1>1, <3>2, <3>3, <3>5
<3>7. /\ Scale * now \in Int /\ Scale * shared \in Int /\ Scale * loss \in Int
      /\ Scale * internal \in Int /\ Scale * external \in Int
  BY <1>1, <3>2, <3>3, <3>5
<3>8. mod[m].stake - AffectedModule(o, b)[m]
        = Scale * (then + SharedInModuleOf(groups, K, m))
  BY <3>1, <3>3, <3>4, <3>6, <3>7
<3> QED
  BY <3>1, <3>2, <3>8 DEF now, then, loss
<2> QED
  BY <2>1 DEF Eject, ModuleStatsOf
<1>4. total' = BalanceOf(K \cup Pending)
<2>1. left \cup Pending \in SUBSET Key /\ v \in left \cup Pending
      /\ (left \cup Pending) \ {v} = K \cup Pending /\ K \cup Pending \in SUBSET Key
  BY <1>1, KeysKnown DEF Key
<2>2. BalanceOf(left \cup Pending) = b + BalanceOf(K \cup Pending)
  BY <2>1, BalanceFacts
<2>3. BalanceOf(K \cup Pending) \in Nat
  BY <2>1, BalanceFacts
<2>4. total' = BalanceOf(left \cup Pending) - b
  BY DEF Eject
<2> QED
  BY <1>1, <2>2, <2>3, <2>4
<1> QED
  BY <1>2, <1>3, <1>4

\* While validators are taken, the counters are those of the validators left, and the
\* groups were found sound.
CountersInv ==
  /\ TypeInv /\ groups \in GroupSets /\ weight \in Weights
  /\ pc \notin {"start", "failed"} =>
       /\ WellGrouped(groups, weight)
       /\ op = OperatorStatsOf(groups, weight, left)
       /\ mod = ModuleStatsOf(groups, weight, left)
       /\ total = BalanceOf(left \cup Pending)

\* The invariant's condition, of the next state's variables.
LEMMA CountersNext ==
  /\ (WellGrouped(groups, weight))' = WellGrouped(groups', weight')
  /\ (OperatorStatsOf(groups, weight, left))' = OperatorStatsOf(groups', weight', left')
  /\ (ModuleStatsOf(groups, weight, left))' = ModuleStatsOf(groups', weight', left')
  BY Zenon DEF WellGrouped, OperatorStatsOf, ModuleStatsOf, SharedOf, WeightBy, SharedInModuleOf,
         ConnectedOf, BalanceIn, BalanceOf, Predictable, InModule,
         SumFunction, SumFunctionOnSet, FoldFunctionOnSet, MapThenFoldSet

\* The same for any values.
Matching(gs, w, L, ops, mods, t) ==
  /\ WellGrouped(gs, w)
  /\ ops = OperatorStatsOf(gs, w, L) /\ mods = ModuleStatsOf(gs, w, L)
  /\ t = BalanceOf(L \cup Pending)

LEMMA CountersInvNext ==
  ASSUME TypeInv', groups' \in GroupSets, weight' \in Weights,
         pc' \notin {"start", "failed"} => Matching(groups', weight', left', op', mod', total')
  PROVE  CountersInv'
  BY CountersNext, StatsNext, Zenon DEF CountersInv, Matching

LEMMA CountersStep == CountersInv /\ [Next]_vars => CountersInv'
<1> SUFFICES ASSUME CountersInv, [Next]_vars PROVE CountersInv'
  OBVIOUS
<1>0. /\ TypeInv /\ TypeInv' /\ ReportInv /\ groups \in GroupSets /\ weight \in Weights
      /\ pc \notin {"start", "failed"} => Matching(groups, weight, left, op, mod, total)
  BY EjectorStep DEF CountersInv, TypeInv, Matching
<1>1. ASSUME UNCHANGED <<inputVars, counterVars>>,
             pc' \notin {"start", "failed"} => pc \notin {"start", "failed"}
      PROVE  CountersInv'
<2>1. UNCHANGED <<groups, weight, left, op, mod, total>>
  BY <1>1 DEF inputVars, counterVars
<2> QED
  BY <1>0, <1>1, <2>1, CountersInvNext
<1>2. ASSUME NEW v \in left, Eject(v), UNCHANGED inputVars, pc \notin {"start", "failed"}
      PROVE  CountersInv'
<2>1. left \in SUBSET Exitable /\ left' = left \ {v} /\ groups' = groups /\ weight' = weight
  BY <1>0, <1>2 DEF ReportInv, Eject, inputVars
<2>2. /\ op' = OperatorStatsOf(groups, weight, left \ {v})
      /\ mod' = ModuleStatsOf(groups, weight, left \ {v})
      /\ total' = BalanceOf((left \ {v}) \cup Pending)
  BY <1>0, <1>2, <2>1, EjectCounts DEF Matching
<2>3. Matching(groups', weight', left', op', mod', total')
  BY <1>0, <1>2, <2>1, <2>2 DEF Matching
<2> QED
  BY <1>0, <2>1, <2>3, CountersInvNext
<1>3. CASE Start
<2>1. groups' = groups /\ weight' = weight
  BY <1>3 DEF Start, inputVars
<2>2. CASE Misconfigured
  BY <1>1, <1>3, <2>2 DEF Start
<2>3. CASE ~Misconfigured
<3>1. WellGrouped(groups, weight)
  BY <2>3, GroupedNow
<3>2. /\ left' = Exitable /\ op' = OperatorStats(Exitable) /\ mod' = ModuleStats(Exitable)
      /\ total' = BalanceOf(Exitable \cup Pending)
  BY <1>3, <2>3 DEF Start, Iterate
<3>3. Matching(groups', weight', left', op', mod', total')
  BY <2>1, <3>1, <3>2, StatsNow DEF Matching
<3> QED
  BY <1>0, <2>1, <3>3, CountersInvNext
<2> QED
  BY <2>2, <2>3
<1>4. CASE NextValidator
<2>1. PICK v \in left : Eject(v) /\ UNCHANGED inputVars
  BY <1>0, <1>4, NextFacts
<2>2. pc = "loop"
  BY <1>4 DEF NextValidator
<2> QED
  BY <1>2, <2>1, <2>2
<1>5. CASE RemainingForced
<2>1. PICK v \in left : Eject(v) /\ UNCHANGED inputVars /\ pc = "forced"
  BY <1>0, <1>5, ForcedFacts
<2> QED
  BY <1>2, <2>1
<1>6. CASE CannotSort
  BY <1>1, <1>6 DEF CannotSort
<1>7. CASE NoneLeft
  BY <1>1, <1>7 DEF NoneLeft
<1>8. CASE NoForcedLeft
  BY <1>1, <1>8 DEF NoForcedLeft
<1>9. CASE UNCHANGED vars
  BY <1>1, <1>9 DEF vars, inputVars, counterVars
<1> QED
  BY <1>3, <1>4, <1>5, <1>6, <1>7, <1>8, <1>9 DEF Next

\* For any groups, weights and balances, and after any number of exits, what is left of the
\* counters is what the iterator would count from the validators left: shares, stakes of
\* both sides of a group and totals (_eject_validator, _decrease_affected_stake).
THEOREM CountersStayTrue == Spec => []CountersMatch
<1>1. Init => CountersInv
  BY EjectorInit DEF Init, CountersInv
<1>2. CountersInv => CountersMatch
  BY StatsNow DEF CountersInv, CountersMatch
<1> QED
  BY <1>1, <1>2, CountersStep, PTL DEF Spec

-----------------------------------------------------------------------------
(* Lists *)

\* The list has the members of A, in the order of R.
Listed(s, A, R) ==
  /\ s \in Seq(A)
  /\ \A a \in A : \E i \in 1 .. Len(s) : s[i] = a
  /\ \A i, j \in 1 .. Len(s) : i < j => <<s[i], s[j]>> \in R

LEMMA ListedEmpty == ASSUME NEW R PROVE Listed(<<>>, {}, R)
<1>1. <<>> \in Seq({}) /\ Len(<<>>) = 0
  OBVIOUS
<1>2. 1 .. 0 = {}
  OBVIOUS
<1> QED
  BY <1>1, <1>2 DEF Listed

LEMMA ListedConcat ==
  ASSUME NEW A, NEW B, NEW R, NEW s, NEW t, Listed(s, A, R), Listed(t, B, R),
         \A a \in A, b \in B : <<a, b>> \in R
  PROVE  Listed(s \o t, A \cup B, R)
<1>1. s \in Seq(A \cup B) /\ t \in Seq(A \cup B) /\ Len(s) \in Nat /\ Len(t) \in Nat
  BY DEF Listed
<1>2. s \o t \in Seq(A \cup B) /\ Len(s \o t) = Len(s) + Len(t)
  BY <1>1
<1>3. \A i \in 1 .. Len(s) + Len(t) :
        (s \o t)[i] = IF i <= Len(s) THEN s[i] ELSE t[i - Len(s)]
  BY <1>1
<1>4. \A i \in 1 .. Len(s) : s[i] \in A
  BY DEF Listed
<1>5. \A i \in 1 .. Len(t) : t[i] \in B
  BY DEF Listed
<1>6. ASSUME NEW a \in A \cup B PROVE \E i \in 1 .. Len(s \o t) : (s \o t)[i] = a
<2>1. CASE a \in A
<3>1. PICK i \in 1 .. Len(s) : s[i] = a
  BY <2>1 DEF Listed
<3>2. i \in 1 .. Len(s) + Len(t) /\ i <= Len(s)
  BY <1>1
<3> QED
  BY <1>2, <1>3, <3>1, <3>2
<2>2. CASE a \in B
<3>1. PICK i \in 1 .. Len(t) : t[i] = a
  BY <2>2 DEF Listed
<3>2. i + Len(s) \in 1 .. Len(s) + Len(t) /\ ~(i + Len(s) <= Len(s)) /\ (i + Len(s)) - Len(s) = i
  BY <1>1
<3> QED
  BY <1>2, <1>3, <3>1, <3>2
<2> QED
  BY <2>1, <2>2
<1>7. ASSUME NEW i \in 1 .. Len(s \o t), NEW j \in 1 .. Len(s \o t), i < j
      PROVE  <<(s \o t)[i], (s \o t)[j]>> \in R
<2>1. i \in 1 .. Len(s) + Len(t) /\ j \in 1 .. Len(s) + Len(t)
  BY <1>2
<2>2. CASE j <= Len(s)
<3>1. i \in 1 .. Len(s) /\ j \in 1 .. Len(s) /\ i <= Len(s)
  BY <1>1, <1>7, <2>1, <2>2
<3> QED
  BY <1>3, <1>7, <2>1, <2>2, <3>1 DEF Listed
<2>3. CASE ~(j <= Len(s)) /\ i <= Len(s)
<3>1. i \in 1 .. Len(s) /\ j - Len(s) \in 1 .. Len(t)
  BY <1>1, <2>1, <2>3
<3> QED
  BY <1>3, <1>4, <1>5, <2>1, <2>3, <3>1
<2>4. CASE ~(i <= Len(s))
<3>1. i - Len(s) \in 1 .. Len(t) /\ j - Len(s) \in 1 .. Len(t) /\ i - Len(s) < j - Len(s)
      /\ ~(j <= Len(s))
  BY <1>1, <1>7, <2>1, <2>4
<3>2. <<t[i - Len(s)], t[j - Len(s)]>> \in R
  BY <3>1 DEF Listed
<3> QED
  BY <1>3, <2>1, <2>4, <3>1, <3>2
<2> QED
  BY <2>2, <2>3, <2>4
<1> QED
  BY <1>2, <1>6, <1>7 DEF Listed

LEMMA ListedInjective ==
  ASSUME NEW A, NEW R, NEW s, Listed(s, A, R), \A a, b \in A : <<a, b>> \in R => a # b
  PROVE  /\ IsInjective(s) /\ ToSet(s) = A /\ DOMAIN s = 1 .. Len(s) /\ Len(s) \in Nat
         /\ \A i, j \in 1 .. Len(s) : s[i] = s[j] => i = j
<1>1. DOMAIN s = 1 .. Len(s) /\ Len(s) \in Nat /\ \A i \in 1 .. Len(s) : s[i] \in A
  BY DEF Listed
<1>2. ASSUME NEW i \in 1 .. Len(s), NEW j \in 1 .. Len(s), s[i] = s[j] PROVE i = j
<2>1. CASE i < j
  BY <1>1, <1>2, <2>1 DEF Listed
<2>2. CASE j < i
  BY <1>1, <1>2, <2>2 DEF Listed
<2>3. i \in Int /\ j \in Int
  OBVIOUS
<2> QED
  BY <2>1, <2>2, <2>3
<1>3. IsInjective(s)
  BY <1>1, <1>2 DEF IsInjective
<1>4. ToSet(s) = A
<2>1. ToSet(s) \subseteq A
  BY <1>1 DEF ToSet
<2>2. ASSUME NEW a \in A PROVE a \in ToSet(s)
<3>1. PICK i \in 1 .. Len(s) : s[i] = a
  BY DEF Listed
<3> QED
  BY <1>1, <3>1 DEF ToSet
<2> QED
  BY <2>1, <2>2
<1> QED
  BY <1>1, <1>2, <1>3, <1>4

\* The values of the recursive function in Those.
IsKept(list, S, kept) ==
  kept = [k \in 0 .. Len(list) |->
            IF k = 0 THEN <<>>
            ELSE IF list[k] \in S THEN Append(kept[k - 1], list[k]) ELSE kept[k - 1]]

LEMMA KeptExists ==
  ASSUME NEW A, NEW list \in Seq(A), NEW S
  PROVE  \E kept \in [0 .. Len(list) -> Seq(A)] : IsKept(list, S, kept)
<1> DEFINE D == 0 .. Len(list)
           m == [k \in D |-> k]
           G == [k \in D |-> [f \in [D -> Seq(A)] |->
                  IF k = 0 THEN <<>>
                  ELSE IF list[k] \in S THEN Append(f[k - 1], list[k]) ELSE f[k - 1]]]
<1>1. Len(list) \in Nat /\ m \in [D -> 0 .. Len(list)] /\ <<>> \in Seq(A)
  OBVIOUS
<1>2. ASSUME NEW k \in D, k # 0 PROVE k - 1 \in D /\ list[k] \in A /\ k - 1 < k
  BY <1>1, <1>2
<1>3. G \in [D -> [[D -> Seq(A)] -> Seq(A)]]
<2>1. ASSUME NEW k \in D, NEW f \in [D -> Seq(A)]
      PROVE  (IF k = 0 THEN <<>>
              ELSE IF list[k] \in S THEN Append(f[k - 1], list[k]) ELSE f[k - 1]) \in Seq(A)
<3>1. CASE k = 0
  BY <3>1
<3>2. CASE k # 0
<4>1. f[k - 1] \in Seq(A) /\ list[k] \in A
  BY <1>2, <3>2
<4> HIDE DEF D
<4> QED
  BY <3>2, <4>1
<3> QED
  BY <3>1, <3>2
<2> HIDE DEF D
<2> QED
  BY <2>1
<1>4. ASSUME NEW k \in D, NEW f \in [D -> Seq(A)], NEW g \in [D -> Seq(A)],
             \A e \in D : m[e] < m[k] => f[e] = g[e]
      PROVE  G[k][f] = G[k][g]
<2>1. k # 0 => f[k - 1] = g[k - 1]
<3>1. k # 0 => k - 1 \in D /\ m[k - 1] < m[k]
  BY <1>2
<3> HIDE DEF D, m
<3> QED
  BY <1>4, <3>1
<2> HIDE DEF D
<2> QED
  BY <2>1
<1>5. PICK f : Solves(f, D, Seq(A), G)
<2>1. LooksBelow(D, Seq(A), m, G)
<3> HIDE DEF D, m, G
<3> QED
  BY <1>4 DEF LooksBelow
<2>2. WellFounded(D, Seq(A), Len(list), m, G)
<3> HIDE DEF D, m, G
<3> QED
  BY <1>1, <1>3, <2>1 DEF WellFounded
<2> HIDE DEF D, m, G
<2> QED
  BY <2>2, Recursion
<1>6. IsKept(list, S, f)
<2>1. \A k \in D : G[k][f] = IF k = 0 THEN <<>>
                  ELSE IF list[k] \in S THEN Append(f[k - 1], list[k]) ELSE f[k - 1]
  BY <1>5 DEF Solves
<2>2. f = [k \in D |-> IF k = 0 THEN <<>>
                  ELSE IF list[k] \in S THEN Append(f[k - 1], list[k]) ELSE f[k - 1]]
<3> HIDE DEF G, D
<3> QED
  BY <1>5, <2>1 DEF Solves
<2> QED
  BY <2>2 DEF IsKept
<1> QED
  BY <1>5, <1>6 DEF Solves

\* What Those returns.
LEMMA ListedThose ==
  ASSUME NEW A, NEW R, NEW list, Listed(list, A, R), NEW S
  PROVE  Listed(Those(list, S), A \cap S, R)
<1> DEFINE N == Len(list)
           kept == CHOOSE f : IsKept(list, S, f)
           P(k) == {list[i] : i \in 1 .. k} \cap S
           Good == {k \in 0 .. N : Listed(kept[k], P(k), R)}
<1>1. list \in Seq(A) /\ N \in Nat
  BY DEF Listed
<1>2. IsKept(list, S, kept)
  BY <1>1, KeptExists
<1>3. 0 \in Good
<2>1. P(0) = {} /\ 0 \in 0 .. N
  BY <1>1
<2>2. kept[0] = <<>>
<3> HIDE DEF kept
<3> QED
  BY <1>2, <2>1 DEF IsKept
<2> HIDE DEF P, kept
<2> QED
  BY <2>1, <2>2, ListedEmpty
<1>4. ASSUME NEW k \in 1 .. N, k - 1 \in Good PROVE k \in Good
<2>1. k \in 0 .. N /\ k # 0 /\ k - 1 \in 0 .. N /\ Listed(kept[k - 1], P(k - 1), R)
  BY <1>1, <1>4
<2>2. kept[k] = IF list[k] \in S THEN Append(kept[k - 1], list[k]) ELSE kept[k - 1]
<3> HIDE DEF kept
<3> QED
  BY <1>2, <2>1 DEF IsKept
<2>3. 1 .. k = (1 .. k - 1) \cup {k}
  BY <2>1
<2>4. P(k) = P(k - 1) \cup ({list[k]} \cap S)
  BY <2>3
<2>5. CASE list[k] \notin S
<3>1. P(k) = P(k - 1) /\ kept[k] = kept[k - 1]
<4> HIDE DEF P, kept
<4> QED
  BY <2>2, <2>4, <2>5
<3> HIDE DEF P, kept
<3> QED
  BY <2>1, <3>1
<2>6. CASE list[k] \in S
<3>1. Listed(<<list[k]>>, {list[k]}, R)
<4>1. <<list[k]>> \in Seq({list[k]}) /\ Len(<<list[k]>>) = 1 /\ <<list[k]>>[1] = list[k]
  OBVIOUS
<4>2. 1 .. 1 = {1}
  OBVIOUS
<4> QED
  BY <4>1, <4>2 DEF Listed
<3>2. \A a \in P(k - 1), b \in {list[k]} : <<a, b>> \in R
<4>1. \A i \in 1 .. k - 1 : i \in 1 .. N /\ i < k /\ k \in 1 .. N
  BY <1>1
<4>2. \A i \in 1 .. k - 1 : <<list[i], list[k]>> \in R
  BY <4>1 DEF Listed
<4> QED
  BY <4>2
<3>3. kept[k] = kept[k - 1] \o <<list[k]>>
<4>1. kept[k] = Append(kept[k - 1], list[k]) /\ kept[k - 1] \in Seq(P(k - 1))
<5> HIDE DEF kept, P
<5> QED
  BY <2>1, <2>2, <2>6 DEF Listed
<4> HIDE DEF kept, P
<4> QED
  BY <4>1, AppendIsConcat
<3>4. P(k) = P(k - 1) \cup {list[k]}
<4> HIDE DEF P
<4> QED
  BY <2>4, <2>6
<3>5. Listed(kept[k - 1] \o <<list[k]>>, P(k - 1) \cup {list[k]}, R)
<4> HIDE DEF P, kept
<4> QED
  BY <2>1, <3>1, <3>2, ListedConcat
<3> HIDE DEF P, kept
<3> QED
  BY <2>1, <3>3, <3>4, <3>5
<2> QED
  BY <2>5, <2>6
<1>5. N \in Good
<2>1. N \in 0 .. N
  BY <1>1
<2> HIDE DEF Good
<2> QED
  BY <1>1, <1>3, <1>4, <2>1, Upward
<1>6. Those(list, S) = kept[N]
  BY DEF Those, IsKept
<1>7. P(N) = A \cap S
<2>1. {list[i] : i \in 1 .. N} = A
<3>1. \A i \in 1 .. N : list[i] \in A
  BY <1>1
<3>2. \A a \in A : \E i \in 1 .. N : list[i] = a
  BY DEF Listed
<3> QED
  BY <3>1, <3>2
<2> QED
  BY <2>1
<1> HIDE DEF P, kept
<1> QED
  BY <1>5, <1>6, <1>7

-----------------------------------------------------------------------------
(* The blocks of the execution layer *)

\* Two blocks are at least as many slots apart as their numbers.
ElInv ==
  /\ lastSlot \in Nat /\ elBlocks \in Seq(Nat) /\ Number # 0
  /\ elBlocks[1] = 0 /\ elBlocks[Number] <= lastSlot
  /\ \A i, j \in Numbers : i <= j => j - i <= elBlocks[j] - elBlocks[i]

LEMMA ElStart == ElInit => ElInv
<1> SUFFICES ASSUME ElInit PROVE ElInv
  OBVIOUS
<1>1. elBlocks = <<0>> /\ lastSlot = 0
  BY DEF ElInit
<1>2. <<0>> \in Seq(Nat) /\ Len(<<0>>) = 1 /\ DOMAIN <<0>> = {1} /\ <<0>>[1] = 0
  OBVIOUS
<1> QED
  BY <1>1, <1>2 DEF ElInv, Number, Numbers

LEMMA ElStep == ElInv /\ [ElNext]_elVars => ElInv'
<1> SUFFICES ASSUME ElInv, [ElNext]_elVars PROVE ElInv'
  OBVIOUS
<1>1. /\ lastSlot \in Nat /\ elBlocks \in Seq(Nat) /\ Number \in Nat \ {0} /\ Numbers = 1 .. Number
      /\ elBlocks[1] = 0 /\ elBlocks[Number] <= lastSlot
      /\ \A i \in 1 .. Number : elBlocks[i] \in Nat
      /\ \A i, j \in 1 .. Number : i <= j => j - i <= elBlocks[j] - elBlocks[i]
<2>1. elBlocks \in Seq(Nat) /\ Number = Len(elBlocks) /\ Numbers = DOMAIN elBlocks
  BY DEF ElInv, Number, Numbers
<2>2. Number \in Nat /\ Numbers = 1 .. Number /\ \A i \in 1 .. Number : elBlocks[i] \in Nat
  BY <2>1
<2> QED
  BY <2>1, <2>2 DEF ElInv
<1>2. CASE AddBlock
<2>1. lastSlot' = lastSlot + 1 /\ elBlocks' = Append(elBlocks, lastSlot + 1)
  BY <1>2 DEF AddBlock
<2>2. lastSlot + 1 \in Nat
  BY <1>1
<2>3. /\ elBlocks' \in Seq(Nat) /\ Len(elBlocks') = Len(elBlocks) + 1
      /\ \A i \in 1 .. Len(elBlocks) : elBlocks'[i] = elBlocks[i]
      /\ elBlocks'[Len(elBlocks) + 1] = lastSlot + 1
  BY <1>1, <2>1, <2>2
<2>4. Number' = Number + 1 /\ Numbers' = 1 .. Number + 1
  BY <2>3, <1>1 DEF Number, Numbers
<2>5. /\ \A i \in 1 .. Number : elBlocks'[i] = elBlocks[i]
      /\ elBlocks'[Number + 1] = lastSlot + 1
  BY <2>3 DEF Number
<2>6. ASSUME NEW i \in 1 .. Number + 1, NEW j \in 1 .. Number + 1, i <= j
      PROVE  j - i <= elBlocks'[j] - elBlocks'[i]
<3>1. CASE j # Number + 1
<4>1. i \in 1 .. Number /\ j \in 1 .. Number
  BY <1>1, <2>6, <3>1
<4> QED
  BY <1>1, <2>5, <2>6, <4>1
<3>2. CASE j = Number + 1 /\ i # Number + 1
<4>1. i \in 1 .. Number /\ Number \in 1 .. Number /\ i <= Number
  BY <1>1, <3>2
<4>2. Number - i <= elBlocks[Number] - elBlocks[i] /\ elBlocks[Number] \in Nat /\ elBlocks[i] \in Nat
  BY <1>1, <4>1
<4>3. elBlocks'[j] = lastSlot + 1 /\ elBlocks'[i] = elBlocks[i]
  BY <2>5, <3>2, <4>1
<4>5. PICK top \in Nat : top = elBlocks[Number]
  BY <4>2
<4>6. PICK low \in Nat : low = elBlocks[i]
  BY <4>2
<4>7. Number - i <= top - low /\ top <= lastSlot /\ i \in Int /\ Number \in Int /\ lastSlot \in Int
  BY <1>1, <4>1, <4>2, <4>5, <4>6
<4>8. (Number + 1) - i <= (lastSlot + 1) - low
  BY <4>7
<4> QED
  BY <3>2, <4>3, <4>6, <4>8
<3>3. CASE j = Number + 1 /\ i = Number + 1
<4>1. elBlocks'[j] = lastSlot + 1 /\ elBlocks'[i] = lastSlot + 1
  BY <2>5, <3>3
<4> QED
  BY <1>1, <3>3, <4>1
<3> QED
  BY <3>1, <3>2, <3>3
<2>7. elBlocks'[1] = 0 /\ Number + 1 # 0
<3>1. 1 \in 1 .. Number /\ Number + 1 # 0
  BY <1>1
<3> QED
  BY <1>1, <2>5, <3>1
<2>8. lastSlot' \in Nat /\ elBlocks'[Number'] <= lastSlot'
  BY <1>1, <2>1, <2>4, <2>5
<2> QED
  BY <2>3, <2>4, <2>6, <2>7, <2>8 DEF ElInv
<1>3. CASE MissSlot
<2>1. lastSlot' = lastSlot + 1 /\ elBlocks' = elBlocks
  BY <1>3 DEF MissSlot
<2>2. lastSlot + 1 \in Nat /\ elBlocks[Number] <= lastSlot + 1
<3>1. Number \in 1 .. Number
  BY <1>1
<3>2. elBlocks[Number] \in Nat
  BY <1>1, <3>1
<3> QED
  BY <1>1, <3>2
<2>3. Number' = Number /\ Numbers' = Numbers
  BY <2>1 DEF Number, Numbers
<2> QED
  BY <2>1, <2>2, <2>3 DEF ElInv
<1>4. CASE UNCHANGED elVars
  BY <1>4 DEF elVars, ElInv, Number, Numbers
<1> QED
  BY <1>2, <1>3, <1>4 DEF ElNext

LEMMA ElFacts ==
  ASSUME ElInv
  PROVE  /\ lastSlot \in Nat /\ Number \in Nat \ {0} /\ Numbers = 1 .. Number
         /\ \A i \in 1 .. Number : elBlocks[i] \in Nat
         /\ \A i, j \in 1 .. Number : i <= j => j - i <= elBlocks[j] - elBlocks[i]
         /\ elBlocks[1] = 0 /\ elBlocks[Number] <= lastSlot /\ elBlocks \in Seq(Nat)
<1>1. elBlocks \in Seq(Nat) /\ Number = Len(elBlocks) /\ Numbers = DOMAIN elBlocks
  BY DEF ElInv, Number, Numbers
<1>2. Number \in Nat /\ Numbers = 1 .. Number /\ \A i \in 1 .. Number : elBlocks[i] \in Nat
  BY <1>1
<1> QED
  BY <1>1, <1>2 DEF ElInv

-----------------------------------------------------------------------------
(* The events of the past *)

ElEvent == [block : Nat, timestamp : Nat]

\* The order of a node's logs: by block, and by timestamp within it.
LogOrder ==
  {p \in ElEvent \X ElEvent :
     \/ p[1].block < p[2].block
     \/ p[1].block = p[2].block /\ p[2].timestamp < p[1].timestamp}

LogsFrom(l, r) == UNION {ToSet(Logs(n)) : n \in Numbers \cap (l .. r)}

LEMMA LogsListed ==
  ASSUME ElInv, NEW n \in Numbers
  PROVE  /\ Listed(Logs(n), ToSet(Logs(n)), LogOrder)
         /\ \A e \in ToSet(Logs(n)) : e \in ElEvent /\ e.block = n /\ e.timestamp <= elBlocks[n]
<1> DEFINE N == Min({MaxLag, elBlocks[n]}) + 1
           log(k) == [block |-> n, timestamp |-> elBlocks[n] - (k - 1)]
<1>1. n \in Nat /\ elBlocks[n] \in Nat /\ MaxLag \in Nat
  BY ElFacts, ElAssumption
<1>2. N \in Nat /\ N <= elBlocks[n] + 1
<2> DEFINE w == Min({MaxLag, elBlocks[n]})
<2>1. w \in Int /\ w <= elBlocks[n] /\ (w = MaxLag \/ w = elBlocks[n])
<3>1. PICK b \in Int : b = elBlocks[n]
  BY <1>1
<3>2. PICK a \in Int : a = MaxLag
  BY <1>1
<3>3. Min({a, b}) \in Int /\ Min({a, b}) <= b /\ (Min({a, b}) = a \/ Min({a, b}) = b)
  BY MinOfTwo
<3> QED
  BY <3>1, <3>2, <3>3
<2> HIDE DEF w
<2>2. w + 1 \in Nat /\ w + 1 <= elBlocks[n] + 1
  BY <1>1, <2>1
<2> QED
  BY <2>2 DEF w
<1>3. Logs(n) = [k \in 1 .. N |-> log(k)]
  BY DEF Logs
<1> HIDE DEF N
<1>4. \A k \in 1 .. N : elBlocks[n] - (k - 1) \in Nat /\ elBlocks[n] - (k - 1) <= elBlocks[n]
  BY <1>1, <1>2
<1>5. \A k \in 1 .. N : log(k) \in ElEvent /\ log(k).block = n /\ log(k).timestamp = elBlocks[n] - (k - 1)
  BY <1>1, <1>4 DEF ElEvent
<1> HIDE DEF log
<1>6. ToSet(Logs(n)) = {log(k) : k \in 1 .. N} /\ DOMAIN Logs(n) = 1 .. N
  BY <1>3 DEF ToSet
<1>7. Logs(n) \in Seq(ToSet(Logs(n))) /\ Len(Logs(n)) = N
<2>1. Logs(n) \in [1 .. N -> ToSet(Logs(n))]
  BY <1>3, <1>6
<2> QED
  BY <1>2, <2>1, <1>6
<1>8. ASSUME NEW i \in 1 .. N, NEW j \in 1 .. N, i < j PROVE <<Logs(n)[i], Logs(n)[j]>> \in LogOrder
<2>1. elBlocks[n] - (j - 1) < elBlocks[n] - (i - 1)
  BY <1>1, <1>8
<2>2. Logs(n)[i] = log(i) /\ Logs(n)[j] = log(j)
  BY <1>3
<2>3. <<log(i), log(j)>> \in ElEvent \X ElEvent /\ <<log(i), log(j)>>[1] = log(i) /\ <<log(i), log(j)>>[2] = log(j)
  BY <1>5
<2> QED
  BY <1>5, <2>1, <2>2, <2>3 DEF LogOrder
<1>9. \A a \in ToSet(Logs(n)) : \E i \in 1 .. N : Logs(n)[i] = a
  BY <1>3, <1>6
<1> QED
  BY <1>4, <1>5, <1>6, <1>7, <1>8, <1>9 DEF Listed

\* No event is before itself, and those of earlier blocks are before those of later ones.
LEMMA LogOrderFacts ==
  /\ \A e, f \in ElEvent : <<e, f>> \in LogOrder => e # f
  /\ \A e, f \in ElEvent : e.block < f.block => <<e, f>> \in LogOrder
  /\ \A e, f \in ElEvent : <<e, f>> \in LogOrder => e.block <= f.block
<1>1. ASSUME NEW e \in ElEvent, NEW f \in ElEvent
      PROVE  <<e, f>> \in LogOrder <=> (e.block < f.block \/ (e.block = f.block /\ f.timestamp < e.timestamp))
<2>1. <<e, f>> \in ElEvent \X ElEvent /\ <<e, f>>[1] = e /\ <<e, f>>[2] = f
  OBVIOUS
<2> QED
  BY <2>1 DEF LogOrder
<1>2. \A e \in ElEvent : e.block \in Nat /\ e.timestamp \in Nat
  BY DEF ElEvent
<1> QED
  BY <1>1, <1>2

LEMMA LogsFromFacts ==
  ASSUME ElInv, NEW l \in Int, NEW r \in Int
  PROVE  \A e \in LogsFrom(l, r) : /\ e \in ElEvent /\ e.block \in Numbers /\ e.block \in l .. r
                                   /\ e.timestamp <= elBlocks[e.block]
<1> SUFFICES ASSUME NEW e \in LogsFrom(l, r)
             PROVE  /\ e \in ElEvent /\ e.block \in Numbers /\ e.block \in l .. r
                    /\ e.timestamp <= elBlocks[e.block]
  OBVIOUS
<1>1. PICK n \in Numbers \cap (l .. r) : e \in ToSet(Logs(n))
  BY DEF LogsFrom
<1>2. e \in ElEvent /\ e.block = n /\ e.timestamp <= elBlocks[n]
  BY <1>1, LogsListed
<1> QED
  BY <1>1, <1>2

\* Ranges that follow each other.
LEMMA LogsInOrder ==
  ASSUME ElInv, NEW l \in Int, NEW m \in Int, NEW r \in Int,
         NEW a \in LogsFrom(l, m), NEW b \in LogsFrom(m + 1, r)
  PROVE  <<a, b>> \in LogOrder
<1>1. a \in ElEvent /\ a.block \in l .. m
  BY LogsFromFacts
<1>2. m + 1 \in Int
  OBVIOUS
<1>3. b \in ElEvent /\ b.block \in m + 1 .. r
  BY <1>2, LogsFromFacts
<1>4. a.block < b.block
  BY <1>1, <1>3
<1> QED
  BY <1>1, <1>3, <1>4, LogOrderFacts

LEMMA LogsJoin ==
  ASSUME ElInv, NEW l \in Int, NEW m \in Int, NEW r \in Int, l <= m + 1, m <= r,
         NEW s, NEW t,
         Listed(s, LogsFrom(l, m), LogOrder), Listed(t, LogsFrom(m + 1, r), LogOrder)
  PROVE  Listed(s \o t, LogsFrom(l, r), LogOrder)
<1>1. LogsFrom(l, r) = LogsFrom(l, m) \cup LogsFrom(m + 1, r)
<2>1. l .. r = (l .. m) \cup (m + 1 .. r)
  OBVIOUS
<2> QED
  BY <2>1 DEF LogsFrom
<1> QED
  BY <1>1, LogsInOrder, ListedConcat

LEMMA LogsOfBlock ==
  ASSUME ElInv, NEW n \in Int
  PROVE  Listed(Logs(n), LogsFrom(n, n), LogOrder) /\ Logs(n) \in Seq(ElEvent)
<1>0. n .. n = {n}
  OBVIOUS
<1>1. CASE n \in Numbers
<2>1. LogsFrom(n, n) = ToSet(Logs(n))
  BY <1>0, <1>1 DEF LogsFrom
<2>2. Listed(Logs(n), ToSet(Logs(n)), LogOrder) /\ ToSet(Logs(n)) \subseteq ElEvent
  BY <1>1, LogsListed
<2>3. Logs(n) \in Seq(ElEvent)
  BY <2>2 DEF Listed
<2> QED
  BY <2>1, <2>2, <2>3
<1>2. CASE n \notin Numbers
<2>1. Numbers \cap (n .. n) = {}
  BY <1>0, <1>2
<2>2. LogsFrom(n, n) = {}
  BY <2>1, Zenon DEF LogsFrom
<2>3. Logs(n) = <<>> /\ <<>> \in Seq(ElEvent)
  BY <1>2 DEF Logs
<2> QED
  BY <2>2, <2>3, ListedEmpty
<1> QED
  BY <1>1, <1>2

IsLogs(l, r, logs) == logs = [n \in l - 1 .. r |-> IF n < l THEN <<>> ELSE logs[n - 1] \o Logs(n)]

LEMMA LogsExist ==
  ASSUME ElInv, NEW l \in Int, NEW r \in Int, l <= r + 1
  PROVE  \E logs : IsLogs(l, r, logs)
<1> DEFINE D == l - 1 .. r
           X == Seq(ElEvent)
           m == [n \in D |-> n - (l - 1)]
           G == [n \in D |-> [f \in [D -> X] |-> IF n < l THEN <<>> ELSE f[n - 1] \o Logs(n)]]
<1>1. <<>> \in X /\ m \in [D -> 0 .. r - (l - 1)] /\ r - (l - 1) \in Nat
<2>1. \A n \in D : n - (l - 1) \in 0 .. r - (l - 1)
  OBVIOUS
<2> QED
  BY <2>1
<1>2. \A n \in D : ~(n < l) => n - 1 \in D /\ m[n - 1] < m[n]
<2>1. \A n \in D : ~(n < l) => n - 1 \in D /\ (n - 1) - (l - 1) < n - (l - 1)
  OBVIOUS
<2> HIDE DEF D
<2> QED
  BY <2>1
<1>3. \A n \in D : Logs(n) \in X
<2>1. \A n \in D : n \in Int
  OBVIOUS
<2> QED
  BY <2>1, LogsOfBlock
<1>4. G \in [D -> [[D -> X] -> X]]
<2>1. \A a, b \in X : a \o b \in X
  OBVIOUS
<2>2. ASSUME NEW n \in D, NEW f \in [D -> X]
      PROVE  (IF n < l THEN <<>> ELSE f[n - 1] \o Logs(n)) \in X
<3> HIDE DEF D, X
<3> QED
  BY <1>1, <1>2, <1>3, <2>1
<2> HIDE DEF D, X
<2> QED
  BY <2>2
<1>5. LooksBelow(D, X, m, G)
<2> SUFFICES ASSUME NEW n \in D, NEW f \in [D -> X], NEW g \in [D -> X],
                    \A e \in D : m[e] < m[n] => f[e] = g[e]
             PROVE  G[n][f] = G[n][g]
  BY DEF LooksBelow
<2>1. ~(n < l) => f[n - 1] = g[n - 1]
<3> HIDE DEF D, m, X
<3> QED
  BY <1>2
<2> HIDE DEF D, X
<2> QED
  BY <2>1
<1>6. WellFounded(D, X, r - (l - 1), m, G)
<2> HIDE DEF D, X, m, G
<2> QED
  BY <1>1, <1>4, <1>5 DEF WellFounded
<1>7. PICK f : Solves(f, D, X, G)
<2> HIDE DEF D, X, m, G
<2> QED
  BY <1>6, Recursion
<1>8. f \in [D -> X] /\ \A n \in D : f[n] = IF n < l THEN <<>> ELSE f[n - 1] \o Logs(n)
<2> HIDE DEF D, X
<2> QED
  BY <1>7 DEF Solves
<1>9. f = [n \in D |-> IF n < l THEN <<>> ELSE f[n - 1] \o Logs(n)]
<2> HIDE DEF D, X
<2> QED
  BY <1>8
<1> QED
  BY <1>9 DEF IsLogs

LEMMA GetLogsListed ==
  ASSUME ElInv, NEW l \in Int, NEW r \in Int, l <= r
  PROVE  Listed(GetLogs(l, r), LogsFrom(l, r), LogOrder)
<1> DEFINE logs == CHOOSE logs : IsLogs(l, r, logs)
           Good == {k \in 0 .. r - l + 1 : Listed(logs[l - 1 + k], LogsFrom(l, l - 1 + k), LogOrder)}
<1>1. IsLogs(l, r, logs)
  BY LogsExist
<1> HIDE DEF logs
<1>2. \A n \in l - 1 .. r : logs[n] = IF n < l THEN <<>> ELSE logs[n - 1] \o Logs(n)
  BY <1>1 DEF IsLogs
<1>3. 0 \in Good
<2>1. l - 1 + 0 \in l - 1 .. r /\ l - 1 + 0 < l /\ l .. l - 1 + 0 = {} /\ 0 \in 0 .. r - l + 1
  OBVIOUS
<2>2. logs[l - 1 + 0] = <<>>
  BY <1>2, <2>1
<2>3. Numbers \cap (l .. l - 1 + 0) = {}
  BY <2>1, Zenon
<2>4. LogsFrom(l, l - 1 + 0) = {}
  BY <2>3, Zenon DEF LogsFrom
<2>5. Listed(logs[l - 1 + 0], LogsFrom(l, l - 1 + 0), LogOrder)
  BY <2>2, <2>4, ListedEmpty
<2> QED
  BY <2>1, <2>5
<1>4. ASSUME NEW k \in 1 .. r - l + 1, k - 1 \in Good PROVE k \in Good
<2> DEFINE n == l - 1 + k
<2>1. /\ n \in l - 1 .. r /\ ~(n < l) /\ n - 1 = l - 1 + (k - 1) /\ n \in Int /\ n - 1 \in Int
      /\ l <= (n - 1) + 1 /\ n - 1 <= n /\ (n - 1) + 1 = n /\ k \in 0 .. r - l + 1
  OBVIOUS
<2>2. Listed(logs[n - 1], LogsFrom(l, n - 1), LogOrder)
  BY <1>4, <2>1
<2> HIDE DEF n
<2>3. Listed(Logs(n), LogsFrom((n - 1) + 1, n), LogOrder)
  BY <2>1, LogsOfBlock
<2>4. Listed(logs[n - 1] \o Logs(n), LogsFrom(l, n), LogOrder)
  BY <2>1, <2>2, <2>3, LogsJoin
<2>5. Listed(logs[n], LogsFrom(l, n), LogOrder)
  BY <1>2, <2>1, <2>4
<2> QED
  BY <2>1, <2>5 DEF n
<1>5. r - l + 1 \in Good
<2>1. r - l + 1 \in Nat /\ r - l + 1 \in 0 .. r - l + 1
  OBVIOUS
<2> HIDE DEF Good
<2> QED
  BY <1>3, <1>4, <2>1, Upward
<1>6. l - 1 + (r - l + 1) = r
  OBVIOUS
<1>7. GetLogs(l, r) = logs[r]
  BY DEF GetLogs, IsLogs, logs
<1> QED
  BY <1>5, <1>6, <1>7

\* The last block of a range.
RangeEnd(from, r) == Min({r, from + SearchStep})

LEMMA RangeEndFacts ==
  ASSUME NEW r \in Int, NEW from \in Int, from <= r
  PROVE  /\ RangeEnd(from, r) \in Int /\ from <= RangeEnd(from, r) /\ RangeEnd(from, r) <= r
         /\ NextRange(RangeEnd(from, r)) = RangeEnd(from, r) + 1
<1>1. SearchStep \in Nat
  BY ElAssumption
<1>2. PICK b \in Int : b = from + SearchStep /\ from <= b
  BY <1>1
<1>3. Min({r, b}) \in Int /\ Min({r, b}) <= r /\ (Min({r, b}) = r \/ Min({r, b}) = b)
  BY MinOfTwo
<1>4. RangeEnd(from, r) = Min({r, b})
  BY <1>2 DEF RangeEnd
<1> QED
  BY <1>2, <1>3, <1>4 DEF NextRange

IsFound(l, r, found) ==
  found = [from \in l .. r |->
             GetLogs(from, RangeEnd(from, r))
               \o (IF RangeEnd(from, r) = r THEN <<>> ELSE found[NextRange(RangeEnd(from, r))])]

LEMMA LogsTyped ==
  ASSUME ElInv, NEW l \in Int, NEW r \in Int, NEW s, Listed(s, LogsFrom(l, r), LogOrder)
  PROVE  s \in Seq(ElEvent)
<1>1. LogsFrom(l, r) \subseteq ElEvent
  BY LogsFromFacts
<1>2. s \in Seq(LogsFrom(l, r))
  BY DEF Listed
<1> HIDE DEF Listed
<1> QED
  BY <1>1, <1>2

LEMMA FoundExists ==
  ASSUME ElInv, NEW l \in Int, NEW r \in Int, l <= r
  PROVE  \E found : IsFound(l, r, found)
<1> DEFINE D == l .. r
           X == Seq(ElEvent)
           m == [n \in D |-> r - n]
           G == [n \in D |-> [f \in [D -> X] |->
                  GetLogs(n, RangeEnd(n, r))
                    \o (IF RangeEnd(n, r) = r THEN <<>> ELSE f[NextRange(RangeEnd(n, r))])]]
<1>1. <<>> \in X /\ m \in [D -> 0 .. r - l] /\ r - l \in Nat
<2>1. \A n \in D : r - n \in 0 .. r - l
  OBVIOUS
<2> QED
  BY <2>1
<1>2. ASSUME NEW n \in D
      PROVE  /\ GetLogs(n, RangeEnd(n, r)) \in X
             /\ RangeEnd(n, r) # r => /\ NextRange(RangeEnd(n, r)) \in D
                                      /\ m[NextRange(RangeEnd(n, r))] < m[n]
<2>1. n \in Int /\ n <= r /\ l <= n
  OBVIOUS
<2>2. /\ RangeEnd(n, r) \in Int /\ n <= RangeEnd(n, r) /\ RangeEnd(n, r) <= r
      /\ NextRange(RangeEnd(n, r)) = RangeEnd(n, r) + 1
  BY <2>1, RangeEndFacts
<2>3. Listed(GetLogs(n, RangeEnd(n, r)), LogsFrom(n, RangeEnd(n, r)), LogOrder)
  BY <2>1, <2>2, GetLogsListed
<2>4. GetLogs(n, RangeEnd(n, r)) \in X
  BY <2>1, <2>2, <2>3, LogsTyped
<2>5. RangeEnd(n, r) # r => /\ RangeEnd(n, r) + 1 \in D
                            /\ r - (RangeEnd(n, r) + 1) < r - n
  BY <2>1, <2>2
<2> HIDE DEF D, X
<2> QED
  BY <2>2, <2>4, <2>5
<1>3. G \in [D -> [[D -> X] -> X]]
<2>1. \A a, b \in X : a \o b \in X
  OBVIOUS
<2>2. ASSUME NEW n \in D, NEW f \in [D -> X]
      PROVE  GetLogs(n, RangeEnd(n, r))
               \o (IF RangeEnd(n, r) = r THEN <<>> ELSE f[NextRange(RangeEnd(n, r))]) \in X
<3>1. (IF RangeEnd(n, r) = r THEN <<>> ELSE f[NextRange(RangeEnd(n, r))]) \in X
<4> HIDE DEF D, X
<4> QED
  BY <1>1, <1>2
<3> HIDE DEF D, X
<3> QED
  BY <1>2, <2>1, <3>1
<2> HIDE DEF D, X
<2> QED
  BY <2>2
<1>4. LooksBelow(D, X, m, G)
<2> SUFFICES ASSUME NEW n \in D, NEW f \in [D -> X], NEW g \in [D -> X],
                    \A e \in D : m[e] < m[n] => f[e] = g[e]
             PROVE  G[n][f] = G[n][g]
  BY DEF LooksBelow
<2>1. RangeEnd(n, r) # r => f[NextRange(RangeEnd(n, r))] = g[NextRange(RangeEnd(n, r))]
<3> HIDE DEF D, m, X
<3> QED
  BY <1>2
<2> HIDE DEF D, X
<2> QED
  BY <2>1
<1>5. WellFounded(D, X, r - l, m, G)
<2> HIDE DEF D, X, m, G
<2> QED
  BY <1>1, <1>3, <1>4 DEF WellFounded
<1>6. PICK f : Solves(f, D, X, G)
<2> HIDE DEF D, X, m, G
<2> QED
  BY <1>5, Recursion
<1>7. f \in [D -> X] /\ \A n \in D : f[n] =
        GetLogs(n, RangeEnd(n, r))
          \o (IF RangeEnd(n, r) = r THEN <<>> ELSE f[NextRange(RangeEnd(n, r))])
<2> HIDE DEF D, X
<2> QED
  BY <1>6 DEF Solves
<1>8. f = [n \in D |-> GetLogs(n, RangeEnd(n, r))
                         \o (IF RangeEnd(n, r) = r THEN <<>> ELSE f[NextRange(RangeEnd(n, r))])]
<2> HIDE DEF D, X
<2> QED
  BY <1>7
<1> QED
  BY <1>8 DEF IsFound

\* However the blocks are split into ranges.
LEMMA EventsInRangeListed ==
  ASSUME ElInv, NEW l \in Int, NEW r \in Int, l <= r
  PROVE  Listed(EventsInRange(l, r), LogsFrom(l, r), LogOrder)
<1> DEFINE found == CHOOSE found : IsFound(l, r, found)
           Near(k) == \A from \in l .. r : r - from <= k => Listed(found[from], LogsFrom(from, r), LogOrder)
           Good == {k \in 0 .. r - l : Near(k)}
<1>1. IsFound(l, r, found)
  BY FoundExists
<1> HIDE DEF found
<1>2. ASSUME NEW from \in l .. r,
             \A later \in from + 1 .. r : Listed(found[later], LogsFrom(later, r), LogOrder)
      PROVE  Listed(found[from], LogsFrom(from, r), LogOrder)
<2> DEFINE to == RangeEnd(from, r)
<2>1. from \in Int /\ from <= r
  OBVIOUS
<2>2. to \in Int /\ from <= to /\ to <= r /\ NextRange(to) = to + 1
  BY <2>1, RangeEndFacts
<2> HIDE DEF to
<2>3. found[from] = GetLogs(from, to) \o (IF to = r THEN <<>> ELSE found[to + 1])
  BY <1>1, <2>2 DEF IsFound, to
<2>4. Listed(GetLogs(from, to), LogsFrom(from, to), LogOrder)
  BY <2>1, <2>2, GetLogsListed
<2>5. CASE to = r
<3>1. GetLogs(from, to) \in Seq(ElEvent)
  BY <2>1, <2>2, <2>4, LogsTyped
<3>2. found[from] = GetLogs(from, to)
  BY <2>3, <2>5, <3>1
<3> QED
  BY <2>4, <2>5, <3>2
<2>6. CASE to # r
<3>1. to + 1 \in from + 1 .. r /\ from <= to + 1
  BY <2>1, <2>2, <2>6
<3>2. Listed(found[to + 1], LogsFrom(to + 1, r), LogOrder)
  BY <1>2, <3>1
<3>3. Listed(GetLogs(from, to) \o found[to + 1], LogsFrom(from, r), LogOrder)
  BY <2>1, <2>2, <2>4, <3>1, <3>2, LogsJoin
<3> QED
  BY <2>3, <2>6, <3>3
<2> QED
  BY <2>5, <2>6
<1>3. 0 \in Good
<2>1. ASSUME NEW from \in l .. r, r - from <= 0 PROVE Listed(found[from], LogsFrom(from, r), LogOrder)
<3>1. from + 1 .. r = {}
  BY <2>1
<3> QED
  BY <1>2, <3>1
<2>2. 0 \in 0 .. r - l
  OBVIOUS
<2> QED
  BY <2>1, <2>2
<1>4. ASSUME NEW k \in 1 .. r - l, k - 1 \in Good PROVE k \in Good
<2>1. ASSUME NEW from \in l .. r, r - from <= k PROVE Listed(found[from], LogsFrom(from, r), LogOrder)
<3>1. \A later \in from + 1 .. r : later \in l .. r /\ r - later <= k - 1
  BY <2>1
<3>2. \A later \in from + 1 .. r : Listed(found[later], LogsFrom(later, r), LogOrder)
  BY <1>4, <3>1
<3> QED
  BY <1>2, <3>2
<2>2. k \in 0 .. r - l
  OBVIOUS
<2> QED
  BY <2>1, <2>2
<1>5. r - l \in Good
<2>1. r - l \in Nat /\ r - l \in 0 .. r - l
  OBVIOUS
<2> HIDE DEF Good
<2> QED
  BY <1>3, <1>4, <2>1, Upward
<1>6. Listed(found[l], LogsFrom(l, r), LogOrder)
<2>1. l \in l .. r /\ r - l <= r - l
  OBVIOUS
<2> QED
  BY <1>5, <2>1
<1>7. EventsInRange(l, r) = found[l]
  BY Zenon DEF EventsInRange, IsFound, found, RangeEnd
<1> QED
  BY <1>6, <1>7

\* The events of the last slots, which are searched from a block that is no later than any of
\* theirs.
RecentLogs(forSlots) == {e \in UNION {ToSet(Logs(n)) : n \in Numbers} : e.timestamp > lastSlot - forSlots}

LEMMA EventsInPastListed ==
  ASSUME ElInv, NEW forSlots \in Nat
  PROVE  Listed(EventsInPast(forSlots), RecentLogs(forSlots), LogOrder)
<1> DEFINE back == SlotsWithoutMissed(forSlots)
           from == Max({0, Number - back})
           events == EventsInRange(from, Number)
           newest == elBlocks[Number]
<1>1. /\ lastSlot \in Nat /\ Number \in Nat \ {0} /\ Numbers = 1 .. Number
      /\ newest \in Nat /\ newest <= lastSlot /\ Number \in 1 .. Number
<2>1. Number \in Nat \ {0}
  BY ElFacts
<2>2. Number \in 1 .. Number
  BY <2>1
<2> QED
  BY <2>2, ElFacts
<1>2. back \in Int /\ newest - back = lastSlot - forSlots
<2>1. back = forSlots - (lastSlot - newest)
  BY DEF SlotsWithoutMissed
<2> HIDE DEF back, newest
<2> QED
  BY <1>1, <2>1
<1>3. \A e \in UNION {ToSet(Logs(n)) : n \in Numbers} :
        /\ e \in ElEvent /\ e.timestamp \in Nat /\ e.block \in 1 .. Number
        /\ e.timestamp <= elBlocks[e.block] /\ e \in ToSet(Logs(e.block))
<2> SUFFICES ASSUME NEW n \in Numbers, NEW e \in ToSet(Logs(n))
             PROVE  /\ e \in ElEvent /\ e.timestamp \in Nat /\ e.block \in 1 .. Number
                    /\ e.timestamp <= elBlocks[e.block] /\ e \in ToSet(Logs(e.block))
  OBVIOUS
<2>1. e \in ElEvent /\ e.block = n /\ e.timestamp <= elBlocks[n]
  BY LogsListed
<2> QED
  BY <1>1, <2>1 DEF ElEvent
<1>4. \A n \in 1 .. Number : elBlocks[n] \in Nat /\ Number - n <= newest - elBlocks[n]
<2>1. \A n \in 1 .. Number : n <= Number /\ Number \in 1 .. Number
  BY <1>1
<2> QED
  BY <1>1, <2>1, ElFacts
<1> HIDE DEF newest
<1>5. CASE back <= 0
<2>1. EventsInPast(forSlots) = <<>>
  BY <1>5 DEF EventsInPast
<2>2. ASSUME NEW n \in 1 .. Number PROVE elBlocks[n] <= newest
<3>1. PICK b \in Nat : b = elBlocks[n]
  BY <1>4
<3>2. Number - n <= newest - b /\ n <= Number /\ n \in Int
  BY <1>1, <1>4, <3>1
<3> QED
  BY <1>1, <3>1, <3>2
<2>3. newest <= lastSlot - forSlots
  BY <1>1, <1>2, <1>5
<2>4. RecentLogs(forSlots) = {}
<3> SUFFICES ASSUME NEW e \in RecentLogs(forSlots) PROVE FALSE
  OBVIOUS
<3>1. e \in UNION {ToSet(Logs(n)) : n \in Numbers} /\ e.timestamp > lastSlot - forSlots
  BY DEF RecentLogs
<3>2. e.timestamp \in Nat /\ e.timestamp <= elBlocks[e.block] /\ e.block \in 1 .. Number
  BY <1>3, <3>1
<3>3. elBlocks[e.block] \in Nat /\ elBlocks[e.block] <= newest
  BY <1>4, <2>2, <3>2
<3> QED
  BY <1>1, <2>3, <3>1, <3>2, <3>3
<2> QED
  BY <2>1, <2>4, ListedEmpty
<1>6. CASE ~(back <= 0)
<2>1. from \in Int /\ from >= 0 /\ from >= Number - back /\ (from = 0 \/ from = Number - back)
<3>1. PICK b \in Int : b = Number - back
  BY <1>1, <1>2
<3>2. Max({0, b}) \in Int /\ Max({0, b}) >= 0 /\ Max({0, b}) >= b /\ (Max({0, b}) = 0 \/ Max({0, b}) = b)
  BY MaxOfTwo
<3> QED
  BY <3>1, <3>2
<2> HIDE DEF from, back
<2>2. from <= Number
  BY <1>1, <1>2, <1>6, <2>1
<2>3. Listed(events, LogsFrom(from, Number), LogOrder)
  BY <1>1, <2>1, <2>2, EventsInRangeListed
<2>4. \A e, f \in LogsFrom(from, Number) : <<e, f>> \in LogOrder => e # f
<3>1. LogsFrom(from, Number) \subseteq ElEvent
  BY <1>1, <2>1, LogsFromFacts
<3> QED
  BY <3>1, LogOrderFacts
<2>5. ToSet(events) = LogsFrom(from, Number)
  BY <2>3, <2>4, ListedInjective
<2> DEFINE S == {e \in ToSet(events) : e.timestamp > newest - back}
<2>6. EventsInPast(forSlots) = Those(events, S)
  BY <1>6 DEF EventsInPast, back, from, newest
<2>7. LogsFrom(from, Number) \cap S = RecentLogs(forSlots)
<3>1. ASSUME NEW e \in LogsFrom(from, Number) \cap S PROVE e \in RecentLogs(forSlots)
<4>1. e \in UNION {ToSet(Logs(n)) : n \in Numbers} /\ e.timestamp > newest - back
  BY <3>1 DEF LogsFrom
<4> QED
  BY <1>2, <4>1 DEF RecentLogs
<3>2. ASSUME NEW e \in RecentLogs(forSlots) PROVE e \in LogsFrom(from, Number) \cap S
<4>1. e \in UNION {ToSet(Logs(n)) : n \in Numbers} /\ e.timestamp > lastSlot - forSlots
  BY DEF RecentLogs
<4>2. /\ e.timestamp \in Nat /\ e.timestamp <= elBlocks[e.block] /\ e.block \in 1 .. Number
      /\ e \in ToSet(Logs(e.block))
  BY <1>3, <4>1
<4>3. elBlocks[e.block] \in Nat /\ Number - e.block <= newest - elBlocks[e.block]
  BY <1>4, <4>2
<4>4. e.timestamp > newest - back
  BY <1>2, <4>1
<4>5. from <= e.block
<5>1. PICK t \in Nat : t = e.timestamp
  BY <4>2
<5>2. PICK n \in Nat : n = e.block /\ 1 <= n
  BY <4>2
<5>3. PICK b \in Nat : b = elBlocks[e.block]
  BY <4>3
<5>4. t > newest - back /\ t <= b /\ Number - n <= newest - b
  BY <4>2, <4>3, <4>4, <5>1, <5>2, <5>3
<5>5. Number - back <= n
  BY <1>1, <1>2, <5>4
<5> QED
  BY <1>1, <2>1, <5>2, <5>5
<4>6. e.block \in Numbers \cap (from .. Number)
  BY <1>1, <2>1, <4>2, <4>5
<4>7. e \in LogsFrom(from, Number)
  BY <4>2, <4>6 DEF LogsFrom
<4> QED
  BY <2>5, <4>4, <4>7
<3> QED
  BY <3>1, <3>2
<2> HIDE DEF S, events
<2>8. Listed(Those(events, S), LogsFrom(from, Number) \cap S, LogOrder)
  BY <2>3, ListedThose
<2> QED
  BY <2>6, <2>7, <2>8
<1> QED
  BY <1>5, <1>6

LEMMA EventsAreFound == ElInv => EventsOfTheLastSlots
<1> SUFFICES ASSUME ElInv, NEW forSlots \in 1 .. lastSlot + 1
             PROVE  LET found == EventsInPast(forSlots)
                    IN /\ IsInjective(found)
                       /\ ToSet(found) = RecentLogs(forSlots)
                       /\ \A i, j \in DOMAIN found : i < j => found[i].block <= found[j].block
  BY Zenon DEF EventsOfTheLastSlots, RecentLogs
<1> DEFINE found == EventsInPast(forSlots)
<1>1. forSlots \in Nat
  BY ElFacts
<1>2. Listed(found, RecentLogs(forSlots), LogOrder)
  BY <1>1, EventsInPastListed
<1>3. \A e \in RecentLogs(forSlots) : e \in ElEvent
<2> SUFFICES ASSUME NEW n \in Numbers, NEW e \in ToSet(Logs(n)) PROVE e \in ElEvent
  BY DEF RecentLogs
<2> QED
  BY LogsListed
<1>4. \A e, f \in RecentLogs(forSlots) : <<e, f>> \in LogOrder => e # f
  BY <1>3, LogOrderFacts
<1>5. IsInjective(found) /\ ToSet(found) = RecentLogs(forSlots) /\ DOMAIN found = 1 .. Len(found)
<2> HIDE DEF found
<2> QED
  BY <1>2, <1>4, ListedInjective
<1>6. ASSUME NEW i \in DOMAIN found, NEW j \in DOMAIN found, i < j
      PROVE  found[i].block <= found[j].block
<2>1. <<found[i], found[j]>> \in LogOrder
<3> HIDE DEF found
<3> QED
  BY <1>2, <1>5, <1>6 DEF Listed
<2>2. found[i] \in ElEvent /\ found[j] \in ElEvent
<3>1. found[i] \in ToSet(found) /\ found[j] \in ToSet(found)
  BY DEF ToSet
<3> QED
  BY <1>3, <1>5, <3>1
<2> QED
  BY <2>1, <2>2, LogOrderFacts
<1> HIDE DEF found
<1>7. /\ IsInjective(found) /\ ToSet(found) = RecentLogs(forSlots)
      /\ \A i, j \in DOMAIN found : i < j => found[i].block <= found[j].block
  BY <1>5, <1>6
<1> QED
  BY <1>7 DEF found

-----------------------------------------------------------------------------
(* The timestamps of blocks *)

NumberOrder == {p \in Nat \X Nat : p[1] < p[2]}

\* A sorted list of numbers of blocks.
Ascending(blocks) ==
  /\ blocks \in Seq(Numbers)
  /\ \A i, j \in 1 .. Len(blocks) : i < j => blocks[i] < blocks[j]

LEMMA NumbersInOrder ==
  ASSUME NEW x \in Nat, NEW y \in Nat
  PROVE  <<x, y>> \in NumberOrder <=> x < y
<1>1. <<x, y>> \in Nat \X Nat /\ <<x, y>>[1] = x /\ <<x, y>>[2] = y
  OBVIOUS
<1> QED
  BY <1>1 DEF NumberOrder

LEMMA InOrderAscends ==
  ASSUME ElInv, NEW wanted \in SUBSET Numbers, wanted # {}
  PROVE  /\ Ascending(InOrder(wanted)) /\ ToSet(InOrder(wanted)) = wanted
         /\ Len(InOrder(wanted)) \in Nat \ {0} /\ DOMAIN InOrder(wanted) = 1 .. Len(InOrder(wanted))
<1> DEFINE all == [n \in Numbers |-> n]
<1>1. Numbers = 1 .. Number /\ Number \in Nat
  BY ElFacts
<1>3. Listed(all, Numbers, NumberOrder)
<2>1. all \in [1 .. Number -> Numbers] /\ \A n \in 1 .. Number : all[n] = n
  BY <1>1
<2>2. all \in Seq(Numbers) /\ Len(all) = Number
  BY <1>1, <2>1
<2> HIDE DEF all
<2>3. \A i, j \in 1 .. Number : i \in Nat /\ j \in Nat
  BY <1>1
<2>4. \A i, j \in 1 .. Number : i < j => <<all[i], all[j]>> \in NumberOrder
  BY <2>1, <2>3, NumbersInOrder
<2> QED
  BY <1>1, <2>1, <2>2, <2>4 DEF Listed
<1>4. Numbers \cap wanted = wanted /\ InOrder(wanted) = Those(all, wanted)
  BY DEF InOrder
<1> HIDE DEF all
<1>5. Listed(InOrder(wanted), wanted, NumberOrder)
<2>1. Listed(Those(all, wanted), Numbers \cap wanted, NumberOrder)
  BY <1>3, ListedThose
<2> QED
  BY <1>4, <2>1
<1> DEFINE blocks == InOrder(wanted)
<1> HIDE DEF blocks
<1>6. Listed(blocks, wanted, NumberOrder)
  BY <1>5 DEF blocks
<1>7. blocks \in Seq(wanted) /\ blocks \in Seq(Numbers) /\ Len(blocks) \in Nat
      /\ \A i \in 1 .. Len(blocks) : blocks[i] \in wanted /\ blocks[i] \in Nat
<2>1. blocks \in Seq(wanted)
  BY <1>6 DEF Listed
<2>2. blocks \in Seq(Numbers) /\ Len(blocks) \in Nat /\ \A i \in 1 .. Len(blocks) : blocks[i] \in wanted
  BY <2>1
<2> QED
  BY <1>1, <2>1, <2>2
<1>8. \A i, j \in 1 .. Len(blocks) : i < j => blocks[i] < blocks[j]
<2> SUFFICES ASSUME NEW i \in 1 .. Len(blocks), NEW j \in 1 .. Len(blocks), i < j
             PROVE  blocks[i] < blocks[j]
  OBVIOUS
<2>1. <<blocks[i], blocks[j]>> \in NumberOrder
  BY <1>6 DEF Listed
<2> QED
  BY <1>7, <2>1, NumbersInOrder
<1>9. ToSet(blocks) = wanted /\ DOMAIN blocks = 1 .. Len(blocks)
<2>1. \A x, y \in wanted : <<x, y>> \in NumberOrder => x # y
<3>1. \A x \in wanted : x \in Nat
  BY <1>1
<3> QED
  BY <3>1, NumbersInOrder
<2> QED
  BY <1>6, <2>1, ListedInjective
<1>10. Len(blocks) # 0
<2>1. PICK n \in wanted : TRUE
  OBVIOUS
<2>2. \E i \in 1 .. Len(blocks) : blocks[i] = n
  BY <1>6 DEF Listed
<2> QED
  BY <1>7, <2>2
<1> QED
  BY <1>7, <1>8, <1>9, <1>10 DEF blocks, Ascending

Mid(i, j) == i + (j - i + 1) \div 2

Segments(blocks) == {p \in (1 .. Len(blocks)) \X (1 .. Len(blocks)) : p[1] <= p[2]}

\* What Timestamps makes of a segment, from what it makes of its halves.
FromHalves(blocks, i, j, lower, upper) ==
  IF j - i + 1 > 2 /\ NoMissedSlot(blocks, i, j) THEN Calculated(blocks, i, j)
  ELSE IF (j - i + 1) - 2 <= BatchLimit THEN Fetched(blocks, i, j)
  ELSE lower \o Tail(upper)

IsTimes(blocks, times) ==
  times = [p \in Segments(blocks) |->
             FromHalves(blocks, p[1], p[2], times[<<p[1], Mid(p[1], p[2])>>],
                        times[<<Mid(p[1], p[2]), p[2]>>])]

LEMMA MidFacts ==
  ASSUME NEW i \in Int, NEW j \in Int, ~((j - i + 1) - 2 <= BatchLimit)
  PROVE  Mid(i, j) \in Int /\ i < Mid(i, j) /\ Mid(i, j) < j
<1>1. BatchLimit \in Nat
  BY ElAssumption
<1>2. j - i + 1 > 2
  BY <1>1
<1>3. PICK d \in Int : d = (j - i + 1) \div 2 /\ d >= 1 /\ d < j - i
  BY <1>2
<1>4. Mid(i, j) = i + d
  BY <1>3 DEF Mid
<1> QED
  BY <1>3, <1>4

LEMMA AscendingFacts ==
  ASSUME ElInv, NEW blocks, Ascending(blocks)
  PROVE  /\ Len(blocks) \in Nat
         /\ \A n \in 1 .. Len(blocks) : blocks[n] \in Nat /\ elBlocks[blocks[n]] \in Nat
         /\ \A i, j \in 1 .. Len(blocks) :
              i <= j => blocks[j] - blocks[i] <= elBlocks[blocks[j]] - elBlocks[blocks[i]]
<1>1. Len(blocks) \in Nat /\ \A n \in 1 .. Len(blocks) : blocks[n] \in Numbers
  BY DEF Ascending
<1>2. Number \in Nat /\ Numbers = 1 .. Number /\ \A n \in 1 .. Number : elBlocks[n] \in Nat /\ n \in Nat
  BY ElFacts
<1>3. \A n \in 1 .. Len(blocks) : blocks[n] \in Nat /\ elBlocks[blocks[n]] \in Nat
  BY <1>1, <1>2
<1>4. ASSUME NEW i \in 1 .. Len(blocks), NEW j \in 1 .. Len(blocks), i <= j
      PROVE  blocks[j] - blocks[i] <= elBlocks[blocks[j]] - elBlocks[blocks[i]]
<2>1. blocks[i] <= blocks[j]
<3>1. CASE i = j
  BY <1>3, <3>1
<3>2. CASE i # j
<4>1. i < j
  BY <1>1, <1>4, <3>2
<4>2. blocks[i] < blocks[j]
  BY <4>1 DEF Ascending
<4> QED
  BY <1>3, <4>2
<3> QED
  BY <3>1, <3>2
<2>2. blocks[i] \in 1 .. Number /\ blocks[j] \in 1 .. Number
  BY <1>1, <1>2
<2> QED
  BY <2>1, <2>2, ElFacts
<1> QED
  BY <1>1, <1>3, <1>4

\* Without a missed slot every block between is as many slots later as its number says.
LEMMA CalculatedIsFetched ==
  ASSUME ElInv, NEW blocks, Ascending(blocks), NEW i \in 1 .. Len(blocks), NEW j \in 1 .. Len(blocks),
         NoMissedSlot(blocks, i, j)
  PROVE  Calculated(blocks, i, j) = Fetched(blocks, i, j)
<1>1. ASSUME NEW k \in 1 .. j - i + 1
      PROVE  elBlocks[blocks[i]] + (blocks[i + k - 1] - blocks[i]) = elBlocks[blocks[i + k - 1]]
<2>1. Len(blocks) \in Nat
  BY AscendingFacts
<2>2. PICK n \in 1 .. Len(blocks) : n = i + k - 1 /\ i <= n /\ n <= j
  BY <2>1
<2>3. PICK a \in Nat, b \in Nat, c \in Nat : a = blocks[i] /\ b = blocks[n] /\ c = blocks[j]
  BY AscendingFacts
<2>4. PICK x \in Nat, y \in Nat, z \in Nat :
        x = elBlocks[blocks[i]] /\ y = elBlocks[blocks[n]] /\ z = elBlocks[blocks[j]]
  BY AscendingFacts
<2>5. b - a <= y - x /\ c - b <= z - y
  BY <2>2, <2>3, <2>4, AscendingFacts
<2>6. x + (c - a) = z
  BY <2>3, <2>4 DEF NoMissedSlot
<2>7. x + (b - a) = y
  BY <2>5, <2>6
<2> QED
  BY <2>2, <2>3, <2>4, <2>7
<1> QED
  BY <1>1 DEF Calculated, Fetched

LEMMA HalvesJoin ==
  ASSUME ElInv, NEW blocks, Ascending(blocks), NEW i \in 1 .. Len(blocks), NEW j \in 1 .. Len(blocks),
         NEW h \in Int, i < h, h < j
  PROVE  Fetched(blocks, i, h) \o Tail(Fetched(blocks, h, j)) = Fetched(blocks, i, j)
<1> DEFINE at(k) == elBlocks[blocks[k]]
           lower == Fetched(blocks, i, h)
           upper == Fetched(blocks, h, j)
<1>1. Len(blocks) \in Nat /\ \A k \in 1 .. Len(blocks) : at(k) \in Int
<2>1. \A k \in 1 .. Len(blocks) : elBlocks[blocks[k]] \in Nat
  BY AscendingFacts
<2> QED
  BY <2>1, AscendingFacts
<1>2. PICK a \in Nat : a = h - i + 1 /\ a >= 1
  OBVIOUS
<1>3. PICK b \in Nat : b = j - h + 1 /\ b >= 1
  OBVIOUS
<1>4. j - i + 1 = a + (b - 1) /\ h = i + a - 1
  BY <1>2, <1>3
<1>5. lower = [k \in 1 .. a |-> at(i + k - 1)] /\ upper = [k \in 1 .. b |-> at(h + k - 1)]
      /\ Fetched(blocks, i, j) = [k \in 1 .. a + (b - 1) |-> at(i + k - 1)]
  BY <1>2, <1>3, <1>4 DEF Fetched
<1>6. (\A k \in 1 .. a : i + k - 1 \in 1 .. Len(blocks)) /\ (\A k \in 1 .. b : h + k - 1 \in 1 .. Len(blocks))
<2>1. PICK n \in Nat : n = Len(blocks)
  BY <1>1
<2>2. i \in 1 .. n /\ j \in 1 .. n
  BY <2>1
<2>3. \A k \in 1 .. a : i + k - 1 \in 1 .. n
  BY <1>2, <2>2
<2>4. \A k \in 1 .. b : h + k - 1 \in 1 .. n
  BY <1>3, <2>2
<2> QED
  BY <2>1, <2>3, <2>4, Zenon
<1> HIDE DEF at, lower, upper
<1>7. lower \in [1 .. a -> Int] /\ upper \in [1 .. b -> Int]
  BY <1>1, <1>5, <1>6
<1>8. lower \in Seq(Int) /\ Len(lower) = a /\ upper \in Seq(Int) /\ Len(upper) = b
  BY <1>7
<1>9. upper # <<>>
  BY <1>3, <1>8
<1>10. Tail(upper) \in Seq(Int) /\ Len(Tail(upper)) = b - 1 /\ \A k \in 1 .. b - 1 : Tail(upper)[k] = upper[k + 1]
  BY <1>8, <1>9, HeadTailProperties
<1> DEFINE tail == Tail(upper)
<1> HIDE DEF tail
<1>11. tail \in Seq(Int) /\ Len(tail) = b - 1 /\ \A k \in 1 .. b - 1 : tail[k] = upper[k + 1]
  BY <1>10 DEF tail
<1>12. /\ lower \o tail \in Seq(Int) /\ Len(lower \o tail) = a + (b - 1)
       /\ \A k \in 1 .. a + (b - 1) : (lower \o tail)[k] = IF k <= a THEN lower[k] ELSE tail[k - a]
<2>1. PICK c \in Nat : c = b - 1
  BY <1>3
<2>2. tail \in Seq(Int) /\ Len(tail) = c
  BY <1>11, <2>1
<2>3. /\ lower \o tail \in Seq(Int) /\ Len(lower \o tail) = a + c
      /\ \A k \in 1 .. a + c : (lower \o tail)[k] = IF k <= a THEN lower[k] ELSE tail[k - a]
  BY <1>8, <2>2, ConcatProperties
<2> QED
  BY <2>1, <2>3
<1>13. ASSUME NEW k \in 1 .. a + (b - 1) PROVE (lower \o tail)[k] = at(i + k - 1)
<2>1. CASE k <= a
<3>1. k \in 1 .. a
  BY <1>2, <1>3, <2>1
<3> QED
  BY <1>5, <1>12, <2>1, <3>1
<2>2. CASE ~(k <= a)
<3>1. k - a \in 1 .. b - 1 /\ (k - a) + 1 \in 1 .. b /\ h + ((k - a) + 1) - 1 = i + k - 1
  BY <1>2, <1>3, <1>4, <2>2
<3>2. tail[k - a] = upper[(k - a) + 1]
  BY <1>11, <3>1
<3>3. upper[(k - a) + 1] = at(h + ((k - a) + 1) - 1)
  BY <1>5, <3>1
<3> QED
  BY <1>12, <2>2, <3>1, <3>2, <3>3
<2> QED
  BY <2>1, <2>2
<1>14. lower \o tail = [k \in 1 .. a + (b - 1) |-> at(i + k - 1)]
<2> DEFINE joined == lower \o tail
<2> HIDE DEF joined
<2>1. joined \in Seq(Int) /\ Len(joined) = a + (b - 1)
  BY <1>12 DEF joined
<2>2. joined \in [1 .. a + (b - 1) -> Int] /\ \A k \in 1 .. a + (b - 1) : joined[k] = at(i + k - 1)
<3>1. joined \in [1 .. Len(joined) -> Int]
  BY <2>1
<3> QED
  BY <1>13, <2>1, <3>1 DEF joined
<2>3. joined = [k \in 1 .. a + (b - 1) |-> at(i + k - 1)]
  BY <2>2
<2> QED
  BY <2>3 DEF joined
<1> QED
  BY <1>5, <1>14 DEF tail, lower, upper

\* Exact halves make an exact segment.
LEMMA SegmentIsExact ==
  ASSUME ElInv, NEW blocks, Ascending(blocks), NEW i \in 1 .. Len(blocks), NEW j \in 1 .. Len(blocks),
         NEW lower, NEW upper,
         ~((j - i + 1) - 2 <= BatchLimit) =>
           lower = Fetched(blocks, i, Mid(i, j)) /\ upper = Fetched(blocks, Mid(i, j), j)
  PROVE  FromHalves(blocks, i, j, lower, upper) = Fetched(blocks, i, j)
<1>1. CASE j - i + 1 > 2 /\ NoMissedSlot(blocks, i, j)
  BY <1>1, CalculatedIsFetched DEF FromHalves
<1>2. CASE ~(j - i + 1 > 2 /\ NoMissedSlot(blocks, i, j)) /\ (j - i + 1) - 2 <= BatchLimit
  BY <1>2 DEF FromHalves
<1>3. CASE ~(j - i + 1 > 2 /\ NoMissedSlot(blocks, i, j)) /\ ~((j - i + 1) - 2 <= BatchLimit)
<2>1. i \in Int /\ j \in Int
  OBVIOUS
<2>2. Mid(i, j) \in Int /\ i < Mid(i, j) /\ Mid(i, j) < j
  BY <1>3, <2>1, MidFacts
<2>3. lower \o Tail(upper) = Fetched(blocks, i, j)
  BY <1>3, <2>2, HalvesJoin
<2> QED
  BY <1>3, <2>3 DEF FromHalves
<1> QED
  BY <1>1, <1>2, <1>3

LEMMA TimesAreExact ==
  ASSUME ElInv, NEW blocks, Ascending(blocks), Len(blocks) # 0
  PROVE  Timestamps(blocks) = Fetched(blocks, 1, Len(blocks))
<1> DEFINE N == Len(blocks)
           times == CHOOSE times : IsTimes(blocks, times)
           Exact(d) == \A i, j \in 1 .. N :
                         i <= j /\ j - i <= d => times[<<i, j>>] = Fetched(blocks, i, j)
           Good == {d \in 0 .. N : Exact(d)}
<1>1. N \in Nat /\ 0 \in 0 .. N
  BY AscendingFacts
<1>2. \A p \in Segments(blocks) :
        /\ p[1] \in 1 .. N /\ p[2] \in 1 .. N /\ p[1] <= p[2]
        /\ p[1] \in Int /\ p[2] \in Int
  BY DEF Segments
<1>3. \A i, j \in 1 .. N : i <= j => <<i, j>> \in Segments(blocks)
  BY DEF Segments
<1>4. ASSUME NEW i \in 1 .. N, NEW j \in 1 .. N, i <= j, ~((j - i + 1) - 2 <= BatchLimit)
      PROVE  /\ Mid(i, j) \in 1 .. N /\ i <= Mid(i, j) /\ Mid(i, j) <= j
             /\ Mid(i, j) - i < j - i /\ j - Mid(i, j) < j - i
<2>1. Mid(i, j) \in Int /\ i < Mid(i, j) /\ Mid(i, j) < j
  BY <1>4, MidFacts
<2> QED
  BY <1>1, <2>1
<1>5. IsTimes(blocks, times)
<2> DEFINE f == [p \in Segments(blocks) |-> Fetched(blocks, p[1], p[2])]
<2>1. \A i, j \in 1 .. N : i <= j => f[<<i, j>>] = Fetched(blocks, i, j)
  BY <1>3
<2> HIDE DEF f
<2>2. ASSUME NEW p \in Segments(blocks)
      PROVE  Fetched(blocks, p[1], p[2]) =
               FromHalves(blocks, p[1], p[2], f[<<p[1], Mid(p[1], p[2])>>],
                          f[<<Mid(p[1], p[2]), p[2]>>])
<3>1. PICK i \in 1 .. N, j \in 1 .. N : i = p[1] /\ j = p[2] /\ i <= j
  BY <1>2
<3>2. ~((j - i + 1) - 2 <= BatchLimit) =>
        /\ f[<<i, Mid(i, j)>>] = Fetched(blocks, i, Mid(i, j))
        /\ f[<<Mid(i, j), j>>] = Fetched(blocks, Mid(i, j), j)
  BY <1>4, <2>1, <3>1
<3>3. FromHalves(blocks, i, j, f[<<i, Mid(i, j)>>], f[<<Mid(i, j), j>>]) = Fetched(blocks, i, j)
  BY <3>2, SegmentIsExact
<3> QED
  BY <3>1, <3>3
<2>3. IsTimes(blocks, f)
  BY <2>2 DEF IsTimes, f
<2> QED
  BY <2>3
<1> HIDE DEF times
<1>6. \A i, j \in 1 .. N : i <= j =>
        times[<<i, j>>] = FromHalves(blocks, i, j, times[<<i, Mid(i, j)>>], times[<<Mid(i, j), j>>])
  BY <1>3, <1>5 DEF IsTimes
<1>7. ASSUME NEW i \in 1 .. N, NEW j \in 1 .. N, i <= j,
             \A h, k \in 1 .. N : h <= k /\ k - h < j - i => times[<<h, k>>] = Fetched(blocks, h, k)
      PROVE  times[<<i, j>>] = Fetched(blocks, i, j)
<2>1. ~((j - i + 1) - 2 <= BatchLimit) =>
        /\ times[<<i, Mid(i, j)>>] = Fetched(blocks, i, Mid(i, j))
        /\ times[<<Mid(i, j), j>>] = Fetched(blocks, Mid(i, j), j)
  BY <1>4, <1>7
<2> QED
  BY <1>6, <1>7, <2>1, SegmentIsExact
<1>8. 0 \in Good
<2>1. ASSUME NEW i \in 1 .. N, NEW j \in 1 .. N, i <= j /\ j - i <= 0
      PROVE  times[<<i, j>>] = Fetched(blocks, i, j)
<3>1. \A h, k \in 1 .. N : ~(h <= k /\ k - h < j - i)
  BY <2>1
<3> QED
  BY <1>7, <2>1, <3>1
<2> QED
  BY <1>1, <2>1
<1>9. ASSUME NEW d \in 1 .. N, d - 1 \in Good PROVE d \in Good
<2>1. ASSUME NEW i \in 1 .. N, NEW j \in 1 .. N, i <= j /\ j - i <= d
      PROVE  times[<<i, j>>] = Fetched(blocks, i, j)
<3>1. \A h, k \in 1 .. N : h <= k /\ k - h < j - i => k - h <= d - 1
  BY <2>1
<3>2. \A h, k \in 1 .. N : h <= k /\ k - h < j - i => times[<<h, k>>] = Fetched(blocks, h, k)
  BY <1>9, <3>1
<3> QED
  BY <1>7, <2>1, <3>2
<2>2. d \in 0 .. N
  BY <1>1
<2> QED
  BY <2>1, <2>2
<1>10. N \in Good
<2>1. N \in 0 .. N
  BY <1>1
<2> HIDE DEF Good
<2> QED
  BY <1>1, <1>8, <1>9, <2>1, Upward
<1>11. times[<<1, N>>] = Fetched(blocks, 1, N)
<2>1. 1 \in 1 .. N /\ N \in 1 .. N /\ 1 <= N /\ N - 1 <= N
  BY <1>1
<2> QED
  BY <1>10, <2>1
<1>12. Timestamps(blocks) = times[<<1, N>>]
  BY Zenon DEF Timestamps, IsTimes, times, FromHalves, Segments, Mid
<1> QED
  BY <1>11, <1>12

LEMMA TimestampsExact == ElInv => TimestampsAreExact
<1> SUFFICES ASSUME ElInv, NEW wanted \in SUBSET Numbers, wanted # {}
             PROVE  BlockTimestamps(wanted) = [n \in wanted |-> elBlocks[n]]
  BY DEF TimestampsAreExact
<1> DEFINE blocks == InOrder(wanted)
           N == Len(blocks)
           times == Timestamps(blocks)
           place(n) == CHOOSE i \in DOMAIN blocks : blocks[i] = n
<1>1. Ascending(blocks) /\ ToSet(blocks) = wanted /\ N \in Nat \ {0} /\ DOMAIN blocks = 1 .. N
  BY InOrderAscends
<1>2. BlockTimestamps(wanted) = [n \in wanted |-> times[place(n)]]
  BY DEF BlockTimestamps
<1> HIDE DEF blocks
<1>3. times = Fetched(blocks, 1, N)
  BY <1>1, TimesAreExact
<1>4. N - 1 + 1 = N /\ \A k \in 1 .. N : 1 + k - 1 = k
  BY <1>1
<1>5. \A k \in 1 .. N : times[k] = elBlocks[blocks[k]]
  BY <1>3, <1>4 DEF Fetched
<1> HIDE DEF times
<1>6. ASSUME NEW n \in wanted PROVE times[place(n)] = elBlocks[n]
<2>1. \E i \in DOMAIN blocks : blocks[i] = n
  BY <1>1 DEF ToSet
<2>2. place(n) \in 1 .. N /\ blocks[place(n)] = n
  BY <1>1, <2>1
<2> QED
  BY <1>5, <2>2
<1> HIDE DEF place
<1> QED
  BY <1>2, <1>6

LEMMA ElInvariant == ElSpec => []ElInv
<1>1. ElInit => ElInv
  BY ElStart
<1>2. ElInv /\ [ElNext]_elVars => ElInv'
  BY ElStep
<1> QED
  BY <1>1, <1>2, PTL DEF ElSpec

\* events.py, block.py: the events of the last slots before the reference slot are found, each
\* once and in the order of the blocks, and the timestamps of any set of blocks are those of
\* the chain: wherever slots were missed and whatever the size of a search step and of a batch.
THEOREM ReadsMatch == ElSpec => []ReadsMatchTheChain
<1>1. ElInv => ReadsMatchTheChain
  BY EventsAreFound, TimestampsExact DEF ReadsMatchTheChain
<1> QED
  BY <1>1, ElInvariant, PTL

-----------------------------------------------------------------------------
(* The rewards of the reports *)

PastReport == [event : ElEvent, rewards : Int, elapsed : Nat \ {0}]

\* What a block may emit.
Emits(blocks, e) ==
  /\ e \in ElEvent /\ e.block \in DOMAIN blocks
  /\ e.timestamp <= blocks[e.block] /\ blocks[e.block] - e.timestamp <= MaxLag

\* Reports come one after the other, each with the time since the one before.
ReportsInv(blocks, reports) ==
  /\ reports \in Seq(PastReport)
  /\ \A i \in 1 .. Len(reports) : Emits(blocks, reports[i].event)
  /\ \A i, j \in 1 .. Len(reports) :
       i < j => /\ reports[i].event.block < reports[j].event.block
                /\ reports[i].event.timestamp < reports[j].event.timestamp
  /\ \A i \in 2 .. Len(reports) :
       reports[i].elapsed = reports[i].event.timestamp - reports[i - 1].event.timestamp

PredictionInv == ElInv /\ ReportsInv(elBlocks, distributed)

LEMMA PredictionStart == PredictionInit => PredictionInv
<1> SUFFICES ASSUME PredictionInit PROVE PredictionInv
  OBVIOUS
<1>1. ElInv
  BY ElStart DEF PredictionInit
<1>2. distributed = <<>> /\ <<>> \in Seq(PastReport) /\ Len(<<>>) = 0 /\ 1 .. 0 = {} /\ 2 .. 0 = {}
  BY DEF PredictionInit
<1>3. ReportsInv(elBlocks, distributed)
  BY <1>2 DEF ReportsInv
<1> QED
  BY <1>1, <1>3 DEF PredictionInv

\* A reference slot is not in the future.
LEMMA RefOfSlot ==
  ASSUME NEW s \in Nat
  PROVE  (s \div ReportPeriod) * ReportPeriod \in 0 .. s
<1>1. ReportPeriod \in Nat \ {0}
  BY PredictionAssumption
<1>2. PICK p \in Nat : p = ReportPeriod /\ p > 0
  BY <1>1
<1>3. PICK q \in Int : q = s \div p
  BY <1>2
<1>4. p * q <= s /\ s < p * q + p
  BY <1>2, <1>3
<1>5. q >= 0
<2> SUFFICES ASSUME q <= -1 PROVE FALSE
  BY <1>3
<2>1. p * q + p <= 0
<3>1. p * (-1 - q) >= 0 /\ p * (-1 - q) = 0 - p - p * q
  BY <1>2, <1>3
<3> QED
  BY <1>2, <1>3, <3>1
<2> QED
  BY <1>4, <2>1
<1>6. p * q >= 0 /\ q * p = p * q /\ q * p \in Int
  BY <1>2, <1>3, <1>5
<1> QED
  BY <1>2, <1>3, <1>4, <1>6

\* A new block leaves what the blocks before emit.
LEMMA BlockAdded ==
  ASSUME ElInv, AddBlock
  PROVE  /\ Number' = Number + 1 /\ DOMAIN elBlocks' = 1 .. Number + 1
         /\ elBlocks'[Number + 1] = lastSlot + 1 /\ lastSlot' = lastSlot + 1
         /\ \A e : Emits(elBlocks, e) => Emits(elBlocks', e) /\ e.block <= Number
<1>1. lastSlot' = lastSlot + 1 /\ elBlocks' = Append(elBlocks, lastSlot + 1)
  BY DEF AddBlock
<1>2. lastSlot + 1 \in Nat /\ elBlocks \in Seq(Nat) /\ Number = Len(elBlocks)
  BY ElFacts DEF Number
<1>3. /\ elBlocks' \in Seq(Nat) /\ Len(elBlocks') = Number + 1
      /\ DOMAIN elBlocks' = 1 .. Number + 1 /\ DOMAIN elBlocks = 1 .. Number
      /\ \A i \in 1 .. Number : elBlocks'[i] = elBlocks[i]
      /\ elBlocks'[Number + 1] = lastSlot + 1
  BY <1>1, <1>2
<1>4. ASSUME NEW e, Emits(elBlocks, e) PROVE Emits(elBlocks', e) /\ e.block <= Number
<2>1. e.block \in 1 .. Number /\ Number \in Nat
  BY <1>3, <1>4, ElFacts DEF Emits
<2>2. e.block \in 1 .. Number + 1 /\ e.block <= Number
  BY <2>1
<2> QED
  BY <1>3, <1>4, <2>1, <2>2 DEF Emits
<1>5. Number' = Number + 1
  BY <1>3 DEF Number
<1> QED
  BY <1>1, <1>3, <1>4, <1>5

LEMMA AddReportStep ==
  ASSUME PredictionInv, NEW gained \in Gains, AddReport(gained)
  PROVE  ReportsInv(elBlocks', distributed')
<1> DEFINE ref == (lastSlot \div ReportPeriod) * ReportPeriod
           added == [event |-> [block |-> Number + 1, timestamp |-> ref],
                      rewards |-> gained, elapsed |-> ref - LastReported]
           N == Len(distributed)
<1>1. /\ AddBlock /\ ref > LastReported /\ lastSlot' - ref <= MaxLag
      /\ distributed' = Append(distributed, added)
  BY DEF AddReport
<1>2. /\ ElInv /\ distributed \in Seq(PastReport) /\ N \in Nat
      /\ lastSlot \in Nat /\ Number \in Nat
  BY ElFacts DEF PredictionInv, ReportsInv
<1>3. ref \in 0 .. lastSlot
  BY <1>2, RefOfSlot
<1> HIDE DEF ref
<1>4. /\ Number' = Number + 1 /\ DOMAIN elBlocks' = 1 .. Number + 1
      /\ elBlocks'[Number + 1] = lastSlot + 1 /\ lastSlot' = lastSlot + 1
      /\ \A e : Emits(elBlocks, e) => Emits(elBlocks', e) /\ e.block <= Number
  BY <1>1, <1>2, BlockAdded
<1>5. \A i \in 1 .. N : /\ distributed[i] \in PastReport /\ distributed[i].event \in ElEvent
                        /\ distributed[i].event.timestamp \in Nat /\ distributed[i].event.block \in Nat
                        /\ Emits(elBlocks, distributed[i].event)
<2>1. \A i \in 1 .. N : distributed[i] \in PastReport /\ Emits(elBlocks, distributed[i].event)
  BY <1>2 DEF PredictionInv, ReportsInv
<2> QED
  BY <2>1 DEF PastReport, ElEvent
<1>6. /\ LastReported \in Nat
      /\ \A i \in 1 .. N : distributed[i].event.timestamp <= LastReported
      /\ N # 0 => LastReported = distributed[N].event.timestamp
<2>1. CASE N = 0
<3>1. distributed = <<>>
  BY <1>2, <2>1
<3>2. LastReported = 0
  BY <3>1 DEF LastReported
<3> QED
  BY <2>1, <3>2
<2>2. CASE N # 0
<3>1. N \in 1 .. N /\ distributed # <<>>
  BY <1>2, <2>2
<3>2. LastReported = distributed[N].event.timestamp
  BY <3>1 DEF LastReported, Last
<3>3. ASSUME NEW i \in 1 .. N PROVE distributed[i].event.timestamp <= distributed[N].event.timestamp
<4>1. CASE i = N
  BY <1>5, <3>1, <4>1
<4>2. CASE i # N
<5>1. i < N
  BY <1>2, <4>2
<5>2. distributed[i].event.timestamp < distributed[N].event.timestamp
  BY <3>1, <5>1 DEF PredictionInv, ReportsInv
<5> QED
  BY <1>5, <3>1, <5>2
<4> QED
  BY <4>1, <4>2
<3> QED
  BY <1>5, <3>1, <3>2, <3>3
<2> QED
  BY <2>1, <2>2
<1>7. /\ added \in PastReport /\ added.event.block = Number + 1 /\ added.event.timestamp = ref
      /\ added.elapsed = ref - LastReported /\ added.event \in ElEvent
<2>1. gained \in Int /\ ref \in Nat /\ Number + 1 \in Nat /\ ref - LastReported \in Nat \ {0}
  BY <1>1, <1>2, <1>3, <1>6, PredictionAssumption
<2> QED
  BY <2>1 DEF PastReport, ElEvent
<1> HIDE DEF added
<1>8. Emits(elBlocks', added.event)
<2>1. Number + 1 \in 1 .. Number + 1 /\ ref <= lastSlot + 1 /\ (lastSlot + 1) - ref <= MaxLag
  BY <1>1, <1>2, <1>3, <1>4
<2> QED
  BY <1>4, <1>7, <2>1 DEF Emits
<1>9. /\ distributed' \in Seq(PastReport) /\ Len(distributed') = N + 1
      /\ \A i \in 1 .. N : distributed'[i] = distributed[i]
      /\ distributed'[N + 1] = added
  BY <1>1, <1>2, <1>7
<1>10. ASSUME NEW i \in 1 .. N + 1 PROVE Emits(elBlocks', distributed'[i].event)
<2>1. CASE i = N + 1
  BY <1>8, <1>9, <2>1
<2>2. CASE i # N + 1
<3>1. i \in 1 .. N
  BY <1>2, <2>2
<3> QED
  BY <1>4, <1>5, <1>9, <3>1
<2> QED
  BY <2>1, <2>2
<1>11. ASSUME NEW i \in 1 .. N + 1, NEW j \in 1 .. N + 1, i < j
       PROVE  /\ distributed'[i].event.block < distributed'[j].event.block
              /\ distributed'[i].event.timestamp < distributed'[j].event.timestamp
<2>1. i \in 1 .. N /\ distributed'[i] = distributed[i]
  BY <1>2, <1>9, <1>11
<2>2. CASE j = N + 1
<3>1. distributed'[j] = added
  BY <1>9, <2>2
<3>2. distributed[i].event.block <= Number /\ distributed[i].event.timestamp <= LastReported
  BY <1>4, <1>5, <1>6, <2>1
<3>3. PICK a \in Nat, t \in Nat : a = distributed[i].event.block /\ t = distributed[i].event.timestamp
  BY <1>5, <2>1
<3>4. PICK q \in Nat, r \in Nat : q = ref /\ r = LastReported
  BY <1>3, <1>6
<3>5. a < Number + 1 /\ t < q
<4>1. ref > LastReported
  BY <1>1
<4>2. q > r
  BY <3>4, <4>1
<4>3. a <= Number
  BY <3>2, <3>3
<4>4. t <= r
  BY <3>2, <3>3, <3>4
<4>5. Number \in Nat
  BY <1>2
<4> QED
  BY <4>2, <4>3, <4>4, <4>5
<3> QED
  BY <1>7, <2>1, <3>1, <3>3, <3>4, <3>5
<2>3. CASE j # N + 1
<3>1. j \in 1 .. N /\ distributed'[j] = distributed[j]
  BY <1>2, <1>9, <2>3
<3> QED
  BY <1>11, <2>1, <3>1 DEF PredictionInv, ReportsInv
<2> QED
  BY <2>2, <2>3
<1>12. ASSUME NEW i \in 2 .. N + 1
       PROVE  distributed'[i].elapsed = distributed'[i].event.timestamp - distributed'[i - 1].event.timestamp
<2>1. i - 1 \in 1 .. N /\ distributed'[i - 1] = distributed[i - 1]
  BY <1>2, <1>9
<2>2. CASE i = N + 1
<3>1. i - 1 = N /\ N # 0
  BY <1>2, <2>2
<3>2. distributed'[i] = added
  BY <1>9, <2>2
<3> QED
  BY <1>6, <1>7, <2>1, <3>1, <3>2
<2>3. CASE i # N + 1
<3>1. i \in 2 .. N /\ i \in 1 .. N
  BY <1>2, <2>3
<3> QED
  BY <1>9, <2>1, <3>1 DEF PredictionInv, ReportsInv
<2> QED
  BY <2>2, <2>3
<1> QED
  BY <1>9, <1>10, <1>11, <1>12 DEF ReportsInv

LEMMA PredictionStep == PredictionInv /\ [PredictionNext]_predictionVars => PredictionInv'
<1> SUFFICES ASSUME PredictionInv, [PredictionNext]_predictionVars PROVE PredictionInv'
  OBVIOUS
<1>1. ElInv'
<2>1. [ElNext]_elVars
  BY DEF PredictionNext, AddReport, ElNext, predictionVars
<2> QED
  BY <2>1, ElStep DEF PredictionInv
<1>2. ReportsInv(elBlocks', distributed')
<2>1. CASE AddBlock /\ UNCHANGED distributed
<3>1. \A e : Emits(elBlocks, e) => Emits(elBlocks', e)
  BY <2>1, BlockAdded DEF PredictionInv
<3> QED
  BY <2>1, <3>1 DEF PredictionInv, ReportsInv
<2>2. CASE MissSlot /\ UNCHANGED distributed
  BY <2>2 DEF MissSlot, PredictionInv
<2>3. ASSUME NEW gained \in Gains, AddReport(gained) PROVE ReportsInv(elBlocks', distributed')
  BY <2>3, AddReportStep
<2>4. CASE UNCHANGED predictionVars
  BY <2>4 DEF predictionVars, elVars, PredictionInv
<2> QED
  BY <2>1, <2>2, <2>3, <2>4 DEF PredictionNext
<1>3. ReportsInv(elBlocks, distributed)' <=> ReportsInv(elBlocks', distributed')
  BY DEF ReportsInv, Emits
<1> QED
  BY <1>1, <1>2, <1>3 DEF PredictionInv

\* Two lists of the same members in the same order are one.
LEMMA ListedUnique ==
  ASSUME NEW A, NEW R, NEW s, NEW t, Listed(s, A, R), Listed(t, A, R),
         \A a, b \in A : <<a, b>> \in R => a # b /\ <<b, a>> \notin R
  PROVE  s = t
<1> DEFINE M == Len(s)
           N == Len(t)
           Same == {k \in 0 .. M : k <= N /\ \A i \in 1 .. k : s[i] = t[i]}
<1>1. /\ s \in Seq(A) /\ t \in Seq(A) /\ M \in Nat /\ N \in Nat
      /\ \A i \in 1 .. M : s[i] \in A
      /\ \A i \in 1 .. N : t[i] \in A
  BY DEF Listed
<1>2. /\ \A a, b \in A : <<a, b>> \in R => a # b
      /\ \A a, b \in A : <<a, b>> \in R => <<b, a>> \notin R
  OBVIOUS
<1>3. /\ \A i, j \in 1 .. M : s[i] = s[j] => i = j
      /\ \A i, j \in 1 .. N : t[i] = t[j] => i = j
  BY <1>2, ListedInjective
<1>4. 0 \in Same
  BY <1>1
<1>5. ASSUME NEW k \in 1 .. M, k - 1 \in Same PROVE k \in Same
<2>1. k - 1 <= N /\ \A i \in 1 .. k - 1 : s[i] = t[i]
  BY <1>5
<2>2. PICK j \in 1 .. N : t[j] = s[k]
  BY <1>1 DEF Listed
<2>3. j >= k
<3> SUFFICES ASSUME j < k PROVE FALSE
  BY <1>1
<3>1. j \in 1 .. k - 1 /\ j \in 1 .. M
  BY <1>1
<3>2. s[j] = s[k]
  BY <2>1, <2>2, <3>1
<3> QED
  BY <1>3, <3>1, <3>2
<2>4. k <= N /\ k \in 1 .. N
  BY <1>1, <2>3
<2>5. PICK i \in 1 .. M : s[i] = t[k]
  BY <1>1, <2>4 DEF Listed
<2>6. i >= k
<3> SUFFICES ASSUME i < k PROVE FALSE
  BY <1>1
<3>1. i \in 1 .. k - 1 /\ i \in 1 .. N
  BY <1>1, <2>4
<3>2. t[i] = t[k]
  BY <2>1, <2>5, <3>1
<3> QED
  BY <1>3, <2>4, <3>1, <3>2
<2>7. s[k] = t[k]
<3> SUFFICES ASSUME s[k] # t[k] PROVE FALSE
  OBVIOUS
<3>1. i > k /\ j > k
  BY <1>1, <2>2, <2>3, <2>5, <2>6
<3>2. <<s[k], s[i]>> \in R
  BY <3>1 DEF Listed
<3>3. <<t[k], t[j]>> \in R
  BY <2>4, <3>1 DEF Listed
<3>4. <<s[k], t[k]>> \in R /\ <<t[k], s[k]>> \in R /\ s[k] \in A /\ t[k] \in A
  BY <1>1, <2>2, <2>4, <2>5, <3>2, <3>3
<3> QED
  BY <1>2, <3>4
<2>8. \A h \in 1 .. k : h \in 1 .. k - 1 \/ h = k
  OBVIOUS
<2>9. \A h \in 1 .. k : s[h] = t[h]
  BY <2>1, <2>7, <2>8
<2> QED
  BY <1>1, <2>4, <2>9
<1>6. M \in Same
<2>1. M \in 0 .. M
  BY <1>1
<2> HIDE DEF Same
<2> QED
  BY <1>1, <1>4, <1>5, <2>1, Upward
<1>7. M = N
<2> SUFFICES ASSUME M # N PROVE FALSE
  OBVIOUS
<2>1. M < N /\ M + 1 \in 1 .. N
  BY <1>1, <1>6
<2>2. PICK i \in 1 .. M : s[i] = t[M + 1]
  BY <1>1, <2>1 DEF Listed
<2>3. t[i] = t[M + 1] /\ i \in 1 .. N /\ i # M + 1
  BY <1>1, <1>6, <2>1, <2>2
<2> QED
  BY <1>3, <2>1, <2>3
<1>8. \A i \in 1 .. M : s[i] = t[i]
  BY <1>6
<1> QED
  BY <1>1, <1>7, <1>8

ReportOrder == {p \in PastReport \X PastReport : p[1].event.block < p[2].event.block}

LEMMA ReportsInOrder ==
  ASSUME NEW a \in PastReport, NEW b \in PastReport
  PROVE  <<a, b>> \in ReportOrder <=> a.event.block < b.event.block
<1>1. <<a, b>> \in PastReport \X PastReport /\ <<a, b>>[1] = a /\ <<a, b>>[2] = b
  OBVIOUS
<1> QED
  BY <1>1 DEF ReportOrder

LEMMA ReportsFacts ==
  ASSUME PredictionInv
  PROVE  /\ distributed \in Seq(PastReport) /\ Len(distributed) \in Nat
         /\ DOMAIN distributed = 1 .. Len(distributed)
         /\ \A i \in 1 .. Len(distributed) :
              /\ distributed[i] \in PastReport /\ distributed[i].event \in ElEvent
              /\ distributed[i].event.block \in Nat /\ distributed[i].event.timestamp \in Nat
              /\ distributed[i].elapsed \in Nat \ {0} /\ distributed[i].rewards \in Int
              /\ Emits(elBlocks, distributed[i].event)
<1>1. distributed \in Seq(PastReport)
  BY DEF PredictionInv, ReportsInv
<1>2. \A i \in 1 .. Len(distributed) : distributed[i] \in PastReport /\ Emits(elBlocks, distributed[i].event)
  BY <1>1 DEF PredictionInv, ReportsInv
<1>3. \A r \in PastReport : /\ r.event \in ElEvent /\ r.event.block \in Nat /\ r.event.timestamp \in Nat
                            /\ r.elapsed \in Nat \ {0} /\ r.rewards \in Int
  BY DEF PastReport, ElEvent
<1> QED
  BY <1>1, <1>2, <1>3

LEMMA ReportsListed ==
  ASSUME PredictionInv
  PROVE  /\ Listed(distributed, ToSet(distributed), ReportOrder)
         /\ ToSet(distributed) \subseteq PastReport
         /\ \A r, q \in ToSet(distributed) : r.event = q.event => r = q
<1> DEFINE N == Len(distributed)
<1>1. ToSet(distributed) = {distributed[i] : i \in 1 .. N}
  BY ReportsFacts DEF ToSet
<1>2. distributed \in [1 .. N -> ToSet(distributed)]
<2>1. distributed \in [1 .. N -> PastReport]
  BY ReportsFacts
<2> QED
  BY <1>1, <2>1
<1>3. distributed \in Seq(ToSet(distributed))
  BY <1>2, ReportsFacts
<1>4. ASSUME NEW i \in 1 .. N, NEW j \in 1 .. N, i < j PROVE <<distributed[i], distributed[j]>> \in ReportOrder
<2>1. distributed[i].event.block < distributed[j].event.block
  BY <1>4 DEF PredictionInv, ReportsInv
<2> QED
  BY <2>1, ReportsFacts, ReportsInOrder
<1>5. ASSUME NEW r \in ToSet(distributed), NEW q \in ToSet(distributed), r.event = q.event PROVE r = q
<2>1. PICK i \in 1 .. N, j \in 1 .. N : r = distributed[i] /\ q = distributed[j]
  BY <1>1
<2>2. distributed[i].event.block = distributed[j].event.block /\ distributed[i].event.block \in Nat
  BY <1>5, <2>1, ReportsFacts
<2>3. ~(i < j)
<3>1. i < j => distributed[i].event.block < distributed[j].event.block
  BY DEF PredictionInv, ReportsInv
<3> QED
  BY <2>2, <3>1
<2>4. ~(j < i)
<3>1. j < i => distributed[j].event.block < distributed[i].event.block
  BY DEF PredictionInv, ReportsInv
<3> QED
  BY <2>2, <3>1
<2>5. i = j
  BY <2>3, <2>4
<2> QED
  BY <2>1, <2>5
<1>6. ToSet(distributed) \subseteq PastReport
  BY <1>1, ReportsFacts
<1> QED
  BY <1>1, <1>3, <1>4, <1>5, <1>6 DEF Listed

\* The events of a report are among those of its block.
LEMMA EmittedIsLogged ==
  ASSUME ElInv, NEW e, Emits(elBlocks, e)
  PROVE  e.block \in Numbers /\ e \in ToSet(Logs(e.block))
<1> DEFINE n == e.block
           w == Min({MaxLag, elBlocks[n]})
<1>1. /\ e \in [block : Nat, timestamp : Nat] /\ n \in Numbers
      /\ e.timestamp <= elBlocks[n] /\ elBlocks[n] - e.timestamp <= MaxLag
  BY DEF Emits, ElEvent, Numbers
<1>2. PICK t \in Nat, b \in Nat : t = e.timestamp /\ b = elBlocks[n]
  BY <1>1, ElFacts
<1>3. b - t \in Nat /\ b - t <= w /\ w \in Int
<2>1. PICK a \in Int : a = MaxLag
  BY ElAssumption
<2>2. Min({a, b}) \in Int /\ (Min({a, b}) = a \/ Min({a, b}) = b)
  BY MinOfTwo
<2>3. t <= b /\ b - t <= a
  BY <1>1, <1>2, <2>1
<2> QED
  BY <1>2, <2>1, <2>2, <2>3
<1>4. PICK k \in 1 .. w + 1 : k = b - t + 1
  BY <1>3
<1>5. b - (k - 1) = t
  BY <1>2, <1>4
<1>6. Logs(n) = [i \in 1 .. w + 1 |-> [block |-> n, timestamp |-> elBlocks[n] - (i - 1)]]
  BY <1>1 DEF Logs
<1>7. Logs(n)[k] = [block |-> n, timestamp |-> t] /\ k \in DOMAIN Logs(n)
  BY <1>2, <1>5, <1>6
<1>8. e = [block |-> n, timestamp |-> t]
  BY <1>1, <1>2
<1> QED
  BY <1>1, <1>7, <1>8 DEF ToSet

RecentReports == {r \in ToSet(distributed) : r.event.timestamp > lastSlot - Duration}

LEMMA RecentIsListed ==
  ASSUME PredictionInv
  PROVE  Listed(Recent, RecentReports, ReportOrder)
<1> DEFINE events == {r.event : r \in ToSet(distributed)}
           found == Those(EventsInPast(Duration), events)
           reportOf(e) == CHOOSE r \in ToSet(distributed) : r.event = e
           A == RecentLogs(Duration) \cap events
<1>1. Listed(found, A, LogOrder)
<2>1. Duration \in Nat
  BY PredictionAssumption
<2>2. Listed(EventsInPast(Duration), RecentLogs(Duration), LogOrder)
  BY <2>1, EventsInPastListed DEF PredictionInv
<2> HIDE DEF events
<2> QED
  BY <2>2, ListedThose
<1>2. \A r \in ToSet(distributed) : reportOf(r.event) = r /\ r \in PastReport
  BY ReportsListed
<1>3. ASSUME NEW e \in A
      PROVE  /\ reportOf(e) \in RecentReports /\ reportOf(e).event = e /\ reportOf(e) \in PastReport
             /\ e \in ElEvent
<2>1. PICK r \in ToSet(distributed) : e = r.event
  OBVIOUS
<2>2. e.timestamp > lastSlot - Duration
  BY DEF RecentLogs
<2>3. e \in ElEvent
  BY <1>2, <2>1 DEF PastReport
<2> QED
  BY <1>2, <2>1, <2>2, <2>3 DEF RecentReports
<1>4. ASSUME NEW r \in RecentReports PROVE r.event \in A /\ reportOf(r.event) = r
<2>1. r \in ToSet(distributed) /\ r.event.timestamp > lastSlot - Duration
  BY DEF RecentReports
<2>2. PICK i \in 1 .. Len(distributed) : r = distributed[i]
  BY <2>1, ReportsFacts DEF ToSet
<2>3. Emits(elBlocks, r.event)
  BY <2>2, ReportsFacts
<2>4. r.event.block \in Numbers /\ r.event \in ToSet(Logs(r.event.block))
  BY <2>3, EmittedIsLogged DEF PredictionInv
<2>5. r.event \in RecentLogs(Duration)
  BY <2>1, <2>4 DEF RecentLogs
<2> QED
  BY <1>2, <2>1, <2>5
<1> HIDE DEF A, reportOf
<1> DEFINE N == Len(found)
<1>5. /\ found \in Seq(A) /\ N \in Nat /\ DOMAIN found = 1 .. N
      /\ \A i \in 1 .. N : found[i] \in A
<2> HIDE DEF found
<2> QED
  BY <1>1 DEF Listed
<1>6. Recent = [k \in 1 .. N |-> reportOf(found[k])]
<2>1. Recent = [k \in DOMAIN found |-> reportOf(found[k])]
  BY Zenon DEF Recent, reportOf
<2> HIDE DEF found
<2> QED
  BY <1>5, <2>1
<1> HIDE DEF found
<1>7. Recent \in Seq(RecentReports) /\ Len(Recent) = N
<2>1. Recent \in [1 .. N -> RecentReports]
  BY <1>3, <1>5, <1>6
<2> QED
  BY <1>5, <2>1
<1>8. ASSUME NEW r \in RecentReports PROVE \E i \in 1 .. N : Recent[i] = r
<2>1. r.event \in A /\ reportOf(r.event) = r
  BY <1>4
<2>2. PICK i \in 1 .. N : found[i] = r.event
  BY <1>1, <2>1 DEF Listed
<2> QED
  BY <1>6, <2>1, <2>2
<1>9. ASSUME NEW i \in 1 .. N, NEW j \in 1 .. N, i < j PROVE <<Recent[i], Recent[j]>> \in ReportOrder
<2>1. <<found[i], found[j]>> \in LogOrder
  BY <1>1, <1>9 DEF Listed
<2>2. /\ Recent[i] \in PastReport /\ Recent[j] \in PastReport
      /\ Recent[i].event = found[i] /\ Recent[j].event = found[j]
      /\ found[i] \in ElEvent /\ found[j] \in ElEvent /\ found[i] \in A /\ found[j] \in A
  BY <1>3, <1>5, <1>6
<2>3. found[i].block <= found[j].block /\ found[i] # found[j]
  BY <2>1, <2>2, LogOrderFacts
<2>4. found[i].block # found[j].block
<3>1. PICK r \in ToSet(distributed), q \in ToSet(distributed) : found[i] = r.event /\ found[j] = q.event
  BY <2>2 DEF A
<3>2. r # q
  BY <2>3, <3>1
<3>3. PICK h \in 1 .. Len(distributed), k \in 1 .. Len(distributed) : r = distributed[h] /\ q = distributed[k]
  BY ReportsFacts DEF ToSet
<3>4. h < k \/ k < h
  BY <3>2, <3>3
<3>5. distributed[h].event.block < distributed[k].event.block \/ distributed[k].event.block < distributed[h].event.block
  BY <3>4 DEF PredictionInv, ReportsInv
<3>6. PICK a \in Nat, b \in Nat : a = distributed[h].event.block /\ b = distributed[k].event.block
  BY ReportsFacts
<3>7. a # b
  BY <3>5, <3>6
<3> QED
  BY <3>1, <3>3, <3>6, <3>7
<2>5. Recent[i].event.block < Recent[j].event.block
<3>1. found[i].block \in Nat /\ found[j].block \in Nat
  BY <2>2 DEF ElEvent
<3> QED
  BY <2>2, <2>3, <2>4, <3>1
<2> QED
  BY <2>2, <2>5, ReportsInOrder
<1> QED
  BY <1>7, <1>8, <1>9 DEF Listed

\* No report comes both before and after another.
LEMMA RecentReportsOrder ==
  ASSUME PredictionInv
  PROVE  \A a, b \in RecentReports : <<a, b>> \in ReportOrder => a # b /\ <<b, a>> \notin ReportOrder
<1>1. ASSUME NEW a \in RecentReports, NEW b \in RecentReports, <<a, b>> \in ReportOrder
      PROVE  a # b /\ <<b, a>> \notin ReportOrder
<2>1. a \in PastReport /\ b \in PastReport
  BY ReportsListed DEF RecentReports
<2>2. PICK m \in Nat, n \in Nat : m = a.event.block /\ n = b.event.block
  BY <2>1 DEF PastReport, ElEvent
<2>3. m < n
  BY <1>1, <2>1, <2>2, ReportsInOrder
<2>4. ~(n < m) /\ m # n
  BY <2>3
<2> QED
  BY <2>1, <2>2, <2>4, ReportsInOrder
<1> QED
  BY <1>1

\* The reports whose events are found are those of the last slots.
LEMMA RecentSame ==
  ASSUME PredictionInv
  PROVE  Recent = Those(distributed, RecentReports)
<1>1. Listed(Those(distributed, RecentReports), ToSet(distributed) \cap RecentReports, ReportOrder)
  BY ReportsListed, ListedThose
<1>2. ToSet(distributed) \cap RecentReports = RecentReports
  BY DEF RecentReports
<1>3. \A a, b \in RecentReports : <<a, b>> \in ReportOrder => a # b /\ <<b, a>> \notin ReportOrder
  BY RecentReportsOrder
<1>4. Listed(Those(distributed, RecentReports), RecentReports, ReportOrder)
  BY <1>1, <1>2
<1> QED
  BY <1>3, <1>4, RecentIsListed, ListedUnique

\* They are the last ones processed.
LEMMA RecentAreLast ==
  ASSUME PredictionInv, RecentReports # {}
  PROVE  \E m \in 1 .. Len(distributed) :
           /\ Recent \in Seq(PastReport) /\ Len(Recent) = Len(distributed) - m + 1
           /\ \A k \in 1 .. Len(Recent) : Recent[k] = distributed[m + k - 1]
<1> DEFINE N == Len(distributed)
           time(i) == distributed[i].event.timestamp
           Late == {i \in 1 .. N : time(i) > lastSlot - Duration}
<1>1. /\ N \in Nat /\ lastSlot \in Nat /\ Duration \in Nat
      /\ \A i \in 1 .. N : time(i) \in Nat /\ distributed[i] \in PastReport
  BY ReportsFacts, ElFacts, PredictionAssumption DEF PredictionInv
<1>2. RecentReports = {distributed[i] : i \in Late}
<2>1. ToSet(distributed) = {distributed[i] : i \in 1 .. N}
  BY ReportsFacts DEF ToSet
<2> QED
  BY <2>1 DEF RecentReports
<1>3. PICK m \in Late : \A i \in Late : m <= i
<2>1. Late # {} /\ Late \in SUBSET Nat
  BY <1>1, <1>2
<2> HIDE DEF Late
<2> QED
  BY <2>1, LeastNat
<1>4. ASSUME NEW i \in m .. N PROVE i \in Late
<2>1. i \in 1 .. N /\ m \in 1 .. N /\ (i = m \/ m < i)
  BY <1>1, <1>3
<2>2. m < i => time(m) < time(i)
  BY <2>1 DEF PredictionInv, ReportsInv
<2>3. PICK a \in Nat, b \in Nat : a = time(m) /\ b = time(i)
  BY <1>1, <2>1
<2>4. a > lastSlot - Duration
  BY <1>3, <2>3
<2>5. a <= b
<3>1. m = i => a = b
  BY <2>3
<3>2. m < i => a < b
  BY <2>2, <2>3
<3> QED
  BY <2>1, <3>1, <3>2
<2>6. b > lastSlot - Duration
  BY <1>1, <2>4, <2>5
<2> QED
  BY <2>1, <2>3, <2>6
<1>5. Late = m .. N
  BY <1>1, <1>3, <1>4
<1>6. m \in 1 .. N
  BY <1>3
<1> HIDE DEF Late
<1> DEFINE L == N - m + 1
           tail == [k \in 1 .. L |-> distributed[m + k - 1]]
<1>7. L \in Nat /\ \A k \in 1 .. L : m + k - 1 \in m .. N /\ m + k - 1 \in 1 .. N
  BY <1>1, <1>6
<1>8. tail \in Seq(RecentReports) /\ Len(tail) = L
<2>1. tail \in [1 .. L -> RecentReports]
  BY <1>2, <1>5, <1>7
<2>2. L \in Nat
  BY <1>7
<2> HIDE DEF L
<2>3. DOMAIN tail = 1 .. L
  OBVIOUS
<2> HIDE DEF tail
<2> QED
  BY <2>1, <2>2, <2>3
<1>9. ASSUME NEW r \in RecentReports PROVE \E k \in 1 .. L : tail[k] = r
<2>1. PICK i \in m .. N : r = distributed[i]
  BY <1>2, <1>5
<2>2. i - m + 1 \in 1 .. L /\ m + (i - m + 1) - 1 = i
  BY <1>1, <1>6
<2> QED
  BY <2>1, <2>2
<1>10. ASSUME NEW j \in 1 .. L, NEW k \in 1 .. L, j < k PROVE <<tail[j], tail[k]>> \in ReportOrder
<2>1. m + j - 1 \in 1 .. N /\ m + k - 1 \in 1 .. N /\ m + j - 1 < m + k - 1
  BY <1>6, <1>7, <1>10
<2>2. distributed[m + j - 1].event.block < distributed[m + k - 1].event.block
  BY <2>1 DEF PredictionInv, ReportsInv
<2> QED
  BY <1>1, <2>1, <2>2, ReportsInOrder
<1>11. Listed(tail, RecentReports, ReportOrder)
<2> HIDE DEF tail, L
<2> QED
  BY <1>8, <1>9, <1>10 DEF Listed
<1>12. Recent = tail
<2>1. \A a, b \in RecentReports : <<a, b>> \in ReportOrder => a # b /\ <<b, a>> \notin ReportOrder
  BY RecentReportsOrder
<2> HIDE DEF tail
<2> QED
  BY <1>11, <2>1, RecentIsListed, ListedUnique
<1>13. RecentReports \subseteq PastReport
  BY <1>1, <1>2, <1>5, <1>6
<1>14. tail \in Seq(PastReport)
<2> HIDE DEF tail
<2> QED
  BY <1>8, <1>13
<1> QED
  BY <1>6, <1>8, <1>12, <1>14

LEMMA OneStep ==
  ASSUME NEW a \in Int, NEW b \in Int, NEW c \in Int, NEW d \in Int, NEW e \in Int, NEW s \in Int,
         e = a - b, s = b - (c - d)
  PROVE  e + s = a - (c - d)
  OBVIOUS

\* The differences between numbers that come one after the other.
LEMMA SumOfSteps ==
  ASSUME NEW n \in Nat \ {0}, NEW f, NEW t,
         \A k \in 1 .. n : f[k] \in Int /\ t[k] \in Int,
         \A k \in 2 .. n : f[k] = t[k] - t[k - 1]
  PROVE  SumFunctionOnSet(f, 1 .. n) = t[n] - (t[1] - f[1])
<1> DEFINE Good == {k \in 0 .. n : k = 0 \/ SumFunctionOnSet(f, 1 .. k) = t[k] - (t[1] - f[1])}
<1>1. PICK start \in Int, first \in Int : start = t[1] /\ first = f[1]
<2>1. 1 \in 1 .. n
  OBVIOUS
<2> QED
  BY <2>1
<1>2. ASSUME NEW k \in 1 .. n, k - 1 \in Good PROVE k \in Good
<2>1. k \in Nat /\ k >= 1 /\ k <= n
  OBVIOUS
<2>2. IsFiniteSet(1 .. k)
  BY <2>1, FS_Interval
<2>3. (1 .. k) \ {k} = 1 .. k - 1 /\ k \in 1 .. k
  BY <2>1
<2>4. \A j \in 1 .. k : f[j] \in Int
  BY <2>1
<2>5. SumFunctionOnSet(f, 1 .. k) = f[k] + SumFunctionOnSet(f, 1 .. k - 1)
<3> DEFINE S == 1 .. k
<3>1. Int \in {Nat, Int} /\ IsFiniteSet(S) /\ k \in S /\ \A j \in S : f[j] \in Int
  BY <2>2, <2>3, <2>4
<3> HIDE DEF S
<3>2. \A j \in S : SumFunctionOnSet(f, S) = f[j] + SumFunctionOnSet(f, S \ {j})
  BY <3>1, SumFacts
<3>3. SumFunctionOnSet(f, S) = f[k] + SumFunctionOnSet(f, S \ {k})
  BY <3>1, <3>2
<3> QED
  BY <2>3, <3>3 DEF S
<2>6. PICK a \in Int, e \in Int : a = t[k] /\ e = f[k]
  OBVIOUS
<2>7. CASE k = 1
<3>1. SumFunctionOnSet(f, 1 .. 1) = f[1]
<4>1. 1 .. 1 = {1}
  OBVIOUS
<4> QED
  BY <2>4, <2>7, <4>1, SumOfOne
<3>2. SumFunctionOnSet(f, 1 .. 1) = t[1] - (t[1] - f[1])
  BY <1>1, <3>1
<3> QED
  BY <2>1, <2>7, <3>2
<2>8. CASE k # 1
<3>1. k - 1 \in 1 .. n /\ k \in 2 .. n
  BY <2>1, <2>8
<3>2. PICK b \in Int : b = t[k - 1]
  BY <3>1
<3>3. SumFunctionOnSet(f, 1 .. k - 1) = b - (start - first)
<4>1. k - 1 # 0
  BY <2>1, <2>8
<4> QED
  BY <1>1, <1>2, <3>2, <4>1
<3>4. e = a - b
  BY <2>6, <3>1, <3>2
<3>5. PICK sum \in Int : sum = SumFunctionOnSet(f, 1 .. k - 1) /\ sum = b - (start - first)
  BY <3>3
<3>6. SumFunctionOnSet(f, 1 .. k) = e + sum
  BY <2>5, <2>6, <3>5
<3>7. e + sum = a - (start - first)
<4>1. sum = b - (start - first)
  BY <3>5
<4> QED
  BY <3>4, <4>1, OneStep
<3> QED
  BY <1>1, <2>1, <2>6, <3>6, <3>7
<2> QED
  BY <2>7, <2>8
<1>3. n \in Good
<2>1. 0 \in Good /\ n \in 0 .. n /\ n \in Nat
  OBVIOUS
<2> HIDE DEF Good
<2> QED
  BY <1>2, <2>1, Upward
<1> QED
  BY <1>3

\* The periods of reports that come one after the other add up to the time between the ends.
LEMMA TimeOfReports ==
  ASSUME PredictionInv, RecentReports # {}
  PROVE  /\ Len(Recent) \in Nat \ {0} /\ Recent \in Seq(PastReport)
         /\ TimeSpent(Recent) = Last(Recent).event.timestamp
                                  - (Head(Recent).event.timestamp - Head(Recent).elapsed)
         /\ TimeSpent(Recent) \in Nat \ {0} /\ RewardsOf(Recent) \in Int
<1> DEFINE N == Len(distributed)
           L == Len(Recent)
           time(i) == distributed[i].event.timestamp
           elapsed(i) == distributed[i].elapsed
           f == [k \in 1 .. L |-> Recent[k].elapsed]
           g == [k \in 1 .. L |-> Recent[k].rewards]
<1>1. PICK m \in 1 .. N : /\ Recent \in Seq(PastReport) /\ L = N - m + 1
                          /\ \A k \in 1 .. L : Recent[k] = distributed[m + k - 1]
  BY RecentAreLast
<1>2. /\ N \in Nat
      /\ \A i \in 1 .. N : time(i) \in Nat /\ elapsed(i) \in Nat \ {0}
                             /\ distributed[i].rewards \in Int
  BY ReportsFacts
<1>3. L \in Nat \ {0} /\ DOMAIN Recent = 1 .. L
  BY <1>1, <1>2
<1>4. \A k \in 1 .. L : m + k - 1 \in 1 .. N
  BY <1>1, <1>2
<1>5. /\ \A k \in 1 .. L : f[k] = elapsed(m + k - 1)
      /\ \A k \in 1 .. L : f[k] \in Nat \ {0} /\ g[k] \in Int
  BY <1>1, <1>2, <1>4
<1>6. TimeSpent(Recent) = SumFunctionOnSet(f, 1 .. L) /\ RewardsOf(Recent) = SumFunctionOnSet(g, 1 .. L)
<2>1. TimeSpent(Recent) = SumFunction(f) /\ RewardsOf(Recent) = SumFunction(g)
  BY <1>3, Zenon DEF TimeSpent, RewardsOf
<2>2. DOMAIN f = 1 .. L /\ DOMAIN g = 1 .. L
  OBVIOUS
<2> HIDE DEF f, g
<2> QED
  BY <2>1, <2>2, Zenon DEF SumFunction
<1> HIDE DEF f, g
<1> DEFINE t == [k \in 1 .. L |-> time(m + k - 1)]
<1>7. \A k \in 1 .. L : t[k] = time(m + k - 1)
  OBVIOUS
<1>8. \A k \in 1 .. L : f[k] \in Int /\ t[k] \in Int
  BY <1>2, <1>4, <1>5
<1>9. ASSUME NEW k \in 2 .. L PROVE f[k] = t[k] - t[k - 1]
<2>1. PICK i \in Int : i = m + k - 1
  BY <1>1, <1>2
<2>2. k \in 1 .. L /\ k - 1 \in 1 .. L /\ i \in 2 .. N /\ m + (k - 1) - 1 = i - 1
<3>1. L \in Nat /\ N \in Nat /\ L = N - m + 1
  BY <1>1, <1>2, <1>3
<3> HIDE DEF L, N
<3> QED
  BY <2>1, <3>1
<2>3. elapsed(i) = time(i) - time(i - 1)
  BY <2>2 DEF PredictionInv, ReportsInv
<2>4. f[k] = elapsed(i) /\ t[k] = time(i)
  BY <1>5, <1>7, <2>1, <2>2
<2>5. t[k - 1] = time(i - 1)
  BY <1>7, <2>2
<2> QED
  BY <2>3, <2>4, <2>5
<1> HIDE DEF t
<1>10. SumFunctionOnSet(f, 1 .. L) = t[L] - (t[1] - f[1])
  BY <1>3, <1>8, <1>9, SumOfSteps
<1>11. /\ Last(Recent).event.timestamp = t[L] /\ Head(Recent).event.timestamp = t[1]
       /\ Head(Recent).elapsed = f[1]
<2>1. 1 \in 1 .. L /\ L \in 1 .. L
  BY <1>3
<2>2. Last(Recent) = Recent[L] /\ Head(Recent) = Recent[1]
  BY <1>1, <1>3 DEF Last
<2>3. Recent[L] = distributed[m + L - 1] /\ Recent[1] = distributed[m + 1 - 1]
  BY <1>1, <2>1
<2>4. t[L] = time(m + L - 1) /\ t[1] = time(m + 1 - 1) /\ f[1] = elapsed(m + 1 - 1)
  BY <1>5, <1>7, <2>1
<2> QED
  BY <2>2, <2>3, <2>4
<1>12. IsFiniteSet(1 .. L)
<2>1. 1 \in Int /\ L \in Int
  BY <1>3
<2> HIDE DEF L
<2> QED
  BY <2>1, FS_Interval
<1>13. SumFunctionOnSet(f, 1 .. L) \in Nat /\ SumFunctionOnSet(f, 1 .. L) # 0
<2>1. \A k \in 1 .. L : f[k] \in Nat
  BY <1>5
<2>2. /\ SumFunctionOnSet(f, 1 .. L) \in Nat
      /\ \A k \in 1 .. L : f[k] <= SumFunctionOnSet(f, 1 .. L)
  BY <1>12, <2>1, SumOfNats
<2>3. 1 \in 1 .. L
  BY <1>3
<2>4. f[1] \in Nat \ {0} /\ f[1] <= SumFunctionOnSet(f, 1 .. L)
  BY <1>5, <2>2, <2>3
<2> QED
  BY <2>2, <2>4
<1>14. SumFunctionOnSet(g, 1 .. L) \in Int
<2>1. \A k \in 1 .. L : g[k] \in Int
  BY <1>5
<2>2. Int \in {Nat, Int}
  OBVIOUS
<2> QED
  BY <1>12, <2>1, <2>2, SumFacts
<1> QED
  BY <1>1, <1>3, <1>6, <1>10, <1>11, <1>13, <1>14

\* What a division rounds down to.
LEMMA RoundedDown ==
  ASSUME NEW g \in Int, NEW t \in Nat \ {0}
  PROVE  /\ Max({g \div t, 0}) >= 0 /\ Max({g \div t, 0}) \in Int
         /\ g >= 0 => Max({g \div t, 0}) * t <= g /\ g < (Max({g \div t, 0}) + 1) * t
         /\ g < 0 => Max({g \div t, 0}) = 0
<1>1. PICK q \in Int : q = g \div t
  OBVIOUS
<1>2. t * q <= g /\ g < t * q + t
  BY <1>1
<1>3. /\ Max({q, 0}) \in Int /\ Max({q, 0}) >= q /\ Max({q, 0}) >= 0
      /\ Max({q, 0}) = q \/ Max({q, 0}) = 0
  BY MaxOfTwo
<1>4. g >= 0 => q >= 0
<2> SUFFICES ASSUME g >= 0, q <= -1 PROVE FALSE
  OBVIOUS
<2>1. t * (-1 - q) >= 0 /\ t * (-1 - q) = 0 - t - t * q
<3>1. -1 - q \in Nat
  OBVIOUS
<3> QED
  BY <3>1
<2> QED
  BY <1>2, <2>1
<1>5. g < 0 => q < 0
<2> SUFFICES ASSUME g < 0, q >= 0 PROVE FALSE
  OBVIOUS
<2>1. t * q >= 0
  OBVIOUS
<2> QED
  BY <1>2, <2>1
<1>6. g >= 0 => Max({q, 0}) = q
  BY <1>3, <1>4
<1>7. g < 0 => Max({q, 0}) = 0
  BY <1>3, <1>5
<1>8. q * t = t * q /\ (q + 1) * t = t * q + t
  OBVIOUS
<1> QED
  BY <1>1, <1>2, <1>3, <1>6, <1>7, <1>8

LEMMA SpeedOfReports == PredictionInv => PredictedSpeedIsTheAverage
<1> SUFFICES ASSUME PredictionInv PROVE PredictedSpeedIsTheAverage
  OBVIOUS
<1> DEFINE gained == RewardsOf(Recent) * SlotsOfEpoch
           time == Last(Recent).event.timestamp - (Head(Recent).event.timestamp - Head(Recent).elapsed)
<1>1. Recent = Those(distributed, RecentReports)
  BY RecentSame
<1>2. CASE RecentReports = {}
<2>1. Recent = <<>>
  BY <1>2, RecentIsListed DEF Listed
<2>2. RewardsPerEpoch = 0
  BY <2>1 DEF RewardsPerEpoch
<2> QED
  BY <1>1, <2>1, <2>2 DEF PredictedSpeedIsTheAverage, RecentReports
<1>3. CASE RecentReports # {}
<2>1. /\ Len(Recent) \in Nat \ {0} /\ TimeSpent(Recent) = time
      /\ TimeSpent(Recent) \in Nat \ {0} /\ RewardsOf(Recent) \in Int
  BY <1>3, TimeOfReports
<2>2. Recent # <<>>
  BY <2>1
<2>3. RewardsPerEpoch = Max({gained \div time, 0})
  BY <2>1, <2>2 DEF RewardsPerEpoch
<2>4. gained \in Int /\ time \in Nat \ {0}
  BY <2>1, PredictionAssumption
<2>5. /\ RewardsPerEpoch >= 0
      /\ gained >= 0 => RewardsPerEpoch * time <= gained /\ gained < (RewardsPerEpoch + 1) * time
      /\ gained < 0 => RewardsPerEpoch = 0
<3> HIDE DEF gained, time
<3> QED
  BY <2>3, <2>4, RoundedDown
<2> QED
  BY <1>1, <2>2, <2>5 DEF PredictedSpeedIsTheAverage, RecentReports
<1> QED
  BY <1>2, <1>3

LEMMA PredictionInvariant == PredictionSpec => []PredictionInv
<1> QED
  BY PredictionStart, PredictionStep, PTL DEF PredictionSpec

\* prediction.py: the speed predicted is the average of what the reports of the last slots
\* distributed over the time of their periods, for chains, periods and losses of any size.
THEOREM SpeedIsAverage == PredictionSpec => []PredictedSpeedIsTheAverage
<1> QED
  BY PredictionInvariant, SpeedOfReports, PTL

-----------------------------------------------------------------------------
(* The order of operators *)

LEMMA OrderFacts ==
  ASSUME NEW o \in Operators, NEW p \in Operators
  PROVE  /\ o[1] \in Nat /\ o[2] \in Nat /\ Before(<<0, -1>>, o)
         /\ Before(o, p) => o # p /\ ~Before(p, o) /\ o[1] <= p[1]
         /\ o # p => Before(o, p) \/ Before(p, o)
<1>1. /\ o \in Nat \X Nat /\ p \in Nat \X Nat
  BY ExtraDataAssumption
<1>2. PICK a \in Nat, b \in Nat : o = <<a, b>>
  BY <1>1
<1>3. PICK c \in Nat, d \in Nat : p = <<c, d>>
  BY <1>1
<1>4. o[1] = a /\ o[2] = b /\ p[1] = c /\ p[2] = d
  BY <1>2, <1>3
<1>5. Before(o, p) <=> a < c \/ (a = c /\ b < d)
  BY <1>4 DEF Before
<1>6. Before(p, o) <=> c < a \/ (c = a /\ d < b)
  BY <1>4 DEF Before
<1>7. Before(<<0, -1>>, o)
<2>1. Before(<<0, -1>>, o) <=> 0 < a \/ (0 = a /\ -1 < b)
  BY <1>4 DEF Before
<2> QED
  BY <2>1
<1>8. o # p <=> a # c \/ b # d
  BY <1>2, <1>3
<1> QED
  BY <1>4, <1>5, <1>6, <1>7, <1>8

LEMMA OrderTransitive ==
  ASSUME NEW o \in Operators, NEW p \in Operators, NEW q \in Operators, Before(o, p), Before(p, q)
  PROVE  Before(o, q)
<1>1. /\ o[1] \in Nat /\ o[2] \in Nat /\ p[1] \in Nat /\ p[2] \in Nat /\ q[1] \in Nat /\ q[2] \in Nat
  BY OrderFacts
<1> QED
  BY <1>1 DEF Before

\* The operators of S before o.
BeforeIn(S, o) == {p \in S : Before(p, o)}

LEMMA PlaceFacts ==
  ASSUME NEW S \in SUBSET Operators
  PROVE  /\ IsFiniteSet(S) /\ Cardinality(S) \in Nat
         /\ \A o \in S : Cardinality(BeforeIn(S, o)) \in 0 .. Cardinality(S) - 1
         /\ \A o, p \in S : Before(o, p) => Cardinality(BeforeIn(S, o)) < Cardinality(BeforeIn(S, p))
<1>1. IsFiniteSet(S) /\ Cardinality(S) \in Nat
  BY ExtraDataAssumption, FS_Subset, FS_CardinalityType
<1>2. ASSUME NEW T \in SUBSET S, NEW U \in SUBSET S, NEW o \in U, o \notin T, T \subseteq U
      PROVE  Cardinality(T) < Cardinality(U) /\ Cardinality(T) \in Nat /\ Cardinality(U) \in Nat
<2>1. IsFiniteSet(U) /\ IsFiniteSet(T) /\ T # U /\ T \in SUBSET U
  BY <1>1, <1>2, FS_Subset
<2>2. Cardinality(T) <= Cardinality(U) /\ Cardinality(T) # Cardinality(U)
  BY <2>1, FS_Subset
<2>3. Cardinality(T) \in Nat /\ Cardinality(U) \in Nat
  BY <2>1, FS_CardinalityType
<2> QED
  BY <2>2, <2>3
<1>3. ASSUME NEW o \in S PROVE BeforeIn(S, o) \in SUBSET S /\ o \notin BeforeIn(S, o)
  BY OrderFacts DEF BeforeIn
<1>4. ASSUME NEW o \in S PROVE Cardinality(BeforeIn(S, o)) \in 0 .. Cardinality(S) - 1
<2>1. Cardinality(BeforeIn(S, o)) < Cardinality(S) /\ Cardinality(BeforeIn(S, o)) \in Nat
  BY <1>2, <1>3
<2> QED
  BY <1>1, <2>1
<1>5. ASSUME NEW o \in S, NEW p \in S, Before(o, p)
      PROVE  Cardinality(BeforeIn(S, o)) < Cardinality(BeforeIn(S, p))
<2>1. BeforeIn(S, o) \subseteq BeforeIn(S, p)
  BY <1>5, OrderTransitive DEF BeforeIn
<2>2. o \in BeforeIn(S, p) /\ o \notin BeforeIn(S, o)
  BY <1>3, <1>5 DEF BeforeIn
<2> QED
  BY <1>2, <1>3, <2>1, <2>2
<1> QED
  BY <1>1, <1>4, <1>5

\* Sorting loses nobody.
LEMMA SortedFacts ==
  ASSUME NEW S \in SUBSET Operators
  PROVE  /\ Sorted(S) \in Seq(S) /\ Len(Sorted(S)) = Cardinality(S) /\ Cardinality(S) \in Nat
         /\ \A i, j \in 1 .. Cardinality(S) : i < j => Before(Sorted(S)[i], Sorted(S)[j])
         /\ \A o \in S : \E i \in 1 .. Cardinality(S) : Sorted(S)[i] = o
<1> DEFINE n == Cardinality(S)
           place == [o \in S |-> Cardinality(BeforeIn(S, o)) + 1]
           s == Sorted(S)
<1>1. IsFiniteSet(S) /\ n \in Nat
  BY PlaceFacts
<1>2. place \in [S -> 1 .. n]
<2>1. \A o \in S : Cardinality(BeforeIn(S, o)) + 1 \in 1 .. n
  BY <1>1, PlaceFacts
<2> QED
  BY <2>1
<1>3. ASSUME NEW o \in S, NEW p \in S, Before(o, p) PROVE place[o] < place[p]
<2>1. Cardinality(BeforeIn(S, o)) < Cardinality(BeforeIn(S, p))
  BY <1>3, PlaceFacts
<2>2. Cardinality(BeforeIn(S, o)) \in 0 .. n - 1 /\ Cardinality(BeforeIn(S, p)) \in 0 .. n - 1
  BY PlaceFacts
<2> QED
  BY <1>1, <2>1, <2>2
<1>4. ASSUME NEW o \in S, NEW p \in S, place[o] = place[p] PROVE o = p
<2>1. place[o] \in Int /\ place[p] \in Int
  BY <1>2
<2>2. ~Before(o, p) /\ ~Before(p, o)
  BY <1>3, <1>4, <2>1
<2> QED
  BY <2>2, OrderFacts
<1>5. \A i \in 1 .. n : \E o \in S : place[o] = i
<2>1. place \in Injection(S, 1 .. n)
<3> HIDE DEF place
<3> QED
  BY <1>2, <1>4 DEF Injection, IsInjective
<2>2. IsFiniteSet(1 .. n) /\ Cardinality(1 .. n) = n
  BY <1>1, FS_Interval
<2>3. place \in Surjection(S, 1 .. n)
<3> HIDE DEF place, n
<3>1. Cardinality(S) = Cardinality(1 .. n)
  BY <2>2 DEF n
<3> QED
  BY <2>1, <2>2, <3>1, FS_Injection
<2> QED
  BY <2>3 DEF Surjection
<1>6. s = [i \in 1 .. n |-> CHOOSE o \in S : place[o] = i]
<2>1. ASSUME NEW i \in 1 .. n
      PROVE  (CHOOSE o \in S : Cardinality(BeforeIn(S, o)) = i - 1) = (CHOOSE o \in S : place[o] = i)
<3>1. \A o \in S : place[o] = i <=> Cardinality(BeforeIn(S, o)) = i - 1
  BY <1>1, PlaceFacts
<3> HIDE DEF place
<3> QED
  BY <3>1
<2>2. s = [i \in 1 .. n |-> CHOOSE o \in S : Cardinality(BeforeIn(S, o)) = i - 1]
  BY Zenon DEF Sorted, BeforeIn
<2> HIDE DEF place
<2> QED
  BY <2>1, <2>2
<1> HIDE DEF place, s, n
<1>7. \A i \in 1 .. n : s[i] \in S /\ place[s[i]] = i
  BY <1>5, <1>6
<1>8. s \in Seq(S) /\ Len(s) = n
<2>1. s \in [1 .. n -> S]
  BY <1>6, <1>7
<2> QED
  BY <1>1, <2>1
<1>9. ASSUME NEW i \in 1 .. n, NEW j \in 1 .. n, i < j PROVE Before(s[i], s[j])
<2>1. s[i] \in S /\ s[j] \in S /\ place[s[i]] = i /\ place[s[j]] = j
  BY <1>7
<2>2. ~Before(s[j], s[i])
  BY <1>3, <1>9, <2>1
<2>3. s[i] # s[j]
  BY <1>9, <2>1
<2> QED
  BY <2>1, <2>2, <2>3, OrderFacts
<1>10. ASSUME NEW o \in S PROVE \E i \in 1 .. n : s[i] = o
<2>1. place[o] \in 1 .. n
  BY <1>2
<2>2. s[place[o]] \in S /\ place[s[place[o]]] = place[o]
  BY <1>7, <2>1
<2> QED
  BY <1>4, <2>1, <2>2
<1> QED
  BY <1>1, <1>8, <1>9, <1>10 DEF s, n

-----------------------------------------------------------------------------
(* Items *)

\* Where the batch ends that begins at i.
End(s, i) == Max({j \in i .. Len(s) : s[j][1] = s[i][1] /\ j < i + MaxNodeOps})

PayloadAt(validators, s, i) ==
  [operators |-> SubSeq(s, i, End(s, i)),
   counts |-> [j \in DOMAIN SubSeq(s, i, End(s, i)) |-> validators[SubSeq(s, i, End(s, i))[j]]]]

\* The values of the recursive function in BuildPayloads.
ArePayloads(validators, s, payloads) ==
  payloads = [i \in 1 .. Len(s) + 1 |->
                IF i > Len(s) THEN <<>>
                ELSE <<PayloadAt(validators, s, i)>>
                       \o payloads[i + Len(SubSeq(s, i, End(s, i)))]]

Item == [operators : Seq(Operators), counts : Seq(Nat)]

\* Operators of one module in their order, not too many, with their numbers.
RightItem(validators, item) ==
  /\ item \in Item /\ item.operators \in Seq(DOMAIN validators)
  /\ Len(item.operators) \in 1 .. MaxNodeOps
  /\ DOMAIN item.counts = 1 .. Len(item.operators)
  /\ \A j \in 1 .. Len(item.operators) : item.counts[j] = validators[item.operators[j]]
  /\ \A j \in 2 .. Len(item.operators) :
       /\ Before(item.operators[j - 1], item.operators[j])
       /\ item.operators[j - 1][1] = item.operators[j][1]

\* Sorted operators, and what is counted for them.
SortedKeys(validators, s) ==
  /\ DOMAIN validators \subseteq Operators
  /\ \A o \in DOMAIN validators : validators[o] \in Nat
  /\ s \in Seq(DOMAIN validators)
  /\ \A i, j \in 1 .. Len(s) : i < j => Before(s[i], s[j])

\* Items with the operators from the i-th on, in their order.
ItemsFrom(validators, s, i, items) ==
  /\ items \in Seq(Item)
  /\ \A k \in 1 .. Len(items) : RightItem(validators, items[k])
  /\ \A k \in 2 .. Len(items) :
       Before(items[k - 1].operators[Len(items[k - 1].operators)], items[k].operators[1])
  /\ \A j \in i .. Len(s) :
       \E k \in 1 .. Len(items) : \E h \in 1 .. Len(items[k].operators) : items[k].operators[h] = s[j]
  /\ items # <<>> => i <= Len(s) /\ items[1].operators[1] = s[i]

LEMMA EndFacts ==
  ASSUME NEW validators, NEW s, SortedKeys(validators, s), NEW i \in 1 .. Len(s)
  PROVE  /\ End(s, i) \in i .. Len(s) /\ End(s, i) < i + MaxNodeOps
         /\ \A j \in i .. End(s, i) : s[j][1] = s[i][1]
<1> DEFINE n == Len(s)
           J == {j \in i .. n : s[j][1] = s[i][1] /\ j < i + MaxNodeOps}
           e == End(s, i)
<1>1. /\ s \in Seq(DOMAIN validators) /\ n \in Nat
      /\ \A j \in 1 .. n : s[j] \in Operators
      /\ \A j, k \in 1 .. n : j < k => Before(s[j], s[k])
<2>1. s \in Seq(DOMAIN validators) /\ DOMAIN validators \subseteq Operators
  BY DEF SortedKeys
<2>2. \A j, k \in 1 .. n : j < k => Before(s[j], s[k])
  BY Zenon DEF SortedKeys
<2>3. n \in Nat /\ \A j \in 1 .. n : s[j] \in DOMAIN validators
  BY <2>1
<2> QED
  BY <2>1, <2>2, <2>3, Zenon
<1>2. i \in J /\ J \in SUBSET (0 .. n) /\ J # {}
<2>1. MaxNodeOps \in Nat \ {0}
  BY ExtraDataAssumption
<2>2. i \in J
  BY <1>1, <2>1
<2> QED
  BY <1>1, <2>2
<1>3. e \in J
<2> HIDE DEF J
<2>1. Max(J) \in J
  BY <1>1, <1>2, MaxUpTo
<2> QED
  BY <2>1 DEF End, J
<1>4. e \in i .. n /\ s[e][1] = s[i][1] /\ e < i + MaxNodeOps
  BY <1>3
<1> HIDE DEF e
<1>5. ASSUME NEW j \in i .. e PROVE s[j][1] = s[i][1]
<2>1. j \in 1 .. n /\ i \in 1 .. n /\ e \in 1 .. n /\ (j = i \/ i < j) /\ (j = e \/ j < e)
  BY <1>1, <1>4
<2>2. s[i][1] <= s[j][1] /\ s[j][1] <= s[e][1] /\ s[i][1] \in Nat /\ s[j][1] \in Nat
<3>1. s[i] \in Operators /\ s[j] \in Operators /\ s[e] \in Operators
  BY <1>1, <2>1
<3>2. s[i][1] \in Nat /\ s[j][1] \in Nat /\ s[e][1] \in Nat
  BY <3>1, OrderFacts
<3>3. i < j => s[i][1] <= s[j][1]
  BY <1>1, <2>1, <3>1, OrderFacts
<3>4. j < e => s[j][1] <= s[e][1]
  BY <1>1, <2>1, <3>1, OrderFacts
<3> QED
  BY <2>1, <3>2, <3>3, <3>4
<2>3. PICK a \in Nat, b \in Nat : a = s[i][1] /\ b = s[j][1]
  BY <2>2
<2>4. a <= b /\ b <= a
  BY <1>4, <2>2, <2>3
<2>5. a = b
  BY <2>4
<2> QED
  BY <2>3, <2>5
<1> QED
  BY <1>4, <1>5 DEF e

LEMMA PayloadAtFacts ==
  ASSUME NEW validators, NEW s, SortedKeys(validators, s), NEW i \in 1 .. Len(s)
  PROVE  /\ RightItem(validators, PayloadAt(validators, s, i))
         /\ Len(SubSeq(s, i, End(s, i))) = End(s, i) - i + 1
         /\ Len(PayloadAt(validators, s, i).operators) = End(s, i) - i + 1
         /\ \A j \in 1 .. End(s, i) - i + 1 : PayloadAt(validators, s, i).operators[j] = s[i + j - 1]
<1> DEFINE n == Len(s)
           e == End(s, i)
           l == e - i + 1
           b == SubSeq(s, i, e)
           c == [j \in DOMAIN b |-> validators[b[j]]]
<1>1. /\ s \in Seq(DOMAIN validators) /\ n \in Nat
      /\ DOMAIN validators \subseteq Operators
      /\ \A j \in 1 .. n : s[j] \in DOMAIN validators /\ s[j] \in Operators
      /\ \A o \in DOMAIN validators : validators[o] \in Nat
      /\ \A j, k \in 1 .. n : j < k => Before(s[j], s[k])
<2>1. s \in Seq(DOMAIN validators) /\ DOMAIN validators \subseteq Operators
  BY DEF SortedKeys
<2>2. n \in Nat /\ \A j \in 1 .. n : s[j] \in DOMAIN validators
  BY <2>1
<2> QED
  BY <2>1, <2>2 DEF SortedKeys
<1>2. /\ e \in i .. n /\ e < i + MaxNodeOps
      /\ \A j \in i .. e : s[j][1] = s[i][1]
  BY EndFacts
<1> HIDE DEF e
<1>3. l \in 1 .. MaxNodeOps /\ l \in Nat
<2>1. MaxNodeOps \in Nat
  BY ExtraDataAssumption
<2> QED
  BY <1>1, <1>2, <2>1
<1>4. b = [j \in 1 .. l |-> s[i + j - 1]]
  BY <1>1, <1>2, <1>3
<1>5. \A j \in 1 .. l : i + j - 1 \in 1 .. n /\ i + j - 1 \in i .. e
  BY <1>1, <1>2
<1> HIDE DEF l, b
<1>6. b \in Seq(DOMAIN validators) /\ b \in Seq(Operators) /\ Len(b) = l /\ DOMAIN b = 1 .. l
<2>1. b \in [1 .. l -> DOMAIN validators]
  BY <1>1, <1>4, <1>5
<2>2. b \in Seq(DOMAIN validators)
  BY <1>3, <2>1
<2> QED
  BY <1>1, <1>3, <2>1, <2>2
<1>7. \A j \in 1 .. l : b[j] = s[i + j - 1]
  BY <1>4
<1>8. c \in Seq(Nat) /\ DOMAIN c = 1 .. l /\ \A j \in 1 .. l : c[j] = validators[b[j]]
<2>1. \A j \in 1 .. l : validators[b[j]] \in Nat
  BY <1>1, <1>5, <1>7
<2>2. c \in [1 .. l -> Nat]
  BY <1>6, <2>1
<2> QED
  BY <1>3, <1>6, <2>2
<1>9. ASSUME NEW j \in 2 .. l PROVE Before(b[j - 1], b[j]) /\ b[j - 1][1] = b[j][1]
<2>1. j \in 1 .. l /\ j - 1 \in 1 .. l /\ i + (j - 1) - 1 < i + j - 1
  BY <1>3
<2>2. Before(s[i + (j - 1) - 1], s[i + j - 1])
  BY <1>1, <1>5, <2>1
<2>3. s[i + (j - 1) - 1][1] = s[i + j - 1][1]
<3>1. i + (j - 1) - 1 \in i .. e /\ i + j - 1 \in i .. e
  BY <1>5, <2>1
<3>2. s[i + (j - 1) - 1][1] = s[i][1]
  BY <1>2, <3>1
<3>3. s[i + j - 1][1] = s[i][1]
  BY <1>2, <3>1
<3> QED
  BY <3>2, <3>3
<2> QED
  BY <1>7, <2>1, <2>2, <2>3
<1>10. PayloadAt(validators, s, i) = [operators |-> b, counts |-> c]
  BY Zenon DEF PayloadAt, b, e
<1> HIDE DEF c
<1>11. /\ PayloadAt(validators, s, i).operators = b /\ PayloadAt(validators, s, i).counts = c
       /\ PayloadAt(validators, s, i) \in Item
  BY <1>6, <1>8, <1>10 DEF Item
<1>12. RightItem(validators, PayloadAt(validators, s, i))
  BY <1>3, <1>6, <1>8, <1>9, <1>11 DEF RightItem
<1>13. Len(b) = l /\ l = e - i + 1
  BY <1>6 DEF l
<1> QED
  BY <1>7, <1>11, <1>12, <1>13 DEF b, e

\* One element before a sequence.
LEMMA Prepended ==
  ASSUME NEW X, NEW x \in X, NEW s \in Seq(X)
  PROVE  /\ <<x>> \o s \in Seq(X) /\ Len(<<x>> \o s) = Len(s) + 1
         /\ (<<x>> \o s)[1] = x /\ <<x>> \o s # <<>>
         /\ \A k \in 1 .. Len(s) : (<<x>> \o s)[k + 1] = s[k]
OBVIOUS

LEMMA ItemsJoin ==
  ASSUME NEW validators, NEW s, SortedKeys(validators, s), NEW i \in 1 .. Len(s),
         NEW items, ItemsFrom(validators, s, i + Len(SubSeq(s, i, End(s, i))), items)
  PROVE  ItemsFrom(validators, s, i, <<PayloadAt(validators, s, i)>> \o items)
<1> DEFINE n == Len(s)
           e == End(s, i)
           p == PayloadAt(validators, s, i)
           N == Len(items)
           all == <<p>> \o items
<1>1. /\ s \in Seq(DOMAIN validators) /\ n \in Nat
      /\ \A j, k \in 1 .. n : j < k => Before(s[j], s[k])
  BY DEF SortedKeys
<1>2. e \in i .. n
  BY EndFacts
<1>3. /\ RightItem(validators, p) /\ Len(p.operators) = e - i + 1
      /\ i + Len(SubSeq(s, i, e)) = e + 1
      /\ \A j \in 1 .. e - i + 1 : p.operators[j] = s[i + j - 1]
  BY <1>2, PayloadAtFacts
<1>4. ItemsFrom(validators, s, e + 1, items)
  BY <1>3
<1> HIDE DEF p, e
<1>5. /\ items \in Seq(Item) /\ N \in Nat /\ p \in Item
      /\ \A k \in 1 .. N : RightItem(validators, items[k])
  BY <1>3, <1>4 DEF ItemsFrom, RightItem
<1>6. /\ all \in Seq(Item) /\ Len(all) = N + 1 /\ all[1] = p /\ all # <<>>
      /\ \A k \in 1 .. N : all[k + 1] = items[k]
  BY <1>5, Prepended DEF all
<1>7. \A k \in 1 .. N + 1 : k = 1 \/ (k - 1 \in 1 .. N /\ all[k] = items[k - 1])
<2>1. \A k \in 1 .. N + 1 : k = 1 \/ (k - 1 \in 1 .. N /\ (k - 1) + 1 = k)
  BY <1>5
<2> HIDE DEF all
<2> QED
  BY <1>6, <2>1
<1> HIDE DEF all
<1>8. \A k \in 1 .. N + 1 : RightItem(validators, all[k])
  BY <1>3, <1>5, <1>6, <1>7
<1>9. ASSUME NEW k \in 2 .. N + 1
      PROVE  Before(all[k - 1].operators[Len(all[k - 1].operators)], all[k].operators[1])
<2>1. k \in 1 .. N + 1 /\ k - 1 \in 1 .. N /\ all[k] = items[k - 1]
  BY <1>5, <1>7
<2>2. CASE k = 2
<3>1. k - 1 = 1 /\ all[k - 1] = p /\ all[k] = items[1] /\ items # <<>>
  BY <1>5, <1>6, <2>1, <2>2
<3>2. e + 1 <= n /\ items[1].operators[1] = s[e + 1]
  BY <1>4, <3>1 DEF ItemsFrom
<3>3. p.operators[e - i + 1] = s[e]
<4>1. e - i + 1 \in 1 .. e - i + 1 /\ i + (e - i + 1) - 1 = e
  BY <1>1, <1>2
<4> QED
  BY <1>3, <4>1
<3>4. Before(s[e], s[e + 1])
<4>1. e \in 1 .. n /\ e + 1 \in 1 .. n /\ e < e + 1
  BY <1>1, <1>2, <3>2
<4> QED
  BY <1>1, <4>1
<3> QED
  BY <1>3, <3>1, <3>2, <3>3, <3>4
<2>3. CASE k # 2
<3>1. k - 1 \in 2 .. N /\ all[k - 1] = items[k - 2] /\ (k - 1) - 1 = k - 2
<4>1. k - 1 \in 2 .. N /\ k - 1 \in 1 .. N + 1 /\ k - 1 # 1 /\ (k - 1) - 1 = k - 2
  BY <1>5, <2>1, <2>3
<4> QED
  BY <1>7, <4>1
<3>2. Before(items[(k - 1) - 1].operators[Len(items[(k - 1) - 1].operators)], items[k - 1].operators[1])
  BY <1>4, <3>1 DEF ItemsFrom
<3> QED
  BY <2>1, <3>1, <3>2
<2> QED
  BY <2>2, <2>3
<1>10. ASSUME NEW j \in i .. n
       PROVE  \E k \in 1 .. N + 1 : \E h \in 1 .. Len(all[k].operators) : all[k].operators[h] = s[j]
<2>1. CASE j <= e
<3>1. j - i + 1 \in 1 .. e - i + 1 /\ i + (j - i + 1) - 1 = j /\ 1 \in 1 .. N + 1
  BY <1>2, <1>5, <2>1
<3>2. p.operators[j - i + 1] = s[j]
  BY <1>3, <3>1
<3> QED
  BY <1>3, <1>6, <3>1, <3>2
<2>2. CASE j > e
<3>1. j \in e + 1 .. n
  BY <1>2, <2>2
<3>2. PICK k \in 1 .. N : \E h \in 1 .. Len(items[k].operators) : items[k].operators[h] = s[j]
  BY <1>4, <3>1 DEF ItemsFrom
<3>3. k + 1 \in 1 .. N + 1 /\ all[k + 1] = items[k]
  BY <1>5, <1>6
<3> QED
  BY <3>2, <3>3
<2> QED
  BY <1>1, <1>2, <2>1, <2>2
<1>11. i <= n /\ all[1].operators[1] = s[i]
<2>1. 1 \in 1 .. e - i + 1 /\ i + 1 - 1 = i /\ i <= n
  BY <1>1, <1>2
<2> QED
  BY <1>3, <1>6, <2>1
<1> QED
  BY <1>6, <1>8, <1>9, <1>10, <1>11 DEF ItemsFrom, all, p

LEMMA NextPayload ==
  ASSUME NEW validators, NEW s, SortedKeys(validators, s), NEW i \in 1 .. Len(s)
  PROVE  i + Len(SubSeq(s, i, End(s, i))) \in i + 1 .. Len(s) + 1
<1>1. Len(s) \in Nat
  BY DEF SortedKeys
<1>2. End(s, i) \in i .. Len(s) /\ Len(SubSeq(s, i, End(s, i))) = End(s, i) - i + 1
  BY EndFacts, PayloadAtFacts
<1> QED
  BY <1>1, <1>2

LEMMA PayloadsExist ==
  ASSUME NEW validators, NEW s, SortedKeys(validators, s)
  PROVE  \E f \in [1 .. Len(s) + 1 -> Seq(Item)] : ArePayloads(validators, s, f)
<1> DEFINE n == Len(s)
           D == 1 .. n + 1
           X == Seq(Item)
           next(i) == i + Len(SubSeq(s, i, End(s, i)))
           m == [i \in D |-> n + 1 - i]
           G == [i \in D |-> [f \in [D -> X] |->
                  IF i > n THEN <<>> ELSE <<PayloadAt(validators, s, i)>> \o f[next(i)]]]
<1>1. n \in Nat
  BY DEF SortedKeys
<1>2. m \in [D -> 0 .. n + 1]
  BY <1>1
<1>3. ASSUME NEW i \in D, ~(i > n)
      PROVE  /\ next(i) \in D /\ m[next(i)] < m[i]
             /\ PayloadAt(validators, s, i) \in Item
<2>1. i \in 1 .. n
  BY <1>1, <1>3
<2>2. next(i) \in i + 1 .. n + 1
  BY <2>1, NextPayload
<2> HIDE DEF next
<2>3. next(i) \in D
  BY <1>1, <2>1, <2>2
<2>4. m[next(i)] < m[i]
  BY <1>1, <2>1, <2>2, <2>3
<2>5. PayloadAt(validators, s, i) \in Item
  BY <2>1, PayloadAtFacts DEF RightItem
<2> QED
  BY <2>3, <2>4, <2>5
<1>4. G \in [D -> [[D -> X] -> X]]
<2>1. ASSUME NEW i \in D, NEW f \in [D -> X]
      PROVE  (IF i > n THEN <<>> ELSE <<PayloadAt(validators, s, i)>> \o f[next(i)]) \in X
<3>1. CASE i > n
  BY <3>1
<3>2. CASE ~(i > n)
<4>1. f[next(i)] \in X /\ PayloadAt(validators, s, i) \in Item
  BY <1>3, <3>2
<4> HIDE DEF D, next
<4> QED
  BY <3>2, <4>1
<3> QED
  BY <3>1, <3>2
<2> HIDE DEF D, next, X
<2> QED
  BY <2>1
<1>5. ASSUME NEW i \in D, NEW f \in [D -> X], NEW g \in [D -> X],
             \A e \in D : m[e] < m[i] => f[e] = g[e]
      PROVE  G[i][f] = G[i][g]
<2>1. ~(i > n) => f[next(i)] = g[next(i)]
<3> HIDE DEF D, next, m
<3> QED
  BY <1>3, <1>5
<2> HIDE DEF D, next, X, m
<2> QED
  BY <2>1
<1> HIDE DEF D, m, X
<1>6. LooksBelow(D, X, m, G)
<2> HIDE DEF G
<2> QED
  BY <1>5 DEF LooksBelow
<1>7. X # {}
<2>1. <<>> \in Seq(Item)
  OBVIOUS
<2> QED
  BY <2>1 DEF X
<1>8. PICK f : Solves(f, D, X, G)
<2>1. WellFounded(D, X, n + 1, m, G)
<3> HIDE DEF G, n
<3>1. n + 1 \in Nat
  BY <1>1
<3> QED
  BY <1>2, <1>4, <1>6, <1>7, <3>1, Zenon DEF WellFounded
<2> HIDE DEF G
<2> QED
  BY <2>1, Recursion
<1>9. ArePayloads(validators, s, f)
<2>1. \A i \in D : G[i][f] = IF i > n THEN <<>> ELSE <<PayloadAt(validators, s, i)>> \o f[next(i)]
  BY <1>8 DEF Solves
<2>2. f = [i \in D |-> IF i > n THEN <<>> ELSE <<PayloadAt(validators, s, i)>> \o f[next(i)]]
<3> HIDE DEF G, next, n
<3> QED
  BY <1>8, <2>1 DEF Solves
<2> QED
  BY <2>2, Zenon DEF ArePayloads, D, next, n
<1> QED
  BY <1>8, <1>9 DEF Solves, D, X

LEMMA PayloadsAreItems ==
  ASSUME NEW validators, NEW s, SortedKeys(validators, s),
         NEW f, ArePayloads(validators, s, f)
  PROVE  ItemsFrom(validators, s, 1, f[1])
<1> DEFINE n == Len(s)
           Good == {k \in 0 .. n : \A i \in n + 1 - k .. n + 1 : ItemsFrom(validators, s, i, f[i])}
<1>1. n \in Nat
  BY DEF SortedKeys
<1>2. \A i \in 1 .. n + 1 : f[i] = IF i > n THEN <<>>
                ELSE <<PayloadAt(validators, s, i)>> \o f[i + Len(SubSeq(s, i, End(s, i)))]
  BY DEF ArePayloads
<1>3. ItemsFrom(validators, s, n + 1, f[n + 1])
<2>1. n + 1 \in 1 .. n + 1 /\ n + 1 > n /\ n + 1 .. n = {}
  BY <1>1
<2>2. f[n + 1] = <<>>
  BY <1>2, <2>1
<2>3. <<>> \in Seq(Item) /\ Len(<<>>) = 0 /\ 1 .. 0 = {} /\ 2 .. 0 = {}
  OBVIOUS
<2> QED
  BY <2>1, <2>2, <2>3 DEF ItemsFrom
<1>4. 0 \in Good
<2>1. 0 \in 0 .. n /\ \A i \in n + 1 - 0 .. n + 1 : i = n + 1
  BY <1>1
<2> QED
  BY <1>3, <2>1
<1>5. ASSUME NEW k \in 1 .. n, k - 1 \in Good PROVE k \in Good
<2> DEFINE h == n + 1 - k
<2>1. h \in 1 .. n /\ h \in 1 .. n + 1 /\ ~(h > n) /\ k \in 0 .. n
  BY <1>1
<2>2. \A i \in n + 1 - k .. n + 1 : i = h \/ i \in n + 1 - (k - 1) .. n + 1
  BY <1>1
<2>3. \A i \in h + 1 .. n + 1 : ItemsFrom(validators, s, i, f[i])
<3>1. \A i \in h + 1 .. n + 1 : i \in n + 1 - (k - 1) .. n + 1
  BY <1>1
<3> QED
  BY <1>5, <3>1
<2> HIDE DEF h
<2>4. ItemsFrom(validators, s, h, f[h])
<3> DEFINE next == h + Len(SubSeq(s, h, End(s, h)))
<3>1. next \in h + 1 .. n + 1
  BY <2>1, NextPayload
<3>2. ItemsFrom(validators, s, next, f[next])
<4> HIDE DEF next
<4> QED
  BY <2>3, <3>1
<3>3. f[h] = <<PayloadAt(validators, s, h)>> \o f[next]
  BY <1>2, <2>1
<3>4. ItemsFrom(validators, s, h, <<PayloadAt(validators, s, h)>> \o f[next])
  BY <2>1, <3>2, ItemsJoin
<3> QED
  BY <3>3, <3>4
<2>5. \A i \in n + 1 - k .. n + 1 : ItemsFrom(validators, s, i, f[i])
<3>1. \A i \in n + 1 - (k - 1) .. n + 1 : ItemsFrom(validators, s, i, f[i])
  BY <1>5
<3> QED
  BY <2>2, <2>4, <3>1
<2> QED
  BY <2>1, <2>5
<1>6. n \in Good
<2>1. n \in 0 .. n
  BY <1>1
<2> HIDE DEF Good
<2> QED
  BY <1>1, <1>4, <1>5, <2>1, Upward
<1>7. 1 \in n + 1 - n .. n + 1
  BY <1>1
<1> QED
  BY <1>6, <1>7

\* The items of a report: every operator is in one of them, in order.
ItemsOf(validators, items) ==
  /\ items \in Seq(Item)
  /\ \A k \in 1 .. Len(items) : RightItem(validators, items[k])
  /\ \A k \in 2 .. Len(items) :
       Before(items[k - 1].operators[Len(items[k - 1].operators)], items[k].operators[1])
  /\ \A o \in DOMAIN validators :
       \E k \in 1 .. Len(items) : \E h \in 1 .. Len(items[k].operators) : items[k].operators[h] = o

LEMMA PayloadsFacts ==
  ASSUME NEW S \in SUBSET Operators, NEW validators \in [S -> Nat]
  PROVE  ItemsOf(validators, BuildPayloads(validators))
<1> DEFINE s == Sorted(S)
           f == CHOOSE f : ArePayloads(validators, s, f)
<1>1. /\ s \in Seq(S) /\ Len(s) = Cardinality(S) /\ Len(s) \in Nat
      /\ \A i, j \in 1 .. Len(s) : i < j => Before(s[i], s[j])
      /\ \A o \in S : \E i \in 1 .. Len(s) : s[i] = o
  BY SortedFacts
<1>2. DOMAIN validators = S
  OBVIOUS
<1> HIDE DEF s
<1>3. SortedKeys(validators, s)
  BY <1>1, <1>2 DEF SortedKeys
<1>4. ArePayloads(validators, s, f)
  BY <1>3, PayloadsExist
<1>5. BuildPayloads(validators) = f[1]
<2>1. BuildPayloads(validators)
        = (CHOOSE g : ArePayloads(validators, Sorted(DOMAIN validators), g))[1]
  BY Zenon DEF BuildPayloads, ArePayloads, PayloadAt, End
<2>2. Sorted(DOMAIN validators) = s
  BY <1>2 DEF s
<2> QED
  BY <2>1, <2>2, Zenon DEF f
<1> HIDE DEF f
<1>6. PICK items : items = f[1]
  OBVIOUS
<1>7. ItemsFrom(validators, s, 1, items)
  BY <1>3, <1>4, <1>6, PayloadsAreItems
<1>8. ASSUME NEW o \in S
      PROVE  \E k \in 1 .. Len(items) : \E h \in 1 .. Len(items[k].operators) : items[k].operators[h] = o
<2>1. PICK i \in 1 .. Len(s) : s[i] = o
  BY <1>1
<2> QED
  BY <1>7, <2>1, Zenon DEF ItemsFrom
<1>9. ItemsOf(validators, items)
<2>1. /\ items \in Seq(Item)
      /\ \A k \in 1 .. Len(items) : RightItem(validators, items[k])
      /\ \A k \in 2 .. Len(items) :
           Before(items[k - 1].operators[Len(items[k - 1].operators)], items[k].operators[1])
  BY <1>7, Zenon DEF ItemsFrom
<2> QED
  BY <1>2, <1>8, <2>1, Zenon DEF ItemsOf
<1> QED
  BY <1>5, <1>6, <1>9

-----------------------------------------------------------------------------
(* Transactions *)

\* Elements a + 1 to b of a sequence.
LEMMA PartOf ==
  ASSUME NEW S, NEW s \in Seq(S), NEW a \in Nat, NEW b \in Nat, a <= b, b <= Len(s)
  PROVE  /\ SubSeq(s, a + 1, b) \in Seq(S) /\ Len(SubSeq(s, a + 1, b)) = b - a
         /\ DOMAIN SubSeq(s, a + 1, b) = 1 .. b - a
         /\ \A j \in 1 .. b - a : a + j \in 1 .. Len(s) /\ SubSeq(s, a + 1, b)[j] = s[a + j]
<1> DEFINE p == SubSeq(s, a + 1, b)
<1>1. Len(s) \in Nat /\ b - a \in Nat /\ b - (a + 1) + 1 = b - a
  OBVIOUS
<1>2. \A j \in 1 .. b - a : a + j \in 1 .. Len(s) /\ (a + 1) + j - 1 = a + j
  BY <1>1
<1>3. p = [j \in 1 .. b - a |-> s[(a + 1) + j - 1]]
  BY <1>1
<1> HIDE DEF p
<1>4. \A j \in 1 .. b - a : p[j] = s[a + j] /\ s[a + j] \in S
  BY <1>2, <1>3
<1>5. p \in [1 .. b - a -> S]
  BY <1>3, <1>4
<1>6. p \in Seq(S) /\ Len(p) = b - a /\ DOMAIN p = 1 .. b - a
  BY <1>1, <1>5
<1> QED
  BY <1>2, <1>4, <1>6 DEF p

\* How many transactions a report needs, and how many items are in the first k of them.
TxCount(payloads) == (Len(payloads) + MaxItems - 1) \div MaxItems
Reach(payloads, k) == Min({k * MaxItems, Len(payloads)})

LEMMA ReachFacts ==
  ASSUME NEW payloads \in Seq(Item)
  PROVE  /\ TxCount(payloads) \in Nat /\ (TxCount(payloads) = 0 <=> Len(payloads) = 0)
         /\ Reach(payloads, 0) = 0 /\ Reach(payloads, TxCount(payloads)) = Len(payloads)
         /\ \A k \in 0 .. TxCount(payloads) : Reach(payloads, k) \in 0 .. Len(payloads)
         /\ \A k \in 1 .. TxCount(payloads) :
              /\ Reach(payloads, k - 1) < Reach(payloads, k)
              /\ Reach(payloads, k - 1) = (k - 1) * MaxItems
<1> DEFINE L == Len(payloads)
           N == TxCount(payloads)
           n == MaxItems
           r(k) == Reach(payloads, k)
<1>1. L \in Nat /\ n \in Nat \ {0}
  BY ExtraDataAssumption
<1> HIDE DEF n, L
<1>2. N = (L + n - 1) \div n
  BY DEF TxCount, L, n
<1> HIDE DEF N
<1>3. N \in Int /\ n * N <= L + n - 1 /\ L + n - 1 < n * N + n
  BY <1>1, <1>2
<1>4. N \in Nat /\ (N = 0 <=> L = 0)
<2>1. ASSUME N < 0 PROVE FALSE
<3>1. N * n + n <= 0 * n
  BY <1>1, <1>3, <2>1, Multiples
<3> QED
  BY <1>1, <1>3, <3>1
<2>2. ASSUME N = 0 PROVE L = 0
  BY <1>1, <1>3, <2>2
<2>3. ASSUME L = 0 PROVE ~(0 < N)
<3> SUFFICES ASSUME 0 < N PROVE FALSE
  OBVIOUS
<3>1. 0 * n + n <= N * n
  BY <1>1, <1>3, Multiples
<3> QED
  BY <1>1, <1>3, <2>3, <3>1
<2> QED
  BY <1>3, <2>1, <2>2, <2>3
<1>5. ASSUME NEW k \in 0 .. N
      PROVE  /\ k * n \in Nat /\ r(k) \in Int /\ r(k) <= k * n /\ r(k) <= L
             /\ r(k) = k * n \/ r(k) = L
<2>1. k * n \in Nat
  BY <1>1, <1>4
<2>2. r(k) = Min({k * n, L})
  BY DEF Reach, n, L
<2> HIDE DEF r
<2>3. PICK a \in Int : a = k * n
  BY <2>1
<2>4. Min({a, L}) \in Int /\ Min({a, L}) <= a /\ Min({a, L}) <= L /\ (Min({a, L}) = a \/ Min({a, L}) = L)
<3>1. L \in Int
  BY <1>1
<3> QED
  BY <2>3, <3>1, MinOfTwo, Zenon
<2> QED
  BY <2>1, <2>2, <2>3, <2>4
<1> HIDE DEF r
<1>6. r(0) = 0
  BY <1>1, <1>4, <1>5
<1>7. r(N) = L
<2>1. N \in 0 .. N
  BY <1>4
<2> QED
  BY <1>1, <1>3, <1>4, <1>5, <2>1
<1>8. ASSUME NEW k \in 0 .. N PROVE r(k) \in 0 .. L
  BY <1>1, <1>5
<1>9. ASSUME NEW k \in 1 .. N PROVE r(k - 1) < r(k) /\ r(k - 1) = (k - 1) * n
<2>1. k - 1 \in 0 .. N /\ k \in 0 .. N /\ k - 1 < k /\ k <= N /\ k \in Int /\ k - 1 \in Int
  BY <1>4
<2>2. (k - 1) * n + n <= k * n /\ k * n <= N * n
  BY <1>1, <1>4, <2>1, Multiples
<2>3. (k - 1) * n < L
<3>1. PICK a \in Int, b \in Int, c \in Int : a = (k - 1) * n /\ b = k * n /\ c = N * n
  BY <1>1, <1>3, <2>1
<3>2. a + n <= b /\ b <= c /\ c <= L + n - 1
  BY <1>1, <1>3, <2>1, <2>2, <3>1
<3> QED
  BY <1>1, <3>1, <3>2
<2>4. r(k - 1) = (k - 1) * n
  BY <1>1, <1>5, <2>1, <2>3
<2>5. PICK a \in Int, b \in Int : a = r(k) /\ b = k * n
  BY <1>1, <1>5, <2>1
<2>6. (k - 1) * n < b /\ (k - 1) * n \in Int
  BY <1>1, <2>1, <2>2, <2>5
<2>7. a = b \/ a = L
  BY <1>5, <2>1, <2>5
<2> QED
  BY <2>3, <2>4, <2>5, <2>6, <2>7
<1> QED
  BY <1>4, <1>6, <1>7, <1>8, <1>9 DEF N, r, n, L

TxItem == [index : Int, payload : Item]

LEMMA TransactionsFacts ==
  ASSUME NEW payloads \in Seq(Item)
  PROVE  LET txs == BuildTransactions(payloads)
             N == TxCount(payloads)
             r(k) == Reach(payloads, k)
         IN /\ txs \in Seq(Seq(TxItem)) /\ Len(txs) = N /\ DOMAIN txs = 1 .. N
            /\ \A k \in 1 .. N :
                 /\ Len(txs[k]) = r(k) - r(k - 1) /\ DOMAIN txs[k] = 1 .. r(k) - r(k - 1)
                 /\ \A j \in 1 .. r(k) - r(k - 1) :
                      /\ r(k - 1) + j \in 1 .. Len(payloads)
                      /\ txs[k][j].index = r(k - 1) + j - 1
                      /\ txs[k][j].payload = payloads[r(k - 1) + j]
<1> DEFINE txs == BuildTransactions(payloads)
           N == TxCount(payloads)
           r(k) == Reach(payloads, k)
           L == Len(payloads)
           n == MaxItems
           s == [i \in DOMAIN payloads |-> [index |-> i - 1, payload |-> payloads[i]]]
<1>1. L \in Nat /\ n \in Nat \ {0} /\ DOMAIN payloads = 1 .. L
  BY ExtraDataAssumption
<1>2. /\ N \in Nat
      /\ \A k \in 0 .. N : r(k) \in 0 .. L
      /\ \A k \in 1 .. N : r(k - 1) < r(k) /\ r(k - 1) = (k - 1) * n
  BY ReachFacts
<1>3. s \in Seq(TxItem) /\ Len(s) = L
<2>1. \A i \in 1 .. L : [index |-> i - 1, payload |-> payloads[i]] \in TxItem
  BY <1>1 DEF TxItem
<2>2. s \in [1 .. L -> TxItem]
  BY <1>1, <2>1
<2> QED
  BY <1>1, <2>2
<1>4. \A i \in 1 .. L : s[i].index = i - 1 /\ s[i].payload = payloads[i]
  BY <1>1
<1>5. txs = [k \in 1 .. (Len(s) + n - 1) \div n |->
               SubSeq(s, (k - 1) * n + 1, Min({k * n, Len(s)}))]
  BY Zenon DEF BuildTransactions, Batched
<1> HIDE DEF s
<1>6. txs = [k \in 1 .. N |-> SubSeq(s, (k - 1) * n + 1, r(k))]
  BY <1>3, <1>5 DEF TxCount, Reach
<1> HIDE DEF N, n, L, txs, r
<1>7. ASSUME NEW k \in 1 .. N
      PROVE  /\ txs[k] \in Seq(TxItem)
             /\ Len(txs[k]) = r(k) - r(k - 1) /\ DOMAIN txs[k] = 1 .. r(k) - r(k - 1)
             /\ \A j \in 1 .. r(k) - r(k - 1) :
                  /\ r(k - 1) + j \in 1 .. L
                  /\ txs[k][j] = s[r(k - 1) + j]
<2>1. k \in 0 .. N /\ k - 1 \in 0 .. N
  BY <1>2
<2>2. /\ r(k) \in 0 .. L /\ r(k - 1) \in 0 .. L /\ r(k - 1) < r(k)
      /\ (k - 1) * n = r(k - 1)
  BY <1>2, <2>1
<2>3. PICK a \in Nat, b \in Nat : a = r(k - 1) /\ b = r(k) /\ a < b /\ b <= L
  BY <1>1, <2>2
<2>4. txs[k] = SubSeq(s, a + 1, b)
  BY <1>6, <2>2, <2>3
<2>5. /\ SubSeq(s, a + 1, b) \in Seq(TxItem) /\ Len(SubSeq(s, a + 1, b)) = b - a
      /\ DOMAIN SubSeq(s, a + 1, b) = 1 .. b - a
      /\ \A j \in 1 .. b - a : a + j \in 1 .. L /\ SubSeq(s, a + 1, b)[j] = s[a + j]
<3>1. a <= b /\ b <= Len(s)
  BY <1>3, <2>3
<3> QED
  BY <1>3, <3>1, PartOf
<2> QED
  BY <2>3, <2>4, <2>5
<1>8. txs \in Seq(Seq(TxItem)) /\ Len(txs) = N /\ DOMAIN txs = 1 .. N
<2>1. txs \in [1 .. N -> Seq(TxItem)]
  BY <1>6, <1>7
<2> QED
  BY <1>2, <2>1
<1>9. ASSUME NEW k \in 1 .. N, NEW j \in 1 .. r(k) - r(k - 1)
      PROVE  /\ txs[k][j].index = r(k - 1) + j - 1
             /\ txs[k][j].payload = payloads[r(k - 1) + j]
<2>1. r(k - 1) + j \in 1 .. L /\ txs[k][j] = s[r(k - 1) + j]
  BY <1>7
<2>2. PICK i \in 1 .. L : i = r(k - 1) + j /\ txs[k][j] = s[i]
  BY <2>1
<2>3. txs[k][j].index = i - 1 /\ txs[k][j].payload = payloads[i]
  BY <1>4, <2>2, Zenon
<2>4. r(k - 1) \in Int /\ i - 1 = r(k - 1) + j - 1
<3>1. r(k - 1) \in 0 .. L /\ r(k) \in 0 .. L /\ L \in Nat
  BY <1>1, <1>2
<3>2. PICK a \in Int : a = r(k - 1)
  BY <3>1
<3> QED
  BY <2>2, <3>1, <3>2
<2> QED
  BY <2>2, <2>3, <2>4, Zenon
<1> QED
  BY <1>7, <1>8, <1>9 DEF txs, N, r, L

-----------------------------------------------------------------------------
(* How far a report is *)

IsRouter(r) == r = [operators |-> r.operators, modules |-> r.modules] /\ r.operators \in [Operators -> Nat]

\* The operators of the first d items, and the last of them.
Covered(items, d) ==
  {o \in Operators : \E i \in 1 .. d : \E h \in 1 .. Len(items[i].operators) : items[i].operators[h] = o}
LastCovered(items, d) == IF d = 0 THEN <<0, -1>> ELSE items[d].operators[Len(items[d].operators)]

\* The first k transactions of the report are in.
Through(k) ==
  LET d == Reach(Payloads, k)
      txs == BuildTransactions(Payloads)
  IN /\ processing = [main |-> TRUE, submitted |-> processing.submitted,
                      hash |-> SubSeq(txs, k + 1, Len(txs)), count |-> Len(Payloads), done |-> d,
                      last |-> LastCovered(Payloads, d)]
     /\ Len(Payloads) > 0 => (processing.submitted <=> k = Len(txs))
     /\ router.operators = [o \in Operators |-> IF o \in Covered(Payloads, d) THEN seen.exited[o]
                                                ELSE seen.router.operators[o]]
     /\ router.modules = [m \in Modules |-> OfModule(seen.exited, m)]

\* What the router knows is never ahead of the consensus layer.
NotAhead ==
  \A o \in Operators : /\ router.operators[o] <= seen.exited[o] /\ seen.exited[o] <= exited[o]
                       /\ seen.router.operators[o] <= seen.exited[o]

ExtraTypes ==
  /\ exited \in [Operators -> Nat] /\ seen.exited \in [Operators -> Nat]
  /\ seen = [exited |-> seen.exited, router |-> seen.router]
  /\ IsRouter(router) /\ IsRouter(seen.router) /\ processing.submitted \in BOOLEAN
  /\ processing.main \in BOOLEAN

ExtraInv ==
  /\ ExtraTypes /\ NotAhead
  /\ ~processing.main => processing = NoReport /\ router = seen.router
  /\ processing.main => \E k \in 0 .. TxCount(Payloads) : Through(k)

-----------------------------------------------------------------------------
(* Hashes *)

LEMMA HashesFacts ==
  ASSUME NEW X, NEW txs \in Seq(X)
  PROVE  LET hashed == AddHashes(txs)
             N == Len(txs)
         IN /\ DOMAIN hashed = 1 .. N /\ (hashed = <<>> <=> N = 0) /\ N \in Nat
            /\ \A i \in 1 .. N :
                 /\ hashed[i].items = txs[i] /\ hashed[i].next = SubSeq(txs, i + 1, N)
                 /\ hashed[i].next = <<>> <=> i = N
                 /\ Keccak(hashed[i]) = SubSeq(txs, i, N)
            /\ \A i \in 1 .. N, k \in 0 .. N : Keccak(hashed[i]) = SubSeq(txs, k + 1, N) <=> i = k + 1
<1> DEFINE hashed == AddHashes(txs)
           N == Len(txs)
           rest(k) == SubSeq(txs, k + 1, N)
<1>1. N \in Nat
  OBVIOUS
<1>2. hashed = [i \in 1 .. N |-> [items |-> txs[i], next |-> rest(i)]]
  BY DEF AddHashes
<1>3. ASSUME NEW k \in 0 .. N
      PROVE  /\ rest(k) \in Seq(X) /\ Len(rest(k)) = N - k
             /\ \A j \in 1 .. N - k : k + j \in 1 .. N /\ rest(k)[j] = txs[k + j]
<2>1. k \in Nat /\ k <= N
  BY <1>1
<2> QED
  BY <1>1, <2>1, PartOf
<1> HIDE DEF rest, hashed
<1>4. \A i \in 1 .. N : hashed[i].items = txs[i] /\ hashed[i].next = rest(i)
  BY <1>2
<1>5. DOMAIN hashed = 1 .. N
  BY <1>2
<1>6. hashed = <<>> <=> N = 0
<2>1. DOMAIN <<>> = {}
  OBVIOUS
<2>2. N = 0 => 1 .. N = {}
  BY <1>1
<2>3. N # 0 => 1 \in 1 .. N
  BY <1>1
<2>4. N = 0 => hashed = <<>>
<3> SUFFICES ASSUME N = 0 PROVE hashed = <<>>
  OBVIOUS
<3>1. hashed = [i \in {} |-> [items |-> txs[i], next |-> rest(i)]]
  BY <1>2, <2>2
<3> QED
  BY <3>1
<2> QED
  BY <1>5, <2>1, <2>3, <2>4
<1>7. ASSUME NEW i \in 1 .. N PROVE hashed[i].next = <<>> <=> i = N
<2>1. rest(i) \in Seq(X) /\ Len(rest(i)) = N - i
  BY <1>1, <1>3
<2>2. rest(i) = <<>> <=> Len(rest(i)) = 0
  BY <2>1
<2> QED
  BY <1>1, <1>4, <2>1, <2>2
<1>8. ASSUME NEW i \in 1 .. N PROVE Keccak(hashed[i]) = rest(i - 1)
<2>1. Keccak(hashed[i]) = <<txs[i]>> \o rest(i)
  BY <1>4 DEF Keccak
<2>2. i \in 0 .. N /\ i - 1 \in 0 .. N /\ txs[i] \in X
  BY <1>1
<2>3. /\ rest(i) \in Seq(X) /\ Len(rest(i)) = N - i
      /\ \A j \in 1 .. N - i : i + j \in 1 .. N /\ rest(i)[j] = txs[i + j]
  BY <1>3, <2>2
<2>4. /\ rest(i - 1) \in Seq(X) /\ Len(rest(i - 1)) = N - (i - 1)
      /\ \A j \in 1 .. N - (i - 1) : rest(i - 1)[j] = txs[(i - 1) + j]
  BY <1>3, <2>2
<2> DEFINE all == <<txs[i]>> \o rest(i)
<2>5. /\ all \in Seq(X) /\ Len(all) = N - i + 1 /\ all[1] = txs[i]
      /\ \A j \in 1 .. N - i : all[j + 1] = rest(i)[j]
  BY <2>2, <2>3
<2>6. ASSUME NEW j \in 1 .. N - i + 1 PROVE all[j] = rest(i - 1)[j]
<3> HIDE DEF all
<3>1. CASE j = 1
<4>1. 1 \in 1 .. N - (i - 1) /\ (i - 1) + 1 = i
  BY <1>1
<4> QED
  BY <2>4, <2>5, <3>1, <4>1
<3>2. CASE j # 1
<4>1. j - 1 \in 1 .. N - i /\ (j - 1) + 1 = j /\ i + (j - 1) = (i - 1) + j /\ j \in 1 .. N - (i - 1)
  BY <1>1, <3>2
<4>2. all[j] = rest(i)[j - 1] /\ rest(i)[j - 1] = txs[(i - 1) + j] /\ rest(i - 1)[j] = txs[(i - 1) + j]
  BY <2>3, <2>4, <2>5, <4>1
<4> QED
  BY <4>2
<3> QED
  BY <3>1, <3>2
<2> HIDE DEF all
<2>7. Len(all) = Len(rest(i - 1)) /\ Len(all) = N - i + 1
  BY <1>1, <2>4, <2>5
<2>8. all = rest(i - 1)
<3>1. \A j \in 1 .. Len(all) : all[j] = rest(i - 1)[j]
  BY <2>6, <2>7
<3> QED
  BY <2>4, <2>5, <2>7, <3>1, SeqEqual, Zenon
<2> QED
  BY <2>1, <2>8 DEF all
<1>9. ASSUME NEW i \in 1 .. N PROVE rest(i - 1) = SubSeq(txs, i, N)
<2>1. (i - 1) + 1 = i
  OBVIOUS
<2> QED
  BY <2>1 DEF rest
<1>10. ASSUME NEW i \in 1 .. N, NEW k \in 0 .. N
       PROVE  Keccak(hashed[i]) = rest(k) <=> i = k + 1
<2>1. i - 1 \in 0 .. N
  BY <1>1
<2>2. Len(rest(i - 1)) = N - (i - 1) /\ Len(rest(k)) = N - k
  BY <1>3, <2>1
<2>3. rest(i - 1) = rest(k) => i = k + 1
  BY <1>1, <2>2
<2>4. i = k + 1 => i - 1 = k
  OBVIOUS
<2> QED
  BY <1>8, <2>3, <2>4
<1> QED
  BY <1>1, <1>4, <1>5, <1>6, <1>7, <1>8, <1>9, <1>10 DEF hashed, N, rest

-----------------------------------------------------------------------------
(* The report of a frame *)

LEMMA SameReport ==
  ASSUME seen' = seen
  PROVE  /\ Payloads' = Payloads /\ HashedTransactions' = HashedTransactions
         /\ NewlyExited' = NewlyExited
<1>1. NewlyExited' = NewlyExited
  BY DEF NewlyExited
<1>2. Payloads' = Payloads
  BY <1>1 DEF Payloads
<1>3. HashedTransactions' = HashedTransactions
  BY <1>2 DEF HashedTransactions
<1> QED
  BY <1>1, <1>2, <1>3

LEMMA ReportFacts ==
  ASSUME seen.exited \in [Operators -> Nat]
  PROVE  /\ Payloads \in Seq(Item) /\ Len(Payloads) \in Nat
         /\ NewlyExited \subseteq Operators
         /\ \A i \in 1 .. Len(Payloads) :
              RightItem([o \in NewlyExited |-> seen.exited[o]], Payloads[i])
         /\ \A i \in 2 .. Len(Payloads) : Before(LastCovered(Payloads, i - 1), Payloads[i].operators[1])
         /\ NewlyExited \subseteq Covered(Payloads, Len(Payloads))
<1> DEFINE v == [o \in NewlyExited |-> seen.exited[o]]
<1>1. NewlyExited \in SUBSET Operators
  BY DEF NewlyExited
<1>2. v \in [NewlyExited -> Nat] /\ DOMAIN v = NewlyExited
  BY <1>1
<1> HIDE DEF v
<1>3. ItemsOf(v, BuildPayloads(v))
  BY <1>1, <1>2, PayloadsFacts
<1>4. Payloads = BuildPayloads(v)
  BY DEF Payloads, v
<1>5. ItemsOf(v, Payloads)
  BY <1>3, <1>4
<1>6. /\ Payloads \in Seq(Item)
      /\ \A i \in 1 .. Len(Payloads) : RightItem(v, Payloads[i])
      /\ \A i \in 2 .. Len(Payloads) :
           Before(Payloads[i - 1].operators[Len(Payloads[i - 1].operators)], Payloads[i].operators[1])
      /\ \A o \in NewlyExited :
           \E i \in 1 .. Len(Payloads) :
             \E h \in 1 .. Len(Payloads[i].operators) : Payloads[i].operators[h] = o
  BY <1>2, <1>5, Zenon DEF ItemsOf
<1>7. Len(Payloads) \in Nat
  BY <1>6
<1>8. ASSUME NEW i \in 2 .. Len(Payloads)
      PROVE  Before(LastCovered(Payloads, i - 1), Payloads[i].operators[1])
<2>1. i - 1 # 0
  BY <1>7
<2>2. LastCovered(Payloads, i - 1) = Payloads[i - 1].operators[Len(Payloads[i - 1].operators)]
  BY <2>1, Zenon DEF LastCovered
<2> QED
  BY <1>6, <2>2, Zenon
<1>9. NewlyExited \subseteq Covered(Payloads, Len(Payloads))
<2>1. ASSUME NEW o \in NewlyExited PROVE o \in Covered(Payloads, Len(Payloads))
<3>1. o \in Operators
  BY <1>1
<3> QED
  BY <1>6, <3>1, Zenon DEF Covered
<2> QED
  BY <2>1, Zenon
<1> QED
  BY <1>1, <1>6, <1>7, <1>8, <1>9, Zenon DEF v

-----------------------------------------------------------------------------
(* What the contract accepts *)

\* Every item begins after the last operator before it.
LEMMA ItemsInOrder ==
  ASSUME seen.exited \in [Operators -> Nat], NEW g \in 1 .. Len(Payloads)
  PROVE  /\ Before(LastCovered(Payloads, g - 1), Payloads[g].operators[1])
         /\ Payloads[g] \in Item /\ Len(Payloads[g].operators) \in 1 .. MaxNodeOps
         /\ DOMAIN Payloads[g].counts = 1 .. Len(Payloads[g].operators)
         /\ DOMAIN Payloads[g].operators = 1 .. Len(Payloads[g].operators)
         /\ \A j \in 1 .. Len(Payloads[g].operators) :
              /\ Payloads[g].operators[j] \in Operators
              /\ Payloads[g].counts[j] = seen.exited[Payloads[g].operators[j]]
         /\ \A j \in 2 .. Len(Payloads[g].operators) :
              /\ Before(Payloads[g].operators[j - 1], Payloads[g].operators[j])
              /\ Payloads[g].operators[j - 1][1] = Payloads[g].operators[j][1]
<1> DEFINE v == [o \in NewlyExited |-> seen.exited[o]]
           those == Payloads[g].operators
<1>1. /\ Payloads \in Seq(Item) /\ Len(Payloads) \in Nat /\ NewlyExited \subseteq Operators
      /\ RightItem(v, Payloads[g])
  BY ReportFacts
<1>2. DOMAIN v = NewlyExited /\ \A o \in NewlyExited : v[o] = seen.exited[o]
  OBVIOUS
<1> HIDE DEF v
<1>3. /\ Payloads[g] \in Item /\ those \in Seq(DOMAIN v)
      /\ Len(those) \in 1 .. MaxNodeOps
      /\ DOMAIN Payloads[g].counts = 1 .. Len(those)
      /\ \A j \in 1 .. Len(those) : Payloads[g].counts[j] = v[those[j]]
      /\ \A j \in 2 .. Len(those) : Before(those[j - 1], those[j]) /\ those[j - 1][1] = those[j][1]
  BY <1>1, Zenon DEF RightItem
<1>4. DOMAIN those = 1 .. Len(those) /\ \A j \in 1 .. Len(those) : those[j] \in NewlyExited
  BY <1>2, <1>3
<1>5. \A j \in 1 .. Len(those) : those[j] \in Operators /\ Payloads[g].counts[j] = seen.exited[those[j]]
  BY <1>1, <1>2, <1>3, <1>4, Zenon
<1>6. Before(LastCovered(Payloads, g - 1), those[1])
<2>1. CASE g = 1
<3>1. 1 \in 1 .. Len(those)
  BY <1>3
<3>2. those[1] \in Operators
  BY <1>5, <3>1
<3>3. LastCovered(Payloads, g - 1) = <<0, -1>>
  BY <2>1 DEF LastCovered
<3> QED
  BY <3>2, <3>3, OrderFacts
<2>2. CASE g # 1
<3>1. g \in 2 .. Len(Payloads)
  BY <1>1, <2>2
<3> QED
  BY <3>1, ReportFacts
<2> QED
  BY <2>1, <2>2
<1> QED
  BY <1>3, <1>4, <1>5, <1>6, Zenon

\* Where a report is.
LEMMA SentFacts ==
  ASSUME ExtraTypes, NEW k \in 0 .. TxCount(Payloads), Through(k)
  PROVE  LET N == TxCount(Payloads)
             L == Len(Payloads)
             txs == BuildTransactions(Payloads)
             d == Reach(Payloads, k)
         IN /\ N \in Nat /\ L \in Nat /\ (N = 0 <=> L = 0) /\ d \in 0 .. L /\ (k = N => d = L)
            /\ txs \in Seq(Seq(TxItem)) /\ Len(txs) = N
            /\ DOMAIN HashedTransactions = 1 .. N
            /\ processing.main /\ processing.count = L /\ processing.done = d
            /\ processing.last = LastCovered(Payloads, d)
            /\ processing.hash = SubSeq(txs, k + 1, N)
            /\ L > 0 => (processing.submitted <=> k = N)
            /\ \A i \in 1 .. N :
                 /\ HashedTransactions[i].items = txs[i]
                 /\ HashedTransactions[i].next = SubSeq(txs, i + 1, N)
                 /\ HashedTransactions[i].next = <<>> <=> i = N
                 /\ Keccak(HashedTransactions[i]) = processing.hash <=> i = k + 1
<1> DEFINE N == TxCount(Payloads)
           L == Len(Payloads)
           txs == BuildTransactions(Payloads)
           d == Reach(Payloads, k)
<1>1. Payloads \in Seq(Item) /\ L \in Nat
  BY ReportFacts DEF ExtraTypes
<1>2. txs \in Seq(Seq(TxItem)) /\ Len(txs) = N
  BY <1>1, TransactionsFacts
<1>3. N \in Nat /\ (N = 0 <=> L = 0) /\ d \in 0 .. L /\ (k = N => d = L)
  BY <1>1, ReachFacts
<1>4. HashedTransactions = AddHashes(txs)
  BY DEF HashedTransactions
<1>5. /\ processing = [main |-> TRUE, submitted |-> processing.submitted,
                      hash |-> SubSeq(txs, k + 1, Len(txs)), count |-> L, done |-> d,
                      last |-> LastCovered(Payloads, d)]
      /\ L > 0 => (processing.submitted <=> k = Len(txs))
  BY Zenon DEF Through
<1> HIDE DEF txs, d, N, L
<1>6. /\ processing.main /\ processing.count = L /\ processing.done = d
      /\ processing.last = LastCovered(Payloads, d)
      /\ processing.hash = SubSeq(txs, k + 1, N)
  BY <1>2, <1>5
<1>7. /\ DOMAIN HashedTransactions = 1 .. N
      /\ \A i \in 1 .. N :
           /\ HashedTransactions[i].items = txs[i]
           /\ HashedTransactions[i].next = SubSeq(txs, i + 1, N)
           /\ HashedTransactions[i].next = <<>> <=> i = N
      /\ \A i \in 1 .. N, h \in 0 .. N :
           Keccak(HashedTransactions[i]) = SubSeq(txs, h + 1, N) <=> i = h + 1
  BY <1>2, <1>4, HashesFacts
<1>8. k \in 0 .. N
  BY DEF N
<1>9. \A i \in 1 .. N : Keccak(HashedTransactions[i]) = processing.hash <=> i = k + 1
  BY <1>6, <1>7, <1>8
<1>10. L > 0 => (processing.submitted <=> k = N)
  BY <1>2, <1>5
<1> QED
  BY <1>1, <1>2, <1>3, <1>6, <1>7, <1>9, <1>10 DEF N, L, txs, d

\* What is in the transaction after the first k.
LEMMA TransactionAfter ==
  ASSUME NEW payloads \in Seq(Item), NEW k \in 0 .. TxCount(payloads), k + 1 \in 1 .. TxCount(payloads)
  PROVE  LET tx == BuildTransactions(payloads)[k + 1]
             d == Reach(payloads, k)
             l == Reach(payloads, k + 1) - d
             L == Len(payloads)
         IN /\ DOMAIN tx = 1 .. l /\ Len(tx) = l
            /\ \A j \in 1 .. l : /\ d + j \in 1 .. L
                                 /\ tx[j].index = d + j - 1 /\ tx[j].payload = payloads[d + j]
            /\ l \in Nat /\ l > 0 /\ d \in Nat /\ d + l = Reach(payloads, k + 1) /\ d + l \in 1 .. L
            /\ k + 1 = TxCount(payloads) => d + l = L
<1> DEFINE N == TxCount(payloads)
           L == Len(payloads)
           d == Reach(payloads, k)
           r == Reach(payloads, k + 1)
<1>1. (k + 1) - 1 = k /\ L \in Nat /\ N \in Nat /\ k \in 0 .. N /\ k + 1 \in 1 .. N /\ k + 1 \in 0 .. N
<2>1. N \in Nat
  BY ReachFacts
<2> QED
  BY <2>1
<1>2. /\ d \in 0 .. L /\ r \in 0 .. L /\ d < r /\ (k + 1 = N => r = L)
  BY <1>1, ReachFacts
<1>3. LET tx == BuildTransactions(payloads)[k + 1]
      IN /\ Len(tx) = r - d /\ DOMAIN tx = 1 .. r - d
         /\ \A j \in 1 .. r - d : /\ d + j \in 1 .. L
                                 /\ tx[j].index = d + j - 1 /\ tx[j].payload = payloads[d + j]
<2>1. PICK h \in 1 .. N : h = k + 1 /\ h - 1 = k
  BY <1>1
<2>2. LET tx == BuildTransactions(payloads)[h]
          e == Reach(payloads, h - 1)
      IN /\ Len(tx) = Reach(payloads, h) - e /\ DOMAIN tx = 1 .. Reach(payloads, h) - e
         /\ \A j \in 1 .. Reach(payloads, h) - e :
              /\ e + j \in 1 .. L
              /\ tx[j].index = e + j - 1 /\ tx[j].payload = payloads[e + j]
  BY TransactionsFacts
<2> HIDE DEF N, L
<2> QED
  BY <2>1, <2>2, Zenon
<1> HIDE DEF d, r, L, N
<1>4. r - d \in Nat /\ r - d > 0 /\ d \in Nat /\ d + (r - d) = r /\ r \in 1 .. L
  BY <1>1, <1>2
<1> QED
  BY <1>2, <1>3, <1>4, Zenon DEF d, r, L, N

\* The next transaction is the only one the contract accepts.
LEMMA NextAccepted ==
  ASSUME ExtraTypes, NotAhead, NEW k \in 0 .. TxCount(Payloads), Through(k),
         Open, processing.count # 0
  PROVE  /\ k + 1 \in 1 .. TxCount(Payloads) /\ processing.count > 0
         /\ \A i \in 1 .. TxCount(Payloads) : Acceptable(HashedTransactions[i]) <=> i = k + 1
<1> DEFINE N == TxCount(Payloads)
           L == Len(Payloads)
           txs == BuildTransactions(Payloads)
           d == Reach(Payloads, k)
           tx == HashedTransactions[k + 1]
           l == Reach(Payloads, k + 1) - d
<1>1. /\ N \in Nat /\ L \in Nat /\ d \in 0 .. L
      /\ processing.main /\ processing.count = L /\ processing.done = d
      /\ processing.last = LastCovered(Payloads, d)
      /\ L > 0 => (processing.submitted <=> k = N)
      /\ \A i \in 1 .. N :
           /\ HashedTransactions[i].items = txs[i]
           /\ HashedTransactions[i].next = <<>> <=> i = N
           /\ Keccak(HashedTransactions[i]) = processing.hash <=> i = k + 1
  BY SentFacts, Zenon
<1>2. k + 1 \in 1 .. N /\ L > 0
<2>1. L > 0 /\ ~processing.submitted
  BY <1>1 DEF Open
<2> QED
  BY <1>1, <2>1
<1>3. ASSUME NEW i \in 1 .. N, Acceptable(HashedTransactions[i]) PROVE i = k + 1
<2>1. Keccak(HashedTransactions[i]) = processing.hash
  BY <1>3, Zenon DEF Acceptable
<2> QED
  BY <1>1, <2>1
<1>4. Payloads \in Seq(Item) /\ seen.exited \in [Operators -> Nat]
  BY ReportFacts DEF ExtraTypes
<1>5. /\ DOMAIN txs[k + 1] = 1 .. l /\ Len(txs[k + 1]) = l
      /\ \A j \in 1 .. l :
           /\ d + j \in 1 .. L
           /\ txs[k + 1][j].index = d + j - 1
           /\ txs[k + 1][j].payload = Payloads[d + j]
  BY <1>2, <1>4, TransactionAfter, Zenon
<1>6. l \in Nat /\ l > 0 /\ d + l = Reach(Payloads, k + 1) /\ (k + 1 = N => d + l = L)
  BY <1>2, <1>4, TransactionAfter, Zenon
<1> HIDE DEF l, d, N, L
<1>7. /\ tx.items = txs[k + 1] /\ Keccak(tx) = processing.hash /\ (tx.next = <<>> <=> k + 1 = N)
  BY <1>1, <1>2
<1> HIDE DEF tx, txs
<1> DEFINE item(j) == tx.items[j].payload
           lastBefore(j) == IF j = 1 THEN processing.last ELSE Last(item(j - 1).operators)
<1>8. ASSUME NEW j \in 1 .. l
      PROVE  /\ tx.items[j].index = processing.done + j - 1
             /\ Len(item(j).operators) \in 1 .. MaxNodeOps
             /\ Before(lastBefore(j), Head(item(j).operators))
             /\ \A h \in DOMAIN item(j).operators :
                  /\ item(j).counts[h] >= router.operators[item(j).operators[h]]
                  /\ h > 1 => /\ Before(item(j).operators[h - 1], item(j).operators[h])
                              /\ item(j).operators[h - 1][1] = item(j).operators[h][1]
<2>1. PICK g \in 1 .. L : g = d + j
  BY <1>5
<2>2. /\ item(j) = Payloads[g] /\ tx.items[j].index = d + j - 1
  BY <1>5, <1>7, <2>1
<2>3. /\ Before(LastCovered(Payloads, g - 1), Payloads[g].operators[1])
      /\ Payloads[g] \in Item /\ Len(Payloads[g].operators) \in 1 .. MaxNodeOps
      /\ DOMAIN Payloads[g].operators = 1 .. Len(Payloads[g].operators)
      /\ \A h \in 1 .. Len(Payloads[g].operators) :
           /\ Payloads[g].operators[h] \in Operators
           /\ Payloads[g].counts[h] = seen.exited[Payloads[g].operators[h]]
      /\ \A h \in 2 .. Len(Payloads[g].operators) :
           /\ Before(Payloads[g].operators[h - 1], Payloads[g].operators[h])
           /\ Payloads[g].operators[h - 1][1] = Payloads[g].operators[h][1]
  BY <1>4, ItemsInOrder DEF L
<2>4. lastBefore(j) = LastCovered(Payloads, g - 1)
<3>1. CASE j = 1
<4>1. g - 1 = d
  BY <1>1, <2>1, <3>1
<4> QED
  BY <1>1, <3>1, <4>1
<3>2. CASE j # 1
<4>1. j - 1 \in 1 .. l /\ d + (j - 1) = g - 1 /\ g - 1 # 0
  BY <1>1, <1>6, <2>1, <3>2
<4>2. item(j - 1) = Payloads[g - 1]
  BY <1>5, <1>7, <4>1
<4>3. LastCovered(Payloads, g - 1) = Last(Payloads[g - 1].operators)
  BY <4>1, Zenon DEF LastCovered, Last
<4> QED
  BY <3>2, <4>2, <4>3, Zenon
<3> QED
  BY <3>1, <3>2
<2>5. Head(item(j).operators) = Payloads[g].operators[1]
<3>1. Payloads[g].operators \in Seq(Operators) /\ Payloads[g].operators # <<>>
  BY <2>3 DEF Item
<3> QED
  BY <2>2, <3>1
<2> HIDE DEF item, lastBefore
<2>6. ASSUME NEW h \in 1 .. Len(Payloads[g].operators)
      PROVE  item(j).counts[h] >= router.operators[item(j).operators[h]]
<3>1. PICK o \in Operators : o = Payloads[g].operators[h] /\ Payloads[g].counts[h] = seen.exited[o]
  BY <2>3
<3>2. router.operators[o] \in Nat /\ seen.exited[o] \in Nat /\ router.operators[o] <= seen.exited[o]
  BY DEF ExtraTypes, IsRouter, NotAhead
<3> QED
  BY <2>2, <3>1, <3>2
<2>7. ASSUME NEW h \in 1 .. Len(Payloads[g].operators), h > 1
      PROVE  /\ Before(item(j).operators[h - 1], item(j).operators[h])
             /\ item(j).operators[h - 1][1] = item(j).operators[h][1]
<3>1. h \in 2 .. Len(Payloads[g].operators)
  BY <2>3, <2>7
<3> QED
  BY <2>2, <2>3, <3>1
<2>8. tx.items[j].index = processing.done + j - 1
  BY <1>1, <2>2
<2> QED
  BY <2>2, <2>3, <2>4, <2>5, <2>6, <2>7, <2>8, Zenon
<1>9. tx.next = <<>> => processing.done + Len(tx.items) = processing.count
  BY <1>1, <1>5, <1>6, <1>7
<1>10. DOMAIN tx.items = 1 .. l
  BY <1>5, <1>7
<1>11. Acceptable(tx)
<2>1. processing.count > 0
  BY <1>1, <1>2
<2> QED
  BY <1>7, <1>8, <1>9, <1>10, <2>1, Zenon DEF Acceptable
<1>12. processing.count > 0
  BY <1>1, <1>2
<1> QED
  BY <1>2, <1>3, <1>11, <1>12 DEF tx, N

-----------------------------------------------------------------------------
(* Extra data goes on until it is complete *)

LEMMA CompleteIfInv == ExtraInv => ExtraDataIsComplete
<1> SUFFICES ASSUME ExtraInv PROVE ExtraDataIsComplete
  OBVIOUS
<1>1. ExtraTypes /\ NotAhead /\ (~processing.main => processing = NoReport)
  BY DEF ExtraInv
<1>2. seen.exited \in [Operators -> Nat] /\ processing.main \in BOOLEAN
  BY <1>1 DEF ExtraTypes
<1>3. ASSUME processing.main
      PROVE  \E k \in 0 .. TxCount(Payloads) : Through(k)
  BY <1>3, Zenon DEF ExtraInv
<1>4. ExtraDataGoesOn
<2> SUFFICES ASSUME Open
             PROVE  IF processing.count = 0 THEN ItemsCount = 0
                    ELSE Cardinality({i \in DOMAIN HashedTransactions :
                                        Acceptable(HashedTransactions[i])}) = 1
  BY Zenon DEF ExtraDataGoesOn
<2>1. PICK k \in 0 .. TxCount(Payloads) : Through(k)
  BY <1>3, Zenon DEF Open
<2>2. processing.count = Len(Payloads) /\ DOMAIN HashedTransactions = 1 .. TxCount(Payloads)
  BY <1>1, <2>1, SentFacts, Zenon
<2>3. CASE processing.count = 0
  BY <2>2, <2>3 DEF ItemsCount
<2>4. CASE processing.count # 0
<3>1. /\ k + 1 \in 1 .. TxCount(Payloads)
      /\ \A i \in 1 .. TxCount(Payloads) : Acceptable(HashedTransactions[i]) <=> i = k + 1
  BY <1>1, <2>1, <2>4, NextAccepted, Zenon
<3>2. {i \in DOMAIN HashedTransactions : Acceptable(HashedTransactions[i])} = {k + 1}
  BY <2>2, <3>1, Zenon
<3>3. Cardinality({k + 1}) = 1
  BY FS_Singleton, Zenon
<3> QED
  BY <2>4, <3>2, <3>3, Zenon
<2> QED
  BY <2>3, <2>4, Zenon
<1>5. RouterCatchesUp
<2> SUFFICES ASSUME processing.submitted
             PROVE  /\ router.operators = seen.exited
                    /\ \A m \in Modules : router.modules[m] = OfModule(router.operators, m)
  BY Zenon DEF RouterCatchesUp
<2>1. processing.main
  BY <1>1, <1>2 DEF NoReport
<2>2. PICK k \in 0 .. TxCount(Payloads) : Through(k)
  BY <1>3, <2>1
<2> DEFINE d == Reach(Payloads, k)
<2>3. d = Len(Payloads)
  BY <1>1, <2>2, SentFacts
<2>4. /\ router.operators = [o \in Operators |-> IF o \in Covered(Payloads, d) THEN seen.exited[o]
                                                 ELSE seen.router.operators[o]]
      /\ router.modules = [m \in Modules |-> OfModule(seen.exited, m)]
  BY <2>2, Zenon DEF Through
<2> HIDE DEF d
<2>5. NewlyExited \subseteq Covered(Payloads, d)
  BY <1>2, <2>3, ReportFacts
<2>6. \A o \in Operators : o \notin Covered(Payloads, d) => seen.exited[o] = seen.router.operators[o]
  BY <2>5 DEF NewlyExited
<2>7. router.operators = [o \in Operators |-> seen.exited[o]]
  BY <2>4, <2>6
<2>8. router.operators = seen.exited
  BY <1>2, <2>7
<2> QED
  BY <2>4, <2>8
<1> QED
  BY <1>4, <1>5 DEF ExtraDataIsComplete

LEMMA ExtraInvInit == ExtraInit => ExtraInv
<1> SUFFICES ASSUME ExtraInit PROVE ExtraInv
  OBVIOUS
<1>1. /\ exited = [o \in Operators |-> 0]
      /\ router = [operators |-> exited, modules |-> [m \in Modules |-> 0]]
      /\ seen = [exited |-> exited, router |-> router]
      /\ processing = NoReport
  BY DEF ExtraInit
<1>2. ExtraTypes
  BY <1>1 DEF ExtraTypes, IsRouter, NoReport
<1>3. NotAhead
  BY <1>1 DEF NotAhead
<1> QED
  BY <1>1, <1>2, <1>3 DEF ExtraInv, NoReport

\* Nothing of the report changes.
LEMMA SentStays ==
  ASSUME NEW k, Through(k), seen' = seen, router' = router, processing' = processing
  PROVE  Through(k)'
  BY SameReport DEF Through

LEMMA ExtraInvStays ==
  ASSUME ExtraInv, ExtraTypes', NotAhead', seen' = seen, router' = router, processing' = processing
  PROVE  ExtraInv'
<1>1. ASSUME processing.main PROVE \E k \in 0 .. TxCount(Payloads') : Through(k)'
<2>1. PICK k \in 0 .. TxCount(Payloads) : Through(k)
  BY <1>1 DEF ExtraInv
<2>2. Through(k)'
  BY <2>1, SentStays
<2> QED
  BY <2>1, <2>2, SameReport
<1> QED
  BY <1>1 DEF ExtraInv, NoReport

LEMMA LeaveInv ==
  ASSUME ExtraInv, NEW o \in Operators, Leave(o)
  PROVE  ExtraInv'
<1>1. exited' = [exited EXCEPT ![o] = @ + 1] /\ seen' = seen /\ router' = router /\ processing' = processing
  BY DEF Leave
<1>2. ExtraTypes /\ NotAhead
  BY DEF ExtraInv
<1>3. exited' \in [Operators -> Nat] /\ \A p \in Operators : exited[p] <= exited'[p]
  BY <1>1, <1>2 DEF ExtraTypes
<1>4. ExtraTypes'
  BY <1>1, <1>2, <1>3 DEF ExtraTypes, IsRouter
<1>5. NotAhead'
<2>1. ASSUME NEW p \in Operators PROVE seen.exited[p] <= exited'[p]
<3>1. seen.exited[p] \in Nat /\ exited[p] \in Nat /\ exited'[p] \in Nat
  BY <1>2, <1>3 DEF ExtraTypes
<3>2. seen.exited[p] <= exited[p] /\ exited[p] <= exited'[p]
  BY <1>2, <1>3 DEF NotAhead
<3> QED
  BY <3>1, <3>2
<2> QED
  BY <1>1, <1>2, <2>1 DEF NotAhead
<1> QED
  BY <1>1, <1>4, <1>5, ExtraInvStays

LEMMA NextFrameInv ==
  ASSUME ExtraInv, NextFrame
  PROVE  ExtraInv'
<1>1. /\ seen' = [exited |-> exited, router |-> router] /\ processing' = NoReport
      /\ exited' = exited /\ router' = router
  BY DEF NextFrame
<1>2. ExtraTypes /\ NotAhead
  BY DEF ExtraInv
<1>3. ExtraTypes'
  BY <1>1, <1>2 DEF ExtraTypes, IsRouter, NoReport
<1>4. NotAhead'
<2>1. ASSUME NEW o \in Operators PROVE router.operators[o] <= exited[o] /\ exited[o] <= exited[o]
<3>1. router.operators[o] \in Nat /\ seen.exited[o] \in Nat /\ exited[o] \in Nat
  BY <1>2 DEF ExtraTypes, IsRouter
<3>2. router.operators[o] <= seen.exited[o] /\ seen.exited[o] <= exited[o]
  BY <1>2 DEF NotAhead
<3> QED
  BY <3>1, <3>2
<2> QED
  BY <1>1, <2>1 DEF NotAhead
<1> QED
  BY <1>1, <1>3, <1>4 DEF ExtraInv, NoReport

LEMMA SubmitMainDataInv ==
  ASSUME ExtraInv, SubmitMainData
  PROVE  ExtraInv'
<1> DEFINE txs == BuildTransactions(Payloads)
           N == TxCount(Payloads)
<1>1. /\ ~processing.main
      /\ processing' = [NoReport EXCEPT !.main = TRUE, !.hash = DataHash, !.count = ItemsCount]
      /\ router' = [router EXCEPT !.modules =
           [m \in Modules |-> IF m \in ChangedModules THEN OfModule(seen.exited, m) ELSE @[m]]]
      /\ exited' = exited /\ seen' = seen
  BY DEF SubmitMainData
<1>2. ExtraTypes /\ NotAhead /\ router = seen.router
  BY <1>1 DEF ExtraInv
<1>3. /\ processing' = [main |-> TRUE, submitted |-> FALSE, hash |-> DataHash, count |-> ItemsCount,
                        done |-> 0, last |-> <<0, -1>>]
  BY <1>1 DEF NoReport
<1>4. router' = [operators |-> router.operators,
                 modules |-> [m \in Modules |-> OfModule(seen.exited, m)]]
<2> DEFINE f == [m \in Modules |-> IF m \in ChangedModules THEN OfModule(seen.exited, m)
                                   ELSE router.modules[m]]
<2>1. router' = [router EXCEPT !.modules = f]
  BY <1>1
<2>2. router = [operators |-> router.operators, modules |-> router.modules]
  BY <1>2 DEF ExtraTypes, IsRouter
<2>3. ASSUME NEW m \in Modules
      PROVE  (IF m \in ChangedModules THEN OfModule(seen.exited, m) ELSE router.modules[m])
               = OfModule(seen.exited, m)
  BY <1>2 DEF ChangedModules
<2>4. f = [m \in Modules |-> OfModule(seen.exited, m)]
  BY <2>3
<2> HIDE DEF f
<2> QED
  BY <2>1, <2>2, <2>4
<1>5. /\ Payloads \in Seq(Item) /\ Len(Payloads) \in Nat
  BY <1>2, ReportFacts DEF ExtraTypes
<1>6. /\ N \in Nat /\ Reach(Payloads, 0) = 0 /\ (N = 0 <=> Len(Payloads) = 0)
  BY <1>5, ReachFacts
<1>7. txs \in Seq(Seq(TxItem)) /\ Len(txs) = N
  BY <1>5, TransactionsFacts
<1>8. HashedTransactions = AddHashes(txs)
  BY DEF HashedTransactions
<1> HIDE DEF txs, N
<1>9. DataHash = SubSeq(txs, 1, N)
<2>1. /\ HashedTransactions = <<>> <=> N = 0
      /\ \A i \in 1 .. N : Keccak(HashedTransactions[i]) = SubSeq(txs, i, N)
  BY <1>7, <1>8, HashesFacts
<2>2. CASE N = 0
<3>1. SubSeq(txs, 1, N) = <<>>
  BY <1>7, <2>2
<3> QED
  BY <2>1, <2>2, <3>1 DEF DataHash
<2>3. CASE N # 0
<3>1. 1 \in 1 .. N
  BY <1>6, <2>3
<3> QED
  BY <2>1, <2>3, <3>1 DEF DataHash
<2> QED
  BY <2>2, <2>3
<1>10. Covered(Payloads, 0) = {}
<2>1. 1 .. 0 = {}
  OBVIOUS
<2> QED
  BY <2>1 DEF Covered
<1>11. Through(0)'
<2>1. Payloads' = Payloads
  BY <1>1, SameReport
<2>2. router'.operators = [o \in Operators |-> seen.router.operators[o]]
  BY <1>2, <1>4 DEF ExtraTypes, IsRouter
<2>3. router'.operators = [o \in Operators |-> IF o \in Covered(Payloads, 0) THEN seen.exited[o]
                                               ELSE seen.router.operators[o]]
  BY <1>10, <2>2
<2>4. router'.modules = [m \in Modules |-> OfModule(seen.exited, m)]
  BY <1>4
<2>5. /\ processing' = [main |-> TRUE, submitted |-> processing'.submitted,
                        hash |-> SubSeq(txs, 0 + 1, Len(txs)), count |-> Len(Payloads),
                        done |-> Reach(Payloads, 0), last |-> LastCovered(Payloads, Reach(Payloads, 0))]
      /\ ~processing'.submitted
<3>1. LastCovered(Payloads, Reach(Payloads, 0)) = <<0, -1>>
  BY <1>6 DEF LastCovered
<3>2. SubSeq(txs, 0 + 1, Len(txs)) = DataHash
  BY <1>7, <1>9
<3> QED
  BY <1>3, <1>6, <3>1, <3>2 DEF ItemsCount
<2>6. Len(Payloads) > 0 => ~(0 = Len(txs))
  BY <1>6, <1>7
<2> QED
  BY <1>1, <1>6, <2>1, <2>3, <2>4, <2>5, <2>6 DEF Through, txs
<1>12. ExtraTypes'
<2>0. IsRouter(router) /\ IsRouter(seen.router)
  BY <1>2, Zenon DEF ExtraTypes
<2>1. router.operators \in [Operators -> Nat] /\ IsRouter(seen.router)
  BY <2>0 DEF IsRouter
<2>2. IsRouter(router')
  BY <1>4, <2>1 DEF IsRouter
<2>3. processing'.submitted \in BOOLEAN /\ processing'.main \in BOOLEAN
  BY <1>3
<2> QED
  BY <1>1, <1>2, <2>1, <2>2, <2>3 DEF ExtraTypes
<1>13. NotAhead'
  BY <1>1, <1>2, <1>4 DEF NotAhead
<1>14. 0 \in 0 .. TxCount(Payloads') /\ processing'.main
<2>1. Payloads' = Payloads
  BY <1>1, SameReport
<2> QED
  BY <1>3, <1>6, <2>1 DEF N
<1> QED
  BY <1>11, <1>12, <1>13, <1>14 DEF ExtraInv

LEMMA SubmitEmptyInv ==
  ASSUME ExtraInv, SubmitEmpty
  PROVE  ExtraInv'
<1>1. /\ processing.main /\ processing.count = 0 /\ ItemsCount = 0
      /\ processing' = [processing EXCEPT !.submitted = TRUE]
      /\ exited' = exited /\ seen' = seen /\ router' = router
  BY DEF SubmitEmpty, Open
<1>2. ExtraTypes /\ NotAhead
  BY DEF ExtraInv
<1>3. PICK k \in 0 .. TxCount(Payloads) : Through(k)
  BY <1>1 DEF ExtraInv
<1> DEFINE d == Reach(Payloads, k)
           txs == BuildTransactions(Payloads)
<1>4. /\ processing = [main |-> TRUE, submitted |-> processing.submitted,
                      hash |-> SubSeq(txs, k + 1, Len(txs)), count |-> Len(Payloads), done |-> d,
                      last |-> LastCovered(Payloads, d)]
      /\ router.operators = [o \in Operators |-> IF o \in Covered(Payloads, d) THEN seen.exited[o]
                                                 ELSE seen.router.operators[o]]
      /\ router.modules = [m \in Modules |-> OfModule(seen.exited, m)]
  BY <1>3, Zenon DEF Through
<1> HIDE DEF d, txs
<1>5. processing' = [main |-> TRUE, submitted |-> TRUE,
                     hash |-> SubSeq(txs, k + 1, Len(txs)), count |-> Len(Payloads), done |-> d,
                     last |-> LastCovered(Payloads, d)]
<2>1. PICK s, h, c, l : /\ s = processing.submitted /\ h = SubSeq(txs, k + 1, Len(txs))
                        /\ c = Len(Payloads) /\ l = LastCovered(Payloads, d)
  OBVIOUS
<2>2. processing = [main |-> TRUE, submitted |-> s, hash |-> h, count |-> c, done |-> d, last |-> l]
  BY <1>4, <2>1, Zenon
<2>3. processing' = [main |-> TRUE, submitted |-> TRUE, hash |-> h, count |-> c, done |-> d, last |-> l]
  BY <1>1, <2>2
<2> QED
  BY <2>1, <2>3, Zenon
<1>6. processing'.submitted = TRUE /\ processing'.main = TRUE
  BY <1>5
<1>7. Payloads' = Payloads
  BY <1>1, SameReport
<1>8. ~(Len(Payloads) > 0)
  BY <1>1 DEF ItemsCount
<1>9. Through(k)'
  BY <1>1, <1>4, <1>5, <1>6, <1>7, <1>8 DEF Through, d, txs
<1>10. ExtraTypes'
  BY <1>1, <1>2, <1>6 DEF ExtraTypes, IsRouter
<1>11. NotAhead'
  BY <1>1, <1>2 DEF NotAhead
<1> QED
  BY <1>3, <1>6, <1>7, <1>9, <1>10, <1>11 DEF ExtraInv

\* The operators of the l items after the first d.
CoveredNext(items, d, l) ==
  {o \in Operators :
     \E j \in 1 .. l : \E h \in 1 .. Len(items[d + j].operators) : items[d + j].operators[h] = o}

LEMMA CoveredGrows ==
  ASSUME NEW items, NEW d \in Nat, NEW l \in Nat
  PROVE  Covered(items, d + l) = Covered(items, d) \cup CoveredNext(items, d, l)
<1>1. \A i \in 1 .. d + l : i \in 1 .. d \/ (i - d \in 1 .. l /\ d + (i - d) = i)
  OBVIOUS
<1>2. \A i \in 1 .. d : i \in 1 .. d + l
  OBVIOUS
<1>3. \A j \in 1 .. l : d + j \in 1 .. d + l
  OBVIOUS
<1> QED
  BY <1>1, <1>2, <1>3, Zenon DEF Covered, CoveredNext

\* The numbers a transaction brings.
UpdatesOf(items) ==
  UNION {{<<item.payload.operators[j], item.payload.counts[j]>> :
            j \in DOMAIN item.payload.operators} : item \in ToSet(items)}

\* Every operator of a transaction gets its number, and no other one changes.
LEMMA UpdatesFacts ==
  ASSUME ExtraTypes, NEW d \in Nat, NEW l \in Nat,
         NEW items \in Seq(TxItem), DOMAIN items = 1 .. l,
         \A j \in 1 .. l : d + j \in 1 .. Len(Payloads) /\ items[j].payload = Payloads[d + j],
         NEW o \in Operators
  PROVE  /\ (\E u \in UpdatesOf(items) : u[1] = o) <=> o \in CoveredNext(Payloads, d, l)
         /\ (\E u \in UpdatesOf(items) : u[1] = o) =>
              (CHOOSE u \in UpdatesOf(items) : u[1] = o)[2] = seen.exited[o]
<1> DEFINE updates == UpdatesOf(items)
<1>1. seen.exited \in [Operators -> Nat]
  BY DEF ExtraTypes
<1>2. ASSUME NEW j \in 1 .. l
      PROVE  /\ DOMAIN items[j].payload.operators = 1 .. Len(Payloads[d + j].operators)
             /\ \A h \in 1 .. Len(Payloads[d + j].operators) :
                  items[j].payload.counts[h] = seen.exited[Payloads[d + j].operators[h]]
<2>1. d + j \in 1 .. Len(Payloads) /\ items[j].payload = Payloads[d + j]
  OBVIOUS
<2>2. PICK g \in 1 .. Len(Payloads) : g = d + j
  BY <2>1
<2>3. /\ DOMAIN Payloads[g].operators = 1 .. Len(Payloads[g].operators)
      /\ \A h \in 1 .. Len(Payloads[g].operators) :
           Payloads[g].counts[h] = seen.exited[Payloads[g].operators[h]]
  BY <1>1, ItemsInOrder
<2> QED
  BY <2>1, <2>2, <2>3, Zenon
<1>3. ToSet(items) = {items[j] : j \in 1 .. l}
  BY Zenon DEF ToSet
<1>4. \A u : u \in updates <=>
        \E j \in 1 .. l : \E h \in 1 .. Len(Payloads[d + j].operators) :
          u = <<Payloads[d + j].operators[h], seen.exited[Payloads[d + j].operators[h]]>>
<2> DEFINE of(item) == {<<item.payload.operators[j], item.payload.counts[j]>> :
                           j \in DOMAIN item.payload.operators}
<2>0. updates = UNION {of(item) : item \in ToSet(items)}
  BY Zenon DEF UpdatesOf
<2> HIDE DEF of
<2>1. \A u : u \in updates <=> \E j \in 1 .. l : u \in of(items[j])
  BY <1>3, <2>0
<2>2. ASSUME NEW j \in 1 .. l, NEW u
      PROVE  u \in of(items[j]) <=> (\E h \in 1 .. Len(Payloads[d + j].operators) :
                u = <<Payloads[d + j].operators[h], seen.exited[Payloads[d + j].operators[h]]>>)
<3>1. items[j].payload = Payloads[d + j]
  OBVIOUS
<3>2. \A h \in 1 .. Len(Payloads[d + j].operators) :
        <<items[j].payload.operators[h], items[j].payload.counts[h]>>
          = <<Payloads[d + j].operators[h], seen.exited[Payloads[d + j].operators[h]]>>
  BY <1>2, <3>1, Zenon
<3>3. DOMAIN items[j].payload.operators = 1 .. Len(Payloads[d + j].operators)
  BY <1>2
<3>4. u \in of(items[j]) <=>
        \E h \in DOMAIN items[j].payload.operators :
          u = <<items[j].payload.operators[h], items[j].payload.counts[h]>>
  BY DEF of
<3> QED
  BY <3>2, <3>3, <3>4, Zenon
<2> DEFINE in(u, j) == \E h \in 1 .. Len(Payloads[d + j].operators) :
                         u = <<Payloads[d + j].operators[h], seen.exited[Payloads[d + j].operators[h]]>>
<2>3. \A u : \A j \in 1 .. l : u \in of(items[j]) <=> in(u, j)
  BY <2>2
<2> HIDE DEF in
<2>4. \A u : u \in updates <=> \E j \in 1 .. l : in(u, j)
  BY <2>1, <2>3
<2> QED
  BY <2>4 DEF in
<1> HIDE DEF updates
<1>5. ASSUME NEW u \in updates, u[1] = o
      PROVE  /\ u[2] = seen.exited[o]
             /\ \E j \in 1 .. l : \E h \in 1 .. Len(Payloads[d + j].operators) :
                  Payloads[d + j].operators[h] = o
<2>0. PICK j \in 1 .. l : \E h \in 1 .. Len(Payloads[d + j].operators) :
        u = <<Payloads[d + j].operators[h], seen.exited[Payloads[d + j].operators[h]]>>
  BY <1>4
<2>1. PICK h \in 1 .. Len(Payloads[d + j].operators) :
        u = <<Payloads[d + j].operators[h], seen.exited[Payloads[d + j].operators[h]]>>
  BY <2>0
<2>2. PICK p : p = Payloads[d + j].operators[h]
  OBVIOUS
<2>3. u = <<p, seen.exited[p]>>
  BY <2>1, <2>2
<2>4. u[1] = p /\ u[2] = seen.exited[p]
  BY <2>3
<2> QED
  BY <1>5, <2>2, <2>4
<1>6. ASSUME NEW j \in 1 .. l, NEW h \in 1 .. Len(Payloads[d + j].operators),
             Payloads[d + j].operators[h] = o
      PROVE  \E u \in updates : u[1] = o
<2>1. <<o, seen.exited[o]>> \in updates
  BY <1>4, <1>6
<2>2. <<o, seen.exited[o]>>[1] = o
  OBVIOUS
<2> QED
  BY <2>1, <2>2
<1> QED
  BY <1>5, <1>6, Zenon DEF updates, CoveredNext

LEMMA SubmitExtraDataInv ==
  ASSUME ExtraInv, NEW i \in DOMAIN HashedTransactions, SubmitExtraData(HashedTransactions[i])
  PROVE  ExtraInv'
<1> DEFINE N == TxCount(Payloads)
           L == Len(Payloads)
           txs == BuildTransactions(Payloads)
           tx == HashedTransactions[i]
           updates == UpdatesOf(tx.items)
<1>1. /\ Acceptable(tx)
      /\ processing' = [processing EXCEPT !.hash = tx.next, !.submitted = tx.next = <<>>,
                                          !.done = @ + Len(tx.items),
                                          !.last = Last(Last(tx.items).payload.operators)]
      /\ router' = [router EXCEPT !.operators =
           [o \in Operators |-> IF \E u \in updates : u[1] = o
                                THEN (CHOOSE u \in updates : u[1] = o)[2] ELSE @[o]]]
      /\ exited' = exited /\ seen' = seen
  BY Zenon DEF SubmitExtraData, UpdatesOf
<1>2. ExtraTypes /\ NotAhead
  BY DEF ExtraInv
<1>3. Open /\ processing.main /\ processing.count # 0
<2>1. Open /\ processing.count > 0
  BY <1>1, Zenon DEF Acceptable
<2> QED
  BY <2>1 DEF Open
<1>4. PICK k \in 0 .. TxCount(Payloads) : Through(k)
  BY <1>3 DEF ExtraInv
<1> DEFINE d == Reach(Payloads, k)
           l == Reach(Payloads, k + 1) - d
<1>5. /\ N \in Nat /\ L \in Nat /\ d \in 0 .. L
      /\ txs \in Seq(Seq(TxItem)) /\ Len(txs) = N
      /\ DOMAIN HashedTransactions = 1 .. N
      /\ \A h \in 1 .. N :
           /\ HashedTransactions[h].items = txs[h]
           /\ HashedTransactions[h].next = SubSeq(txs, h + 1, N)
           /\ HashedTransactions[h].next = <<>> <=> h = N
  BY <1>2, <1>4, SentFacts, Zenon
<1>6. k + 1 \in 1 .. N /\ i = k + 1
<2>1. i \in 1 .. N /\ Acceptable(HashedTransactions[i])
  BY <1>1, <1>5
<2> QED
  BY <1>2, <1>3, <1>4, <2>1, NextAccepted, Zenon
<1>7. Payloads \in Seq(Item) /\ seen.exited \in [Operators -> Nat]
  BY <1>2, ReportFacts DEF ExtraTypes
<1>8. /\ DOMAIN txs[k + 1] = 1 .. l /\ Len(txs[k + 1]) = l
      /\ \A j \in 1 .. l :
           /\ d + j \in 1 .. L
           /\ txs[k + 1][j].payload = Payloads[d + j]
  BY <1>6, <1>7, TransactionAfter, Zenon
<1>9. l \in Nat /\ l > 0 /\ d \in Nat /\ d + l = Reach(Payloads, k + 1) /\ d + l \in 1 .. L
  BY <1>6, <1>7, TransactionAfter, Zenon
<1>10. /\ processing = [main |-> TRUE, submitted |-> processing.submitted,
                       hash |-> SubSeq(txs, k + 1, Len(txs)), count |-> L, done |-> d,
                       last |-> LastCovered(Payloads, d)]
       /\ router.operators = [o \in Operators |-> IF o \in Covered(Payloads, d) THEN seen.exited[o]
                                                  ELSE seen.router.operators[o]]
       /\ router.modules = [m \in Modules |-> OfModule(seen.exited, m)]
  BY <1>4, Zenon DEF Through
<1> HIDE DEF d, l, N, L, txs
<1>11. /\ tx.items = txs[k + 1] /\ tx.items \in Seq(TxItem) /\ DOMAIN tx.items = 1 .. l /\ Len(tx.items) = l
       /\ \A j \in 1 .. l : d + j \in 1 .. L /\ tx.items[j].payload = Payloads[d + j]
       /\ tx.next = SubSeq(txs, k + 1 + 1, N) /\ (tx.next = <<>> <=> k + 1 = N)
<2>1. txs[k + 1] \in Seq(TxItem)
  BY <1>5, <1>6
<2>2. /\ tx.items = txs[k + 1]
      /\ tx.next = SubSeq(txs, k + 1 + 1, N) /\ (tx.next = <<>> <=> k + 1 = N)
  BY <1>5, <1>6
<2> QED
  BY <1>8, <2>1, <2>2, Zenon
<1> HIDE DEF tx
<1>12. Last(Last(tx.items).payload.operators) = LastCovered(Payloads, d + l)
<2>1. l \in 1 .. l /\ d + l # 0
  BY <1>9
<2>2. Last(tx.items).payload = Payloads[d + l]
  BY <1>11, <2>1, Zenon DEF Last
<2> QED
  BY <2>1, <2>2, Zenon DEF Last, LastCovered
<1>13. processing' = [main |-> TRUE, submitted |-> k + 1 = N, hash |-> SubSeq(txs, k + 1 + 1, N),
                      count |-> L, done |-> d + l, last |-> LastCovered(Payloads, d + l)]
<2>1. PICK s, h, la, nx, nla : /\ s = processing.submitted /\ h = SubSeq(txs, k + 1, Len(txs))
                               /\ la = LastCovered(Payloads, d) /\ nx = tx.next
                               /\ nla = Last(Last(tx.items).payload.operators)
  OBVIOUS
<2>2. processing = [main |-> TRUE, submitted |-> s, hash |-> h, count |-> L, done |-> d, last |-> la]
  BY <1>10, <2>1, Zenon
<2>3. PICK b \in BOOLEAN : b = (nx = <<>>)
  OBVIOUS
<2>4. processing' = [processing EXCEPT !.hash = nx, !.submitted = b, !.done = @ + l, !.last = nla]
  BY <1>1, <1>11, <2>1, <2>3, Zenon
<2>5. processing' = [main |-> TRUE, submitted |-> b, hash |-> nx, count |-> L, done |-> d + l, last |-> nla]
  BY <2>2, <2>4
<2>6. b = (k + 1 = N)
  BY <1>11, <2>1, <2>3, Zenon
<2> QED
  BY <1>11, <1>12, <2>1, <2>5, <2>6, Zenon
<1>14. /\ processing'.main = TRUE /\ processing'.submitted \in BOOLEAN
       /\ processing'.submitted <=> k + 1 = N
  BY <1>13
<1>15. router' = [operators |-> [o \in Operators |-> IF o \in Covered(Payloads, d + l) THEN seen.exited[o]
                                                    ELSE seen.router.operators[o]],
                  modules |-> [m \in Modules |-> OfModule(seen.exited, m)]]
<2> DEFINE f == [o \in Operators |-> IF \E u \in updates : u[1] = o
                                     THEN (CHOOSE u \in updates : u[1] = o)[2] ELSE router.operators[o]]
           gets(o) == o \in CoveredNext(Payloads, d, l)
<2>1. router' = [router EXCEPT !.operators = f]
  BY <1>1
<2>2. router = [operators |-> router.operators, modules |-> router.modules]
  BY <1>2 DEF ExtraTypes, IsRouter
<2>3. f = [o \in Operators |-> IF gets(o) THEN seen.exited[o] ELSE router.operators[o]]
<3>1. \A j \in 1 .. l : d + j \in 1 .. Len(Payloads) /\ tx.items[j].payload = Payloads[d + j]
  BY <1>11 DEF L
<3>2. ASSUME NEW o \in Operators
      PROVE  /\ (\E u \in updates : u[1] = o) <=> gets(o)
             /\ (\E u \in updates : u[1] = o) => (CHOOSE u \in updates : u[1] = o)[2] = seen.exited[o]
<4> HIDE DEF updates, gets
<4>1. PICK items, b, c : items = tx.items /\ b = d /\ c = l
  OBVIOUS
<4>2. /\ b \in Nat /\ c \in Nat /\ items \in Seq(TxItem) /\ DOMAIN items = 1 .. c
      /\ \A j \in 1 .. c : b + j \in 1 .. Len(Payloads) /\ items[j].payload = Payloads[b + j]
  BY <1>9, <1>11, <3>1, <4>1
<4>3. /\ (\E u \in UpdatesOf(items) : u[1] = o) <=> o \in CoveredNext(Payloads, b, c)
      /\ (\E u \in UpdatesOf(items) : u[1] = o) =>
              (CHOOSE u \in UpdatesOf(items) : u[1] = o)[2] = seen.exited[o]
  BY <1>2, <4>2, UpdatesFacts
<4>4. updates = UpdatesOf(items) /\ (gets(o) <=> o \in CoveredNext(Payloads, b, c))
  BY <4>1 DEF updates, gets
<4> QED
  BY <4>3, <4>4, Zenon
<3> HIDE DEF updates, gets
<3>3. \A o \in Operators :
        (IF \E u \in updates : u[1] = o THEN (CHOOSE u \in updates : u[1] = o)[2] ELSE router.operators[o])
          = (IF gets(o) THEN seen.exited[o] ELSE router.operators[o])
  BY <3>2, Zenon
<3> QED
  BY <3>3, Zenon
<2>4. ASSUME NEW o \in Operators
      PROVE  o \in Covered(Payloads, d + l) <=> o \in Covered(Payloads, d) \/ gets(o)
<3>1. PICK b \in Nat, c \in Nat : b = d /\ c = l
  BY <1>9
<3>2. Covered(Payloads, b + c) = Covered(Payloads, b) \cup CoveredNext(Payloads, b, c)
  BY CoveredGrows
<3> QED
  BY <3>1, <3>2, Zenon
<2>5. f = [o \in Operators |-> IF o \in Covered(Payloads, d + l) THEN seen.exited[o]
                               ELSE seen.router.operators[o]]
<3> HIDE DEF gets, f
<3>1. \A o \in Operators :
        (IF gets(o) THEN seen.exited[o] ELSE router.operators[o])
          = (IF o \in Covered(Payloads, d + l) THEN seen.exited[o] ELSE seen.router.operators[o])
<4>1. \A o \in Operators : router.operators[o] = IF o \in Covered(Payloads, d) THEN seen.exited[o]
                                                 ELSE seen.router.operators[o]
  BY <1>10
<4> QED
  BY <2>4, <4>1
<3> QED
  BY <2>3, <3>1
<2> HIDE DEF f
<2>6. router' = [operators |-> f, modules |-> router.modules]
  BY <2>1, <2>2
<2> QED
  BY <1>10, <2>5, <2>6, Zenon
<1>16. Payloads' = Payloads
  BY <1>1, SameReport
<1>17. Through(k + 1)'
<2>1. Reach(Payloads', k + 1) = d + l /\ BuildTransactions(Payloads') = txs /\ Len(Payloads') = L
  BY <1>9, <1>16 DEF txs, L
<2>2. /\ router'.operators = [o \in Operators |-> IF o \in Covered(Payloads, d + l) THEN seen.exited[o]
                                                  ELSE seen.router.operators[o]]
      /\ router'.modules = [m \in Modules |-> OfModule(seen.exited, m)]
  BY <1>15
<2>3. processing' = [main |-> TRUE, submitted |-> processing'.submitted,
                     hash |-> SubSeq(txs, k + 1 + 1, Len(txs)),
                     count |-> L, done |-> d + l, last |-> LastCovered(Payloads, d + l)]
<3>1. processing'.submitted = (k + 1 = N)
  BY <1>13
<3> QED
  BY <1>5, <1>13, <3>1, Zenon
<2>4. processing'.submitted <=> k + 1 = Len(txs)
  BY <1>5, <1>14, Zenon
<2> QED
<3>1. seen' = seen
  BY <1>1
<3> QED
  BY <1>16, <2>1, <2>2, <2>3, <2>4, <3>1 DEF Through
<1>18. router'.operators \in [Operators -> Nat] /\ \A o \in Operators : router'.operators[o] <= seen.exited[o]
<2>1. \A o \in Operators : /\ seen.exited[o] \in Nat /\ seen.router.operators[o] \in Nat
                           /\ seen.router.operators[o] <= seen.exited[o]
  BY <1>2 DEF ExtraTypes, IsRouter, NotAhead
<2>2. \A o \in Operators : seen.exited[o] <= seen.exited[o]
  BY <2>1
<2>3. router'.operators = [o \in Operators |-> IF o \in Covered(Payloads, d + l) THEN seen.exited[o]
                                               ELSE seen.router.operators[o]]
  BY <1>15
<2> QED
  BY <2>1, <2>2, <2>3
<1>19. ExtraTypes'
<2>1. IsRouter(router')
<3>1. router' = [operators |-> router'.operators, modules |-> router'.modules]
  BY <1>15
<3> QED
  BY <1>18, <3>1, Zenon DEF IsRouter
<2>2. IsRouter(seen.router)
  BY <1>2, Zenon DEF ExtraTypes
<2> QED
  BY <1>1, <1>2, <1>14, <2>1, <2>2 DEF ExtraTypes
<1>20. NotAhead'
  BY <1>1, <1>2, <1>18 DEF NotAhead
<1>21. k + 1 \in 0 .. TxCount(Payloads')
  BY <1>5, <1>6, <1>16 DEF N
<1> QED
  BY <1>14, <1>17, <1>19, <1>20, <1>21 DEF ExtraInv

LEMMA ExtraInvNext == ExtraInv /\ [ExtraNext]_dataVars => ExtraInv'
<1> SUFFICES ASSUME ExtraInv, [ExtraNext]_dataVars PROVE ExtraInv'
  OBVIOUS
<1>1. ASSUME NEW o \in Operators, Leave(o) PROVE ExtraInv'
  BY <1>1, LeaveInv
<1>2. CASE NextFrame
  BY <1>2, NextFrameInv
<1>3. CASE SubmitMainData
  BY <1>3, SubmitMainDataInv
<1>4. CASE SubmitEmpty
  BY <1>4, SubmitEmptyInv
<1>5. ASSUME NEW i \in DOMAIN HashedTransactions, SubmitExtraData(HashedTransactions[i])
      PROVE  ExtraInv'
  BY <1>5, SubmitExtraDataInv
<1>6. CASE UNCHANGED dataVars
<2>1. exited' = exited /\ seen' = seen /\ router' = router /\ processing' = processing
  BY <1>6 DEF dataVars
<2>2. ExtraTypes' /\ NotAhead'
  BY <2>1 DEF ExtraInv, ExtraTypes, IsRouter, NotAhead
<2> QED
  BY <2>1, <2>2, ExtraInvStays
<1> QED
  BY <1>1, <1>2, <1>3, <1>4, <1>5, <1>6, Zenon DEF ExtraNext

\* Whatever operators, sizes of items and of transactions, frames, and validators that exit
\* meanwhile: the contract always accepts exactly one of the transactions that
\* extra_data.py builds of what a frame saw, and when it has accepted them all the router
\* knows the exited validators of every operator and module.
THEOREM ExtraDataCompletes == ExtraSpec => []ExtraDataIsComplete
<1>1. ExtraSpec => []ExtraInv
  BY ExtraInvInit, ExtraInvNext, PTL DEF ExtraSpec
<1> QED
  BY <1>1, CompleteIfInv, PTL
=============================================================================

------------------------ MODULE OracleReport_proofs ------------------------
(***************************************************************************)
(* Safety of the reporting cycle for every committee, quorum, frame        *)
(* configuration and number of faults.                                     *)
(***************************************************************************)
EXTENDS OracleReport, HashConsensus_proofs

-----------------------------------------------------------------------------
(* The inductive invariant *)

\* Places of the cycle at which the report has been built.
Working == {"hash", "data", "sleepdata", "extra", "sleepextra", "send", "broadcast", "wait"}

\* The head is ahead of the finalized checkpoint.
HeadAhead == finalized > 0 => finalized < slot

\* What a daemon knows in its cycle: the checkpoint it started from is not newer
\* than the finalized one, and the reference slot it works for was the current one
\* at some moment since.
CycleOf(d) ==
  /\ fin[d] <= finalized
  /\ threshold[d] <= finalized
  /\ pc[d] \notin {"idle", "dead"} => fin[d] > 0
  /\ pc[d] \in Working \union {"compat"} =>
       /\ Started
       /\ ref[d] <= RefSlot
       /\ ref[d] < RefSlot => fin[d] < RefSlot
  /\ pc[d] \in Working =>
       /\ built[d] \in Report
       /\ built[d].ref = ref[d]
       /\ VersionAt(ref[d]) = Software[d]

CycleInv == \A d \in Daemon : CycleOf(d)

BaseInv == TypeOK /\ HeadAhead /\ CycleInv

-----------------------------------------------------------------------------
(* Lemmas *)

USE DEF PCs, Working

\* Python's % of a positive number of members is a position among them.
LEMMA ModRange ==
  ASSUME NEW a \in Int, NEW n \in Nat \ {0}
  PROVE  a % n \in 0..(n - 1)
  OBVIOUS

\* The current frame, seen from the head.
LEMMA HeadFacts ==
  ASSUME TypeOK
  PROVE  /\ RefSlot \in Int
         /\ Started => RefSlot < slot
         /\ ~Started => RefSlot >= slot
<1>1. slot \in Nat
  BY DEF TypeOK, ChainTypeOK
<1>2. get_frame_first_slot(0) \in Int
  BY FrameType
<1>3. /\ RefSlotAt(slot) \in Int
      /\ slot >= get_frame_first_slot(0) => RefSlotAt(slot) < slot
      /\ slot < get_frame_first_slot(0) => RefSlotAt(slot) >= slot
  BY <1>1, FrameAtFacts
<1> QED
  BY <1>1, <1>2, <1>3 DEF RefSlot, Started

\* A daemon the contracts know waits a whole number of slots.
LEMMA SlotDelayType ==
  ASSUME BaseInv, NEW d \in Daemon, Started, Recognised(d)
  PROVE  SlotDelay(d) \in Nat
<1> DEFINE n == Len(members)
           i == IndexOf(Account[d])
           c == get_frame_by_slot(slot) % Len(members)
<1>1. CASE IsSubmitMember(d)
  BY <1>1 DEF SlotDelay
<1>2. CASE ~IsSubmitMember(d)
<2>1. /\ members \in Seq(Address)
      /\ slot \in Nat
      /\ n \in Nat
  BY DEF BaseInv, TypeOK, ChainTypeOK
<2>2. Account[d] \in Member
  BY <1>2 DEF Recognised, IsReportMember
<2>3. PICK j \in 1..n : members[j] = Account[d]
  BY <2>2 DEF Member
<2>4. n > 0 /\ i \in 0..(n - 1)
<3>1. (CHOOSE k \in 1..n : members[k] = Account[d]) \in 1..n
  BY <2>3
<3> QED
  BY <2>1, <2>3, <3>1 DEF IndexOf
<2>5. c \in 0..(n - 1)
<3>1. get_frame_by_slot(slot) \in Int
  BY <2>1, FrameBounds
<3>2. n \in Nat \ {0}
  BY <2>1, <2>4
<3> HIDE DEF n
<3>3. get_frame_by_slot(slot) % n \in 0..(n - 1)
  BY <3>1, <3>2, ModRange
<3> QED
  BY <3>3 DEF n
<2>6. SleepCount(i, c, n) \in Nat
  BY <2>1, <2>4, <2>5 DEF SleepCount
<2>7. SlotDelay(d) = (1 + SleepCount(i, c, n)) * DelayInSlots
  BY <1>2 DEF SlotDelay
<2> HIDE DEF n, i, c
<2> QED
  BY <2>6, <2>7, DaemonAssumption
<1> QED
  BY <1>1, <1>2

\* Nothing the chain or the contracts hold changes in a daemon's own step.
ChainKept ==
  UNCHANGED <<slot, finalized, upgrade, members, votes, main, extra, agreed>>

\* What is derived from the chain's variables is kept with them.
LEMMA ChainKeptFacts ==
  ASSUME BaseInv, ChainKept
  PROVE  /\ ChainTypeOK' /\ HeadAhead'
         /\ Started' = Started /\ RefSlot' = RefSlot
         /\ \A s : VersionAt(s)' = VersionAt(s)
  BY DEF BaseInv, TypeOK, ChainTypeOK, ChainKept, HeadAhead, Started, RefSlot, VersionAt

\* A step of another daemon does not disturb what a daemon knows.
LEMMA OtherDaemon ==
  ASSUME BaseInv, ChainKept, NEW e \in Daemon,
         pc'[e] = pc[e], fin'[e] = fin[e], threshold'[e] = threshold[e],
         ref'[e] = ref[e], built'[e] = built[e]
  PROVE  CycleOf(e)'
<1>1. CycleOf(e)
  BY DEF BaseInv, CycleInv
<1> QED
  BY <1>1 DEF CycleOf, ChainKept, Started, RefSlot, VersionAt

\* A cycle may end at any moment.
LEMMA EndOfCycle ==
  ASSUME BaseInv, NEW d \in Daemon, pc[d] # "dead",
         EndCycle(d) \/ EndCycleUntilFinalized(d) \/ Die(d),
         ChainKept, UNCHANGED mempool, faults' \in Nat
  PROVE  BaseInv'
<1>1. /\ \/ pc' = [pc EXCEPT ![d] = "idle"]
         \/ pc' = [pc EXCEPT ![d] = "dead"]
      /\ threshold' = threshold \/ threshold' = [threshold EXCEPT ![d] = fin[d]]
      /\ Forget(d)
      /\ UNCHANGED built
  BY DEF EndCycle, EndCycleUntilFinalized, Die, Goto
<1>2. ChainTypeOK' /\ HeadAhead'
  BY ChainKeptFacts
<1>3. TypeOK'
<2>1. pc' \in [Daemon -> PCs]
  BY <1>1 DEF BaseInv, TypeOK
<2>2. threshold' \in [Daemon -> Nat]
  BY <1>1, SMTT(30) DEF BaseInv, TypeOK
<2>3. /\ fin' \in [Daemon -> Nat]
      /\ ref' \in [Daemon -> Int]
      /\ phase' \in [Daemon -> {"hash", "data", "extra"}]
      /\ wake' \in [Daemon -> Nat]
      /\ left' \in [Daemon -> Nat]
      /\ chunk' \in [Daemon -> Nat]
      /\ free' \in [Daemon -> BOOLEAN]
  BY <1>1 DEF BaseInv, TypeOK, Forget
<2>4. built' \in [Daemon -> Report \union {NoReport}] /\ mempool' \in [Daemon -> Seq(Tx)]
  BY <1>1 DEF BaseInv, TypeOK
<2> QED
  BY <1>2, <2>1, <2>2, <2>3, <2>4 DEF TypeOK
<1>4. ASSUME NEW e \in Daemon PROVE CycleOf(e)'
<2>1. CASE e = d
<3>1. pc'[e] \in {"idle", "dead"} /\ fin'[e] = 0
  BY <1>1, <2>1 DEF BaseInv, TypeOK, Forget
<3>2. finalized' = finalized /\ finalized \in Nat /\ threshold'[e] <= finalized
  BY <1>1, <2>1 DEF BaseInv, TypeOK, ChainTypeOK, ChainKept, CycleInv, CycleOf
<3> QED
  BY <3>1, <3>2 DEF CycleOf
<2>2. CASE e # d
<3>1. /\ pc'[e] = pc[e] /\ fin'[e] = fin[e] /\ threshold'[e] = threshold[e]
      /\ ref'[e] = ref[e] /\ built'[e] = built[e]
  BY <1>1, <2>2 DEF BaseInv, TypeOK, Forget
<3> QED
  BY <3>1, OtherDaemon
<2> QED
  BY <2>1, <2>2
<1> QED
  BY <1>2, <1>3, <1>4 DEF BaseInv, CycleInv

\* Steps between the report being built and the end of the cycle.
LEMMA WorkingStep ==
  ASSUME BaseInv, NEW d \in Daemon, pc[d] \in Working, NEW l \in Working,
         pc' = [pc EXCEPT ![d] = l], UNCHANGED <<fin, threshold, ref, built>>,
         ChainKept,
         phase' \in [Daemon -> {"hash", "data", "extra"}],
         wake' \in [Daemon -> Nat], left' \in [Daemon -> Nat],
         chunk' \in [Daemon -> Nat], free' \in [Daemon -> BOOLEAN],
         mempool' \in [Daemon -> Seq(Tx)], faults' \in Nat
  PROVE  BaseInv'
<1>1. ChainTypeOK' /\ HeadAhead'
  BY ChainKeptFacts
<1>2. TypeOK'
  BY <1>1 DEF BaseInv, TypeOK
<1>3. ASSUME NEW e \in Daemon PROVE CycleOf(e)'
<2>1. CASE e = d
<3>1. CycleOf(d) /\ pc'[d] = l
  BY DEF BaseInv, CycleInv, TypeOK
<3> QED
  BY <2>1, <3>1 DEF CycleOf, ChainKept, Started, RefSlot, VersionAt
<2>2. CASE e # d
<3>1. pc'[e] = pc[e]
  BY <2>2 DEF BaseInv, TypeOK
<3> QED
  BY <3>1, OtherDaemon
<2> QED
  BY <2>1, <2>2
<1> QED
  BY <1>1, <1>2, <1>3 DEF BaseInv, CycleInv

\* The three steps that come before the report is built.
LEMMA StartStep ==
  ASSUME BaseInv, NEW d \in Daemon, StartCycle(d)
  PROVE  BaseInv'
<1>1. ChainKept /\ UNCHANGED <<threshold, ref, built>>
  BY DEF StartCycle, Quiet, KeepsChain, chainVars, contractVars, ChainKept
<1>2. TypeOK'
  BY <1>1, ChainKeptFacts
  DEF StartCycle, Goto, Quiet, BaseInv, TypeOK, ChainTypeOK
<1>3. ASSUME NEW e \in Daemon PROVE CycleOf(e)'
<2>1. CASE e = d
<3>1. /\ pc'[d] = "blockstamp" /\ fin'[d] = finalized
      /\ finalized > threshold[d] /\ finalized' = finalized
  BY <1>1 DEF StartCycle, Goto, BaseInv, TypeOK, ChainKept
<3> QED
  BY <1>1, <2>1, <3>1 DEF BaseInv, TypeOK, ChainTypeOK, CycleOf
<2>2. CASE e # d
<3>1. pc'[e] = pc[e] /\ fin'[e] = fin[e]
  BY <2>2 DEF StartCycle, Goto, BaseInv, TypeOK
<3> QED
  BY <1>1, <3>1, OtherDaemon
<2> QED
  BY <2>1, <2>2
<1> QED
  BY <1>1, <1>2, <1>3, ChainKeptFacts DEF BaseInv, CycleInv

\* get_blockstamp_for_report takes the current reference slot, which is finalized
\* for this cycle.
LEMMA BlockstampStep ==
  ASSUME BaseInv, NEW d \in Daemon, GetBlockstampForReport(d)
  PROVE  BaseInv'
<1>1. ChainKept /\ UNCHANGED <<mempool, faults>>
  BY DEF GetBlockstampForReport, Quiet, KeepsChain, chainVars, contractVars, ChainKept
<1>2. CASE Die(d) \/ EndCycleUntilFinalized(d)
  BY <1>1, <1>2, EndOfCycle DEF GetBlockstampForReport, BaseInv, TypeOK
<1>3. CASE ~NothingToReport(d) /\ Goto(d, "compat") /\ ref' = [ref EXCEPT ![d] = RefSlot]
           /\ UNCHANGED <<fin, threshold, built, phase, wake, left, chunk, free>>
<2>1. /\ RefSlot \in Int
      /\ ~Started => RefSlot >= slot
  BY HeadFacts DEF BaseInv
<2>2. TypeOK'
  BY <1>1, <1>3, <2>1, ChainKeptFacts DEF Goto, BaseInv, TypeOK
<2>3. ASSUME NEW e \in Daemon PROVE CycleOf(e)'
<3>1. CASE e = d
<4>1. /\ pc'[d] = "compat" /\ ref'[d] = RefSlot
      /\ pc[d] = "blockstamp"
  BY <1>3 DEF GetBlockstampForReport, Goto, BaseInv, TypeOK
<4>2. /\ CycleOf(d) /\ fin[d] >= RefSlot
      /\ fin[d] \in Nat /\ finalized \in Nat /\ slot \in Nat
  BY <1>3, <2>1, SMTT(30) DEF NothingToReport, BaseInv, CycleInv, TypeOK, ChainTypeOK
<4>3. Started
  BY <2>1, <4>1, <4>2 DEF CycleOf, BaseInv, HeadAhead
<4> QED
  BY <1>1, <1>3, <2>1, <3>1, <4>1, <4>2, <4>3
  DEF CycleOf, ChainKept, Started, RefSlot
<3>2. CASE e # d
<4>1. pc'[e] = pc[e] /\ ref'[e] = ref[e]
  BY <1>3, <3>2 DEF Goto, BaseInv, TypeOK
<4> QED
  BY <1>1, <1>3, <4>1, OtherDaemon
<3> QED
  BY <3>1, <3>2
<2> QED
  BY <1>1, <2>2, <2>3, ChainKeptFacts DEF BaseInv, CycleInv
<1> QED
  BY <1>2, <1>3 DEF GetBlockstampForReport

\* Past _check_compatibility the report is built for the cycle's reference slot by
\* software of that slot's version.
LEMMA CompatStep ==
  ASSUME BaseInv, NEW d \in Daemon, CheckCompatibilityAndBuild(d)
  PROVE  BaseInv'
<1>1. ChainKept /\ UNCHANGED <<mempool, faults>>
  BY DEF CheckCompatibilityAndBuild, Quiet, KeepsChain, chainVars, contractVars, ChainKept
<1>2. CASE Die(d) \/ EndCycle(d) \/ EndCycleUntilFinalized(d)
  BY <1>1, <1>2, EndOfCycle DEF CheckCompatibilityAndBuild, BaseInv, TypeOK
<1>3. CASE /\ VersionAtReference(d) = Software[d]
           /\ \E r \in [ref : {ref[d]}, v : Builds[d]] :
                /\ BuildReport(d, r)
                /\ Goto(d, IF IsReportingAllowed(d, r) THEN "hash" ELSE "extra")
           /\ UNCHANGED <<fin, threshold, ref, phase, wake, left, chunk, free>>
<2>1. PICK r \in [ref : {ref[d]}, v : Builds[d]] :
        /\ built' = [built EXCEPT ![d] = r]
        /\ \/ pc' = [pc EXCEPT ![d] = "hash"]
           \/ pc' = [pc EXCEPT ![d] = "extra"]
  BY <1>3 DEF BuildReport, Goto
<2>2. r \in Report /\ r.ref = ref[d]
  BY <2>1, DaemonAssumption DEF BaseInv, TypeOK, Report
<2>3. TypeOK'
  BY <1>1, <1>3, <2>1, <2>2, ChainKeptFacts DEF BaseInv, TypeOK
<2>4. ASSUME NEW e \in Daemon PROVE CycleOf(e)'
<3>1. CASE e = d
<4>1. /\ pc'[d] \in {"hash", "extra"} /\ pc[d] = "compat"
      /\ built'[d] = r /\ VersionAt(ref[d]) = Software[d]
  BY <1>3, <2>1 DEF CheckCompatibilityAndBuild, BaseInv, TypeOK, VersionAtReference
<4>2. CycleOf(d)
  BY DEF BaseInv, CycleInv
<4> QED
  BY <1>1, <1>3, <2>2, <3>1, <4>1, <4>2 DEF CycleOf, ChainKept, Started, RefSlot, VersionAt
<3>2. CASE e # d
<4>1. pc'[e] = pc[e] /\ built'[e] = built[e]
  BY <2>1, <3>2 DEF BaseInv, TypeOK
<4> QED
  BY <1>1, <1>3, <4>1, OtherDaemon
<3> QED
  BY <3>1, <3>2
<2> QED
  BY <1>1, <2>3, <2>4, ChainKeptFacts DEF BaseInv, CycleInv
<1> QED
  BY <1>2, <1>3 DEF CheckCompatibilityAndBuild

\* The steps from the report being built to the transactions it is sent in.
LEMMA PhaseStep ==
  ASSUME BaseInv, NEW d \in Daemon,
         \/ ProcessReportHash(d) \/ ProcessReportData(d) \/ SleepBeforeData(d)
         \/ ProcessExtraData(d) \/ SubmitExtraData(d)
  PROVE  BaseInv'
<1>1. /\ ChainKept /\ UNCHANGED <<mempool, faults>>
      /\ pc[d] \in Working
      /\ pc[d] # "dead"
  BY DEF ProcessReportHash, ProcessReportData, SleepBeforeData, ProcessExtraData,
         SubmitExtraData, Quiet, KeepsChain, chainVars, contractVars, ChainKept
<1>2. /\ slot \in Nat
      /\ wake \in [Daemon -> Nat] /\ left \in [Daemon -> Nat]
      /\ chunk \in [Daemon -> Nat] /\ free \in [Daemon -> BOOLEAN]
      /\ phase \in [Daemon -> {"hash", "data", "extra"}]
      /\ mempool \in [Daemon -> Seq(Tx)] /\ faults \in Nat
      /\ pc \in [Daemon -> PCs]
  BY DEF BaseInv, TypeOK, ChainTypeOK
<1>3. Started
  BY <1>1 DEF BaseInv, CycleInv, CycleOf
<1>4. Recognised(d) => SlotDelay(d) \in Nat
  BY <1>3, SlotDelayType
<1>5. CASE Die(d) \/ EndCycle(d)
  BY <1>1, <1>2, <1>5, EndOfCycle
<1>6. CASE ProcessReportHash(d) /\ ~Die(d)
<2>1. PICK l \in {"send", "data"} : pc' = [pc EXCEPT ![d] = l]
  BY <1>6 DEF ProcessReportHash, Goto
<2>2. /\ phase' \in [Daemon -> {"hash", "data", "extra"}]
      /\ UNCHANGED <<fin, threshold, ref, built, wake, left, chunk, free>>
  BY <1>2, <1>6 DEF ProcessReportHash
<2> QED
  BY <1>1, <1>2, <2>1, <2>2, WorkingStep
<1>7. CASE ProcessReportData(d) /\ ~Die(d)
<2>1. PICK l \in {"send", "sleepdata", "extra"} : pc' = [pc EXCEPT ![d] = l]
  BY <1>7 DEF ProcessReportData, Goto, GotoSend
<2>2. UNCHANGED <<fin, threshold, ref, built, chunk, free>>
  BY <1>7 DEF ProcessReportData, Locals
<2>3. phase' \in [Daemon -> {"hash", "data", "extra"}]
  BY <1>2, <1>7 DEF ProcessReportData, GotoSend, Locals
<2>4. wake' \in [Daemon -> Nat]
  BY <1>2, <1>7 DEF ProcessReportData, Locals
<2>5. left' \in [Daemon -> Nat]
  BY <1>2, <1>4, <1>7 DEF ProcessReportData, Locals
<2> QED
  BY <1>1, <1>2, <2>1, <2>2, <2>3, <2>4, <2>5, WorkingStep
<1>8. CASE SleepBeforeData(d) /\ ~Die(d)
<2>1. PICK l \in {"send", "sleepdata", "extra"} : pc' = [pc EXCEPT ![d] = l]
  BY <1>2, <1>8 DEF SleepBeforeData, Goto, GotoSend
<2>2. UNCHANGED <<fin, threshold, ref, built, chunk, free>>
  BY <1>8 DEF SleepBeforeData
<2>3. phase' \in [Daemon -> {"hash", "data", "extra"}]
  BY <1>2, <1>8 DEF SleepBeforeData, GotoSend
<2>4. wake' \in [Daemon -> Nat]
  BY <1>2, <1>8 DEF SleepBeforeData
<2>5. left' \in [Daemon -> Nat]
  BY <1>2, <1>8 DEF SleepBeforeData
<2> QED
  BY <1>1, <1>2, <2>1, <2>2, <2>3, <2>4, <2>5, WorkingStep
<1>9. CASE ProcessExtraData(d) /\ ~Die(d) /\ ~EndCycle(d)
<2>1. /\ pc' = [pc EXCEPT ![d] = "sleepextra"]
      /\ Recognised(d)
      /\ wake' = [wake EXCEPT ![d] = slot + SlotDelay(d)]
      /\ UNCHANGED <<fin, threshold, ref, built, phase, left, chunk, free>>
  BY <1>9 DEF ProcessExtraData, Goto
<2>2. wake' \in [Daemon -> Nat]
  BY <1>2, <1>4, <2>1
<2> QED
  BY <1>1, <1>2, <2>1, <2>2, WorkingStep
<1>10. CASE SubmitExtraData(d) /\ ~EndCycle(d)
<2>1. /\ pc' = [pc EXCEPT ![d] = "send"]
      /\ phase' = [phase EXCEPT ![d] = "extra"]
      /\ chunk' = [chunk EXCEPT ![d] = 1]
      /\ wake' = [wake EXCEPT ![d] = 0]
      /\ UNCHANGED <<fin, threshold, ref, built, left, free>>
  BY <1>10 DEF SubmitExtraData, GotoSend, Goto
<2>2. phase' \in [Daemon -> {"hash", "data", "extra"}]
  BY <1>2, <2>1
<2>3. wake' \in [Daemon -> Nat] /\ chunk' \in [Daemon -> Nat]
  BY <1>2, <2>1
<2> QED
  BY <1>1, <1>2, <2>1, <2>2, <2>3, WorkingStep
<1> QED
  BY <1>5, <1>6, <1>7, <1>8, <1>9, <1>10

\* What follows a transaction, whatever became of it.
LEMMA AfterTxStep ==
  ASSUME BaseInv, NEW d \in Daemon, pc[d] \in Working, AfterTx(d),
         ChainKept, UNCHANGED <<mempool, faults>>
  PROVE  BaseInv'
<1>1. /\ wake \in [Daemon -> Nat] /\ left \in [Daemon -> Nat]
      /\ chunk \in [Daemon -> Nat] /\ free \in [Daemon -> BOOLEAN]
      /\ phase \in [Daemon -> {"hash", "data", "extra"}]
      /\ mempool \in [Daemon -> Seq(Tx)] /\ faults \in Nat
      /\ pc \in [Daemon -> PCs]
  BY DEF BaseInv, TypeOK
<1>2. CASE EndCycle(d)
  BY <1>1, <1>2, EndOfCycle
<1>3. CASE ~EndCycle(d)
<2>1. PICK l \in {"data", "extra", "send"} : pc' = [pc EXCEPT ![d] = l]
  BY <1>3 DEF AfterTx, Goto
<2>2. /\ free' = [free EXCEPT ![d] = FALSE]
      /\ chunk' = chunk \/ chunk' = [chunk EXCEPT ![d] = @ + 1]
      /\ UNCHANGED <<fin, threshold, ref, built, phase, wake, left>>
  BY <1>3 DEF AfterTx
<2>3. free' \in [Daemon -> BOOLEAN] /\ chunk' \in [Daemon -> Nat]
  BY <1>1, <2>2
<2> QED
  BY <1>1, <2>1, <2>2, <2>3, WorkingStep
<1> QED
  BY <1>2, <1>3

\* The transaction a daemon sends carries the report it has built.
LEMMA TxType ==
  ASSUME BaseInv, NEW d \in Daemon, pc[d] \in Working
  PROVE  TxOf(d) \in Tx
  BY DEF BaseInv, TypeOK, CycleInv, CycleOf, TxOf, Tx

\* A broadcast leaves a single transaction in the queue when there was at most one.
LEMMA BroadcastQueue ==
  ASSUME BaseInv, NEW d \in Daemon, SendTransaction(d), ~EndCycle(d)
  PROVE  /\ free[d] /\ pc' = [pc EXCEPT ![d] = "wait"]
         /\ UNCHANGED <<fin, threshold, ref, built, phase, wake, left, chunk, free, faults>>
         /\ mempool' \in [Daemon -> Seq(Tx)]
         /\ \A e \in Daemon : e # d => mempool'[e] = mempool[e]
         /\ mempool'[d] # <<>> /\ Head(mempool'[d]) = TxOf(d)
         /\ Len(mempool[d]) <= 1 => Len(mempool'[d]) = 1
<1> DEFINE q == mempool[d]
           n == IF 1 <= Len(q) THEN Len(q) ELSE 1
           q1 == [j \in 1..n |-> IF j = 1 THEN TxOf(d) ELSE q[j]]
<1>1. /\ mempool \in [Daemon -> Seq(Tx)] /\ pc[d] \in Working
  BY DEF BaseInv, TypeOK, SendTransaction
<1>2. q \in Seq(Tx) /\ Len(q) \in Nat
  BY <1>1
<1>3. /\ free[d] /\ pc' = [pc EXCEPT ![d] = "wait"]
      /\ UNCHANGED <<fin, threshold, ref, built, phase, wake, left, chunk, free, faults>>
      /\ mempool' = [mempool EXCEPT ![d] = q1]
  BY DEF SendTransaction, NonceIndex, Goto, Locals
<1>4. TxOf(d) \in Tx
  BY <1>1, TxType
<1> HIDE DEF q
<1>5. /\ n \in Nat /\ n >= 1
      /\ Len(q) <= 1 => n = 1
      /\ \A j \in 1..n : j # 1 => q[j] \in Tx
<2>1. CASE 1 <= Len(q)
<3>1. n = Len(q)
  BY <2>1
<3> QED
  BY <1>2, <2>1, <3>1
<2>2. CASE ~(1 <= Len(q))
  BY <2>2
<2> QED
  BY <2>1, <2>2
<1> HIDE DEF n
<1>6. q1 \in Seq(Tx) /\ Len(q1) = n /\ Head(q1) = TxOf(d) /\ q1 # <<>>
  BY <1>4, <1>5
<1> HIDE DEF q1
<1>7. mempool'[d] = q1 /\ \A e \in Daemon : e # d => mempool'[e] = mempool[e]
  BY <1>1, <1>3
<1>8. mempool' \in [Daemon -> Seq(Tx)]
  BY <1>1, <1>3, <1>6
<1> QED
  BY <1>3, <1>5, <1>6, <1>7, <1>8 DEF q

\* The static call, the broadcast and the wait for the receipt.
LEMMA TransactionStep ==
  ASSUME BaseInv, NEW d \in Daemon,
         CheckTransaction(d) \/ SendTransaction(d) \/ HandleSentTransaction(d)
  PROVE  BaseInv'
<1>1. ChainKept /\ UNCHANGED faults /\ pc[d] \in Working
  BY DEF CheckTransaction, SendTransaction, HandleSentTransaction, Quiet, KeepsChain,
         chainVars, contractVars, ChainKept
<1>2. faults \in Nat /\ wake \in [Daemon -> Nat] /\ left \in [Daemon -> Nat]
      /\ chunk \in [Daemon -> Nat] /\ free \in [Daemon -> BOOLEAN]
      /\ phase \in [Daemon -> {"hash", "data", "extra"}]
      /\ mempool \in [Daemon -> Seq(Tx)]
  BY DEF BaseInv, TypeOK
<1>3. CASE CheckTransaction(d)
<2>1. CASE AfterTx(d)
  BY <1>1, <1>3, <2>1, AfterTxStep DEF CheckTransaction, Quiet
<2>2. CASE ~AfterTx(d)
<3>1. /\ pc' = [pc EXCEPT ![d] = "broadcast"]
      /\ free' = [free EXCEPT ![d] = TRUE]
      /\ UNCHANGED <<fin, threshold, ref, built, phase, wake, left, chunk, mempool>>
  BY <1>3, <2>2 DEF CheckTransaction, Goto, Quiet
<3>2. free' \in [Daemon -> BOOLEAN]
  BY <1>2, <3>1
<3> QED
  BY <1>1, <1>2, <3>1, <3>2, WorkingStep
<2> QED
  BY <2>1, <2>2
<1>4. CASE SendTransaction(d) /\ ~EndCycle(d)
<2>1. /\ pc' = [pc EXCEPT ![d] = "wait"]
      /\ UNCHANGED <<fin, threshold, ref, built, phase, wake, left, chunk, free, faults>>
      /\ mempool' \in [Daemon -> Seq(Tx)]
  BY <1>4, BroadcastQueue
<2>2. /\ phase' \in [Daemon -> {"hash", "data", "extra"}]
      /\ wake' \in [Daemon -> Nat] /\ left' \in [Daemon -> Nat]
      /\ chunk' \in [Daemon -> Nat] /\ free' \in [Daemon -> BOOLEAN] /\ faults' \in Nat
  BY ONLY <1>2, <2>1
<2>3. "wait" \in Working
  OBVIOUS
<2> QED
  BY <1>1, <2>1, <2>2, <2>3, WorkingStep
<1>5. CASE SendTransaction(d) /\ EndCycle(d)
<2>1. UNCHANGED mempool
  BY <1>5 DEF SendTransaction, EndCycle, Goto, BaseInv, TypeOK
<2> QED
  BY <1>1, <1>2, <1>5, <2>1, EndOfCycle
<1>6. CASE HandleSentTransaction(d)
  BY <1>1, <1>6, AfterTxStep DEF HandleSentTransaction, Quiet
<1> QED
  BY <1>3, <1>4, <1>5, <1>6

\* A transaction enters a block.
LEMMA MineTypes ==
  ASSUME BaseInv, NEW d \in Daemon, Mine(d)
  PROVE  /\ mempool[d] # <<>> /\ Head(mempool[d]) \in Tx
         /\ mempool' = [mempool EXCEPT ![d] = Tail(@)]
         /\ free' = [free EXCEPT ![d] = FALSE]
         /\ UNCHANGED <<slot, finalized, upgrade, members, pc, fin, threshold, ref,
                        built, phase, wake, left, chunk, faults>>
         /\ ChainTypeOK'
<1> DEFINE t == Head(mempool[d])
<1>1. mempool[d] \in Seq(Tx) /\ mempool[d] # <<>>
  BY DEF BaseInv, TypeOK, Mine
<1>2. t \in Tx
  BY <1>1
<1>3. t.report \in Report /\ Sender[d] \in Address
  BY <1>2, DaemonAssumption DEF Tx
<1>4. /\ mempool' = [mempool EXCEPT ![d] = Tail(@)]
      /\ free' = [free EXCEPT ![d] = FALSE]
      /\ UNCHANGED <<slot, finalized, upgrade, members, pc, fin, threshold, ref,
                     built, phase, wake, left, chunk, faults>>
  BY DEF Mine, chainVars, Vote, Deliver, DeliverExtra, contractVars
<1>5. \/ Vote(Sender[d], t.report)
      \/ Deliver(t.report)
      \/ DeliverExtra
      \/ UNCHANGED contractVars
  BY DEF Mine
<1> HIDE DEF t
<1>6. ChainTypeOK
  BY DEF BaseInv, TypeOK
<1>7. ChainTypeOK'
<2>1. CASE Vote(Sender[d], t.report)
  BY <1>3, <1>4, <1>6, <2>1 DEF Vote, ChainTypeOK
<2>2. CASE Deliver(t.report)
  BY <1>3, <1>4, <1>6, <2>2 DEF Deliver, ChainTypeOK
<2>3. CASE DeliverExtra
  BY <1>4, <1>6, <2>3 DEF DeliverExtra, ChainTypeOK
<2>4. CASE UNCHANGED contractVars
  BY <1>4, <1>6, <2>4 DEF contractVars, ChainTypeOK
<2> QED
  BY <1>5, <2>1, <2>2, <2>3, <2>4
<1> QED
  BY <1>1, <1>2, <1>4, <1>7 DEF t

\* A mined transaction leaves every cycle well formed.
LEMMA MineStep ==
  ASSUME BaseInv, NEW d \in Daemon, Mine(d)
  PROVE  BaseInv'
<1>1. /\ mempool' = [mempool EXCEPT ![d] = Tail(@)]
      /\ free' = [free EXCEPT ![d] = FALSE]
      /\ UNCHANGED <<slot, finalized, upgrade, pc, fin, threshold, ref,
                     built, phase, wake, left, chunk, faults>>
      /\ mempool[d] # <<>>
      /\ ChainTypeOK'
  BY MineTypes
<1>2. /\ mempool' \in [Daemon -> Seq(Tx)]
      /\ free' \in [Daemon -> BOOLEAN]
<2>1. mempool[d] \in Seq(Tx)
  BY DEF BaseInv, TypeOK
<2>2. Tail(mempool[d]) \in Seq(Tx)
  BY <1>1, <2>1
<2> QED
  BY <1>1, <2>2 DEF BaseInv, TypeOK
<1>3. TypeOK'
  BY <1>1, <1>2 DEF BaseInv, TypeOK
<1>4. HeadAhead' /\ CycleInv'
  BY <1>1 DEF BaseInv, HeadAhead, CycleInv, CycleOf, Started, RefSlot, VersionAt
<1> QED
  BY <1>3, <1>4 DEF BaseInv

\* So do a failed request, a restart and a dropped transaction.
LEMMA FaultStep ==
  ASSUME BaseInv, NEW d \in Daemon, Fault(d)
  PROVE  BaseInv'
<1>1. ChainKept /\ faults' \in Nat /\ faults \in Nat
  BY DEF Fault, FailRequest, Restart, DropTransaction, KeepsChain, chainVars,
         contractVars, ChainKept, BaseInv, TypeOK
<1>2. CASE FailRequest(d)
  BY <1>1, <1>2, EndOfCycle DEF FailRequest
<1>3. CASE Restart(d)
<2>1. /\ pc' = [pc EXCEPT ![d] = "idle"]
      /\ threshold' = [threshold EXCEPT ![d] = 0]
      /\ built' = [built EXCEPT ![d] = NoReport]
      /\ fin' = [fin EXCEPT ![d] = 0]
      /\ Forget(d) /\ UNCHANGED mempool
  BY <1>3 DEF Restart, Goto, Forget
<2>2. /\ pc' \in [Daemon -> PCs]
      /\ threshold' \in [Daemon -> Nat]
      /\ built' \in [Daemon -> Report \union {NoReport}]
      /\ mempool' \in [Daemon -> Seq(Tx)]
  BY <2>1 DEF BaseInv, TypeOK
<2>3. /\ fin' \in [Daemon -> Nat]
      /\ ref' \in [Daemon -> Int]
      /\ phase' \in [Daemon -> {"hash", "data", "extra"}]
      /\ wake' \in [Daemon -> Nat]
      /\ left' \in [Daemon -> Nat]
      /\ chunk' \in [Daemon -> Nat]
      /\ free' \in [Daemon -> BOOLEAN]
  BY <2>1 DEF BaseInv, TypeOK, Forget
<2>4. TypeOK'
  BY <1>1, <2>2, <2>3, ChainKeptFacts DEF TypeOK
<2>5. ASSUME NEW e \in Daemon PROVE CycleOf(e)'
<3>1. CASE e = d
<4>1. pc'[e] = "idle" /\ fin'[e] = 0 /\ threshold'[e] = 0
  BY <2>1, <3>1 DEF BaseInv, TypeOK
<4>2. finalized' \in Nat
  BY <2>4 DEF TypeOK, ChainTypeOK
<4> QED
  BY <4>1, <4>2 DEF CycleOf
<3>2. CASE e # d
<4>1. /\ pc'[e] = pc[e] /\ fin'[e] = fin[e] /\ threshold'[e] = threshold[e]
      /\ ref'[e] = ref[e] /\ built'[e] = built[e]
  BY <2>1, <3>2 DEF BaseInv, TypeOK, Forget
<4> QED
  BY <1>1, <4>1, OtherDaemon
<3> QED
  BY <3>1, <3>2
<2> QED
  BY <1>1, <2>4, <2>5, ChainKeptFacts DEF BaseInv, CycleInv
<1>4. CASE DropTransaction(d)
<2>1. mempool[d] \in Seq(Tx) /\ mempool[d] # <<>>
  BY <1>4 DEF DropTransaction, BaseInv, TypeOK
<2>2. Tail(mempool[d]) \in Seq(Tx)
  BY <2>1
<2>3. /\ mempool' \in [Daemon -> Seq(Tx)]
      /\ UNCHANGED <<pc, fin, threshold, ref, built, phase, wake, left, chunk, free>>
  BY <1>4, <2>2 DEF DropTransaction, daemonVars, BaseInv, TypeOK
<2>4. TypeOK'
  BY <1>1, <2>3, ChainKeptFacts DEF BaseInv, TypeOK
<2>5. CycleInv'
  BY <1>1, <2>3, OtherDaemon DEF CycleInv
<2> QED
  BY <1>1, <2>4, <2>5, ChainKeptFacts DEF BaseInv
<1> QED
  BY <1>2, <1>3, <1>4 DEF Fault

\* A new head leaves the current frame or is the first slot of the next one.
LEMMA NewSlotFacts ==
  ASSUME BaseInv, NewSlot
  PROVE  /\ slot' = slot + 1 /\ slot \in Nat
         /\ RefSlot \in Int /\ RefSlot' \in Int
         /\ RefSlot' = RefSlot \/ RefSlot' = slot
         /\ RefSlot' >= RefSlot
         /\ RefSlot' = RefSlot => DeadlineAt(slot)' = DeadlineAt(slot)
         /\ Started => Started'
         /\ UNCHANGED <<finalized, upgrade, members, agreed>>
<1>1. slot' = slot + 1 /\ slot \in Nat
  BY DEF NewSlot, BaseInv, TypeOK, ChainTypeOK
<1>2. /\ RefSlotAt(slot) \in Int
      /\ RefSlotAt(slot) < DeadlineAt(slot)
      /\ slot + 1 \in Nat
      /\ RefSlotAt(slot + 1) \in Int
  BY <1>1, FrameAtFacts
<1>3. /\ RefSlotAt(slot + 1) = RefSlotAt(slot) => DeadlineAt(slot + 1) = DeadlineAt(slot)
      /\ RefSlotAt(slot + 1) # RefSlotAt(slot) =>
           RefSlotAt(slot + 1) = slot /\ slot = DeadlineAt(slot)
  BY <1>1, NextFrame
<1>4. RefSlot = RefSlotAt(slot) /\ RefSlot' = RefSlotAt(slot + 1)
  BY <1>1 DEF RefSlot
<1>5. DeadlineAt(slot)' = DeadlineAt(slot + 1)
  BY <1>1
<1>6. Started => Started'
<2>1. get_frame_first_slot(0) \in Int
  BY FrameType
<2> QED
  BY <1>1, <2>1 DEF Started
<1> QED
  BY <1>1, <1>2, <1>3, <1>4, <1>5, <1>6 DEF NewSlot

\* A daemon's reference slot stays one the chain has reached when the head moves.
LEMMA NewSlotStep ==
  ASSUME BaseInv, NewSlot, UNCHANGED <<daemonVars, mempool, faults>>
  PROVE  BaseInv'
<1>1. UNCHANGED <<pc, fin, threshold, ref, built, phase, wake, left, chunk, free, mempool, faults>>
  BY DEF daemonVars
<1>2. ChainTypeOK'
  BY DEF NewSlot, BaseInv, TypeOK, ChainTypeOK
<1>3. TypeOK'
  BY <1>1, <1>2 DEF BaseInv, TypeOK
<1>4. HeadAhead'
  BY NewSlotFacts DEF BaseInv, HeadAhead, TypeOK, ChainTypeOK
<1>5. ASSUME NEW e \in Daemon PROVE CycleOf(e)'
<2>1. CycleOf(e) /\ HeadAhead
  BY DEF BaseInv, CycleInv
<2>2. fin[e] \in Nat /\ ref[e] \in Int /\ finalized \in Nat
  BY DEF BaseInv, TypeOK, ChainTypeOK
<2>3. pc[e] \in Working \union {"compat"} =>
        /\ ref[e] <= RefSlot'
        /\ ref[e] < RefSlot' => fin[e] < RefSlot'
<3>1. CASE RefSlot' = RefSlot
  BY <2>1, <3>1 DEF CycleOf
<3>2. CASE RefSlot' = slot
<4>1. pc[e] \in Working \union {"compat"} => fin[e] < slot
  BY <2>1, <2>2, NewSlotFacts DEF CycleOf, HeadAhead
<4> QED
  BY <2>1, <2>2, <3>2, <4>1, NewSlotFacts DEF CycleOf
<3> QED
  BY <3>1, <3>2, NewSlotFacts
<2> QED
  BY <1>1, <2>1, <2>3, NewSlotFacts DEF CycleOf, VersionAt
<1> QED
  BY <1>3, <1>4, <1>5 DEF BaseInv, CycleInv

\* Finality only grows, and never reaches the head.
LEMMA FinalizeStep ==
  ASSUME BaseInv, Finalize, UNCHANGED <<daemonVars, mempool, faults>>
  PROVE  /\ BaseInv'
         /\ finalized' > finalized
<1>1. UNCHANGED <<pc, fin, threshold, ref, built, phase, wake, left, chunk, free, mempool, faults,
                  slot, upgrade, members, votes, main, extra, agreed>>
  BY DEF daemonVars, Finalize, contractVars
<1>2. slot \in Nat /\ finalized \in Nat
  BY DEF BaseInv, TypeOK, ChainTypeOK
<1>3. PICK e \in 0..get_epoch_by_slot(MaxSlot) :
        /\ e < get_epoch_by_slot(slot)
        /\ get_epoch_first_slot(e) > finalized
        /\ finalized' = get_epoch_first_slot(e)
  BY DEF Finalize
<1>4. /\ get_epoch_by_slot(slot) \in Int
      /\ SLOTS_PER_EPOCH * get_epoch_by_slot(slot) <= slot
  BY <1>2, DivBounds, ConverterAssumption DEF get_epoch_by_slot
<1>5. e \in Nat /\ e + 1 <= get_epoch_by_slot(slot)
<2>1. get_epoch_by_slot(MaxSlot) \in Int
  BY DivBounds, ConverterAssumption, ConsensusAssumption DEF get_epoch_by_slot
<2> QED
  BY <1>3, <1>4, <2>1
<1>6. (e + 1) * SLOTS_PER_EPOCH <= get_epoch_by_slot(slot) * SLOTS_PER_EPOCH
  BY <1>4, <1>5, MulMono, ConverterAssumption
<1>7. finalized' \in Nat /\ finalized' > finalized /\ finalized' < slot
  BY <1>2, <1>3, <1>4, <1>5, <1>6, ConverterAssumption DEF get_epoch_first_slot
<1>8. ChainTypeOK'
  BY <1>1, <1>7 DEF BaseInv, TypeOK, ChainTypeOK
<1>9. TypeOK' /\ HeadAhead'
  BY <1>1, <1>7, <1>8 DEF BaseInv, TypeOK, HeadAhead
<1>10. ASSUME NEW d \in Daemon PROVE CycleOf(d)'
<2>1. CycleOf(d) /\ fin[d] \in Nat /\ threshold[d] \in Nat
  BY DEF BaseInv, CycleInv, TypeOK
<2> QED
  BY <1>1, <1>2, <1>7, <2>1 DEF CycleOf, Started, RefSlot, VersionAt
<1> QED
  BY <1>7, <1>9, <1>10 DEF BaseInv, CycleInv

\* Removing a member keeps the committee a sequence of distinct addresses.
LEMMA RemoveMemberStep ==
  ASSUME BaseInv, RemoveMember, UNCHANGED <<daemonVars, mempool, faults>>
  PROVE  /\ BaseInv' /\ Member' \subseteq Member
         /\ \A a \in Address : votes'[a] = votes[a] \/ votes'[a] = NoReport
<1>1. UNCHANGED <<pc, fin, threshold, ref, built, phase, wake, left, chunk, free, mempool, faults,
                  slot, finalized, upgrade, main, extra, agreed>>
  BY DEF daemonVars, RemoveMember, chainVars
<1>2. PICK a \in Removable \intersect Member :
        /\ members' = [i \in 1..(Len(members) - 1) |->
                        IF i = IndexOf(a) + 1 THEN members[Len(members)] ELSE members[i]]
        /\ votes' = [votes EXCEPT ![a] = NoReport]
  BY DEF RemoveMember
<1>3. members \in Seq(Address) /\ Len(members) \in Nat
  BY DEF BaseInv, TypeOK, ChainTypeOK
<1>4. Len(members) >= 1
  BY <1>2, <1>3 DEF Member
<1>5. \A i \in 1..(Len(members) - 1) :
        /\ i \in 1..Len(members)
        /\ members[i] \in Address /\ members[Len(members)] \in Address
  BY <1>3, <1>4
<1>6. members' \in Seq(Address) /\ Len(members') = Len(members) - 1
  BY <1>2, <1>3, <1>4, <1>5
<1>7. votes' \in [Address -> Report \union {NoReport}]
  BY <1>2 DEF BaseInv, TypeOK, ChainTypeOK
<1>8. TypeOK' /\ HeadAhead'
  BY <1>1, <1>6, <1>7 DEF BaseInv, TypeOK, ChainTypeOK, HeadAhead
<1>9. CycleInv'
  BY <1>1 DEF BaseInv, CycleInv, CycleOf, Started, RefSlot, VersionAt
<1>10. Member' \subseteq Member
<2>1. \A i \in 1..(Len(members) - 1) :
        members'[i] = members[Len(members)] \/ members'[i] = members[i]
  BY <1>2
<2>2. \A i \in 1..(Len(members) - 1) : \E j \in 1..Len(members) : members'[i] = members[j]
  BY <1>3, <1>4, <1>5, <2>1
<2> QED
  BY <1>6, <2>2 DEF Member
<1>11. \A b \in Address : votes'[b] = votes[b] \/ votes'[b] = NoReport
  BY <1>2 DEF BaseInv, TypeOK, ChainTypeOK
<1> QED
  BY <1>8, <1>9, <1>10, <1>11 DEF BaseInv

-----------------------------------------------------------------------------
(* Type correctness *)

\* The initial states.
LEMMA BaseInit == Init => BaseInv
<1> SUFFICES ASSUME Init PROVE BaseInv
  OBVIOUS
<1>1. /\ slot = 0 /\ finalized = 0 /\ upgrade \in UpgradeSlot
      /\ members = Committee /\ votes = [a \in Address |-> NoReport]
      /\ main = NoReport /\ extra = 0 /\ agreed = {}
  BY DEF Init, ChainInit
<1>2. ChainTypeOK
  BY <1>1, ConsensusAssumption DEF ChainTypeOK
<1>3. mempool \in [Daemon -> Seq(Tx)]
<2>1. <<>> \in Seq(Tx)
  OBVIOUS
<2> QED
  BY <2>1 DEF Init
<1>4. TypeOK
  BY <1>2, <1>3 DEF Init, TypeOK
<1>5. HeadAhead /\ CycleInv
  BY <1>1 DEF Init, HeadAhead, CycleInv, CycleOf
<1> QED
  BY <1>4, <1>5 DEF BaseInv

\* A stuttering step.
LEMMA BaseStutter ==
  ASSUME BaseInv, UNCHANGED vars
  PROVE  BaseInv'
<1>1. /\ ChainKept
      /\ UNCHANGED <<pc, fin, threshold, ref, built, phase, wake, left, chunk, free, mempool, faults>>
  BY DEF vars, ChainKept
<1>2. TypeOK'
  BY <1>1, ChainKeptFacts DEF BaseInv, TypeOK
<1>3. CycleInv'
  BY <1>1, OtherDaemon DEF CycleInv
<1> QED
  BY <1>1, <1>2, <1>3, ChainKeptFacts DEF BaseInv

\* Every step: the chain's, a daemon's, a mined transaction or a fault.
LEMMA BaseStep == BaseInv /\ [Next]_vars => BaseInv'
<1> SUFFICES ASSUME BaseInv, [Next]_vars PROVE BaseInv'
  OBVIOUS
<1>1. CASE ChainStep
  BY <1>1, NewSlotStep, FinalizeStep, RemoveMemberStep DEF ChainStep
<1>2. ASSUME NEW d \in Daemon, DaemonStep(d) PROVE BaseInv'
  BY <1>2, StartStep, BlockstampStep, CompatStep, PhaseStep, TransactionStep DEF DaemonStep
<1>3. ASSUME NEW d \in Daemon, Mine(d) PROVE BaseInv'
  BY <1>3, MineStep
<1>4. ASSUME NEW d \in Daemon, Fault(d) PROVE BaseInv'
  BY <1>4, FaultStep
<1>5. CASE UNCHANGED vars
  BY <1>5, BaseStutter
<1> QED
  BY <1>1, <1>2, <1>3, <1>4, <1>5 DEF Next

\* In every reachable state a daemon's cycle is well formed: it works for a
\* reference slot that was the current one since it started, with a report built
\* for that slot by software of that slot's version (ConsensusModule).
THEOREM BaseInvariant == Spec => []BaseInv
<1> QED
  BY BaseInit, BaseStep, PTL DEF Spec

\* Every variable keeps its type, whatever the committee, the frame configuration
\* and the order of the steps.
THEOREM TypeCorrect == Spec => []TypeOK
<1>1. BaseInv => TypeOK
  BY DEF BaseInv
<1> QED
  BY <1>1, BaseInvariant, PTL

-----------------------------------------------------------------------------
(* Report data is sent only after consensus *)

\* A report that has the quorum is on record as agreed.
QuorumRecorded == \A r \in Report : HasQuorum(r) => r \in agreed

ConsensusInv == QuorumRecorded /\ DataOnlyAfterConsensus

\* The voters for a report can be counted.
LEMMA VotersFinite ==
  ASSUME TypeOK, NEW r
  PROVE  /\ IsFiniteSet(Member)
         /\ IsFiniteSet({a \in Member : votes[a] = r})
<1>1. IsFiniteSet(Member)
  BY MemberFinite DEF TypeOK, ChainTypeOK
<1> QED
  BY <1>1, FS_Subset

\* Votes that only disappear make no new quorum.
LEMMA FewerVotes ==
  ASSUME TypeOK, NEW r \in Report, Member' \subseteq Member, Member \subseteq Address,
         \A a \in Address : votes'[a] = r => votes[a] = r,
         HasQuorum(r)'
  PROVE  HasQuorum(r)
<1> DEFINE S == {a \in Member' : votes'[a] = r}
           T == {a \in Member : votes[a] = r}
<1>1. S \subseteq T
  OBVIOUS
<1>2. Cardinality(S) >= Quorum
  BY DEF HasQuorum, HasQuorumIn
<1>3. IsFiniteSet(T)
  BY VotersFinite
<1>4. Cardinality(T) >= Quorum
  BY <1>1, <1>2, <1>3, QuorumMono
<1> QED
  BY <1>4 DEF HasQuorum, HasQuorumIn

\* What a mined transaction does to the votes.
LEMMA MineEffect ==
  ASSUME NEW d \in Daemon, Mine(d)
  PROVE  \/ Vote(Sender[d], Head(mempool[d]).report)
              /\ Accepts(d, Head(mempool[d])) /\ Head(mempool[d]).kind = "hash"
         \/ Deliver(Head(mempool[d]).report)
              /\ Accepts(d, Head(mempool[d])) /\ Head(mempool[d]).kind = "data"
         \/ DeliverExtra
              /\ Accepts(d, Head(mempool[d])) /\ Head(mempool[d]).kind = "extra"
         \/ UNCHANGED contractVars
  BY DEF Mine

\* A report that comes to have a quorum is one of agreed: only a vote for it can
\* bring that about.
LEMMA QuorumRecordedStep ==
  ASSUME BaseInv, QuorumRecorded, [Next]_vars
  PROVE  QuorumRecorded' /\ agreed \subseteq agreed'
<1>1. /\ TypeOK /\ votes \in [Address -> Report \union {NoReport}]
      /\ Member \subseteq Address
  BY DEF BaseInv, TypeOK, ChainTypeOK, Member
<1>2. NoReport \notin Report
  BY ConsensusAssumption DEF Report
<1>3. CASE UNCHANGED <<members, votes, agreed>>
  BY <1>3 DEF QuorumRecorded, HasQuorum, HasQuorumIn, Member
<1>4. CASE NewSlot
<2>1. UNCHANGED <<members, agreed>> /\ Member' = Member
  BY <1>4 DEF NewSlot, Member
<2>2. ASSUME NEW r \in Report, HasQuorum(r)' PROVE r \in agreed'
<3>1. \A a \in Address : votes'[a] = r => votes[a] = r
  BY <1>1, <1>2, <1>4 DEF NewSlot
<3> QED
  BY <1>1, <2>1, <2>2, <3>1, FewerVotes DEF QuorumRecorded
<2> QED
  BY <2>1, <2>2 DEF QuorumRecorded
<1>5. CASE RemoveMember /\ UNCHANGED <<daemonVars, mempool, faults>>
<2>1. agreed' = agreed
  BY <1>5 DEF RemoveMember
<2>2. /\ Member' \subseteq Member
      /\ \A a \in Address : votes'[a] = votes[a] \/ votes'[a] = NoReport
  BY <1>5, RemoveMemberStep
<2>3. ASSUME NEW r \in Report, HasQuorum(r)' PROVE r \in agreed'
  BY <1>1, <1>2, <2>1, <2>2, <2>3, FewerVotes DEF QuorumRecorded
<2> QED
  BY <2>1, <2>3 DEF QuorumRecorded
<1>6. ASSUME NEW a \in Address, NEW q \in Report, Vote(a, q)
      PROVE  QuorumRecorded' /\ agreed \subseteq agreed'
<2>1. /\ votes' = [votes EXCEPT ![a] = q]
      /\ agreed' = IF HasQuorumIn(votes', q) THEN agreed \union {q} ELSE agreed
      /\ Member' = Member
  BY <1>6 DEF Vote, Member
<2>2. ASSUME NEW r \in Report, HasQuorum(r)' PROVE r \in agreed'
<3>1. CASE r = q
  BY <2>1, <2>2, <3>1 DEF HasQuorum, HasQuorumIn
<3>2. CASE r # q
<4>1. \A b \in Address : votes'[b] = r => votes[b] = r
  BY <1>1, <2>1, <3>2
<4>2. HasQuorum(r)
  BY <1>1, <2>1, <2>2, <4>1, FewerVotes
<4> QED
  BY <2>1, <4>2 DEF QuorumRecorded
<3> QED
  BY <3>1, <3>2
<2> QED
  BY <2>1, <2>2 DEF QuorumRecorded
<1>7. CASE ChainStep
  BY <1>3, <1>4, <1>5, <1>7 DEF ChainStep, Finalize, contractVars
<1>8. ASSUME NEW d \in Daemon, DaemonStep(d) PROVE UNCHANGED <<members, votes, agreed>>
  BY <1>8 DEF DaemonStep, StartCycle, GetBlockstampForReport, CheckCompatibilityAndBuild,
       ProcessReportHash, ProcessReportData, SleepBeforeData, ProcessExtraData,
       SubmitExtraData, CheckTransaction, SendTransaction, HandleSentTransaction,
       Quiet, KeepsChain, contractVars
<1>9. ASSUME NEW d \in Daemon, Fault(d) PROVE UNCHANGED <<members, votes, agreed>>
  BY <1>9 DEF Fault, FailRequest, Restart, DropTransaction, KeepsChain, contractVars
<1>10. ASSUME NEW d \in Daemon, Mine(d) PROVE QuorumRecorded' /\ agreed \subseteq agreed'
<2>1. Head(mempool[d]).report \in Report /\ Sender[d] \in Address
  BY <1>10, MineTypes, DaemonAssumption DEF Tx
<2>2. CASE Vote(Sender[d], Head(mempool[d]).report)
  BY <1>6, <2>1, <2>2
<2>3. CASE ~Vote(Sender[d], Head(mempool[d]).report)
  BY <1>3, <1>10, <2>3, MineEffect DEF Deliver, DeliverExtra, contractVars
<2> QED
  BY <2>2, <2>3
<1>11. CASE UNCHANGED vars
  BY <1>3, <1>11 DEF vars
<1> QED
  BY <1>3, <1>7, <1>8, <1>9, <1>10, <1>11 DEF Next

\* The steps of a daemon that is, or comes to be, sending data.
LEMMA SendingDataStep ==
  ASSUME BaseInv, QuorumRecorded, NEW d \in Daemon, DaemonStep(d), SendingData(d)'
  PROVE  /\ built'[d] = built[d]
         /\ SendingData(d) \/ built[d] \in agreed
<1>1. /\ pc \in [Daemon -> PCs]
      /\ phase \in [Daemon -> {"hash", "data", "extra"}]
  BY DEF BaseInv, TypeOK
<1>2. CASE EndCycle(d) \/ EndCycleUntilFinalized(d) \/ Die(d)
  BY <1>1, <1>2 DEF EndCycle, EndCycleUntilFinalized, Die, Goto, SendingData
<1>3. CASE StartCycle(d)
  BY <1>1, <1>3 DEF StartCycle, Goto, SendingData
<1>4. CASE GetBlockstampForReport(d)
  BY <1>1, <1>2, <1>4 DEF GetBlockstampForReport, Goto, SendingData
<1>5. CASE CheckCompatibilityAndBuild(d)
  BY <1>1, <1>2, <1>5 DEF CheckCompatibilityAndBuild, Goto, SendingData
<1>6. CASE ProcessReportHash(d)
  BY <1>1, <1>2, <1>6 DEF ProcessReportHash, Goto, SendingData
<1>7. CASE ProcessReportData(d)
<2>1. CASE HasQuorum(built[d]) /\ UNCHANGED built
<3>1. built[d] \in Report
  BY <1>7 DEF ProcessReportData, BaseInv, CycleInv, CycleOf
<3> QED
  BY <2>1, <3>1 DEF QuorumRecorded
<2>2. CASE pc' = [pc EXCEPT ![d] = "extra"]
  BY <1>1, <2>2 DEF SendingData
<2> QED
  BY <1>2, <1>7, <2>1, <2>2 DEF ProcessReportData, Goto, ConsensusIs
<1>8. CASE SleepBeforeData(d)
  BY <1>1, <1>2, <1>8 DEF SleepBeforeData, Goto, SendingData
<1>9. CASE ProcessExtraData(d)
  BY <1>1, <1>2, <1>9 DEF ProcessExtraData, Goto, SendingData
<1>10. CASE SubmitExtraData(d)
  BY <1>1, <1>2, <1>10 DEF SubmitExtraData, GotoSend, Goto, SendingData
<1>11. ASSUME AfterTx(d)
       PROVE  pc'[d] \in {"data", "extra", "idle"} \/ (pc'[d] = "send" /\ phase'[d] = "extra")
  BY <1>1, <1>11 DEF AfterTx, EndCycle, Goto, NextChunk
<1>12. CASE CheckTransaction(d)
<2>1. CASE AfterTx(d)
  BY <1>11, <2>1 DEF SendingData
<2>2. CASE ~AfterTx(d)
  BY <1>1, <1>12, <2>2 DEF CheckTransaction, Goto, SendingData
<2> QED
  BY <2>1, <2>2
<1>13. CASE SendTransaction(d)
  BY <1>1, <1>2, <1>13 DEF SendTransaction, Goto, Locals, SendingData
<1>14. CASE HandleSentTransaction(d)
  BY <1>11, <1>14 DEF HandleSentTransaction, SendingData
<1> QED
  BY <1>3, <1>4, <1>5, <1>6, <1>7, <1>8, <1>9, <1>10, <1>12, <1>13, <1>14 DEF DaemonStep

\* A daemon's step leaves the other daemons where they are.
LEMMA OthersKeep ==
  ASSUME BaseInv, NEW d \in Daemon, DaemonStep(d) \/ FailRequest(d) \/ Restart(d),
         NEW e \in Daemon, e # d
  PROVE  /\ pc'[e] = pc[e] /\ phase'[e] = phase[e] /\ built'[e] = built[e]
         /\ free'[e] = free[e] /\ threshold'[e] = threshold[e]
         /\ fin'[e] = fin[e] /\ ref'[e] = ref[e]
<1> USE DEF BaseInv, TypeOK
<1>1. ASSUME EndCycle(d) \/ EndCycleUntilFinalized(d) \/ Die(d)
      PROVE  /\ pc'[e] = pc[e] /\ phase'[e] = phase[e] /\ built'[e] = built[e]
             /\ free'[e] = free[e] /\ threshold'[e] = threshold[e]
             /\ fin'[e] = fin[e] /\ ref'[e] = ref[e]
  BY <1>1 DEF EndCycle, EndCycleUntilFinalized, Die, Goto, Forget
<1>2. CASE StartCycle(d) \/ GetBlockstampForReport(d) \/ CheckCompatibilityAndBuild(d)
  BY <1>1, <1>2 DEF StartCycle, GetBlockstampForReport, CheckCompatibilityAndBuild,
     BuildReport, Goto
<1>3. CASE ProcessReportHash(d) \/ ProcessReportData(d)
  BY <1>1, <1>3 DEF ProcessReportHash, ProcessReportData, Goto, GotoSend, Locals
<1>4. CASE SleepBeforeData(d) \/ ProcessExtraData(d) \/ SubmitExtraData(d)
  BY <1>1, <1>4 DEF SleepBeforeData, ProcessExtraData, SubmitExtraData, Goto, GotoSend
<1>5. ASSUME AfterTx(d)
      PROVE  /\ pc'[e] = pc[e] /\ phase'[e] = phase[e] /\ built'[e] = built[e]
             /\ free'[e] = free[e] /\ threshold'[e] = threshold[e]
             /\ fin'[e] = fin[e] /\ ref'[e] = ref[e]
  BY <1>1, <1>5 DEF AfterTx, Goto
<1>6. CASE CheckTransaction(d) \/ HandleSentTransaction(d)
  BY <1>5, <1>6 DEF CheckTransaction, HandleSentTransaction, Goto
<1>7. CASE SendTransaction(d)
  BY <1>1, <1>7 DEF SendTransaction, Goto, Locals
<1>8. CASE FailRequest(d) \/ Restart(d)
  BY <1>1, <1>8 DEF FailRequest, Restart, Goto, Forget
<1> QED
  BY <1>2, <1>3, <1>4, <1>6, <1>7, <1>8 DEF DaemonStep

\* Both parts together: a daemon turns to sending data only where its own report
\* has a quorum, and agreed never shrinks.
LEMMA ConsensusStep ==
  BaseInv /\ ConsensusInv /\ [Next]_vars => ConsensusInv'
<1> SUFFICES ASSUME BaseInv, ConsensusInv, [Next]_vars PROVE ConsensusInv'
  OBVIOUS
<1>1. QuorumRecorded' /\ agreed \subseteq agreed'
  BY QuorumRecordedStep DEF ConsensusInv
<1>2. SUFFICES ASSUME NEW e \in Daemon, SendingData(e)' PROVE built'[e] \in agreed'
  BY <1>1 DEF ConsensusInv, DataOnlyAfterConsensus
<1>3. SendingData(e) => built[e] \in agreed
  BY DEF ConsensusInv, DataOnlyAfterConsensus
<1>4. CASE UNCHANGED <<pc, phase, built>>
  BY <1>1, <1>2, <1>3, <1>4 DEF SendingData
<1>5. ASSUME NEW d \in Daemon, DaemonStep(d) PROVE built'[e] \in agreed'
<2>1. CASE e = d
  BY <1>1, <1>2, <1>3, <1>5, <2>1, SendingDataStep DEF ConsensusInv
<2>2. CASE e # d
  BY <1>1, <1>2, <1>3, <1>5, <2>2, OthersKeep DEF SendingData
<2> QED
  BY <2>1, <2>2
<1>6. ASSUME NEW d \in Daemon, Fault(d) PROVE built'[e] \in agreed'
<2>1. CASE DropTransaction(d)
  BY <1>4, <2>1 DEF DropTransaction, daemonVars
<2>2. CASE FailRequest(d) \/ Restart(d)
<3>1. CASE e = d
  BY <1>2, <2>2, <3>1 DEF FailRequest, Restart, EndCycle, Goto, SendingData, BaseInv, TypeOK
<3>2. CASE e # d
  BY <1>1, <1>2, <1>3, <2>2, <3>2, OthersKeep DEF SendingData
<3> QED
  BY <3>1, <3>2
<2> QED
  BY <1>6, <2>1, <2>2 DEF Fault
<1>7. CASE \E d \in Daemon : Mine(d)
  BY <1>4, <1>7, MineTypes
<1>8. CASE ChainStep
  BY <1>4, <1>8 DEF ChainStep, daemonVars
<1>9. CASE UNCHANGED vars
  BY <1>4, <1>9 DEF vars
<1> QED
  BY <1>5, <1>6, <1>7, <1>8, <1>9 DEF Next

\* The quorums on record and the daemons that rely on them agree at every moment
\* (_process_report_data compares the consensus hash it reads with its own).
THEOREM ConsensusInvariant == Spec => []ConsensusInv
<1>1. Init => ConsensusInv
<2> SUFFICES ASSUME Init PROVE ConsensusInv
  OBVIOUS
<2>1. DataOnlyAfterConsensus
  BY DEF Init, DataOnlyAfterConsensus, SendingData
<2>2. ASSUME NEW r \in Report, HasQuorum(r) PROVE FALSE
<3>1. TypeOK
  BY BaseInit DEF BaseInv
<3>2. \A a \in Member : votes[a] # r
<4>1. Member \subseteq Address /\ NoReport # r
  BY <3>1, ConsensusAssumption DEF TypeOK, ChainTypeOK, Member, Report
<4> QED
  BY <4>1 DEF Init, ChainInit
<3>3. {a \in Member : votes[a] = r} = {}
  BY <3>2
<3> QED
  BY <2>2, <3>1, <3>3, VotersFinite, QuorumNonEmpty DEF HasQuorum, HasQuorumIn
<2> QED
  BY <2>1, <2>2 DEF ConsensusInv, QuorumRecorded
<1> QED
  BY <1>1, ConsensusStep, BaseInvariant, PTL DEF Spec

\* Whatever the other daemons, the chain and the faults do, a daemon that waits to
\* send, or sends, report data sends a report that has had a quorum of votes
\* (_process_report_data).
THEOREM DataAfterConsensus == Spec => []DataOnlyAfterConsensus
<1>1. ConsensusInv => DataOnlyAfterConsensus
  BY DEF ConsensusInv
<1> QED
  BY <1>1, ConsensusInvariant, PTL

-----------------------------------------------------------------------------
(* A vote is not repeated, and no report crosses an upgrade *)

\* At most one transaction of a daemon is unmined, since each takes the nonce of the
\* one before; it is of the daemon's version, and is not a vote already recorded.
\* The third conjunct carries this over the gap between the static call and the
\* broadcast: while the nonce is unused the vote is still not recorded.
QueueOf(d) ==
  /\ Len(mempool[d]) <= 1
  /\ mempool[d] # <<>> => VersionAt(Head(mempool[d]).report.ref) = Software[d]
  /\ pc[d] = "broadcast" /\ phase[d] = "hash" /\ free[d] => votes[Sender[d]] # built[d]
  /\ mempool[d] # <<>> /\ Head(mempool[d]).kind = "hash"
       => votes[Sender[d]] # Head(mempool[d]).report

QueueInv == \A d \in Daemon : QueueOf(d)

\* Votes that stay or disappear repeat nothing.
LEMMA QueueKept ==
  ASSUME BaseInv, NEW d \in Daemon, QueueOf(d),
         mempool'[d] = mempool[d], upgrade' = upgrade,
         votes'[Sender[d]] = votes[Sender[d]] \/ votes'[Sender[d]] = NoReport,
         \/ pc'[d] # "broadcast" \/ free'[d] = FALSE
         \/ pc'[d] = pc[d] /\ phase'[d] = phase[d] /\ built'[d] = built[d] /\ free'[d] = free[d]
  PROVE  QueueOf(d)'
<1>1. NoReport \notin Report
  BY ConsensusAssumption DEF Report
<1>2. mempool[d] # <<>> => Head(mempool[d]).report \in Report
<2>1. mempool[d] \in Seq(Tx)
  BY DEF BaseInv, TypeOK
<2>2. mempool[d] # <<>> => Head(mempool[d]) \in Tx
  BY <2>1
<2> QED
  BY <2>2 DEF Tx
<1>3. pc[d] = "broadcast" => built[d] \in Report
  BY DEF BaseInv, CycleInv, CycleOf
<1>4. mempool[d] # <<>> => VersionAt(Head(mempool[d]).report.ref)' = Software[d]
  BY DEF QueueOf, VersionAt
<1> QED
  BY <1>1, <1>2, <1>3, <1>4 DEF QueueOf

\* A daemon comes to broadcast a vote only after the contract would take it.
LEMMA CheckedVote ==
  ASSUME BaseInv, NEW d \in Daemon, CheckTransaction(d), QueueOf(d)
  PROVE  QueueOf(d)'
<1>1. /\ UNCHANGED <<mempool, votes, upgrade, built>>
      /\ pc[d] = "send"
      /\ pc \in [Daemon -> PCs]
      /\ phase \in [Daemon -> {"hash", "data", "extra"}]
      /\ free \in [Daemon -> BOOLEAN]
  BY DEF CheckTransaction, Quiet, KeepsChain, chainVars, contractVars, AfterTx, EndCycle,
         BaseInv, TypeOK
<1>2. CASE AfterTx(d)
<2>1. pc'[d] # "broadcast"
  BY <1>1, <1>2 DEF AfterTx, EndCycle, Goto
<2> QED
  BY <1>1, <2>1, QueueKept
<1>3. CASE ~AfterTx(d)
<2>1. Accepts(d, TxOf(d)) /\ pc' = [pc EXCEPT ![d] = "broadcast"] /\ UNCHANGED phase
  BY <1>3 DEF CheckTransaction, Goto
<2>2. phase[d] = "hash" => votes[Sender[d]] # built[d]
  BY <2>1 DEF Accepts, TxOf, CanVote
<2> QED
  BY <1>1, <2>1, <2>2 DEF QueueOf, VersionAt
<1> QED
  BY <1>2, <1>3

\* A broadcast vote is not one the contract has: no vote of the daemon was mined
\* since the static call, for the nonce would then be used.
LEMMA BroadcastVote ==
  ASSUME BaseInv, NEW d \in Daemon, SendTransaction(d), QueueInv
  PROVE  QueueInv'
<1>1. /\ UNCHANGED <<votes, upgrade>>
      /\ pc[d] = "broadcast"
      /\ pc \in [Daemon -> PCs]
      /\ \A e \in Daemon : QueueOf(e)
  BY DEF SendTransaction, KeepsChain, chainVars, contractVars, BaseInv, TypeOK, QueueInv
<1>2. CASE EndCycle(d)
<2>1. UNCHANGED mempool
  BY <1>1, <1>2 DEF SendTransaction, EndCycle, Goto
<2>2. pc'[d] = "idle" /\ UNCHANGED built
  BY <1>1, <1>2 DEF EndCycle, Goto
<2>3. ASSUME NEW e \in Daemon PROVE QueueOf(e)'
  BY <1>1, <2>1, <2>2, QueueKept, OthersKeep DEF DaemonStep
<2> QED
  BY <2>3 DEF QueueInv
<1>3. CASE ~EndCycle(d)
<2>1. /\ free[d] /\ pc'[d] = "wait"
      /\ \A e \in Daemon : e # d => mempool'[e] = mempool[e]
      /\ mempool'[d] # <<>> /\ Head(mempool'[d]) = TxOf(d)
      /\ Len(mempool'[d]) = 1
  BY <1>1, <1>3, BroadcastQueue DEF QueueOf
<2>2. built[d].ref = ref[d] /\ VersionAt(ref[d]) = Software[d]
  BY <1>1 DEF BaseInv, CycleInv, CycleOf
<2>3. QueueOf(d)'
  BY <1>1, <2>1, <2>2 DEF QueueOf, TxOf, VersionAt
<2>4. ASSUME NEW e \in Daemon, e # d PROVE QueueOf(e)'
  BY <1>1, <2>1, <2>4, QueueKept, OthersKeep DEF DaemonStep
<2> QED
  BY <2>3, <2>4 DEF QueueInv
<1> QED
  BY <1>2, <1>3

\* The other steps of a daemon, and its faults, send nothing.
LEMMA SilentSteps ==
  ASSUME BaseInv, NEW d \in Daemon, QueueInv,
         (DaemonStep(d) /\ ~CheckTransaction(d) /\ ~SendTransaction(d))
           \/ FailRequest(d) \/ Restart(d)
  PROVE  QueueInv'
<1>1. UNCHANGED <<mempool, votes, upgrade>>
  BY DEF DaemonStep, StartCycle, GetBlockstampForReport, CheckCompatibilityAndBuild,
       ProcessReportHash, ProcessReportData, SleepBeforeData, ProcessExtraData,
       SubmitExtraData, HandleSentTransaction, FailRequest, Restart,
       Quiet, KeepsChain, chainVars, contractVars
<1>2. pc \in [Daemon -> PCs]
  BY DEF BaseInv, TypeOK
<1>3. pc'[d] # "broadcast"
<2>1. ASSUME EndCycle(d) \/ EndCycleUntilFinalized(d) \/ Die(d) PROVE pc'[d] # "broadcast"
  BY <1>2, <2>1 DEF EndCycle, EndCycleUntilFinalized, Die, Goto
<2>2. CASE StartCycle(d) \/ GetBlockstampForReport(d) \/ CheckCompatibilityAndBuild(d)
  BY <1>2, <2>1, <2>2 DEF StartCycle, GetBlockstampForReport, CheckCompatibilityAndBuild, Goto
<2>3. CASE ProcessReportHash(d) \/ ProcessReportData(d)
  BY <1>2, <2>1, <2>3 DEF ProcessReportHash, ProcessReportData, Goto, GotoSend
<2>4. CASE SleepBeforeData(d) \/ ProcessExtraData(d) \/ SubmitExtraData(d)
  BY <1>2, <2>1, <2>4 DEF SleepBeforeData, ProcessExtraData, SubmitExtraData, Goto, GotoSend
<2>5. CASE HandleSentTransaction(d)
  BY <1>2, <2>1, <2>5 DEF HandleSentTransaction, AfterTx, Goto
<2>6. CASE FailRequest(d) \/ Restart(d)
  BY <1>2, <2>1, <2>6 DEF FailRequest, Restart, Goto
<2> QED
  BY <2>2, <2>3, <2>4, <2>5, <2>6 DEF DaemonStep
<1>4. ASSUME NEW e \in Daemon PROVE QueueOf(e)'
<2>1. QueueOf(e)
  BY DEF QueueInv
<2>2. CASE e = d
  BY <1>1, <1>3, <2>1, <2>2, QueueKept
<2>3. CASE e # d
  BY <1>1, <2>1, <2>3, QueueKept, OthersKeep
<2> QED
  BY <2>2, <2>3
<1> QED
  BY <1>4 DEF QueueInv

\* A queue of one is empty without its head.
LEMMA SingletonTail ==
  ASSUME NEW S, NEW q \in Seq(S), q # <<>>, Len(q) <= 1
  PROVE  Tail(q) = <<>>
<1>1. Len(q) \in Nat /\ Len(q) # 0
  OBVIOUS
<1>2. Len(q) = 1
  BY <1>1
<1>3. Tail(q) \in Seq(S) /\ Len(Tail(q)) = 0
  BY <1>2
<1> QED
  BY <1>3

\* Mining empties the queue of the daemon, whose next nonce is then another one.
LEMMA MinedQueue ==
  ASSUME BaseInv, NEW d \in Daemon, Mine(d), QueueInv
  PROVE  QueueInv'
<1>1. /\ mempool[d] # <<>> /\ Head(mempool[d]) \in Tx
      /\ mempool' = [mempool EXCEPT ![d] = Tail(@)]
      /\ free' = [free EXCEPT ![d] = FALSE]
      /\ UNCHANGED <<upgrade, pc, phase, built>>
      /\ mempool \in [Daemon -> Seq(Tx)] /\ free \in [Daemon -> BOOLEAN]
  BY MineTypes DEF BaseInv, TypeOK
<1>2. ASSUME NEW a \in Address, a # Sender[d] PROVE votes'[a] = votes[a]
<2>1. Head(mempool[d]).report \in Report /\ Sender[d] \in Address
      /\ votes \in [Address -> Report \union {NoReport}]
  BY <1>1, DaemonAssumption DEF Tx, BaseInv, TypeOK, ChainTypeOK
<2> QED
  BY <1>2, <2>1, MineEffect DEF Vote, Deliver, DeliverExtra, contractVars
<1>3. ASSUME NEW e \in Daemon PROVE QueueOf(e)'
<2>1. QueueOf(e)
  BY DEF QueueInv
<2>2. CASE e = d
<3>1. Tail(mempool[d]) = <<>>
  BY <1>1, <2>1, <2>2, SingletonTail DEF QueueOf
<3>2. mempool'[d] = <<>> /\ free'[d] = FALSE
  BY <1>1, <3>1
<3> QED
  BY <2>2, <3>2 DEF QueueOf
<2>3. CASE e # d
<3>1. votes'[Sender[e]] = votes[Sender[e]]
  BY <1>2, <2>3, DaemonAssumption
<3>2. mempool'[e] = mempool[e] /\ free'[e] = free[e]
  BY <1>1, <2>3
<3> QED
  BY <1>1, <2>1, <3>1, <3>2, QueueKept
<2> QED
  BY <2>2, <2>3
<1> QED
  BY <1>3 DEF QueueInv

\* Every step keeps every queue in order.
LEMMA QueueStep == BaseInv /\ QueueInv /\ [Next]_vars => QueueInv'
<1> SUFFICES ASSUME BaseInv, QueueInv, [Next]_vars PROVE QueueInv'
  OBVIOUS
<1>1. ASSUME NEW d \in Daemon, CheckTransaction(d) PROVE QueueInv'
<2>1. UNCHANGED <<mempool, votes, upgrade>>
  BY <1>1 DEF CheckTransaction, Quiet, KeepsChain, chainVars, contractVars
<2>2. ASSUME NEW e \in Daemon PROVE QueueOf(e)'
<3>1. QueueOf(e)
  BY DEF QueueInv
<3>2. CASE e = d
  BY <1>1, <3>1, <3>2, CheckedVote
<3>3. CASE e # d
  BY <1>1, <2>1, <3>1, <3>3, QueueKept, OthersKeep DEF DaemonStep
<3> QED
  BY <3>2, <3>3
<2> QED
  BY <2>2 DEF QueueInv
<1>2. ASSUME NEW d \in Daemon, DaemonStep(d) PROVE QueueInv'
  BY <1>1, <1>2, BroadcastVote, SilentSteps
<1>3. ASSUME NEW d \in Daemon, Fault(d) PROVE QueueInv'
<2>1. CASE FailRequest(d) \/ Restart(d)
  BY <2>1, SilentSteps
<2>2. CASE DropTransaction(d)
<3>1. /\ mempool' = [mempool EXCEPT ![d] = Tail(@)] /\ mempool[d] # <<>>
      /\ UNCHANGED <<votes, upgrade, pc, phase, built, free>>
      /\ mempool \in [Daemon -> Seq(Tx)]
  BY <2>2 DEF DropTransaction, KeepsChain, chainVars, contractVars, daemonVars, BaseInv, TypeOK
<3>2. ASSUME NEW e \in Daemon PROVE QueueOf(e)'
<4>1. QueueOf(e)
  BY DEF QueueInv
<4>2. CASE e = d
<5>1. Tail(mempool[d]) = <<>>
  BY <3>1, <4>1, <4>2, SingletonTail DEF QueueOf
<5>2. mempool'[d] = <<>>
  BY <3>1, <5>1
<5> QED
  BY <3>1, <4>1, <4>2, <5>2 DEF QueueOf
<4>3. CASE e # d
  BY <3>1, <4>1, <4>3, QueueKept
<4> QED
  BY <4>2, <4>3
<3> QED
  BY <3>2 DEF QueueInv
<2> QED
  BY <1>3, <2>1, <2>2 DEF Fault
<1>4. CASE ChainStep
<2>1. UNCHANGED <<pc, phase, built, free, mempool>>
  BY <1>4 DEF ChainStep, daemonVars
<2>2. /\ upgrade' = upgrade
      /\ \A a \in Address : votes'[a] = votes[a] \/ votes'[a] = NoReport
<3>1. CASE RemoveMember /\ UNCHANGED <<daemonVars, mempool, faults>>
  BY <3>1, RemoveMemberStep DEF RemoveMember, chainVars
<3>2. CASE NewSlot
  BY <3>2 DEF NewSlot
<3>3. CASE Finalize
  BY <3>3 DEF Finalize, contractVars
<3> QED
  BY <1>4, <3>1, <3>2, <3>3 DEF ChainStep
<2>3. ASSUME NEW e \in Daemon PROVE QueueOf(e)'
<3>1. QueueOf(e) /\ Sender[e] \in Address
  BY DaemonAssumption DEF QueueInv
<3> QED
  BY <2>1, <2>2, <3>1, QueueKept
<2> QED
  BY <2>3 DEF QueueInv
<1>5. CASE UNCHANGED vars
  BY <1>5, QueueKept DEF vars, QueueInv
<1> QED
  BY <1>2, <1>3, <1>4, <1>5, MinedQueue DEF Next

\* All queues are empty at first.
LEMMA QueueInit == Init => QueueInv
  BY DEF Init, QueueInv, QueueOf

\* At every moment at most one transaction of a daemon is unmined, it is of the
\* daemon's version, and a vote that waits is not recorded yet, whatever was retried
\* or lost before (build_transaction_params, check_and_send_transaction).
THEOREM QueueInvariant == Spec => []QueueInv
<1> QED
  BY QueueInit, QueueStep, BaseInvariant, PTL DEF Spec

\* For any number of daemons, crashes, dropped transactions and receipts never seen,
\* the oldest unmined transaction of a daemon is not a vote the contract has from it
\* (build_transaction_params reads the count of mined transactions as the nonce).
THEOREM VoteNotRepeated == Spec => []NoDuplicateVote
<1>1. QueueInv => NoDuplicateVote
  BY DEF QueueInv, QueueOf, NoDuplicateVote
<1> QED
  BY <1>1, QueueInvariant, PTL

\* No report of a reference slot before an upgrade is processed after it, wherever
\* the upgrade falls in the cycle of a daemon (_check_compatibility).
THEOREM NoCrossing == Spec => NoReportAcrossUpgrade
<1>1. ASSUME BaseInv, QueueInv, [Next]_vars, main' # main, main' # NoReport
      PROVE  VersionAt(main'.ref) = VersionAt(slot)
<2>1. CASE ChainStep
  BY <1>1, <2>1 DEF ChainStep, NewSlot, Finalize, RemoveMember, contractVars
<2>2. ASSUME NEW d \in Daemon, DaemonStep(d) PROVE FALSE
  BY <1>1, <2>2 DEF DaemonStep, StartCycle, GetBlockstampForReport,
       CheckCompatibilityAndBuild, ProcessReportHash, ProcessReportData, SleepBeforeData,
       ProcessExtraData, SubmitExtraData, CheckTransaction, SendTransaction,
       HandleSentTransaction, Quiet, KeepsChain, contractVars
<2>3. ASSUME NEW d \in Daemon, Fault(d) PROVE FALSE
  BY <1>1, <2>3 DEF Fault, FailRequest, Restart, DropTransaction, KeepsChain, contractVars
<2>4. ASSUME NEW d \in Daemon, Mine(d) PROVE VersionAt(main'.ref) = VersionAt(slot)
<3>1. /\ main' = Head(mempool[d]).report
      /\ Accepts(d, Head(mempool[d])) /\ Head(mempool[d]).kind = "data"
      /\ mempool[d] # <<>>
  BY <1>1, <2>4, MineEffect, MineTypes DEF Vote, Deliver, DeliverExtra, contractVars
<3>2. Software[d] = VersionAt(slot)
  BY <3>1 DEF Accepts, CanDeliver
<3> QED
  BY <1>1, <3>1, <3>2 DEF QueueInv, QueueOf
<2>5. CASE UNCHANGED vars
  BY <1>1, <2>5 DEF vars
<2> QED
  BY <1>1, <2>1, <2>2, <2>3, <2>4, <2>5 DEF Next
<1>2. BaseInv /\ QueueInv /\ [Next]_vars
        => [main' # main /\ main' # NoReport => VersionAt(main'.ref) = VersionAt(slot)]_vars
  BY <1>1
<1> QED
  BY <1>2, BaseInvariant, QueueInvariant, PTL DEF Spec, NoReportAcrossUpgrade

-----------------------------------------------------------------------------
(* Skipped cycles have nothing to do *)

\* Nothing a fresh cycle of d from the present finalized slot could report.
Settled(d) ==
  \/ ~IsContractReportable
  \/ finalized < RefSlot
  \/ slot >= DeadlineAt(slot)
  \/ VersionAt(RefSlot) # Software[d]

\* A threshold lies below the finalized slot during a cycle; between cycles it may
\* have reached it only where there is nothing to do.
SkipOf(d) ==
  /\ pc[d] \notin {"idle", "dead"} => threshold[d] < finalized
  /\ pc[d] = "idle" /\ finalized <= threshold[d] /\ finalized > 0 => Settled(d)

SkipInv == \A d \in Daemon : SkipOf(d)

\* Whether there is something to report depends on the chain alone.
LEMMA SettledKept ==
  ASSUME ChainKept, NEW d \in Daemon, Settled(d)
  PROVE  Settled(d)'
  BY DEF ChainKept, Settled, IsContractReportable, CanSubmitExtraData, MainDataSubmitted,
         ExtraDataSubmitted, RefSlot, VersionAt

\* A daemon that raises its threshold has just seen that there is nothing to do, or
\* is of another version than the reference slot.
LEMMA SkipDaemonStep ==
  ASSUME BaseInv, NEW d \in Daemon, SkipInv, DaemonStep(d) \/ FailRequest(d) \/ Restart(d)
  PROVE  SkipInv'
<1>1. /\ pc \in [Daemon -> PCs] /\ threshold \in [Daemon -> Nat]
      /\ finalized \in Nat /\ fin[d] \in Nat /\ ref[d] \in Int
      /\ SkipOf(d) /\ CycleOf(d) /\ RefSlot \in Int
  BY HeadFacts DEF BaseInv, TypeOK, ChainTypeOK, SkipInv, CycleInv
<1>2. ChainKept /\ finalized' = finalized
  BY DEF DaemonStep, StartCycle, GetBlockstampForReport, CheckCompatibilityAndBuild,
       ProcessReportHash, ProcessReportData, SleepBeforeData, ProcessExtraData,
       SubmitExtraData, CheckTransaction, SendTransaction, HandleSentTransaction,
       FailRequest, Restart, Quiet, KeepsChain, chainVars, contractVars, ChainKept
<1>3. ASSUME NEW e \in Daemon, e # d PROVE SkipOf(e)'
<2>1. pc'[e] = pc[e] /\ threshold'[e] = threshold[e] /\ SkipOf(e)
  BY <1>3, OthersKeep DEF SkipInv
<2> QED
  BY <1>2, <2>1, SettledKept DEF SkipOf
<1>4. ASSUME pc[d] \notin {"idle", "dead"}, threshold' = threshold PROVE SkipOf(d)'
  BY <1>1, <1>2, <1>4 DEF SkipOf
<1>5. ASSUME EndCycle(d) \/ Die(d), pc[d] \notin {"idle", "dead"} PROVE SkipOf(d)'
  BY <1>4, <1>5 DEF EndCycle, Die
<1>6. ASSUME EndCycleUntilFinalized(d),
             pc[d] \notin {"idle", "dead"},
             fin[d] >= finalized => Settled(d)
      PROVE  SkipOf(d)'
<2>1. pc'[d] = "idle" /\ threshold'[d] = fin[d]
  BY <1>1, <1>6 DEF EndCycleUntilFinalized, Goto
<2> QED
  BY <1>1, <1>2, <1>6, <2>1, SettledKept DEF SkipOf
<1>7. CASE StartCycle(d)
<2>1. pc'[d] = "blockstamp" /\ threshold'[d] = threshold[d] /\ finalized > threshold[d]
  BY <1>1, <1>7 DEF StartCycle, Goto
<2> QED
  BY <1>1, <1>2, <1>3, <2>1 DEF SkipOf, SkipInv
<1>8. CASE GetBlockstampForReport(d)
<2>1. pc[d] \notin {"idle", "dead"}
  BY <1>8 DEF GetBlockstampForReport
<2>2. NothingToReport(d) /\ fin[d] >= finalized => Settled(d)
  BY <1>1 DEF NothingToReport, Settled
<2>3. SkipOf(d)'
  BY <1>4, <1>5, <1>6, <1>8, <2>1, <2>2 DEF GetBlockstampForReport
<2> QED
  BY <1>3, <2>3 DEF SkipInv
<1>9. CASE CheckCompatibilityAndBuild(d)
<2>1. pc[d] = "compat"
  BY <1>9 DEF CheckCompatibilityAndBuild
<2>2. VersionAt(ref[d]) # Software[d] /\ fin[d] >= finalized => Settled(d)
  BY <1>1, <2>1 DEF CycleOf, Settled
<2>3. VersionAt(ref[d]) < Software[d] => VersionAt(ref[d]) # Software[d]
  BY DaemonAssumption DEF VersionAt
<2>4. SkipOf(d)'
  BY <1>4, <1>5, <1>6, <1>9, <2>1, <2>2, <2>3
  DEF CheckCompatibilityAndBuild, VersionAtReference
<2> QED
  BY <1>3, <2>4 DEF SkipInv
<1>10. CASE \/ ProcessReportHash(d) \/ ProcessReportData(d) \/ SleepBeforeData(d)
            \/ ProcessExtraData(d) \/ SubmitExtraData(d)
<2>1. pc[d] \notin {"idle", "dead"}
  BY <1>10 DEF ProcessReportHash, ProcessReportData, SleepBeforeData, ProcessExtraData,
               SubmitExtraData
<2>2. threshold' = threshold
  BY <1>10 DEF ProcessReportHash, ProcessReportData, SleepBeforeData, ProcessExtraData,
               SubmitExtraData, Die, EndCycle, Locals
<2> QED
  BY <1>3, <1>4, <2>1, <2>2 DEF SkipInv
<1>11. CASE CheckTransaction(d) \/ SendTransaction(d) \/ HandleSentTransaction(d)
<2>1. pc[d] \notin {"idle", "dead"}
  BY <1>11 DEF CheckTransaction, SendTransaction, HandleSentTransaction
<2>2. threshold' = threshold
  BY <1>11 DEF CheckTransaction, SendTransaction, HandleSentTransaction, AfterTx, EndCycle, Locals
<2> QED
  BY <1>3, <1>4, <2>1, <2>2 DEF SkipInv
<1>12. CASE FailRequest(d)
<2>1. pc[d] \notin {"idle", "dead"} /\ EndCycle(d)
  BY <1>12 DEF FailRequest
<2> QED
  BY <1>3, <1>5, <2>1 DEF SkipInv
<1>13. CASE Restart(d)
<2>1. pc'[d] = "idle" /\ threshold'[d] = 0
  BY <1>1, <1>13 DEF Restart, Goto
<2> QED
  BY <1>1, <1>2, <1>3, <2>1 DEF SkipInv, SkipOf
<1> QED
  BY <1>7, <1>8, <1>9, <1>10, <1>11, <1>12, <1>13 DEF DaemonStep

\* What has been processed in a frame stays processed in it.
LEMMA SkipChainStep ==
  ASSUME BaseInv, SkipInv, ChainStep
  PROVE  SkipInv'
<1>1. UNCHANGED <<pc, threshold, mempool, faults>>
  BY DEF ChainStep, daemonVars
<1>2. SUFFICES ASSUME NEW d \in Daemon PROVE SkipOf(d)'
  BY DEF SkipInv
<1>3. /\ SkipOf(d) /\ CycleOf(d) /\ HeadAhead
      /\ slot \in Nat /\ finalized \in Nat /\ threshold[d] \in Nat
  BY DEF SkipInv, BaseInv, CycleInv, TypeOK, ChainTypeOK
<1>4. CASE NewSlot
<2>1. UNCHANGED <<finalized, upgrade>>
  BY <1>4, NewSlotFacts
<2>2. ASSUME Settled(d), finalized > 0 PROVE Settled(d)'
<3>1. CASE RefSlot' = RefSlot
<4>1. UNCHANGED <<main, extra>>
<5>1. RefSlotAt(slot + 1) = RefSlot
  BY <1>4, <3>1, NewSlotFacts DEF RefSlot
<5> QED
  BY <1>4, <5>1 DEF NewSlot
<4>2. slot >= DeadlineAt(slot) => (slot >= DeadlineAt(slot))'
<5>1. DeadlineAt(slot)' = DeadlineAt(slot) /\ slot' = slot + 1
  BY <1>4, <3>1, NewSlotFacts
<5>2. DeadlineAt(slot) \in Int
  BY <1>3, FrameAtFacts
<5> QED
  BY <1>3, <5>1, <5>2
<4> QED
  BY <2>1, <2>2, <3>1, <4>1, <4>2
  DEF Settled, IsContractReportable, CanSubmitExtraData, MainDataSubmitted,
      ExtraDataSubmitted, VersionAt
<3>2. CASE RefSlot' = slot
  BY <1>3, <2>1, <2>2, <3>2 DEF HeadAhead, Settled
<3> QED
  BY <1>4, <3>1, <3>2, NewSlotFacts
<2> QED
  BY <1>1, <1>3, <2>1, <2>2 DEF SkipOf
<1>5. CASE Finalize /\ UNCHANGED <<daemonVars, mempool, faults>>
<2>1. finalized' > finalized /\ finalized' \in Nat
  BY <1>5, FinalizeStep DEF BaseInv, TypeOK, ChainTypeOK
<2> QED
  BY <1>1, <1>3, <2>1 DEF SkipOf, CycleOf
<1>6. CASE RemoveMember
  BY <1>1, <1>3, <1>6
  DEF RemoveMember, chainVars, SkipOf, Settled, IsContractReportable, CanSubmitExtraData,
      MainDataSubmitted, ExtraDataSubmitted, RefSlot, VersionAt
<1> QED
  BY <1>4, <1>5, <1>6 DEF ChainStep

\* A mined transaction leaves nothing to do where there was nothing to do.
LEMMA SkipMineStep ==
  ASSUME BaseInv, SkipInv, NEW d \in Daemon, Mine(d)
  PROVE  SkipInv'
<1>1. UNCHANGED <<slot, finalized, upgrade, pc, threshold>>
  BY MineTypes
<1>2. ~IsContractReportable => UNCHANGED <<main, extra>>
<2>1. SUFFICES ASSUME ~IsContractReportable PROVE UNCHANGED <<main, extra>>
  OBVIOUS
<2>2. main # NoReport /\ extra = Len(ExtraList[main.v])
  BY <2>1 DEF IsContractReportable, CanSubmitExtraData, MainDataSubmitted, ExtraDataSubmitted
<2>3. main \in Report /\ Len(ExtraList[main.v]) \in Nat /\ Head(mempool[d]) \in Tx
<3>1. main \in Report
  BY <2>2 DEF BaseInv, TypeOK, ChainTypeOK
<3> QED
  BY <3>1, ConsensusAssumption, MineTypes DEF Report
<2>4. CASE Vote(Sender[d], Head(mempool[d]).report) \/ UNCHANGED contractVars
  BY <2>4 DEF Vote, contractVars
<2>5. ASSUME Head(mempool[d]).kind = "data" PROVE ~Accepts(d, Head(mempool[d]))
  BY <2>2, <2>5 DEF Accepts, CanDeliver
<2>6. ASSUME Head(mempool[d]).kind = "extra" PROVE ~Accepts(d, Head(mempool[d]))
<3>1. ~(extra < Len(ExtraList[main.v]))
  BY <2>2, <2>3
<3> HIDE DEF PCs, Working
<3> QED
  BY <2>6, <3>1 DEF Accepts, CanDeliverExtra
<2> QED
  BY <2>4, <2>5, <2>6, MineTypes DEF Mine
<1>3. ASSUME NEW e \in Daemon PROVE SkipOf(e)'
<2>1. SkipOf(e)
  BY DEF SkipInv
<2>2. Settled(e) => Settled(e)'
  BY <1>1, <1>2 DEF Settled, IsContractReportable, CanSubmitExtraData, MainDataSubmitted,
                    ExtraDataSubmitted, RefSlot, VersionAt
<2> QED
  BY <1>1, <2>1, <2>2 DEF SkipOf
<1> QED
  BY <1>3 DEF SkipInv

\* Every step keeps the skipped cycles harmless.
LEMMA SkipStep == BaseInv /\ SkipInv /\ [Next]_vars => SkipInv'
<1> SUFFICES ASSUME BaseInv, SkipInv, [Next]_vars PROVE SkipInv'
  OBVIOUS
<1>1. CASE UNCHANGED vars \/ \E d \in Daemon : DropTransaction(d)
<2>1. ChainKept /\ UNCHANGED <<pc, threshold>>
  BY <1>1 DEF vars, DropTransaction, KeepsChain, chainVars, contractVars, daemonVars, ChainKept
<2> QED
  BY <2>1, SettledKept DEF SkipInv, SkipOf, ChainKept
<1> QED
  BY <1>1, SkipDaemonStep, SkipChainStep, SkipMineStep DEF Next, Fault

\* However the frames, the finality delays, upgrades and submissions fall, the
\* cycles that _slot_threshold makes a daemon skip had nothing to do: waiting for
\* ModuleExecuteDelay.NEXT_FINALIZED_EPOCH loses no report.
THEOREM SkippedCyclesHarmless == Spec => []SkipIsHarmless
<1>1. Init => SkipInv
  BY DEF Init, ChainInit, SkipInv, SkipOf
<1>2. SkipInv => SkipIsHarmless
  BY DEF SkipInv, SkipOf, Settled, SkipIsHarmless
<1> QED
  BY <1>1, <1>2, SkipStep, BaseInvariant, PTL DEF Spec

-----------------------------------------------------------------------------
(* The rotation of data submitters *)

\* Turns counted round a table of n seats from the current one.
LEMMA TurnBounds ==
  ASSUME NEW n \in Nat, NEW i \in 0..(n - 1), NEW j \in 0..(n - 1), NEW c \in 0..(n - 1)
  PROVE  /\ SleepCount(i, c, n) \in 0..(n - 1)
         /\ SleepCount(i, c, n) = SleepCount(j, c, n) => i = j
  BY DEF SleepCount

\* Different positions in the rotation give different delays within one round.
LEMMA DelayBounds ==
  ASSUME NEW D \in Nat \ {0}, NEW n \in Nat, NEW x \in 0..(n - 1), NEW y \in 0..(n - 1)
  PROVE  /\ (1 + x) * D \in D..(D * n)
         /\ (1 + x) * D = (1 + y) * D => x = y
<1>1. 1 * D <= (1 + x) * D /\ (1 + x) * D <= n * D
  BY MulMono
<1>2. x < y => (1 + x) * D < (1 + y) * D
<2>1. SUFFICES ASSUME x < y PROVE (1 + x) * D < (1 + y) * D
  OBVIOUS
<2>2. (1 + x + 1) * D <= (1 + y) * D
  BY <2>1, MulMono
<2> QED
  BY <2>2
<1>3. y < x => (1 + y) * D < (1 + x) * D
<2>1. SUFFICES ASSUME y < x PROVE (1 + y) * D < (1 + x) * D
  OBVIOUS
<2>2. (1 + y + 1) * D <= (1 + x) * D
  BY <2>1, MulMono
<2> QED
  BY <2>2
<1> QED
  BY <1>1, <1>2, <1>3

\* In every reachable state the members that wait before sending data wait for
\* different times of at most one round, for every committee and frame
\* configuration (_get_slot_delay_before_data_submit).
THEOREM RotationIsDistinct == Spec => []TurnsAreDistinct
<1>1. BaseInv => TurnsAreDistinct
<2> SUFFICES ASSUME BaseInv, DelayInSlots > 0,
                    NEW d \in Daemon, IsReportMember(d), ~IsSubmitMember(d),
                    NEW e \in Daemon, IsReportMember(e), ~IsSubmitMember(e)
             PROVE  /\ SlotDelay(d) \in DelayInSlots..(DelayInSlots * Len(members))
                    /\ SlotDelay(d) = SlotDelay(e) => Account[d] = Account[e]
  BY DEF TurnsAreDistinct
<2> DEFINE n == Len(members)
           c == get_frame_by_slot(slot) % n
<2>1. /\ members \in Seq(Address) /\ n \in Nat /\ slot \in Nat
      /\ DelayInSlots \in Nat \ {0}
  BY DaemonAssumption DEF BaseInv, TypeOK, ChainTypeOK
<2>2. ASSUME NEW b \in Daemon, IsReportMember(b)
      PROVE  IndexOf(Account[b]) \in 0..(n - 1) /\ members[IndexOf(Account[b]) + 1] = Account[b]
<3>1. PICK j \in 1..n : members[j] = Account[b]
  BY <2>2 DEF IsReportMember, Member
<3> DEFINE k == CHOOSE i \in 1..n : members[i] = Account[b]
<3>2. k \in 1..n /\ members[k] = Account[b]
  BY <3>1
<3>3. IndexOf(Account[b]) = k - 1
  BY DEF IndexOf
<3> HIDE DEF k
<3> QED
  BY <2>1, <3>2, <3>3
<2>3. c \in 0..(n - 1)
<3>1. get_frame_by_slot(slot) \in Int
  BY <2>1, FrameBounds
<3>2. n \in Nat \ {0}
  BY <2>1, <2>2
<3> HIDE DEF n
<3> QED
  BY <3>1, <3>2, ModRange
<2>4. /\ SlotDelay(d) = (1 + SleepCount(IndexOf(Account[d]), c, n)) * DelayInSlots
      /\ SlotDelay(e) = (1 + SleepCount(IndexOf(Account[e]), c, n)) * DelayInSlots
  BY DEF SlotDelay
<2> HIDE DEF n, c
<2>5. /\ SleepCount(IndexOf(Account[d]), c, n) \in 0..(n - 1)
      /\ SleepCount(IndexOf(Account[e]), c, n) \in 0..(n - 1)
      /\ SleepCount(IndexOf(Account[d]), c, n) = SleepCount(IndexOf(Account[e]), c, n)
           => IndexOf(Account[d]) = IndexOf(Account[e])
  BY <2>1, <2>2, <2>3, TurnBounds
<2> DEFINE x == SleepCount(IndexOf(Account[d]), c, n)
           y == SleepCount(IndexOf(Account[e]), c, n)
<2>6. /\ SlotDelay(d) \in DelayInSlots..(DelayInSlots * n)
      /\ SlotDelay(d) = SlotDelay(e) => x = y
<3>1. /\ x \in 0..(n - 1) /\ y \in 0..(n - 1)
      /\ SlotDelay(d) = (1 + x) * DelayInSlots /\ SlotDelay(e) = (1 + y) * DelayInSlots
      /\ n \in Nat /\ DelayInSlots \in Nat \ {0}
  BY <2>1, <2>4, <2>5
<3> HIDE DEF x, y
<3>2. /\ (1 + x) * DelayInSlots \in DelayInSlots..(DelayInSlots * n)
      /\ (1 + x) * DelayInSlots = (1 + y) * DelayInSlots => x = y
  BY ONLY <3>1, DelayBounds, Zenon
<3> QED
  BY ONLY <3>1, <3>2, Zenon
<2> QED
  BY <2>2, <2>5, <2>6 DEF n
<1> QED
  BY <1>1, BaseInvariant, PTL

-----------------------------------------------------------------------------
(* A vote does not change *)

\* What a daemon's own step does to what it works on.
LEMMA OwnStep ==
  ASSUME BaseInv, NEW d \in Daemon, DaemonStep(d)
  PROVE  \/ pc'[d] \notin Working \union {"compat"} /\ built'[d] = built[d]
         \/ /\ ref'[d] = RefSlot /\ fin'[d] = fin[d] /\ RefSlot <= fin[d]
            /\ built'[d] = built[d]
         \/ /\ pc[d] = "compat" /\ pc'[d] \in Working
            /\ ref'[d] = ref[d] /\ fin'[d] = fin[d]
            /\ built'[d] \in Report /\ built'[d].ref = ref[d] /\ built'[d].v \in Builds[d]
            /\ built[d] # NoReport /\ built[d].ref = ref[d] => built'[d] = built[d]
         \/ /\ pc[d] \in Working /\ pc'[d] \in Working
            /\ ref'[d] = ref[d] /\ fin'[d] = fin[d] /\ built'[d] = built[d]
<1> DEFINE Ended == pc'[d] \notin Working \union {"compat"} /\ built'[d] = built[d]
           Goes == /\ pc[d] \in Working /\ pc'[d] \in Working
                   /\ ref'[d] = ref[d] /\ fin'[d] = fin[d] /\ built'[d] = built[d]
<1>1. /\ pc \in [Daemon -> PCs] /\ ref \in [Daemon -> Int] /\ fin \in [Daemon -> Nat]
      /\ built \in [Daemon -> Report \union {NoReport}]
  BY DEF BaseInv, TypeOK
<1>2. ASSUME EndCycle(d) \/ EndCycleUntilFinalized(d) \/ Die(d) PROVE Ended
  BY <1>1, <1>2 DEF EndCycle, EndCycleUntilFinalized, Die, Goto
<1>3. CASE StartCycle(d)
  BY <1>1, <1>3 DEF StartCycle, Goto
<1>4. CASE GetBlockstampForReport(d)
<2>1. CASE ~NothingToReport(d) /\ Recognised(d)
<3>1. ~(fin[d] < RefSlot) /\ RefSlot \in Int /\ fin[d] \in Nat
  BY <1>1, <2>1, HeadFacts DEF NothingToReport, BaseInv
<3> QED
  BY <1>1, <1>4, <2>1, <3>1 DEF GetBlockstampForReport, Goto
<2>2. CASE NothingToReport(d) \/ ~Recognised(d)
  BY <1>2, <1>4, <2>2 DEF GetBlockstampForReport
<2> QED
  BY <2>1, <2>2
<1>5. CASE CheckCompatibilityAndBuild(d)
<2>1. CASE EndCycle(d) \/ EndCycleUntilFinalized(d) \/ Die(d)
  BY <1>2, <2>1
<2>2. CASE ~(EndCycle(d) \/ EndCycleUntilFinalized(d) \/ Die(d))
<3>1. /\ pc[d] = "compat" /\ UNCHANGED <<fin, ref>>
      /\ \E r \in [ref : {ref[d]}, v : Builds[d]] : BuildReport(d, r)
      /\ pc'[d] \in Working
  BY <1>1, <1>5, <2>2 DEF CheckCompatibilityAndBuild, Goto
<3>2. PICK r \in [ref : {ref[d]}, v : Builds[d]] :
        /\ built'[d] = r
        /\ built[d] # NoReport /\ built[d].ref = ref[d] => r = built[d]
  BY <1>1, <3>1 DEF BuildReport
<3>3. r \in Report
  BY <1>1, DaemonAssumption DEF Report
<3> QED
  BY <3>1, <3>2, <3>3
<2> QED
  BY <2>1, <2>2
<1>6. CASE ProcessReportHash(d) \/ ProcessReportData(d)
<2>1. CASE EndCycle(d) \/ EndCycleUntilFinalized(d) \/ Die(d)
  BY <1>2, <2>1
<2>2. CASE ~(EndCycle(d) \/ EndCycleUntilFinalized(d) \/ Die(d))
  BY <1>1, <1>6, <2>2 DEF ProcessReportHash, ProcessReportData, Locals, Goto, GotoSend
<2> QED
  BY <2>1, <2>2
<1>7. CASE SleepBeforeData(d) \/ ProcessExtraData(d) \/ SubmitExtraData(d)
<2>1. CASE EndCycle(d) \/ EndCycleUntilFinalized(d) \/ Die(d)
  BY <1>2, <2>1
<2>2. CASE ~(EndCycle(d) \/ EndCycleUntilFinalized(d) \/ Die(d))
  BY <1>1, <1>7, <2>2 DEF SleepBeforeData, ProcessExtraData, SubmitExtraData, Goto, GotoSend
<2> QED
  BY <2>1, <2>2
<1>8. ASSUME AfterTx(d) PROVE Ended \/ (UNCHANGED <<ref, fin, built>> /\ pc'[d] \in Working)
<2>1. CASE EndCycle(d)
  BY <1>2, <2>1
<2>2. CASE ~EndCycle(d)
  BY <1>1, <1>8, <2>2 DEF AfterTx, Goto
<2> QED
  BY <2>1, <2>2
<1>9. CASE CheckTransaction(d) \/ HandleSentTransaction(d)
  BY <1>1, <1>8, <1>9 DEF CheckTransaction, HandleSentTransaction, Goto
<1>10. CASE SendTransaction(d)
  BY <1>1, <1>2, <1>10 DEF SendTransaction, Locals, Goto
<1> QED
  BY <1>3, <1>4, <1>5, <1>6, <1>7, <1>9, <1>10 DEF DaemonStep

\* A step of a daemon, which reads the chain and leaves it as it is.
LEMMA DaemonStepKeeps ==
  ASSUME NEW d \in Daemon, DaemonStep(d) \/ Fault(d)
  PROVE  UNCHANGED <<chainVars, contractVars>>
  BY DEF DaemonStep, StartCycle, GetBlockstampForReport, CheckCompatibilityAndBuild,
     ProcessReportHash, ProcessReportData, SleepBeforeData, ProcessExtraData,
     SubmitExtraData, CheckTransaction, SendTransaction, HandleSentTransaction,
     Fault, FailRequest, Restart, DropTransaction, Quiet, KeepsChain

\* What a daemon sends is what it has built.
LEMMA OwnMempool ==
  ASSUME BaseInv, NEW d \in Daemon, DaemonStep(d)
  PROVE  \/ mempool' = mempool
         \/ /\ Head(mempool'[d]).report = built[d] /\ pc[d] \in Working
            /\ built' = built
<1>1. CASE SendTransaction(d) /\ ~EndCycle(d)
<2>1. pc[d] \in Working
  BY <1>1 DEF SendTransaction
<2>2. Head(mempool'[d]) = TxOf(d) /\ built' = built
  BY <1>1, BroadcastQueue
<2> QED
  BY <2>1, <2>2 DEF TxOf
<1>2. CASE SendTransaction(d) /\ EndCycle(d)
<2>1. pc'[d] # "wait"
  BY <1>2 DEF EndCycle, Goto, BaseInv, TypeOK
<2> QED
  BY <1>2, <2>1 DEF SendTransaction, Goto, BaseInv, TypeOK
<1>3. CASE ~SendTransaction(d)
  BY <1>3 DEF DaemonStep, StartCycle, GetBlockstampForReport,
     CheckCompatibilityAndBuild, ProcessReportHash, ProcessReportData, SleepBeforeData,
     ProcessExtraData, SubmitExtraData, CheckTransaction, HandleSentTransaction, Quiet
<1> QED
  BY <1>1, <1>2, <1>3

\* d holds r in its cache, or has moved on to a later reference slot.
MovedOn(d, r) == built[d] # NoReport /\ (r = built[d] \/ r.ref < built[d].ref)

\* The cache is of the newest reference slot d has built for; whatever else it has sent, and
\* the contract has recorded, is the same report or an older one, and a recorded vote is of
\* the current frame.
StableOf(d) ==
  /\ built[d] # NoReport => built[d].ref <= RefSlot
  /\ pc[d] = "compat" /\ built[d] # NoReport => built[d].ref <= ref[d]
  /\ mempool[d] # <<>> => MovedOn(d, Head(mempool[d]).report)
  /\ votes[Sender[d]] # NoReport =>
       MovedOn(d, votes[Sender[d]]) /\ votes[Sender[d]].ref = RefSlot

StableInv == faults = 0 => \A d \in Daemon : StableOf(d)

\* Reports and their reference slots.
LEMMA HeldTypes ==
  ASSUME BaseInv, NEW d \in Daemon
  PROVE  /\ RefSlot \in Int /\ ref[d] \in Int /\ NoReport \notin Report
         /\ built[d] # NoReport => built[d].ref \in Int
         /\ mempool[d] # <<>> => Head(mempool[d]).report.ref \in Int
         /\ votes[Sender[d]] # NoReport => votes[Sender[d]].ref \in Int
<1>1. RefSlot \in Int /\ ref[d] \in Int /\ NoReport \notin Report
  BY HeadFacts, ConsensusAssumption DEF BaseInv, TypeOK, Report
<1>2. built[d] # NoReport => built[d].ref \in Int
  BY DEF BaseInv, TypeOK, Report
<1>3. mempool[d] # <<>> => Head(mempool[d]) \in Tx
  BY DEF BaseInv, TypeOK
<1>4. votes[Sender[d]] # NoReport => votes[Sender[d]].ref \in Int
  BY DaemonAssumption DEF BaseInv, TypeOK, ChainTypeOK, Report
<1> QED
  BY <1>1, <1>2, <1>3, <1>4 DEF Tx, Report

\* What makes no new report and no new vote, with the head in the frame or past it.
LEMMA StableKept ==
  ASSUME BaseInv, NEW d \in Daemon, StableOf(d),
         RefSlot' \in Int, RefSlot' >= RefSlot,
         built'[d] = built[d],
         mempool'[d] = mempool[d] \/ mempool'[d] = <<>>,
         \/ votes'[Sender[d]] = NoReport
         \/ votes'[Sender[d]] = votes[Sender[d]] /\ RefSlot' = RefSlot,
         pc'[d] # "compat" \/ (pc'[d] = pc[d] /\ ref'[d] = ref[d])
  PROVE  StableOf(d)'
<1>1. \A r : MovedOn(d, r) => MovedOn(d, r)'
  BY DEF MovedOn
<1>2. built'[d] # NoReport => built'[d].ref <= RefSlot'
  BY HeldTypes DEF StableOf
<1> QED
  BY <1>1, <1>2 DEF StableOf

\* A new report is of another reference slot, and that of a cycle is not before the last
\* one built for (build_report, get_blockstamp_for_report).
LEMMA StableDaemonStep ==
  ASSUME BaseInv, NEW d \in Daemon, DaemonStep(d), StableOf(d)
  PROVE  StableOf(d)'
<1>1. /\ votes' = votes /\ RefSlot' = RefSlot
      /\ RefSlot \in Int /\ ref[d] \in Int
      /\ built[d] # NoReport => built[d].ref \in Int
  BY DaemonStepKeeps, HeldTypes DEF chainVars, contractVars, RefSlot
<1>2. built'[d] # NoReport => built'[d].ref <= RefSlot
<2>1. pc[d] = "compat" => ref[d] <= RefSlot
  BY DEF BaseInv, CycleInv, CycleOf
<2> QED
  BY <1>1, <2>1, OwnStep DEF StableOf
<1>3. pc'[d] = "compat" /\ built'[d] # NoReport => built'[d].ref <= ref'[d]
<2>1. pc'[d] = "compat" => ref'[d] = RefSlot /\ built'[d] = built[d]
  BY <1>1, OwnStep
<2> QED
  BY <1>1, <2>1 DEF StableOf
<1>4. \A r : MovedOn(d, r) /\ r.ref \in Int =>
              built'[d] # NoReport /\ (r = built'[d] \/ r.ref < built'[d].ref)
<2>1. CASE built'[d] = built[d]
  BY <2>1 DEF MovedOn
<2>2. CASE /\ pc[d] = "compat" /\ built'[d] \in Report /\ built'[d].ref = ref[d]
           /\ built[d] # NoReport /\ built[d].ref = ref[d] => built'[d] = built[d]
<3>1. CASE built[d] = NoReport
  BY <3>1 DEF MovedOn
<3>2. CASE built[d] # NoReport
<4>1. built[d].ref <= ref[d]
  BY <2>2, <3>2 DEF StableOf
<4>2. built[d].ref = ref[d] => built'[d] = built[d]
  BY <2>2, <3>2
<4>3. CASE built[d].ref < ref[d]
  BY <1>1, <2>2, <3>2, <4>3, HeldTypes DEF MovedOn
<4> QED
  BY <1>1, <2>1, <3>2, <4>1, <4>2, <4>3
<3> QED
  BY <3>1, <3>2
<2> QED
  BY <2>1, <2>2, OwnStep
<1>5. (mempool[d] # <<>> => MovedOn(d, Head(mempool[d]).report))'
<2>1. CASE mempool' = mempool
  BY <1>4, <2>1, HeldTypes DEF StableOf, MovedOn
<2>2. CASE mempool' # mempool
<3>1. Head(mempool'[d]).report = built[d] /\ built' = built /\ built[d] # NoReport
  BY <2>2, OwnMempool, HeldTypes DEF BaseInv, CycleInv, CycleOf
<3> QED
  BY <3>1 DEF MovedOn
<2> QED
  BY <2>1, <2>2
<1>6. (votes[Sender[d]] # NoReport =>
         MovedOn(d, votes[Sender[d]]) /\ votes[Sender[d]].ref = RefSlot)'
  BY <1>1, <1>4, HeldTypes DEF StableOf, MovedOn
<1> QED
  BY <1>1, <1>2, <1>3, <1>5, <1>6 DEF StableOf

\* A step of one daemon leaves what the others hold alone.
LEMMA StableOthers ==
  ASSUME BaseInv, NEW d \in Daemon, DaemonStep(d), NEW e \in Daemon, e # d, StableOf(e)
  PROVE  StableOf(e)'
<1>1. votes' = votes /\ RefSlot' = RefSlot /\ RefSlot \in Int
  BY DaemonStepKeeps, HeldTypes DEF chainVars, contractVars, RefSlot
<1>2. mempool'[e] = mempool[e]
  BY DEF BaseInv, TypeOK, DaemonStep, StartCycle, GetBlockstampForReport,
     CheckCompatibilityAndBuild, ProcessReportHash, ProcessReportData, SleepBeforeData,
     ProcessExtraData, SubmitExtraData, CheckTransaction, SendTransaction,
     HandleSentTransaction, Quiet
<1> QED
  BY <1>1, <1>2, OthersKeep, StableKept

\* A mined vote is for the current frame and the sender's.
LEMMA VoteEffect ==
  ASSUME BaseInv, NEW d \in Daemon, Mine(d),
         Accepts(d, Head(mempool[d])), Head(mempool[d]).kind = "hash",
         Vote(Sender[d], Head(mempool[d]).report)
  PROVE  /\ mempool[d] # <<>> /\ Head(mempool[d]).report.ref = RefSlot
         /\ votes'[Sender[d]] = Head(mempool[d]).report
         /\ \A e \in Daemon : e # d => votes'[Sender[e]] = votes[Sender[e]]
<1>1. mempool[d] # <<>> /\ Head(mempool[d]).report.ref = RefSlot
  BY DEF Mine, Accepts, CanVote
<1>2. /\ votes' = [votes EXCEPT ![Sender[d]] = Head(mempool[d]).report]
      /\ votes \in [Address -> Report \union {NoReport}] /\ Sender[d] \in Address
  BY DaemonAssumption DEF Vote, BaseInv, TypeOK, ChainTypeOK
<1>3. \A e \in Daemon : e # d => Sender[e] # Sender[d] /\ Sender[e] \in Address
  BY DaemonAssumption
<1> QED
  BY <1>1, <1>2, <1>3

\* What is mined was held by its sender.
LEMMA StableMine ==
  ASSUME BaseInv, QueueInv, NEW d \in Daemon, Mine(d), NEW e \in Daemon,
         StableOf(d), StableOf(e)
  PROVE  StableOf(e)'
<1>1. /\ RefSlot' = RefSlot /\ RefSlot \in Int
      /\ UNCHANGED <<pc, ref, built>>
  BY HeldTypes DEF Mine, chainVars, RefSlot
<1>2. mempool'[e] = mempool[e] \/ mempool'[e] = <<>>
<2>1. mempool' = [mempool EXCEPT ![d] = Tail(@)] /\ mempool[d] # <<>>
      /\ mempool \in [Daemon -> Seq(Tx)]
  BY DEF Mine, BaseInv, TypeOK
<2>2. Tail(mempool[d]) = <<>>
  BY <2>1, SingletonTail DEF QueueInv, QueueOf
<2> QED
  BY <2>1, <2>2
<1>3. CASE votes' = votes \/ votes'[Sender[e]] = votes[Sender[e]]
  BY <1>1, <1>2, <1>3, StableKept
<1>4. CASE /\ Vote(Sender[d], Head(mempool[d]).report) /\ e = d
           /\ Accepts(d, Head(mempool[d])) /\ Head(mempool[d]).kind = "hash"
<2>1. /\ mempool[d] # <<>> /\ Head(mempool[d]).report.ref = RefSlot
      /\ votes'[Sender[d]] = Head(mempool[d]).report
  BY <1>4, VoteEffect
<2>2. mempool'[d] = <<>>
<3>1. mempool' = [mempool EXCEPT ![d] = Tail(@)] /\ mempool \in [Daemon -> Seq(Tx)]
  BY DEF Mine, BaseInv, TypeOK
<3> QED
  BY <2>1, <3>1, SingletonTail DEF QueueInv, QueueOf
<2>3. MovedOn(d, Head(mempool[d]).report)
  BY <2>1 DEF StableOf
<2> QED
  BY <1>1, <1>4, <2>1, <2>2, <2>3 DEF StableOf, MovedOn
<1>5. CASE UNCHANGED contractVars \/ Deliver(Head(mempool[d]).report) \/ DeliverExtra
  BY <1>3, <1>5 DEF contractVars, Deliver, DeliverExtra
<1> QED
  BY <1>3, <1>4, <1>5, MineEffect, VoteEffect

\* The chain and the DAO only take votes away.
LEMMA StableChain ==
  ASSUME BaseInv, ChainStep, NEW d \in Daemon, StableOf(d)
  PROVE  StableOf(d)'
<1>1. UNCHANGED <<pc, ref, built, mempool>> /\ RefSlot \in Int /\ Sender[d] \in Address
  BY HeldTypes, DaemonAssumption DEF ChainStep, daemonVars
<1>2. CASE NewSlot
<2>1. RefSlot' \in Int /\ RefSlot' >= RefSlot /\ RefSlot' = RefSlotAt(slot + 1)
  BY <1>2, NewSlotFacts DEF RefSlot
<2>2. votes'[Sender[d]] = NoReport \/ (votes' = votes /\ RefSlot' = RefSlot)
  BY <1>1, <1>2, <2>1 DEF NewSlot
<2> QED
  BY <1>1, <2>1, <2>2, StableKept
<1>3. CASE Finalize
<2>1. votes' = votes /\ RefSlot' = RefSlot
  BY <1>3 DEF Finalize, contractVars, RefSlot
<2> QED
  BY <1>1, <2>1, StableKept
<1>4. CASE RemoveMember /\ UNCHANGED <<daemonVars, mempool, faults>>
<2>1. RefSlot' = RefSlot
  BY <1>4 DEF RemoveMember, chainVars, RefSlot
<2>2. votes'[Sender[d]] = votes[Sender[d]] \/ votes'[Sender[d]] = NoReport
  BY <1>1, <1>4, RemoveMemberStep
<2> QED
  BY <1>1, <2>1, <2>2, StableKept
<1> QED
  BY <1>2, <1>3, <1>4 DEF ChainStep

LEMMA StableStep == BaseInv /\ QueueInv /\ StableInv /\ [Next]_vars => StableInv'
<1> SUFFICES ASSUME BaseInv, QueueInv, StableInv, [Next]_vars, faults' = 0,
                    NEW e \in Daemon
             PROVE  StableOf(e)'
  BY DEF StableInv
<1>1. /\ \A d \in Daemon : ~Fault(d)
      /\ faults = 0
<2>1. faults \in Nat
  BY DEF BaseInv, TypeOK
<2>2. \A d \in Daemon : ~Fault(d)
  BY <2>1 DEF Fault, FailRequest, Restart, DropTransaction
<2>3. \A d \in Daemon : DaemonStep(d) \/ Mine(d) => faults' = faults
  BY DEF DaemonStep, StartCycle, GetBlockstampForReport, CheckCompatibilityAndBuild,
     ProcessReportHash, ProcessReportData, SleepBeforeData, ProcessExtraData,
     SubmitExtraData, CheckTransaction, SendTransaction, HandleSentTransaction, Quiet, Mine
<2> QED
  BY <2>2, <2>3 DEF Next, ChainStep, vars
<1>2. \A d \in Daemon : StableOf(d)
  BY <1>1 DEF StableInv
<1>3. ASSUME NEW d \in Daemon, DaemonStep(d) PROVE StableOf(e)'
  BY <1>2, <1>3, StableDaemonStep, StableOthers
<1>4. ASSUME NEW d \in Daemon, Mine(d) PROVE StableOf(e)'
  BY <1>2, <1>4, StableMine
<1>5. CASE ChainStep
  BY <1>2, <1>5, StableChain
<1>6. CASE UNCHANGED vars
<2>1. RefSlot' = RefSlot /\ RefSlot \in Int
  BY <1>6, HeldTypes DEF vars, RefSlot
<2> QED
  BY <1>2, <1>6, <2>1, StableKept DEF vars
<1> QED
  BY <1>1, <1>3, <1>4, <1>5, <1>6 DEF Next

LEMMA StableInit == Init => StableInv
  BY DaemonAssumption DEF Init, ChainInit, StableInv, StableOf

\* The vote that changes is one its sender has mined: it is the report of the cache, as the
\* one before was.
LEMMA StableVote ==
  BaseInv /\ StableInv /\ [Next]_vars =>
    [\A d \in Daemon :
       /\ votes[Sender[d]] # NoReport
       /\ votes'[Sender[d]] \notin {votes[Sender[d]], NoReport}
       /\ RefSlotAt(slot') = RefSlot
       => faults > 0]_vars
<1> SUFFICES ASSUME BaseInv, StableInv, [Next]_vars, NEW d \in Daemon, faults = 0,
                    votes[Sender[d]] # NoReport, votes'[Sender[d]] # votes[Sender[d]],
                    votes'[Sender[d]] # NoReport
             PROVE  FALSE
  BY DEF BaseInv, TypeOK
<1>1. StableOf(d) /\ Sender[d] \in Address
  BY DaemonAssumption DEF StableInv
<1>2. CASE ChainStep
  BY <1>1, <1>2, RemoveMemberStep DEF ChainStep, NewSlot, Finalize, contractVars
<1>3. ASSUME NEW e \in Daemon, DaemonStep(e) \/ Fault(e) PROVE FALSE
  BY <1>3, DaemonStepKeeps DEF contractVars
<1>4. ASSUME NEW e \in Daemon, Mine(e) PROVE FALSE
<2>1. /\ Vote(Sender[e], Head(mempool[e]).report)
      /\ Accepts(e, Head(mempool[e])) /\ Head(mempool[e]).kind = "hash"
  BY <1>4, MineEffect DEF contractVars, Deliver, DeliverExtra
<2>2. e = d
  BY <1>4, <2>1, VoteEffect
<2>3. /\ mempool[d] # <<>> /\ Head(mempool[d]).report.ref = RefSlot
      /\ votes'[Sender[d]] = Head(mempool[d]).report
  BY <1>4, <2>1, <2>2, VoteEffect
<2> QED
  BY <1>1, <2>3, HeldTypes DEF StableOf, MovedOn
<1>5. CASE UNCHANGED vars
  BY <1>5 DEF vars
<1> QED
  BY <1>2, <1>3, <1>4, <1>5 DEF Next

\* As long as nothing fails, no member changes its vote within a frame, however its cycles
\* lie between those of the others and its transactions are delayed: build_report is
\* cached, and what was built for an older reference slot is refused.
THEOREM VotesAreStable == Spec => VoteIsStable
  BY StableInit, StableStep, StableVote, BaseInvariant, QueueInvariant, PTL
  DEF Spec, VoteIsStable

=============================================================================

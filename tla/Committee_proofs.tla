-------------------------- MODULE Committee_proofs --------------------------
(***************************************************************************)
(* The committee of OracleReport keeps the promise of Committee, for every *)
(* committee, quorum, frame configuration, upgrade and number of faults.   *)
(***************************************************************************)
EXTENDS OracleReport_proofs

-----------------------------------------------------------------------------
(* The inductive invariant *)

\* A report that d could have computed, for a reference slot that is final.
FinalReportOf(d, r) == r.v \in Builds[d] /\ r.ref <= finalized

\* Wherever a report of a daemon is held, in its cache or in the mempool, the
\* reference slot was final when it was built: the cycle began from a finalized
\* slot that had reached it (get_blockstamp_for_report).
AuthorOf(d) ==
  /\ pc[d] \in Working \union {"compat"} => ref[d] <= fin[d]
  /\ built[d] # NoReport => FinalReportOf(d, built[d])
  /\ mempool[d] # <<>> => FinalReportOf(d, Head(mempool[d]).report)

\* Votes are opinions of those who cast them.
VotesAreOpinions ==
  \A a \in Address : votes[a] # NoReport => votes[a].v \in Opinion[a]

AuthorInv == (\A d \in Daemon : AuthorOf(d)) /\ VotesAreOpinions

-----------------------------------------------------------------------------
(* Steps of the daemons *)

USE DEF PCs, Working

\* What d holds of its own making stays so while finality grows.
LEMMA AuthorKept ==
  ASSUME BaseInv, NEW d \in Daemon, AuthorOf(d),
         finalized' \in Nat, finalized' >= finalized,
         mempool'[d] = mempool[d] \/ mempool'[d] = <<>>,
         built'[d] = built[d] \/ built'[d] = NoReport,
         \/ pc'[d] \notin Working \union {"compat"}
         \/ pc'[d] = pc[d] /\ ref'[d] = ref[d] /\ fin'[d] = fin[d]
  PROVE  AuthorOf(d)'
<1>1. finalized \in Nat /\ mempool[d] \in Seq(Tx) /\ built[d] \in Report \union {NoReport}
  BY DEF BaseInv, TypeOK, ChainTypeOK
<1>2. built[d] # NoReport => built[d].ref \in Int
  BY <1>1 DEF Report
<1>3. mempool[d] # <<>> => Head(mempool[d]).report.ref \in Int
<2>1. mempool[d] # <<>> => Head(mempool[d]) \in Tx
  BY <1>1
<2> QED
  BY <2>1 DEF Tx, Report
<1>4. \A r : r.ref \in Int /\ FinalReportOf(d, r) => FinalReportOf(d, r)'
  BY <1>1 DEF FinalReportOf
<1>5. built'[d] # NoReport => FinalReportOf(d, built[d])' /\ built'[d] = built[d]
  BY <1>2, <1>4 DEF AuthorOf, FinalReportOf
<1> QED
  BY <1>2, <1>3, <1>4 DEF AuthorOf, FinalReportOf

\* What a daemon makes is its own and for a final slot, and so is what it sends.
LEMMA AuthorDaemonStep ==
  ASSUME BaseInv, QueueInv, NEW d \in Daemon, DaemonStep(d), AuthorOf(d)
  PROVE  AuthorOf(d)'
<1>1. /\ UNCHANGED finalized /\ finalized \in Nat /\ fin[d] \in Nat /\ ref[d] \in Int
      /\ fin[d] <= finalized
      /\ pc[d] \in Working => built[d] # NoReport
<2>1. NoReport \notin Report
  BY ConsensusAssumption DEF Report
<2>2. UNCHANGED finalized
  BY DaemonStepKeeps DEF chainVars
<2>3. finalized \in Nat /\ fin[d] \in Nat /\ ref[d] \in Int
  BY DEF BaseInv, TypeOK, ChainTypeOK
<2>4. fin[d] <= finalized /\ (pc[d] \in Working => built[d] \in Report)
  BY DEF BaseInv, CycleInv, CycleOf
<2> QED
  BY <2>1, <2>2, <2>3, <2>4
<1>2. pc'[d] \in Working \union {"compat"} => ref'[d] <= fin'[d]
<2>1. RefSlot \in Int
  BY HeadFacts DEF BaseInv
<2> QED
  BY <1>1, <2>1, OwnStep DEF AuthorOf
<1>3. built'[d] # NoReport => FinalReportOf(d, built'[d])
  BY <1>1, OwnStep DEF AuthorOf, FinalReportOf
<1>4. mempool'[d] # <<>> => FinalReportOf(d, Head(mempool'[d]).report)
<2>1. CASE UNCHANGED mempool
  BY <2>1 DEF AuthorOf
<2>2. CASE ~UNCHANGED mempool
<3>1. Head(mempool'[d]).report = built[d] /\ pc[d] \in Working
  BY <2>2, OwnMempool
<3> QED
  BY <1>1, <3>1 DEF AuthorOf
<2> QED
  BY <2>1, <2>2
<1> QED
  BY <1>1, <1>2, <1>3, <1>4 DEF AuthorOf, FinalReportOf

\* A step of one daemon leaves the making of the others alone.
LEMMA AuthorOthers ==
  ASSUME BaseInv, NEW d \in Daemon, DaemonStep(d) \/ FailRequest(d) \/ Restart(d),
         NEW e \in Daemon, e # d, AuthorOf(e)
  PROVE  AuthorOf(e)'
<1>1. finalized' = finalized /\ finalized \in Nat /\ mempool \in [Daemon -> Seq(Tx)]
  BY DaemonStepKeeps DEF Fault, chainVars, BaseInv, TypeOK, ChainTypeOK
<1>2. mempool'[e] = mempool[e]
  BY <1>1 DEF DaemonStep, StartCycle, GetBlockstampForReport, CheckCompatibilityAndBuild,
     ProcessReportHash, ProcessReportData, SleepBeforeData, ProcessExtraData,
     SubmitExtraData, CheckTransaction, SendTransaction, HandleSentTransaction, Quiet,
     FailRequest, Restart
<1> QED
  BY <1>1, <1>2, OthersKeep, AuthorKept

\* After a crash the cache is empty; a failed request or a lost transaction makes
\* nothing new.
LEMMA AuthorFault ==
  ASSUME BaseInv, QueueInv, NEW d \in Daemon, Fault(d), NEW e \in Daemon, AuthorOf(e)
  PROVE  AuthorOf(e)'
<1>1. /\ finalized' = finalized /\ finalized \in Nat
      /\ mempool \in [Daemon -> Seq(Tx)] /\ pc \in [Daemon -> PCs]
      /\ built \in [Daemon -> Report \union {NoReport}]
  BY DaemonStepKeeps DEF chainVars, BaseInv, TypeOK, ChainTypeOK
<1>2. CASE FailRequest(d) \/ Restart(d)
<2>1. CASE e = d
<3>1. /\ pc'[d] = "idle" /\ mempool' = mempool
      /\ built'[d] = built[d] \/ built'[d] = NoReport
  BY <1>1, <1>2 DEF FailRequest, Restart, EndCycle, Goto
<3> QED
  BY <1>1, <2>1, <3>1, AuthorKept
<2>2. CASE e # d
  BY <1>2, <2>2, AuthorOthers
<2> QED
  BY <2>1, <2>2
<1>3. CASE DropTransaction(d)
<2>1. /\ mempool' = [mempool EXCEPT ![d] = Tail(@)] /\ mempool[d] # <<>>
      /\ UNCHANGED <<pc, ref, fin, built>>
  BY <1>3 DEF DropTransaction, daemonVars
<2>2. Tail(mempool[d]) = <<>>
  BY <1>1, <2>1, SingletonTail DEF QueueInv, QueueOf
<2>3. mempool'[e] = mempool[e] \/ mempool'[e] = <<>>
  BY <1>1, <2>1, <2>2
<2> QED
  BY <1>1, <2>1, <2>3, AuthorKept
<1> QED
  BY <1>2, <1>3 DEF Fault

-----------------------------------------------------------------------------
(* Steps of the contracts *)

\* A mined vote is the opinion of its sender, who computed the report.
LEMMA OpinionsStep ==
  ASSUME BaseInv, AuthorInv, [Next]_vars
  PROVE  VotesAreOpinions'
<1>1. ASSUME \A a \in Address : votes'[a] = votes[a] \/ votes'[a] = NoReport
      PROVE  VotesAreOpinions'
  BY <1>1 DEF AuthorInv, VotesAreOpinions, Opinion
<1>2. CASE ChainStep
<2>1. CASE RemoveMember /\ UNCHANGED <<daemonVars, mempool, faults>>
  BY <1>1, <2>1, RemoveMemberStep
<2>2. CASE NewSlot
  BY <1>1, <2>2 DEF NewSlot
<2>3. CASE Finalize
  BY <1>1, <2>3 DEF Finalize, contractVars
<2> QED
  BY <1>2, <2>1, <2>2, <2>3 DEF ChainStep
<1>3. ASSUME NEW d \in Daemon, DaemonStep(d) \/ Fault(d) PROVE VotesAreOpinions'
  BY <1>1, <1>3, DaemonStepKeeps DEF contractVars
<1>4. ASSUME NEW d \in Daemon, Mine(d) PROVE VotesAreOpinions'
<2> DEFINE r == Head(mempool[d]).report
<2>1. CASE Vote(Sender[d], r)
<3>1. r.v \in Opinion[Sender[d]]
<4>1. mempool[d] # <<>> /\ AuthorOf(d)
  BY <1>4 DEF Mine, AuthorInv
<4>2. r.v \in Builds[d]
  BY <4>1 DEF AuthorOf, FinalReportOf
<4> QED
  BY <4>2, DaemonAssumption DEF Opinion
<3>2. \A a \in Address : votes'[a] = votes[a] \/ (a = Sender[d] /\ votes'[a] = r)
  BY <2>1 DEF Vote, BaseInv, TypeOK, ChainTypeOK
<3> QED
  BY <3>1, <3>2 DEF AuthorInv, VotesAreOpinions, Opinion
<2>2. CASE ~Vote(Sender[d], r)
  BY <1>1, <1>4, <2>2, MineEffect DEF Deliver, DeliverExtra, contractVars
<2> QED
  BY <2>1, <2>2
<1>5. CASE UNCHANGED vars
  BY <1>1, <1>5 DEF vars
<1> QED
  BY <1>2, <1>3, <1>4, <1>5 DEF Next

\* Finality never goes back.
LEMMA FinalityGrows ==
  ASSUME BaseInv, [Next]_vars
  PROVE  finalized \in Nat /\ finalized' \in Nat /\ finalized' >= finalized
<1>1. BaseInv' /\ finalized \in Nat
  BY BaseStep DEF BaseInv, TypeOK, ChainTypeOK
<1>2. finalized' \in Nat
  BY <1>1 DEF BaseInv, TypeOK, ChainTypeOK
<1>3. CASE Finalize
  BY <1>1, <1>2, <1>3, FinalizeStep DEF Finalize, get_epoch_first_slot
<1>4. CASE ~Finalize
<2>1. finalized' = finalized
  BY <1>4, DaemonStepKeeps DEF Next, ChainStep, NewSlot, RemoveMember, Mine, chainVars, vars
<2> QED
  BY <1>1, <2>1
<1> QED
  BY <1>3, <1>4

\* Every step keeps the reports their authors' own, and for final slots.
LEMMA AuthorStep == BaseInv /\ QueueInv /\ AuthorInv /\ [Next]_vars => AuthorInv'
<1> SUFFICES ASSUME BaseInv, QueueInv, AuthorInv, [Next]_vars PROVE AuthorInv'
  OBVIOUS
<1>1. VotesAreOpinions' /\ finalized' \in Nat /\ finalized' >= finalized
  BY OpinionsStep, FinalityGrows
<1>2. SUFFICES ASSUME NEW e \in Daemon PROVE AuthorOf(e)'
  BY <1>1 DEF AuthorInv
<1>3. AuthorOf(e)
  BY DEF AuthorInv
<1>4. ASSUME NEW d \in Daemon, DaemonStep(d) PROVE AuthorOf(e)'
  BY <1>3, <1>4, AuthorDaemonStep, AuthorOthers
<1>5. ASSUME NEW d \in Daemon, Fault(d) PROVE AuthorOf(e)'
  BY <1>3, <1>5, AuthorFault
<1>6. ASSUME NEW d \in Daemon, Mine(d) PROVE AuthorOf(e)'
<2>1. /\ mempool' = [mempool EXCEPT ![d] = Tail(@)] /\ mempool[d] # <<>>
      /\ UNCHANGED <<pc, ref, fin, built>>
      /\ mempool \in [Daemon -> Seq(Tx)]
  BY <1>6 DEF Mine, BaseInv, TypeOK
<2>2. Tail(mempool[d]) = <<>>
  BY <2>1, SingletonTail DEF QueueInv, QueueOf
<2>3. mempool'[e] = mempool[e] \/ mempool'[e] = <<>>
  BY <2>1, <2>2
<2> QED
  BY <1>1, <1>3, <2>1, <2>3, AuthorKept
<1>7. CASE ChainStep
<2>1. UNCHANGED <<pc, ref, fin, built, mempool>>
  BY <1>7 DEF ChainStep, daemonVars
<2> QED
  BY <1>1, <1>3, <2>1, AuthorKept
<1>8. CASE UNCHANGED vars
  BY <1>1, <1>3, <1>8, AuthorKept DEF vars
<1> QED
  BY <1>4, <1>5, <1>6, <1>7, <1>8 DEF Next

\* At first nothing is built, sent or voted for.
LEMMA AuthorInit == Init => AuthorInv
  BY DEF Init, ChainInit, AuthorInv, AuthorOf, VotesAreOpinions

-----------------------------------------------------------------------------
(* The simulation *)

\* The quorum behind a mined vote is one of members with that opinion.
LEMMA QuorumOfOpinions ==
  ASSUME BaseInv', VotesAreOpinions', NEW r \in Report, HasQuorum(r)'
  PROVE  \E Q \in Quorums : \A a \in Q : r.v \in Opinion[a]
<1> DEFINE Q == {a \in Member' : votes'[a] = r}
<1>1. Cardinality(Q) >= Quorum
  BY DEF HasQuorum, HasQuorumIn
<1>2. Q \in SUBSET Address /\ Q \in Quorums
<2>1. Q \in SUBSET Address
  BY DEF Member, BaseInv, TypeOK, ChainTypeOK
<2> QED
  BY <1>1, <2>1 DEF Quorums
<1>3. NoReport # r
  BY ConsensusAssumption DEF Report
<1>4. \A a \in Q : r.v \in Opinion[a]
  BY <1>2, <1>3 DEF VotesAreOpinions, Opinion
<1> QED
  BY <1>2, <1>4

\* A vote that completes a quorum is an Agree, any other changes nothing promised.
LEMMA VoteSimulates ==
  ASSUME BaseInv, BaseInv', AuthorInv, AuthorInv', NEW d \in Daemon, Mine(d),
         Vote(Sender[d], Head(mempool[d]).report), Accepts(d, Head(mempool[d])),
         Head(mempool[d]).kind = "hash"
  PROVE  [Promise!Next]_(Promise!committeeVars)
<1> PICK r \in Report : r = Head(mempool[d]).report
  BY MineTypes DEF Tx
<1>1. /\ r.ref = RefSlot /\ main = NoReport
      /\ UNCHANGED <<slot, finalized, main, extra>>
  BY DEF Accepts, CanVote, Mine, chainVars, Vote
<1>2. RefSlot' = RefSlot
  BY <1>1 DEF RefSlot
<1>3. CASE agreed' = agreed
  BY <1>1, <1>2, <1>3 DEF Promise!committeeVars
<1>4. CASE agreed' # agreed
<2>1. agreed' = agreed \union {r} /\ HasQuorum(r)'
<3>1. HasQuorumIn(votes', r) /\ agreed' = agreed \union {r} /\ members' = members
  BY <1>4 DEF Vote
<3> QED
  BY <3>1 DEF HasQuorum, HasQuorumIn, Member
<2>2. r.v \in DOMAIN ExtraList /\ r = [ref |-> RefSlot, v |-> r.v]
  BY <1>1, ConsensusAssumption DEF Report
<2>3. RefSlot <= finalized
  BY <1>1 DEF Mine, AuthorInv, AuthorOf, FinalReportOf
<2>4. \E Q \in Quorums : \A a \in Q : r.v \in Opinion[a]
<3>1. VotesAreOpinions'
  BY DEF AuthorInv
<3> QED
  BY <1>1, <2>1, <3>1, QuorumOfOpinions
<2>5. Promise!Agree(r.v)
  BY <1>1, <1>2, <2>1, <2>2, <2>3, <2>4 DEF Promise!Agree
<2> QED
  BY <2>2, <2>5 DEF Promise!Next
<1> QED
  BY <1>3, <1>4

\* Every step of the committee is a step of the promise or changes nothing of it.
LEMMA Simulation ==
  ASSUME BaseInv, BaseInv', QueueInv, QuorumRecorded, AuthorInv, AuthorInv', [Next]_vars
  PROVE  [Promise!Next]_(Promise!committeeVars)
<1> USE DEF Promise!committeeVars
<1>1. ASSUME UNCHANGED <<slot, finalized, agreed, main, extra>>
      PROVE  [Promise!Next]_(Promise!committeeVars)
  BY <1>1 DEF RefSlot
<1>2. CASE ChainStep
<2>1. CASE NewSlot
<3>1. /\ UNCHANGED <<finalized, agreed>> /\ RefSlot \in Int /\ RefSlot' \in Int
      /\ RefSlot' >= RefSlot /\ RefSlot' = RefSlotAt(slot + 1)
  BY <2>1, NewSlotFacts DEF RefSlot
<3>2. CASE RefSlot' = RefSlot
  BY <2>1, <3>1, <3>2 DEF NewSlot
<3>3. CASE RefSlot' # RefSlot
<4>1. RefSlot' > RefSlot /\ main' = NoReport /\ extra' = 0
  BY <2>1, <3>1, <3>3 DEF NewSlot
<4> QED
  BY <3>1, <4>1 DEF Promise!Next, Promise!NextFrame
<3> QED
  BY <3>2, <3>3
<2>2. CASE Finalize /\ UNCHANGED <<daemonVars, mempool, faults>>
<3>1. finalized' > finalized /\ UNCHANGED <<slot, main, extra, agreed>>
  BY <2>2, FinalizeStep DEF Finalize, contractVars
<3>2. RefSlot' = RefSlot
  BY <3>1 DEF RefSlot
<3> QED
  BY <3>1, <3>2 DEF Promise!Next, Promise!Finalize
<2>3. CASE RemoveMember
  BY <1>1, <2>3 DEF RemoveMember, chainVars
<2> QED
  BY <1>2, <2>1, <2>2, <2>3 DEF ChainStep
<1>3. ASSUME NEW d \in Daemon, DaemonStep(d) \/ Fault(d)
      PROVE  [Promise!Next]_(Promise!committeeVars)
  BY <1>1, <1>3, DaemonStepKeeps DEF chainVars, contractVars
<1>4. ASSUME NEW d \in Daemon, Mine(d)
      PROVE  [Promise!Next]_(Promise!committeeVars)
<2> DEFINE t == Head(mempool[d])
           r == t.report
<2>1. UNCHANGED <<slot, finalized>> /\ RefSlot' = RefSlot /\ r \in Report
  BY <1>4, MineTypes DEF Mine, chainVars, RefSlot, Tx
<2>2. CASE Vote(Sender[d], r) /\ Accepts(d, t) /\ t.kind = "hash"
  BY <1>4, <2>2, VoteSimulates
<2>3. CASE Deliver(r) /\ Accepts(d, t) /\ t.kind = "data"
<3>1. r.ref = RefSlot /\ main = NoReport /\ r \in agreed
  BY <2>1, <2>3 DEF Accepts, CanDeliver, QuorumRecorded
<3>2. Promise!Process(r)
  BY <2>1, <2>3, <3>1 DEF Deliver, Promise!Process
<3> QED
  BY <3>1, <3>2 DEF Promise!Next
<2>4. CASE DeliverExtra /\ Accepts(d, t) /\ t.kind = "extra"
<3>1. Promise!ProcessExtra
  BY <2>1, <2>4 DEF Accepts, CanDeliverExtra, DeliverExtra, Promise!ProcessExtra
<3> QED
  BY <3>1 DEF Promise!Next
<2>5. CASE UNCHANGED contractVars
  BY <1>1, <2>1, <2>5 DEF contractVars
<2> QED
  BY <1>4, <2>2, <2>3, <2>4, <2>5, MineEffect
<1>5. CASE UNCHANGED vars
  BY <1>1, <1>5 DEF vars
<1> QED
  BY <1>2, <1>3, <1>4, <1>5 DEF Next

\* Whatever the interleaving, the crashes, the lost transactions and the upgrade, the
\* report contract shows its readers a behaviour of Committee: reports are agreed
\* only for final reference slots and on the opinions of a quorum, and only agreed
\* ones are processed (get_blockstamp_for_report, build_report, _process_report_data).
THEOREM CommitteeImplemented == Spec => ImplementsCommittee
<1>1. Init => Promise!Init
<2> SUFFICES ASSUME Init PROVE Promise!Init
  OBVIOUS
<2>1. RefSlot \in Int
  BY BaseInit, HeadFacts DEF BaseInv
<2> QED
  BY <2>1 DEF Init, ChainInit, Promise!Init
<1>2. /\ BaseInv /\ BaseInv' /\ QueueInv /\ ConsensusInv /\ AuthorInv /\ AuthorInv' /\ [Next]_vars
      => [Promise!Next]_(Promise!committeeVars)
  BY Simulation DEF ConsensusInv
<1>3. Spec => []AuthorInv
  BY AuthorInit, AuthorStep, BaseInvariant, QueueInvariant, PTL DEF Spec
<1> QED
  BY <1>1, <1>2, <1>3, BaseInvariant, QueueInvariant, ConsensusInvariant, PTL
  DEF Spec, ImplementsCommittee, Promise!Spec

=============================================================================

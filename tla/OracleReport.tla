---------------------------- MODULE OracleReport ----------------------------
(***************************************************************************)
(* The committee of oracle daemons: every daemon runs                      *)
(* AccountingOracle.execute_module (src/src/modules/oracles/accounting/    *)
(* accounting.py) over ConsensusModule (src/src/modules/oracles/common/    *)
(* consensus.py) and TransactionUtils (src/src/web3py/extensions/          *)
(* tx_utils.py), against the contracts of HashConsensus.  The ejector and  *)
(* the staking-module oracles run the same two phases without extra data.  *)
(*                                                                         *)
(* A step of a daemon is what it does between two looks at the chain: one  *)
(* _get_latest_data (every contract call in it is made at the hash of one  *)
(* head block) and the decisions taken on it.  The chain and the other     *)
(* daemons move between any two steps.                                     *)
(***************************************************************************)
EXTENDS HashConsensus

CONSTANTS
  Daemon,          \* oracle processes
  Account,         \* Account[d]: the address of MEMBER_PRIV_KEY
  Sender,          \* Sender[d]: msg.sender the contracts see for d
  Builds,          \* Builds[d]: the variants d's build_report may come to
  Withheld,        \* variants for which is_reporting_allowed needs the override
  Override,        \* daemons run with ALLOW_REPORTING_IN_BUNKER_MODE
  Software,        \* Software[d]: COMPATIBLE_{CONTRACT,CONSENSUS}_VERSION
  DelayInSlots,    \* SUBMIT_DATA_DELAY_IN_SLOTS
  Running,         \* daemons that keep running: the others may stop for ever
  MaxFaults        \* bound: crashes, failed requests and dropped transactions

ASSUME DaemonAssumption ==
  /\ Account \in [Daemon -> Address]
  /\ Sender \in [Daemon -> Address]
  /\ \A d, e \in Daemon : Sender[d] = Sender[e] => d = e
  /\ Builds \in [Daemon -> SUBSET Variant]
  /\ Withheld \subseteq Variant
  /\ Override \subseteq Daemon
  /\ Software \in [Daemon -> {1, 2}]
  /\ DelayInSlots \in Nat
  /\ Running \subseteq Daemon
  /\ MaxFaults \in Nat

VARIABLES
  pc,         \* where in its cycle each daemon is
  fin,        \* finalized slot the cycle started from
  threshold,  \* DaemonModule._slot_threshold
  ref,        \* ref_slot of the report blockstamp of the cycle
  built,      \* the report in build_report's cache (lru_cache(maxsize=1))
  phase,      \* which transaction a send, broadcast or wait is about
  wake,       \* slot at which the current sleep ends
  left,       \* slots of the submit delay still to sleep
  chunk,      \* index of the extra data transaction being sent
  free,       \* whether the nonce read for the transaction is still unused
  mempool,    \* mempool[d]: unmined transactions of d, consecutive nonces
  faults      \* number of faults so far

daemonVars == <<pc, fin, threshold, ref, built, phase, wake, left, chunk, free>>
vars == <<slot, finalized, upgrade, members, votes, main, extra, agreed,
          pc, fin, threshold, ref, built, phase, wake, left, chunk, free,
          mempool, faults>>

PCs == {"idle", "blockstamp", "compat", "hash", "data", "sleepdata",
        "extra", "sleepextra", "send", "broadcast", "wait", "dead"}

Tx == [kind : {"hash", "data", "extra"}, report : Report, chunk : Nat]

-----------------------------------------------------------------------------
(* What a daemon reads of the chain *)

IsReportMember(d) == Account[d] \in Member

IsSubmitMember(d) == Account[d] \in SubmitRole

\* get_member_info raises IsNotMemberException unless this holds; the defaults
\* stay in force while the initial epoch is yet to arrive.
Recognised(d) == ~Started \/ IsReportMember(d) \/ IsSubmitMember(d)

CanSubmitExtraData == MainDataSubmitted /\ ~ExtraDataSubmitted

IsContractReportable == ~MainDataSubmitted \/ CanSubmitExtraData

\* Mutant: only the zero hash is ruled out, not another report's hash.
ConsensusIs_AnyReport(r) ==
  \E a \in Member : votes[a] # NoReport /\ HasQuorum(votes[a])

\* current_frame_consensus_report: zero or another hash means no quorum for r.
ConsensusIs(r) == HasQuorum(r)

IsReportingAllowed(d, r) == r.v \in Withheld => d \in Override

\* Mutant: members before the current position do not wrap around.
SleepCount_NoWrap(position, current, n) ==
  IF position < current THEN 0 ELSE position - current

\* How many turns after the member whose turn it is.
SleepCount(position, current, n) ==
  IF position < current THEN position - current + n ELSE position - current

\* Mutant: only the member whose turn it is ever submits.
SlotDelay_OneTurn(d) ==
  IF IsSubmitMember(d) THEN 0
  ELSE IF IndexOf(Account[d]) = get_frame_by_slot(slot) % Len(members)
         THEN DelayInSlots ELSE -1

\* Delay of a daemon in the rotation of data submitters, in slots.
SlotDelay(d) ==
  IF IsSubmitMember(d) THEN 0
  ELSE (1 + SleepCount(IndexOf(Account[d]),
                       get_frame_by_slot(slot) % Len(members),
                       Len(members))) * DelayInSlots

-----------------------------------------------------------------------------
(* Control flow of a daemon *)

Goto(d, l) == pc' = [pc EXCEPT ![d] = l]

\* Locals a step leaves alone.
Locals == <<fin, threshold, ref, built, phase, wake, left, chunk, free>>
KeepsChain == UNCHANGED <<chainVars, contractVars>>

\* The cycle is over: its locals are gone, the caches and the threshold stay.
Forget(d) ==
  /\ fin' = [fin EXCEPT ![d] = 0]
  /\ ref' = [ref EXCEPT ![d] = 0]
  /\ phase' = [phase EXCEPT ![d] = "hash"]
  /\ wake' = [wake EXCEPT ![d] = 0]
  /\ left' = [left EXCEPT ![d] = 0]
  /\ chunk' = [chunk EXCEPT ![d] = 0]
  /\ free' = [free EXCEPT ![d] = FALSE]

\* Mutant: every cycle ends as after NEXT_FINALIZED_EPOCH.
EndCycle_AlwaysThreshold(d) ==
  /\ Goto(d, "idle")
  /\ Forget(d)
  /\ threshold' = [threshold EXCEPT ![d] = fin[d]]
  /\ UNCHANGED built

EndCycle(d) == Goto(d, "idle") /\ Forget(d) /\ UNCHANGED <<threshold, built>>

\* Mutant: what is stored is not a slot number.
EndCycleUntilFinalized_NoSlot(d) ==
  /\ Goto(d, "idle")
  /\ Forget(d)
  /\ threshold' = [threshold EXCEPT ![d] = NoReport]
  /\ UNCHANGED built

\* ModuleExecuteDelay.NEXT_FINALIZED_EPOCH: wait for a newer finalized slot.
EndCycleUntilFinalized(d) ==
  /\ Goto(d, "idle")
  /\ Forget(d)
  /\ threshold' = [threshold EXCEPT ![d] = fin[d]]
  /\ UNCHANGED built

\* An exception exception_handler re-raises: the process exits.
Die(d) == Goto(d, "dead") /\ Forget(d) /\ UNCHANGED <<threshold, built>>

Quiet == KeepsChain /\ UNCHANGED <<mempool, faults>>

\* DaemonModule._cycle up to execute_module.  A finalized slot at or below the
\* threshold skips the cycle and changes nothing.
StartCycle(d) ==
  /\ pc[d] = "idle"
  /\ finalized > threshold[d]
  /\ Goto(d, "blockstamp")
  /\ fin' = [fin EXCEPT ![d] = finalized]
  /\ UNCHANGED <<threshold, ref, built, phase, wake, left, chunk, free>>
  /\ Quiet

\* Mutant: the reference slot need not be final.
NothingToReport_AnyBlock(d) == ~IsContractReportable \/ slot >= DeadlineAt(slot)

NothingToReport(d) ==
  \/ ~IsContractReportable
  \/ fin[d] < RefSlot
  \/ slot >= DeadlineAt(slot)

GetBlockstampForReport(d) ==
  /\ pc[d] = "blockstamp"
  /\ \/ ~Recognised(d) /\ Die(d)
     \/ /\ Recognised(d)
        /\ NothingToReport(d)
        /\ EndCycleUntilFinalized(d)
     \/ /\ Recognised(d)
        /\ ~NothingToReport(d)
        /\ Goto(d, "compat")
        /\ ref' = [ref EXCEPT ![d] = RefSlot]
        /\ UNCHANGED <<fin, threshold, built, phase, wake, left, chunk, free>>
  /\ Quiet

\* Mutant: build_report without its cache.
BuildReport_Uncached(d, r) ==
  /\ r \in [ref : {ref[d]}, v : Builds[d]]
  /\ built' = [built EXCEPT ![d] = r]

\* build_report is cached by blockstamp: a rebuild happens only for another
\* reference slot or after the cache is lost.
BuildReport(d, r) ==
  /\ r \in [ref : {ref[d]}, v : Builds[d]]
  /\ built[d] # NoReport /\ built[d].ref = ref[d] => r = built[d]
  /\ built' = [built EXCEPT ![d] = r]

\* Mutant: the versions are read at the head only.
VersionAtReference_Latest(d) == VersionAt(slot)

VersionAtReference(d) == VersionAt(ref[d])

\* _check_compatibility, then build_report and is_reporting_allowed of process_report.
CheckCompatibilityAndBuild(d) ==
  /\ pc[d] = "compat"
  /\ LET version == VersionAtReference(d) IN
     \/ version > Software[d] /\ Die(d)
     \/ /\ version <= Software[d]
        /\ version # VersionAt(slot)
        /\ EndCycle(d)
     \/ /\ version = VersionAt(slot)
        /\ version < Software[d]
        /\ EndCycleUntilFinalized(d)
     \/ /\ version = VersionAt(slot)
        /\ version = Software[d]
        /\ \E r \in [ref : {ref[d]}, v : Builds[d]] :
             /\ BuildReport(d, r)
             /\ Goto(d, IF IsReportingAllowed(d, r) THEN "hash" ELSE "extra")
        /\ UNCHANGED <<fin, threshold, ref, phase, wake, left, chunk, free>>
  /\ Quiet

-----------------------------------------------------------------------------
(* Phase 1: the report hash *)

OwnReport(d) == votes[Account[d]]

ShouldSendHash(d) ==
  /\ IsReportMember(d)
  /\ OwnReport(d) # built[d]
  /\ \/ IsFastLane(Account[d])
     \/ /\ slot >= RefSlot + FastLaneLen
        /\ ~ConsensusIs(built[d])

ProcessReportHash(d) ==
  /\ pc[d] = "hash"
  /\ \/ ~Recognised(d) /\ Die(d)
     \/ /\ Recognised(d)
        /\ IF ShouldSendHash(d)
             THEN Goto(d, "send") /\ phase' = [phase EXCEPT ![d] = "hash"]
             ELSE Goto(d, "data") /\ UNCHANGED phase
        /\ UNCHANGED <<fin, threshold, ref, built, wake, left, chunk, free>>
  /\ Quiet

-----------------------------------------------------------------------------
(* Phase 2: the report data *)

\* The sleep is timed by the wall clock; MaxSlot only bounds the exploration.
Woken(d) == slot >= wake[d] \/ slot = MaxSlot

GotoSend(d, p) == Goto(d, "send") /\ phase' = [phase EXCEPT ![d] = p]

ProcessReportData(d) ==
  /\ pc[d] = "data"
  /\ \/ ~Recognised(d) /\ Die(d)
     \/ /\ Recognised(d)
        /\ ~ConsensusIs(built[d]) \/ MainDataSubmitted
        /\ Goto(d, "extra")
        /\ UNCHANGED Locals
     \/ /\ Recognised(d)
        /\ ConsensusIs(built[d])
        /\ ~MainDataSubmitted
        /\ SlotDelay(d) = 0
        /\ GotoSend(d, "data")
        /\ UNCHANGED <<fin, threshold, ref, built, wake, left, chunk, free>>
     \/ /\ Recognised(d)
        /\ ConsensusIs(built[d])
        /\ ~MainDataSubmitted
        /\ SlotDelay(d) > 0
        /\ Goto(d, "sleepdata")
        /\ left' = [left EXCEPT ![d] = SlotDelay(d)]
        /\ wake' = [wake EXCEPT ![d] = slot + 1]
        /\ UNCHANGED <<fin, threshold, ref, built, phase, chunk, free>>
  /\ Quiet

\* One turn of the sleep loop.  Whether the consensus still stands is not read again.
SleepBeforeData(d) ==
  /\ pc[d] = "sleepdata"
  /\ Woken(d)
  /\ \/ ~Recognised(d) /\ Die(d)
     \/ /\ Recognised(d)
        /\ MainDataSubmitted
        /\ Goto(d, "extra")
        /\ wake' = [wake EXCEPT ![d] = 0]
        /\ left' = [left EXCEPT ![d] = 0]
        /\ UNCHANGED <<fin, threshold, ref, built, phase, chunk, free>>
     \/ /\ Recognised(d)
        /\ ~MainDataSubmitted
        /\ left[d] > 1
        /\ left' = [left EXCEPT ![d] = @ - 1]
        /\ wake' = [wake EXCEPT ![d] = slot + 1]
        /\ UNCHANGED <<pc, fin, threshold, ref, built, phase, chunk, free>>
     \/ /\ Recognised(d)
        /\ ~MainDataSubmitted
        /\ left[d] <= 1
        /\ GotoSend(d, "data")
        /\ wake' = [wake EXCEPT ![d] = 0]
        /\ left' = [left EXCEPT ![d] = 0]
        /\ UNCHANGED <<fin, threshold, ref, built, chunk, free>>
  /\ Quiet

-----------------------------------------------------------------------------
(* Phase 3: extra data *)

ProcessExtraData(d) ==
  /\ pc[d] = "extra"
  /\ \/ ~CanSubmitExtraData /\ EndCycle(d)
     \/ CanSubmitExtraData /\ ~Recognised(d) /\ Die(d)
     \/ /\ CanSubmitExtraData
        /\ Recognised(d)
        /\ Goto(d, "sleepextra")
        /\ wake' = [wake EXCEPT ![d] = slot + SlotDelay(d)]
        /\ UNCHANGED <<fin, threshold, ref, built, phase, left, chunk, free>>
  /\ Quiet

ExtraTxs(d) == ExtraList[built[d].v]

\* The whole delay is slept at once; then every extra data transaction of the
\* report is tried from the first one, those already processed included.
SubmitExtraData(d) ==
  /\ pc[d] = "sleepextra"
  /\ Woken(d)
  /\ IF CanSubmitExtraData /\ ExtraTxs(d) # <<>>
       THEN /\ GotoSend(d, "extra")
            /\ chunk' = [chunk EXCEPT ![d] = 1]
            /\ wake' = [wake EXCEPT ![d] = 0]
            /\ UNCHANGED <<fin, threshold, ref, built, left, free>>
       ELSE EndCycle(d)
  /\ Quiet

-----------------------------------------------------------------------------
(* TransactionUtils.check_and_send_transaction *)

TxOf(d) == [kind |-> phase[d], report |-> built[d], chunk |-> chunk[d]]

\* Would the contract take transaction t of daemon d now?
Accepts(d, t) ==
  CASE t.kind = "hash"  -> CanVote(Sender[d], Software[d], t.report)
    [] t.kind = "data"  -> CanDeliver(Sender[d], Software[d], t.report)
    [] t.kind = "extra" -> CanDeliverExtra(Sender[d], ExtraList[t.report.v][t.chunk])

\* What follows a transaction, whatever became of it.
NextChunk(d) == phase[d] = "extra" /\ chunk[d] < Len(ExtraTxs(d))

AfterTx(d) ==
  CASE phase[d] = "hash" ->
         /\ Goto(d, "data")
         /\ free' = [free EXCEPT ![d] = FALSE]
         /\ UNCHANGED <<fin, threshold, ref, built, phase, wake, left, chunk>>
    [] phase[d] = "data" ->
         /\ Goto(d, "extra")
         /\ free' = [free EXCEPT ![d] = FALSE]
         /\ UNCHANGED <<fin, threshold, ref, built, phase, wake, left, chunk>>
    [] NextChunk(d) ->
         /\ Goto(d, "send")
         /\ free' = [free EXCEPT ![d] = FALSE]
         /\ chunk' = [chunk EXCEPT ![d] = @ + 1]
         /\ UNCHANGED <<fin, threshold, ref, built, phase, wake, left>>
    [] OTHER -> EndCycle(d)

\* Mutant: a refused transaction ends the cycle, the extra data after it included.
CheckTransaction_StopAtRefused(d) ==
  /\ pc[d] = "send"
  /\ IF Accepts(d, TxOf(d))
       THEN /\ Goto(d, "broadcast")
            /\ free' = [free EXCEPT ![d] = TRUE]
            /\ UNCHANGED <<fin, threshold, ref, built, phase, wake, left, chunk>>
       ELSE EndCycle(d)
  /\ Quiet

\* The nonce is read (build_transaction_params), then the static call decides.
CheckTransaction(d) ==
  /\ pc[d] = "send"
  /\ IF Accepts(d, TxOf(d))
       THEN /\ Goto(d, "broadcast")
            /\ free' = [free EXCEPT ![d] = TRUE]
            /\ UNCHANGED <<fin, threshold, ref, built, phase, wake, left, chunk>>
       ELSE AfterTx(d)
  /\ Quiet

\* Mutant: the nonce is read with the pending transactions counted.
NonceIndex_Pending(d) == Len(mempool[d]) + 1

\* Position in the account's queue of the nonce read: get_transaction_count
\* counts mined transactions only, so it is the place of the oldest unmined one.
NonceIndex(d) == 1

\* A used nonce or an underpriced replacement is refused by the node: the
\* exception ends the cycle.  Otherwise the transaction takes its nonce's place.
SendTransaction(d) ==
  /\ pc[d] = "broadcast"
  /\ LET i == NonceIndex(d) IN
     \/ /\ ~free[d] \/ i <= Len(mempool[d])
        /\ EndCycle(d)
        /\ UNCHANGED mempool
     \/ /\ free[d]
        /\ mempool' = [mempool EXCEPT ![d] =
             [j \in 1..(IF i <= Len(@) THEN Len(@) ELSE i) |->
                IF j = i THEN TxOf(d) ELSE @[j]]]
        /\ Goto(d, "wait")
        /\ UNCHANGED Locals
  /\ KeepsChain
  /\ UNCHANGED faults

\* wait_for_transaction_receipt: mined, or TimeExhausted after 120 seconds with
\* the transaction still in the mempool.
HandleSentTransaction(d) ==
  /\ pc[d] = "wait"
  /\ AfterTx(d)
  /\ Quiet

\* The oldest transaction of d enters a block; it has no effect if it reverts.
Mine(d) ==
  /\ mempool[d] # <<>>
  /\ LET t == Head(mempool[d]) IN
       IF Accepts(d, t)
         THEN \/ t.kind = "hash" /\ Vote(Sender[d], t.report)
              \/ t.kind = "data" /\ Deliver(t.report)
              \/ t.kind = "extra" /\ DeliverExtra
         ELSE UNCHANGED contractVars
  /\ mempool' = [mempool EXCEPT ![d] = Tail(@)]
  /\ free' = [free EXCEPT ![d] = FALSE]
  /\ UNCHANGED <<chainVars, pc, fin, threshold, ref, built, phase, wake, left,
                 chunk, faults>>

-----------------------------------------------------------------------------
(* Faults *)

\* A request fails with an exception that exception_handler swallows.
FailRequest(d) ==
  /\ pc[d] \notin {"idle", "dead"}
  /\ faults < MaxFaults
  /\ faults' = faults + 1
  /\ EndCycle(d)
  /\ KeepsChain
  /\ UNCHANGED mempool

\* The process is killed and restarted: caches and threshold are lost, what it
\* broadcast is not.
Restart(d) ==
  /\ faults < MaxFaults
  /\ faults' = faults + 1
  /\ pc[d] # "dead"
  /\ Goto(d, "idle")
  /\ Forget(d)
  /\ threshold' = [threshold EXCEPT ![d] = 0]
  /\ built' = [built EXCEPT ![d] = NoReport]
  /\ KeepsChain
  /\ UNCHANGED mempool

\* A transaction is evicted from the mempool.
DropTransaction(d) ==
  /\ mempool[d] # <<>>
  /\ faults < MaxFaults
  /\ faults' = faults + 1
  /\ mempool' = [mempool EXCEPT ![d] = Tail(@)]
  /\ KeepsChain
  /\ UNCHANGED daemonVars

-----------------------------------------------------------------------------
(* Specification *)

Init ==
  /\ ChainInit
  /\ pc = [d \in Daemon |-> "idle"]
  /\ fin = [d \in Daemon |-> 0]
  /\ threshold = [d \in Daemon |-> 0]
  /\ ref = [d \in Daemon |-> 0]
  /\ built = [d \in Daemon |-> NoReport]
  /\ phase = [d \in Daemon |-> "hash"]
  /\ wake = [d \in Daemon |-> 0]
  /\ left = [d \in Daemon |-> 0]
  /\ chunk = [d \in Daemon |-> 0]
  /\ free = [d \in Daemon |-> FALSE]
  /\ mempool = [d \in Daemon |-> <<>>]
  /\ faults = 0

ChainStep == (NewSlot \/ Finalize \/ RemoveMember) /\ UNCHANGED <<daemonVars, mempool, faults>>

DaemonStep(d) ==
  \/ StartCycle(d)
  \/ GetBlockstampForReport(d)
  \/ CheckCompatibilityAndBuild(d)
  \/ ProcessReportHash(d)
  \/ ProcessReportData(d)
  \/ SleepBeforeData(d)
  \/ ProcessExtraData(d)
  \/ SubmitExtraData(d)
  \/ CheckTransaction(d)
  \/ SendTransaction(d)
  \/ HandleSentTransaction(d)

Fault(d) == FailRequest(d) \/ Restart(d) \/ DropTransaction(d)

Next ==
  \/ ChainStep
  \/ \E d \in Daemon : DaemonStep(d) \/ Mine(d) \/ Fault(d)

Spec == Init /\ [][Next]_vars

\* Blocks keep coming, finality resumes, the Running daemons run and what they
\* broadcast is mined; faults, bounded by MaxFaults, are never forced.
Fairness ==
  /\ WF_vars(NewSlot /\ UNCHANGED <<daemonVars, mempool, faults>>)
  /\ WF_vars(Finalize /\ UNCHANGED <<daemonVars, mempool, faults>>)
  /\ \A d \in Running : WF_vars(DaemonStep(d)) /\ WF_vars(Mine(d))

FairSpec == Spec /\ Fairness

-----------------------------------------------------------------------------
(* Properties *)

\* Every variable keeps the type its counterpart in the code has.
TypeOK ==
  /\ ChainTypeOK
  /\ pc \in [Daemon -> PCs]
  /\ fin \in [Daemon -> Nat]
  /\ threshold \in [Daemon -> Nat]
  /\ ref \in [Daemon -> Int]
  /\ built \in [Daemon -> Report \union {NoReport}]
  /\ phase \in [Daemon -> {"hash", "data", "extra"}]
  /\ wake \in [Daemon -> Nat]
  /\ left \in [Daemon -> Nat]
  /\ chunk \in [Daemon -> Nat]
  /\ free \in [Daemon -> BOOLEAN]
  /\ mempool \in [Daemon -> Seq(Tx)]
  /\ faults \in Nat

\* From the consensus being seen to the end of the main data transaction.
SendingData(d) ==
  pc[d] = "sleepdata" \/ (pc[d] \in {"send", "broadcast", "wait"} /\ phase[d] = "data")

\* A daemon that sleeps before, checks or broadcasts report data has seen its
\* own report, the one in build_report's cache, reach the quorum (the comparison
\* with current_frame_consensus_report in _process_report_data).
DataOnlyAfterConsensus == \A d \in Daemon : SendingData(d) => built[d] \in agreed

\* While _slot_threshold makes a daemon skip its cycles, those cycles would have
\* had nothing to do: no fresh view of the chain with the same finalized slot
\* makes the current frame reportable.
SkipIsHarmless ==
  \A d \in Daemon :
    pc[d] = "idle" /\ finalized <= threshold[d] /\ finalized > 0 =>
      \/ ~IsContractReportable
      \/ finalized < RefSlot
      \/ slot >= DeadlineAt(slot)
      \/ VersionAt(RefSlot) # Software[d]

\* The oldest unmined transaction of a daemon is never a vote the contract has
\* already recorded for it: a retry after TimeExhausted or a restart reuses the
\* nonce, so a vote cannot be paid for twice.
NoDuplicateVote ==
  \A d \in Daemon :
    mempool[d] # <<>> /\ Head(mempool[d]).kind = "hash"
      => votes[Sender[d]] # Head(mempool[d]).report

\* Within a frame a vote changes only after a fault: build_report's cache keeps a
\* running daemon from coming to a second hash for the same reference slot.
VoteIsStable ==
  [][\A d \in Daemon :
       /\ votes[Sender[d]] # NoReport
       /\ votes'[Sender[d]] \notin {votes[Sender[d]], NoReport}
       /\ RefSlotAt(slot') = RefSlot
       => faults > 0]_vars

\* The main data of the last explored frame is processed and its extra data
\* completed, whatever finite number of faults and delays came before.
Reported == RefSlot = RefSlotAt(MaxSlot) /\ ExtraDataSubmitted
ReportIsDelivered == <>Reported

\* At any head no two members that wait before sending data wait equally long, and
\* none waits longer than one round of the committee
\* (_get_slot_delay_before_data_submit).
TurnsAreDistinct ==
  \A d, e \in Daemon :
    /\ DelayInSlots > 0
    /\ IsReportMember(d) /\ ~IsSubmitMember(d)
    /\ IsReportMember(e) /\ ~IsSubmitMember(e)
    => /\ SlotDelay(d) \in DelayInSlots..(DelayInSlots * Len(members))
       /\ SlotDelay(d) = SlotDelay(e) => Account[d] = Account[e]

\* A report whose reference slot lies before a contract upgrade is never processed
\* after it: _check_compatibility compares the versions at the reference block with
\* those at the head (the contract itself only checks the version sent with it).
NoReportAcrossUpgrade ==
  [][main' # main /\ main' # NoReport
       => VersionAt(main'.ref) = VersionAt(slot)]_vars

\* To the reader of the report contract the committee does what Committee
\* promises: a report is agreed only for a final reference slot and only if a
\* quorum of members could have computed it (whatever a crash, an upgrade, a removed
\* member or a stale transaction does meanwhile), and what is processed was agreed.
Opinion == [a \in Address |-> UNION {Builds[d] : d \in {e \in Daemon : Sender[e] = a}}]

Quorums == {Q \in SUBSET Address : Cardinality(Q) >= Quorum}

Promise == INSTANCE Committee WITH refSlot <- RefSlot

ImplementsCommittee == Promise!Spec

\* docs/delegation.md:32: with delegation "all permissions must be granted to the
\* delegation contract address, not to the oracle account".  A daemon set up so,
\* and as recent as the contracts, is not refused as a non-member.
AuthorisedDaemonSurvives ==
  \A d \in Daemon :
    Sender[d] \in Member /\ VersionAt(slot) <= Software[d] => pc[d] # "dead"

=============================================================================

# TLA+ models of the Lido oracle

This directory specifies the oracle daemons of this repository in TLA+, checks the
specifications on small instances with TLC and proves the most important invariants
for all instances with TLAPS. Paths below are relative to `src/` of the repository
unless they begin with `docs/`, `tests/` or `assets/`.

    tlc -workers 2 -config OracleRaces.cfg MCOracleReport.tla     # a run
    tlapm OracleReport_proofs.tla                                 # the proofs

## 1. The system

Every committee member runs one or more *oracle daemons* (accounting, ejector,
community staking module, curated module). A daemon loops over *cycles*. In a cycle it
reads the finalized block, decides whether the current *frame* of its contract is to be
reported, computes the report from the state at the frame's *reference slot*, votes for
its hash on the `HashConsensus` contract, waits for the quorum, waits for its turn, sends
the data and, for accounting, the extra data. Daemons never talk to each other: the chain
is their only shared state, and any of them may find at any step that another was faster.
The staking-module oracles moreover depend on the *performance sidecar* of the same
operator: a collector daemon, a web server and a database, in three processes.

### Inventory

| component | state | operations | talks to | what is hard | what makes it correct | module |
|---|---|---|---|---|---|---|
| slot / epoch / frame arithmetic (`utils/web3converter.py`) | none | conversions | all | negative frames before the initial epoch | agrees with the contract's frames | `Web3Converter` |
| daemon cycle (`modules/common/daemon_module.py`) | `_slot_threshold` | `run_cycle`, `_cycle` | CL node | skipping cycles, exceptions, a timer by signal | a skipped cycle had nothing to do; no cycle sticks | in `OracleReport`, `PerformanceSidecar` |
| two-phase reporting (`modules/oracles/common/consensus.py`, `oracle_module.py`) | caches, sleep | `get_blockstamp_for_report`, `_check_compatibility`, `process_report`, exception handling | contracts | stale reads, upgrade between two blocks, quorum by others, rotation | one vote per frame; data only after consensus; always delivered | `OracleReport` |
| transactions (`web3py/extensions/tx_utils.py`, `utils/transaction.py`) | the account's nonce, the mempool | check, sign, send, wait | EL node | timeouts, replacement, reverts after a good static call | nothing is sent twice | `OracleReport` |
| delegation (`web3py/extensions/delegation.py`) | none | wrap a call | contract | two addresses for one member | permissions where the document puts them | `OracleReport` (`Sender`) |
| `HashConsensus` and report contracts (wrappers in `providers/execution/contracts`) | members, votes, processed data | vote, deliver, remove | daemons | order of transactions | (external) | `HashConsensus` |
| accounting (`modules/oracles/accounting`) | caches of report and extra data | build, simulate, extra data | contracts, CL, vaults | several transactions in order | extra data completes; no ether invisible or counted twice | `OracleReport` (control), `ClRebase` (balances) |
| extra data (`accounting/third_phase`) | none | batch, chain by hash | accounting | reversal, limits, frames cut off | contract accepts every chunk in order; the router catches up | `ExtraData` |
| withdrawals (`services/withdrawal.py`, `safe_border.py`) | none | safe border, batches | accounting | unknown slashing epoch, binary search | never beyond the earliest slashing | `Slashings` |
| bunker (`services/bunker*.py`) | none | predicates | accounting | many border cases | negative rebases and mass slashing are seen, deposits and withdrawals are not taken for them | `Slashings`, `ClRebase` |
| validator state, prediction (`services`) | none | filters, average | accounting, ejector | missed slots and reports | the average is that of the events in the window | `ExtraData`, `Prediction` |
| staking vaults (`services/staking_vaults.py`) | the tree of the last report, on IPFS | total value, liquidity fees, slashing reserve, tree | accounting | events walked backwards, ether seen twice on its way through the predeposit guarantee, states of the past | value is backed, fees follow the debt, the reserve covers the vault's share of what is lost after the report | `VaultValue`, `VaultFees`, `VaultReserve` |
| ejector (`modules/oracles/ejector`, `services/exit_order_iterator.py`) | counters of the iterator | demand loop, next validator, forced exits | contracts, CL | order by five criteria, limit, mutation inside iteration | demand covered or report full, limit and order respected, counters exact | `Ejector`, `ExitOrder`, `Sweep`; its reporting is `OracleReport` |
| staking-module oracles (`modules/oracles/staking_modules`) | caches | demand, wait, fetch, distribute | sidecar, IPFS, contracts | data asked of another process that prunes | every frame is reported; missed reports lose no reward and no strike | `PerformanceSidecar` (control), `Distribution` |
| collector (`modules/sidecars/performance/collector`) | cycle locals, thread pool, two caches of the demands | plan, checkpoints, store, prune | CL node, database | threads, demands changing while it works, restarts with gaps | no retained epoch lost, no demand overlooked, duties are those of the chain | `PerformanceSidecar`, `CheckpointDuties` |
| database (`.../common/db.py`) | tables of epochs, demands, settings | one transaction per method | collector, web | check and act in two transactions | | `PerformanceSidecar` |
| web server and client (`.../web`, `providers/performance`) | none | demands, data, retention | database, consumers | limits read before the demand is stored | | `PerformanceSidecar` |
| providers (`providers/http_provider.py`, `consistency.py`, `consensus/client.py`) | the last header | fallback over hosts | nodes | partial failure, nodes that lag or fork | every host tried, contradictions noticed | `BlockResolution` |
| validators of the protocol (`providers/keys/client.py`, `web3py/extensions/lido_validators.py`) | caches of a cycle | keys in use, their number, validators by operator | Keys API, router, CL node | an API ahead of the reference block, or with keys missing | exactly the protocol's validators, each with its operator | `LidoKeys` |
| IPFS (`web3py/extensions/ipfs.py`, `providers/ipfs`) | index in the ring | publish with quorum, fetch | gateways | oracles with different successes | each provider tried once, same CIDs when they are validated, or when the same uploads succeed | `Ipfs` |
| block resolution (`utils/slot.py`, `events.py`, `block.py`) | none | last block at or before a slot, events and timestamps by slot | CL and EL nodes | missed slots | never past the slot, no event lost or doubled | `BlockResolution`, `ElReads` |
| other web3 extensions, contract wrappers, start-up, checks, metrics, logging | caches | reads | nodes | | | not modelled: I/O |

`PROJECT.json` lists the hazards, each at the line where it bites and with the
properties that cover it, or with the reason why none does.

## 2. Modules

    Web3Converter <- HashConsensus <- OracleReport <- MCOracleReport
                          ^               ^   \
             HashConsensus_proofs <- OracleReport_proofs <- Committee_proofs
                                              \
                                               implements Committee
    PerformanceSidecar <- MCPerformanceSidecar
            ^
    PerformanceSidecar_proofs
    ExitOrder <- Ejector <- MCEjector
                    ^
    Prediction, ExtraData <- Ejector_proofs
    Slashings, ClRebase, ExtraData, VaultFees,
                VaultValue, VaultReserve, LidoKeys <- MCAccountingReport
    LidoKeys, VaultFees, VaultValue, ClRebase, VaultReserve, Slashings <- AccountingReport_proofs
    BlockResolution, CheckpointDuties, Distribution, Ipfs, Sweep,
                                           ElReads <- Prediction <- MCOtherReports
    BlockResolution, Ipfs, Distribution, CheckpointDuties, Sweep <- OtherReports_proofs
    Sums <- Ejector_proofs, AccountingReport_proofs, OtherReports_proofs

(`A <- B`: B extends A.)

**`Web3Converter`** has the conversions as operators, with the same names as in Python.

**`HashConsensus`** is the environment of the daemons: the head and the finalized slot,
the committee, votes, quorum and fast lane, main and extra data, removal of members, an
upgrade of contract and consensus version. The Solidity code is not in this repository;
the guards of `CanVote`, `CanDeliver` and `CanDeliverExtra` come from the wrappers, from
how `consensus.py` and `accounting.py` use them and from the error names in
`assets/*.json`. Assumed: a vote after processing of the report has begun reverts; a vote
equal to the recorded one reverts; votes, main and extra data are void in the next frame.

**`OracleReport`** is the committee. A daemon's `pc` is its place in the cycle:

| `pc` | action | code |
|---|---|---|
| `idle` | `StartCycle` | `DaemonModule._cycle`, finalized block and threshold |
| `blockstamp` | `GetBlockstampForReport` | `get_blockstamp_for_report`: member info, reportability, deadline |
| `compat` | `CheckCompatibilityAndBuild` | `_check_compatibility`, `is_reporting_allowed`, `build_report` through its cache |
| `hash` | `ProcessReportHash` | `_process_report_hash` |
| `data`, `sleepdata` | `ProcessReportData`, `SleepBeforeData` | `_process_report_data` and its sleep, slot by slot |
| `extra`, `sleepextra` | `ProcessExtraData`, `SubmitExtraData` | `process_extra_data`, `_submit_extra_data` |
| `send`, `broadcast`, `wait` | `CheckTransaction`, `SendTransaction`, `HandleSentTransaction` | `TransactionUtils`, once per transaction |
| `dead` | | an exception that `exception_handler` lets through |

A step is everything a daemon does between two looks at the head, because every
`_get_latest_data` reads at the hash of one block. `NonceIndex` is the point of
`build_transaction_params`: the nonce read counts mined transactions only, so it is that of
the oldest unmined transaction, which the new one replaces or clashes with. `free` says
whether the nonce is still unused when the transaction is broadcast. Faults are a failed
request (the cycle ends), a restart (caches and threshold lost) and a dropped transaction.

**`Committee`** is what the committee promises to whoever reads the report contract: for a
final reference slot a quorum whose members could each have come to the same report makes
it the agreed one, at most one agreed report of the current frame is processed, and its
extra data follows in order. It knows no daemon, vote or transaction. `OracleReport`
implements it (`Promise == INSTANCE Committee WITH refSlot <- RefSlot`; the other variables
keep their names): votes, transactions and everything inside a daemon are stutters, the vote
that completes a quorum is `Agree`.

**`PerformanceSidecar`** is the collector with its thread pool, the database, the web
server's requests and the consumers. An action is one database transaction with the
decisions taken on it, which is the grain at which the three processes and the threads
interleave. Time is counted in epochs. `job[e]` is the thread of epoch `e`: `queued`,
`stored` (after `_store_data`), `sized` (retention read), `prune` (newest epoch read).
`fresh` stands for the comparison of `updated_at`: the consumers whose demand is newer
than `last_epochs_demand_update`; demands deleted leave it. The consumer's steps follow
one cycle of `SMPerformanceOracle`: demand unless data is there, the two checks of
`set_epochs_demand`, check of the report's range, check again, batches, report.

**`ExitOrder`** is `ValidatorExitIterator`: `Iterate` counts everything anew (`__iter__`),
`Eject` takes one validator out of the counters of its operator, its module and the other
side of its group (`_eject_validator`, `_decrease_affected_stake`), `Priority` is the sorting
key of an operator (`_no_predicate`) and `FirstOf` the validator the sorted list gives. The
key is a tuple as in the code, compared component by component, greatest first.
`Misconfigured` and `Unsortable` are the exceptions that end the report.

**`Ejector`** is `get_validators_to_eject` (its sweep is a constant here, computed in `Sweep`). Its steps:

| action | code |
|---|---|
| `Start` | the first prediction, the iterator made and reset, the decision to enter the loop |
| `NextValidator`, `NoneLeft`, `CannotSort` | the loop over the iterator: a validator and a new prediction, the limit, the end of the list, a division by a weight of zero |
| `RemainingForced`, `NoForcedLeft` | `get_remaining_forced_validators`, one round of its loop |

`PredictedBalance` is `_get_predicted_el_balance`, with the exit epoch from the churn, the
withdrawals due by then, rewards and the deposit reserve of the accounting frames in between.

### What a report is made of

These modules are components of their own: the code computes something from a chain or
contracts that it reads, and the module has that environment as its state machine, with the
computation as operators evaluated in every state, or at every report. The property compares
the answer with a definition over the history of the environment, which the code cannot see.

| module | code | environment | compared with |
|---|---|---|---|
| `Slashings` | bunker mode by midterm penalties, safe border, finalization batches | exits, slashings, the ring of slashed balances, exit queue, reports or missed ones | the epochs of the slashings and the penalties of the consensus specification |
| `ClRebase` | balances of the report, abnormal rebase | deposit queue with top-ups, strangers and bad signatures; withdrawals; the report before | what the queue will add when played, what validators and vault gained |
| `ExtraData` | newly exited validators, payloads, hash chain, submission | router and report contract, frames that end in the middle | operators' and modules' numbers at the reference slot |
| `VaultFees` | events walked backwards, fees, previous tree | hub: connect, mint, repay, socialise, rate changes, disconnect | the debt at every slot |
| `VaultValue` | total value | predeposit guarantee, deposit queue, activation, sweeps | ether a vault owns or is guaranteed |
| `VaultReserve` | slashing reserve | one slashed validator from slashing to sweep | the balance left and what was lost since the report, or since the window began |
| `BlockResolution` | `utils/slot.py` over fallback hosts and the header cache | nodes that err, lag, deny or fork | the chain |
| `LidoKeys` | Keys API client, count of keys, validators by operator | deposits, operators that register or deposit on their own, instances that lag, lose, repeat or mix up keys | the keys and validators of the reference block |
| `CheckpointDuties` | roots of a checkpoint, proposals, attestations, sync committees and their cache | chain with missed slots, aggregated attestations, rotating committees | the chain |
| `Distribution` | frames, thresholds, rewards, strikes, trees | validators, duties, shares received, slashings, reports or missed ones | each frame reported by itself |
| `Ipfs` | ring of providers, uploads, choice of the CID | providers that fail, several oracles | every provider asked once; the other oracles' CIDs |
| `ElReads`, `Prediction` | events and timestamps of past slots; predicted rewards | missed slots; reports that are late or missed | the events of the window; their average |
| `Sweep` | withdrawals in a sweep cycle | blocks that take partial withdrawals and sweep | the number of blocks it takes |

The reports of `Slashings`, `VaultFees`, `VaultReserve` and `Distribution` are what
`OracleReport` calls a `Variant`, and the frames without a report those in which its
committee finds no quorum in time.

The mutants (`X_Something` before `X`) are versions of an operator with a plausible bug;
a run must refute its property when `X` is replaced by it.

## 3. Runs

| run | configuration | properties | shows |
|---|---|---|---|
| `oracle_races` | 2 members, one removable, quorum 2, 4 slots, 1 fault, upgrade at slot 0 or 4; d1 may build another report after losing its cache, one variant is withheld | `TypeOK`, `DataOnlyAfterConsensus`, `SkipIsHarmless`, `NoDuplicateVote`, `VoteIsStable`, `NoReportAcrossUpgrade`, `ImplementsCommittee` | safety of the protocol under races, removal, an upgrade and one fault; refinement of `Committee` |
| `oracle_delivery` | 3 members, d3 without a daemon, quorum 2, 2 extra data transactions, 1 fault, fairness | `ReportIsDelivered`, `TurnsAreDistinct` | every phase completes, a dead submitter is replaced |
| `oracle_delegation` | 2 members, one behind a delegation contract | `AuthorisedDaemonSurvives` (violated) | finding 1 |
| `sidecar_threads` | no consumer, 3 threads, epochs 5..9, retention 3, may drop to 2, 1 fault, fairness | `RestingWindow`, `RetainedWindowIsKept`, `GapsAreFilled` | storing and pruning in any order |
| `sidecar_demands` | 2 consumers, frames of 3 and 2 epochs, batches of 2 | `TypeOK`, `SleepMeansCollected` | no demand overlooked |
| `sidecar_delivery` | 1 consumer, 1 fault, batches of 2, retention 9, fairness | `ReportsAreDelivered` | a report in every frame that can have one |
| `sidecar_genesis` | chain of 7 epochs | `OldestEpochIsReached` (violated) | finding 2 |
| `sidecar_lost_demand` | 1 consumer, no fault | `OnlySatisfiedDemandsAreDeleted` (violated) | finding 3 |
| `ejector` | 4 operators in 2 modules, 9 validators and a deposited key, 5 sets of groups, 4 of weights, all pairs of exit targets, 4 demands, 3 limits | `ReportFitsLimit`, `CountersMatch`, `ReportIsComplete`, `TargetsComeFirst`, `ExitEpochIsFirst`, `ReportIsMade` | every report over these inputs is complete, within the limit and in order |
| `accounting_report` | the seven modules of the accounting report, one after the other | `PenaltiesAreForeseen`, `SlashingsAreSocialized`, `ReportedBalanceIsComplete`, `RebaseIsOfRewards`, `ExtraDataIsComplete`, `FeesFollowLiabilities`, `NoVaultBlocksTheReport`, `ValueFollowsTheEther`, `ReserveHolds`, `ValidatorsAreLidos` | what the accounting report says is so |
| `other_reports` | the six modules of the other reports, one after the other | `ResolvedIsTheLastBlock`, `CheckpointMatchesTheChain`, `RewardsReachTheOperators`, `StrikesAreOfTheLastFrames`, `FetchAsksEveryProvider`, `OraclesAgreeOnCid`, `ReadsMatchTheChain`, `PredictedSpeedIsTheAverage`, `SweepTakesAsLongAsPredicted` | what the staking-module and ejector reports rest on is so |
| `stale_header` | 2 nodes, the cycles of one frame, nodes that recover, fairness | `ResolvesAfterRecovery` (violated) | finding 4 |

**Bounds.** `MaxSlot` and `MaxHead` end the exploration; the horizon of the oracle runs
holds one whole frame (three slots of one epoch each, the first of which is before the
initial epoch) and part of the next, so that a report is prepared in one frame and sent,
mined or refused in the next, and on either side of an upgrade. `MaxFaults` is one: every place a fault can strike is explored, not two faults in
combination; the invariants among the properties are proved for any number. Deadlock is
not checked because everybody may be idle at the end of the exploration. In
`PerformanceSidecar` `Horizon` keeps `NEXT_FINALIZED_EPOCH` from putting a daemon to sleep
for ever at the last epoch (in the runs with fairness; elsewhere it lies beyond `MaxHead`).
In `Ejector` nothing is bounded but the inputs. They have an operator with nothing left to
exit, one that is above its target through a deposited key only, groups of one and of two
operators on either side, operators of weight zero, and a limit that is met in the loop, in
the forced exits or never. The churn admits two units an epoch, so that a few exits move the
last withdrawal past a frame of the accounting oracle and the prediction falls.
Retentions of 2 to 9 epochs against spans of 3 to 9 make pruning and refusal happen.

`accounting_report` and `other_reports` run independent modules, chosen by the variable
`part` in the initial state; the others rest, so that the state spaces add up instead of
multiplying. Their bounds are the shortest histories in which every case of the code occurs:
three frames of two epochs with an exit queue that is empty or longer than the slashings
vector (`MaxEpoch`, `Queues`), five operations on a deposit queue of two over three blocks
(`MaxOps`, `MaxQueue`, `MaxBlock`), three events between two reports, which may be at the end of any of three
frames, so that a report follows a socialised debt (`MaxEvents`, `MaxSlot`),
four deposits to two keys of two vaults (`MaxDeposits`), extra data of four operators in two
modules, with up to two operators in an item and one item in a transaction, over three frames
(`MaxNodeOps`, `MaxItems`, `MaxFrames`), a slashed validator that
waits less or more than a window of the reserve (`ExitQueues`, `MaxReserveSlot`), two keys
of two instances of the Keys API over three blocks with one fault (`MaxHead`, `MaxFaults`), chains of
five slots behind two nodes, a ring of six roots that wraps by slot 10 (`MaxStateSlot`)
with one deviation from full attestation and sync duty (`MaxDeviations`) and a cache of two
sync periods (`CacheSize`), three
frames of a staking module (`MaxFrame`), two fetches of each reader (`MaxFetches`) from
four providers, whose uploads succeed in any combination (`Completions`) and of which none, one or
two give another CID than the rest, chains of eight slots (`MaxElSlot`) with events up to two slots old
(`MaxLag`), and sweeps over one or five validators with up to two partial withdrawals. The
deadlock check is off, as each history ends at its bound.

**Fairness.** Oracle: blocks keep coming, finality resumes, daemons in `Running` keep
running (`DaemonModule.run_as_daemon` is an endless loop) and what they broadcast is mined
(the fees follow the current base fee). Nothing is assumed of other daemons, of faults or of
removals. Sidecar: collector, each started thread, each consumer and finality keep going;
reports of others, requests of the administrator and faults are never forced. Ejector: the
report is computed without waiting for anybody (one `WF` on `Next`). Block resolution: cycles
keep coming and the nodes recover for good (`CycleSpec`). Weak
fairness is enough everywhere, as a process with something to do stays enabled; where two
steps of a process compete (`Mine` and the daemon that waits) each has its own.

**Findings.**
1. `docs/delegation.md:32` puts all permissions on the delegation contract;
   `consensus.py:192` looks up the account, so a member configured that way exits.
2. `db.py:306` turns an oldest epoch 0 into `None`; a test of the collector relies on 0.
3. `collector.py:172` deletes a demand by its key after looking at an older copy. It heals
   itself, since the consumer posts again, which is part of `ReportsAreDelivered`.
4. `providers/consensus/client.py:118` caches the last header together with the node's word
   on its finality. A header answered by a node that lags behind is not final; every later
   cycle of the frame gets it from the cache and fails, though
   `oracle_module.py:86` treats `SlotNotFinalized` as an error that goes away by itself. A
   restart or the header of another slot replaces it.

## 4. Proofs

`HashConsensus_proofs` has the arithmetic of frames: the reference slot does not decrease
with the head, the frame of a reference slot, finalized slots and deadlines.
`OracleReport_proofs` proves, from the named assumptions on constants (`ConverterAssumption`,
`ConsensusAssumption`, `DaemonAssumption`: distinct members, a quorum of more than half,
one sender per daemon):

- `BaseInvariant`. Types alone are not inductive. `CycleInv` adds what a daemon in its
  cycle knows: its finalized slot and its threshold are not past the checkpoint, the
  reference slot it works for was current at some moment since, and what it built is for
  that slot and for the version of its software. `HeadAhead` says finality is behind the head.
  `TypeCorrect` follows.
- `ConsensusInvariant` and, from it, `DataAfterConsensus` add that a daemon past the consensus check holds a report in
  `agreed`, a history variable that only grows, and that whatever is processed is there too.
- `QueueInvariant`: at most one unmined transaction per daemon, of its version; and between
  the static call and the broadcast the vote is still not recorded as long as the nonce is
  unused. That last conjunct is what makes it inductive: a vote can be recorded for the
  daemon only by mining its own transaction, which uses the nonce up. `VoteNotRepeated`
  and, with the versions, `NoCrossing` follow.
- `VotesAreStable`. Without a fault a daemon that has built a report holds it in its cache until
  it builds for a later reference slot (`StableInv`); what it has sent and what the contract has
  recorded for it is that report or one of an earlier reference slot, and the contract takes
  only votes for the current one.
- `SkippedCyclesHarmless`: for every daemon whose threshold is not behind the finalized
  slot the frame is reported, not yet finalized, past its deadline or of another version.
- `RotationIsDistinct` follows from the types and the arithmetic of the wrap-around.

`Committee_proofs` proves `CommitteeImplemented`, that `OracleReport` implements `Committee`.
The steps of the abstract specification need to know where a vote comes from, which takes an
invariant of its own (`AuthorInv`): what a daemon has built, keeps in its cache or has in the
mempool is for a reference slot that was final and is a report its own computation may come
to, and so is every recorded vote, by some daemon that sends for that address. A vote mined in
a later frame is refused, so that the quorum's members agree on the current reference slot.

`PerformanceSidecar_proofs` rests on `SidecarAssumption`, which has finitely many consumers and
their first frames within the chain. `WindowInvariant` gives `WindowIsKept`: it says what a thread's outdated reads are still worth: past `stored` there is an
epoch at least as new as its own; the retention it read was one that was set; what it is
about to delete lies below `m - LowestRetention + 1` for some stored `m`. Other threads
delete too, but never the newest epoch, so such an `m` remains. Three more results:

- `TypesAreKept`. The types alone are not inductive: the plan of a cycle, the range of a consumer
  and the demands in the database bound each other (`TypeInv`).
- `TableRestsInWindow`. Without a fault every stored epoch is of the retained window or there is
  a thread that is going to delete it: one that has not yet read the newest epoch, or has read
  one that puts it below the window (`RestInv`). At rest there are no threads.
- `SleepIsEarned`. Every epoch below `start` that a known demand asks for and that can be stored
  is stored or about to be, unless the checkpoint failed (`CollectorInv`); a demand that came
  since is in `fresh` and keeps the collector awake. Its hypothesis is that `Horizon` lies
  beyond `MaxHead`: the horizon belongs to the runs with fairness, not to the code.

`OtherReports_proofs` proves `LastBlockIsFound` of `BlockResolution`. The nodes may answer anything but a final
header that is not of the chain. A scan has been told of a missed slot, rightly or not, before it
goes past the slot it is for, so that the header it stops at is checked against its parent
(`ResolutionInv`).

It also proves, of `Ipfs`, `EveryProviderIsAsked` and `OneCidForOneContent`, from distinct providers
(`IpfsAssumption`). A call in progress has asked the providers from the mark on, in the order of
the ring, and is not round yet (`FetchInv`). What an oracle settles on depends on the set of its
successful uploads only, neither on their order nor on its ring (`PublishInv`, `SelectedBySet`): that
settles it for validated CIDs, all of which are right, and for the same set. When different uploads
failed for two oracles and CIDs are not validated, they agree if the providers of one CID outnumber
all others and each oracle's failures together (`Outnumbers`), because that CID then has the majority
of whatever succeeded (`PartsAddUp`, `MajoritySettles`). Otherwise they may differ, and nothing in the code
keeps them from it.

Of `Distribution` it proves `RewardsAreDue` and `StrikesAreRecent`, from finitely many operators and
validators and interval lists that begin at the first key (`DistributionAssumption`; the contracts
that keep the lists refuse others). The invariant (`DistInv`) says that for some `k` the
contracts hold what the first `k` frames give, each by itself, and that what is pending at the end of a
later frame is what was received since. A report loops over the frames from `k` on. The recursive function of the loop
is followed as the sequence of its values (`LoopExists`), and every value is right (`LoopInv`): what is
left to share out in a frame is what was received in it, because all that was pending before has been
given or rebated by the loop (`FrameAdds`); the strikes move by one place (`StrikesShift`). The tree
never has a single leaf, as the stone is added to it or stays (`WithStoneFacts`).

Of `CheckpointDuties` it proves `CheckpointMatchesTheChain`, for every size of the ring, of an epoch and of
the committees. The invariant (`CheckpointInv`) says what the ring holds: of every slot in range the last
block up to it (`RingOfRoots`). Two neighbours are therefore equal exactly where a slot was
missed, except for the oldest place, whose neighbour is the newest; there the
header decides. Attestations are bits of several committees laid end to end: `Attested` walks over them with an offset, which is the
length of the bits so far, also when a committee is not among them, and so reads for every member its own bit. The sync committee of a period is the same
whatever the cache evicted. It has the hypothesis that some node can tell it
(`SyncCommitteeIsKnown`): the code asks at the last block up to the first slot of the epoch, and a state knows the committees of its own
period and the next. If no block came for longer, the request fails and so does the checkpoint.

Of `Sweep` it proves `SweepIsForeseen`, that `SweepTakesAsLongAsPredicted`. The closed form of the code (the sweep's withdrawals, and as many
partial ones as fit beside them) is the least number of payloads that have room for
both (`IsNeed`, `NeedPredicted`), and a payload that takes what it has room for leaves a need that
is one smaller (`NeedStep`), whichever of the two runs out first. The invariant (`Foreseen`) is that the blocks still
predicted are the blocks still needed. It holds as what a payload takes does not
depend on the order: a request takes what the prediction says whether the sweep came to its validator
before or not (`EnoughForAll`, `EnoughAfterSweep`), and those that wait for the sweep are the same
with and without the requests (`SweptAnyway`). The payload's requests, a recursive function
over the queue, are summed up to the place where it is full (`TakenUpTo`). The hypothesis that
the property states, `Uncontested`, is itself preserved by every payload.

`Ejector_proofs` has the safety of the ejector's report for all operators, modules, groups,
weights, balances, targets, demands and limits, from `EjectorAssumption`, `ExitOrderAssumption` and
`ScaleAssumption` (every division of a group's stake is exact; see section 5). Balances are sums
over finite sets. The facts about sums that these proofs and those of the vaults and the rewards share are in
`Sums`. As the prover has no induction over data, they (`SumFacts`,
`FoldIsSum`) come from a least counterexample: a set of smallest size for which they fail.
That a recursive function solves its equation is one lemma of `Sums` over any well-founded recursion (`Recursion`).

- `ReportPassesTheLimit`: the validators still in the iterator are not in the report, no validator
  is in it twice, and `max_current_exit_balance` is the sum over the report as long as it is
  within the limit (`ReportInv`).
- `NothingIsLeftOut`: the prediction is of the reference slot and changes with what is asked
  only (`CompleteInv`).
- `TargetsOutrankShares`: the first two places of the sorting key decide before the others, and
  whoever is taken by them stays at or above its target afterwards (`TargetsInv`).
- `CountersStayTrue`: the counters of the iterator equal those computed anew from the validators
  left (`CountersInv`). It needs the groups to be disjoint on either side (`WellGrouped`), which
  `_process_group` checks for the external and for the internal operators. The operators that compute the counters are restated with
  groups, weights and validators as parameters (`SharedOf`, `OperatorStatsOf`...), since a primed
  operator is opaque to the provers.
- `FirstEpochIsPredicted`: the exit epoch in closed form is the first at which the churn of the
  epochs so far admits the balance.

It also proves what the ejector reads of the execution layer, `ReadsMatch` of `ElReads` and `SpeedIsAverage` of
`Prediction`. The code is recursive in three places (ranges of blocks, filters, halves of
a list of blocks), and the model writes each as a recursive function (`Recursion`);
what it computes is again shown from the least counterexample.
The invariant of the chain (`ElInv`) is that two blocks are at least as many slots apart as
their numbers: hence the block from which the search begins is not after any event of the window, and a list of blocks
whose ends are as far apart in slots as in numbers has no missed slot in between (`CalculatedIsFetched`). A list
is described by its members and their order (`Listed`), and two such lists are one if the
order has no cycle (`ListedUnique`): so the events found are the last reports processed, one for each
(`RecentAreLast`), and their periods add up to the time from the first to the last (`SumOfSteps`).

The exits that the ejector asked for come back in the extra data of later reports: the third part is
`ExtraDataCompletes` of `ExtraData`. Sorting puts every operator at the place that those before
it leave (`SortedFacts`): the order of pairs is total, so nobody is lost and nobody comes twice. The payloads are cut
from that sequence by a recursive function; together they list it from end to end,
no payload mixes modules or is longer than `MaxNodeOps` (`PayloadsAreItems`). The
transactions cut the items in the same way (`TransactionsFacts`), and as the data of transaction `i` holds all that follows, no other
transaction of the chain has the hash that the contract waits for (`HashesFacts`). The invariant (`ExtraInv`) says of
every state how far the report is: the first `k` transactions have come through, the contract waits for the next,
the router knows of the operators in them what the reference slot says and of the others what it
knew then, and nowhere does it know more than has exited (`NotAhead`). Hence the next
transaction is accepted and no other is (`NextAccepted`).

`AccountingReport_proofs` proves `KeysSafety` of `LidoKeys`. Its environment may do anything to an instance of the
Keys API but invent a key or move one to another module, and a key that has a validator is
never used afterwards. The invariant says that of keys and validators (`Past`) and of the
instances (`ApiIsOfTheChain`); an answer that passes the checks then lists each key once, with
its operator (`CheckedAnswer`). That the count of keys bounds what is missing is a counting
argument (`NewForMissing`): every key lost is made up for by one used after the reference
block. The count is what the property rests on, and the keys of a single module, which
`distribution.py:135` asks for, do not go through it: for them only the validators found are
right, not their number. A validator whose module or operator is unknown at the reference block ends
the reading with a `KeyError` (`IsUnknown`), except that the reading of all modules skips an operator
that its known module does not have.

Of `VaultFees` it proves `VaultsNeverBlock` and `VaultsPayWhatTheyOwe`. The invariant (`FeesInv`)
says of every state what the properties say of a report: one made now would find the shares of
the last report (or none, of a vault that was connected since) and would charge every vault what
it has owed. The fold over the events is followed by the sequence of its values
(`FoldExists`, `WalkTrace`), and what holds of every value is shown from the last event to the first
(`Downward`, a least counterexample). An event appended is undone first and leads to the vault
before it (`ChargedAppend`); one slot later every vault is charged its shares times its rate more
(`ChargedLater`), which is what it owes by then; a report is followed by one that starts from
its tree (`ChargedReported`).

Of `VaultValue` it proves `ValueIsNeverLost`: the value is backed in every state and no step loses it.
`TotalValue` adds up validators and unmatched deposits, two sets of keys that change with every
deposit; `ValuesAreSums` makes it one sum over all keys. It holds because a key that is predeposited
and has no validator still has its valid deposit in the queue (`PredepositsAreKnown`). Key by key, what is
counted is no more than what the key will be worth: the first deposit of a key is no smaller than a
predeposit (`FirstDepositsAreFull`), so that the guarantee never exceeds the balance. For the steps,
`ValueMoves` reduces the drop of a vault's value to that of one key, compared with what the vault's own
balance gains or pays. A deposit that leaves the queue moves the sum by one place (`SumShift`).

Of `ClRebase` it proves `NoEtherIsInvisible` and `RebaseCountsRewardsOnly`. What the queue adds when its deposits
are played one after another (`Landing`, a recursive function) is compared with the code's rule of the first
valid deposit, prefix by prefix: `PlayedTo` says which keys have validators, which are barred and what has
been added so far, and one deposit more changes both sides alike (`PlayGoesOn`, `ComingAppend`). That is true of
any queue and needs no invariant. For the rebase, the deposits of the protocol, the vault and what reports took
from it make every block's `Wealth`; the code's formula is the difference of wealth as long as the blocks looked at are of the frame,
so that the contract's counter of deposits was not reset in between and each report's payment is among
the events (`SamplesAreOfTheFrame`). That there is no false alarm is `NothingVanishes`: without foreign
credentials no step but a penalty takes from what any set of keys holds that includes the protocol's.
The invariant has to speak of every such set, as the keys at both blocks are those of the later one.

Of `VaultReserve` it proves `ReserveIsEnough`: after every step the reserve is enough, and no step
within the window changes it. Two history variables say what the validator has lost: `losses` so far, and `lossesBy` at every epoch whose
balance is remembered; balance and losses together never grow (`PastIsKnown`), whatever the sweep
takes. A report that has seen the slashing holds the vault's share of the balance at the report, and so covers
what is there and what was lost since, until the window after the withdrawable epoch closes. Before
the window that is all it promises: the balance it is a share of is already reduced by what was lost before the report.
Within the window every report reads the balance at the window's first epoch, so that the amount
stays and also covers what was lost since that epoch, however little is left (`ReserveInv`).

Of `Slashings` it proves `SlashingsSpareNobody`. The invariant (`SlashInv`) says where a slashed
validator's withdrawable epoch comes from: its slashing or its exit, in which case the code
finds the two epochs too close to tell and searches. The binary search is a recursive function
of its bounds; as slashings seen in a frame are seen in every later one, it ends at the first frame
that shows any, or at the nearest bound (`Nearest`, `SearchFinds`, again by a least counterexample).
What is found is in a frame at or before that of every open slashing, or so far back that
the border does not move (`EarliestIsEarly`). Two hypotheses: `INITIAL_EPOCH # 0`, as
`safe_border.py:121` takes an earliest slashing in epoch 0 for none (the deployed contracts begin
later), and `HorizonAssumption`, that no exit queue of the instance reaches what stands for
`FAR_FUTURE_EPOCH`.

It also proves `PenaltiesAreForeseen` of `Slashings`. The property is about the time since a report in which nobody
was slashed and the active balance stayed (`quiet`); the invariant (`PredictionHolds`) speaks of that time
only. The buckets of the epochs since the report are empty, so that a prediction made now
(`PenaltyAhead`) never grows: each epoch frees one more bucket, and at the midterm epoch what the chain
sums up is what `_cut_slashings` left. What was taken from Lido in a frame is bounded by the predictions for the validators
whose midterm epoch in that frame has passed (`ExpectedBefore`), and the predictions of every
frame together by `cover`, the rebase the report expected; in bunker mode and at the first report
`cover` is all that Lido has, which no penalties exceed (`SumScaled`).

**Only model-checked.** Liveness (`ReportIsDelivered`, `ReportsAreDelivered`,
`GapsAreFilled`, `ReportIsMade`), which is out of the prover's reach. Every invariant and
action property of the passing runs is a theorem.

## 5. What is left out

- Slots without a block and reorganisations of the head. The daemons read finalized blocks
  for reports; only the head's votes could be undone.
- Three hazards of `PROJECT.json` have a model but no property, as the code promises nothing about
  them. A quorum lost while a daemon sleeps is left to the contract, which refuses the data;
  `agreed` remembers the quorum. Under a demand nothing is pruned when the retention covers
  its span (`sidecar_delivery`: 9 epochs, the least that does); a smaller one makes the web server
  refuse the demand. A demand accepted just before the retention moves is seen by no consumer in the runs.
- The fast lane of the runs is one slot long, so that no vote comes too early for its member. With
  `FastLaneLen = 2` and `MaxSlot = 5` TLC finds no error in `oracle_delivery` either, but it takes
  nearly five minutes (1 581 768 states).
- A daemon that ended stays ended (its supervisor would restart it into the same error).
- Two reads of versions at `latest` within `_check_compatibility` are one step.
- Dry and manual mode, `WeightsNotUpdatedError`, `refresh_contracts`, telemetry, gas and fees.
- In `ExitOrder` and `Ejector`: floats. Stakes are integers, multiples of `Scale`, and `Scale`
  is such that every division of the instance is exact (`ScaleAssumption`); `CountersMatch` therefore holds of the
  code up to rounding. The length of the sweep, the rewards per epoch and the churn limit are
  constants of a report; so are the validators on exit that mature (`Maturing`). The
  identification of the curated modules and the encoding of the report are left out.
- The content of reports: a `Variant` is a class of equal reports. Empty extra data of the
  accounting oracle is one transaction; `ExtraList[v] = <<>>` stands for the oracles that
  have none.
- In the sidecar: block roots and duties inside a thread; a change of the consumer's
  address; the endpoint that deletes a demand. A processed report is in the finalized state
  one epoch later. `ReportsAreDelivered` needs a retention that covers the span demanded,
  which the web server enforces when a demand is posted.
- The timer of a cycle, which raises once through SIGALRM and can be swallowed by a broad
  `except`; retries of one request to one host; telemetry. A retention lowered
  below a demand makes the collector repeat work (`web/server.py`).
- In `Slashings` and `ClRebase`: the branch for contracts before version 4, balances by
  module, the normal rebase (a constant), the first frame after the initial epoch 0, where a
  slashing at epoch 0 counts as none (`safe_border.py:121`). The simulation of a report is a
  call to a contract.
- In `Distribution`: proposals and sync duties, which
  go through the same functions with other weights; rounding, as the shares are exact.
- In `Sweep`: partial withdrawals that are not mature, balances that change otherwise, and the
  limit of validators that a sweep passes in a block, as the docstring of the code assumes. Division is
  exact: mainnet's ratio `8 / (16 - 8)` is. The property is restricted to reports where partial
  withdrawals and the sweep do not contest a balance (`Uncontested`): where a validator is asked for
  more than it has, each request is measured against the whole balance (`sweep.py:121`) and
  the prediction is too long; where the sweep comes to a validator before its requests, what
  they find left decides.
- A weight of zero in `exit_order_iterator.py:369` ends the ejector's report with an exception,
  which the model has as a failed report.
- Other web3 extensions, contract wrappers, start-up checks, metrics and logging read, decode or
  print and keep no state that a report depends on.

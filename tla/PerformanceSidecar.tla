------------------------- MODULE PerformanceSidecar -------------------------
(***************************************************************************)
(* The performance sidecar: the collector daemon (src/src/modules/sidecars *)
(* /performance/collector) fills the table of epochs from the beacon chain *)
(* and prunes it, the web server (../web/server.py) takes demands and      *)
(* serves data, and the staking-module oracles (src/src/modules/oracles/   *)
(* staking_modules/base.py) demand a range, wait for it and report it.     *)
(*                                                                         *)
(* All of them share one PostgreSQL database (../common/db.py) in which    *)
(* every method of DutiesDB is a transaction of its own: an action is one  *)
(* such transaction with the decisions taken on it.  Duties are not        *)
(* modelled, only which epochs are stored.                                 *)
(***************************************************************************)
EXTENDS Integers, FiniteSets, FiniteSetsExt

CONSTANTS
  Consumer,      \* staking-module oracles, by the address of their contract
  FrameLen,      \* FrameLen[c]: EPOCHS_PER_FRAME of c's HashConsensus
  FirstFrame,    \* FirstFrame[c]: its initial epoch
  FirstHead,     \* epoch of the finalized block when the system starts
  MaxHead,       \* bound: epoch of the last finalized block
  Horizon,       \* MaxHead where whoever waits for the next finalized epoch is to
                 \* wake up at MaxHead all the same, otherwise past it
  InitRetention, \* retention_epochs the database is seeded with
  Retentions,    \* values an administrator may set it to
  MaxStep,       \* MAX_CHECKPOINT_STEP
  Workers,       \* PERFORMANCE_COLLECTOR_MAX_CONCURRENCY
  FetchStep,     \* PERFORMANCE_COLLECTOR_EPOCHS_BATCH_SIZE
  MaxFaults,     \* bound: crashes, failed threads, stale reads, settings
  None

Epoch == 0..MaxHead

ASSUME SidecarAssumption ==
  /\ FrameLen \in [Consumer -> Nat \ {0}]
  /\ FirstFrame \in [Consumer -> Nat]
  /\ IsFiniteSet(Consumer)
  /\ \A c \in Consumer : FirstFrame[c] > FrameLen[c] /\ FirstFrame[c] <= MaxHead
  /\ FirstHead \in Nat /\ MaxHead \in Nat /\ Horizon \in Nat
  /\ FirstHead <= MaxHead
  /\ InitRetention \in Nat \ {0}
  /\ Retentions \subseteq Nat \ {0}
  /\ MaxStep \in Nat \ {0} /\ Workers \in Nat \ {0} /\ FetchStep \in Nat \ {0}
  /\ MaxFaults \in Nat
  /\ None \notin Int

VARIABLES
  head,       \* epoch of the last finalized block
  epochs,     \* table Duty: the epochs stored
  demands,    \* table EpochsDemand, by consumer
  retention,  \* table Settings: retention_epochs
  pc,         \* where the collector is
  threshold,  \* its _slot_threshold, as the epoch of that block
  cycle,      \* epoch of the finalized block its cycle started from
  start,      \* start_epoch of the plan, then the next checkpoint's first epoch
  snapshot,   \* demands read by get_epochs_demands and still to be looked at
  job,        \* job[e]: stage of the thread of epoch e, and what it has read
  broken,     \* whether a thread of the checkpoint failed
  fresh,      \* consumers whose demand is newer than last_epochs_demand_update
  seen,       \* last_demands_count
  step,       \* where each consumer is
  waited,     \* _slot_threshold of each consumer, as an epoch
  from,       \* head its cycle started from
  range,      \* range it demands, then reports
  limit,      \* retention read by the request it is waiting for
  landed,     \* last epoch of the last report processed on chain
  visible,    \* the same in the state of the finalized block
  faults      \* number of faults so far

chainVars == <<head, landed, visible>>
dbVars == <<epochs, demands, retention>>
collectorVars == <<pc, threshold, cycle, start, snapshot, job, broken, fresh, seen>>
consumerVars == <<step, waited, from, range, limit>>
vars == <<head, epochs, demands, retention, pc, threshold, cycle, start, snapshot,
          job, broken, fresh, seen, step, waited, from, range, limit, landed,
          visible, faults>>

\* Mutant: the block's own epoch is taken for collectable.
MaxAvailable_NoDelay(h) == h

\* CHECKPOINT_SLOT_DELAY_EPOCHS, and the finalized epoch is the one before the block's.
MaxAvailable(h) == h - 1 - 2

Idle == [at |-> "none", n |-> 0]

EpochRange == [from : Epoch, to : Nat]

Epochs(r) == r.from..r.to

-----------------------------------------------------------------------------
(* DutiesDB *)

\* `result if result else None`: an epoch 0 counts as no epoch.
OrNone(e) == IF e = 0 THEN None ELSE e

min_epoch == IF epochs = {} THEN None ELSE OrNone(Min(epochs))

max_epoch == IF epochs = {} THEN None ELSE OrNone(Max(epochs))

is_range_available(r) == Epochs(r) \subseteq epochs

demands_count == Cardinality({c \in Consumer : demands[c] # None})

\* updated_at is a clock: a demand is newer than the newest one seen, or it is not.
StoreDemand(c, r) ==
  /\ demands' = [demands EXCEPT ![c] = r]
  /\ fresh' = fresh \cup {c}

\* The row goes by its primary key, whatever it holds by now.
DeleteDemand(c) ==
  /\ demands' = [demands EXCEPT ![c] = None]
  /\ fresh' = fresh \ {c}

\* Whether a finalized block of epoch h is one to run a cycle on (_slot_threshold).
Awake(h, waitedFor) == h > waitedFor \/ h = Horizon

Fault == faults < MaxFaults /\ faults' = faults + 1

-----------------------------------------------------------------------------
(* The collector's plan: _define_epochs_to_process_range *)

\* What execute_module leaves of a cycle: nothing but the two caches and the
\* threshold, which only NEXT_FINALIZED_EPOCH moves.
EndCycle ==
  /\ pc' = "idle"
  /\ cycle' = 0 /\ start' = 0 /\ snapshot' = {}

\* A cycle starts on a finalized block past the threshold.  The node that answers
\* may be one epoch behind.  If the database is ahead of it the plan raises
\* ValueError and the cycle ends.
StartCycle(h) ==
  /\ pc = "idle"
  /\ Awake(h, threshold)
  /\ \/ h = head /\ UNCHANGED faults
     \/ h = head - 1 /\ Fault
  /\ LET available == MaxAvailable(h)
         behind == max_epoch # None /\ max_epoch > available
     IN IF available < 0
          THEN EndCycle /\ threshold' = h
        ELSE IF behind
          THEN EndCycle /\ UNCHANGED threshold
        ELSE /\ pc' = "read"
             /\ cycle' = h
             /\ start' = IF min_epoch = None THEN available ELSE min_epoch
             /\ UNCHANGED <<threshold, snapshot>>
  /\ UNCHANGED <<dbVars, job, broken, fresh, seen, consumerVars, chainVars>>

\* get_epochs_demands.
ReadDemands ==
  /\ pc = "read"
  /\ pc' = "plan"
  /\ snapshot' = {[c |-> c, r |-> demands[c]] : c \in {d \in Consumer : demands[d] # None}}
  /\ UNCHANGED <<threshold, cycle, start, job, broken, fresh, seen, dbVars,
                 consumerVars, chainVars, faults>>

\* Mutant: the last demand looked at decides alone.
LookAtDemand_LastWins(d) ==
  /\ pc = "plan" /\ d \in snapshot
  /\ snapshot' = snapshot \ {d}
  /\ IF is_range_available(d.r)
       THEN DeleteDemand(d.c) /\ UNCHANGED start
       ELSE start' = d.r.from /\ UNCHANGED <<demands, fresh>>
  /\ UNCHANGED <<pc, threshold, cycle, job, broken, seen, epochs, retention,
                 consumerVars, chainVars, faults>>

\* One demand of the snapshot: deleted when its range is stored, otherwise it may
\* lower start_epoch.  No thread runs: only the demand itself can be outdated.
LookAtDemand(d) ==
  /\ pc = "plan" /\ d \in snapshot
  /\ snapshot' = snapshot \ {d}
  /\ IF is_range_available(d.r)
       THEN DeleteDemand(d.c) /\ UNCHANGED start
       ELSE start' = Min({start, d.r.from}) /\ UNCHANGED <<demands, fresh>>
  /\ UNCHANGED <<pc, threshold, cycle, job, broken, seen, epochs, retention,
                 consumerVars, chainVars, faults>>

\* Mutant: what was never stored is not looked for below the newest epoch.
Missing_OnlyNew == (start..MaxAvailable(cycle)) \ (epochs \cup 0..(Max(epochs \cup {0})))

Missing == (start..MaxAvailable(cycle)) \ epochs

\* The checkpoints start at the first missing epoch.  With none missing start_epoch
\* is past the newest one (None: NEXT_FINALIZED_EPOCH), unless the database looks
\* empty, which raises ValueError.
ChooseStart ==
  /\ pc = "plan" /\ snapshot = {}
  /\ IF Missing # {}
       THEN /\ start' = Min(Missing)
            /\ pc' = "checkpoint"
            /\ UNCHANGED <<threshold, cycle, snapshot>>
       ELSE /\ EndCycle
            /\ threshold' = IF max_epoch = None THEN threshold ELSE cycle
  /\ UNCHANGED <<job, broken, fresh, seen, dbVars, consumerVars, chainVars, faults>>

-----------------------------------------------------------------------------
(* The collector's checkpoints: FrameCheckpointProcessor *)

Checkpoint == start..Min({start + MaxStep - 1, MaxAvailable(cycle)})

\* exec: the epochs of the checkpoint that has_epoch does not find go to the pool.
ProcessCheckpoint ==
  /\ pc = "checkpoint"
  /\ pc' = "threads"
  /\ job' = [e \in Epoch |-> IF e \in Checkpoint \ epochs
                               THEN [Idle EXCEPT !.at = "queued"] ELSE Idle]
  /\ start' = Max(Checkpoint) + 1
  /\ UNCHANGED <<threshold, cycle, snapshot, broken, fresh, seen, dbVars,
                 consumerVars, chainVars, faults>>

\* The pool takes the epochs in order, as many at a time as it has workers.
Started(e) ==
  /\ job[e].at # "none"
  /\ Cardinality({f \in Epoch : f < e /\ job[f].at # "none"}) < Workers

SetJob(e, at, n) == job' = [job EXCEPT ![e] = [at |-> at, n |-> n]]

ThreadsOnly == UNCHANGED <<pc, threshold, cycle, start, snapshot, fresh, seen,
                           demands, retention, consumerVars, chainVars>>

\* _check_duties up to _store_data.
StoreData(e) ==
  /\ job[e].at = "queued" /\ Started(e)
  /\ epochs' = epochs \cup {e}
  /\ SetJob(e, "stored", 0)
  /\ ThreadsOnly /\ UNCHANGED <<broken, faults>>

\* _prune: retention first, then the newest epoch, then the deletion.
PruneReadRetention(e) ==
  /\ job[e].at = "stored"
  /\ SetJob(e, "sized", retention)
  /\ ThreadsOnly /\ UNCHANGED <<epochs, broken, faults>>

\* Mutant: the window ends at the epoch of the thread.
PruneFrom_OwnEpoch(e, r) == e - r + 1

\* Mutant: one epoch of the window is lost.
PruneFrom_OffByOne(e, r) == (IF max_epoch = None THEN e ELSE max_epoch) - r + 2

\* min_epoch_to_keep.
PruneFrom(e, r) == (IF max_epoch = None THEN e ELSE max_epoch) - r + 1

PruneReadNewest(e) ==
  /\ job[e].at = "sized"
  /\ IF PruneFrom(e, job[e].n) <= 0
       THEN SetJob(e, "none", 0)
       ELSE SetJob(e, "prune", PruneFrom(e, job[e].n))
  /\ ThreadsOnly /\ UNCHANGED <<epochs, broken, faults>>

PruneDelete(e) ==
  /\ job[e].at = "prune"
  /\ epochs' = {f \in epochs : f >= job[e].n}
  /\ SetJob(e, "none", 0)
  /\ ThreadsOnly /\ UNCHANGED <<broken, faults>>

\* A request to the node or a statement fails.
ThreadFails(e) ==
  /\ Fault
  /\ Started(e)
  /\ broken' = TRUE
  /\ SetJob(e, "none", 0)
  /\ ThreadsOnly /\ UNCHANGED epochs

\* The cycle's timer fires in the main thread, which waits for the others.
TimerFires ==
  /\ Fault
  /\ pc = "threads" /\ ~broken
  /\ broken' = TRUE
  /\ ThreadsOnly /\ UNCHANGED <<epochs, job>>

\* Outside the pool exception_handler swallows a failed request and the timer's
\* exception alike, and the next slot brings a new cycle.
CycleFails ==
  /\ Fault
  /\ pc \in {"read", "plan", "checkpoint"}
  /\ EndCycle
  /\ UNCHANGED <<threshold, job, broken, fresh, seen, dbVars, consumerVars, chainVars>>

\* The process starts again and __init__ reads the state of the demands.
Restart ==
  /\ EndCycle
  /\ threshold' = -1
  /\ job' = [e \in Epoch |-> Idle]
  /\ broken' = FALSE
  /\ fresh' = {}
  /\ seen' = demands_count
  /\ UNCHANGED <<dbVars, consumerVars, chainVars>>

\* SystemExit: what has not started is cancelled, what has started ends first.
Shutdown ==
  /\ pc = "threads" /\ broken
  /\ IF \A e \in Epoch : job[e].at = "none"
       THEN Restart
       ELSE /\ job' = [e \in Epoch |-> IF Started(e) THEN job[e] ELSE Idle]
            /\ job' # job
            /\ ThreadsOnly /\ UNCHANGED <<epochs, broken>>
  /\ UNCHANGED faults

Crash == Fault /\ Restart

\* After a checkpoint: a changed demand (its newest updated_at, or how many there
\* are) ends the cycle with NEXT_SLOT, so that the next one plans anew; the last
\* checkpoint ends it until the next finalized block.
CheckDemands ==
  /\ pc = "threads" /\ ~broken
  /\ \A e \in Epoch : job[e].at = "none"
  /\ LET changed == fresh # {} \/ demands_count # seen
     IN CASE changed ->
               EndCycle /\ fresh' = {} /\ seen' = demands_count /\ UNCHANGED threshold
          [] ~changed /\ start > MaxAvailable(cycle) ->
               EndCycle /\ threshold' = cycle /\ UNCHANGED <<fresh, seen>>
          [] OTHER ->
               pc' = "checkpoint" /\ UNCHANGED <<threshold, cycle, start, snapshot, fresh, seen>>
  /\ UNCHANGED <<job, broken, dbVars, consumerVars, chainVars, faults>>

-----------------------------------------------------------------------------
(* A consumer: SMPerformanceOracle, and the requests it makes of the web server *)

\* First epoch of the frame of head h.
FrameStart(c, h) ==
  FirstFrame[c] + ((h - FirstFrame[c]) \div FrameLen[c]) * FrameLen[c]

RefEpoch(c, h) == FrameStart(c, h) - 1

\* _get_predicted_range: to the end of the current frame.
PredictedRange(c, h) ==
  [from |-> visible[c] + 1, to |-> RefEpoch(c, h) + FrameLen[c]]

Goto(c, l) == step' = [step EXCEPT ![c] = l]

\* The consumer's cycle ends with NEXT_SLOT or an error, or with NEXT_FINALIZED_EPOCH.
Leave(c) ==
  /\ Goto(c, "idle")
  /\ range' = [range EXCEPT ![c] = None]
  /\ from' = [from EXCEPT ![c] = 0]
  /\ limit' = [limit EXCEPT ![c] = 0]

Stay(c) == Leave(c) /\ UNCHANGED waited
Wait(c) == Leave(c) /\ waited' = [waited EXCEPT ![c] = from[c]]

ReadsOnly == UNCHANGED <<collectorVars, dbVars, chainVars, faults>>

\* push_epochs_demand asks for the stored count.  The frames have begun.
StartConsumer(c) ==
  /\ step[c] = "idle"
  /\ Awake(head, waited[c]) /\ head >= FirstFrame[c]
  /\ LET r == PredictedRange(c, head)
     IN /\ range' = [range EXCEPT ![c] = r]
        /\ Goto(c, IF is_range_available(r) THEN "report" ELSE "demand")
  /\ from' = [from EXCEPT ![c] = head]
  /\ UNCHANGED <<waited, limit>> /\ ReadsOnly

\* get_epochs_demand: a demand is posted unless the same one is there.
ReadOwnDemand(c) ==
  /\ step[c] = "demand"
  /\ Goto(c, IF demands[c] = range[c] THEN "report" ELSE "retention")
  /\ UNCHANGED <<waited, from, range, limit>> /\ ReadsOnly

\* set_epochs_demand: more epochs than are retained are refused (422).
CheckSpan(c) ==
  /\ step[c] = "retention"
  /\ IF Cardinality(Epochs(range[c])) > retention
       THEN Stay(c)
       ELSE /\ Goto(c, "newest")
            /\ limit' = [limit EXCEPT ![c] = retention]
            /\ UNCHANGED <<waited, from, range>>
  /\ ReadsOnly

\* So is a range that starts before what is retained.
CheckNewest(c) ==
  /\ step[c] = "newest"
  /\ LET keep == max_epoch - limit[c] + 1
     IN IF max_epoch # None /\ keep > 0 /\ range[c].from < keep
          THEN Stay(c)
          ELSE Goto(c, "store") /\ UNCHANGED <<waited, from, range, limit>>
  /\ ReadsOnly

\* store_demand.
PostDemand(c) ==
  /\ step[c] = "store"
  /\ StoreDemand(c, range[c])
  /\ Goto(c, "report")
  /\ limit' = [limit EXCEPT ![c] = 0]
  /\ UNCHANGED <<epochs, retention, pc, threshold, cycle, start, snapshot, job,
                 broken, seen, waited, from, range, chainVars, faults>>

ReportRange(c) == [from |-> landed[c] + 1, to |-> RefEpoch(c, from[c])]

\* get_blockstamp_for_report (None once the frame is reported) and
\* check_report_range_availability.
CheckReport(c) ==
  /\ step[c] = "report"
  /\ IF landed[c] >= RefEpoch(c, from[c]) \/ ~is_range_available(ReportRange(c))
       THEN Wait(c)
       ELSE /\ range' = [range EXCEPT ![c] = ReportRange(c)]
            /\ Goto(c, "recheck")
            /\ UNCHANGED <<waited, from, limit>>
  /\ ReadsOnly

\* _prepare_duties_state looks again: ValueError if an epoch is gone.
Recheck(c) ==
  /\ step[c] = "recheck"
  /\ IF is_range_available(range[c])
       THEN Goto(c, "fetch") /\ UNCHANGED <<waited, from, range, limit>>
       ELSE Stay(c)
  /\ ReadsOnly

\* get_epochs_data, one request per batch; gaps are refused (409).
FetchBatch(c) ==
  /\ step[c] = "fetch"
  /\ LET last == Min({range[c].from + FetchStep - 1, range[c].to})
     IN CASE ~(range[c].from..last \subseteq epochs) -> Stay(c)
          [] range[c].from..last \subseteq epochs /\ last = range[c].to ->
               Goto(c, "submit") /\ UNCHANGED <<waited, from, range, limit>>
          [] OTHER ->
               /\ range' = [range EXCEPT ![c].from = last + 1]
               /\ UNCHANGED <<step, waited, from, limit>>
  /\ ReadsOnly

\* The report is processed on chain, this oracle's or that of the others.
Land(c, e) == landed' = [landed EXCEPT ![c] = Max({landed[c], e})]

SubmitReport(c) ==
  /\ step[c] = "submit"
  /\ Land(c, RefEpoch(c, from[c]))
  /\ Stay(c)
  /\ UNCHANGED <<collectorVars, dbVars, head, visible, faults>>

\* Any request of the cycle fails, its effect on the other side stays.
RequestFails(c) ==
  /\ Fault
  /\ step[c] # "idle"
  /\ Stay(c)
  /\ UNCHANGED <<collectorVars, dbVars, chainVars>>

-----------------------------------------------------------------------------
(* Environment *)

\* The other oracles report the current frame without this one.
OthersReport(c) ==
  /\ head >= FirstFrame[c] /\ landed[c] < RefEpoch(c, head)
  /\ Land(c, RefEpoch(c, head))
  /\ UNCHANGED <<collectorVars, dbVars, consumerVars, head, visible, faults>>

\* The next epoch is finalized, with what has landed.
Finalize ==
  /\ head < MaxHead
  /\ head' = head + 1
  /\ visible' = landed
  /\ UNCHANGED <<landed, collectorVars, dbVars, consumerVars, faults>>

\* PUT /admin/settings/retention-epochs.
SetRetention(r) ==
  /\ Fault
  /\ r # retention
  /\ retention' = r
  /\ UNCHANGED <<epochs, demands, collectorVars, consumerVars, chainVars>>

-----------------------------------------------------------------------------
Init ==
  /\ head = FirstHead
  /\ epochs = {} /\ retention = InitRetention
  /\ demands = [c \in Consumer |-> None]
  /\ pc = "idle" /\ threshold = -1 /\ cycle = 0 /\ start = 0 /\ snapshot = {}
  /\ job = [e \in Epoch |-> Idle] /\ broken = FALSE
  /\ fresh = {} /\ seen = 0
  /\ step = [c \in Consumer |-> "idle"]
  /\ waited = [c \in Consumer |-> -1]
  /\ from = [c \in Consumer |-> 0]
  /\ range = [c \in Consumer |-> None]
  /\ limit = [c \in Consumer |-> 0]
  /\ landed = [c \in Consumer |-> FirstFrame[c] - FrameLen[c] - 1]
  /\ visible = landed
  /\ faults = 0

Collect ==
  \/ \E h \in Epoch : StartCycle(h)
  \/ ReadDemands
  \/ \E d \in snapshot : LookAtDemand(d)
  \/ ChooseStart
  \/ ProcessCheckpoint
  \/ CheckDemands
  \/ Shutdown

Thread(e) ==
  StoreData(e) \/ PruneReadRetention(e) \/ PruneReadNewest(e) \/ PruneDelete(e)

Consume(c) ==
  \/ StartConsumer(c) \/ ReadOwnDemand(c)
  \/ CheckSpan(c) \/ CheckNewest(c) \/ PostDemand(c)
  \/ CheckReport(c) \/ Recheck(c) \/ FetchBatch(c) \/ SubmitReport(c)

Next ==
  \/ Collect
  \/ \E e \in Epoch : Thread(e) \/ ThreadFails(e)
  \/ \E c \in Consumer : Consume(c) \/ RequestFails(c) \/ OthersReport(c)
  \/ TimerFires \/ CycleFails \/ Crash
  \/ Finalize
  \/ \E r \in Retentions : SetRetention(r)

Spec == Init /\ [][Next]_vars

\* Every process keeps running and the chain keeps finalizing; nothing makes a
\* fault, another oracle's report or an administrator's request happen.
Fairness ==
  /\ WF_vars(Collect)
  /\ \A e \in Epoch : WF_vars(Thread(e))
  /\ \A c \in Consumer : WF_vars(Consume(c))
  /\ WF_vars(Finalize)

FairSpec == Spec /\ Fairness

-----------------------------------------------------------------------------
(* Properties *)

\* The collector, the web server and the consumers keep their state to the values
\* the code gives it: a plan starts at an epoch that exists, a request never
\* carries a range that begins after the frames do.
TypeOK ==
  /\ head \in Epoch
  /\ epochs \subseteq Epoch
  /\ demands \in [Consumer -> EpochRange \cup {None}]
  /\ retention \in Nat \ {0}
  /\ pc \in {"idle", "read", "plan", "checkpoint", "threads"}
  /\ threshold \in Epoch \cup {-1}
  /\ cycle \in Epoch /\ start \in Epoch
  /\ snapshot \subseteq [c : Consumer, r : EpochRange]
  /\ job \in [Epoch -> [at : {"none", "queued", "stored", "sized", "prune"}, n : Nat]]
  /\ broken \in BOOLEAN
  /\ fresh \subseteq Consumer /\ seen \in 0..Cardinality(Consumer)
  /\ step \in [Consumer -> {"idle", "demand", "retention", "newest", "store",
                             "report", "recheck", "fetch", "submit"}]
  /\ waited \in [Consumer -> Epoch \cup {-1}]
  /\ from \in [Consumer -> Epoch]
  /\ range \in [Consumer -> EpochRange \cup {None}]
  /\ limit \in [Consumer -> Nat]
  /\ landed \in [Consumer -> Epoch] /\ visible \in [Consumer -> Epoch]
  /\ faults \in 0..MaxFaults

LowestRetention == Min(Retentions \cup {InitRetention})

\* store_epoch and _prune run in several threads, in any order and each with its own
\* outdated reads; together they still never delete an epoch of the retained
\* window, which ends at the newest epoch stored.
RetainedWindowIsKept ==
  [][\A e \in epochs \ epochs' : e <= Max(epochs) - LowestRetention]_vars

\* Whatever the order in which the threads of a checkpoint stored and pruned, once
\* they are done the table spans no more than retention_epochs.
RestingWindow ==
  faults = 0 /\ pc # "threads" /\ epochs # {} => Max(epochs) - Min(epochs) < retention

\* When the collector sleeps until the next finalized epoch, it has stored all that
\* can be stored of every demand that was there when it last looked: neither a
\* demand changed during the cycle nor the other demands of the plan made it skip
\* an epoch.
SleepMeansCollected ==
  pc = "idle" /\ threshold = head =>
    \A c \in Consumer \ fresh :
      demands[c] # None =>
        \A e \in Epochs(demands[c]) :
          e <= MaxAvailable(head) /\ e > Max(epochs \cup {0}) - LowestRetention
            => e \in epochs

RefEpochs(c) == {e \in Epoch : (e + 1 - FirstFrame[c]) % FrameLen[c] = 0}

Collectable(c, e) == e = RefEpoch(c, head) /\ e <= MaxAvailable(head)

\* Once the epochs of a frame can be collected while the frame is to be reported,
\* its report lands: no demand refused, lost, replaced or never noticed, no epoch
\* pruned too early and no restart of the collector keeps a consumer waiting.
ReportsAreDelivered ==
  \A c \in Consumer : \A e \in RefEpochs(c) :
    Collectable(c, e) ~> (landed[c] >= e)

Gap(e) ==
  e \notin epochs /\ (\E f \in epochs : f < e) /\ (\E f \in epochs : e < f)

\* A gap left between stored epochs by a failed thread or a restart is filled, also
\* when nobody demands it, unless pruning gets there first.
GapsAreFilled ==
  \A e \in Epoch :
    Gap(e) ~> (e \in epochs \/ \A f \in epochs : f > e)

\* test_db_min_epoch_zero_is_used_as_start: a plan starts no later than the oldest
\* epoch stored, so that the gaps after it are found.
OldestEpochIsReached ==
  pc \in {"read", "plan"} => \A e \in epochs : start <= e

\* "the demand is already satisfied (data is in the DB)": what the collector deletes
\* is a demand whose range is stored.
OnlySatisfiedDemandsAreDeleted ==
  [][\A c \in Consumer :
       demands[c] # None /\ demands'[c] = None => is_range_available(demands[c])]_vars

=============================================================================

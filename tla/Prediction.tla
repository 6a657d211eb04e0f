----------------------------- MODULE Prediction -----------------------------
(***************************************************************************)
(* The rewards the ejector expects per epoch (services/prediction.py): the *)
(* average of what the reports of the last slots distributed, read from    *)
(* their events.  A report is processed some slots after its reference     *)
(* slot, and its period is longer when the one before it was missed.       *)
(***************************************************************************)
EXTENDS ElReads

CONSTANTS
  Duration,      \* prediction_duration_in_slots
  ReportPeriod,  \* slots of a frame of the accounting oracle
  Gains,         \* what a report may distribute, losses included
  SlotsOfEpoch   \* slots_per_epoch

ASSUME PredictionAssumption ==
  /\ {Duration, ReportPeriod, SlotsOfEpoch} \subseteq Nat \ {0} /\ Gains \subseteq Int

VARIABLE distributed  \* TokenRebased and ETHDistributed of a report, which one transaction emits

predictionVars == <<elVars, distributed>>

-----------------------------------------------------------------------------
(* get_rewards_per_epoch *)

\* The reports whose events are found; both events of a report are of one transaction and
\* have one timestamp.
Recent ==
  LET found == Those(EventsInPast(Duration), {r.event : r \in ToSet(distributed)})
  IN [k \in DOMAIN found |-> CHOOSE r \in ToSet(distributed) : r.event = found[k]]

RewardsOf(reports) == SumFunction([k \in DOMAIN reports |-> reports[k].rewards])
TimeSpent(reports) == SumFunction([k \in DOMAIN reports |-> reports[k].elapsed])

\* Mutant: every report is taken for one of a frame.
RewardsPerEpoch_FramesOnly ==
  LET reports == Recent
  IN IF reports = <<>> THEN 0
     ELSE Max({(RewardsOf(reports) * SlotsOfEpoch) \div (ReportPeriod * Len(reports)), 0})

RewardsPerEpoch ==
  LET reports == Recent
  IN IF reports = <<>> THEN 0
     ELSE Max({(RewardsOf(reports) * SlotsOfEpoch) \div TimeSpent(reports), 0})

-----------------------------------------------------------------------------
(* The chain *)

LastReported == IF distributed = <<>> THEN 0 ELSE Last(distributed).event.timestamp

PredictionInit == ElInit /\ distributed = <<>>

\* A block, in which the report of the last frame that ended may be processed.
AddReport(rewards) ==
  LET ref == (lastSlot \div ReportPeriod) * ReportPeriod
  IN /\ AddBlock /\ ref > LastReported /\ lastSlot' - ref <= MaxLag
     /\ distributed' = Append(distributed,
                              [event |-> [block |-> Number + 1, timestamp |-> ref],
                               rewards |-> rewards, elapsed |-> ref - LastReported])

PredictionNext ==
  \/ (AddBlock \/ MissSlot) /\ UNCHANGED distributed
  \/ \E rewards \in Gains : AddReport(rewards)

PredictionSpec == PredictionInit /\ [][PredictionNext]_predictionVars

-----------------------------------------------------------------------------
(* Properties *)

\* prediction.py:35-85: the speed predicted is what the reports of the last slots distributed
\* over the time from the first of their periods to the last, whichever reports and slots
\* were missed, and never below zero.
PredictedSpeedIsTheAverage ==
  LET recent == Those(distributed, {r \in ToSet(distributed) : r.event.timestamp > lastSlot - Duration})
      time == Last(recent).event.timestamp - (Head(recent).event.timestamp - Head(recent).elapsed)
      gained == RewardsOf(recent) * SlotsOfEpoch
      speed == RewardsPerEpoch
  IN IF recent = <<>> THEN speed = 0
     ELSE /\ speed >= 0
          /\ gained >= 0 => speed * time <= gained /\ gained < (speed + 1) * time
          /\ gained < 0 => speed = 0
=============================================================================

\* A network whose epoch 0 was collected.
\* The exploration ends at MaxHead, where everybody may be idle: no deadlock check.
SPECIFICATION Spec
CONSTANTS
  csm = csm  cm = cm
  None = None
  Consumer = {csm}
  FrameLen <- Three
  FirstFrame <- FromFour
  FirstHead = 3
  MaxHead = 7
  Horizon = 99
  InitRetention = 6
  Retentions = {}
  MaxStep = 2
  Workers = 2
  FetchStep = 2
  MaxFaults = 1
INVARIANTS OldestEpochIsReached
CHECK_DEADLOCK FALSE

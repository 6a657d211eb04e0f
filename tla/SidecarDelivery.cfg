\* One consumer, which reads two epochs at a time; the retention is just what its
\* demands need.
\* The exploration ends at MaxHead, where everybody may be idle: no deadlock check.
SPECIFICATION FairSpec
CONSTANTS
  csm = csm  cm = cm
  None = None
  Consumer = {csm}
  FrameLen <- Three
  FirstFrame <- FromFour
  FirstHead = 7
  MaxHead = 9
  Horizon = 9
  InitRetention = 9
  Retentions = {}
  MaxStep = 3
  Workers = 1
  FetchStep = 2
  MaxFaults = 1
PROPERTIES ReportsAreDelivered
CHECK_DEADLOCK FALSE

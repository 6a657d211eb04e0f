\* Two consumers with different frames, whose reports are read two epochs at a time.
\* The exploration ends at MaxHead, where everybody may be idle: no deadlock check.
SPECIFICATION Spec
CONSTANTS
  csm = csm  cm = cm
  None = None
  Consumer = {csm, cm}
  FrameLen <- Lengths
  FirstFrame <- Firsts
  FirstHead = 6
  MaxHead = 7
  Horizon = 99
  InitRetention = 6
  Retentions = {}
  MaxStep = 2
  Workers = 1
  FetchStep = 2
  MaxFaults = 0
INVARIANTS TypeOK SleepMeansCollected
CHECK_DEADLOCK FALSE

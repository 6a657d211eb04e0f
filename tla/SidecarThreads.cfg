\* The collector alone, with three threads at a time and one fault; retention may be
\* lowered.
\* The exploration ends at MaxHead, where everybody may be idle: no deadlock check.
SPECIFICATION FairSpec
CONSTANTS
  csm = csm  cm = cm
  None = None
  Consumer = {}
  FrameLen <- Three
  FirstFrame <- FromFour
  FirstHead = 5
  MaxHead = 9
  Horizon = 9
  InitRetention = 3
  Retentions = {2}
  MaxStep = 4
  Workers = 3
  FetchStep = 2
  MaxFaults = 1
INVARIANTS RestingWindow
PROPERTIES RetainedWindowIsKept GapsAreFilled
CHECK_DEADLOCK FALSE

\* One consumer, no fault.
\* The exploration ends at MaxHead, where everybody may be idle: no deadlock check.
SPECIFICATION Spec
CONSTANTS
  csm = csm  cm = cm
  None = None
  Consumer = {csm}
  FrameLen <- Three
  FirstFrame <- FromFour
  FirstHead = 6
  MaxHead = 9
  Horizon = 99
  InitRetention = 9
  Retentions = {}
  MaxStep = 6
  Workers = 1
  FetchStep = 2
  MaxFaults = 0
PROPERTIES OnlySatisfiedDemandsAreDeleted
CHECK_DEADLOCK FALSE

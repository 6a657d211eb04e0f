\* Two consensus nodes, cycles one after the other: a header answered while its block was
\* not final yet, and cached, keeps every later cycle from its reference block.
\* What a cycle ends with may be the last state explored: no deadlock check.
SPECIFICATION CycleSpec
CONSTANTS Host = {h1, h2} MaxSlot = 3
PROPERTIES ResolvesAfterRecovery
CHECK_DEADLOCK FALSE

\* A definition refused at startup.
CONSTANTS
  Conns = {c1}
  Poller = poller
  Boot = boot
  Workers = 2
  Definitions = 2
  MaxSeq = 2
  MaxDeaths = 1
SPECIFICATION Spec
INVARIANT DefinitionsFirst
\* The process exits, or waits for a driver that never comes back.
CHECK_DEADLOCK FALSE

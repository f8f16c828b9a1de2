\* Every worker blocked in reconnect_sync when ctrl-c is pressed.
CONSTANTS
  Conns = {c1}
  Poller = poller
  Boot = boot
  Workers = 2
  Definitions = 2
  MaxSeq = 2
  MaxDeaths = 1
SPECIFICATION FairSpec
PROPERTY DrainIsBounded
\* The process exits, or waits for a driver that never comes back.
CHECK_DEADLOCK FALSE

\* A connection and the poller on two workers, a driver that dies once and may
\* not come back.
CONSTANTS
  Conns = {c1}
  Poller = poller
  Boot = boot
  Workers = 2
  Definitions = 2
  MaxSeq = 2
  MaxDeaths = 1
SPECIFICATION FairSpec
INVARIANT InOrder
INVARIANT LossesCounted
PROPERTY CtrlCExits
\* The process exits, or waits for a driver that never comes back.
CHECK_DEADLOCK FALSE

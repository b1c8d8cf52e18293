SPECIFICATION FairSpec
CONSTANTS
  Msgs = {m1}
  Workers = {w1, w2}
  NoWorker = none
  Gone = gone
  w1 = w1
  w2 = w2
  Prefetch <- TwoAndOne
  MaxAttempts = 2
  Disconnects = TRUE
  MaxPublished = 2
  MaxFaults = 2
INVARIANTS TypeOK NothingLost SettledWithCause RepeatsHaveCause
PROPERTIES EventuallyHandled ProcessedRests
CHECK_DEADLOCK FALSE

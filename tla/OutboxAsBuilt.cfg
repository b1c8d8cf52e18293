SPECIFICATION FairSpec
CONSTANTS
  Events = {1}
  Workers = {w1, w2, w3}
  NoWorker = none
  BatchSize = 2
  MaxAttempts = 2
  RabbitEnabled = TRUE
  MaxFaults = 1
INVARIANTS TypeOK PublishedWasSent DuplicatesHaveCause
PROPERTIES AttemptsNeverForgotten EventuallySettled ImplementsPromise
CHECK_DEADLOCK FALSE

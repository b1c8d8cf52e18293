SPECIFICATION Spec
CONSTANTS
  Events = {1}
  Workers = {w1}
  NoWorker = none
  BatchSize = 1
  MaxAttempts = 2
  RabbitEnabled = TRUE
  MaxFaults = 0
INVARIANT PublishedWasHeard
CHECK_DEADLOCK FALSE

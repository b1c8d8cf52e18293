SPECIFICATION Spec
CONSTANTS
  Events = {1, 2}
  Workers = {w1, w2}
  NoWorker = none
  BatchSize = 2
  MaxAttempts = 2
  RabbitEnabled = TRUE
  MaxFaults = 0
INVARIANT ExclusiveClaim
CHECK_DEADLOCK FALSE

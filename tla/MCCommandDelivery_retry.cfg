SPECIFICATION Spec
CONSTANTS
  Commands = {c1}
  NoCommand = NoCommand
  Agents = {g1}
  Kinds = {"good"}
  Expiries <- MCNoExpiry
  MaxDeliver = 10
  AgentDeliveries = 10
  AckWait = 120
  DeliveryLease = 90
  RetryCap = 6
  MaxRetryDelay = 60
  SecondsPerTick = 120
  LongReasons = FALSE
INVARIANT RetryDelayAccepted

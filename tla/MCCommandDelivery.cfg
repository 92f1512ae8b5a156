SPECIFICATION FairSpec
CONSTANTS
  Commands = {c1}
  NoCommand = NoCommand
  Agents = {g1, g2}
  Kinds = {"good", "foreign", "protocol", "unsupported", "incomplete"}
  Expiries <- MCExpiries
  MaxDeliver = 2
  AgentDeliveries = 2
  AckWait = 120
  DeliveryLease = 90
  RetryCap = 6
  MaxRetryDelay = 60
  SecondsPerTick = 30
  LongReasons = FALSE
INVARIANTS TypeOK AckedMeansAnnounced TermedMeansDeadLettered LeaseExclusive DroppedOnlyAfterFault
PROPERTIES ImplementsOutcome EventuallySettled

SPECIFICATION Spec
CONSTANTS
  Handlers = {h1, h2}
  TTL = 2
  LookupTimeout = 2
  Lifetime = 3
  ClockSkew = 1
  AgentOffsets <- MCOffsets
  FetchWait = 2
  Grace = 1
  StaticChoices = {TRUE, FALSE}
  MaxKeys = 2
  MaxFaults = 1
INVARIANTS TypeOK KeyFreshness
PROPERTIES AgentReadmitted PollAnswered

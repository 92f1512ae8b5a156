SPECIFICATION Spec
CONSTANTS
  r1 = r1
  r2 = r2
  d1 = d1
  Runs = {r1, r2}
  Deployments = {d1}
  DeploymentOf <- MCDeploymentOf
  Flushers = {f1, f2}
  NoRun = NoRun
  NoClient = NoClient
  NameOrder <- MCNameOrder
  RefusedChoices <- MCRefused
  EdgeChoices = {TRUE, FALSE}
  MaxFaults = 1
INVARIANTS
  TypeOK
  AcceptedIsKept
  AnnouncedLogIntact
  RefusedStaysOut
PROPERTIES
  SpooledDelivered
  ImplementsDelivery
CHECK_DEADLOCK FALSE

SPECIFICATION FairSpec
CONSTANTS
  m1 = m1
  m2 = m2
  Messages = {m1, m2}
  NoMessage = NoMessage
  HashOrder <- MCHashOrder
  Attachments <- MCUnstorable
  Expiring = {m1}
  MaxDeliver = 1
  MaxCopies = 2
  MaxFaults = 0
PROPERTY InputDrained

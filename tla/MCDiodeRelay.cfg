SPECIFICATION Spec
CONSTANTS
  m1 = m1
  m2 = m2
  Messages = {m1, m2}
  NoMessage = NoMessage
  HashOrder <- MCHashOrder
  Attachments <- MCExportable
  Expiring = {}
  MaxDeliver = 2
  MaxCopies = 2
  MaxFaults = 2
INVARIANTS TypeOK AckedMeansExported UnexportedOnlyIfAlwaysFailing StoredBeforePublished ProcessedMeansPublished RepublishedOnlyIfUnrecorded
PROPERTY LedgerMonotone

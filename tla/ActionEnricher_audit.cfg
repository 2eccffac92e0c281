SPECIFICATION FairSpec
CONSTANTS
  Replicas = {r1}
  Ids <- OneId
  StartID = 0
  BatchSize = 1
  PageSize = 1
  MaxStage = 2
  MaxErrs = 0
PROPERTY AuditTrailComplete

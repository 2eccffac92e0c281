SPECIFICATION Spec
CONSTANTS
  Replicas = {r1}
  Ids <- OneId
  StartID = 0
  BatchSize = 1
  PageSize = 1
  MaxStage = 1
  MaxErrs = 3
PROPERTY PlaceholderMeansNone

SPECIFICATION Spec
CONSTANTS
  Replicas = {r1, r2}
  Ids <- OneId
  StartID = 0
  BatchSize = 1
  PageSize = 1
  MaxStage = 2
  MaxErrs = 0
SYMMETRY ReplicaSymmetry
INVARIANTS TypeOK RecordedIsOnChain
PROPERTIES PlaceholderMeansNone

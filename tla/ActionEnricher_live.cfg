SPECIFICATION FairSpec
CONSTANTS
  Replicas = {r1}
  Ids <- TwoIds
  StartID = 1
  BatchSize = 1
  PageSize = 2
  MaxStage = 1
  MaxErrs = 1
PROPERTIES TxNeverLost GuessedOnlyAfterError PassEnds EveryActionChecked

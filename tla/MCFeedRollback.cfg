CONSTANTS
  None = None
  ObjectID <- MCObjectID
  Version <- MCVersion
  Data <- MCData
  Digest <- MCDigest
  Info = {"tx"}
  Owner = {"alice"}
  Type = {"gem"}
  Account <- MCAccount
  MaxBalance = 9
  fork_checkpoint = 1
  Mainnet <- MCMainnet
  MaxWrites = 3
  Capacity = 1
  Recent = 2
SPECIFICATION FairSpec
PROPERTY FeedCatchesUpAfterRollback
CHECK_DEADLOCK FALSE

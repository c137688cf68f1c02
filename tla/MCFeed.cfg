CONSTANTS
  None = None
  ObjectID <- MCObjectID
  Version <- MCVersion
  Data <- MCData
  Digest <- MCDigest
  Info = {"tx"}
  Owner = {"alice"}
  Type = {"gem"}
  Account <- MCAccount
  MaxBalance = 9
  fork_checkpoint = 1
  Mainnet <- MCMainnet
  MaxWrites = 4
  Capacity = 1
  Recent = 2
SPECIFICATION FairSpec
INVARIANT CheckpointNotBehindCursor
PROPERTY CursorGrows
PROPERTY FeedCatchesUp
CHECK_DEADLOCK FALSE

CONSTANTS
  None = None
  ObjectID <- MCObjectID
  Version <- MCVersion
  Data <- MCData
  Digest <- MCDigest
  Info = {"tx"}
  Owner = {"alice", "carol"}
  Type = {"gold", "gem"}
  Account <- MCAccount
  MaxBalance = 9
  fork_checkpoint = 1
  Mainnet <- MCMainnet
  MaxWrites = 3
  ObjectFields = {"gem"}
  PageCap = 1
  Limits = {0, 5}
  MAX_LIMIT = 3
  MaxQueries = 1
SPECIFICATION Spec
 
INVARIANT QuietBalancesAreComplete
INVARIANT NoCoinCountedTwice
 
INVARIANT FieldsWrongOnlyWhereTouched
INVARIANT ForkAccountsAreListed

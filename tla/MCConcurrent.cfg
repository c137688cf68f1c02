CONSTANTS
  None = None
  Clock = "0x6"
  SystemInner = "0x5.inner"
  Shared = "shared"
  Override = "shared"
  Coins = {}
  Bump = {TRUE}
  ObjectID <- MCObjectID
  Version <- MCVersion
  Data <- MCData
  Digest <- MCDigest
  Info <- MCInfo
  Account = {}
  MaxBalance = 0
  fork_checkpoint = 1
  Mainnet <- MCMainnet
  InitialEpoch = 7
  InitialStart = 3
  EPOCH_MS = 4
  Jumps = {}
  Counts = {1}
  Client = {"c", "d"}
  Handlers = {"execute", "epoch_advance", "state_dump"}
  MaxRequests = 3
  MaxNow = 0
  MaxCrashes = 0
  FailingReads = TRUE
  Disconnects = TRUE
SPECIFICATION FairSpec
INVARIANT NoLostUpdates
 
PROPERTY RequestsAnswered
CHECK_DEADLOCK FALSE

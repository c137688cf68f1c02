CONSTANTS
  None = None
  Clock = "0x6"
  SystemInner = "0x5.inner"
  Shared = "shared"
  Override = "shared"
  Coins = {}
  Bump = {TRUE}
  ObjectID <- MCObjectID
  Version <- MCVersion
  Data <- MCData
  Digest <- MCDigest
  Info <- MCInfo
  Account = {}
  MaxBalance = 0
  fork_checkpoint = 1
  Mainnet <- MCMainnet
  InitialEpoch = 7
  InitialStart = 3
  EPOCH_MS = 4
  Jumps = {1}
  Counts = {1, 2}
  Client = {"c", "d"}
  Handlers = {"execute", "snapshot", "revert"}
  MaxRequests = 4
  MaxNow = 0
  MaxCrashes = 0
  FailingReads = FALSE
  Disconnects = FALSE
SPECIFICATION Spec
INVARIANT NoLostUpdates

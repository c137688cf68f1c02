CONSTANTS
  None = None
  Clock = "0x6"
  SystemInner = "0x5.inner"
  Shared = "shared"
  Override = "shared"
  Coins = {"coin"}
  Bump = {TRUE, FALSE}
  ObjectID <- MCObjectID
  Version <- MCVersion
  Data <- MCData
  Digest <- MCDigest
  Info <- MCInfo
  Account = {}
  MaxBalance = 0
  fork_checkpoint = 1
  Mainnet <- MCMainnet
  InitialEpoch = 7
  InitialStart = 3
  EPOCH_MS = 4
  Jumps = {1}
  Counts = {1, 2}
  Client = {"c"}
  Handlers = {"execute", "snapshot", "revert", "reset", "epoch_advance", "clock_set", "clock_freeze", "clock_auto", "set_contents", "fund", "state_dump", "state_load"}
  MaxRequests = 4
  MaxNow = 1
  MaxCrashes = 1
  FailingReads = FALSE
  Disconnects = FALSE
SPECIFICATION Spec
INVARIANT TypeOK
INVARIANT SystemStateEpochAgrees
INVARIANT TxTimeConsistent
 
PROPERTY RevertRestoresCapture
PROPERTY VersionsIncrease
PROPERTY LoadRestoresDump
PROPERTY ClockMonotonic

CONSTANTS
  a = a  b = b  c = c  d = d  e = e  f = f  g = g  h = h  u = u  x = x
  Msgs <- MCMsgs
  Parents <- MCParents
  ConfIndex <- MCConfIndex
  MsMsg <- MCMsMsg
  MaybeMilestoneTxs <- MCMaybeMilestoneTxs
  BundledTxs <- MCBundledTxs
  MilestoneTxs <- MCMilestoneTxs
  UnconfAt <- MCUnconfAt
  MaxIndex = 6
  SnapshotIndex = 5
  ThresholdPast = 1
  AdditionalThreshold = 0
  MissingMilestones = {2}
  IndexModulus = 64
  MaxRuns = 4
  MaxCrashes = 2
SPECIFICATION Spec
CHECK_DEADLOCK FALSE
INVARIANT ResumeAccepted
